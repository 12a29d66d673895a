------------------------------ MODULE Lifetime ------------------------------
(***************************************************************************)
(* When the runtime ends (sonarad lifetime.rs, main.rs, http.rs, tcp.rs    *)
(* and the admission lock of protocol/mod.rs).                             *)
(*                                                                         *)
(* The monitor looks every tick whether anything holds the process; once   *)
(* the idle time ran out it decides the exit under the admission lock.     *)
(* HTTP requests, TCP clients, hotkeys, the thread that feeds the next     *)
(* channel entry and a takeover run beside it.                             *)
(*                                                                         *)
(* Requests are `speak`; what is read is a count of items in the reader    *)
(* and of entries that wait in channels.  The idle time is counted in      *)
(* units, and three things are taken to be short: a unit is longer than    *)
(* many ticks of the monitor, so it looks in every unit while no entry is  *)
(* being fed; feeding the next entry takes no unit; and what is read lasts *)
(* longer than a tick, so the monitor sees it.                             *)
(***************************************************************************)
EXTENDS Naturals, FiniteSets

CONSTANTS Requests,   \* HTTP requests, each on a connection of its own
          Conns,      \* TCP connections
          IdleExit,   \* the idle time, in units
          MaxPresses  \* bound: hotkey presses

ASSUME LifetimeAssumption == IdleExit \in Nat /\ IdleExit > 1 /\ MaxPresses \in Nat

VARIABLES
  life,     \* units since the last activity, keep_alive, the exit asked for,
            \* whether the monitor looked in this unit
  retiring, \* the admission lock's flag: nothing is admitted any more
  http,     \* where each request is
  tcp,      \* where each connection is
  reader,   \* items in the reader, whether it is paused, entries waiting,
            \* whether the monitor saw it read
  monitor,  \* the monitor's next step
  main,     \* run's: serving, closing the listener, waiting for replies, down
  presses,  \* hotkey presses so far
  who       \* why nothing is admitted any more

lifeVars == <<life, retiring, http, tcp, reader, monitor, main, presses, who>>

None == "none"

(* Where a request is: away, waiting, accepted, routed, dispatched,        *)
(* answered, or silent, a connection that sent nothing in time once the    *)
(* exit was decided.  A TCP connection: away, hello, client, gone,         *)
(* takeover.                                                               *)

Fresh ==
  /\ life = [idle |-> 0, keep |-> FALSE, exit |-> None, looked |-> TRUE]
  /\ retiring = FALSE
  /\ http = [r \in Requests |-> "away"]
  /\ tcp = [c \in Conns |-> "away"]
  /\ reader = [items |-> 0, paused |-> FALSE, entries |-> 0, seen |-> FALSE]
  /\ monitor = "tick"
  /\ presses = 0
  /\ who = None

LifetimeInit == Fresh /\ main = "serving"

Running == main # "down"

-----------------------------------------------------------------------------
(* Lifetime.                                                               *)

touched == [life EXCEPT !.idle = 0]
clients == {c \in Conns : tcp[c] = "client"}
may_idle_exit == ~life.keep /\ clients = {}
idle_expired == life.idle >= IdleExit
request_exit(why) == [life EXCEPT !.exit = IF @ = None THEN why ELSE @]

(* Pending requests: a connection until its first reply, and each request. *)
pending == {r \in Requests : http[r] \in {"accepted", "routed", "dispatched"}}

(* The reader's state, as Server asks for it.                              *)
is_busy == reader.items > 0 /\ ~reader.paused
is_idle == reader.items = 0 /\ reader.entries = 0

(* The drain thread has an entry to feed.                                  *)
Feeding == reader.items = 0 /\ reader.entries > 0

(* Server::retire_if_idle's decision.                                      *)
retires == retiring \/ (may_idle_exit /\ idle_expired /\ ~is_busy)

-----------------------------------------------------------------------------
(* The monitor.                                                            *)

(* The fault: an idle tick restarts the countdown.                         *)
Tick_touches ==
  /\ Running /\ monitor = "tick"
  /\ monitor' = IF life.exit # None THEN "ended" ELSE "busy"
  /\ life' = touched
  /\ UNCHANGED <<retiring, http, tcp, reader, main, presses, who>>

Tick ==
  /\ Running /\ monitor = "tick"
  /\ IF life.exit # None
     THEN monitor' = "ended" /\ UNCHANGED life
     ELSE IF may_idle_exit
     THEN monitor' = "busy" /\ UNCHANGED life
     ELSE monitor' = "tick" /\ life' = [touched EXCEPT !.looked = TRUE]
  /\ UNCHANGED <<retiring, http, tcp, reader, main, presses, who>>

AskBusy ==
  /\ Running /\ monitor = "busy"
  /\ life' = IF is_busy THEN [touched EXCEPT !.looked = TRUE]
             ELSE [life EXCEPT !.looked = @ \/ ~Feeding]
  /\ reader' = [reader EXCEPT !.seen = @ \/ is_busy]
  /\ monitor' = IF ~is_busy /\ idle_expired THEN "retire" ELSE "tick"
  /\ UNCHANGED <<retiring, http, tcp, main, presses, who>>

(* retire_if_idle, under the admission lock.                               *)
Retire ==
  /\ Running /\ monitor = "retire"
  /\ retiring' = retires
  /\ who' = IF retires /\ ~retiring THEN "idle" ELSE who
  /\ monitor' = IF retires THEN "exit" ELSE "tick"
  /\ UNCHANGED <<life, http, tcp, reader, main, presses>>

ExitIdle ==
  /\ Running /\ monitor = "exit"
  /\ life' = request_exit("idle") /\ monitor' = "ended"
  /\ UNCHANGED <<retiring, http, tcp, reader, main, presses, who>>

(* A unit of time.                                                         *)
Later ==
  /\ Running /\ life.looked /\ ~Feeding /\ life.exit = None
  /\ life.idle < IdleExit
  /\ life' = [life EXCEPT !.idle = @ + 1, !.looked = FALSE]
  /\ UNCHANGED <<retiring, http, tcp, reader, monitor, main, presses, who>>

-----------------------------------------------------------------------------
(* HTTP.                                                                   *)

Moves(r, at) == http' = [http EXCEPT ![r] = at]

Connect(r) ==
  /\ main \in {"serving", "draining"} /\ http[r] = "away" /\ Moves(r, "waiting")
  /\ UNCHANGED <<life, retiring, tcp, reader, monitor, main, presses, who>>

Accept(r) ==
  /\ main \in {"serving", "draining"} /\ http[r] = "waiting" /\ Moves(r, "accepted")
  /\ UNCHANGED <<life, retiring, tcp, reader, monitor, main, presses, who>>

(* Once the exit was asked for, a connection that sent nothing within      *)
(* FIRST_GRACE no longer holds it.                                         *)
GiveUp(r) ==
  /\ Running /\ life.exit # None /\ http[r] = "accepted" /\ Moves(r, "silent")
  /\ UNCHANGED <<life, retiring, tcp, reader, monitor, main, presses, who>>

(* route: the request counts as activity; one that comes while exiting is  *)
(* answered E_BUSY.                                                        *)
Route(r) ==
  /\ Running /\ http[r] = "accepted"
  /\ life' = touched
  /\ Moves(r, IF life.exit # None THEN "answered" ELSE "routed")
  /\ UNCHANGED <<retiring, tcp, reader, monitor, main, presses, who>>

(* Server::handle refuses everything while exiting.                        *)
Handle(r) ==
  /\ Running /\ http[r] = "routed"
  /\ Moves(r, IF life.exit # None \/ retiring THEN "answered" ELSE "dispatched")
  /\ UNCHANGED <<life, retiring, tcp, reader, monitor, main, presses, who>>

(* Admitted, the text is the reader's or waits in a channel.               *)
spoken ==
  {[reader EXCEPT !.items = @ + 1, !.seen = @ /\ reader.items > 0]}
  \cup (IF reader.items = 0 THEN {} ELSE {[reader EXCEPT !.entries = @ + 1]})

(* The fault: the flag is not looked at under the lock again.              *)
Admit_unlocked(r) ==
  /\ Running /\ http[r] = "dispatched" /\ Moves(r, "answered")
  /\ reader' \in spoken
  /\ UNCHANGED <<life, retiring, tcp, monitor, main, presses, who>>

Admit(r) ==
  /\ Running /\ http[r] = "dispatched" /\ Moves(r, "answered")
  /\ reader' \in IF retiring THEN {reader} ELSE spoken
  /\ UNCHANGED <<life, retiring, tcp, monitor, main, presses, who>>

Serving(r) == Accept(r) \/ Route(r) \/ Handle(r) \/ Admit(r)

-----------------------------------------------------------------------------
(* TCP.                                                                    *)

HelloLine(c) ==
  /\ Running /\ tcp[c] = "away"
  /\ life' = touched /\ tcp' = [tcp EXCEPT ![c] = "hello"]
  /\ UNCHANGED <<retiring, http, reader, monitor, main, presses, who>>

(* `hello` is answered and the connection counts as a client.              *)
HelloDone(c) ==
  /\ Running /\ tcp[c] = "hello"
  /\ \E keep \in BOOLEAN : life' = [touched EXCEPT !.keep = @ \/ keep]
  /\ tcp' = [tcp EXCEPT ![c] = "client"]
  /\ UNCHANGED <<retiring, http, reader, monitor, main, presses, who>>

Disconnect(c) ==
  /\ Running /\ tcp[c] = "client"
  /\ life' = touched /\ tcp' = [tcp EXCEPT ![c] = "gone"]
  /\ UNCHANGED <<retiring, http, reader, monitor, main, presses, who>>

(* `hello` with takeover, under the admission lock; refused while anything *)
(* is read or waits.                                                       *)
Takeover(c) ==
  /\ Running /\ tcp[c] = "hello" /\ (retiring \/ is_idle)
  /\ retiring' = TRUE /\ who' = (IF retiring THEN who ELSE "takeover")
  /\ tcp' = [tcp EXCEPT ![c] = "takeover"]
  /\ UNCHANGED <<life, http, reader, monitor, main, presses>>

TakeoverRefused(c) ==
  /\ Running /\ tcp[c] = "hello" /\ ~retiring /\ ~is_idle
  /\ tcp' = [tcp EXCEPT ![c] = "gone"]
  /\ UNCHANGED <<life, retiring, http, reader, monitor, main, presses, who>>

(* `shutdown` stops the reader first.                                      *)
ShutdownMessage(c) ==
  /\ Running /\ tcp[c] = "client" /\ life.exit = None /\ ~retiring
  /\ life' = touched
  /\ retiring' = TRUE /\ who' = "shutdown"
  /\ reader' = [reader EXCEPT !.items = 0, !.paused = FALSE]
  /\ tcp' = [tcp EXCEPT ![c] = "takeover"]
  /\ UNCHANGED <<http, monitor, main, presses>>

(* Once the reply to either went out.                                      *)
ExitForTakeover(c) ==
  /\ Running /\ tcp[c] = "takeover"
  /\ life' = request_exit("takeover") /\ tcp' = [tcp EXCEPT ![c] = "gone"]
  /\ UNCHANGED <<retiring, http, reader, monitor, main, presses, who>>

(* Ctrl+C.                                                                 *)
Signal ==
  /\ main = "serving" /\ life.exit = None
  /\ life' = request_exit("signal")
  /\ UNCHANGED <<retiring, http, tcp, reader, monitor, main, presses, who>>

-----------------------------------------------------------------------------
(* Reading.                                                                *)

ItemEnds ==
  /\ Running /\ is_busy /\ reader.seen
  /\ reader' = [reader EXCEPT !.items = @ - 1]
  /\ UNCHANGED <<life, retiring, http, tcp, monitor, main, presses, who>>

(* The drain thread feeds the next entry once the reader is idle.          *)
Pump ==
  /\ Running /\ Feeding
  /\ reader' = [reader EXCEPT !.items = 1, !.entries = @ - 1, !.seen = FALSE]
  /\ UNCHANGED <<life, retiring, http, tcp, monitor, main, presses, who>>

(* The pause key, under the admission lock and without activity.  An idle  *)
(* reader does not pause.                                                  *)
Toggle ==
  /\ Running /\ ~retiring /\ presses < MaxPresses /\ reader.items > 0
  /\ presses' = presses + 1
  /\ reader' = [reader EXCEPT !.paused = ~@, !.seen = FALSE]
  /\ UNCHANGED <<life, retiring, http, tcp, monitor, main, who>>

-----------------------------------------------------------------------------
(* main::run's end: the listener closes once no connection waits, then     *)
(* every pending request is answered.  The limits of both waits are taken  *)
(* to be long enough for the handlers.                                     *)

Draining ==
  /\ main = "serving" /\ life.exit # None /\ main' = "draining"
  /\ UNCHANGED <<life, retiring, http, tcp, reader, monitor, presses, who>>

ListenerCloses ==
  /\ main = "draining" /\ \A r \in Requests : http[r] # "waiting"
  /\ main' = "requests"
  /\ UNCHANGED <<life, retiring, http, tcp, reader, monitor, presses, who>>

RequestsDone ==
  /\ main = "requests" /\ pending = {} /\ main' = "down"
  /\ UNCHANGED <<life, retiring, http, tcp, reader, monitor, presses, who>>

Exits == Draining \/ ListenerCloses \/ RequestsDone
Monitors == Tick \/ AskBusy \/ Retire \/ ExitIdle
HttpCalls == \E r \in Requests : Connect(r) \/ Serving(r) \/ GiveUp(r)
TcpCalls == \E c \in Conns : \/ HelloLine(c) \/ HelloDone(c) \/ Disconnect(c)
                             \/ Takeover(c) \/ TakeoverRefused(c) \/ ShutdownMessage(c)
                             \/ ExitForTakeover(c)
Reads == ItemEnds \/ Pump \/ Toggle

LifetimeNext == Monitors \/ Later \/ HttpCalls \/ TcpCalls \/ Signal \/ Reads \/ Exits

LifetimeSpec == LifetimeInit /\ [][LifetimeNext]_lifeVars

(* The monitor, time, the handlers, the reader and main go on.  Clients,   *)
(* keys and signals need not.                                              *)
LifetimeFair ==
  /\ WF_lifeVars(Monitors) /\ WF_lifeVars(Later) /\ WF_lifeVars(Exits)
  /\ WF_lifeVars(ItemEnds) /\ WF_lifeVars(Pump)
  /\ \A r \in Requests : WF_lifeVars(Serving(r)) /\ WF_lifeVars(GiveUp(r))
  /\ \A c \in Conns : WF_lifeVars(HelloDone(c) \/ Takeover(c) \/ TakeoverRefused(c))
                      /\ WF_lifeVars(ExitForTakeover(c))

-----------------------------------------------------------------------------
(* Properties.                                                             *)

(* An idle exit loses nothing that was accepted: from its decision on,     *)
(* nothing is being read and nothing waits but behind the user's pause,    *)
(* whatever requests and keys came while it was decided (retire_if_idle    *)
(* and the admission lock, #194).                                          *)
KeptSpeech == who = "idle" => reader.paused \/ is_idle

(* Every request the runtime accepted before it ended was answered, unless *)
(* its connection stayed silent (http.rs and requests_done, #247).         *)
AnsweredBeforeExit ==
  main = "down" => \A r \in Requests : http[r] \in {"away", "answered", "silent"}

(* The runtime does not end before what it accepted is read or answered.   *)
EndsClean == KeptSpeech /\ AnsweredBeforeExit

(* A runtime nobody uses ends: once no client is connected for good and    *)
(* nobody asked to keep it, it goes down, also with an item left paused    *)
(* (lifetime.rs monitor).                                                  *)
IdleEnds == <>[](~life.keep /\ \A c \in Conns : tcp[c] \in {"away", "gone"}) => <>(main = "down")
=============================================================================
