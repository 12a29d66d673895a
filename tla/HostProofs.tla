----------------------------- MODULE HostProofs -----------------------------
(***************************************************************************)
(* Proofs about the host, for any number of requests, connections, threads *)
(* and events: the runtime does not end before what it accepted is read or *)
(* answered (Lifetime); a chunk of an external engine is cut once the hold *)
(* is up, and the hold and the stored level follow the mute (Muting).      *)
(***************************************************************************)
EXTENDS Muting, Lifetime, SequenceTheorems, TLAPS

-----------------------------------------------------------------------------
(* The end of the runtime.                                                 *)

HttpPlaces == {"away", "waiting", "accepted", "routed", "dispatched", "answered", "silent"}

Reasons == {"none", "idle", "takeover", "signal"}

LifeType ==
  /\ life \in [idle : Nat, keep : BOOLEAN, exit : Reasons, looked : BOOLEAN]
  /\ retiring \in BOOLEAN
  /\ reader \in [items : Nat, paused : BOOLEAN, entries : Nat, seen : BOOLEAN]
  /\ http \in [Requests -> HttpPlaces]

(* Only something that is read can be paused.                              *)
PausedReads == reader.paused => reader.items > 0

(* What is read and was seen to be read touched the countdown in this unit *)
(* or in the last one.                                                     *)
SeenTouched ==
  is_busy /\ reader.seen => life.idle = 0 \/ (life.idle = 1 /\ ~life.looked)

(* An entry waits for its feeding only while the countdown just started.   *)
FedSoon == Feeding => life.idle <= 1

(* The idle exit was decided under the admission lock, with nothing read.  *)
IdleDecided == who = "idle" => retiring /\ (reader.paused \/ is_idle)

(* Once the listener is closed no connection waits to be accepted, and at  *)
(* the end no request is pending.                                          *)
ListenerClosed ==
  /\ main \in {"requests", "down"} => \A r \in Requests : http[r] # "waiting"
  /\ main = "down" => \A r \in Requests : http[r] \notin {"accepted", "routed", "dispatched"}

LifetimeIInv ==
  LifeType /\ PausedReads /\ SeenTouched /\ FedSoon /\ IdleDecided /\ ListenerClosed

(* A runtime starts with nothing read, nothing waiting and nobody there.   *)
LEMMA LifetimeInitIInv == LifetimeInit => LifetimeIInv
<1> SUFFICES ASSUME LifetimeInit PROVE LifetimeIInv
  OBVIOUS
<1>1. LifeType
  <2>0. life = [idle |-> 0, keep |-> FALSE, exit |-> "none", looked |-> TRUE]
    BY DEF LifetimeInit, Fresh, None
  <2>1. life \in [idle : Nat, keep : BOOLEAN, exit : Reasons, looked : BOOLEAN]
    <3>1. 0 \in Nat /\ "none" \in Reasons /\ FALSE \in BOOLEAN /\ TRUE \in BOOLEAN
      BY DEF Reasons
    <3> QED
      BY <2>0, <3>1, Zenon
  <2>2. http \in [Requests -> HttpPlaces]
    BY DEF LifetimeInit, Fresh, HttpPlaces
  <2> QED
    BY <2>1, <2>2 DEF LifetimeInit, Fresh, LifeType
<1>2. PausedReads /\ SeenTouched /\ FedSoon
  BY DEF LifetimeInit, Fresh, PausedReads, SeenTouched, FedSoon, is_busy, Feeding
<1>3. IdleDecided /\ ListenerClosed
  BY DEF LifetimeInit, Fresh, IdleDecided, ListenerClosed, None
<1> QED
  BY <1>1, <1>2, <1>3 DEF LifetimeIInv

(* A request that moves leaves the rest of the runtime as it is.           *)
LEMMA RequestMoves ==
  ASSUME LifetimeIInv, NEW r \in Requests, NEW at \in HttpPlaces, Moves(r, at),
         at = "waiting" => main \in {"serving", "draining"},
         at \in {"accepted", "routed", "dispatched"} => main # "down",
         UNCHANGED main
  PROVE  ListenerClosed' /\ http' \in [Requests -> HttpPlaces]
BY DEF LifetimeIInv, LifeType, ListenerClosed, Moves

(* A step after which the countdown is the same or restarted, and the      *)
(* reader and the decision are the same.                                   *)
LEMMA CountdownRestarts ==
  ASSUME LifetimeIInv, life' \in [idle : Nat, keep : BOOLEAN, exit : Reasons, looked : BOOLEAN],
         life'.idle = 0 \/ (life'.idle = life.idle /\ life'.looked = life.looked),
         UNCHANGED <<reader, retiring, who>>
  PROVE  PausedReads' /\ SeenTouched' /\ FedSoon' /\ IdleDecided'
BY DEF LifetimeIInv, LifeType, PausedReads, SeenTouched, FedSoon, IdleDecided, is_busy, is_idle,
       Feeding

(* The countdown a request, a connection or a decided exit leaves.         *)
LEMMA CountdownTyped ==
  ASSUME LifeType
  PROVE  /\ touched \in [idle : Nat, keep : BOOLEAN, exit : Reasons, looked : BOOLEAN]
         /\ touched.idle = 0
         /\ \A why \in Reasons :
              /\ request_exit(why) \in
                   [idle : Nat, keep : BOOLEAN, exit : Reasons, looked : BOOLEAN]
              /\ request_exit(why).idle = life.idle
              /\ request_exit(why).looked = life.looked
BY DEF LifeType, Reasons, touched, request_exit

LEMMA MonitorKeeps == ASSUME LifetimeIInv, Monitors \/ Later PROVE LifetimeIInv'
<1> USE DEF LifetimeIInv
<1>1. LifeType /\ PausedReads /\ SeenTouched /\ FedSoon /\ IdleDecided /\ ListenerClosed
  OBVIOUS
<1>2. CASE Tick
  <2>1. UNCHANGED <<retiring, http, reader, main, who>>
    BY <1>2 DEF Tick
  <2>2. /\ life' \in [idle : Nat, keep : BOOLEAN, exit : Reasons, looked : BOOLEAN]
        /\ life'.idle = 0 \/ (life'.idle = life.idle /\ life'.looked = life.looked)
    <3>1. life' = life \/ life' = [touched EXCEPT !.looked = TRUE]
      BY <1>2 DEF Tick
    <3>2. CASE life' = life
      BY <1>1, <3>2 DEF LifeType
    <3>3. CASE life' = [touched EXCEPT !.looked = TRUE]
      BY <1>1, <3>3, CountdownTyped
    <3> QED
      BY <3>1, <3>2, <3>3
  <2> QED
    BY <1>1, <2>1, <2>2, CountdownRestarts DEF LifeType, ListenerClosed
<1>3. CASE AskBusy
  <2>1. UNCHANGED <<retiring, http, main, who>>
    BY <1>3 DEF AskBusy
  <2>2. life' \in [idle : Nat, keep : BOOLEAN, exit : Reasons, looked : BOOLEAN]
    BY <1>1, <1>3 DEF AskBusy, LifeType, touched, is_busy, Feeding
  <2>3. reader' \in [items : Nat, paused : BOOLEAN, entries : Nat, seen : BOOLEAN]
    BY <1>1, <1>3 DEF AskBusy, LifeType, is_busy
  <2>4. /\ reader'.items = reader.items /\ reader'.paused = reader.paused
        /\ reader'.entries = reader.entries
        /\ is_busy => life'.idle = 0
        /\ ~is_busy => life'.idle = life.idle /\ reader'.seen = reader.seen
    BY <1>1, <1>3 DEF AskBusy, LifeType, touched, is_busy
  <2>5. PausedReads' /\ SeenTouched' /\ FedSoon' /\ IdleDecided'
    BY <1>1, <2>1, <2>2, <2>3, <2>4
    DEF LifeType, PausedReads, SeenTouched, FedSoon, IdleDecided, is_busy, is_idle, Feeding
  <2> QED
    BY <1>1, <2>1, <2>2, <2>3, <2>5 DEF LifeType, ListenerClosed
<1>4. CASE Retire
  <2>1. UNCHANGED <<life, http, reader, main>>
    BY <1>4 DEF Retire
  <2>2. retiring' \in BOOLEAN /\ (retiring => retiring')
    BY <1>1, <1>4
    DEF Retire, retires, LifeType, may_idle_exit, idle_expired, is_busy
  <2>3. IdleDecided'
    <3>1. CASE retires /\ ~retiring
      <4>1. life.idle > 1 /\ ~is_busy
        BY <1>1, <3>1, LifetimeAssumption DEF retires, idle_expired, LifeType
      <4>2. reader.paused \/ is_idle
        BY <1>1, <4>1 DEF LifeType, FedSoon, Feeding, is_busy, is_idle
      <4>3. retiring'
        BY <1>4, <3>1 DEF Retire
      <4> QED
        BY <2>1, <4>2, <4>3 DEF IdleDecided, is_idle
    <3>2. CASE ~(retires /\ ~retiring)
      <4>1. who' = who
        BY <1>4, <3>2 DEF Retire
      <4> QED
        BY <1>1, <2>1, <2>2, <4>1 DEF IdleDecided, is_idle
    <3> QED
      BY <3>1, <3>2
  <2> QED
    BY <1>1, <2>1, <2>2, <2>3
    DEF LifeType, PausedReads, SeenTouched, FedSoon, ListenerClosed, is_busy, Feeding
<1>5. CASE ExitIdle
  <2>1. UNCHANGED <<retiring, http, reader, main, who>> /\ life' = request_exit("idle")
    BY <1>5 DEF ExitIdle
  <2>2. "idle" \in Reasons
    BY DEF Reasons
  <2>3. /\ life' \in [idle : Nat, keep : BOOLEAN, exit : Reasons, looked : BOOLEAN]
        /\ life'.idle = life.idle /\ life'.looked = life.looked
    BY <1>1, <2>1, <2>2, CountdownTyped
  <2> QED
    BY <1>1, <2>1, <2>3, CountdownRestarts DEF LifeType, ListenerClosed
<1>6. CASE Later
  <2>1. UNCHANGED <<retiring, http, reader, main, who>> /\ ~Feeding /\ life.looked
    BY <1>6 DEF Later
  <2>2. life.idle + 1 \in Nat
    BY <1>1 DEF LifeType
  <2>3. /\ life' \in [idle : Nat, keep : BOOLEAN, exit : Reasons, looked : BOOLEAN]
        /\ life'.idle = life.idle + 1 /\ ~life'.looked
    BY <1>1, <1>6, <2>2 DEF Later, LifeType
  <2>4. PausedReads' /\ SeenTouched' /\ FedSoon' /\ IdleDecided'
    BY <1>1, <2>1, <2>3
    DEF LifeType, PausedReads, SeenTouched, FedSoon, IdleDecided, is_busy, is_idle, Feeding
  <2> QED
    BY <1>1, <2>1, <2>3, <2>4 DEF LifeType, ListenerClosed
<1> QED
  BY <1>2, <1>3, <1>4, <1>5, <1>6 DEF Monitors

LEMMA HttpKeeps == ASSUME LifetimeIInv, HttpCalls PROVE LifetimeIInv'
<1> USE DEF LifetimeIInv
<1> PICK r \in Requests : Connect(r) \/ Serving(r) \/ GiveUp(r)
  BY DEF HttpCalls
<1>1. LifeType /\ PausedReads /\ SeenTouched /\ FedSoon /\ IdleDecided /\ ListenerClosed
  OBVIOUS
<1>2. CASE Connect(r)
  <2>1. ListenerClosed' /\ http' \in [Requests -> HttpPlaces]
    BY <1>2, RequestMoves, "waiting" \in HttpPlaces DEF Connect, HttpPlaces
  <2> QED
    BY <1>1, <1>2, <2>1, CountdownRestarts DEF Connect, LifeType
<1>3. CASE Accept(r)
  <2>1. ListenerClosed' /\ http' \in [Requests -> HttpPlaces]
    BY <1>3, RequestMoves, "accepted" \in HttpPlaces DEF Accept, HttpPlaces
  <2> QED
    BY <1>1, <1>3, <2>1, CountdownRestarts DEF Accept, LifeType
<1>4. CASE GiveUp(r)
  <2>1. ListenerClosed' /\ http' \in [Requests -> HttpPlaces]
    BY <1>4, RequestMoves, "silent" \in HttpPlaces DEF GiveUp, HttpPlaces
  <2> QED
    BY <1>1, <1>4, <2>1, CountdownRestarts DEF GiveUp, LifeType
<1>5. CASE Route(r)
  <2>1. PICK at \in {"answered", "routed"} : Moves(r, at)
    BY <1>5 DEF Route
  <2>2. ListenerClosed' /\ http' \in [Requests -> HttpPlaces]
    BY <1>5, <2>1, RequestMoves, at \in HttpPlaces DEF Route, HttpPlaces, Running
  <2>3. life' = touched /\ UNCHANGED <<retiring, reader, main, who>>
    BY <1>5 DEF Route
  <2> QED
    BY <1>1, <2>2, <2>3, CountdownTyped, CountdownRestarts DEF LifeType
<1>6. CASE Handle(r)
  <2>1. PICK at \in {"answered", "dispatched"} : Moves(r, at)
    BY <1>6 DEF Handle
  <2>2. ListenerClosed' /\ http' \in [Requests -> HttpPlaces]
    BY <1>6, <2>1, RequestMoves, at \in HttpPlaces DEF Handle, HttpPlaces, Running
  <2>3. UNCHANGED <<life, retiring, reader, main, who>>
    BY <1>6 DEF Handle
  <2> QED
    BY <1>1, <2>2, <2>3, CountdownRestarts DEF LifeType
<1>7. CASE Admit(r)
  <2>1. ListenerClosed' /\ http' \in [Requests -> HttpPlaces]
    BY <1>7, RequestMoves, "answered" \in HttpPlaces DEF Admit, HttpPlaces
  <2>2. UNCHANGED <<life, retiring, main, who>> /\ reader' \in IF retiring THEN {reader} ELSE spoken
    BY <1>7 DEF Admit
  <2>3. CASE reader' = reader
    BY <1>1, <2>1, <2>2, <2>3, CountdownRestarts DEF LifeType
  <2>4. CASE ~retiring /\ reader' = [reader EXCEPT !.items = @ + 1, !.seen = @ /\ reader.items > 0]
    <3>1. reader.items + 1 \in Nat /\ (reader.seen /\ reader.items > 0) \in BOOLEAN
      BY <1>1 DEF LifeType
    <3>2. reader' \in [items : Nat, paused : BOOLEAN, entries : Nat, seen : BOOLEAN]
      BY <1>1, <2>4, <3>1 DEF LifeType
    <3>3. /\ reader'.items = reader.items + 1 /\ reader'.paused = reader.paused
          /\ reader'.seen = (reader.seen /\ reader.items > 0)
      BY <1>1, <2>4 DEF LifeType
    <3> QED
      BY <1>1, <2>1, <2>2, <2>4, <3>2, <3>3
      DEF LifeType, PausedReads, SeenTouched, FedSoon, IdleDecided, is_busy, is_idle, Feeding
  <2>5. CASE ~retiring /\ reader.items # 0 /\ reader' = [reader EXCEPT !.entries = @ + 1]
    <3>1. reader.entries + 1 \in Nat
      BY <1>1 DEF LifeType
    <3>2. /\ reader' \in [items : Nat, paused : BOOLEAN, entries : Nat, seen : BOOLEAN]
          /\ reader'.items = reader.items /\ reader'.paused = reader.paused
          /\ reader'.seen = reader.seen
      BY <1>1, <2>5, <3>1 DEF LifeType
    <3> QED
      BY <1>1, <2>1, <2>2, <2>5, <3>2
      DEF LifeType, PausedReads, SeenTouched, FedSoon, IdleDecided, is_busy, is_idle, Feeding
  <2> QED
    BY <2>2, <2>3, <2>4, <2>5 DEF spoken
<1> QED
  BY <1>2, <1>3, <1>4, <1>5, <1>6, <1>7 DEF Serving

LEMMA TcpKeeps == ASSUME LifetimeIInv, TcpCalls \/ Signal PROVE LifetimeIInv'
<1> USE DEF LifetimeIInv
<1>1. LifeType /\ PausedReads /\ SeenTouched /\ FedSoon /\ IdleDecided /\ ListenerClosed
  OBVIOUS
<1>2. ASSUME life' = touched \/ life' = request_exit("takeover") \/ life' = request_exit("signal")
             \/ UNCHANGED life,
             UNCHANGED <<retiring, http, reader, main, who>>
      PROVE  LifetimeIInv'
  <2>1. "takeover" \in Reasons /\ "signal" \in Reasons
    BY DEF Reasons
  <2>2. life \in [idle : Nat, keep : BOOLEAN, exit : Reasons, looked : BOOLEAN]
    BY <1>1 DEF LifeType
  <2>3. /\ life' \in [idle : Nat, keep : BOOLEAN, exit : Reasons, looked : BOOLEAN]
        /\ life'.idle = 0 \/ (life'.idle = life.idle /\ life'.looked = life.looked)
    BY <1>1, <1>2, <2>1, <2>2, CountdownTyped
  <2> QED
    BY <1>1, <1>2, <2>3, CountdownRestarts DEF LifeType, ListenerClosed
<1>3. ASSUME NEW c \in Conns, HelloDone(c) PROVE LifetimeIInv'
  <2>1. /\ life' \in [idle : Nat, keep : BOOLEAN, exit : Reasons, looked : BOOLEAN]
        /\ life'.idle = 0
    <3>1. PICK keep \in BOOLEAN : life' = [touched EXCEPT !.keep = @ \/ keep]
      BY <1>3 DEF HelloDone
    <3>2. (touched.keep \/ keep) \in BOOLEAN
      OBVIOUS
    <3> QED
      BY <1>1, <3>1, <3>2, CountdownTyped
  <2> QED
    BY <1>1, <1>3, <2>1, CountdownRestarts DEF HelloDone, LifeType, ListenerClosed
<1>4. ASSUME NEW c \in Conns, Takeover(c) PROVE LifetimeIInv'
  <2>1. /\ UNCHANGED <<life, http, reader, main>> /\ retiring' = TRUE
        /\ who' = who \/ who' = "takeover"
    BY <1>4 DEF Takeover
  <2> QED
    BY <1>1, <2>1
    DEF LifeType, PausedReads, SeenTouched, FedSoon, IdleDecided, ListenerClosed, is_busy, is_idle,
        Feeding
<1>5. ASSUME NEW c \in Conns, ShutdownMessage(c) PROVE LifetimeIInv'
  <2>1. /\ life' = touched /\ UNCHANGED <<http, main>> /\ retiring' = TRUE /\ who' = "shutdown"
        /\ reader' = [reader EXCEPT !.items = 0, !.paused = FALSE]
    BY <1>5 DEF ShutdownMessage
  <2>2. /\ reader' \in [items : Nat, paused : BOOLEAN, entries : Nat, seen : BOOLEAN]
        /\ reader'.items = 0 /\ ~reader'.paused
    BY <1>1, <2>1 DEF LifeType
  <2>3. life' \in [idle : Nat, keep : BOOLEAN, exit : Reasons, looked : BOOLEAN] /\ life'.idle = 0
    BY <1>1, <2>1, CountdownTyped
  <2> QED
    BY <1>1, <2>1, <2>2, <2>3
    DEF LifeType, PausedReads, SeenTouched, FedSoon, IdleDecided, ListenerClosed, is_busy, is_idle,
        Feeding
<1>6. CASE TcpCalls
  BY <1>2, <1>3, <1>4, <1>5, <1>6
  DEF TcpCalls, HelloLine, Disconnect, TakeoverRefused, ExitForTakeover
<1>7. CASE Signal
  BY <1>2, <1>7 DEF Signal
<1> QED
  BY <1>6, <1>7

LEMMA ReadsKeep == ASSUME LifetimeIInv, Reads \/ Exits PROVE LifetimeIInv'
<1> USE DEF LifetimeIInv
<1>1. LifeType /\ PausedReads /\ SeenTouched /\ FedSoon /\ IdleDecided /\ ListenerClosed
  OBVIOUS
<1>2. CASE ItemEnds
  <2>1. /\ UNCHANGED <<life, retiring, http, main, who>> /\ is_busy /\ reader.seen
        /\ reader' = [reader EXCEPT !.items = @ - 1]
    BY <1>2 DEF ItemEnds
  <2>2. reader.items - 1 \in Nat
    BY <1>1, <2>1 DEF LifeType, is_busy
  <2>3. /\ reader' \in [items : Nat, paused : BOOLEAN, entries : Nat, seen : BOOLEAN]
        /\ reader'.items = reader.items - 1 /\ reader'.paused = reader.paused
        /\ reader'.entries = reader.entries /\ reader'.seen = reader.seen
    BY <1>1, <2>1, <2>2 DEF LifeType
  <2>4. life.idle = 0 \/ (life.idle = 1 /\ ~life.looked)
    BY <1>1, <2>1 DEF SeenTouched
  <2> QED
    BY <1>1, <2>1, <2>3, <2>4
    DEF LifeType, PausedReads, SeenTouched, FedSoon, IdleDecided, ListenerClosed, is_busy, is_idle,
        Feeding
<1>3. CASE Pump
  <2>1. /\ UNCHANGED <<life, retiring, http, main, who>> /\ Feeding
        /\ reader' = [reader EXCEPT !.items = 1, !.entries = @ - 1, !.seen = FALSE]
    BY <1>3 DEF Pump
  <2>2. reader.entries - 1 \in Nat
    BY <1>1, <2>1 DEF LifeType, Feeding
  <2>3. /\ reader' \in [items : Nat, paused : BOOLEAN, entries : Nat, seen : BOOLEAN]
        /\ reader'.items = 1 /\ reader'.paused = reader.paused /\ ~reader'.seen
    BY <1>1, <2>1, <2>2 DEF LifeType
  <2>4. who # "idle"
    BY <1>1, <2>1 DEF LifeType, PausedReads, IdleDecided, is_idle, Feeding
  <2> QED
    BY <1>1, <2>1, <2>3, <2>4
    DEF LifeType, PausedReads, SeenTouched, FedSoon, IdleDecided, ListenerClosed, is_busy, is_idle,
        Feeding
<1>4. CASE Toggle
  <2>1. /\ UNCHANGED <<life, retiring, http, main, who>> /\ ~retiring /\ reader.items > 0
        /\ reader' = [reader EXCEPT !.paused = ~@, !.seen = FALSE]
    BY <1>4 DEF Toggle
  <2>2. /\ reader' \in [items : Nat, paused : BOOLEAN, entries : Nat, seen : BOOLEAN]
        /\ reader'.items = reader.items /\ ~reader'.seen
    BY <1>1, <2>1 DEF LifeType
  <2> QED
    BY <1>1, <2>1, <2>2
    DEF LifeType, PausedReads, SeenTouched, FedSoon, IdleDecided, ListenerClosed, is_busy, is_idle,
        Feeding
<1>5. CASE Exits
  <2>1. UNCHANGED <<life, retiring, http, reader, who>>
    BY <1>5 DEF Exits, Draining, ListenerCloses, RequestsDone
  <2>2. ListenerClosed'
    BY <1>1, <1>5, <2>1 DEF Exits, Draining, ListenerCloses, RequestsDone, ListenerClosed, pending
  <2> QED
    BY <1>1, <2>1, <2>2, CountdownRestarts DEF LifeType
<1> QED
  BY <1>2, <1>3, <1>4, <1>5 DEF Reads

LEMMA LifetimeStep == LifetimeIInv /\ [LifetimeNext]_lifeVars => LifetimeIInv'
<1> SUFFICES ASSUME LifetimeIInv, [LifetimeNext]_lifeVars PROVE LifetimeIInv'
  OBVIOUS
<1>1. CASE UNCHANGED lifeVars
  BY <1>1
  DEF lifeVars, LifetimeIInv, LifeType, PausedReads, SeenTouched, FedSoon, IdleDecided,
      ListenerClosed, is_busy, is_idle, Feeding
<1> QED
  BY <1>1, MonitorKeeps, HttpKeeps, TcpKeeps, ReadsKeep DEF LifetimeNext

(* The runtime does not end before what it accepted is read or answered:   *)
(* an idle exit (Server::retire_if_idle) loses no speech, and every        *)
(* request a connection sent before the end is answered (requests_done),   *)
(* for any number of requests and connections and any idle time of more    *)
(* than one unit.                                                          *)
THEOREM LifetimeEndsClean == LifetimeSpec => []EndsClean
<1>1. LifetimeIInv => EndsClean
  BY DEF LifetimeIInv, LifeType, IdleDecided, ListenerClosed, EndsClean, KeptSpeech,
         AnsweredBeforeExit, HttpPlaces
<1> QED
  BY <1>1, LifetimeInitIInv, LifetimeStep, PTL DEF LifetimeSpec

-----------------------------------------------------------------------------
(* The hold and the chunk in the engine.                                   *)

Steps == {"lock_set", "unlock_set", "lock_change", "end_change", "admit", "end_admit",
          "hold_now", "apply", "follow", "record", "record_mute", "choose", "agent_set",
          "join_hotkeys", "move_epoch", "swap_held", "swap_free", "cancel"}

(* What a thread is: its fields, and the steps it has to do.               *)
ThreadType ==
  /\ thread = [t \in Threads |-> thread[t]]
  /\ \A t \in Threads :
       /\ thread[t] = [call |-> thread[t].call, todo |-> thread[t].todo,
                       value |-> thread[t].value, done |-> thread[t].done]
       /\ thread[t].todo \in Seq(Steps)

(* The chunk was marked under a generation that was reached.               *)
MarkType ==
  /\ hold \in [held : BOOLEAN, epoch : Nat, gen : Nat]
  /\ job = [at |-> job.at, epoch |-> job.epoch, gen |-> job.gen, sent |-> job.sent,
            gone |-> job.gone, n |-> job.n]
  /\ job.gen \in Nat /\ job.gen <= hold.gen

MutingIInv == ThreadType /\ MarkType /\ RequestCut

LEMMA ScriptsTyped ==
  /\ \A call \in {"set_mute_level", "mute", "unmute", "mute_press", "rate_press", "set_hotkeys",
                   "enable_agent"} : Script(call) \in Seq(Steps)
  /\ \A on \in BOOLEAN : set(on) \in Seq(Steps)
<1>1. /\ Script("set_mute_level") \in Seq(Steps) /\ Script("mute") \in Seq(Steps)
      /\ Script("unmute") \in Seq(Steps)
  BY DEF Script, Steps
<1>2. Script("mute_press") \in Seq(Steps) /\ Script("rate_press") \in Seq(Steps)
  BY DEF Script, Steps
<1>3. Script("set_hotkeys") \in Seq(Steps) /\ Script("enable_agent") \in Seq(Steps)
  BY DEF Script, Steps, set_hotkeys
<1>4. set(TRUE) \in Seq(Steps) /\ set(FALSE) \in Seq(Steps)
  BY DEF set, Steps
<1> QED
  BY <1>1, <1>2, <1>3, <1>4

(* A thread goes on to its next step, or does other steps first.           *)
LEMMA ThreadGoesOn ==
  ASSUME ThreadType, NEW t \in Threads, NEW name, At(t, name),
         NEW steps \in Seq(Steps), Then(t, steps)
  PROVE  /\ ThreadType'
         /\ \A u \in Threads \ {t} : thread'[u] = thread[u]
         /\ steps # <<>> => thread'[t].todo # <<>> /\ Head(thread'[t].todo) = steps[1]
<1> DEFINE todo == steps \o Tail(thread[t].todo)
<1>1. thread[t].todo \in Seq(Steps) /\ thread[t].todo # <<>>
  BY DEF ThreadType, At
<1>2. Tail(thread[t].todo) \in Seq(Steps)
  BY <1>1
<1>3. todo \in Seq(Steps) /\ (steps # <<>> => todo # <<>> /\ Head(todo) = steps[1])
  BY <1>2
<1>4. thread' = [thread EXCEPT ![t] = IF todo = <<>> THEN Idle ELSE [thread[t] EXCEPT !.todo = todo]]
  BY DEF Then
<1> HIDE DEF todo
<1>5. /\ thread'[t] = IF todo = <<>> THEN Idle ELSE [thread[t] EXCEPT !.todo = todo]
      /\ \A u \in Threads \ {t} : thread'[u] = thread[u]
      /\ thread' = [u \in Threads |-> thread'[u]]
  BY <1>4 DEF ThreadType
<1>6. /\ thread'[t] = [call |-> thread'[t].call, todo |-> thread'[t].todo,
                       value |-> thread'[t].value, done |-> thread'[t].done]
      /\ thread'[t].todo = todo
  <2>1. CASE todo = <<>>
    BY <1>5, <2>1 DEF Idle
  <2>2. CASE todo # <<>>
    BY <1>5, <2>2 DEF ThreadType
  <2> QED
    BY <2>1, <2>2
<1> QED
  BY <1>3, <1>5, <1>6 DEF ThreadType

(* A step of a thread that has not to cancel, and that does not raise the  *)
(* hold, leaves the cut as it is.                                          *)
LEMMA CutKept ==
  ASSUME RequestCut, NEW t \in Threads, ~At(t, "cancel"),
         \A u \in Threads \ {t} : thread'[u] = thread[u],
         hold'.held => hold.held, hold'.gen = hold.gen, UNCHANGED job
  PROVE  RequestCut'
BY DEF RequestCut, At

LEMMA MutingInitIInv == MutingInit => MutingIInv
<1> SUFFICES ASSUME MutingInit PROVE MutingIInv
  OBVIOUS
<1>1. ThreadType
  <2>1. <<>> \in Seq(Steps)
    OBVIOUS
  <2>2. thread = [t \in Threads |-> Idle]
    BY DEF MutingInit
  <2> QED
    BY <2>1, <2>2 DEF ThreadType, Idle
<1>2. MarkType
  <2>1. (mute.level >= 1) \in BOOLEAN
    OBVIOUS
  <2> QED
    BY <2>1 DEF MutingInit, MarkType
<1>3. RequestCut
  BY DEF MutingInit, RequestCut
<1> QED
  BY <1>1, <1>2, <1>3 DEF MutingIInv

(* Calls and presses start only on a thread with nothing to do.            *)
LEMMA CallsKeep == ASSUME MutingIInv, ClientCalls \/ Presses PROVE MutingIInv'
<1>1. PICK t \in Threads, call \in {"set_mute_level", "mute", "unmute", "mute_press",
                  "rate_press", "set_hotkeys", "enable_agent"} : \E value : Call(t, call, value)
  <2>1. ASSUME NEW t \in Clients,
               SetMuteLevel(t) \/ ControlMute(t) \/ ControlUnmute(t) \/ SetKeymap(t)
               \/ EnableAgent(t)
        PROVE  t \in Threads /\ \E call \in {"set_mute_level", "mute", "unmute", "mute_press",
                  "rate_press", "set_hotkeys", "enable_agent"} : \E value : Call(t, call, value)
    BY <2>1 DEF SetMuteLevel, ControlMute, ControlUnmute, SetKeymap, EnableAgent, Threads
  <2>2. CASE PressMute \/ PressRate
    BY <2>2 DEF PressMute, PressRate, Threads
  <2> QED
    BY <2>1, <2>2 DEF ClientCalls, Presses
<1>2. PICK value : Call(t, call, value)
  BY <1>1
<1>3. ThreadType'
  <2>1. Script(call) \in Seq(Steps)
    BY ScriptsTyped
  <2> HIDE DEF Script
  <2> QED
    BY <1>2, <2>1 DEF Call, MutingIInv, ThreadType
<1>4. RequestCut'
  <2>1. ~At(t, "cancel") /\ \A u \in Threads \ {t} : thread'[u] = thread[u]
    BY <1>2 DEF Call, At, MutingIInv, ThreadType
  <2>2. UNCHANGED <<hold, job>>
    BY <1>2 DEF Call
  <2> QED
    BY <2>1, <2>2, CutKept DEF MutingIInv
<1> QED
  BY <1>2, <1>3, <1>4 DEF Call, MutingIInv, MarkType

LEMMA StepsKeep == ASSUME MutingIInv, NEW t \in Threads, Step(t) PROVE MutingIInv'
<1> ThreadType /\ MarkType /\ RequestCut
  BY DEF MutingIInv
<1>0. <<>> \in Seq(Steps) /\ <<"cancel">> \in Seq(Steps)
      /\ <<"lock_set", "record", "unlock_set">> \in Seq(Steps)
  BY DEF Steps
<1>1. ASSUME NEW name, At(t, name), name # "cancel", NEW steps \in Seq(Steps), Then(t, steps),
             UNCHANGED <<hold, job>>
      PROVE  MutingIInv'
  <2>1. ~At(t, "cancel")
    BY <1>1 DEF At
  <2> QED
    BY <1>1, <2>1, ThreadGoesOn, CutKept DEF MutingIInv, MarkType
<1>2. CASE Locks(t)
  BY <1>0, <1>1, <1>2 DEF Locks, Lock, Unlock, change
<1>3. CASE HoldNow(t) \/ follow(t)
  <2>1. set(TRUE) \in Seq(Steps) /\ set(FALSE) \in Seq(Steps)
    BY ScriptsTyped
  <2>2. CASE HoldNow(t)
    BY <1>0, <1>1, <2>1, <2>2 DEF HoldNow
  <2>3. CASE follow(t)
    <3>1. muted \in BOOLEAN
      BY DEF muted
    <3>2. set(muted) \in Seq(Steps)
      BY <2>1, <3>1
    <3> QED
      BY <1>1, <2>3, <3>2 DEF follow
  <2> QED
    BY <1>3, <2>2, <2>3
<1>4. CASE MoveEpoch(t) \/ SwapFree(t)
  <2>1. PICK name \in {"move_epoch", "swap_free"} : At(t, name)
    BY <1>4 DEF MoveEpoch, SwapFree
  <2>2. Then(t, <<>>) /\ UNCHANGED job
    BY <1>4 DEF MoveEpoch, SwapFree
  <2>3. /\ hold' \in [held : BOOLEAN, epoch : Nat, gen : Nat]
        /\ hold'.gen = hold.gen /\ (hold'.held => hold.held)
    <3>1. hold.epoch + 1 \in Nat
      BY DEF MarkType
    <3> QED
      BY <1>4, <3>1 DEF MoveEpoch, SwapFree, MarkType
  <2>4. ~At(t, "cancel")
    BY <2>1 DEF At
  <2> QED
    BY <1>0, <2>1, <2>2, <2>3, <2>4, ThreadGoesOn, CutKept DEF MutingIInv, MarkType
<1>5. CASE SwapHeld(t)
  <2>1. At(t, "swap_held") /\ hold' = [hold EXCEPT !.held = TRUE] /\ UNCHANGED job
    BY <1>5 DEF SwapHeld
  <2>2. MarkType'
    BY <2>1 DEF MarkType
  <2>3. CASE hold.held
    <3>1. ThreadType' /\ \A u \in Threads \ {t} : thread'[u] = thread[u]
      BY <1>0, <1>5, <2>1, <2>3, ThreadGoesOn DEF SwapHeld
    <3>2. ~At(t, "cancel") /\ hold'.gen = hold.gen
      BY <2>1 DEF At, MarkType
    <3> QED
      BY <2>1, <2>2, <2>3, <3>1, <3>2, CutKept DEF MutingIInv
  <2>4. CASE ~hold.held
    <3>1. ThreadType' /\ thread'[t].todo # <<>> /\ Head(thread'[t].todo) = <<"cancel">>[1]
      <4>1. Then(t, <<"cancel">>) /\ <<"cancel">> # <<>>
        BY <1>5, <2>4 DEF SwapHeld
      <4> QED
        BY <1>0, <2>1, <4>1, ThreadGoesOn
    <3>2. At(t, "cancel")'
      BY <3>1 DEF At
    <3> QED
      BY <2>2, <3>1, <3>2 DEF MutingIInv, RequestCut
  <2> QED
    BY <2>3, <2>4
<1>6. CASE CancelTokens(t)
  <2>1. At(t, "cancel") /\ hold' = [hold EXCEPT !.gen = @ + 1] /\ UNCHANGED job /\ Then(t, <<>>)
    BY <1>6 DEF CancelTokens
  <2>2. hold.gen + 1 \in Nat
    BY DEF MarkType
  <2>3. MarkType' /\ job'.gen < hold'.gen
    BY <2>1, <2>2 DEF MarkType
  <2>4. ThreadType'
    BY <1>0, <2>1, ThreadGoesOn
  <2>5. RequestCut'
    BY <2>3 DEF MarkType, RequestCut
  <2> QED
    BY <2>3, <2>4, <2>5 DEF MutingIInv
<1>7. ASSUME NEW name, At(t, name), name # "cancel", UNCHANGED <<hold, job>>,
             NEW call, NEW value, NEW done,
             thread' = [thread EXCEPT ![t] = [call |-> call, todo |-> Tail(thread[t].todo),
                                              value |-> value, done |-> done]]
      PROVE  MutingIInv'
  <2>1. ThreadType' /\ \A u \in Threads \ {t} : thread'[u] = thread[u]
    <3>1. Tail(thread[t].todo) \in Seq(Steps)
      BY <1>7 DEF ThreadType, At
    <3> QED
      BY <1>7, <3>1 DEF ThreadType
  <2>2. ~At(t, "cancel")
    BY <1>7 DEF At
  <2> QED
    BY <1>7, <2>1, <2>2, CutKept DEF MutingIInv, MarkType
<1>8. CASE Choose(t)
  <2>1. At(t, "choose") /\ UNCHANGED <<hold, job>>
    BY <1>8 DEF Choose
  <2>2. \E call, value, done :
          thread' = [thread EXCEPT ![t] = [call |-> call, todo |-> Tail(thread[t].todo),
                                           value |-> value, done |-> done]]
    <3> DEFINE call == IF mute.agent THEN "level_press" ELSE thread[t].call
               value == IF mute.agent THEN next_mute_level(mute.level, thread[t].value)
                        ELSE IF mute.reader THEN 0 ELSE 1
    <3>1. thread' = [thread EXCEPT ![t].todo = Tail(@), ![t].call = call, ![t].value = value]
      BY <1>8 DEF Choose, ThreadType
    <3> HIDE DEF call, value
    <3>2. thread[t] = [call |-> thread[t].call, todo |-> thread[t].todo,
                       value |-> thread[t].value, done |-> thread[t].done]
      BY DEF ThreadType
    <3>3. thread'[t] = [call |-> call, todo |-> Tail(thread[t].todo), value |-> value,
                        done |-> thread[t].done]
      BY <3>1, <3>2 DEF ThreadType
    <3>4. thread' = [thread EXCEPT ![t] = thread'[t]]
      BY <3>1 DEF ThreadType
    <3> QED
      BY <3>3, <3>4
  <2> QED
    BY <1>7, <2>1, <2>2
<1>9. CASE Apply(t)
  <2>1. At(t, "apply") /\ UNCHANGED <<hold, job>>
    BY <1>9 DEF Apply
  <2>2. \E call, value, done :
          thread' = [thread EXCEPT ![t] = [call |-> call, todo |-> Tail(thread[t].todo),
                                           value |-> value, done |-> done]]
    <3>1. PICK done : thread' = [thread EXCEPT ![t].todo = Tail(@), ![t].done = done]
      BY <1>9 DEF Apply
    <3>2. thread[t] = [call |-> thread[t].call, todo |-> thread[t].todo,
                       value |-> thread[t].value, done |-> thread[t].done]
      BY DEF ThreadType
    <3>3. thread'[t] = [call |-> thread[t].call, todo |-> Tail(thread[t].todo),
                        value |-> thread[t].value, done |-> done]
      BY <3>1, <3>2 DEF ThreadType
    <3>4. thread' = [thread EXCEPT ![t] = thread'[t]]
      BY <3>1 DEF ThreadType
    <3> QED
      BY <3>3, <3>4
  <2> QED
    BY <1>7, <2>1, <2>2
<1>10. CASE Record(t) \/ record_mute(t)
  BY <1>0, <1>1, <1>10 DEF Record, record_mute
<1>11. CASE AgentSet(t) \/ JoinHotkeys(t)
  BY <1>0, <1>1, <1>11 DEF AgentSet, JoinHotkeys
<1> QED
  BY <1>2, <1>3, <1>4, <1>5, <1>6, <1>8, <1>9, <1>10, <1>11 DEF Step

(* The synthesis thread: a chunk goes on only while nothing holds it.      *)
LEMMA SynthesisKeeps == ASSUME MutingIInv, Synthesis PROVE MutingIInv'
<1> ThreadType /\ MarkType /\ RequestCut
  BY DEF MutingIInv
<1>1. UNCHANGED thread
  BY DEF Synthesis, Engine, MarkEpoch, MarkGeneration, CheckHeld, CheckGeneration, NoRequest,
         Send, Answer, Cancelled, ReaderCancel
<1>2. ThreadType'
  BY <1>1 DEF ThreadType
<1>3. CASE ReaderCancel
  <2>1. hold.gen + 1 \in Nat
    BY DEF MarkType
  <2>2. MarkType' /\ job'.gen < hold'.gen
    <3>1. /\ hold' \in [held : BOOLEAN, epoch : Nat, gen : Nat] /\ hold'.gen = hold.gen + 1
      BY <1>3, <2>1 DEF ReaderCancel, MarkType
    <3>2. job' = [job EXCEPT !.gone = TRUE]
      BY <1>3 DEF ReaderCancel
    <3>3. /\ job' = [at |-> job'.at, epoch |-> job'.epoch, gen |-> job'.gen, sent |-> job'.sent,
                     gone |-> job'.gone, n |-> job'.n]
          /\ job'.gen = job.gen
      BY <3>2 DEF MarkType
    <3> QED
      BY <3>1, <3>3 DEF MarkType
  <2> QED
    BY <1>2, <2>2 DEF MutingIInv, MarkType, RequestCut
<1>4. ASSUME UNCHANGED hold,
             job' = [at |-> job'.at, epoch |-> job'.epoch, gen |-> job'.gen, sent |-> job'.sent,
                     gone |-> job'.gone, n |-> job'.n],
             job'.gen \in {0, job.gen, hold.gen},
             job'.at \in {"checking", "ready", "sent"} =>
               /\ job'.gen = job.gen
               /\ job.at \in {"checking", "ready", "sent"} \/ ~hold.held
      PROVE  MutingIInv'
  <2>1. MarkType'
    BY <1>4 DEF MarkType
  <2>2. RequestCut'
    BY <1>1, <1>4 DEF RequestCut, At
  <2> QED
    BY <1>2, <2>1, <2>2 DEF MutingIInv
<1>5. CASE MarkEpoch \/ MarkGeneration
  <2>1. CASE MarkEpoch
    <3>1. UNCHANGED hold /\ \E e, n : job' = [at |-> "marking", epoch |-> e, gen |-> 0, sent |-> 0,
                                             gone |-> FALSE, n |-> n]
      BY <2>1 DEF MarkEpoch, Engine
    <3> QED
      BY <1>4, <3>1
  <2>2. CASE MarkGeneration
    <3>1. UNCHANGED hold /\ job' = [job EXCEPT !.at = "begun", !.gen = hold.gen]
      BY <2>2 DEF MarkGeneration, Engine
    <3> QED
      BY <1>4, <3>1 DEF MarkType
  <2> QED
    BY <1>5, <2>1, <2>2
<1>6. CASE CheckHeld \/ CheckGeneration \/ NoRequest \/ Cancelled
  BY <1>4, <1>6
  DEF CheckHeld, CheckGeneration, NoRequest, Cancelled, Goes, Engine, MarkType
<1>7. CASE Send \/ Answer
  BY <1>4, <1>7 DEF Send, Answer, Goes, Engine, MarkType
<1> QED
  BY <1>3, <1>5, <1>6, <1>7 DEF Synthesis

LEMMA MutingStep == MutingIInv /\ [MutingNext]_muteVars => MutingIInv'
<1> SUFFICES ASSUME MutingIInv, [MutingNext]_muteVars PROVE MutingIInv'
  OBVIOUS
<1>1. CASE UNCHANGED muteVars
  BY <1>1 DEF muteVars, MutingIInv, ThreadType, MarkType, RequestCut, At
<1> QED
  BY <1>1, CallsKeep, StepsKeep, SynthesisKeeps DEF MutingNext, HostSteps

(* Once the hold is up, the chunk in the engine is under an old cancel     *)
(* generation, whatever overlapped: Hold::set swaps before it cancels, and *)
(* External::mark reads the generation before the hold is looked at.  For  *)
(* any number of threads, calls, chunks and requests.                      *)
THEOREM MutingRequestCut == MutingSpec => []RequestCut
<1>1. MutingIInv => RequestCut
  BY DEF MutingIInv
<1> QED
  BY <1>1, MutingInitIInv, MutingStep, PTL DEF MutingSpec

-----------------------------------------------------------------------------
(* The hold and the level stored, once every call is done.                 *)

(* What no call does after what, and what it still does when it has a step *)
(* to do.                                                                  *)
Never(x, y) ==
  \/ y \in {"lock_set", "agent_set"} \/ x = "record_mute"
  \/ y = "lock_change" /\ x \notin {"lock_set", "agent_set"}
  \/ y \in {"swap_held", "swap_free"} /\ x # "move_epoch"
  \/ x = "end_change" /\ y \in {"end_change", "hold_now", "follow"}
  \/ x = "follow" /\ y \in {"hold_now", "apply"}
  \/ x \in {"apply", "record"} /\ y = "apply"
  \/ x = "unlock_set" /\ y \in {"unlock_set", "record"}
Wants(x) == CASE x = "hold_now" -> {"follow", "end_change"}
              [] x \in {"apply", "agent_set"} -> {"follow"}
              [] x \in {"follow", "swap_held", "swap_free"} -> {"end_change"}
              [] x = "record" -> {"unlock_set"}
              [] OTHER -> {}

Has(s, x) == \E i \in 1..Len(s) : s[i] = x
Ordered(s) == \A i, j \in 1..Len(s) : i < j => ~Never(s[i], s[j])
Led(s) == \A x \in Steps : Has(s, x) => \A y \in Wants(x) : Has(s, y)
Orderly(s) == s \in Seq(Steps) /\ Ordered(s) /\ Led(s)

Todo(t) == thread[t].todo
Comes(t, x) == Has(Todo(t), x)
Rest(t, x) == Has(Tail(Todo(t)), x)

(* The calls are orderly: clients set levels, presses choose them, and     *)
(* each call that applies a level goes on to store it.                     *)
ByClient(t) == /\ ~Comes(t, "choose") /\ ~Comes(t, "record_mute")
               /\ Comes(t, "record") => thread[t].call = "set_mute_level"
               /\ thread[t].call = "set_mute_level" =>
                    /\ Comes(t, "lock_set") => Comes(t, "apply")
                    /\ Comes(t, "apply") => Comes(t, "record")
               /\ thread[t].call # "level_press"
ByKey(t) == /\ ~Comes(t, "agent_set") /\ thread[t].call # "set_mute_level"
            /\ Comes(t, "apply") => Comes(t, "record_mute")
Follows(t) == /\ Orderly(Todo(t))
              /\ t \in Clients => ByClient(t)
              /\ t = Hotkeys => ByKey(t)

(* Who is under a lock has it.                                             *)
InChange(t) == Comes(t, "end_change") /\ ~Comes(t, "lock_change")
InSet(t) == Comes(t, "unlock_set") /\ ~Comes(t, "lock_set")
UnderLocks == \A t \in Threads : /\ InChange(t) => locks.change = t
                                 /\ InSet(t) => locks.set = t

(* The hold is as the mute is, or somebody is about to make it so.         *)
HoldComes ==
  \/ \E t \in Threads : Comes(t, "follow")
  \/ /\ \A t \in Threads : /\ Comes(t, "swap_held") => muted
                           /\ Comes(t, "swap_free") => ~muted
     /\ hold.held = muted \/ \E t \in Threads : Comes(t, "swap_held") \/ Comes(t, "swap_free")

(* The level stored is the one in force, or somebody is about to store it: *)
(* a client the level it set, unless a press after it will store anew.     *)
Stores(t) == /\ thread[t].done /\ ~Comes(t, "apply")
             /\ Comes(t, "record") \/ Comes(t, "record_mute")
LevelComes == mute.agent => mute.level = mute.stored \/ \E t \in Threads : Stores(t)
SetComes == \A t \in Clients : Stores(t) =>
              mute.agent /\ (mute.level = thread[t].value \/ Stores(Hotkeys))
AgentComes == \A t \in Clients : Comes(t, "agent_set") =>
                /\ ~mute.agent /\ thread[t].call = "enable_agent"
                /\ \A u \in Clients : Comes(u, "agent_set") => u = t

MuteForm == /\ mute = [reader |-> mute.reader, agent |-> mute.agent, level |-> mute.level,
                       stored |-> mute.stored]
            /\ mute.reader \in BOOLEAN /\ mute.agent \in BOOLEAN
            /\ hold.held \in BOOLEAN
            /\ hold = [held |-> hold.held, epoch |-> hold.epoch, gen |-> hold.gen]
            /\ locks = [set |-> locks.set, change |-> locks.change, admit |-> locks.admit]
RestIInv == /\ MuteForm /\ (\A t \in Threads : Follows(t)) /\ UnderLocks
            /\ HoldComes /\ LevelComes /\ SetComes /\ AgentComes

-----------------------------------------------------------------------------
(* Lists of steps.                                                         *)
LEMMA WantsBefore == \A x, y : y \in Wants(x) => Never(y, x)
BY DEF Wants, Never

LEMMA TailHas ==
  ASSUME NEW s \in Seq(Steps), s # <<>>
  PROVE  \A x : Has(s, x) <=> x = Head(s) \/ Has(Tail(s), x)
<1>1. Len(s) \in Nat \ {0} /\ Len(Tail(s)) = Len(s) - 1 /\ Head(s) = s[1]
      /\ \A i \in 1..Len(Tail(s)) : Tail(s)[i] = s[i + 1]
  OBVIOUS
<1>2. ASSUME NEW x, Has(s, x), x # Head(s)  PROVE Has(Tail(s), x)
  <2>1. PICK i \in 1..Len(s) : s[i] = x  BY <1>2 DEF Has
  <2>2. i - 1 \in 1..Len(Tail(s)) /\ Tail(s)[i - 1] = x  BY <1>1, <1>2, <2>1
  <2>. QED BY <2>2 DEF Has
<1>3. ASSUME NEW x, Has(Tail(s), x)  PROVE Has(s, x)
  <2>1. PICK i \in 1..Len(Tail(s)) : Tail(s)[i] = x  BY <1>3 DEF Has
  <2>2. i + 1 \in 1..Len(s) /\ s[i + 1] = x  BY <1>1, <2>1
  <2>. QED BY <2>2 DEF Has
<1>4. Has(s, Head(s))
  <2>1. 1 \in 1..Len(s) /\ s[1] = Head(s)  BY <1>1
  <2>. QED BY <2>1 DEF Has
<1>. QED BY <1>2, <1>3, <1>4

LEMMA TailOrderly ==
  ASSUME NEW s, Orderly(s), s # <<>>
  PROVE  Orderly(Tail(s)) /\ \A x : Has(Tail(s), x) => ~Never(Head(s), x)
<1>1. s \in Seq(Steps) /\ Tail(s) \in Seq(Steps)  BY DEF Orderly
<1>2. Len(s) \in Nat \ {0} /\ Len(Tail(s)) = Len(s) - 1 /\ Head(s) = s[1]
      /\ \A i \in 1..Len(Tail(s)) : i + 1 \in 1..Len(s) /\ Tail(s)[i] = s[i + 1]
  BY <1>1
<1>3. \A i, j \in 1..Len(s) : i < j => ~Never(s[i], s[j])  BY DEF Orderly, Ordered
<1>4. Ordered(Tail(s))
  <2>. SUFFICES ASSUME NEW i \in 1..Len(Tail(s)), NEW j \in 1..Len(Tail(s)), i < j
                PROVE  ~Never(Tail(s)[i], Tail(s)[j])
    BY DEF Ordered
  <2>1. i + 1 \in 1..Len(s) /\ j + 1 \in 1..Len(s) /\ i + 1 < j + 1  BY <1>2
  <2>. QED BY <1>2, <1>3, <2>1
<1>5. ASSUME NEW x, Has(Tail(s), x)  PROVE ~Never(Head(s), x)
  <2>1. PICK i \in 1..Len(Tail(s)) : Tail(s)[i] = x  BY <1>5 DEF Has
  <2>2. i + 1 \in 1..Len(s) /\ 1 \in 1..Len(s) /\ 1 < i + 1 /\ s[i + 1] = x  BY <1>2, <2>1
  <2>. QED BY <1>2, <1>3, <2>2
<1>6. Led(Tail(s))
  <2>. SUFFICES ASSUME NEW x \in Steps, Has(Tail(s), x), NEW y \in Wants(x)
                PROVE  Has(Tail(s), y)
    BY DEF Led
  <2>1. Has(s, y)  BY <1>1, TailHas DEF Orderly, Led
  <2>2. y # Head(s)  BY <1>5, WantsBefore
  <2>. QED BY <1>1, <2>1, <2>2, TailHas
<1>. QED BY <1>1, <1>4, <1>5, <1>6 DEF Orderly

LEMMA NotBoth ==
  ASSUME NEW s, Orderly(s), NEW x, NEW y, x # y, Never(x, y), Never(y, x)
  PROVE  ~(Has(s, x) /\ Has(s, y))
<1>. SUFFICES ASSUME Has(s, x), Has(s, y) PROVE FALSE
  OBVIOUS
<1>1. s \in Seq(Steps) /\ Ordered(s)  BY DEF Orderly
<1>2. PICK i \in 1..Len(s) : s[i] = x  BY DEF Has
<1>3. PICK j \in 1..Len(s) : s[j] = y  BY DEF Has
<1>4. i < j \/ j < i  BY <1>1, <1>2, <1>3
<1>. QED BY <1>1, <1>2, <1>3, <1>4 DEF Ordered

LEMMA FirstAnd ==
  ASSUME NEW z \in Steps, NEW r, Orderly(r), \A x : Has(r, x) => ~Never(z, x),
         \A y \in Wants(z) : Has(r, y)
  PROVE  /\ Orderly(<<z>> \o r) /\ <<z>> \o r # <<>>
         /\ \A x : Has(<<z>> \o r, x) <=> x = z \/ Has(r, x)
<1>. DEFINE s == <<z>> \o r
<1>1. r \in Seq(Steps) /\ s \in Seq(Steps)  BY DEF Orderly
<1>2. Len(s) = Len(r) + 1 /\ s # <<>> /\ Head(s) = z /\ Tail(s) = r /\ s[1] = z
      /\ \A i \in 1..Len(r) : s[i + 1] = r[i]
  BY <1>1
<1>. HIDE DEF s
<1>3. \A x : Has(s, x) <=> x = z \/ Has(r, x)
  BY <1>1, <1>2, TailHas
<1>4. Ordered(s)
  <2>. SUFFICES ASSUME NEW i \in 1..Len(s), NEW j \in 1..Len(s), i < j
                PROVE  ~Never(s[i], s[j])
    BY DEF Ordered
  <2>1. Len(r) \in Nat  BY <1>1
  <2>2. j - 1 \in 1..Len(r) /\ s[j] = r[j - 1]  BY <1>2, <2>1
  <2>3. CASE i = 1
    <3>1. Has(r, s[j])  BY <2>2 DEF Has
    <3>. QED BY <1>2, <2>3, <3>1
  <2>4. CASE i # 1
    <3>1. i - 1 \in 1..Len(r) /\ s[i] = r[i - 1] /\ i - 1 < j - 1  BY <1>2, <2>1, <2>4
    <3>. QED BY <2>2, <3>1 DEF Orderly, Ordered
  <2>. QED BY <2>3, <2>4
<1>5. Led(s)
  BY <1>3 DEF Led, Orderly
<1>6. Orderly(s)  BY <1>1, <1>4, <1>5 DEF Orderly
<1>. QED BY <1>2, <1>3, <1>6 DEF s

-----------------------------------------------------------------------------
(* The steps of a thread.  After one, `new` come before the rest.          *)
Advance(t, new) ==
  /\ \A u \in Threads \ {t} : thread'[u] = thread[u]
  /\ Orderly(Todo(t))' /\ \A x : Comes(t, x)' <=> x \in new \/ Rest(t, x)
  /\ thread'[t].call \in {thread[t].call, "none"}
  /\ (\E x : Comes(t, x)') => /\ thread'[t].call = thread[t].call
                              /\ thread'[t].value = thread[t].value
                              /\ thread'[t].done = thread[t].done
Before(t, name) == /\ \A x : Comes(t, x) <=> x = name \/ Rest(t, x)
                   /\ \A x : Rest(t, x) => ~Never(name, x)

LEMMA BeforeStep ==
  ASSUME NEW t \in Threads, NEW name, At(t, name), Follows(t)
  PROVE  Before(t, name) /\ Orderly(Tail(Todo(t))) /\ Todo(t) \in Seq(Steps) /\ Todo(t) # <<>>
<1>1. Orderly(Todo(t)) /\ Todo(t) # <<>> /\ Head(Todo(t)) = name
  BY DEF Follows, At, Todo
<1>2. Todo(t) \in Seq(Steps)  BY <1>1 DEF Orderly
<1>. HIDE DEF Todo
<1>3. \A x : Has(Todo(t), x) <=> x = name \/ Has(Tail(Todo(t)), x)  BY <1>1, <1>2, TailHas
<1>4. Orderly(Tail(Todo(t))) /\ \A x : Has(Tail(Todo(t)), x) => ~Never(name, x)
  BY <1>1, TailOrderly
<1>. QED BY <1>1, <1>2, <1>3, <1>4 DEF Before, Comes, Rest

LEMMA GoesTo ==
  ASSUME ThreadType, NEW t \in Threads, NEW steps, Then(t, steps),
         NEW new, Orderly(steps \o Tail(Todo(t))),
         \A x : Has(steps \o Tail(Todo(t)), x) <=> x \in new \/ Rest(t, x)
  PROVE  Advance(t, new)
<1>. DEFINE todo == steps \o Tail(Todo(t))
<1>1. thread' = [thread EXCEPT ![t] = IF todo = <<>> THEN Idle ELSE [thread[t] EXCEPT !.todo = todo]]
  BY DEF Then, Todo
<1>2. Orderly(todo) /\ \A x : Has(todo, x) <=> x \in new \/ Rest(t, x)
  OBVIOUS
<1>. HIDE DEF todo
<1>3. /\ thread'[t] = IF todo = <<>> THEN Idle ELSE [thread[t] EXCEPT !.todo = todo]
      /\ \A u \in Threads \ {t} : thread'[u] = thread[u]
  BY <1>1 DEF ThreadType
<1>4. thread[t] = [call |-> thread[t].call, todo |-> thread[t].todo,
                   value |-> thread[t].value, done |-> thread[t].done]
  BY DEF ThreadType
<1>5. /\ thread'[t].todo = todo /\ thread'[t].call \in {thread[t].call, "none"}
      /\ todo # <<>> => /\ thread'[t].call = thread[t].call
                        /\ thread'[t].value = thread[t].value
                        /\ thread'[t].done = thread[t].done
  <2>1. CASE todo = <<>>  BY <1>3, <2>1 DEF Idle
  <2>2. CASE todo # <<>>  BY <1>3, <1>4, <2>2
  <2>. QED BY <2>1, <2>2
<1>6. \A x : Comes(t, x)' <=> Has(todo, x)  BY <1>5 DEF Comes, Todo
<1>7. (\E x : Comes(t, x)') => todo # <<>>
  <2>. SUFFICES ASSUME NEW x, Has(todo, x) PROVE todo # <<>>
    BY <1>6
  <2>. QED BY DEF Has
<1>8. Orderly(Todo(t))'  BY <1>2, <1>5 DEF Todo, Orderly
<1>. QED BY <1>2, <1>3, <1>5, <1>6, <1>7, <1>8 DEF Advance

LEMMA Advances ==
  ASSUME ThreadType, NEW t \in Threads, NEW name, At(t, name), Follows(t)
  PROVE  /\ Then(t, <<>>) => Advance(t, {})
         /\ Then(t, <<"swap_free">>) /\ name = "follow" => Advance(t, {"swap_free"})
         /\ Then(t, <<"cancel">>) /\ name = "swap_held" => Advance(t, {"cancel"})
         /\ Then(t, <<"move_epoch", "swap_held">>) /\ name \in {"hold_now", "follow"} =>
              Advance(t, {"move_epoch", "swap_held"})
         /\ Then(t, <<"lock_set", "record", "unlock_set">>) /\ name = "record_mute" =>
              Advance(t, {"lock_set", "record", "unlock_set"})
<1>. DEFINE r == Tail(Todo(t))
<1>1. Orderly(r) /\ Before(t, name) /\ Todo(t) \in Seq(Steps) /\ Todo(t) # <<>>  BY BeforeStep
<1>2. r \in Seq(Steps) /\ \A x : Has(r, x) <=> Rest(t, x)  BY <1>1 DEF Orderly, Rest
<1>3. \A x : Has(r, x) => ~Never(name, x)  BY <1>1, <1>2 DEF Before
<1>4. name \in Steps
  <2>1. Head(Todo(t)) \in Steps  BY <1>1
  <2>. QED BY <2>1 DEF At, Todo
<1>5. \A y \in Wants(name) : Has(r, y)
  <2>. SUFFICES ASSUME NEW y \in Wants(name) PROVE Has(r, y)
    OBVIOUS
  <2>1. Comes(t, name)  BY <1>1 DEF Before
  <2>2. Comes(t, y)  BY <1>4, <2>1 DEF Comes, Follows, Orderly, Led
  <2>3. y # name  BY DEF Wants
  <2>. QED BY <1>1, <1>2, <2>2, <2>3 DEF Before
<1>. HIDE DEF r
<1>6. ASSUME Then(t, <<>>)  PROVE Advance(t, {})
  <2>1. <<>> \o r = r  BY <1>2, ConcatEmptySeq
  <2>. DEFINE steps == <<>>
              new == {}
  <2>2. steps \o r = r /\ Then(t, steps) /\ \A x : x \notin new  BY <1>6, <2>1
  <2>3. Advance(t, new)
    <3>. HIDE DEF steps, new
    <3>1. Orderly(steps \o r)  BY <1>1, <2>2
    <3>2. \A x : Has(steps \o r, x) <=> x \in new \/ Rest(t, x)  BY <1>2, <2>2
    <3>. QED BY <2>2, <3>1, <3>2, GoesTo DEF r
  <2>. QED BY <2>3
<1>7. ASSUME NEW z \in {"swap_free", "cancel"}, Then(t, <<z>>),
             \/ name = "follow" /\ z = "swap_free"
             \/ name = "swap_held" /\ z = "cancel"
      PROVE  Advance(t, {z})
  <2>1. z \in Steps  BY DEF Steps
  <2>2. \A x : Has(r, x) => ~Never(z, x)  BY <1>3, <1>7 DEF Never
  <2>3. \A y \in Wants(z) : Has(r, y)  BY <1>5, <1>7 DEF Wants
  <2>4. Orderly(<<z>> \o r) /\ \A x : Has(<<z>> \o r, x) <=> x = z \/ Has(r, x)
    BY <1>1, <2>1, <2>2, <2>3, FirstAnd
  <2>5. \A x : Has(<<z>> \o r, x) <=> x \in {z} \/ Rest(t, x)  BY <1>2, <2>4
  <2>. QED BY <1>7, <2>4, <2>5, GoesTo DEF r
<1>8. ASSUME Then(t, <<"move_epoch", "swap_held">>), name \in {"hold_now", "follow"}
      PROVE  Advance(t, {"move_epoch", "swap_held"})
  <2>. DEFINE s == <<"swap_held">> \o r
  <2>1. Orderly(s) /\ \A x : Has(s, x) <=> x = "swap_held" \/ Has(r, x)
    <3>1. "swap_held" \in Steps  BY DEF Steps
    <3>2. \A x : Has(r, x) => ~Never("swap_held", x)  BY <1>3, <1>8 DEF Never
    <3>3. \A y \in Wants("swap_held") : Has(r, y)  BY <1>5, <1>8 DEF Wants
    <3>. QED BY <1>1, <3>1, <3>2, <3>3, FirstAnd
  <2>2. <<"move_epoch">> \o s = <<"move_epoch", "swap_held">> \o r  BY <1>2
  <2>. HIDE DEF s
  <2>3. Orderly(<<"move_epoch">> \o s)
        /\ \A x : Has(<<"move_epoch">> \o s, x) <=> x = "move_epoch" \/ Has(s, x)
    <3>1. "move_epoch" \in Steps  BY DEF Steps
    <3>2. \A x : Has(s, x) => ~Never("move_epoch", x)  BY <1>3, <1>8, <2>1 DEF Never
    <3>3. \A y \in Wants("move_epoch") : Has(s, y)  BY DEF Wants
    <3>. QED BY <2>1, <3>1, <3>2, <3>3, FirstAnd
  <2>4. \A x : Has(<<"move_epoch", "swap_held">> \o r, x) <=>
               x \in {"move_epoch", "swap_held"} \/ Rest(t, x)
    BY <1>2, <2>1, <2>2, <2>3
  <2>5. Orderly(<<"move_epoch", "swap_held">> \o r)  BY <2>2, <2>3
  <2>. QED BY <1>8, <2>4, <2>5, GoesTo DEF r
<1>9. ASSUME Then(t, <<"lock_set", "record", "unlock_set">>), name = "record_mute"
      PROVE  Advance(t, {"lock_set", "record", "unlock_set"})
  <2>. DEFINE s == <<"lock_set", "record", "unlock_set">>
  <2>1. \A x : ~Has(r, x)  BY <1>3, <1>9 DEF Never
  <2>2. r = <<>>
    <3>1. CASE r # <<>>
      <4>1. 1 \in 1..Len(r)  BY <1>2, <3>1
      <4>. QED BY <2>1, <4>1 DEF Has
    <3>. QED BY <3>1
  <2>3. s \o r = s /\ s \in Seq(Steps) /\ Len(s) = 3 /\ s[1] = "lock_set" /\ s[2] = "record"
        /\ s[3] = "unlock_set"
    BY <2>2 DEF Steps
  <2>. HIDE DEF s
  <2>4. \A x : Has(s, x) <=> x \in {"lock_set", "record", "unlock_set"}
    <3>1. \A i : i \in 1..3 <=> i = 1 \/ i = 2 \/ i = 3  OBVIOUS
    <3>. QED BY <2>3, <3>1 DEF Has
  <2>5. Orderly(s)
    <3>1. Ordered(s)
      <4>. SUFFICES ASSUME NEW i \in 1..3, NEW j \in 1..3, i < j PROVE ~Never(s[i], s[j])
        BY <2>3 DEF Ordered
      <4>1. (i = 1 /\ j = 2) \/ (i = 1 /\ j = 3) \/ (i = 2 /\ j = 3)  OBVIOUS
      <4>. QED BY <2>3, <4>1 DEF Never
    <3>2. Led(s)  BY <2>4 DEF Led, Wants
    <3>. QED BY <2>3, <3>1, <3>2 DEF Orderly
  <2>6. \A x : Has(s \o r, x) <=> x \in {"lock_set", "record", "unlock_set"} \/ Rest(t, x)
    BY <1>2, <2>1, <2>3, <2>4
  <2>7. Orderly(s \o r)  BY <2>3, <2>5
  <2>. QED BY <1>9, <2>6, <2>7, GoesTo DEF r, s
<1>. QED BY <1>6, <1>7, <1>8, <1>9

-----------------------------------------------------------------------------
(* The calls as they start: orderly, and under no lock yet.                *)
Whole(call) ==
  CASE call = "set_mute_level" -> {"lock_set", "lock_change", "hold_now", "apply",
                                   "follow", "end_change", "record", "unlock_set"}
    [] call \in {"mute", "unmute"} -> {"lock_change", "hold_now", "admit", "apply",
                                       "end_admit", "follow", "end_change"}
    [] call = "mute_press" -> {"lock_change", "admit", "choose", "hold_now", "apply",
                               "follow", "end_change", "end_admit", "record_mute"}
    [] call = "rate_press" -> {"lock_set", "admit", "end_admit", "unlock_set"}
    [] call = "set_hotkeys" -> {"lock_set", "unlock_set", "join_hotkeys"}
    [] call = "enable_agent" -> {"agent_set", "lock_change", "follow", "end_change"}

LEMMA ScriptsWhole ==
  ASSUME NEW call \in {"set_mute_level", "mute", "unmute", "mute_press", "rate_press",
                       "set_hotkeys", "enable_agent"}
  PROVE  /\ Orderly(Script(call))
         /\ \A x : Has(Script(call), x) <=> x \in Whole(call)
<1>1. CASE call = "set_mute_level"
  <2>. DEFINE s == Script(call)
  <2>1. /\ s \in Seq(Steps) /\ Len(s) = 8
        /\ s[1] = "lock_set" /\ s[2] = "lock_change" /\ s[3] = "hold_now"
        /\ s[4] = "apply" /\ s[5] = "follow" /\ s[6] = "end_change"
        /\ s[7] = "record" /\ s[8] = "unlock_set"
    BY <1>1 DEF Script, Steps
  <2>. HIDE DEF s
  <2>2. \A i : i \in 1..8 <=> i = 1 \/ i = 2 \/ i = 3 \/ i = 4 \/ i = 5 \/ i = 6 \/ i = 7 \/ i = 8
    OBVIOUS
  <2>3. \A x : Has(s, x) <=> x \in Whole(call)  BY <1>1, <2>1, <2>2 DEF Has, Whole
  <2>4. Ordered(s)
    <3>. SUFFICES ASSUME NEW i \in 1..8, NEW j \in 1..8, i < j PROVE ~Never(s[i], s[j])
      BY <2>1 DEF Ordered
    <3>. QED BY <2>1, <2>2 DEF Never
  <2>5. Led(s)  BY <1>1, <2>3 DEF Led, Wants, Whole
  <2>. QED BY <2>1, <2>3, <2>4, <2>5 DEF Orderly, s
<1>2. CASE call \in {"mute", "unmute"}
  <2>. DEFINE s == Script(call)
  <2>1. /\ s \in Seq(Steps) /\ Len(s) = 7
        /\ s[1] = "lock_change" /\ s[2] = "hold_now" /\ s[3] = "admit"
        /\ s[4] = "apply" /\ s[5] = "end_admit" /\ s[6] = "follow"
        /\ s[7] = "end_change"
    <3>1. s = <<"lock_change", "hold_now", "admit", "apply", "end_admit", "follow",
                "end_change">>
      <4>1. CASE call = "mute"  BY <4>1 DEF Script
      <4>2. CASE call = "unmute"  BY <4>2 DEF Script
      <4>. QED BY <1>2, <4>1, <4>2
    <3>. HIDE DEF s
    <3>. QED BY <3>1 DEF Steps
  <2>. HIDE DEF s
  <2>2. \A i : i \in 1..7 <=> i = 1 \/ i = 2 \/ i = 3 \/ i = 4 \/ i = 5 \/ i = 6 \/ i = 7
    OBVIOUS
  <2>3. \A x : Has(s, x) <=> x \in Whole(call)  BY <1>2, <2>1, <2>2 DEF Has, Whole
  <2>4. Ordered(s)
    <3>. SUFFICES ASSUME NEW i \in 1..7, NEW j \in 1..7, i < j PROVE ~Never(s[i], s[j])
      BY <2>1 DEF Ordered
    <3>. QED BY <2>1, <2>2 DEF Never
  <2>5. Led(s)  BY <1>2, <2>3 DEF Led, Wants, Whole
  <2>. QED BY <2>1, <2>3, <2>4, <2>5 DEF Orderly, s
<1>3. CASE call = "mute_press"
  <2>. DEFINE s == Script(call)
  <2>1. /\ s \in Seq(Steps) /\ Len(s) = 9
        /\ s[1] = "lock_change" /\ s[2] = "admit" /\ s[3] = "choose"
        /\ s[4] = "hold_now" /\ s[5] = "apply" /\ s[6] = "follow"
        /\ s[7] = "end_change" /\ s[8] = "end_admit" /\ s[9] = "record_mute"
    BY <1>3 DEF Script, Steps
  <2>. HIDE DEF s
  <2>2. \A i : i \in 1..9 <=> \/ i = 1 \/ i = 2 \/ i = 3 \/ i = 4 \/ i = 5 \/ i = 6
                              \/ i = 7 \/ i = 8 \/ i = 9
    OBVIOUS
  <2>3. \A x : Has(s, x) <=> x \in Whole(call)  BY <1>3, <2>1, <2>2 DEF Has, Whole
  <2>4. Ordered(s)
    <3>. SUFFICES ASSUME NEW i \in 1..9, NEW j \in 1..9, i < j PROVE ~Never(s[i], s[j])
      BY <2>1 DEF Ordered
    <3>. QED BY <2>1, <2>2 DEF Never
  <2>5. Led(s)  BY <1>3, <2>3 DEF Led, Wants, Whole
  <2>. QED BY <2>1, <2>3, <2>4, <2>5 DEF Orderly, s
<1>4. CASE call = "rate_press"
  <2>. DEFINE s == Script(call)
  <2>1. /\ s \in Seq(Steps) /\ Len(s) = 4
        /\ s[1] = "lock_set" /\ s[2] = "admit" /\ s[3] = "end_admit"
        /\ s[4] = "unlock_set"
    BY <1>4 DEF Script, Steps
  <2>. HIDE DEF s
  <2>2. \A i : i \in 1..4 <=> i = 1 \/ i = 2 \/ i = 3 \/ i = 4
    OBVIOUS
  <2>3. \A x : Has(s, x) <=> x \in Whole(call)  BY <1>4, <2>1, <2>2 DEF Has, Whole
  <2>4. Ordered(s)
    <3>. SUFFICES ASSUME NEW i \in 1..4, NEW j \in 1..4, i < j PROVE ~Never(s[i], s[j])
      BY <2>1 DEF Ordered
    <3>. QED BY <2>1, <2>2 DEF Never
  <2>5. Led(s)  BY <1>4, <2>3 DEF Led, Wants, Whole
  <2>. QED BY <2>1, <2>3, <2>4, <2>5 DEF Orderly, s
<1>5. CASE call = "set_hotkeys"
  <2>. DEFINE s == Script(call)
  <2>1. /\ s \in Seq(Steps) /\ Len(s) = 3
        /\ s[1] = "lock_set" /\ s[2] = "unlock_set" /\ s[3] = "join_hotkeys"
    BY <1>5 DEF Script, set_hotkeys, Steps
  <2>. HIDE DEF s
  <2>2. \A i : i \in 1..3 <=> i = 1 \/ i = 2 \/ i = 3
    OBVIOUS
  <2>3. \A x : Has(s, x) <=> x \in Whole(call)  BY <1>5, <2>1, <2>2 DEF Has, Whole
  <2>4. Ordered(s)
    <3>. SUFFICES ASSUME NEW i \in 1..3, NEW j \in 1..3, i < j PROVE ~Never(s[i], s[j])
      BY <2>1 DEF Ordered
    <3>. QED BY <2>1, <2>2 DEF Never
  <2>5. Led(s)  BY <1>5, <2>3 DEF Led, Wants, Whole
  <2>. QED BY <2>1, <2>3, <2>4, <2>5 DEF Orderly, s
<1>6. CASE call = "enable_agent"
  <2>. DEFINE s == Script(call)
  <2>1. /\ s \in Seq(Steps) /\ Len(s) = 4
        /\ s[1] = "agent_set" /\ s[2] = "lock_change" /\ s[3] = "follow"
        /\ s[4] = "end_change"
    BY <1>6 DEF Script, Steps
  <2>. HIDE DEF s
  <2>2. \A i : i \in 1..4 <=> i = 1 \/ i = 2 \/ i = 3 \/ i = 4
    OBVIOUS
  <2>3. \A x : Has(s, x) <=> x \in Whole(call)  BY <1>6, <2>1, <2>2 DEF Has, Whole
  <2>4. Ordered(s)
    <3>. SUFFICES ASSUME NEW i \in 1..4, NEW j \in 1..4, i < j PROVE ~Never(s[i], s[j])
      BY <2>1 DEF Ordered
    <3>. QED BY <2>1, <2>2 DEF Never
  <2>5. Led(s)  BY <1>6, <2>3 DEF Led, Wants, Whole
  <2>. QED BY <2>1, <2>3, <2>4, <2>5 DEF Orderly, s
<1>. QED BY <1>1, <1>2, <1>3, <1>4, <1>5, <1>6

-----------------------------------------------------------------------------
(* What a step leaves as it was.                                           *)
LEMMA FollowsOn ==
  ASSUME NEW t \in Threads, NEW name, NEW new, \A u \in Threads : Follows(u),
         Before(t, name), Advance(t, new), Hotkeys \notin Clients,
         "choose" \notin new, "record_mute" \notin new, "apply" \notin new, "agent_set" \notin new,
         "record" \in new \/ "lock_set" \in new => name = "record_mute"
  PROVE  \A u \in Threads : Follows(u)'
<1>1. \A u \in Threads \ {t} : Follows(u)'  BY DEF Advance, Follows, ByClient, ByKey, Comes, Todo
<1>2. Orderly(Todo(t))'  BY DEF Advance
<1>3. ASSUME t \in Clients  PROVE ByClient(t)'
  <2>1. ByClient(t)  BY <1>3 DEF Follows
  <2>2. name # "record_mute"  BY <2>1 DEF ByClient, Before
  <2>3. \A x \in {"choose", "record_mute", "apply", "record"} : Comes(t, x)' => Comes(t, x)
    BY <2>2 DEF Before, Advance
  <2>4. Comes(t, "apply")' => Rest(t, "apply") /\ name # "record"
    BY DEF Before, Advance, Never
  <2>5. Comes(t, "apply")' /\ Comes(t, "record") => Comes(t, "record")'
    BY <2>4 DEF Before, Advance
  <2>6. /\ thread'[t].call \in {thread[t].call, "none"}
        /\ \A x : Comes(t, x)' => thread'[t].call = thread[t].call
    BY DEF Advance
  <2>7. ~Comes(t, "lock_set")'
    <3>1. ~Rest(t, "lock_set")  BY DEF Before, Never
    <3>. QED BY <2>2, <3>1 DEF Advance
  <2>. QED BY <2>1, <2>3, <2>5, <2>6, <2>7 DEF ByClient
<1>4. ASSUME t = Hotkeys  PROVE ByKey(t)'
  <2>1. ByKey(t)  BY <1>4 DEF Follows
  <2>2. \A x \in {"agent_set", "apply"} : Comes(t, x)' => Comes(t, x)
    BY DEF Before, Advance
  <2>3. Comes(t, "apply")' /\ Comes(t, "record_mute") => Comes(t, "record_mute")'
    BY DEF Before, Advance, Never
  <2>4. thread'[t].call \in {thread[t].call, "none"}
    BY DEF Advance
  <2>. QED BY <2>1, <2>2, <2>3, <2>4 DEF ByKey
<1>. QED BY <1>1, <1>2, <1>3, <1>4 DEF Follows

LEMMA HoldSame ==
  ASSUME HoldComes, hold.held' = hold.held, muted' = muted,
         \A u \in Threads : \A x \in {"follow", "swap_held", "swap_free"} :
            Comes(u, x)' <=> Comes(u, x)
  PROVE  HoldComes'
<1>1. CASE \E u \in Threads : Comes(u, "follow")  BY <1>1 DEF HoldComes
<1>2. CASE ~\E u \in Threads : Comes(u, "follow")
  BY <1>2 DEF HoldComes
<1>. QED BY <1>1, <1>2

LEMMA LevelSame ==
  ASSUME LevelComes, SetComes, AgentComes, Hotkeys \in Threads, Clients \subseteq Threads,
         mute.agent' = mute.agent, mute.level' = mute.level, mute.stored' = mute.stored,
         \A u \in Threads : Stores(u)' <=> Stores(u),
         \A u \in Clients : /\ Stores(u)' => thread[u].value' = thread[u].value
                            /\ Comes(u, "agent_set")' => Comes(u, "agent_set")
                            /\ Comes(u, "agent_set")' => thread[u].call' = thread[u].call
  PROVE  LevelComes' /\ SetComes' /\ AgentComes'
<1>1. LevelComes'  BY DEF LevelComes
<1>2. SetComes'  BY DEF SetComes
<1>3. AgentComes'  BY DEF AgentComes
<1>. QED BY <1>1, <1>2, <1>3

Changing == {"apply", "record", "record_mute", "agent_set"}
LEMMA LevelKept ==
  ASSUME LevelComes, SetComes, AgentComes, NEW t \in Threads, NEW name, NEW new,
         Before(t, name), Advance(t, new), name \notin Changing, new \cap Changing = {},
         UNCHANGED mute
  PROVE  LevelComes' /\ SetComes' /\ AgentComes'
<1>1. Hotkeys \in Threads /\ Clients \subseteq Threads  BY DEF Threads
<1>2. \A u \in Threads \ {t} : thread[u]' = thread[u]  BY DEF Advance
<1>3. \A x \in Changing : Comes(t, x)' <=> Comes(t, x)
  BY DEF Before, Advance
<1>4. (\E x : Comes(t, x)') => /\ thread[t].call' = thread[t].call
                               /\ thread[t].value' = thread[t].value
                               /\ thread[t].done' = thread[t].done
  BY DEF Advance
<1>5. Stores(t)' <=> Stores(t)  BY <1>3, <1>4 DEF Stores, Changing
<1>6. \A u \in Threads \ {t} : (Stores(u)' <=> Stores(u)) /\ \A x : Comes(u, x)' <=> Comes(u, x)
  BY <1>2 DEF Stores, Comes, Todo
<1>7. \A u \in Threads : Stores(u)' <=> Stores(u)  BY <1>5, <1>6
<1>8. \A u \in Clients : /\ Stores(u)' => thread[u].value' = thread[u].value
                         /\ Comes(u, "agent_set")' => Comes(u, "agent_set")
                         /\ Comes(u, "agent_set")' => thread[u].call' = thread[u].call
  <2>. SUFFICES ASSUME NEW u \in Clients
                PROVE  /\ Stores(u)' => thread[u].value' = thread[u].value
                       /\ Comes(u, "agent_set")' => Comes(u, "agent_set")
                       /\ Comes(u, "agent_set")' => thread[u].call' = thread[u].call
    OBVIOUS
  <2>1. CASE u = t  BY <1>3, <1>4, <2>1 DEF Stores, Changing
  <2>2. CASE u # t  BY <1>1, <1>2, <1>6, <2>2
  <2>. QED BY <2>1, <2>2
<1>9. mute.agent' = mute.agent /\ mute.level' = mute.level /\ mute.stored' = mute.stored
  OBVIOUS
<1>. QED BY <1>1, <1>7, <1>8, <1>9, LevelSame

LEMMA LocksSame ==
  ASSUME UnderLocks, locks.set' = locks.set, locks.change' = locks.change,
         \A u \in Threads : (InChange(u)' => InChange(u)) /\ (InSet(u)' => InSet(u))
  PROVE  UnderLocks'
BY DEF UnderLocks

Taking == {"lock_change", "end_change", "lock_set", "unlock_set"}
LEMMA LocksKept ==
  ASSUME UnderLocks, NEW t \in Threads, NEW name, NEW new, Before(t, name), Advance(t, new),
         name \notin Taking, new \cap Taking = {} \/ new \cap Taking = {"lock_set", "unlock_set"},
         locks.set' = locks.set, locks.change' = locks.change
  PROVE  UnderLocks'
<1>1. \A u \in Threads \ {t} : thread[u]' = thread[u]  BY DEF Advance
<1>2. \A u \in Threads \ {t} : (InChange(u)' <=> InChange(u)) /\ (InSet(u)' <=> InSet(u))
  BY <1>1 DEF InChange, InSet, Comes, Todo
<1>3. InChange(t)' => InChange(t)  BY DEF InChange, Before, Advance, Taking
<1>4. InSet(t)' => InSet(t)  BY DEF InSet, Before, Advance, Taking
<1>. QED BY <1>2, <1>3, <1>4, LocksSame

(* A step under neither lock's doors, about neither the hold nor a level.  *)
Plain == {"lock_set", "unlock_set", "lock_change", "end_change", "admit", "end_admit",
          "move_epoch", "cancel", "join_hotkeys"}
LEMMA PlainStep ==
  ASSUME RestIInv, NEW t \in Threads, NEW name \in Plain, Before(t, name), Advance(t, {}),
         Hotkeys \notin Clients, UNCHANGED mute, hold.held' = hold.held
  PROVE  /\ \A u \in Threads : Follows(u)'
         /\ HoldComes' /\ LevelComes' /\ SetComes' /\ AgentComes'
<1>. RestIInv  OBVIOUS
<1>1. \A u \in Threads : Follows(u)'
  BY FollowsOn DEF RestIInv, Plain
<1>2. HoldComes'
  <2>1. \A u \in Threads : \A x \in {"follow", "swap_held", "swap_free"} :
            Comes(u, x)' <=> Comes(u, x)
    <3>. SUFFICES ASSUME NEW u \in Threads, NEW x \in {"follow", "swap_held", "swap_free"}
                  PROVE  Comes(u, x)' <=> Comes(u, x)
      OBVIOUS
    <3>1. CASE u = t  BY <3>1 DEF Before, Advance, Plain
    <3>2. CASE u # t  BY <3>2 DEF Advance, Comes, Todo
    <3>. QED BY <3>1, <3>2
  <2>2. muted' = muted  BY DEF muted
  <2>. QED BY <2>1, <2>2, HoldSame DEF RestIInv
<1>3. LevelComes' /\ SetComes' /\ AgentComes'
  <2>1. name \notin Changing /\ {} \cap Changing = {}  BY DEF Plain, Changing
  <2>. QED BY <2>1, LevelKept DEF RestIInv
<1>. QED BY <1>1, <1>2, <1>3

-----------------------------------------------------------------------------
(* The locks.                                                              *)
RestComes == /\ \A u \in Threads : Follows(u)
             /\ HoldComes /\ LevelComes /\ SetComes /\ AgentComes

LEMMA LockStep ==
  ASSUME ThreadType, RestIInv, NEW t \in Threads, Locks(t)
  PROVE  RestIInv'
<1>. RestIInv /\ ThreadType  OBVIOUS
<1>0. Hotkeys \notin Clients /\ Free \notin Threads  BY MutingAssumption
<1>1. PICK name \in {"lock_set", "unlock_set", "lock_change", "end_change", "admit", "end_admit"} :
        /\ At(t, name) /\ Then(t, <<>>) /\ UNCHANGED <<hold, mute>>
        /\ name = "lock_set" => locks.set = Free /\ locks' = [locks EXCEPT !.set = t]
        /\ name = "unlock_set" => locks' = [locks EXCEPT !.set = Free]
        /\ name = "lock_change" => locks.change = Free /\ locks' = [locks EXCEPT !.change = t]
        /\ name = "end_change" => locks' = [locks EXCEPT !.change = Free]
        /\ name \in {"admit", "end_admit"} => \E u : locks' = [locks EXCEPT !.admit = u]
  <2>1. CASE Lock(t, "lock_set", "set")  BY <2>1 DEF Lock, RestIInv, MuteForm
  <2>2. CASE Unlock(t, "unlock_set", "set")  BY <2>2 DEF Unlock, RestIInv, MuteForm
  <2>3. CASE Lock(t, "lock_change", "change")  BY <2>3 DEF Lock, RestIInv, MuteForm
  <2>4. CASE Unlock(t, "end_change", "change")  BY <2>4 DEF Unlock, RestIInv, MuteForm
  <2>5. CASE Lock(t, "admit", "admit")  BY <2>5 DEF Lock, RestIInv, MuteForm
  <2>6. CASE Unlock(t, "end_admit", "admit")  BY <2>6 DEF Unlock, RestIInv, MuteForm
  <2>. QED BY <2>1, <2>2, <2>3, <2>4, <2>5, <2>6 DEF Locks, change
<1>2. Before(t, name) /\ Advance(t, {})
  BY <1>1, BeforeStep, Advances DEF RestIInv
<1>3. name \in Plain  BY DEF Plain
<1>4. RestComes'
  BY <1>0, <1>1, <1>2, <1>3, PlainStep DEF RestComes
<1>5. MuteForm'
  BY <1>1 DEF RestIInv, MuteForm
<1>6. \A u \in Threads \ {t} : (InChange(u)' <=> InChange(u)) /\ (InSet(u)' <=> InSet(u))
  BY <1>2 DEF Advance, InChange, InSet, Comes, Todo
<1>7. UnderLocks'
  <2>1. UnderLocks /\ MuteForm  BY DEF RestIInv
  <2>2. CASE name = "lock_set"
    <3>1. locks.set = Free /\ locks'.set = t /\ locks'.change = locks.change
      BY <1>1, <2>1, <2>2 DEF MuteForm
    <3>2. \A u \in Threads \ {t} : ~InSet(u)  BY <1>0, <2>1, <3>1 DEF UnderLocks
    <3>3. InChange(t)' => InChange(t)  BY <1>2, <2>2 DEF InChange, Before, Advance
    <3>. QED BY <1>6, <2>1, <3>1, <3>2, <3>3 DEF UnderLocks
  <2>3. CASE name = "unlock_set"
    <3>1. InSet(t) /\ ~InSet(t)'
      BY <1>2, <2>3 DEF InSet, Before, Advance, Never
    <3>2. locks.set = t /\ locks'.change = locks.change
      BY <1>1, <2>1, <2>3, <3>1 DEF MuteForm, UnderLocks
    <3>3. \A u \in Threads \ {t} : ~InSet(u)  BY <2>1, <3>2 DEF UnderLocks
    <3>4. InChange(t)' => InChange(t)  BY <1>2, <2>3 DEF InChange, Before, Advance
    <3>. QED BY <1>6, <2>1, <3>1, <3>2, <3>3, <3>4 DEF UnderLocks
  <2>4. CASE name = "lock_change"
    <3>1. locks.change = Free /\ locks'.change = t /\ locks'.set = locks.set
      BY <1>1, <2>1, <2>4 DEF MuteForm
    <3>2. \A u \in Threads \ {t} : ~InChange(u)  BY <1>0, <2>1, <3>1 DEF UnderLocks
    <3>3. InSet(t)' => InSet(t)  BY <1>2, <2>4 DEF InSet, Before, Advance
    <3>. QED BY <1>6, <2>1, <3>1, <3>2, <3>3 DEF UnderLocks
  <2>5. CASE name = "end_change"
    <3>1. InChange(t) /\ ~InChange(t)'
      BY <1>2, <2>5 DEF InChange, Before, Advance, Never
    <3>2. locks.change = t /\ locks'.set = locks.set
      BY <1>1, <2>1, <2>5, <3>1 DEF MuteForm, UnderLocks
    <3>3. \A u \in Threads \ {t} : ~InChange(u)  BY <2>1, <3>2 DEF UnderLocks
    <3>4. InSet(t)' => InSet(t)  BY <1>2, <2>5 DEF InSet, Before, Advance
    <3>. QED BY <1>6, <2>1, <3>1, <3>2, <3>3, <3>4 DEF UnderLocks
  <2>6. CASE name \in {"admit", "end_admit"}
    <3>1. locks.set' = locks.set /\ locks.change' = locks.change
      BY <1>1, <2>1, <2>6 DEF MuteForm
    <3>2. name \notin Taking /\ {} \cap Taking = {}  BY <2>6 DEF Taking
    <3>. QED BY <1>2, <2>1, <3>1, <3>2, LocksKept
  <2>. QED BY <2>2, <2>3, <2>4, <2>5, <2>6
<1>. QED BY <1>4, <1>5, <1>7 DEF RestIInv, RestComes

(* Nothing but the list of steps, or what the chunk in the engine sees.    *)
LEMMA QuietStep ==
  ASSUME ThreadType, RestIInv, NEW t \in Threads,
         MoveEpoch(t) \/ CancelTokens(t) \/ JoinHotkeys(t)
  PROVE  RestIInv'
<1>. RestIInv /\ ThreadType  OBVIOUS
<1>0. Hotkeys \notin Clients  BY MutingAssumption
<1>1. PICK name \in {"move_epoch", "cancel", "join_hotkeys"} : At(t, name)
  BY DEF MoveEpoch, CancelTokens, JoinHotkeys
<1>2. Then(t, <<>>) /\ UNCHANGED <<mute, locks>>
  BY DEF MoveEpoch, CancelTokens, JoinHotkeys
<1>3. MuteForm' /\ hold.held' = hold.held
  <2>1. CASE MoveEpoch(t)  BY <1>2, <2>1 DEF MoveEpoch, RestIInv, MuteForm
  <2>2. CASE CancelTokens(t)  BY <1>2, <2>2 DEF CancelTokens, RestIInv, MuteForm
  <2>3. CASE JoinHotkeys(t)  BY <1>2, <2>3 DEF JoinHotkeys, RestIInv, MuteForm
  <2>. QED BY <2>1, <2>2, <2>3
<1>4. Before(t, name) /\ Advance(t, {})
  BY <1>1, <1>2, BeforeStep, Advances DEF RestIInv
<1>5. name \in Plain /\ name \notin Taking /\ {} \cap Taking = {}  BY DEF Plain, Taking
<1>6. RestComes'
  BY <1>0, <1>2, <1>3, <1>4, <1>5, PlainStep DEF RestComes
<1>7. UnderLocks'
  BY <1>2, <1>4, <1>5, LocksKept DEF RestIInv
<1>. QED BY <1>3, <1>6, <1>7 DEF RestIInv, RestComes

-----------------------------------------------------------------------------
(* The hold.                                                               *)
LEMMA Named ==
  ASSUME ThreadType, RestIInv, NEW t \in Threads, NEW name, At(t, name)
  PROVE  /\ Before(t, name) /\ Comes(t, name) /\ name \in Steps
         /\ \A y \in Wants(name) : Rest(t, y) /\ Comes(t, y)
         /\ Then(t, <<>>) => Advance(t, {})
<1>1. Follows(t)  BY DEF RestIInv
<1>2. Before(t, name) /\ Todo(t) \in Seq(Steps) /\ Todo(t) # <<>>  BY <1>1, BeforeStep
<1>3. Comes(t, name) /\ name \in Steps
  <2>1. Head(Todo(t)) \in Steps  BY <1>2
  <2>. QED BY <1>2, <2>1 DEF At, Todo, Before
<1>4. ASSUME NEW y \in Wants(name)  PROVE Rest(t, y) /\ Comes(t, y)
  <2>1. Comes(t, y)  BY <1>1, <1>3 DEF Comes, Follows, Orderly, Led
  <2>2. y # name  BY DEF Wants
  <2>. QED BY <1>2, <2>1, <2>2 DEF Before
<1>. QED BY <1>1, <1>2, <1>3, <1>4, Advances

(* Who is to swap the hold has the change's lock.                          *)
LEMMA SwapsLocked ==
  ASSUME RestIInv, NEW u \in Threads, Comes(u, "swap_held") \/ Comes(u, "swap_free")
  PROVE  InChange(u) /\ locks.change = u
<1>1. Orderly(Todo(u)) /\ UnderLocks  BY DEF RestIInv, Follows
<1>2. Comes(u, "end_change")
  <2>1. "swap_held" \in Steps /\ "swap_free" \in Steps  BY DEF Steps
  <2>2. "end_change" \in Wants("swap_held") /\ "end_change" \in Wants("swap_free")  BY DEF Wants
  <2>. QED BY <1>1, <2>1, <2>2 DEF Orderly, Led, Comes
<1>3. ~Comes(u, "lock_change")
  <2>1. \A x \in {"swap_held", "swap_free"} :
           x # "lock_change" /\ Never(x, "lock_change") /\ Never("lock_change", x)
    BY DEF Never
  <2>. QED BY <1>1, <2>1, NotBoth DEF Comes
<1>. QED BY <1>1, <1>2, <1>3 DEF InChange, UnderLocks

LEMMA HoldNowStep ==
  ASSUME ThreadType, RestIInv, NEW t \in Threads, HoldNow(t)
  PROVE  RestIInv'
<1>. RestIInv /\ ThreadType /\ Hotkeys \notin Clients  BY MutingAssumption
<1>1. At(t, "hold_now") /\ UNCHANGED <<hold, mute, locks>>  BY DEF HoldNow
<1>2. Before(t, "hold_now") /\ Rest(t, "follow")  BY <1>1, Named DEF Wants
<1>3. PICK new \in {{}, {"move_epoch", "swap_held"}} : Advance(t, new)
  <2>1. Then(t, <<>>) \/ Then(t, <<"move_epoch", "swap_held">>)
    BY DEF HoldNow, set
  <2>2. Follows(t)  BY DEF RestIInv
  <2>. QED BY <1>1, <2>1, <2>2, Advances
<1>4. \A u \in Threads : Follows(u)'
  BY <1>2, <1>3, FollowsOn DEF RestIInv
<1>5. HoldComes'
  <2>1. Comes(t, "follow")'  BY <1>2, <1>3 DEF Advance
  <2>. QED BY <2>1 DEF HoldComes
<1>6. LevelComes' /\ SetComes' /\ AgentComes'
  <2>1. "hold_now" \notin Changing /\ new \cap Changing = {}  BY <1>3 DEF Changing
  <2>. QED BY <1>1, <1>2, <1>3, <2>1, LevelKept DEF RestIInv
<1>7. UnderLocks'
  <2>1. "hold_now" \notin Taking /\ new \cap Taking = {}  BY <1>3 DEF Taking
  <2>. QED BY <1>1, <1>2, <1>3, <2>1, LocksKept DEF RestIInv
<1>8. MuteForm'  BY <1>1 DEF RestIInv, MuteForm
<1>. QED BY <1>4, <1>5, <1>6, <1>7, <1>8 DEF RestIInv

LEMMA FollowStep ==
  ASSUME ThreadType, RestIInv, NEW t \in Threads, follow(t)
  PROVE  RestIInv'
<1>. RestIInv /\ ThreadType /\ Hotkeys \notin Clients  BY MutingAssumption
<1>1. At(t, "follow") /\ UNCHANGED <<hold, mute, locks>>  BY DEF follow
<1>2. Before(t, "follow") /\ Comes(t, "end_change")  BY <1>1, Named DEF Wants
<1>3. muted \in BOOLEAN /\ muted' = muted  BY <1>1 DEF muted, RestIInv, MuteForm
<1>4. PICK new \in {{"swap_free"}, {"move_epoch", "swap_held"}} :
        Advance(t, new) /\ ("swap_held" \in new <=> muted) /\ ("swap_free" \in new <=> ~muted)
  <2>1. Follows(t)  BY DEF RestIInv
  <2>2. CASE muted
    <3>1. Then(t, <<"move_epoch", "swap_held">>)  BY <2>2 DEF follow, set
    <3>. QED BY <1>1, <2>1, <2>2, <3>1, Advances
  <2>3. CASE ~muted
    <3>1. Then(t, <<"swap_free">>)  BY <2>3 DEF follow, set
    <3>. QED BY <1>1, <2>1, <2>3, <3>1, Advances
  <2>. QED BY <1>3, <2>2, <2>3
<1>5. \A u \in Threads : Follows(u)'
  BY <1>2, <1>4, FollowsOn DEF RestIInv
<1>6. HoldComes'
  <2>1. ~Rest(t, "swap_held") /\ ~Rest(t, "swap_free")  BY <1>2 DEF Before, Never
  <2>2. (Comes(t, "swap_held")' <=> muted) /\ (Comes(t, "swap_free")' <=> ~muted)
    BY <1>4, <2>1 DEF Advance
  <2>3. locks.change = t
    <3>1. ~Comes(t, "lock_change")  BY <1>2 DEF Before, Never
    <3>. QED BY <1>2, <3>1 DEF InChange, RestIInv, UnderLocks
  <2>4. ASSUME NEW u \in Threads \ {t}
        PROVE  ~Comes(u, "swap_held")' /\ ~Comes(u, "swap_free")'
    <3>1. thread[u]' = thread[u]  BY <1>4 DEF Advance
    <3>2. ~Comes(u, "swap_held") /\ ~Comes(u, "swap_free")  BY <2>3, SwapsLocked
    <3>. QED BY <3>1, <3>2 DEF Comes, Todo
  <2>. QED BY <1>3, <2>2, <2>4 DEF HoldComes
<1>7. LevelComes' /\ SetComes' /\ AgentComes'
  <2>1. "follow" \notin Changing /\ new \cap Changing = {}  BY <1>4 DEF Changing
  <2>. QED BY <1>1, <1>2, <1>4, <2>1, LevelKept DEF RestIInv
<1>8. UnderLocks'
  <2>1. "follow" \notin Taking /\ new \cap Taking = {}  BY <1>4 DEF Taking
  <2>. QED BY <1>1, <1>2, <1>4, <2>1, LocksKept DEF RestIInv
<1>9. MuteForm'  BY <1>1 DEF RestIInv, MuteForm
<1>. QED BY <1>5, <1>6, <1>7, <1>8, <1>9 DEF RestIInv

(* The swap is as the mute is, or somebody follows.                        *)
LEMMA SwapStep ==
  ASSUME ThreadType, RestIInv, NEW t \in Threads, SwapHeld(t) \/ SwapFree(t)
  PROVE  RestIInv'
<1>. RestIInv /\ ThreadType /\ Hotkeys \notin Clients  BY MutingAssumption
<1>1. PICK name \in {"swap_held", "swap_free"} :
        /\ At(t, name) /\ hold' = [hold EXCEPT !.held = (name = "swap_held")]
        /\ UNCHANGED <<mute, locks>>
        /\ Then(t, <<>>) \/ (Then(t, <<"cancel">>) /\ name = "swap_held")
  <2>1. CASE SwapHeld(t)  BY <2>1 DEF SwapHeld
  <2>2. CASE SwapFree(t)  BY <2>2 DEF SwapFree
  <2>. QED BY <2>1, <2>2
<1>2. Before(t, name) /\ Comes(t, name)  BY <1>1, Named
<1>3. PICK new \in {{}, {"cancel"}} : Advance(t, new)
  <2>1. Follows(t)  BY DEF RestIInv
  <2>. QED BY <1>1, <2>1, Advances
<1>4. \A u \in Threads : Follows(u)'
  BY <1>2, <1>3, FollowsOn DEF RestIInv
<1>5. MuteForm' /\ hold.held' = (name = "swap_held")  BY <1>1 DEF RestIInv, MuteForm
<1>6. HoldComes'
  <2>1. muted \in BOOLEAN /\ muted' = muted  BY <1>1 DEF muted, RestIInv, MuteForm
  <2>2. \A x : Comes(t, x)' => Comes(t, x) \/ x = "cancel"  BY <1>2, <1>3 DEF Before, Advance
  <2>3. \A u \in Threads \ {t} : \A x : Comes(u, x)' <=> Comes(u, x)
    BY <1>3 DEF Advance, Comes, Todo
  <2>4. CASE \E u \in Threads : Comes(u, "follow")
    <3>1. Comes(t, "follow") => Comes(t, "follow")'  BY <1>2, <1>3 DEF Before, Advance
    <3>. QED BY <2>3, <2>4, <3>1 DEF HoldComes
  <2>5. CASE ~\E u \in Threads : Comes(u, "follow")
    <3>1. /\ \A u \in Threads : /\ Comes(u, "swap_held") => muted
                                /\ Comes(u, "swap_free") => ~muted
      BY <2>5 DEF HoldComes, RestIInv
    <3>2. hold.held' = muted  BY <1>2, <1>5, <2>1, <3>1
    <3>3. \A u \in Threads : /\ Comes(u, "swap_held")' => muted'
                             /\ Comes(u, "swap_free")' => ~muted'
      BY <2>1, <2>2, <2>3, <3>1
    <3>. QED BY <2>1, <3>2, <3>3 DEF HoldComes
  <2>. QED BY <2>4, <2>5
<1>7. LevelComes' /\ SetComes' /\ AgentComes'
  <2>1. name \notin Changing /\ new \cap Changing = {}  BY <1>3 DEF Changing
  <2>. QED BY <1>1, <1>2, <1>3, <2>1, LevelKept DEF RestIInv
<1>8. UnderLocks'
  <2>1. name \notin Taking /\ new \cap Taking = {}  BY <1>3 DEF Taking
  <2>. QED BY <1>1, <1>2, <1>3, <2>1, LocksKept DEF RestIInv
<1>. QED BY <1>4, <1>5, <1>6, <1>7, <1>8 DEF RestIInv

-----------------------------------------------------------------------------
(* The changes themselves.  The next step, with the thread's fields.       *)
LEMMA GoesWith ==
  ASSUME ThreadType, RestIInv, NEW t \in Threads, NEW name, At(t, name), NEW th,
         thread' = [thread EXCEPT ![t] = th], th.todo = Tail(Todo(t))
  PROVE  /\ \A u \in Threads \ {t} : /\ thread[u]' = thread[u] /\ (Stores(u)' <=> Stores(u))
                                     /\ \A x : Comes(u, x)' <=> Comes(u, x)
         /\ thread[t]' = th /\ Orderly(Todo(t))' /\ \A x : Comes(t, x)' <=> Rest(t, x)
         /\ name \notin Taking /\ UNCHANGED locks => UnderLocks'
<1>1. Orderly(Tail(Todo(t))) /\ Before(t, name)  BY BeforeStep DEF RestIInv
<1>2. /\ thread'[t] = th
      /\ \A u \in Threads \ {t} : thread'[u] = thread[u]
  BY DEF ThreadType
<1>3. Todo(t)' = Tail(Todo(t))  BY <1>2 DEF Todo
<1>4. Orderly(Todo(t))'  BY <1>1, <1>3 DEF Orderly
<1>5. \A x : Comes(t, x)' <=> Rest(t, x)  BY <1>3 DEF Comes, Rest
<1>6. \A u \in Threads \ {t} : (Stores(u)' <=> Stores(u)) /\ \A x : Comes(u, x)' <=> Comes(u, x)
  BY <1>2 DEF Stores, Comes, Todo
<1>7. ASSUME name \notin Taking, UNCHANGED locks  PROVE UnderLocks'
  <2>1. (InChange(t)' => InChange(t)) /\ (InSet(t)' => InSet(t))
    BY <1>1, <1>5, <1>7 DEF InChange, InSet, Before, Taking
  <2>2. \A u \in Threads \ {t} : (InChange(u)' <=> InChange(u)) /\ (InSet(u)' <=> InSet(u))
    BY <1>6 DEF InChange, InSet
  <2>. QED BY <1>7, <2>1, <2>2, LocksSame DEF RestIInv
<1>. QED BY <1>2, <1>4, <1>5, <1>6, <1>7

LEMMA ChooseStep ==
  ASSUME ThreadType, RestIInv, NEW t \in Threads, Choose(t)
  PROVE  RestIInv'
<1>. RestIInv /\ ThreadType /\ Hotkeys \notin Clients  BY MutingAssumption
<1>1. At(t, "choose") /\ UNCHANGED <<hold, mute, locks>>  BY DEF Choose
<1>2. Before(t, "choose") /\ Comes(t, "choose") /\ Follows(t)  BY <1>1, Named DEF RestIInv
<1>3. t = Hotkeys  BY <1>2 DEF Follows, ByClient, Threads
<1>. DEFINE call == IF mute.agent THEN "level_press" ELSE thread[t].call
            value == IF mute.agent THEN next_mute_level(mute.level, thread[t].value)
                     ELSE IF mute.reader THEN 0 ELSE 1
            th == [thread[t] EXCEPT !.todo = Tail(Todo(t)), !.call = call, !.value = value]
<1>4. thread' = [thread EXCEPT ![t] = th]
  BY DEF Choose, Todo, ThreadType
<1>. HIDE DEF value
<1>5. th.todo = Tail(Todo(t)) /\ th.done = thread[t].done /\ th.call = call
  <2>1. thread[t] = [call |-> thread[t].call, todo |-> thread[t].todo,
                     value |-> thread[t].value, done |-> thread[t].done]
    BY DEF ThreadType
  <2>. QED BY <2>1
<1>. HIDE DEF th
<1>6. /\ \A u \in Threads \ {t} : /\ thread[u]' = thread[u] /\ (Stores(u)' <=> Stores(u))
                                  /\ \A x : Comes(u, x)' <=> Comes(u, x)
      /\ thread[t]' = th /\ Orderly(Todo(t))' /\ \A x : Comes(t, x)' <=> Rest(t, x)
      /\ UnderLocks'
  <2>1. "choose" \notin Taking  BY DEF Taking
  <2>. QED BY <1>1, <1>4, <1>5, <2>1, GoesWith
<1>7. \A x : x # "choose" => (Comes(t, x)' <=> Comes(t, x))  BY <1>2, <1>6 DEF Before
<1>8. \A u \in Threads : Follows(u)'
  <2>1. \A u \in Threads \ {t} : Follows(u)'
    BY <1>6 DEF RestIInv, Follows, ByClient, ByKey, Todo
  <2>2. ByKey(t)'
    <3>1. ByKey(t)  BY <1>2, <1>3 DEF Follows
    <3>2. thread'[t].call \in {thread[t].call, "level_press"}  BY <1>5, <1>6
    <3>. QED BY <1>7, <3>1, <3>2 DEF ByKey
  <2>. QED BY <1>3, <1>6, <2>1, <2>2 DEF Follows
<1>9. HoldComes'
  <2>1. \A u \in Threads : \A x \in {"follow", "swap_held", "swap_free"} :
           Comes(u, x)' <=> Comes(u, x)
    BY <1>6, <1>7
  <2>2. muted' = muted  BY <1>1 DEF muted
  <2>. QED BY <1>1, <2>1, <2>2, HoldSame DEF RestIInv
<1>10. LevelComes' /\ SetComes' /\ AgentComes'
  <2>1. Stores(t)' <=> Stores(t)  BY <1>5, <1>6, <1>7 DEF Stores
  <2>2. Hotkeys \in Threads /\ Clients \subseteq Threads  BY DEF Threads
  <2>3. \A u \in Threads : Stores(u)' <=> Stores(u)  BY <1>6, <2>1
  <2>4. \A u \in Clients : /\ Stores(u)' => thread[u].value' = thread[u].value
                           /\ Comes(u, "agent_set")' => Comes(u, "agent_set")
                           /\ Comes(u, "agent_set")' => thread[u].call' = thread[u].call
    BY <1>3, <1>6, <2>2
  <2>. QED BY <1>1, <2>2, <2>3, <2>4, LevelSame DEF RestIInv
<1>11. MuteForm'  BY <1>1 DEF RestIInv, MuteForm
<1>. QED BY <1>6, <1>8, <1>9, <1>10, <1>11 DEF RestIInv

(* Who is to store a level has the `set` lock, or will take it.            *)
LEMMA RecordLocked ==
  ASSUME RestIInv, NEW u \in Threads, Comes(u, "record"), ~Comes(u, "lock_set")
  PROVE  locks.set = u
<1>1. Orderly(Todo(u)) /\ UnderLocks  BY DEF RestIInv, Follows
<1>2. "record" \in Steps /\ "unlock_set" \in Wants("record")  BY DEF Steps, Wants
<1>3. Comes(u, "unlock_set")  BY <1>1, <1>2 DEF Orderly, Led, Comes
<1>. QED BY <1>1, <1>3 DEF InSet, UnderLocks

LEMMA ClientStores ==
  ASSUME RestIInv, NEW u \in Clients, Stores(u)
  PROVE  /\ locks.set = u /\ thread[u].call = "set_mute_level" /\ Comes(u, "record")
         /\ mute.agent /\ (mute.level = thread[u].value \/ Stores(Hotkeys))
<1>1. u \in Threads /\ ByClient(u)  BY DEF RestIInv, Follows, Threads
<1>2. Comes(u, "record") /\ thread[u].call = "set_mute_level"  BY <1>1 DEF Stores, ByClient
<1>3. ~Comes(u, "lock_set")  BY <1>1, <1>2 DEF Stores, ByClient
<1>. QED BY <1>1, <1>2, <1>3, RecordLocked DEF RestIInv, SetComes

(* A level applied is still to be stored; what came before it is not.      *)
LEMMA ApplyStep ==
  ASSUME ThreadType, RestIInv, NEW t \in Threads, Apply(t)
  PROVE  RestIInv'
<1>. RestIInv /\ ThreadType /\ Hotkeys \notin Clients  BY MutingAssumption
<1>. DEFINE level == thread[t].call \in {"set_mute_level", "level_press"}
            ok == level => mute.agent /\ thread[t].value <= MUTE_LEVEL_MAX
            th == [thread[t] EXCEPT !.todo = Tail(Todo(t)), !.done = ok]
<1>1. At(t, "apply") /\ UNCHANGED <<hold, locks>>  BY DEF Apply
<1>2. Before(t, "apply") /\ Comes(t, "apply") /\ Follows(t) /\ Rest(t, "follow")
  BY <1>1, Named DEF RestIInv, Wants
<1>3. mute' = IF ~ok THEN mute ELSE IF level THEN [mute EXCEPT !.level = thread[t].value]
              ELSE [mute EXCEPT !.reader = thread[t].value = 1]
  BY DEF Apply
<1>4. thread' = [thread EXCEPT ![t] = th]
  BY DEF Apply, Todo, ThreadType
<1>5. ok \in BOOLEAN  OBVIOUS
<1>6. level /\ ok => mute.agent  OBVIOUS
<1>. HIDE DEF ok
<1>7. th.todo = Tail(Todo(t)) /\ th.done = ok /\ th.call = thread[t].call
      /\ th.value = thread[t].value
  <2>1. thread[t] = [call |-> thread[t].call, todo |-> thread[t].todo,
                     value |-> thread[t].value, done |-> thread[t].done]
    BY DEF ThreadType
  <2>. QED BY <2>1
<1>. HIDE DEF th
<1>8. /\ \A u \in Threads \ {t} : /\ thread[u]' = thread[u] /\ (Stores(u)' <=> Stores(u))
                                  /\ \A x : Comes(u, x)' <=> Comes(u, x)
      /\ thread[t]' = th /\ Orderly(Todo(t))' /\ \A x : Comes(t, x)' <=> Rest(t, x)
      /\ UnderLocks'
  <2>1. "apply" \notin Taking  BY DEF Taking
  <2>. QED BY <1>1, <1>4, <1>7, <2>1, GoesWith
<1>9. \A x : x # "apply" => (Comes(t, x)' <=> Comes(t, x))  BY <1>2, <1>8 DEF Before
<1>10. \A u \in Threads : Follows(u)'
  <2>1. \A u \in Threads \ {t} : Follows(u)'
    BY <1>8 DEF RestIInv, Follows, ByClient, ByKey, Todo
  <2>2. \A x : Comes(t, x)' => Comes(t, x)  BY <1>2, <1>8 DEF Before
  <2>3. Comes(t, "record")' <=> Comes(t, "record")  BY <1>9
  <2>4. Comes(t, "record_mute")' <=> Comes(t, "record_mute")  BY <1>9
  <2>5. t \in Clients => ByClient(t)'
    <3>1. ~Comes(t, "lock_set")'  BY <1>2, <1>8 DEF Before, Never
    <3>2. ~Comes(t, "apply")'  BY <1>2, <1>8 DEF Before, Never
    <3>. QED BY <1>2, <1>7, <1>8, <2>2, <2>3, <3>1, <3>2 DEF Follows, ByClient
  <2>6. t = Hotkeys => ByKey(t)'
    BY <1>2, <1>7, <1>8, <2>2, <2>4 DEF Follows, ByKey
  <2>. QED BY <1>8, <2>1, <2>5, <2>6 DEF Follows
<1>11. HoldComes'
  <2>1. Comes(t, "follow")'  BY <1>2, <1>8
  <2>. QED BY <2>1 DEF HoldComes
<1>12. MuteForm'
  BY <1>1, <1>3 DEF RestIInv, MuteForm
<1>13. /\ mute.agent' = mute.agent /\ mute.stored' = mute.stored
       /\ mute.level' = IF ok /\ level THEN thread[t].value ELSE mute.level
  BY <1>3 DEF RestIInv, MuteForm
<1>. HIDE DEF level
<1>14. ~Stores(t)  BY <1>2 DEF Stores
<1>15. AgentComes'
  <2>1. AgentComes  BY DEF RestIInv
  <2>2. \A u \in Clients : (Comes(u, "agent_set")' <=> Comes(u, "agent_set"))
                           /\ thread[u].call' = thread[u].call
    BY <1>7, <1>8, <1>9 DEF Threads
  <2>. QED BY <1>13, <2>1, <2>2 DEF AgentComes
<1>16. CASE ok /\ level
  <2>1. mute.agent /\ mute.level' = thread[t].value  BY <1>6, <1>13, <1>16
  <2>2. Stores(t)'
    <3>1. Comes(t, "record") \/ Comes(t, "record_mute")
      <4>1. CASE t \in Clients
        BY <1>2, <1>16, <4>1 DEF Follows, ByClient, level
      <4>2. CASE t = Hotkeys
        BY <1>2, <4>2 DEF Follows, ByKey
      <4>. QED BY <4>1, <4>2 DEF Threads
    <3>2. ~Comes(t, "apply")'  BY <1>2, <1>8 DEF Before, Never
    <3>. QED BY <1>7, <1>8, <1>9, <1>16, <3>1, <3>2 DEF Stores
  <2>3. LevelComes'  BY <2>2 DEF LevelComes
  <2>4. SetComes'
    <3>. SUFFICES ASSUME NEW u \in Clients, Stores(u)'
                  PROVE  mute.agent' /\ (mute.level' = thread[u].value' \/ Stores(Hotkeys)')
      BY DEF SetComes
    <3>1. mute.agent'  BY <1>13, <2>1
    <3>2. CASE t = Hotkeys  BY <2>2, <3>1, <3>2
    <3>3. CASE u = t  BY <1>7, <1>8, <2>1, <3>1, <3>3
    <3>4. CASE t # Hotkeys /\ u # t
      <4>1. locks.set = t
        <5>1. Comes(t, "record")
          BY <1>2, <1>16, <3>4 DEF Follows, ByClient, level, Threads
        <5>2. ~Comes(t, "lock_set")  BY <1>2 DEF Before, Never
        <5>. QED BY <5>1, <5>2, RecordLocked
      <4>2. Stores(u)  BY <1>8, <3>4 DEF Threads
      <4>3. locks.set = u  BY <4>2, ClientStores
      <4>. QED BY <3>4, <4>1, <4>3
    <3>. QED BY <3>2, <3>3, <3>4
  <2>. QED BY <1>8, <1>10, <1>11, <1>12, <1>15, <2>3, <2>4 DEF RestIInv
<1>17. CASE ~(ok /\ level)
  <2>1. mute.level' = mute.level  BY <1>13, <1>17
  <2>2. \A u \in Threads : Stores(u) => Stores(u)'  BY <1>8, <1>14
  <2>3. LevelComes'
    BY <1>13, <2>1, <2>2 DEF RestIInv, LevelComes
  <2>4. SetComes'
    <3>. SUFFICES ASSUME NEW u \in Clients, Stores(u)'
                  PROVE  mute.agent' /\ (mute.level' = thread[u].value' \/ Stores(Hotkeys)')
      BY DEF SetComes
    <3>1. u # t
      <4>1. CASE u = t
        <5>1. Comes(t, "record")
          BY <1>2, <1>9, <4>1 DEF Stores, Follows, ByClient
        <5>2. thread[t].call = "set_mute_level"
          BY <1>2, <4>1, <5>1 DEF Follows, ByClient
        <5>3. ~ok  BY <1>17, <5>2 DEF level
        <5>. QED BY <1>7, <1>8, <4>1, <5>3 DEF Stores
      <4>. QED BY <4>1
    <3>2. Stores(u) /\ thread[u]' = thread[u]  BY <1>8, <3>1 DEF Threads
    <3>3. mute.agent /\ (mute.level = thread[u].value \/ Stores(Hotkeys))
      BY <3>2, ClientStores
    <3>. QED BY <1>13, <2>1, <2>2, <3>2, <3>3 DEF Threads
  <2>. QED BY <1>8, <1>10, <1>11, <1>12, <1>15, <2>3, <2>4 DEF RestIInv
<1>. QED BY <1>16, <1>17

-----------------------------------------------------------------------------
(* Levels are stored.                                                      *)
LEMMA RecordStep ==
  ASSUME ThreadType, RestIInv, NEW t \in Threads, Record(t)
  PROVE  RestIInv'
<1>. RestIInv /\ ThreadType /\ Hotkeys \notin Clients  BY MutingAssumption
<1>1. At(t, "record") /\ Then(t, <<>>) /\ UNCHANGED <<hold, locks>>  BY DEF Record
<1>2. Before(t, "record") /\ Comes(t, "record") /\ Follows(t) /\ Advance(t, {})
  BY <1>1, Named DEF RestIInv
<1>3. mute' = IF thread[t].done /\ mute.agent
              THEN [mute EXCEPT !.stored = IF thread[t].call = "set_mute_level"
                                           THEN thread[t].value ELSE mute.level]
              ELSE mute
  BY DEF Record
<1>4. /\ MuteForm' /\ mute.reader' = mute.reader /\ mute.agent' = mute.agent
      /\ mute.level' = mute.level
      /\ mute.stored' = IF thread[t].done /\ mute.agent
                        THEN IF thread[t].call = "set_mute_level" THEN thread[t].value ELSE mute.level
                        ELSE mute.stored
  BY <1>1, <1>3 DEF RestIInv, MuteForm
<1>5. \A u \in Threads \ {t} : /\ thread[u]' = thread[u] /\ (Stores(u)' <=> Stores(u))
                               /\ \A x : Comes(u, x)' <=> Comes(u, x)
  BY <1>2 DEF Advance, Stores, Comes, Todo
<1>6. /\ \A x : x # "record" => (Comes(t, x)' <=> Comes(t, x))
      /\ \A x : Comes(t, x)' => Comes(t, x) /\ thread[t].call' = thread[t].call
                                /\ thread[t].value' = thread[t].value
                                /\ thread[t].done' = thread[t].done
  BY <1>2 DEF Before, Advance
<1>7. ~Comes(t, "apply") /\ ~Comes(t, "lock_set")  BY <1>2 DEF Before, Never
<1>8. locks.set = t  BY <1>2, <1>7, RecordLocked
<1>9. \A u \in Threads : Follows(u)'  BY <1>2, FollowsOn DEF RestIInv
<1>10. HoldComes'
  <2>1. \A u \in Threads : \A x \in {"follow", "swap_held", "swap_free"} :
           Comes(u, x)' <=> Comes(u, x)
    BY <1>5, <1>6
  <2>2. muted' = muted  BY <1>4 DEF muted
  <2>. QED BY <1>1, <2>1, <2>2, HoldSame DEF RestIInv
<1>11. UnderLocks'
  <2>1. "record" \notin Taking /\ {} \cap Taking = {}  BY DEF Taking
  <2>. QED BY <1>1, <1>2, <2>1, LocksKept DEF RestIInv
<1>12. AgentComes'
  <2>1. \A u \in Clients : Comes(u, "agent_set")' =>
           Comes(u, "agent_set") /\ thread[u].call' = thread[u].call
    BY <1>5, <1>6 DEF Threads
  <2>. QED BY <1>4, <2>1 DEF RestIInv, AgentComes
<1>13. LevelComes'
  <2>. SUFFICES ASSUME mute.agent
                PROVE  mute.level = mute.stored' \/ \E u \in Threads : Stores(u)'
    BY <1>4 DEF LevelComes
  <2>1. CASE ~thread[t].done
    <3>1. ~Stores(t)  BY <2>1 DEF Stores
    <3>2. mute.level = mute.stored \/ \E u \in Threads : Stores(u)  BY DEF RestIInv, LevelComes
    <3>. QED BY <1>4, <1>5, <2>1, <3>1, <3>2
  <2>2. CASE thread[t].done /\ t \in Clients
    <3>1. Stores(t)  BY <1>2, <1>7, <2>2 DEF Stores
    <3>2. thread[t].call = "set_mute_level" /\ (mute.level = thread[t].value \/ Stores(Hotkeys))
      BY <2>2, <3>1, ClientStores
    <3>3. Hotkeys \in Threads \ {t}  BY <2>2 DEF Threads
    <3>. QED BY <1>4, <1>5, <2>2, <3>2, <3>3
  <2>3. CASE thread[t].done /\ t = Hotkeys
    <3>1. thread[t].call # "set_mute_level"  BY <1>2, <2>3 DEF Follows, ByKey
    <3>. QED BY <1>4, <2>3, <3>1
  <2>. QED BY <2>1, <2>2, <2>3 DEF Threads
<1>14. SetComes'
  <2>. SUFFICES ASSUME NEW u \in Clients, Stores(u)'
                PROVE  mute.agent' /\ (mute.level' = thread[u].value' \/ Stores(Hotkeys)')
    BY DEF SetComes
  <2>1. u = t
    <3>1. CASE u # t
      <4>1. Stores(u)  BY <1>5, <3>1 DEF Threads
      <4>. QED BY <1>8, <3>1, <4>1, ClientStores
    <3>. QED BY <3>1
  <2>2. Stores(t) /\ thread[t].value' = thread[t].value
    BY <1>6, <1>7, <2>1 DEF Stores
  <2>3. mute.agent /\ (mute.level = thread[t].value \/ Stores(Hotkeys))
    BY <2>1, <2>2, ClientStores
  <2>4. Hotkeys \in Threads \ {t}  BY <2>1 DEF Threads
  <2>. QED BY <1>4, <1>5, <2>1, <2>2, <2>3, <2>4
<1>. QED BY <1>4, <1>9, <1>10, <1>11, <1>12, <1>13, <1>14 DEF RestIInv

LEMMA RecordMuteStep ==
  ASSUME ThreadType, RestIInv, NEW t \in Threads, record_mute(t)
  PROVE  RestIInv'
<1>. RestIInv /\ ThreadType /\ Hotkeys \notin Clients  BY MutingAssumption
<1>1. At(t, "record_mute") /\ UNCHANGED <<hold, mute, locks>>  BY DEF record_mute
<1>2. Before(t, "record_mute") /\ Comes(t, "record_mute") /\ Follows(t)
  BY <1>1, Named DEF RestIInv
<1>3. \A x : ~Rest(t, x)  BY <1>2 DEF Before, Never
<1>4. t = Hotkeys  BY <1>2 DEF Follows, ByClient, Threads
<1>. DEFINE stores == thread[t].done /\ mute.agent
<1>5. PICK new \in {{}, {"lock_set", "record", "unlock_set"}} :
        Advance(t, new) /\ (stores <=> new # {})
  <2>1. CASE stores
    <3>1. Then(t, <<"lock_set", "record", "unlock_set">>)  BY <2>1 DEF record_mute
    <3>. QED BY <1>1, <1>2, <2>1, <3>1, Advances
  <2>2. CASE ~stores
    <3>1. Then(t, <<>>)  BY <2>2 DEF record_mute
    <3>. QED BY <1>1, <1>2, <2>2, <3>1, Advances
  <2>. QED BY <2>1, <2>2
<1>6. \A u \in Threads \ {t} : /\ thread[u]' = thread[u] /\ (Stores(u)' <=> Stores(u))
                               /\ \A x : Comes(u, x)' <=> Comes(u, x)
  BY <1>5 DEF Advance, Stores, Comes, Todo
<1>7. /\ \A x : Comes(t, x) <=> x = "record_mute"
      /\ \A x : Comes(t, x)' <=> x \in new
  BY <1>2, <1>3, <1>5 DEF Before, Advance
<1>8. \A u \in Threads : Follows(u)'
  BY <1>2, <1>5, FollowsOn DEF RestIInv
<1>9. HoldComes'
  <2>1. \A u \in Threads : \A x \in {"follow", "swap_held", "swap_free"} :
           Comes(u, x)' <=> Comes(u, x)
    BY <1>5, <1>6, <1>7
  <2>2. muted' = muted  BY <1>1 DEF muted
  <2>. QED BY <1>1, <2>1, <2>2, HoldSame DEF RestIInv
<1>10. UnderLocks'
  <2>1. /\ "record_mute" \notin Taking
        /\ new \cap Taking = {} \/ new \cap Taking = {"lock_set", "unlock_set"}
    BY <1>5 DEF Taking
  <2>. QED BY <1>1, <1>2, <1>5, <2>1, LocksKept DEF RestIInv
<1>11. LevelComes' /\ SetComes' /\ AgentComes'
  <2>1. Hotkeys \in Threads /\ Clients \subseteq Threads  BY DEF Threads
  <2>2. \A u \in Clients : /\ u # t /\ thread[u].value' = thread[u].value
                           /\ (Comes(u, "agent_set")' <=> Comes(u, "agent_set"))
                           /\ thread[u].call' = thread[u].call
    BY <1>4, <1>6, <2>1
  <2>3. CASE Stores(t)' <=> Stores(t)
    <3>1. \A u \in Threads : Stores(u)' <=> Stores(u)  BY <1>6, <2>3
    <3>. QED BY <1>1, <2>1, <2>2, <3>1, LevelSame DEF RestIInv
  <2>4. CASE ~(Stores(t)' <=> Stores(t))
    <3>1. ~mute.agent
      <4>1. CASE stores
        <5>1. thread[t].done'  BY <1>5, <1>7, <4>1 DEF Advance
        <5>. QED BY <1>5, <1>7, <2>4, <4>1, <5>1 DEF Stores
      <4>2. CASE ~stores
        <5>1. ~Stores(t)'  BY <1>5, <1>7, <4>2 DEF Stores
        <5>2. thread[t].done  BY <2>4, <5>1 DEF Stores
        <5>. QED BY <4>2, <5>2
      <4>. QED BY <4>1, <4>2
    <3>2. LevelComes'  BY <1>1, <3>1 DEF LevelComes
    <3>3. SetComes'
      <4>1. \A u \in Clients : ~Stores(u)  BY <3>1, ClientStores
      <4>2. \A u \in Clients : ~Stores(u)'  BY <1>6, <2>1, <2>2, <4>1
      <4>. QED BY <4>2 DEF SetComes
    <3>4. AgentComes'  BY <1>1, <2>2 DEF RestIInv, AgentComes
    <3>. QED BY <3>2, <3>3, <3>4
  <2>. QED BY <2>3, <2>4
<1>12. MuteForm'  BY <1>1 DEF RestIInv, MuteForm
<1>. QED BY <1>8, <1>9, <1>10, <1>11, <1>12 DEF RestIInv

(* The agent starts with the level stored, and nobody has set another.     *)
LEMMA AgentSetStep ==
  ASSUME ThreadType, RestIInv, NEW t \in Threads, AgentSet(t)
  PROVE  RestIInv'
<1>. RestIInv /\ ThreadType /\ Hotkeys \notin Clients  BY MutingAssumption
<1>1. /\ At(t, "agent_set") /\ Then(t, <<>>) /\ UNCHANGED <<hold, locks>>
      /\ mute' = [mute EXCEPT !.agent = TRUE, !.level = mute.stored]
  BY DEF AgentSet
<1>2. /\ Before(t, "agent_set") /\ Comes(t, "agent_set") /\ Follows(t) /\ Advance(t, {})
      /\ Rest(t, "follow")
  BY <1>1, Named DEF RestIInv, Wants
<1>3. t \in Clients  BY <1>2 DEF Follows, ByKey, Threads
<1>4. ~mute.agent /\ \A u \in Clients : Comes(u, "agent_set") => u = t
  BY <1>2, <1>3 DEF RestIInv, AgentComes
<1>5. MuteForm' /\ mute.level' = mute.stored' /\ mute.agent'  BY <1>1 DEF RestIInv, MuteForm
<1>6. \A u \in Threads : Follows(u)'  BY <1>2, FollowsOn DEF RestIInv
<1>7. HoldComes'
  <2>1. Comes(t, "follow")'  BY <1>2 DEF Advance
  <2>. QED BY <2>1 DEF HoldComes
<1>8. UnderLocks'
  <2>1. "agent_set" \notin Taking /\ {} \cap Taking = {}  BY DEF Taking
  <2>. QED BY <1>1, <1>2, <2>1, LocksKept DEF RestIInv
<1>9. LevelComes'  BY <1>5 DEF LevelComes
<1>10. \A u \in Threads : /\ Stores(u)' => Stores(u)
                          /\ Comes(u, "agent_set")' => u # t /\ Comes(u, "agent_set")
  <2>1. \A u \in Threads \ {t} : (Stores(u)' <=> Stores(u)) /\ \A x : Comes(u, x)' <=> Comes(u, x)
    BY <1>2 DEF Advance, Stores, Comes, Todo
  <2>2. Stores(t)' => Stores(t)  BY <1>2 DEF Before, Advance, Stores
  <2>3. ~Comes(t, "agent_set")'  BY <1>2 DEF Before, Advance, Never
  <2>. QED BY <2>1, <2>2, <2>3
<1>11. SetComes'
  <2>1. \A u \in Clients : ~Stores(u)  BY <1>4, ClientStores
  <2>2. \A u \in Clients : ~Stores(u)'  BY <1>10, <2>1 DEF Threads
  <2>. QED BY <2>2 DEF SetComes
<1>12. AgentComes'
  <2>1. \A u \in Clients : ~Comes(u, "agent_set")'  BY <1>4, <1>10 DEF Threads
  <2>. QED BY <2>1 DEF AgentComes
<1>. QED BY <1>5, <1>6, <1>7, <1>8, <1>9, <1>11, <1>12 DEF RestIInv

(* A call starts with nothing done, on a thread that is free.              *)
LEMMA CallStep ==
  ASSUME ThreadType, RestIInv, NEW t \in Threads,
         NEW call \in {"set_mute_level", "mute", "unmute", "mute_press", "rate_press",
                       "set_hotkeys", "enable_agent"},
         NEW value, Call(t, call, value),
         t \in Clients <=> call \notin {"mute_press", "rate_press"},
         call = "enable_agent" =>
           ~mute.agent /\ \A u \in Clients : thread[u].call # "enable_agent"
  PROVE  RestIInv'
<1>. RestIInv /\ ThreadType /\ Hotkeys \notin Clients  BY MutingAssumption
<1>1. /\ thread[t].todo = <<>> /\ UNCHANGED <<hold, mute, locks>>
      /\ thread' = [thread EXCEPT ![t] = [call |-> call, todo |-> Script(call),
                                          value |-> value, done |-> TRUE]]
  BY DEF Call
<1>2. Orderly(Script(call)) /\ \A x : Has(Script(call), x) <=> x \in Whole(call)
  BY ScriptsWhole
<1>. HIDE DEF Script
<1>3. /\ thread'[t].todo = Script(call) /\ thread'[t].call = call
      /\ \A u \in Threads \ {t} : thread[u]' = thread[u]
  BY <1>1 DEF ThreadType
<1>4. Orderly(Todo(t))' /\ \A x : Comes(t, x)' <=> x \in Whole(call)
  BY <1>2, <1>3 DEF Todo, Comes, Orderly
<1>5. \A x : ~Comes(t, x)  BY <1>1 DEF Comes, Todo, Has
<1>6. \A u \in Threads \ {t} : /\ thread[u]' = thread[u] /\ (Stores(u)' <=> Stores(u))
                               /\ (InChange(u)' <=> InChange(u)) /\ (InSet(u)' <=> InSet(u))
                               /\ \A x : Comes(u, x)' <=> Comes(u, x)
  BY <1>3 DEF Stores, InChange, InSet, Comes, Todo
<1>7. /\ "end_change" \in Whole(call) => "lock_change" \in Whole(call)
      /\ "unlock_set" \in Whole(call) => "lock_set" \in Whole(call)
      /\ "record" \in Whole(call) \/ "record_mute" \in Whole(call) => "apply" \in Whole(call)
      /\ "swap_held" \notin Whole(call) /\ "swap_free" \notin Whole(call)
  BY DEF Whole
<1>8. \A u \in Threads : Follows(u)'
  <2>1. \A u \in Threads \ {t} : Follows(u)'
    BY <1>6 DEF RestIInv, Follows, ByClient, ByKey, Todo
  <2>2. ASSUME t \in Clients  PROVE ByClient(t)'
    BY <1>3, <1>4, <2>2 DEF ByClient, Whole
  <2>3. ASSUME t = Hotkeys  PROVE ByKey(t)'
    BY <1>3, <1>4, <2>3 DEF ByKey, Whole
  <2>. QED BY <1>4, <2>1, <2>2, <2>3 DEF Follows
<1>9. ~InChange(t)' /\ ~InSet(t)' /\ ~Stores(t)' /\ ~Stores(t)
  BY <1>4, <1>5, <1>7 DEF InChange, InSet, Stores
<1>10. UnderLocks'  BY <1>1, <1>6, <1>9 DEF RestIInv, UnderLocks
<1>11. HoldComes'
  <2>1. CASE \E u \in Threads : Comes(u, "follow")'  BY <2>1 DEF HoldComes
  <2>2. CASE ~\E u \in Threads : Comes(u, "follow")'
    <3>1. \A u \in Threads : \A x \in {"follow", "swap_held", "swap_free"} :
             Comes(u, x)' <=> Comes(u, x)
      BY <1>4, <1>5, <1>6, <1>7, <2>2
    <3>2. muted' = muted  BY <1>1 DEF muted
    <3>. QED BY <1>1, <3>1, <3>2, HoldSame DEF RestIInv
  <2>. QED BY <2>1, <2>2
<1>12. LevelComes'
  <2>1. \A u \in Threads : Stores(u)' <=> Stores(u)  BY <1>6, <1>9
  <2>. QED BY <1>1, <2>1 DEF RestIInv, LevelComes
<1>13. SetComes'
  <2>. SUFFICES ASSUME NEW u \in Clients, Stores(u)'
                PROVE  mute.agent' /\ (mute.level' = thread[u].value' \/ Stores(Hotkeys)')
    BY DEF SetComes
  <2>1. u # t /\ u \in Threads /\ Hotkeys \in Threads  BY <1>9 DEF Threads
  <2>2. Stores(u)  BY <1>6, <2>1
  <2>3. Stores(Hotkeys) => Stores(Hotkeys)'  BY <1>6, <1>9, <2>1
  <2>. QED BY <1>1, <1>6, <2>1, <2>2, <2>3, ClientStores
<1>14. AgentComes'
  <2>1. "agent_set" \in Whole(call) => call = "enable_agent"  BY DEF Whole
  <2>. SUFFICES ASSUME NEW u \in Clients, Comes(u, "agent_set")'
                PROVE  /\ ~mute.agent' /\ thread[u].call' = "enable_agent"
                       /\ \A w \in Clients : Comes(w, "agent_set")' => w = u
    BY DEF AgentComes
  <2>2. \A w \in Clients \ {t} : Comes(w, "agent_set")' =>
           /\ Comes(w, "agent_set") /\ ~mute.agent /\ thread[w].call = "enable_agent"
           /\ thread[w].call' = thread[w].call
           /\ \A v \in Clients : Comes(v, "agent_set") => v = w
    BY <1>6 DEF RestIInv, AgentComes, Threads
  <2>3. Comes(t, "agent_set")' => /\ ~mute.agent /\ thread[t].call' = "enable_agent"
                                  /\ \A w \in Clients : thread[w].call # "enable_agent"
    BY <1>3, <1>4, <2>1
  <2>4. CASE u = t
    <3>1. \A w \in Clients \ {t} : ~Comes(w, "agent_set")'  BY <2>2, <2>3, <2>4
    <3>. QED BY <1>1, <2>3, <2>4, <3>1
  <2>5. CASE u # t
    <3>1. ~Comes(t, "agent_set")'  BY <2>2, <2>3, <2>5
    <3>. QED BY <1>1, <2>2, <2>5, <3>1
  <2>. QED BY <2>4, <2>5
<1>15. MuteForm'  BY <1>1 DEF RestIInv, MuteForm
<1>. QED BY <1>8, <1>10, <1>11, <1>12, <1>13, <1>14, <1>15 DEF RestIInv

LEMMA CallsRest ==
  ASSUME ThreadType, RestIInv, ClientCalls \/ Presses
  PROVE  RestIInv'
<1>. RestIInv /\ ThreadType /\ Hotkeys \notin Clients  BY MutingAssumption
<1>1. CASE ClientCalls
  <2>1. PICK t \in Clients : SetMuteLevel(t) \/ ControlMute(t) \/ ControlUnmute(t)
                             \/ SetKeymap(t) \/ EnableAgent(t)
    BY <1>1 DEF ClientCalls
  <2>2. PICK call \in {"set_mute_level", "mute", "unmute", "set_hotkeys", "enable_agent"},
             value \in Nat :
          /\ Call(t, call, value)
          /\ call = "enable_agent" =>
               ~mute.agent /\ \A u \in Clients : thread[u].call # "enable_agent"
    <3>1. CASE SetMuteLevel(t)
      <4>1. PICK l \in Levels : Call(t, "set_mute_level", l)  BY <3>1 DEF SetMuteLevel
      <4>2. l \in Nat  BY MutingAssumption
      <4>. QED BY <4>1, <4>2
    <3>2. CASE ControlMute(t)
      <4>1. Call(t, "mute", 1)  BY <3>2 DEF ControlMute
      <4>. QED BY <4>1
    <3>3. CASE ControlUnmute(t)
      <4>1. Call(t, "unmute", 0)  BY <3>3 DEF ControlUnmute
      <4>. QED BY <4>1
    <3>4. CASE SetKeymap(t)
      <4>1. Call(t, "set_hotkeys", 0)  BY <3>4 DEF SetKeymap
      <4>. QED BY <4>1
    <3>5. CASE EnableAgent(t)
      <4>1. Call(t, "enable_agent", 0)  BY <3>5 DEF EnableAgent
      <4>2. ~mute.agent /\ \A u \in Clients : thread[u].call # "enable_agent"
        BY <3>5 DEF EnableAgent
      <4>. QED BY <4>1, <4>2
    <3>. QED BY <2>1, <3>1, <3>2, <3>3, <3>4, <3>5
  <2>. QED BY <2>2, CallStep DEF Threads
<1>2. CASE Presses
  <2>1. PICK call \in {"mute_press", "rate_press"}, value \in Nat : Call(Hotkeys, call, value)
    BY <1>2 DEF Presses, PressMute, PressRate
  <2>. QED BY <2>1, CallStep DEF Threads
<1>. QED BY <1>1, <1>2

LEMMA SynthesisRests ==
  ASSUME RestIInv, Synthesis \/ UNCHANGED muteVars
  PROVE  RestIInv'
<1>1. UNCHANGED <<mute, locks, thread>> /\ (hold' = hold \/ hold' = [hold EXCEPT !.gen = @ + 1])
  BY DEF Synthesis, Engine, MarkEpoch, MarkGeneration, CheckHeld, CheckGeneration, NoRequest,
         Send, Answer, Cancelled, ReaderCancel, muteVars
<1>2. MuteForm' /\ hold.held' = hold.held
  BY <1>1 DEF RestIInv, MuteForm
<1>3. \A u \in Threads : /\ (Follows(u)' <=> Follows(u)) /\ (Stores(u)' <=> Stores(u))
                         /\ (InChange(u)' <=> InChange(u)) /\ (InSet(u)' <=> InSet(u))
                         /\ \A x : Comes(u, x)' <=> Comes(u, x)
  BY <1>1 DEF Follows, ByClient, ByKey, Stores, InChange, InSet, Comes, Todo
<1>4. UnderLocks'  BY <1>1, <1>3 DEF RestIInv, UnderLocks
<1>5. HoldComes'
  <2>1. muted' = muted  BY <1>1 DEF muted
  <2>. QED BY <1>2, <1>3, <2>1, HoldSame DEF RestIInv
<1>6. LevelComes' /\ SetComes' /\ AgentComes'
  <2>1. Hotkeys \in Threads /\ Clients \subseteq Threads  BY DEF Threads
  <2>. QED BY <1>1, <1>3, <2>1, LevelSame DEF RestIInv
<1>. QED BY <1>2, <1>3, <1>4, <1>5, <1>6 DEF RestIInv

LEMMA RestInit == MutingInit => RestIInv
<1>. SUFFICES ASSUME MutingInit PROVE RestIInv
  OBVIOUS
<1>1. \A t \in Threads : Todo(t) = <<>> /\ thread[t].call = "none"
  BY DEF MutingInit, Idle, Todo
<1>2. \A t \in Threads : \A x : ~Comes(t, x)  BY <1>1 DEF Comes, Has
<1>3. \A t \in Threads : Follows(t)
  <2>1. Orderly(<<>>)  BY DEF Orderly, Ordered, Led, Has
  <2>. QED BY <1>1, <1>2, <2>1 DEF Follows, ByClient, ByKey
<1>4. UnderLocks  BY <1>2 DEF UnderLocks, InChange, InSet
<1>5. MuteForm
  <2>1. (mute.level >= 1) \in BOOLEAN  OBVIOUS
  <2>. QED BY <2>1 DEF MutingInit, MuteForm
<1>6. HoldComes
  <2>1. /\ mute.reader = FALSE /\ hold.held = (mute.level >= 1)
        /\ mute.level = IF mute.agent THEN mute.stored ELSE 0
    BY DEF MutingInit
  <2>2. mute.agent \in BOOLEAN  BY DEF MutingInit
  <2>3. hold.held = muted  BY <2>1, <2>2 DEF muted
  <2>. QED BY <1>2, <2>3 DEF HoldComes
<1>7. LevelComes
  <2>1. mute.level = IF mute.agent THEN mute.stored ELSE 0  BY DEF MutingInit
  <2>. QED BY <2>1 DEF LevelComes
<1>8. SetComes /\ AgentComes
  <2>1. Clients \subseteq Threads  BY DEF Threads
  <2>. QED BY <1>2, <2>1 DEF SetComes, AgentComes, Stores
<1>. QED BY <1>3, <1>4, <1>5, <1>6, <1>7, <1>8 DEF RestIInv

LEMMA RestRests == RestIInv => AtRest
<1>. SUFFICES ASSUME RestIInv, \A t \in Threads : thread[t].todo = <<>>
              PROVE  hold.held = muted /\ (mute.agent => mute.stored = mute.level)
  BY DEF AtRest
<1>1. \A t \in Threads : \A x : ~Comes(t, x)  BY DEF Comes, Todo, Has
<1>2. hold.held = muted  BY <1>1 DEF RestIInv, HoldComes
<1>3. \A t \in Threads : ~Stores(t)  BY <1>1 DEF Stores
<1>4. mute.agent => mute.stored = mute.level  BY <1>3 DEF RestIInv, LevelComes
<1>. QED BY <1>2, <1>4

LEMMA StepsRest ==
  ASSUME ThreadType, RestIInv, NEW t \in Threads, Step(t)
  PROVE  RestIInv'
BY LockStep, QuietStep, HoldNowStep, FollowStep, SwapStep, ChooseStep, ApplyStep, RecordStep,
   RecordMuteStep, AgentSetStep DEF Step

LEMMA RestStep == MutingIInv /\ RestIInv /\ [MutingNext]_muteVars => RestIInv'
<1>. SUFFICES ASSUME MutingIInv, RestIInv, [MutingNext]_muteVars PROVE RestIInv'
  OBVIOUS
<1>1. ThreadType  BY DEF MutingIInv
<1>2. CASE HostSteps  BY <1>1, <1>2, StepsRest DEF HostSteps
<1>3. CASE ClientCalls \/ Presses  BY <1>1, <1>3, CallsRest
<1>4. CASE Synthesis \/ UNCHANGED muteVars  BY <1>4, SynthesisRests
<1>. QED BY <1>2, <1>3, <1>4 DEF MutingNext

(* Whatever mutes, presses, new keymaps and a starting agent overlapped,   *)
(* when every call is done the engines are held exactly as the host is     *)
(* muted (Quiet::follow, as each change ends) and the level stored is the  *)
(* one in force (set_mute_level under the `set` lock, and the press stored *)
(* after it); and until then a hold that is up has cut the chunk.  For any *)
(* number of clients, calls, levels and chunks.                            *)
THEOREM MutingHoldFollows == MutingSpec => []HoldFollows
<1>1. MutingIInv /\ RestIInv => HoldFollows
  BY RestRests DEF MutingIInv, HoldFollows
<1>. QED
  BY <1>1, MutingInitIInv, MutingStep, RestInit, RestStep, PTL DEF MutingSpec
=============================================================================
