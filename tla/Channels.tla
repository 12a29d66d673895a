------------------------------ MODULE Channels ------------------------------
(***************************************************************************)
(* The channels driver of sonara-channels (lib.rs): it holds the entries   *)
(* in Router and feeds them to the reader one item at a time.              *)
(*                                                                         *)
(* The driver's lock covers an operation, but not the reader underneath:   *)
(* the reader plays on, and clients speak to it directly, between any two  *)
(* calls the driver makes.  So an operation changes the router at once and *)
(* leaves the reader calls it still has to make in `todo`, one step each;  *)
(* the lock is free when none is left.  The reader is Player, which Reader *)
(* implements.  Its events reach the drain thread through `events`.        *)
(***************************************************************************)
EXTENDS Router

CONSTANTS
  Announces,   \* Config::announce
  Unnamed,     \* whether there is a text for a channel without a label
  Chunks,      \* the chunks of each entry's text, 0: nothing to say
  MaxItems,    \* bound: reader items
  MaxCalls     \* bound: operations clients call

VARIABLES
  player,      \* the reader underneath
  driver,      \* State::in_flight (item, channel, entry) and the reader calls to make
  events,      \* ended items the drain thread has not handled
  calls        \* operations called so far

P == INSTANCE Player WITH Lengths <- 0..2

ASSUME ChannelsConstants ==
  /\ Announces \in BOOLEAN /\ Unnamed \in BOOLEAN
  /\ Chunks \in [1..MaxEntries -> Nat]
  /\ MaxItems \in Nat /\ MaxCalls \in Nat

vars == <<router, player, driver, events, calls>>

in_flight == driver.in_flight
Free == driver.todo = <<>>
InFlightOf(id) == in_flight # None /\ in_flight.channel = id

-----------------------------------------------------------------------------
(* The reader calls of the operation that has the lock.                    *)

(* The reader's side of a call: what it ended goes to the drain thread.    *)
Calls(p) == /\ p.next_id <= MaxItems + 1
            /\ player' = p
            /\ events' = events \o p.ended

Then(todo) == driver' = [driver EXCEPT !.todo = todo \o Tail(@)]

(* `feed`'s loop passes announcements that have no words.  Two can follow  *)
(* each other: a switch the user made, and the hand-off after it.          *)
silent(r) == /\ r.fed # None /\ r.fed.op = "Announce"
             /\ ~(Announces /\ (r.fed.named \/ Unnamed))
past_silent(r) == IF silent(r) THEN next_feed(r) ELSE r
next_spoken(r) == past_silent(past_silent(next_feed(r)))

pump_fed ==
  /\ IF in_flight # None \/ ~P!idle(player)
     THEN Then(<<>>) /\ UNCHANGED router
     ELSE /\ router' = next_spoken(router)
          /\ Then(IF router'.fed = None THEN <<>> ELSE <<"Speak">>)
  /\ UNCHANGED <<player, events>>

chunks_of(f) == IF f.op = "Entry" THEN Chunks[f.entry] ELSE 1

feed_speak(interrupt) ==
  /\ Calls(P!speak(P!Quiet, chunks_of(router.fed), FALSE, interrupt))
  /\ driver' = [in_flight |-> [id |-> player.next_id, channel |-> router.fed.channel,
                               entry |-> IF router.fed.op = "Entry"
                                         THEN router.fed.entry ELSE None],
                todo |-> (IF interrupt THEN <<"CutOther">> ELSE <<>>) \o Tail(driver.todo)]
  /\ UNCHANGED router

(* A look at the reader's state, and the call it leads to.                 *)
Look(holds_now, call) == /\ Then(IF holds_now THEN <<call>> ELSE <<>>)
                         /\ UNCHANGED <<router, player, events>>

CallReader ==
  /\ ~Free
  /\ LET call == Head(driver.todo)
     IN CASE call = "Pump"       -> pump_fed
          [] call = "Speak"      -> feed_speak(FALSE)
          [] call = "SpeakNow"   -> feed_speak(TRUE)
          [] call = "CutOther"   -> Look(/\ player.current # None
                                         /\ player.current.id # in_flight.id, "Skip")
          [] call = "CutPlaying" -> Look(player.current # None, "Skip")
          [] call = "Unpause"    -> Look(player.pause # "No", "Play")
          [] call \in P!Control  -> /\ Calls(P!control(P!Quiet, call))
                                    /\ Then(<<>>) /\ UNCHANGED router
  /\ UNCHANGED calls

-----------------------------------------------------------------------------
(* How an operation leaves the router, the item in flight and its calls.   *)

Leaves(r, f, todo) ==
  /\ r.next_entry <= MaxEntries /\ calls < MaxCalls
  /\ router' = r
  /\ driver' = [in_flight |-> f, todo |-> todo]
  /\ calls' = calls + 1
  /\ UNCHANGED <<player, events>>

Does(r, todo) == Leaves(r, in_flight, todo)

cut_if(r, id, todo) ==
  IF InFlightOf(id) THEN Leaves(done(r), None, <<"Skip">> \o todo) ELSE Does(r, todo)

(* Fault: a cut entry is not stepped back over.                            *)
rewound_never(r, id) == r

(* Another channel's entry that is cut is read again later.                *)
rewound(r, id) ==
  IF in_flight # None /\ in_flight.entry # None /\ in_flight.channel # id
  THEN rewind(r, in_flight.channel, in_flight.entry) ELSE r

(* `feed` with interrupt, for channel id; `cut` when nothing is left.      *)
feed_now(r, id, cut) ==
  LET s == next_spoken(rewound(r, id))
  IN Leaves(s, None, IF s.fed = None THEN cut ELSE <<"SpeakNow">>)

cut_and_feed(r, id) == feed_now(r, id, <<"CutPlaying">>)

-----------------------------------------------------------------------------
(* Operations.                                                             *)

Open(id, named, tab, policy) == Free /\ Does(open(router, id, named, tab, policy), <<>>)

Close(id) == Free /\ is_open(router, id) /\ cut_if(close(router, id), id, <<"Pump">>)

LabelIfMissing(id) == Free /\ is_open(router, id) /\ Does(label_if_missing(router, id), <<>>)

Focus(id) == Free /\ is_open(router, id) /\ Does(focus(router, id), <<"Pump">>)

Prioritize(id) == Free /\ is_open(router, id) /\ Does(prioritize(router, id), <<"Pump">>)

Authorize(id) == Free /\ Does(authorize(router, id), <<"Pump">>)

SetFocusOnly(on) == Free /\ Does(set_focus_only(router, on), <<"Pump">>)

opened(id) == IF is_open(router, id) THEN router ELSE open(router, id, FALSE, None, None)

(* A host's text: `push` without an agent.                                 *)
Speak(id, mode, interrupt) ==
  LET r == opened(id)
      replace == mode = "Replace" \/ (mode = None /\ r.ch[id].policy = "Latest")
      s == authorize(push_with(r, id, replace, interrupt), id)
  IN /\ Free
     /\ IF interrupt /\ id \notin router.muted
        THEN feed_now(take_floor(s, id), id,
                      IF in_flight = None THEN <<>> ELSE <<"Skip">>)
        ELSE Does(s, <<"Pump">>)

(* L3's text, read (`add_with`) or stored (`store`).                       *)
Add(id, decision, heard) ==
  Free /\ Does(append(opened(id), id, decision, heard), <<"Pump">>)

EndBatch(id) == Free /\ Does(end_batch(router, id), <<>>)

DropDecisions(id, which) == Free /\ Does(drop_decisions(router, id, which), <<>>)

SetAside(id, e, aside) == Free /\ Does(set_aside(router, id, e, aside), <<>>)

SetMuted(id, on) ==
  /\ Free
  /\ IF on THEN cut_if(set_muted(router, id, TRUE), id, <<"Pump">>)
     ELSE Does(set_muted(router, id, FALSE), <<"Pump">>)

ReadFrom(id, e) == /\ Free /\ readable(router, id, e)
                   /\ cut_and_feed(read_at(router, id, e, TRUE), id)

StepTo(id, e) == /\ Free /\ readable(router, id, e)
                 /\ cut_and_feed(read_at(router, id, e, FALSE), id)

(* Restart while no channel entry is in flight: the engaged channel's      *)
(* batch, unless the reader is playing.                                    *)
RestartIdle ==
  LET first == IF engaged(router) # None THEN engaged(router) ELSE router.focus
      id == IF first # None THEN first ELSE written_last(router)
  IN IF player.current # None \/ id = None THEN Does(router, <<"Restart">>)
     ELSE IF readable(router, id, None)
     THEN Does(read_at(router, id, None, TRUE), <<"Pump">>)
     ELSE Does(router, IF router.ch[id].agent THEN <<>> ELSE <<"Restart">>)

ControlAll(c) ==
  /\ Free
  /\ CASE c = "Stop" -> Leaves(done(flush_all(router)), None, <<"Stop">>)
       [] c = "Restart" /\ in_flight # None -> ReadFrom(in_flight.channel, None)
       [] c = "Restart" /\ in_flight = None -> RestartIdle
       [] OTHER -> Does(router, <<c>>)

ControlOne(c, id) ==
  /\ Free /\ is_open(router, id)
  /\ CASE c = "Stop" -> cut_if(flush_one(router, id), id, <<"Pump">>)
       [] c = "Restart" /\ ~InFlightOf(id) -> ReadFrom(id, None)
       [] c # "Stop" /\ InFlightOf(id) -> Does(router, <<c>>)
       [] OTHER -> FALSE

NextChannel ==
  LET r == next_channel(router)
  IN /\ Free /\ router.order # <<>>
     /\ feed_now(r, r.active, IF in_flight = None THEN <<>> ELSE <<"Skip">>)

(* Where the in-flight entry is in its batch, 0 when it left it.           *)
place == LET es == router.ch[in_flight.channel].entries
             at == {i \in 1..Len(es) : es[i] = in_flight.entry}
         IN IF at = {} THEN 0 ELSE CHOOSE i \in at : TRUE
EntryAt(i) == router.ch[in_flight.channel].entries[i]
OwnChunk == IF player.current # None /\ player.current.id = in_flight.id
            THEN player.chunk ELSE 0

Back ==
  /\ Free /\ in_flight # None
  /\ IF in_flight.entry = None THEN ControlAll("Restart")
     ELSE IF OwnChunk > 1 THEN Does(router, <<"Previous">>)
     ELSE IF place = 0
     THEN \/ ReadFrom(in_flight.channel, None)
          \/ ~readable(router, in_flight.channel, None) /\ Does(router, <<"Restart">>)
     ELSE StepTo(in_flight.channel, EntryAt(IF place > 1 THEN place - 1 ELSE 1))

Forward ==
  /\ Free /\ in_flight # None /\ in_flight.entry # None
  /\ LET c == router.ch[in_flight.channel]
         next == IF place = 0 THEN c.cursor + 1 ELSE place + 1
     IN IF OwnChunk > 0 /\ OwnChunk < player.current.chunks
        THEN Does(router, <<"Next">>)
        ELSE next <= Len(c.entries) /\ StepTo(in_flight.channel, c.entries[next])

(* flush_with: what is read, then the other channels named in `also` that  *)
(* have something unread.                                                  *)
flush_set(r, ids) ==
  [r EXCEPT !.ch = [id \in Ids |-> IF id \in ids THEN flush_one(r, id).ch[id] ELSE @[id]],
            !.hold = IF @ # None /\ @[1] \in ids THEN None ELSE @,
            !.announce = IF @ # None /\ @.channel \in ids THEN None ELSE @]

FlushWith(also) ==
  LET others == {id \in also : ready(router, id) /\ ~InFlightOf(id)}
      r == flush_set(router, others)
  IN /\ Free
     /\ IF in_flight # None
        THEN Leaves(done(flush_one(r, in_flight.channel)), None,
                    <<"Skip", "Unpause", "Pump">>)
        ELSE Does(r, IF player.current = None THEN <<>>
                     ELSE <<"Skip", "Unpause", "Pump">>)

-----------------------------------------------------------------------------
(* The drain thread, the reader and its other clients.                     *)

(* Fault: the end of another client's item is not a reason to look again.  *)
ItemEnded_unpumped ==
  /\ Free /\ events # <<>>
  /\ events' = Tail(events)
  /\ LET ours == in_flight # None /\ in_flight.id = Head(events)
     IN /\ router' = IF ours THEN done(router) ELSE router
        /\ driver' = [in_flight |-> IF ours THEN None ELSE in_flight,
                      todo |-> IF ours THEN <<"Pump">> ELSE <<>>]
  /\ UNCHANGED <<player, calls>>

ItemEnded ==
  /\ Free /\ events # <<>>
  /\ events' = Tail(events)
  /\ LET ours == in_flight # None /\ in_flight.id = Head(events)
     IN /\ router' = IF ours THEN done(router) ELSE router
        /\ driver' = [in_flight |-> IF ours THEN None ELSE in_flight, todo |-> <<"Pump">>]
  /\ UNCHANGED <<player, calls>>

Plays == /\ player.current # None /\ player.pause = "No"
         /\ Calls(P!advance(P!Quiet, FALSE))
         /\ UNCHANGED <<router, driver, calls>>

(* A client speaks to the reader directly (protocol core `speak`).         *)
CoreSpeak(interrupt) ==
  /\ calls < MaxCalls /\ calls' = calls + 1
  /\ Calls(P!speak(P!Quiet, 1, FALSE, interrupt))
  /\ UNCHANGED <<router, driver>>

(* r: what clients opened so far.                                          *)
DriverInit(todo) == /\ P!PlayerInit
                    /\ driver = [in_flight |-> None, todo |-> todo]
                    /\ events = <<>> /\ calls = 0
ChannelsInit(r) == router = r /\ DriverInit(<<>>)

ChannelOps ==
  \E id \in Ids :
    \/ \E named \in BOOLEAN, tab \in Tab, p \in Policy \cup {None} : Open(id, named, tab, p)
    \/ Close(id) \/ LabelIfMissing(id) \/ Focus(id) \/ Prioritize(id) \/ Authorize(id)
    \/ \E mode \in {"Append", "Replace", None}, interrupt \in BOOLEAN :
         Speak(id, mode, interrupt)
    \/ \E decision, heard \in BOOLEAN : Add(id, decision, heard)
    \/ EndBatch(id) \/ \E which \in Resolved : DropDecisions(id, which)
    \/ \E e \in 1..MaxEntries, aside \in BOOLEAN : SetAside(id, e, aside)
    \/ \E on \in BOOLEAN : SetMuted(id, on)
    \/ \E e \in 1..MaxEntries \cup {None} : ReadFrom(id, e)
    \/ \E c \in P!Control : ControlOne(c, id)

FloorOps == \/ \E on \in BOOLEAN : SetFocusOnly(on)
            \/ \E c \in P!Control : ControlAll(c)
            \/ NextChannel \/ Back \/ Forward
            \/ \E also \in SUBSET Ids : FlushWith(also)
            \/ \E interrupt \in BOOLEAN : CoreSpeak(interrupt)

ChannelsNext == ChannelOps \/ FloorOps \/ CallReader \/ ItemEnded \/ Plays
ChannelsSpec == ChannelsInit(new_router) /\ [][ChannelsNext]_vars

(* Hand-offs, interruptions, priority: the calls about the floor.          *)
FloorCalls ==
  \/ \E id \in Ids, interrupt \in BOOLEAN : Speak(id, None, interrupt)
  \/ \E id \in Ids : Prioritize(id) \/ Focus(id) \/ ControlOne("Stop", id)
  \/ NextChannel
  \/ \E c \in {"Stop", "Restart", "Skip"} : ControlAll(c)

(* The threads run: the one that has the lock, the drain thread and the    *)
(* reader, which ends what it reads (ItemEnds of ReaderWorker).  Each is   *)
(* WF_vars of the action with its ENABLED spelled out.                     *)
ChannelsFair ==
  /\ <>[](~Free) => []<><<CallReader>>_vars
  /\ <>[](Free /\ events # <<>>) => []<><<ItemEnded>>_vars
  /\ <>[](player.current # None) => []<><<Plays>>_vars
=============================================================================
