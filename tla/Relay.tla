------------------------------- MODULE Relay -------------------------------
(***************************************************************************)
(* Events for network clients and spoken cues (sonarad events.rs, cues.rs; *)
(* the streams of http.rs and tcp.rs).                                     *)
(*                                                                         *)
(* A stream subscribes to the reader, reads the engine's status and the    *)
(* reader's state, sends a first snapshot and starts a thread that relays  *)
(* the events into a bounded queue; a second one relays the cues.  Nobody  *)
(* waits for a client: what does not fit is dropped.  Cues are pushed by   *)
(* hotkeys and settings and spoken by one worker.                          *)
(*                                                                         *)
(* The reader's state is its seq, the engine's status the number of its    *)
(* changes; `item` and `log` events are the client's other events.  The    *)
(* earcon relay is the cues' with another source.                          *)
(***************************************************************************)
EXTENDS Naturals, Sequences

CONSTANTS QUEUE,       \* events queued per client before dropping
          MaxChanges,  \* bound: changes of the reader and other events
          MaxCues      \* bound: cues pushed

VARIABLES
  source,   \* the reader: seq of its state, changes of its engine's status
  stream,   \* the subscription: what it has to do, its events and view
  queue,    \* the client's bounded queue; whether its end is there
  client,   \* the state last received; whether a later one was dropped
  cues      \* the cue worker, its queue, what it spoke last, its subscriber

relayVars == <<source, stream, queue, client, cues>>

-----------------------------------------------------------------------------
(* What `subscribe` does after another.  The fault: the state is read      *)
(* before the subscription.                                                *)
subscribe_late == <<"cues", "status", "state", "events", "first">>
subscribe == <<"events", "cues", "status", "state", "first">>

NothingShown == [seq |-> 0, state |-> 0, changes |-> 0]
RelayInit ==
  /\ source = [seq |-> 1, changes |-> 0, n |-> 0]
  /\ stream \in [todo : {subscribe}, set : BOOLEAN, events : {<<>>}, on : {FALSE},
                 runs : {FALSE}, view : {[state |-> 0, changes |-> 0, sent |-> 0]}]
  /\ queue = [events |-> <<>>, open |-> TRUE]
  /\ client = [shown |-> NothingShown, behind |-> FALSE]
  /\ cues = [waiting |-> <<>>, speaking |-> <<>>, last |-> 0, pushed |-> 0, closed |-> FALSE,
             on |-> FALSE, told |-> <<>>, n |-> 0]

(* Sender::try_send: what does not fit is dropped.                         *)
Fits == queue.open /\ Len(queue.events) < QUEUE
try_send(e) == queue' = IF Fits THEN [queue EXCEPT !.events = Append(@, e)] ELSE queue

-----------------------------------------------------------------------------
(* The reader's worker tells its subscribers of every change, in order.    *)
Tell(e) == stream' = IF stream.on THEN [stream EXCEPT !.events = Append(@, e)] ELSE stream

StateChanges ==
  /\ source.n < MaxChanges
  /\ source' = [source EXCEPT !.seq = @ + 1, !.n = @ + 1]
  /\ Tell([kind |-> "state", at |-> source.seq + 1])
  /\ UNCHANGED <<queue, client, cues>>

(* check_status.                                                           *)
StatusChanges ==
  /\ source.n < MaxChanges
  /\ source' = [source EXCEPT !.changes = @ + 1, !.n = @ + 1]
  /\ Tell([kind |-> "status", at |-> source.changes + 1])
  /\ UNCHANGED <<queue, client, cues>>

ItemChanges ==
  /\ source.n < MaxChanges
  /\ source' = [source EXCEPT !.n = @ + 1]
  /\ Tell([kind |-> "item", at |-> 0])
  /\ UNCHANGED <<queue, client, cues>>

-----------------------------------------------------------------------------
(* The stream.                                                             *)

SeqOf(view) == view.state + view.changes
Event(view) == [kind |-> "state", seq |-> SeqOf(view), state |-> view.state, changes |-> view.changes]

(* StateView::render: nothing that does not move seq forward.              *)
Moves(view) == view.sent = 0 \/ SeqOf(view) > view.sent
render(view) ==
  IF stream.set /\ Moves(view)
  THEN /\ stream' = [stream EXCEPT !.view = [view EXCEPT !.sent = SeqOf(view)], !.events = Tail(@)]
       /\ try_send(Event(view))
       /\ client' = [client EXCEPT !.behind = ~Fits]
  ELSE stream' = [stream EXCEPT !.view = view, !.events = Tail(@)] /\ UNCHANGED <<queue, client>>

AtStep(step) == stream.todo # <<>> /\ Head(stream.todo) = step
Later == Tail(stream.todo)

SubscribeEvents ==
  /\ AtStep("events") /\ stream' = [stream EXCEPT !.todo = Later, !.on = TRUE]
  /\ UNCHANGED <<source, queue, client, cues>>
SubscribeCues ==
  /\ AtStep("cues") /\ stream' = [stream EXCEPT !.todo = Later]
  /\ cues' = [cues EXCEPT !.on = TRUE]
  /\ UNCHANGED <<source, queue, client>>
ReadStatus ==
  /\ AtStep("status")
  /\ stream' = [stream EXCEPT !.todo = Later, !.view.changes = source.changes]
  /\ UNCHANGED <<source, queue, client, cues>>
ReadState ==
  /\ AtStep("state")
  /\ stream' = [stream EXCEPT !.todo = Later, !.view.state = source.seq]
  /\ UNCHANGED <<source, queue, client, cues>>

(* The first snapshot, when states are asked for; then the thread starts.  *)
First ==
  LET view == stream.view
  IN  /\ AtStep("first")
      /\ stream' = [stream EXCEPT !.todo = Later, !.runs = TRUE,
                                  !.view.sent = IF stream.set THEN SeqOf(view) ELSE 0]
      /\ IF stream.set THEN try_send(Event(view)) /\ client' = [client EXCEPT !.behind = ~Fits]
         ELSE UNCHANGED <<queue, client>>
      /\ UNCHANGED <<source, cues>>

(* One event.  An older state or status raced with the first snapshot; the *)
(* thread ends with the first event that finds its client gone.            *)
RelayEvent ==
  LET e == Head(stream.events)
      view == stream.view
      old == \/ e.kind = "state" /\ e.at <= view.state /\ view.sent # 0
             \/ e.kind = "status" /\ e.at <= view.changes
  IN  /\ stream.runs /\ stream.events # <<>> /\ queue.open
      /\ CASE old -> stream' = [stream EXCEPT !.events = Tail(@)] /\ UNCHANGED <<queue, client>>
           [] ~old /\ e.kind = "state" -> render([view EXCEPT !.state = e.at])
           [] ~old /\ e.kind = "status" -> render([view EXCEPT !.changes = e.at])
           [] OTHER -> /\ stream' = [stream EXCEPT !.events = Tail(@)]
                       /\ try_send([kind |-> "other"]) /\ UNCHANGED client
      /\ UNCHANGED <<source, cues>>

RelayEnds ==
  /\ stream.runs /\ stream.events # <<>> /\ ~queue.open
  /\ stream' = [stream EXCEPT !.runs = FALSE, !.on = FALSE, !.events = <<>>]
  /\ UNCHANGED <<source, queue, client, cues>>

(* The connection writes what is queued, in order; the client goes away.   *)
Receive ==
  LET e == Head(queue.events)
  IN  /\ stream.runs /\ queue.open /\ queue.events # <<>>
      /\ queue' = [queue EXCEPT !.events = Tail(@)]
      /\ client' = IF e.kind = "state"
                   THEN [client EXCEPT !.shown = [seq |-> e.seq, state |-> e.state,
                                                  changes |-> e.changes]]
                   ELSE client
      /\ UNCHANGED <<source, stream, cues>>

Leave ==
  /\ stream.runs /\ queue.open
  /\ queue' = [events |-> <<>>, open |-> FALSE]
  /\ UNCHANGED <<source, stream, client, cues>>

-----------------------------------------------------------------------------
(* Cues: those of a key that changes (a rate), numbered, and others.       *)
Keys == {"rate", "none"}
push(key) ==
  /\ cues.n < MaxCues
  /\ cues' = [cues EXCEPT
       !.n = @ + 1,
       !.pushed = IF key = "rate" /\ ~cues.closed THEN cues.n + 1 ELSE @,
       !.waiting = IF cues.closed THEN @ ELSE Append(@, [key |-> key, value |-> cues.n + 1])]
  /\ UNCHANGED <<source, stream, queue, client>>

(* A cue with a newer one of its key behind it is skipped.                 *)
superseded(cue, later) == cue.key # "none" /\ \E i \in 1..Len(later) : later[i].key = cue.key
TakeCue ==
  LET cue == Head(cues.waiting)
      later == Tail(cues.waiting)
  IN  /\ cues.waiting # <<>> /\ cues.speaking = <<>> /\ ~cues.closed
      /\ cues' = [cues EXCEPT !.waiting = later,
                              !.speaking = IF superseded(cue, later) THEN <<>> ELSE <<cue>>]
      /\ UNCHANGED <<source, stream, queue, client>>

(* Spoken or failed, it is told to the subscribers.                        *)
Say ==
  LET cue == Head(cues.speaking)
  IN  /\ cues.speaking # <<>>
      /\ cues' = [cues EXCEPT !.speaking = <<>>,
                              !.last = IF cue.key = "rate" THEN cue.value ELSE @,
                              !.told = IF cues.on THEN Append(@, cue.value) ELSE @]
      /\ UNCHANGED <<source, stream, queue, client>>

CloseCues ==
  /\ ~cues.closed /\ cues' = [cues EXCEPT !.closed = TRUE, !.waiting = <<>>]
  /\ UNCHANGED <<source, stream, queue, client>>

(* The cue thread of the stream; it notices its client's end by itself.    *)
RelayCue ==
  /\ cues.told # <<>> /\ queue.open
  /\ cues' = [cues EXCEPT !.told = Tail(@)]
  /\ try_send([kind |-> "cue"]) /\ UNCHANGED <<source, stream, client>>
CuesEnd ==
  /\ cues.on /\ ~queue.open
  /\ cues' = [cues EXCEPT !.on = FALSE, !.told = <<>>]
  /\ UNCHANGED <<source, stream, queue, client>>

-----------------------------------------------------------------------------
ReaderTells == StateChanges \/ StatusChanges \/ ItemChanges
Subscribes == SubscribeEvents \/ SubscribeCues \/ ReadStatus \/ ReadState \/ First
Relays == RelayEvent \/ RelayEnds \/ Receive \/ Leave
Cueing == (\E key \in Keys : push(key)) \/ TakeCue \/ Say \/ CloseCues \/ RelayCue \/ CuesEnd
RelayNext == ReaderTells \/ Subscribes \/ Relays \/ Cueing
RelaySpec == RelayInit /\ [][RelayNext]_relayVars

-----------------------------------------------------------------------------
(* A client that reads what it is sent shows the reader as it is: when the *)
(* stream has caught up, the last state it was sent is the current one,    *)
(* unless the queue was full for it; and what is sent only ever moves on   *)
(* (events.rs: the subscription before the first snapshot, StateView).     *)
(* Likewise the last rate spoken is the last one pushed (cues.rs).         *)
ClientCurrent ==
  LET sent == {i \in 1..Len(queue.events) : queue.events[i].kind = "state"}
      newest == CHOOSE i \in sent : \A j \in sent : j <= i
      shown == IF sent = {} THEN client.shown ELSE queue.events[newest]
  IN  /\ (stream.runs /\ stream.set /\ stream.events = <<>> /\ queue.open /\ ~client.behind) =>
           shown.state = source.seq /\ shown.changes = source.changes
      /\ \A i \in sent : /\ queue.events[i].seq > client.shown.seq
                         /\ \A j \in sent : j < i => queue.events[j].seq < queue.events[i].seq
      /\ (cues.waiting = <<>> /\ cues.speaking = <<>> /\ ~cues.closed) => cues.last = cues.pushed
=============================================================================
