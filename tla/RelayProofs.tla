---------------------------- MODULE RelayProofs ----------------------------
(***************************************************************************)
(* Proofs about Relay and Hotkeys, for any bounds, changes, cues and       *)
(* threads: a client that reads what it is sent shows the reader as it is, *)
(* what it is sent only moves on, the last rate spoken is the last one     *)
(* pushed, and the hotkeys registered are those of the keymap.             *)
(*                                                                         *)
(* What the client will have shown and what the reader is are joined by    *)
(* the stream: its view is the reader's state, or the event that brings it *)
(* there is on its way (Comes); the newest state queued, or the one shown, *)
(* is the view's unless it was dropped (Sends).                            *)
(*                                                                         *)
(* The chords and the keymap are joined by the threads at work: who holds  *)
(* a lock and which pump it waits for (Turns), which pumps still live      *)
(* (Alive) and own chords (Owned), what the current one has tried          *)
(* (Registered), and that its bindings are the file's or a thread is about *)
(* to register anew (Fresh).                                               *)
(***************************************************************************)
EXTENDS Relay, Hotkeys, TLAPS, WellFoundedInduction

ReaderType == [seq : Nat \ {0}, changes : Nat, n : Nat]
Told == [kind : {"state", "status", "item"}, at : Nat]
View == [state : Nat, changes : Nat, sent : Nat]
Todos == {<<"events", "cues", "status", "state", "first">>, <<"cues", "status", "state", "first">>,
          <<"status", "state", "first">>, <<"state", "first">>, <<"first">>, <<>>}
StreamType == [todo : Todos, set : BOOLEAN, events : Seq(Told), on : BOOLEAN, runs : BOOLEAN,
               view : View]
Snapshot == [kind : {"state"}, seq : Nat, state : Nat, changes : Nat]
Sent == Snapshot \cup [kind : {"other", "cue"}]
QueueType == [events : Seq(Sent), open : BOOLEAN]
Shown == [seq : Nat, state : Nat, changes : Nat]
ClientType == [shown : Shown, behind : BOOLEAN]
Cue == [key : Keys, value : Nat]
CuesType == [waiting : Seq(Cue), speaking : Seq(Cue), last : Nat, pushed : Nat, closed : BOOLEAN,
             on : BOOLEAN, told : Seq(Nat), n : Nat]

Types == /\ source \in ReaderType /\ stream \in StreamType /\ queue \in QueueType
         /\ client \in ClientType /\ cues \in CuesType

(* Where the subscription is: before the first snapshot nothing is shown,  *)
(* and it listens before it reads; the thread of one that reads states     *)
(* has sent what its view says.                                            *)
Phases ==
  /\ stream.todo # <<>> => ~stream.runs /\ stream.view.sent = 0
  /\ queue.open => (stream.on <=> stream.todo # subscribe) /\ (stream.runs <=> stream.todo = <<>>)
  /\ stream.todo \in {<<"first">>, <<>>} => stream.view.state > 0 \/ ~stream.set
  /\ stream.runs /\ stream.set => stream.view.sent = SeqOf(stream.view)
  /\ ~stream.set \/ stream.todo # <<>> =>
       /\ client.shown = NothingShown
       /\ \A i \in 1..Len(queue.events) : queue.events[i].kind # "state"
  /\ ~queue.open => queue.events = <<>>

(* What was read of the reader is what it is, or the event of what it is   *)
(* has still to come.                                                      *)
Comes(events, kind, have, now) ==
  /\ have <= now
  /\ have = now \/ \E i \in 1..Len(events) : events[i] = [kind |-> kind, at |-> now]
Ahead ==
  /\ \A i \in 1..Len(stream.events) :
       /\ stream.events[i].kind = "state" => stream.events[i].at <= source.seq
       /\ stream.events[i].kind = "status" => stream.events[i].at <= source.changes
  /\ queue.open /\ stream.set /\ stream.todo \in {<<"state", "first">>, <<"first">>, <<>>} =>
       Comes(stream.events, "status", stream.view.changes, source.changes)
  /\ queue.open /\ stream.set /\ stream.todo \in {<<"first">>, <<>>} =>
       Comes(stream.events, "state", stream.view.state, source.seq)

(* The states queued, which move on, and the newest of them.               *)
States == {i \in 1..Len(queue.events) : queue.events[i].kind = "state"}
MovesOn ==
  /\ client.shown.seq <= stream.view.sent
  /\ \A i \in States : /\ queue.events[i].seq > client.shown.seq
                       /\ queue.events[i].seq <= stream.view.sent
                       /\ \A j \in States : j < i => queue.events[j].seq < queue.events[i].seq
Tells(e) == e.state = stream.view.state /\ e.changes = stream.view.changes
Sends ==
  queue.open /\ stream.runs /\ stream.set /\ ~client.behind =>
    /\ States = {} => Tells(client.shown)
    /\ \A i \in States : (\A j \in States : j <= i) => Tells(queue.events[i])

(* The newest rate waits, is spoken or was the last one spoken.            *)
Rates == {i \in 1..Len(cues.waiting) : cues.waiting[i].key = "rate"}
Speaks == cues.speaking # <<>> /\ Head(cues.speaking).key = "rate"
RateComes ==
  /\ Len(cues.speaking) <= 1
  /\ ~cues.closed =>
       /\ \A i \in Rates : (\A j \in Rates : j <= i) => cues.waiting[i].value = cues.pushed
       /\ Rates = {} /\ Speaks => Head(cues.speaking).value = cues.pushed
       /\ Rates = {} /\ ~Speaks => cues.last = cues.pushed

StreamIInv == Phases /\ Ahead /\ MovesOn /\ Sends
RelayIInv == Types /\ StreamIInv /\ RateComes

-----------------------------------------------------------------------------
(* Initially.                                                              *)

LEMMA RelayInitLemma == RelayInit => RelayIInv
<1> SUFFICES ASSUME RelayInit PROVE RelayIInv
  OBVIOUS
<1>1. /\ source = [seq |-> 1, changes |-> 0, n |-> 0]
      /\ stream.todo = subscribe /\ stream.set \in BOOLEAN /\ stream.events = <<>> /\ ~stream.on
      /\ ~stream.runs /\ stream.view = [state |-> 0, changes |-> 0, sent |-> 0]
      /\ stream \in StreamType
      /\ queue = [events |-> <<>>, open |-> TRUE]
      /\ client = [shown |-> NothingShown, behind |-> FALSE]
      /\ cues = [waiting |-> <<>>, speaking |-> <<>>, last |-> 0, pushed |-> 0, closed |-> FALSE,
                 on |-> FALSE, told |-> <<>>, n |-> 0]
  <2>1. PICK b \in BOOLEAN : stream = [todo |-> subscribe, set |-> b, events |-> <<>>, on |-> FALSE,
                runs |-> FALSE, view |-> [state |-> 0, changes |-> 0, sent |-> 0]]
    BY DEF RelayInit
  <2>2. <<>> \in Seq(Told) /\ subscribe \in Todos /\ [state |-> 0, changes |-> 0, sent |-> 0] \in View
    BY DEF subscribe, Todos, View
  <2>3. stream \in StreamType
    BY <2>1, <2>2 DEF StreamType
  <2> QED  BY <2>1, <2>3 DEF RelayInit
<1>2. Types
  BY <1>1 DEF Types, ReaderType, QueueType, ClientType, Shown, NothingShown, CuesType
<1>3. Phases
  BY <1>1 DEF Phases, subscribe
<1>4. Ahead
  BY <1>1 DEF Ahead, subscribe
<1>5. States = {} /\ MovesOn /\ Sends
  BY <1>1 DEF States, MovesOn, Sends, NothingShown
<1>6. RateComes
  BY <1>1 DEF RateComes, Rates, Speaks
<1> QED  BY <1>2, <1>3, <1>4, <1>5, <1>6 DEF RelayIInv, StreamIInv

-----------------------------------------------------------------------------
(* The reader tells the stream.                                            *)

(* What is told is at the end of the stream's events, if it listens.       *)
LEMMA TellLemma ==
  ASSUME stream \in StreamType, NEW e \in Told, Tell(e)
  PROVE  /\ stream' \in StreamType
         /\ stream'.todo = stream.todo /\ stream'.set = stream.set /\ stream'.on = stream.on
         /\ stream'.runs = stream.runs /\ stream'.view = stream.view
         /\ ~stream.on => stream'.events = stream.events
         /\ stream.on => stream'.events = Append(stream.events, e)
<1>1. Append(stream.events, e) \in Seq(Told)
  BY DEF StreamType
<1> QED  BY <1>1 DEF Tell, StreamType

(* A change of the reader, told or before there was anyone to tell.        *)
LEMMA FoldOfChanges ==
  ASSUME RelayIInv, NEW e \in Told, Tell(e), source' \in ReaderType,
         UNCHANGED <<queue, client, cues>>,
         source.seq <= source'.seq, source.changes <= source'.changes,
         source'.seq # source.seq => e = [kind |-> "state", at |-> source'.seq],
         source'.changes # source.changes => e = [kind |-> "status", at |-> source'.changes],
         e.kind = "state" => e.at <= source'.seq,
         e.kind = "status" => e.at <= source'.changes
  PROVE  RelayIInv'
<1>1. stream \in StreamType /\ source \in ReaderType
  BY DEF RelayIInv, Types
<1>2. /\ stream' \in StreamType
      /\ stream'.todo = stream.todo /\ stream'.set = stream.set /\ stream'.on = stream.on
      /\ stream'.runs = stream.runs /\ stream'.view = stream.view
      /\ ~stream.on => stream'.events = stream.events
      /\ stream.on => stream'.events = Append(stream.events, e)
  BY <1>1, TellLemma
<1>3. Types'
  BY <1>2 DEF RelayIInv, Types
<1>4. Phases'
  BY <1>2 DEF RelayIInv, StreamIInv, Phases, SeqOf
<1>5. MovesOn' /\ Sends' /\ RateComes'
  <2>1. States' = States
    BY DEF States
  <2>2. MovesOn' /\ Sends'
    BY <1>2, <2>1 DEF RelayIInv, StreamIInv, MovesOn, Sends, Tells
  <2>3. RateComes'
    BY DEF RelayIInv, RateComes, Rates, Speaks
  <2> QED  BY <2>2, <2>3
<1>6. Ahead'
  <2>1. \A i \in 1..Len(stream'.events) :
          stream'.events[i] = e \/ (i \in 1..Len(stream.events) /\ stream'.events[i] = stream.events[i])
    BY <1>1, <1>2 DEF StreamType
  <2>2. \A i \in 1..Len(stream'.events) :
          /\ stream'.events[i].kind = "state" => stream'.events[i].at <= source'.seq
          /\ stream'.events[i].kind = "status" => stream'.events[i].at <= source'.changes
    <3> SUFFICES ASSUME NEW i \in 1..Len(stream'.events)
                 PROVE  /\ stream'.events[i].kind = "state" => stream'.events[i].at <= source'.seq
                        /\ stream'.events[i].kind = "status" => stream'.events[i].at <= source'.changes
      OBVIOUS
    <3>1. CASE stream'.events[i] = e
      BY <3>1
    <3>2. CASE i \in 1..Len(stream.events) /\ stream'.events[i] = stream.events[i]
      <4>1. /\ stream.events[i].kind = "state" => stream.events[i].at <= source.seq
            /\ stream.events[i].kind = "status" => stream.events[i].at <= source.changes
        BY <3>2 DEF RelayIInv, StreamIInv, Ahead
      <4>2. stream.events[i] \in Told
        BY <1>1, <3>2 DEF StreamType
      <4> QED  BY <1>1, <3>2, <4>1, <4>2 DEF ReaderType, Told
    <3> QED  BY <2>1, <3>1, <3>2
  <2>3. ASSUME NEW kind, NEW have \in Nat, NEW now \in Nat, NEW next \in Nat, stream.on,
               now <= next, now # next => e = [kind |-> kind, at |-> next], Comes(stream.events, kind, have, now)
        PROVE  Comes(stream'.events, kind, have, next)
    <3>1. \A i \in 1..Len(stream.events) :
            i \in 1..Len(stream'.events) /\ stream'.events[i] = stream.events[i]
      BY <1>1, <1>2, <2>3 DEF StreamType
    <3>2. Len(stream'.events) \in 1..Len(stream'.events) /\ stream'.events[Len(stream'.events)] = e
      BY <1>1, <1>2, <2>3 DEF StreamType
    <3>3. CASE now = next
      BY <2>3, <3>1, <3>3 DEF Comes
    <3>4. CASE now # next
      BY <2>3, <3>2, <3>4 DEF Comes
    <3> QED  BY <3>3, <3>4
  <2>4. queue.open /\ stream.todo # subscribe => stream.on
    BY DEF RelayIInv, StreamIInv, Phases
  <2>5. /\ stream.view.changes \in Nat /\ stream.view.state \in Nat
        /\ source.seq \in Nat /\ source.changes \in Nat /\ source'.seq \in Nat /\ source'.changes \in Nat
    BY <1>1 DEF StreamType, View, ReaderType
  <2>6. subscribe \notin {<<"state", "first">>, <<"first">>, <<>>}
    BY DEF subscribe
  <2>7. ASSUME queue.open, stream.set, stream.todo \in {<<"state", "first">>, <<"first">>, <<>>}
        PROVE  Comes(stream'.events, "status", stream'.view.changes, source'.changes)
    <3>1. Comes(stream.events, "status", stream.view.changes, source.changes) /\ stream.on
      BY <2>4, <2>6, <2>7 DEF RelayIInv, StreamIInv, Ahead
    <3> QED  BY <1>2, <2>3, <2>5, <3>1
  <2>8. ASSUME queue.open, stream.set, stream.todo \in {<<"first">>, <<>>}
        PROVE  Comes(stream'.events, "state", stream'.view.state, source'.seq)
    <3>1. Comes(stream.events, "state", stream.view.state, source.seq) /\ stream.on
      BY <2>4, <2>6, <2>8 DEF RelayIInv, StreamIInv, Ahead
    <3> QED  BY <1>2, <2>3, <2>5, <3>1
  <2> QED  BY <1>2, <2>2, <2>7, <2>8 DEF Ahead
<1> QED  BY <1>3, <1>4, <1>5, <1>6 DEF RelayIInv, StreamIInv

LEMMA ReaderTellsLemma ==
  ASSUME RelayIInv, ReaderTells
  PROVE  RelayIInv'
<1>1. source \in ReaderType
  BY DEF RelayIInv, Types
<1>2. CASE StateChanges
  <2> DEFINE e == [kind |-> "state", at |-> source.seq + 1]
  <2>1. /\ source' \in ReaderType /\ source'.seq = source.seq + 1 /\ source'.changes = source.changes
        /\ source.seq \in Nat /\ source.changes \in Nat /\ e \in Told
    <3>1. source.seq \in Nat \ {0} /\ source.changes \in Nat /\ source.n \in Nat
      BY <1>1 DEF ReaderType
    <3>2. source' = [source EXCEPT !.seq = source.seq + 1, !.n = source.n + 1]
      BY <1>2 DEF StateChanges
    <3>3. source' \in ReaderType /\ source'.seq = source.seq + 1 /\ source'.changes = source.changes
      <4>1. \A x \in Nat \ {0}, y \in Nat : LET r == [source EXCEPT !.seq = x, !.n = y]
                                        IN  r \in ReaderType /\ r.seq = x /\ r.changes = source.changes
        BY <1>1 DEF ReaderType
      <4>2. source.seq + 1 \in Nat \ {0} /\ source.n + 1 \in Nat
        BY <3>1
      <4> QED  BY <3>2, <4>1, <4>2
    <3>4. e \in Told
      BY <3>1 DEF Told
    <3> QED  BY <3>1, <3>3, <3>4
  <2>2. Tell(e) /\ UNCHANGED <<queue, client, cues>>
    BY <1>2 DEF StateChanges
  <2>3. e.kind = "state" /\ e.at = source'.seq /\ e = [kind |-> "state", at |-> source'.seq]
    BY <2>1
  <2> HIDE DEF e
  <2> QED  BY <2>1, <2>2, <2>3, FoldOfChanges
<1>3. CASE StatusChanges
  <2> DEFINE e == [kind |-> "status", at |-> source.changes + 1]
  <2>1. /\ source' \in ReaderType /\ source'.seq = source.seq /\ source'.changes = source.changes + 1
        /\ source.seq \in Nat /\ source.changes \in Nat /\ e \in Told
    <3>1. source.seq \in Nat \ {0} /\ source.changes \in Nat /\ source.n \in Nat
      BY <1>1 DEF ReaderType
    <3>2. source' = [source EXCEPT !.changes = source.changes + 1, !.n = source.n + 1]
      BY <1>3 DEF StatusChanges
    <3>3. source' \in ReaderType /\ source'.changes = source.changes + 1 /\ source'.seq = source.seq
      <4>1. \A x \in Nat, y \in Nat : LET r == [source EXCEPT !.changes = x, !.n = y]
                                        IN  r \in ReaderType /\ r.changes = x /\ r.seq = source.seq
        BY <1>1 DEF ReaderType
      <4>2. source.changes + 1 \in Nat /\ source.n + 1 \in Nat
        BY <3>1
      <4> QED  BY <3>2, <4>1, <4>2
    <3>4. e \in Told
      BY <3>1 DEF Told
    <3> QED  BY <3>1, <3>3, <3>4
  <2>2. Tell(e) /\ UNCHANGED <<queue, client, cues>>
    BY <1>3 DEF StatusChanges
  <2>3. e.kind = "status" /\ e.at = source'.changes /\ e = [kind |-> "status", at |-> source'.changes]
    BY <2>1
  <2> HIDE DEF e
  <2> QED  BY <2>1, <2>2, <2>3, FoldOfChanges
<1>4. CASE ItemChanges
  <2> DEFINE e == [kind |-> "item", at |-> 0]
  <2>1. /\ source' \in ReaderType /\ source'.seq = source.seq /\ source'.changes = source.changes
        /\ source.seq \in Nat /\ source.changes \in Nat /\ e \in Told
    BY <1>1, <1>4 DEF ItemChanges, ReaderType, Told
  <2>2. Tell(e) /\ UNCHANGED <<queue, client, cues>>
    BY <1>4 DEF ItemChanges
  <2>3. e.kind = "item"
    OBVIOUS
  <2> HIDE DEF e
  <2> QED  BY <2>1, <2>2, <2>3, FoldOfChanges
<1> QED  BY <1>2, <1>3, <1>4 DEF ReaderTells

-----------------------------------------------------------------------------
(* The client's queue.                                                     *)

(* Something other than a state, sent or dropped.                          *)
LEMMA OtherQueued ==
  ASSUME queue \in QueueType, NEW e \in [kind : {"other", "cue"}], try_send(e)
  PROVE  /\ queue' \in QueueType /\ queue'.open = queue.open /\ (~queue.open => queue' = queue)
         /\ States' = States /\ \A i \in States : queue'.events[i] = queue.events[i]
<1>1. CASE ~Fits
  BY <1>1 DEF try_send, States
<1>2. CASE Fits
  <2>1. e \in Sent /\ e.kind # "state" /\ queue.events \in Seq(Sent)
    BY DEF Sent, QueueType
  <2>2. queue' = [queue EXCEPT !.events = Append(queue.events, e)]
    BY <1>2 DEF try_send
  <2>3. Append(queue.events, e) \in Seq(Sent)
    BY <2>1
  <2>4. queue' \in QueueType /\ queue'.open = queue.open /\ queue'.events = Append(queue.events, e)
    BY <2>2, <2>3 DEF QueueType
  <2>5. /\ Len(queue'.events) = Len(queue.events) + 1 /\ Len(queue.events) \in Nat
        /\ queue'.events[Len(queue.events) + 1] = e
        /\ \A i \in 1..Len(queue.events) : queue'.events[i] = queue.events[i]
    BY <2>1, <2>4
  <2>6. States' = States
    BY <2>1, <2>5 DEF States
  <2> QED  BY <1>2, <2>4, <2>5, <2>6 DEF States, Fits
<1> QED  BY <1>1, <1>2

(* A state that fits is behind those queued.                               *)
LEMMA StateQueued ==
  ASSUME queue \in QueueType, NEW e \in Snapshot, try_send(e)
  PROVE  /\ queue' \in QueueType /\ queue'.open = queue.open /\ (~queue.open => queue' = queue)
         /\ ~Fits => queue' = queue /\ States' = States
         /\ Fits => \E n \in Nat : /\ States' = States \cup {n} /\ queue'.events[n] = e
                                   /\ \A i \in States : i \in Nat /\ i < n
                                                        /\ queue'.events[i] = queue.events[i]
<1>1. CASE ~Fits
  BY <1>1 DEF try_send, States
<1>2. CASE Fits
  <2>1. e \in Sent /\ e.kind = "state" /\ queue.events \in Seq(Sent)
    BY DEF Sent, QueueType, Snapshot
  <2>2. queue' = [queue EXCEPT !.events = Append(queue.events, e)]
    BY <1>2 DEF try_send
  <2>3. Append(queue.events, e) \in Seq(Sent)
    BY <2>1
  <2>4. queue' \in QueueType /\ queue'.open = queue.open /\ queue'.events = Append(queue.events, e)
    BY <2>2, <2>3 DEF QueueType
  <2> DEFINE n == Len(queue.events) + 1
  <2>5. /\ Len(queue'.events) = n /\ Len(queue.events) \in Nat
        /\ queue'.events[n] = e
        /\ \A i \in 1..Len(queue.events) : queue'.events[i] = queue.events[i]
    BY <2>1, <2>4
  <2>6. States' = States \cup {n}
    BY <2>1, <2>5, SMTT(30) DEF States
  <2>7. \A i \in States : i \in Nat /\ i < n /\ queue'.events[i] = queue.events[i]
    BY <2>5 DEF States
  <2>8. n \in Nat
    BY <2>5
  <2> QED  BY <1>2, <2>4, <2>5, <2>6, <2>7, <2>8 DEF Fits
<1> QED  BY <1>1, <1>2

LEMMA StatesTyped ==
  ASSUME queue \in QueueType
  PROVE  /\ \A i \in States : i \in Nat /\ i \in 1..Len(queue.events) /\ queue.events[i] \in Snapshot
         /\ \A i \in States : queue.events[i].seq \in Nat
<1>1. \A i \in 1..Len(queue.events) : queue.events[i] \in Sent
  BY DEF QueueType
<1>2. \A e \in Sent : e.kind = "state" => e \in Snapshot
  BY DEF Sent
<1>3. \A e \in Snapshot : e.seq \in Nat
  BY DEF Snapshot
<1> QED  BY <1>1, <1>2, <1>3 DEF States, QueueType

-----------------------------------------------------------------------------
(* The subscription.                                                       *)

(* A step that leaves the queue and what was sent alone.                   *)
LEMMA SameQueue ==
  ASSUME MovesOn, Sends, UNCHANGED <<queue, client>>, stream'.view = stream.view,
         stream'.runs = stream.runs, stream'.set = stream.set
  PROVE  MovesOn' /\ Sends'
<1>1. States' = States
  BY DEF States
<1> QED  BY <1>1 DEF MovesOn, Sends, Tells

(* Before the thread runs nothing was sent.                                *)
LEMMA NotYet ==
  ASSUME queue \in QueueType, client \in ClientType, UNCHANGED <<queue, client>>, MovesOn,
         stream'.view.sent = stream.view.sent, ~stream'.runs
  PROVE  MovesOn' /\ Sends'
<1>1. States' = States
  BY DEF States
<1> QED  BY <1>1 DEF MovesOn, Sends

LEMMA SameCues ==
  ASSUME RateComes, cues'.waiting = cues.waiting, cues'.speaking = cues.speaking,
         cues'.last = cues.last, cues'.pushed = cues.pushed, cues'.closed = cues.closed
  PROVE  RateComes'
BY DEF RateComes, Rates, Speaks

(* The steps before the first snapshot.                                    *)
LEMMA TodoLemma ==
  ASSUME stream \in StreamType
  PROVE  /\ AtStep("events") => stream.todo = subscribe /\ Later = <<"cues", "status", "state", "first">>
         /\ AtStep("cues") => stream.todo = <<"cues", "status", "state", "first">>
                              /\ Later = <<"status", "state", "first">>
         /\ AtStep("status") => stream.todo = <<"status", "state", "first">>
                                /\ Later = <<"state", "first">>
         /\ AtStep("state") => stream.todo = <<"state", "first">> /\ Later = <<"first">>
         /\ AtStep("first") => stream.todo = <<"first">> /\ Later = <<>>
<1>1. stream.todo \in Todos
  BY DEF StreamType
<1>2. CASE stream.todo = <<"events", "cues", "status", "state", "first">>
  BY <1>2 DEF AtStep, Later, subscribe
<1>3. CASE stream.todo = <<"cues", "status", "state", "first">>
  BY <1>3 DEF AtStep, Later
<1>4. CASE stream.todo = <<"status", "state", "first">>
  BY <1>4 DEF AtStep, Later
<1>5. CASE stream.todo = <<"state", "first">>
  BY <1>5 DEF AtStep, Later
<1>6. CASE stream.todo = <<"first">>
  BY <1>6 DEF AtStep, Later
<1>7. CASE stream.todo = <<>>
  BY <1>7 DEF AtStep
<1> QED  BY <1>1, <1>2, <1>3, <1>4, <1>5, <1>6, <1>7 DEF Todos

(* The phases as they differ.                                              *)
LEMMA TodosDiffer ==
  /\ subscribe \notin {<<"cues", "status", "state", "first">>, <<"status", "state", "first">>,
                       <<"state", "first">>, <<"first">>, <<>>}
  /\ <<"cues", "status", "state", "first">> \notin {<<"status", "state", "first">>,
                       <<"state", "first">>, <<"first">>, <<>>}
  /\ <<"status", "state", "first">> \notin {<<"state", "first">>, <<"first">>, <<>>}
  /\ <<"state", "first">> \notin {<<"first">>, <<>>} /\ <<"first">> # <<>>
BY DEF subscribe

LEMMA SubscribeEventsLemma ==
  ASSUME RelayIInv, SubscribeEvents
  PROVE  RelayIInv'
<1>1. stream \in StreamType /\ queue \in QueueType /\ client \in ClientType
  BY DEF RelayIInv, Types
<1> DEFINE next == <<"cues", "status", "state", "first">>
<1>2. stream.todo = subscribe /\ Later = next
  BY <1>1, TodoLemma DEF SubscribeEvents
<1>3. /\ stream' = [stream EXCEPT !.todo = next, !.on = TRUE]
      /\ UNCHANGED <<source, queue, client, cues>>
  BY <1>2 DEF SubscribeEvents
<1>4. stream' \in StreamType
  BY <1>1, <1>3 DEF StreamType, Todos
<1>5. /\ stream'.todo = next /\ stream'.on /\ stream'.set = stream.set
      /\ stream'.events = stream.events /\ stream'.runs = stream.runs /\ stream'.view = stream.view
  BY <1>1, <1>3 DEF StreamType
<1>6. Types'
  BY <1>3, <1>4 DEF RelayIInv, Types
<1>7. Phases'
  BY <1>2, <1>3, <1>5, TodosDiffer DEF RelayIInv, StreamIInv, Phases
<1>8. Ahead'
  BY <1>2, <1>3, <1>5, TodosDiffer DEF RelayIInv, StreamIInv, Ahead
<1>9. MovesOn' /\ Sends'
  BY <1>3, <1>5, SameQueue DEF RelayIInv, StreamIInv
<1>10. RateComes'
  BY <1>3, SameCues DEF RelayIInv
<1> QED  BY <1>6, <1>7, <1>8, <1>9, <1>10 DEF RelayIInv, StreamIInv

LEMMA SubscribeCuesLemma ==
  ASSUME RelayIInv, SubscribeCues
  PROVE  RelayIInv'
<1>1. stream \in StreamType /\ queue \in QueueType /\ client \in ClientType /\ cues \in CuesType
  BY DEF RelayIInv, Types
<1> DEFINE next == <<"status", "state", "first">>
<1>2. stream.todo = <<"cues", "status", "state", "first">> /\ Later = next
  BY <1>1, TodoLemma DEF SubscribeCues
<1>3. /\ stream' = [stream EXCEPT !.todo = next] /\ cues' = [cues EXCEPT !.on = TRUE]
      /\ UNCHANGED <<source, queue, client>>
  BY <1>2 DEF SubscribeCues
<1>4. stream' \in StreamType /\ cues' \in CuesType
  BY <1>1, <1>3 DEF StreamType, Todos, CuesType
<1>5. /\ stream'.todo = next /\ stream'.on = stream.on /\ stream'.set = stream.set
      /\ stream'.events = stream.events /\ stream'.runs = stream.runs /\ stream'.view = stream.view
  BY <1>1, <1>3 DEF StreamType
<1>6. Types'
  BY <1>3, <1>4 DEF RelayIInv, Types
<1>7. Phases'
  BY <1>2, <1>3, <1>5, TodosDiffer DEF RelayIInv, StreamIInv, Phases
<1>8. Ahead'
  BY <1>2, <1>3, <1>5, TodosDiffer DEF RelayIInv, StreamIInv, Ahead
<1>9. MovesOn' /\ Sends'
  BY <1>3, <1>5, SameQueue DEF RelayIInv, StreamIInv
<1>10. RateComes'
  <2>1. /\ cues'.waiting = cues.waiting /\ cues'.speaking = cues.speaking /\ cues'.last = cues.last
        /\ cues'.pushed = cues.pushed /\ cues'.closed = cues.closed
    BY <1>1, <1>3 DEF CuesType
  <2> QED  BY <2>1, SameCues DEF RelayIInv
<1> QED  BY <1>6, <1>7, <1>8, <1>9, <1>10 DEF RelayIInv, StreamIInv

LEMMA ReadStatusLemma ==
  ASSUME RelayIInv, ReadStatus
  PROVE  RelayIInv'
<1>1. /\ stream \in StreamType /\ queue \in QueueType /\ client \in ClientType /\ source \in ReaderType
      /\ stream.view \in View
  BY DEF RelayIInv, Types, StreamType
<1> DEFINE next == <<"state", "first">>
           view == [stream.view EXCEPT !.changes = source.changes]
<1>2. stream.todo = <<"status", "state", "first">> /\ Later = next
  BY <1>1, TodoLemma DEF ReadStatus
<1>3. /\ stream' = [stream EXCEPT !.todo = next, !.view = view]
      /\ UNCHANGED <<source, queue, client, cues>>
  BY <1>2 DEF ReadStatus
<1>4. view \in View /\ view.changes = source.changes /\ view.sent = stream.view.sent
  BY <1>1 DEF View, ReaderType
<1> HIDE DEF view
<1>5. stream' \in StreamType
  BY <1>1, <1>3, <1>4 DEF StreamType, Todos
<1>6. /\ stream'.todo = next /\ stream'.on = stream.on /\ stream'.set = stream.set
      /\ stream'.events = stream.events /\ stream'.runs = stream.runs /\ stream'.view = view
  BY <1>1, <1>3 DEF StreamType
<1>7. ~stream.runs
  BY <1>2 DEF RelayIInv, StreamIInv, Phases
<1>8. Types'
  BY <1>3, <1>5 DEF RelayIInv, Types
<1>9. Phases'
  BY <1>2, <1>3, <1>4, <1>6, <1>7, TodosDiffer DEF RelayIInv, StreamIInv, Phases
<1>10. Ahead'
  BY <1>1, <1>2, <1>3, <1>4, <1>6, TodosDiffer DEF RelayIInv, StreamIInv, Ahead, Comes, ReaderType
<1>11. MovesOn' /\ Sends'
  BY <1>1, <1>3, <1>4, <1>6, <1>7, NotYet DEF RelayIInv, StreamIInv
<1>12. RateComes'
  BY <1>3, SameCues DEF RelayIInv
<1> QED  BY <1>8, <1>9, <1>10, <1>11, <1>12 DEF RelayIInv, StreamIInv

LEMMA ReadStateLemma ==
  ASSUME RelayIInv, ReadState
  PROVE  RelayIInv'
<1>1. /\ stream \in StreamType /\ queue \in QueueType /\ client \in ClientType /\ source \in ReaderType
      /\ stream.view \in View
  BY DEF RelayIInv, Types, StreamType
<1> DEFINE next == <<"first">>
           view == [stream.view EXCEPT !.state = source.seq]
<1>2. stream.todo = <<"state", "first">> /\ Later = next
  BY <1>1, TodoLemma DEF ReadState
<1>3. /\ stream' = [stream EXCEPT !.todo = next, !.view = view]
      /\ UNCHANGED <<source, queue, client, cues>>
  BY <1>2 DEF ReadState
<1>4. /\ view \in View /\ view.state = source.seq /\ view.sent = stream.view.sent
      /\ view.changes = stream.view.changes /\ source.seq > 0 /\ source.seq \in Nat
  BY <1>1 DEF View, ReaderType
<1> HIDE DEF view
<1>5. stream' \in StreamType
  BY <1>1, <1>3, <1>4 DEF StreamType, Todos
<1>6. /\ stream'.todo = next /\ stream'.on = stream.on /\ stream'.set = stream.set
      /\ stream'.events = stream.events /\ stream'.runs = stream.runs /\ stream'.view = view
  BY <1>1, <1>3 DEF StreamType
<1>7. ~stream.runs
  BY <1>2 DEF RelayIInv, StreamIInv, Phases
<1>8. Types'
  BY <1>3, <1>5 DEF RelayIInv, Types
<1>9. Phases'
  BY <1>2, <1>3, <1>4, <1>6, <1>7, TodosDiffer DEF RelayIInv, StreamIInv, Phases
<1>10. Ahead'
  BY <1>1, <1>2, <1>3, <1>4, <1>6, TodosDiffer DEF RelayIInv, StreamIInv, Ahead, Comes
<1>11. MovesOn' /\ Sends'
  BY <1>1, <1>3, <1>4, <1>6, <1>7, NotYet DEF RelayIInv, StreamIInv
<1>12. RateComes'
  BY <1>3, SameCues DEF RelayIInv
<1> QED  BY <1>8, <1>9, <1>10, <1>11, <1>12 DEF RelayIInv, StreamIInv

(* A snapshot that moves on, sent or dropped.                              *)
LEMMA SnapshotSent ==
  ASSUME queue \in QueueType, client \in ClientType, stream.view \in View, MovesOn,
         NEW v \in View, stream.view.sent < SeqOf(v), try_send(Event(v)),
         client' = [client EXCEPT !.behind = ~Fits],
         stream'.view = [v EXCEPT !.sent = SeqOf(v)]
  PROVE  /\ queue' \in QueueType /\ client' \in ClientType /\ stream'.view \in View
         /\ queue'.open = queue.open /\ (~queue.open => queue' = queue)
         /\ client'.shown = client.shown
         /\ MovesOn' /\ Sends'
<1>1. /\ v.state \in Nat /\ v.changes \in Nat /\ SeqOf(v) \in Nat /\ stream.view.sent \in Nat
      /\ client.shown.seq \in Nat
  BY DEF View, SeqOf, ClientType, Shown
<1>2. /\ stream'.view \in View /\ stream'.view.sent = SeqOf(v)
      /\ stream'.view.state = v.state /\ stream'.view.changes = v.changes
  BY <1>1 DEF View
<1>3. client' \in ClientType /\ client'.shown = client.shown /\ (client'.behind <=> ~Fits)
  <2>1. (~Fits) \in BOOLEAN
    BY DEF Fits
  <2> QED  BY <2>1 DEF ClientType
<1> DEFINE e == Event(v)
<1>4. /\ e \in Snapshot /\ e.seq = SeqOf(v) /\ e.state = v.state /\ e.changes = v.changes
  BY <1>1 DEF Event, Snapshot
<1> HIDE DEF e
<1>5. /\ queue' \in QueueType /\ queue'.open = queue.open /\ (~queue.open => queue' = queue)
      /\ ~Fits => queue' = queue /\ States' = States
      /\ Fits => \E n \in Nat : /\ States' = States \cup {n} /\ queue'.events[n] = e
                                /\ \A i \in States : i \in Nat /\ i < n
                                                     /\ queue'.events[i] = queue.events[i]
  BY <1>4, StateQueued DEF e
<1>6. \A i \in States : i \in Nat /\ queue.events[i].seq \in Nat
  BY StatesTyped
<1>7. \A i \in States : /\ queue.events[i].seq > client.shown.seq
                        /\ queue.events[i].seq <= stream.view.sent
                        /\ \A j \in States : j < i => queue.events[j].seq < queue.events[i].seq
  BY DEF MovesOn
<1>8. client.shown.seq <= stream.view.sent
  BY DEF MovesOn
<1>9. CASE ~Fits
  <2>1. queue' = queue /\ States' = States /\ client'.behind
    BY <1>3, <1>5, <1>9
  <2>2. MovesOn'
    BY <1>1, <1>2, <1>3, <1>6, <1>7, <1>8, <2>1 DEF MovesOn
  <2>3. Sends'
    BY <2>1 DEF Sends
  <2> QED  BY <1>2, <1>3, <1>5, <2>2, <2>3
<1>10. CASE Fits
  <2>1. PICK n \in Nat : /\ States' = States \cup {n} /\ queue'.events[n] = e
                         /\ \A i \in States : i \in Nat /\ i < n /\ queue'.events[i] = queue.events[i]
    BY <1>5, <1>10
  <2>2. client'.shown.seq <= stream'.view.sent
    BY <1>1, <1>2, <1>3, <1>8
  <2>3. ASSUME NEW i \in States'
        PROVE  /\ queue'.events[i].seq > client'.shown.seq
               /\ queue'.events[i].seq <= stream'.view.sent
               /\ \A j \in States' : j < i => queue'.events[j].seq < queue'.events[i].seq
    <3>1. CASE i = n
      BY <1>1, <1>2, <1>3, <1>4, <1>6, <1>7, <1>8, <2>1, <3>1
    <3>2. CASE i \in States
      BY <1>1, <1>2, <1>3, <1>6, <1>7, <2>1, <3>2
    <3> QED  BY <2>1, <3>1, <3>2
  <2>4. MovesOn'
    BY <2>2, <2>3 DEF MovesOn
  <2>5. Sends'
    <3>1. n \in States' /\ States' # {}
      BY <2>1
    <3>2. ASSUME NEW i \in States', \A j \in States' : j <= i
          PROVE  Tells(queue.events[i])'
      <4>1. i = n
        BY <2>1, <3>1, <3>2
      <4> QED  BY <1>2, <1>4, <2>1, <4>1 DEF Tells
    <3> QED  BY <3>1, <3>2 DEF Sends
  <2> QED  BY <1>2, <1>3, <1>5, <2>4, <2>5
<1> QED  BY <1>9, <1>10

LEMMA FirstLemma ==
  ASSUME RelayIInv, First
  PROVE  RelayIInv'
<1>1. /\ stream \in StreamType /\ queue \in QueueType /\ client \in ClientType /\ source \in ReaderType
      /\ stream.view \in View /\ stream.set \in BOOLEAN
  BY DEF RelayIInv, Types, StreamType
<1>2. stream.todo = <<"first">> /\ Later = <<>>
  BY <1>1, TodoLemma DEF First
<1>3. /\ ~stream.runs /\ stream.view.sent = 0
      /\ stream.view.state > 0 \/ ~stream.set
      /\ client.shown = NothingShown
      /\ \A i \in 1..Len(queue.events) : queue.events[i].kind # "state"
      /\ MovesOn
  BY <1>2, TodosDiffer DEF RelayIInv, StreamIInv, Phases
<1> DEFINE v == stream.view
           w == [v EXCEPT !.sent = IF stream.set THEN SeqOf(v) ELSE 0]
<1>4. SeqOf(v) \in Nat /\ v.state \in Nat /\ v.changes \in Nat
  BY <1>1 DEF View, SeqOf
<1>5. /\ w \in View /\ w.state = v.state /\ w.changes = v.changes
      /\ w.sent = IF stream.set THEN SeqOf(v) ELSE 0
  BY <1>1, <1>4 DEF View
<1>6. /\ stream' = [stream EXCEPT !.todo = <<>>, !.runs = TRUE, !.view = w]
      /\ UNCHANGED <<source, cues>>
  BY <1>2 DEF First
<1> HIDE DEF w
<1>7. stream' \in StreamType
  BY <1>1, <1>5, <1>6 DEF StreamType, Todos
<1>8. /\ stream'.todo = <<>> /\ stream'.on = stream.on /\ stream'.set = stream.set
      /\ stream'.events = stream.events /\ stream'.runs /\ stream'.view = w
  BY <1>1, <1>6 DEF StreamType
<1>9. RateComes'
  BY <1>6, SameCues DEF RelayIInv
<1>10. queue'.open = queue.open => Ahead'
  BY <1>2, <1>5, <1>6, <1>8, TodosDiffer DEF RelayIInv, StreamIInv, Ahead
<1>11. w.sent = SeqOf(w) \/ ~stream.set
  BY <1>5 DEF SeqOf
<1>12. CASE stream.set
  <2>1. try_send(Event(v)) /\ client' = [client EXCEPT !.behind = ~Fits]
    BY <1>12 DEF First
  <2>2. stream.view.sent < SeqOf(v)
    BY <1>3, <1>4, <1>12 DEF SeqOf
  <2>3. stream'.view = [v EXCEPT !.sent = SeqOf(v)]
    BY <1>8, <1>12 DEF w
  <2>4. /\ queue' \in QueueType /\ client' \in ClientType
        /\ queue'.open = queue.open /\ (~queue.open => queue' = queue)
        /\ MovesOn' /\ Sends'
    BY <1>1, <1>3, <2>1, <2>2, <2>3, SnapshotSent
  <2>5. Types'
    BY <1>6, <1>7, <2>4 DEF RelayIInv, Types
  <2>6. Phases'
    BY <1>2, <1>3, <1>5, <1>8, <1>11, <1>12, <2>4, TodosDiffer DEF RelayIInv, StreamIInv, Phases
  <2> QED  BY <1>9, <1>10, <2>4, <2>5, <2>6 DEF RelayIInv, StreamIInv
<1>13. CASE ~stream.set
  <2>1. UNCHANGED <<queue, client>>
    BY <1>13 DEF First
  <2>2. States' = States
    BY <2>1 DEF States
  <2>3. MovesOn' /\ Sends'
    BY <1>3, <1>5, <1>8, <1>13, <2>1, <2>2 DEF MovesOn, Sends
  <2>4. Types'
    BY <1>6, <1>7, <2>1 DEF RelayIInv, Types
  <2>5. Phases'
    BY <1>2, <1>3, <1>8, <1>13, <2>1, TodosDiffer DEF RelayIInv, StreamIInv, Phases
  <2> QED  BY <1>9, <1>10, <2>1, <2>3, <2>4, <2>5 DEF RelayIInv, StreamIInv
<1> QED  BY <1>12, <1>13

-----------------------------------------------------------------------------
(* The thread that relays the events.                                      *)

(* The next event is taken off: what comes is still to come, unless it     *)
(* was that event.                                                         *)
LEMMA StillComes ==
  ASSUME NEW events \in Seq(Told), events # <<>>, NEW kind, NEW have \in Nat, NEW next \in Nat,
         NEW now \in Nat, Comes(events, kind, have, now), have <= next, next <= now,
         Head(events).kind = kind => Head(events).at <= next
  PROVE  Comes(Tail(events), kind, next, now)
<1>1. CASE next = now
  BY <1>1 DEF Comes
<1>2. CASE next # now
  <2>1. PICK i \in 1..Len(events) : events[i] = [kind |-> kind, at |-> now]
    BY <1>2 DEF Comes
  <2>2. i # 1
    BY <1>2, <2>1
  <2>3. i - 1 \in 1..Len(Tail(events)) /\ Tail(events)[i - 1] = events[i]
    BY <2>1, <2>2
  <2> QED  BY <2>1, <2>3 DEF Comes
<1> QED  BY <1>1, <1>2

(* What the thread finds when it takes an event.                           *)
LEMMA Running ==
  ASSUME RelayIInv, stream.runs, stream.events # <<>>, queue.open
  PROVE  /\ stream \in StreamType /\ queue \in QueueType /\ client \in ClientType
         /\ source \in ReaderType /\ cues \in CuesType
         /\ stream.view \in View /\ stream.set \in BOOLEAN /\ stream.events \in Seq(Told)
         /\ source.seq \in Nat /\ source.changes \in Nat
         /\ stream.view.state \in Nat /\ stream.view.changes \in Nat /\ stream.view.sent \in Nat
         /\ Head(stream.events) \in Told /\ Tail(stream.events) \in Seq(Told)
         /\ stream.todo = <<>> /\ stream.on
         /\ \A i \in 1..Len(Tail(stream.events)) : /\ i + 1 \in 1..Len(stream.events)
                                                   /\ Tail(stream.events)[i] = stream.events[i + 1]
         /\ stream.set => /\ stream.view.sent = SeqOf(stream.view) /\ stream.view.state > 0
                          /\ Comes(stream.events, "status", stream.view.changes, source.changes)
                          /\ Comes(stream.events, "state", stream.view.state, source.seq)
<1>1. /\ stream \in StreamType /\ queue \in QueueType /\ client \in ClientType
      /\ source \in ReaderType /\ cues \in CuesType
  BY DEF RelayIInv, Types
<1>2. stream.view \in View /\ stream.set \in BOOLEAN /\ stream.events \in Seq(Told)
  BY <1>1 DEF StreamType
<1>3. /\ source.seq \in Nat /\ source.changes \in Nat
      /\ stream.view.state \in Nat /\ stream.view.changes \in Nat /\ stream.view.sent \in Nat
  BY <1>1, <1>2 DEF ReaderType, View
<1>4. /\ Head(stream.events) \in Told /\ Tail(stream.events) \in Seq(Told)
      /\ \A i \in 1..Len(Tail(stream.events)) : /\ i + 1 \in 1..Len(stream.events)
                                                /\ Tail(stream.events)[i] = stream.events[i + 1]
  BY <1>2
<1>5. stream.todo = <<>> /\ stream.on
  BY TodosDiffer DEF RelayIInv, StreamIInv, Phases
<1>6. stream.set => /\ stream.view.sent = SeqOf(stream.view) /\ stream.view.state > 0
                    /\ Comes(stream.events, "status", stream.view.changes, source.changes)
                    /\ Comes(stream.events, "state", stream.view.state, source.seq)
  BY <1>5 DEF RelayIInv, StreamIInv, Phases, Ahead
<1> QED  BY <1>1, <1>2, <1>3, <1>4, <1>5, <1>6

(* Ahead after an event was taken.                                         *)
LEMMA AheadTaken ==
  ASSUME RelayIInv, stream.runs, stream.events # <<>>, queue.open, UNCHANGED source,
         stream'.events = Tail(stream.events), stream'.set = stream.set,
         stream.set => /\ Comes(stream'.events, "status", stream'.view.changes, source.changes)
                       /\ Comes(stream'.events, "state", stream'.view.state, source.seq)
  PROVE  Ahead'
<1>1. \A i \in 1..Len(stream'.events) :
        /\ i + 1 \in 1..Len(stream.events) /\ stream'.events[i] = stream.events[i + 1]
  BY Running
<1>2. \A i \in 1..Len(stream.events) :
       /\ stream.events[i].kind = "state" => stream.events[i].at <= source.seq
       /\ stream.events[i].kind = "status" => stream.events[i].at <= source.changes
  BY DEF RelayIInv, StreamIInv, Ahead
<1>3. \A i \in 1..Len(stream'.events) :
       /\ stream'.events[i].kind = "state" => stream'.events[i].at <= source'.seq
       /\ stream'.events[i].kind = "status" => stream'.events[i].at <= source'.changes
  BY <1>1, <1>2
<1> QED  BY <1>3 DEF Ahead

(* An event that is old, or about neither state.                           *)
LEMMA Passed ==
  ASSUME RelayIInv, stream.runs, stream.events # <<>>, queue.open, UNCHANGED <<source, client, cues>>,
         stream' = [stream EXCEPT !.events = Tail(@)],
         queue' \in QueueType, queue'.open = queue.open, States' = States,
         \A i \in States : queue'.events[i] = queue.events[i],
         stream.set => /\ Head(stream.events).kind = "status" =>
                            Head(stream.events).at <= stream.view.changes
                       /\ Head(stream.events).kind = "state" =>
                            Head(stream.events).at <= stream.view.state
  PROVE  RelayIInv'
<1>1. /\ stream \in StreamType /\ Tail(stream.events) \in Seq(Told) /\ stream.todo = <<>>
      /\ source.seq \in Nat /\ source.changes \in Nat /\ stream.events \in Seq(Told)
      /\ stream.view.state \in Nat /\ stream.view.changes \in Nat /\ stream.set \in BOOLEAN
      /\ stream.set => /\ Comes(stream.events, "status", stream.view.changes, source.changes)
                       /\ Comes(stream.events, "state", stream.view.state, source.seq)
  BY Running
<1>2. stream' \in StreamType
  BY <1>1 DEF StreamType
<1>3. /\ stream'.todo = stream.todo /\ stream'.on = stream.on /\ stream'.set = stream.set
      /\ stream'.events = Tail(stream.events) /\ stream'.runs = stream.runs
      /\ stream'.view = stream.view
  BY <1>1 DEF StreamType
<1>4. Types'
  BY <1>2 DEF RelayIInv, Types
<1>5. Phases'
  <2>1. States = {} <=> \A i \in 1..Len(queue.events) : queue.events[i].kind # "state"
    BY DEF States
  <2>2. States' = {} <=> \A i \in 1..Len(queue'.events) : queue'.events[i].kind # "state"
    BY DEF States
  <2> QED  BY <1>3, <2>1, <2>2 DEF RelayIInv, StreamIInv, Phases
<1>6. Ahead'
  <2>1. stream.set => /\ Comes(Tail(stream.events), "status", stream.view.changes, source.changes)
                      /\ Comes(Tail(stream.events), "state", stream.view.state, source.seq)
    <3>1. SUFFICES ASSUME stream.set
                   PROVE  /\ Comes(Tail(stream.events), "status", stream.view.changes, source.changes)
                          /\ Comes(Tail(stream.events), "state", stream.view.state, source.seq)
      OBVIOUS
    <3>2. stream.view.changes <= source.changes /\ stream.view.state <= source.seq
      BY <1>1, <3>1 DEF Comes
    <3>3. stream.view.changes <= stream.view.changes /\ stream.view.state <= stream.view.state
      BY <1>1
    <3>4. Comes(Tail(stream.events), "status", stream.view.changes, source.changes)
      BY <1>1, <3>1, <3>2, <3>3, StillComes
    <3>5. Comes(Tail(stream.events), "state", stream.view.state, source.seq)
      BY <1>1, <3>1, <3>2, <3>3, StillComes
    <3> QED  BY <3>4, <3>5
  <2> QED  BY <1>3, <2>1, AheadTaken
<1>7. MovesOn' /\ Sends'
  BY <1>3 DEF RelayIInv, StreamIInv, MovesOn, Sends, Tells
<1>8. RateComes'
  BY SameCues DEF RelayIInv
<1> QED  BY <1>4, <1>5, <1>6, <1>7, <1>8 DEF RelayIInv, StreamIInv

(* An event that changes the view.                                         *)
LEMMA Rendered ==
  ASSUME RelayIInv, stream.runs, stream.events # <<>>, queue.open, UNCHANGED <<source, cues>>,
         NEW v \in View, v.sent = stream.view.sent, render(v),
         stream.set => /\ SeqOf(v) > stream.view.sent /\ v.state > 0
                       /\ Comes(Tail(stream.events), "status", v.changes, source.changes)
                       /\ Comes(Tail(stream.events), "state", v.state, source.seq)
  PROVE  RelayIInv'
<1>1. /\ stream \in StreamType /\ Tail(stream.events) \in Seq(Told) /\ stream.todo = <<>>
      /\ queue \in QueueType /\ client \in ClientType /\ stream.view \in View
      /\ stream.set \in BOOLEAN
  BY Running
<1>2. RateComes'
  BY SameCues DEF RelayIInv
<1>3. CASE stream.set
  <2> DEFINE w == [v EXCEPT !.sent = SeqOf(v)]
  <2>1. w \in View /\ w.state = v.state /\ w.changes = v.changes /\ w.sent = SeqOf(v)
    BY DEF View, SeqOf
  <2>2. /\ stream' = [stream EXCEPT !.view = w, !.events = Tail(stream.events)]
        /\ try_send(Event(v)) /\ client' = [client EXCEPT !.behind = ~Fits]
    BY <1>3 DEF render, Moves
  <2> HIDE DEF w
  <2>3. stream' \in StreamType
    BY <1>1, <2>1, <2>2 DEF StreamType
  <2>4. /\ stream'.todo = stream.todo /\ stream'.on = stream.on /\ stream'.set = stream.set
        /\ stream'.events = Tail(stream.events) /\ stream'.runs = stream.runs /\ stream'.view = w
    BY <1>1, <2>2 DEF StreamType
  <2>5. stream.view.sent < SeqOf(v)
    <3>1. stream.view.sent \in Nat /\ SeqOf(v) \in Nat
      BY <1>1 DEF View, SeqOf
    <3> QED  BY <1>3, <3>1
  <2>6. MovesOn
    BY DEF RelayIInv, StreamIInv
  <2>7. stream'.view = [v EXCEPT !.sent = SeqOf(v)]
    BY <2>4 DEF w
  <2>8. /\ queue' \in QueueType /\ client' \in ClientType /\ queue'.open = queue.open
        /\ client'.shown = client.shown /\ MovesOn' /\ Sends'
    BY <1>1, <2>2, <2>5, <2>6, <2>7, SnapshotSent
  <2>9. Types'
    BY <2>3, <2>8 DEF RelayIInv, Types
  <2>10. Phases'
    <3>1. w.sent = SeqOf(w)
      BY <2>1 DEF SeqOf
    <3> QED  BY <1>1, <1>3, <2>1, <2>4, <2>8, <3>1, TodosDiffer DEF RelayIInv, StreamIInv, Phases
  <2>11. Ahead'
    BY <1>3, <2>1, <2>4, AheadTaken
  <2> QED  BY <1>2, <2>8, <2>9, <2>10, <2>11 DEF RelayIInv, StreamIInv
<1>4. CASE ~stream.set
  <2>1. /\ stream' = [stream EXCEPT !.view = v, !.events = Tail(stream.events)]
        /\ UNCHANGED <<queue, client>>
    BY <1>4 DEF render
  <2>2. stream' \in StreamType
    BY <1>1, <2>1 DEF StreamType
  <2>3. /\ stream'.todo = stream.todo /\ stream'.on = stream.on /\ stream'.set = stream.set
        /\ stream'.events = Tail(stream.events) /\ stream'.runs = stream.runs /\ stream'.view = v
    BY <1>1, <2>1 DEF StreamType
  <2>4. Types'
    BY <2>1, <2>2 DEF RelayIInv, Types
  <2>5. Phases'
    BY <1>1, <1>4, <2>1, <2>3, TodosDiffer DEF RelayIInv, StreamIInv, Phases
  <2>6. Ahead'
    BY <1>4, <2>3, AheadTaken
  <2>7. States' = States
    BY <2>1 DEF States
  <2>8. MovesOn' /\ Sends'
    BY <1>4, <2>1, <2>3, <2>7 DEF RelayIInv, StreamIInv, MovesOn, Sends
  <2> QED  BY <1>2, <2>4, <2>5, <2>6, <2>8 DEF RelayIInv, StreamIInv
<1> QED  BY <1>1, <1>3, <1>4

LEMMA RelayEventLemma ==
  ASSUME RelayIInv, RelayEvent
  PROVE  RelayIInv'
<1> DEFINE e == Head(stream.events)
           view == stream.view
           old == \/ e.kind = "state" /\ e.at <= view.state /\ view.sent # 0
                  \/ e.kind = "status" /\ e.at <= view.changes
<1>1. stream.runs /\ stream.events # <<>> /\ queue.open /\ UNCHANGED <<source, cues>>
  BY DEF RelayEvent
<1>2. /\ queue \in QueueType /\ view \in View /\ stream.events \in Seq(Told) /\ e \in Told
      /\ source.seq \in Nat /\ source.changes \in Nat /\ stream.set \in BOOLEAN
      /\ view.state \in Nat /\ view.changes \in Nat /\ view.sent \in Nat
      /\ stream.set => /\ view.sent = SeqOf(view) /\ view.state > 0
                       /\ Comes(stream.events, "status", view.changes, source.changes)
                       /\ Comes(stream.events, "state", view.state, source.seq)
  BY <1>1, Running
<1>3. e.kind \in {"state", "status", "item"} /\ e.at \in Nat
  BY <1>2 DEF Told
<1>4. /\ e.kind = "state" => e.at <= source.seq
      /\ e.kind = "status" => e.at <= source.changes
  <2>1. 1 \in 1..Len(stream.events) /\ stream.events[1] = e
    BY <1>1, <1>2
  <2> QED  BY <2>1 DEF RelayIInv, StreamIInv, Ahead
<1>5. /\ old => stream' = [stream EXCEPT !.events = Tail(@)] /\ UNCHANGED <<queue, client>>
      /\ ~old /\ e.kind = "state" => render([view EXCEPT !.state = e.at])
      /\ ~old /\ e.kind = "status" => render([view EXCEPT !.changes = e.at])
      /\ ~old /\ e.kind = "item" => /\ stream' = [stream EXCEPT !.events = Tail(@)]
                                    /\ try_send([kind |-> "other"]) /\ UNCHANGED client
  BY DEF RelayEvent
<1>6. stream.set => view.sent # 0 /\ view.changes <= source.changes /\ view.state <= source.seq
  BY <1>2 DEF SeqOf, Comes
<1>7. CASE old
  <2>1. States' = States
    BY <1>5, <1>7 DEF States
  <2>2. /\ e.kind = "status" => e.at <= view.changes
        /\ e.kind = "state" => e.at <= view.state
    BY <1>7
  <2> QED  BY <1>1, <1>2, <1>5, <1>7, <2>1, <2>2, Passed
<1>8. CASE ~old /\ e.kind = "state"
  <2> DEFINE v == [view EXCEPT !.state = e.at]
  <2>1. v \in View /\ v.state = e.at /\ v.changes = view.changes /\ v.sent = view.sent
    BY <1>2, <1>3 DEF View
  <2>2. render(v)
    BY <1>5, <1>8
  <2> HIDE DEF v
  <2>3. ASSUME stream.set
        PROVE  /\ SeqOf(v) > view.sent /\ v.state > 0
               /\ Comes(Tail(stream.events), "status", v.changes, source.changes)
               /\ Comes(Tail(stream.events), "state", v.state, source.seq)
    <3>1. e.at > view.state
      BY <1>2, <1>3, <1>6, <1>8, <2>3
    <3>2. SeqOf(v) > view.sent /\ v.state > 0
      BY <1>2, <1>3, <2>1, <2>3, <3>1 DEF SeqOf
    <3>3. view.changes <= view.changes /\ view.state <= e.at /\ e.at <= e.at
      BY <1>2, <1>3, <3>1
    <3>4. Comes(Tail(stream.events), "status", v.changes, source.changes)
      BY <1>1, <1>2, <1>6, <1>8, <2>1, <2>3, <3>3, StillComes
    <3>5. Comes(Tail(stream.events), "state", v.state, source.seq)
      BY <1>1, <1>2, <1>3, <1>4, <1>8, <2>1, <2>3, <3>3, StillComes
    <3> QED  BY <3>2, <3>4, <3>5
  <2> QED  BY <1>1, <2>1, <2>2, <2>3, Rendered
<1>9. CASE ~old /\ e.kind = "status"
  <2> DEFINE v == [view EXCEPT !.changes = e.at]
  <2>1. v \in View /\ v.state = view.state /\ v.changes = e.at /\ v.sent = view.sent
    BY <1>2, <1>3 DEF View
  <2>2. render(v)
    BY <1>5, <1>9
  <2> HIDE DEF v
  <2>3. ASSUME stream.set
        PROVE  /\ SeqOf(v) > view.sent /\ v.state > 0
               /\ Comes(Tail(stream.events), "status", v.changes, source.changes)
               /\ Comes(Tail(stream.events), "state", v.state, source.seq)
    <3>1. e.at > view.changes
      BY <1>2, <1>3, <1>9
    <3>2. SeqOf(v) > view.sent /\ v.state > 0
      BY <1>2, <1>3, <2>1, <2>3, <3>1 DEF SeqOf
    <3>3. view.state <= view.state /\ view.changes <= e.at /\ e.at <= e.at
      BY <1>2, <1>3, <3>1
    <3>4. Comes(Tail(stream.events), "status", v.changes, source.changes)
      BY <1>1, <1>2, <1>3, <1>4, <1>9, <2>1, <2>3, <3>3, StillComes
    <3>5. Comes(Tail(stream.events), "state", v.state, source.seq)
      BY <1>1, <1>2, <1>6, <1>9, <2>1, <2>3, <3>3, StillComes
    <3> QED  BY <3>2, <3>4, <3>5
  <2> QED  BY <1>1, <2>1, <2>2, <2>3, Rendered
<1>10. CASE ~old /\ e.kind = "item"
  <2>1. /\ queue' \in QueueType /\ queue'.open = queue.open
        /\ States' = States /\ \A i \in States : queue'.events[i] = queue.events[i]
    <3>1. [kind |-> "other"] \in [kind : {"other", "cue"}]
      OBVIOUS
    <3> QED  BY <1>2, <1>5, <1>10, <3>1, OtherQueued
  <2> QED  BY <1>1, <1>5, <1>10, <2>1, Passed
<1> QED  BY <1>3, <1>7, <1>8, <1>9, <1>10

(* The client is gone: nothing is owed to it.                              *)
LEMMA RelayEndsLemma ==
  ASSUME RelayIInv, RelayEnds
  PROVE  RelayIInv'
<1>1. stream \in StreamType /\ queue \in QueueType
  BY DEF RelayIInv, Types
<1>2. /\ stream' = [stream EXCEPT !.runs = FALSE, !.on = FALSE, !.events = <<>>]
      /\ UNCHANGED <<source, queue, client, cues>> /\ stream.runs /\ ~queue.open
  BY DEF RelayEnds
<1>3. stream' \in StreamType
  <2>1. <<>> \in Seq(Told)
    OBVIOUS
  <2> QED  BY <1>1, <1>2, <2>1 DEF StreamType
<1>4. /\ stream'.todo = stream.todo /\ stream'.set = stream.set /\ stream'.events = <<>>
      /\ ~stream'.runs /\ stream'.view = stream.view
  BY <1>1, <1>2 DEF StreamType
<1>5. Types'
  BY <1>2, <1>3 DEF RelayIInv, Types
<1>6. Phases' /\ Ahead'
  BY <1>2, <1>4 DEF RelayIInv, StreamIInv, Phases, Ahead
<1>7. States' = States
  BY <1>2 DEF States
<1>8. MovesOn' /\ Sends'
  BY <1>2, <1>4, <1>7 DEF RelayIInv, StreamIInv, MovesOn, Sends
<1>9. RateComes'
  BY <1>2, SameCues DEF RelayIInv
<1> QED  BY <1>5, <1>6, <1>8, <1>9 DEF RelayIInv, StreamIInv

LEMMA LeaveLemma ==
  ASSUME RelayIInv, Leave
  PROVE  RelayIInv'
<1>1. queue' = [events |-> <<>>, open |-> FALSE] /\ UNCHANGED <<source, stream, client, cues>>
  BY DEF Leave
<1>2. Types'
  BY <1>1 DEF RelayIInv, Types, QueueType
<1>3. Phases' /\ Ahead'
  BY <1>1 DEF RelayIInv, StreamIInv, Phases, Ahead
<1>4. States' = {}
  BY <1>1 DEF States
<1>5. MovesOn' /\ Sends'
  BY <1>1, <1>4 DEF RelayIInv, StreamIInv, MovesOn, Sends
<1>6. RateComes'
  BY <1>1, SameCues DEF RelayIInv
<1> QED  BY <1>2, <1>3, <1>5, <1>6 DEF RelayIInv, StreamIInv

(* The client receives the oldest event queued.                            *)
LEMMA ReceiveLemma ==
  ASSUME RelayIInv, Receive
  PROVE  RelayIInv'
<1> DEFINE e == Head(queue.events)
<1>1. /\ queue \in QueueType /\ client \in ClientType /\ stream \in StreamType
      /\ queue.events \in Seq(Sent) /\ stream.view.sent \in Nat /\ client.shown.seq \in Nat
  BY DEF RelayIInv, Types, QueueType, StreamType, View, ClientType, Shown
<1>2. /\ stream.runs /\ queue.open /\ queue.events # <<>>
      /\ queue' = [queue EXCEPT !.events = Tail(@)] /\ UNCHANGED <<source, stream, cues>>
      /\ client' = IF e.kind = "state"
                   THEN [client EXCEPT !.shown = [seq |-> e.seq, state |-> e.state,
                                                  changes |-> e.changes]]
                   ELSE client
  BY DEF Receive
<1>3. /\ Tail(queue.events) \in Seq(Sent) /\ e \in Sent /\ 1 \in 1..Len(queue.events)
      /\ queue.events[1] = e /\ Len(Tail(queue.events)) = Len(queue.events) - 1
      /\ Len(queue.events) \in Nat
      /\ \A i \in 1..Len(Tail(queue.events)) : /\ i + 1 \in 1..Len(queue.events)
                                               /\ Tail(queue.events)[i] = queue.events[i + 1]
  BY <1>1, <1>2
<1>4. queue' \in QueueType /\ queue'.open = queue.open /\ queue'.events = Tail(queue.events)
  BY <1>1, <1>2, <1>3 DEF QueueType
<1> HIDE DEF e
<1>5. /\ \A i \in States' : i \in Nat /\ i + 1 \in States /\ queue'.events[i] = queue.events[i + 1]
      /\ \A i \in States : i # 1 => i - 1 \in States' /\ i \in Nat
      /\ 1 \in States <=> e.kind = "state"
  BY <1>3, <1>4 DEF States
<1>6. e.kind = "state" => e \in Snapshot
  BY <1>3 DEF Sent
<1>7. client' \in ClientType
  <2>1. e.kind = "state" => [seq |-> e.seq, state |-> e.state, changes |-> e.changes] \in Shown
    BY <1>6 DEF Snapshot, Shown
  <2> QED  BY <1>1, <1>2, <2>1 DEF ClientType
<1>8. /\ client'.behind = client.behind
      /\ e.kind = "state" => /\ client'.shown.seq = e.seq /\ client'.shown.state = e.state
                             /\ client'.shown.changes = e.changes
      /\ e.kind # "state" => client'.shown = client.shown
  BY <1>1, <1>2 DEF ClientType
<1>9. Types'
  BY <1>2, <1>4, <1>7 DEF RelayIInv, Types
<1>10. Phases'
  <2>1. ~stream.set \/ stream.todo # <<>> => States = {} /\ client.shown = NothingShown
    BY DEF RelayIInv, StreamIInv, Phases, States
  <2>2. States = {} => States' = {} /\ client'.shown = client.shown
    BY <1>5, <1>8
  <2>3. States' = {} => \A i \in 1..Len(queue'.events) : queue'.events[i].kind # "state"
    BY DEF States
  <2> QED  BY <1>2, <1>4, <2>1, <2>2, <2>3 DEF RelayIInv, StreamIInv, Phases
<1>11. Ahead'
  BY <1>2, <1>4 DEF RelayIInv, StreamIInv, Ahead
<1>12. /\ client.shown.seq <= stream.view.sent
       /\ \A i \in States : /\ queue.events[i].seq > client.shown.seq
                            /\ queue.events[i].seq <= stream.view.sent
                            /\ \A j \in States : j < i => queue.events[j].seq < queue.events[i].seq
  BY DEF RelayIInv, StreamIInv, MovesOn
<1>13. MovesOn'
  <2>1. client'.shown.seq <= stream'.view.sent
    BY <1>2, <1>3, <1>5, <1>8, <1>12
  <2>2. ASSUME NEW i \in States'
        PROVE  /\ queue'.events[i].seq > client'.shown.seq
               /\ queue'.events[i].seq <= stream'.view.sent
               /\ \A j \in States' : j < i => queue'.events[j].seq < queue'.events[i].seq
    <3>1. queue.events[i + 1].seq \in Nat /\ i \in Nat /\ i + 1 \in States /\ i \in 1..Len(queue'.events)
      BY <1>1, <1>5, StatesTyped DEF States
    <3>2. queue'.events[i].seq > client'.shown.seq
      <4>1. CASE e.kind = "state"
        <5>1. 1 \in States /\ 1 < i + 1 /\ queue.events[1].seq \in Nat
          BY <1>1, <1>5, <3>1, <4>1, StatesTyped
        <5> QED  BY <1>3, <1>5, <1>8, <1>12, <3>1, <4>1, <5>1
      <4>2. CASE e.kind # "state"
        BY <1>5, <1>8, <1>12, <3>1, <4>2
      <4> QED  BY <4>1, <4>2
    <3>3. queue'.events[i].seq <= stream'.view.sent
      BY <1>2, <1>5, <1>12, <3>1
    <3>4. ASSUME NEW j \in States', j < i
          PROVE  queue'.events[j].seq < queue'.events[i].seq
      <4>1. j + 1 \in States /\ j + 1 < i + 1 /\ queue'.events[j] = queue.events[j + 1]
        BY <1>5, <3>1, <3>4
      <4> QED  BY <1>5, <1>12, <3>1, <4>1
    <3> QED  BY <3>2, <3>3, <3>4
  <2> QED  BY <2>1, <2>2 DEF MovesOn
<1>14. Sends'
  <2> SUFFICES ASSUME stream.set, ~client.behind
               PROVE  /\ States' = {} => Tells(client.shown)'
                      /\ \A i \in States' : (\A j \in States' : j <= i) => Tells(queue.events[i])'
    BY <1>2, <1>4, <1>8 DEF Sends
  <2>1. /\ States = {} => Tells(client.shown)
        /\ \A i \in States : (\A j \in States : j <= i) => Tells(queue.events[i])
    BY <1>2 DEF RelayIInv, StreamIInv, Sends
  <2>2. ASSUME States' = {}
        PROVE  Tells(client.shown)'
    <3>1. CASE e.kind = "state"
      <4>1. 1 \in States /\ \A j \in States : j = 1
        BY <1>5, <2>2, <3>1
      <4>2. Tells(queue.events[1])
        BY <2>1, <4>1
      <4> QED  BY <1>2, <1>3, <1>8, <3>1, <4>2 DEF Tells
    <3>2. CASE e.kind # "state"
      BY <1>2, <1>5, <1>8, <2>1, <2>2, <3>2 DEF Tells
    <3> QED  BY <3>1, <3>2
  <2>3. ASSUME NEW i \in States', \A j \in States' : j <= i
        PROVE  Tells(queue.events[i])'
    <3>1. i \in Nat /\ i + 1 \in States
      BY <1>5
    <3>2. \A j \in States : j <= i + 1
      <4> SUFFICES ASSUME NEW j \in States PROVE j <= i + 1
        OBVIOUS
      <4>1. CASE j = 1
        BY <3>1, <4>1
      <4>2. CASE j # 1
        <5>1. j \in Nat /\ j - 1 \in States'
          BY <1>5, <4>2
        <5> QED  BY <2>3, <3>1, <5>1
      <4> QED  BY <4>1, <4>2
    <3>3. Tells(queue.events[i + 1])
      BY <2>1, <3>1, <3>2
    <3> QED  BY <1>2, <1>5, <3>3 DEF Tells
  <2> QED  BY <2>2, <2>3
<1>15. RateComes'
  BY <1>2, SameCues DEF RelayIInv
<1> QED  BY <1>9, <1>10, <1>11, <1>13, <1>14, <1>15 DEF RelayIInv, StreamIInv

-----------------------------------------------------------------------------
(* Cues.                                                                   *)

(* A step of the cues alone.                                               *)
LEMMA SameStream ==
  ASSUME RelayIInv, UNCHANGED <<source, stream, queue, client>>, cues' \in CuesType, RateComes'
  PROVE  RelayIInv'
<1>1. Types'
  BY DEF RelayIInv, Types
<1>2. States' = States
  BY DEF States
<1>3. StreamIInv'
  BY <1>2 DEF RelayIInv, StreamIInv, Phases, Ahead, MovesOn, Sends, Tells
<1> QED  BY <1>1, <1>3 DEF RelayIInv

LEMMA CuesTyped ==
  ASSUME cues \in CuesType
  PROVE  /\ cues.waiting \in Seq(Cue) /\ cues.speaking \in Seq(Cue) /\ cues.told \in Seq(Nat)
         /\ cues.n \in Nat /\ cues.pushed \in Nat /\ cues.last \in Nat /\ cues.closed \in BOOLEAN
BY DEF CuesType

LEMMA PushLemma ==
  ASSUME RelayIInv, NEW key \in Keys, push(key)
  PROVE  RelayIInv'
<1> DEFINE cue == [key |-> key, value |-> cues.n + 1]
           waiting == IF cues.closed THEN cues.waiting ELSE Append(cues.waiting, cue)
           pushed == IF key = "rate" /\ ~cues.closed THEN cues.n + 1 ELSE cues.pushed
           n == cues.n + 1
<1>1. cues \in CuesType
  BY DEF RelayIInv, Types
<1>2. cue \in Cue /\ cue.key = key /\ cue.value = cues.n + 1
  BY <1>1, CuesTyped DEF Cue
<1>3. waiting \in Seq(Cue) /\ pushed \in Nat /\ n \in Nat
  <2> HIDE DEF cue
  <2> QED  BY <1>1, <1>2, CuesTyped
<1>4. /\ cues' = [cues EXCEPT !.n = n, !.pushed = pushed, !.waiting = waiting]
      /\ UNCHANGED <<source, stream, queue, client>>
  BY DEF push
<1>5. /\ cues.closed => waiting = cues.waiting /\ pushed = cues.pushed
      /\ ~cues.closed => waiting = Append(cues.waiting, cue)
      /\ ~cues.closed => pushed = IF key = "rate" THEN cue.value ELSE cues.pushed
  BY <1>2
<1> HIDE DEF waiting, pushed, n, cue
<1>6. cues' \in CuesType
  BY <1>1, <1>3, <1>4 DEF CuesType
<1>7. /\ cues'.waiting = waiting /\ cues'.pushed = pushed /\ cues'.speaking = cues.speaking
      /\ cues'.last = cues.last /\ cues'.closed = cues.closed
  BY <1>1, <1>4 DEF CuesType
<1>8. RateComes'
  <2>1. CASE cues.closed
    BY <1>7, <2>1 DEF RelayIInv, RateComes
  <2>2. CASE ~cues.closed
    <3> DEFINE m == Len(cues.waiting) + 1
    <3>1. /\ Len(cues'.waiting) = m /\ Len(cues.waiting) \in Nat /\ cues'.waiting[m] = cue
          /\ \A i \in 1..Len(cues.waiting) : cues'.waiting[i] = cues.waiting[i]
      BY <1>1, <1>2, <1>5, <1>7, <2>2, CuesTyped, SMTT(30)
    <3>2. Speaks' <=> Speaks
      BY <1>7 DEF Speaks
    <3>3. CASE key = "rate"
      <4>1. Rates' = Rates \cup {m}
        BY <1>2, <3>1, <3>3 DEF Rates
      <4>2. \A i \in Rates : i \in Nat /\ i < m
        BY <3>1 DEF Rates
      <4>3. \A i \in Rates' : (\A j \in Rates' : j <= i) => cues'.waiting[i].value = cues'.pushed
        BY <1>5, <1>7, <2>2, <3>1, <3>3, <4>1, <4>2
      <4> QED  BY <1>7, <4>1, <4>3 DEF RelayIInv, RateComes
    <3>4. CASE key # "rate"
      <4>1. Rates' = Rates
        BY <1>2, <3>1, <3>4 DEF Rates
      <4>2. \A i \in Rates : cues'.waiting[i] = cues.waiting[i]
        BY <3>1 DEF Rates
      <4>3. cues'.pushed = cues.pushed
        BY <1>5, <1>7, <2>2, <3>4
      <4> QED  BY <1>7, <3>2, <4>1, <4>2, <4>3 DEF RelayIInv, RateComes
    <3> QED  BY <3>3, <3>4
  <2> QED  BY <2>1, <2>2
<1> QED  BY <1>4, <1>6, <1>8, SameStream

LEMMA TakeCueLemma ==
  ASSUME RelayIInv, TakeCue
  PROVE  RelayIInv'
<1> DEFINE cue == Head(cues.waiting)
           later == Tail(cues.waiting)
           speaking == IF superseded(cue, later) THEN <<>> ELSE <<cue>>
<1>1. cues \in CuesType /\ cues.waiting \in Seq(Cue)
  BY CuesTyped DEF RelayIInv, Types
<1>2. /\ cues.waiting # <<>> /\ cues.speaking = <<>> /\ ~cues.closed
      /\ cues' = [cues EXCEPT !.waiting = later, !.speaking = speaking]
      /\ UNCHANGED <<source, stream, queue, client>>
  BY DEF TakeCue
<1>3. /\ cue \in Cue /\ later \in Seq(Cue) /\ 1 \in 1..Len(cues.waiting) /\ cues.waiting[1] = cue
      /\ Len(later) = Len(cues.waiting) - 1 /\ Len(cues.waiting) \in Nat
      /\ \A i \in 1..Len(later) : i + 1 \in 1..Len(cues.waiting) /\ later[i] = cues.waiting[i + 1]
  BY <1>1, <1>2
<1> HIDE DEF cue, later
<1>4. speaking \in Seq(Cue) /\ Len(speaking) <= 1
  BY <1>3
<1>5. superseded(cue, later) => speaking = <<>>
  OBVIOUS
<1>6. ~superseded(cue, later) => speaking # <<>> /\ Head(speaking) = cue
  OBVIOUS
<1> HIDE DEF speaking
<1>7. cues' \in CuesType
  BY <1>1, <1>2, <1>3, <1>4 DEF CuesType
<1>8. /\ cues'.waiting = later /\ cues'.speaking = speaking /\ cues'.pushed = cues.pushed
      /\ cues'.last = cues.last /\ cues'.closed = cues.closed
  BY <1>1, <1>2 DEF CuesType
<1>9. /\ \A i \in Rates' : i \in Nat /\ i + 1 \in Rates /\ cues'.waiting[i] = cues.waiting[i + 1]
      /\ \A i \in Rates : i \in Nat /\ (i # 1 => i - 1 \in Rates')
      /\ 1 \in Rates <=> cue.key = "rate"
  BY <1>3, <1>8 DEF Rates
<1>10. /\ \A i \in Rates : (\A j \in Rates : j <= i) => cues.waiting[i].value = cues.pushed
       /\ Rates = {} => cues.last = cues.pushed
  BY <1>2 DEF RelayIInv, RateComes, Speaks
<1>11. cue.key \in {"rate", "none"}
  BY <1>3 DEF Cue, Keys
<1>12. superseded(cue, later) <=> cue.key = "rate" /\ Rates' # {}
  BY <1>8, <1>11 DEF superseded, Rates
<1>13. Speaks' <=> cue.key = "rate" /\ Rates' = {}
  BY <1>5, <1>6, <1>8, <1>11, <1>12 DEF Speaks
<1>14. ASSUME NEW i \in Rates', \A j \in Rates' : j <= i
       PROVE  cues'.waiting[i].value = cues'.pushed
  <2>1. i \in Nat /\ i + 1 \in Rates
    BY <1>9
  <2>2. \A j \in Rates : j <= i + 1
    <3> SUFFICES ASSUME NEW j \in Rates PROVE j <= i + 1
      OBVIOUS
    <3>1. CASE j = 1
      BY <2>1, <3>1
    <3>2. CASE j # 1
      <4>1. j \in Nat /\ j - 1 \in Rates'
        BY <1>9, <3>2
      <4> QED  BY <1>14, <2>1, <4>1
    <3> QED  BY <3>1, <3>2
  <2> QED  BY <1>8, <1>9, <1>10, <2>1, <2>2
<1>15. ASSUME Rates' = {}, Speaks'
       PROVE  Head(cues'.speaking).value = cues'.pushed
  <2>1. 1 \in Rates /\ \A j \in Rates : j = 1
    BY <1>9, <1>13, <1>15
  <2>2. cue.value = cues.pushed
    BY <1>3, <1>10, <2>1
  <2> QED  BY <1>6, <1>8, <1>12, <1>15, <2>2
<1>16. ASSUME Rates' = {}, ~Speaks'
       PROVE  cues'.last = cues'.pushed
  <2>1. Rates = {}
    BY <1>9, <1>13, <1>16
  <2> QED  BY <1>8, <1>10, <2>1
<1>17. RateComes'
  BY <1>4, <1>8, <1>14, <1>15, <1>16 DEF RateComes
<1> QED  BY <1>2, <1>7, <1>17, SameStream

LEMMA SayLemma ==
  ASSUME RelayIInv, Say
  PROVE  RelayIInv'
<1> DEFINE cue == Head(cues.speaking)
           last == IF cue.key = "rate" THEN cue.value ELSE cues.last
           told == IF cues.on THEN Append(cues.told, cue.value) ELSE cues.told
<1>1. cues \in CuesType /\ cues.speaking \in Seq(Cue) /\ cues.told \in Seq(Nat) /\ cues.last \in Nat
  BY CuesTyped DEF RelayIInv, Types
<1>2. /\ cues.speaking # <<>>
      /\ cues' = [cues EXCEPT !.speaking = <<>>, !.last = last, !.told = told]
      /\ UNCHANGED <<source, stream, queue, client>>
  BY DEF Say
<1>3. cue \in Cue
  BY <1>1, <1>2
<1>4. cue.value \in Nat
  BY <1>3 DEF Cue
<1>5. last \in Nat /\ told \in Seq(Nat) /\ <<>> \in Seq(Cue)
  <2> HIDE DEF cue
  <2> QED  BY <1>1, <1>4
<1>6. Speaks => last = cue.value
  BY DEF Speaks
<1>7. ~Speaks => last = cues.last
  BY <1>2 DEF Speaks
<1> HIDE DEF last, told
<1>8. cues' \in CuesType
  BY <1>1, <1>2, <1>5 DEF CuesType
<1>9. /\ cues'.waiting = cues.waiting /\ cues'.speaking = <<>> /\ cues'.pushed = cues.pushed
      /\ cues'.last = last /\ cues'.closed = cues.closed
  BY <1>1, <1>2 DEF CuesType
<1>10. Rates' = Rates /\ ~Speaks' /\ Len(cues'.speaking) <= 1
  BY <1>9 DEF Rates, Speaks
<1>11. RateComes'
  BY <1>6, <1>7, <1>9, <1>10 DEF RelayIInv, RateComes
<1> QED  BY <1>2, <1>8, <1>11, SameStream

LEMMA CloseCuesLemma ==
  ASSUME RelayIInv, CloseCues
  PROVE  RelayIInv'
<1>1. cues \in CuesType
  BY DEF RelayIInv, Types
<1>2. /\ cues' = [cues EXCEPT !.closed = TRUE, !.waiting = <<>>]
      /\ UNCHANGED <<source, stream, queue, client>>
  BY DEF CloseCues
<1>3. <<>> \in Seq(Cue)
  OBVIOUS
<1>4. cues' \in CuesType /\ cues'.closed /\ cues'.speaking = cues.speaking
  BY <1>1, <1>2, <1>3 DEF CuesType
<1>5. RateComes'
  BY <1>4 DEF RelayIInv, RateComes
<1> QED  BY <1>2, <1>4, <1>5, SameStream

(* What the cue thread of the stream does.                                 *)
LEMMA CueRelayLemma ==
  ASSUME RelayIInv, RelayCue \/ CuesEnd
  PROVE  RelayIInv'
<1>1. cues \in CuesType /\ queue \in QueueType /\ cues.told \in Seq(Nat)
  BY CuesTyped DEF RelayIInv, Types
<1>2. CASE CuesEnd
  <2>1. /\ cues' = [cues EXCEPT !.on = FALSE, !.told = <<>>]
        /\ UNCHANGED <<source, stream, queue, client>>
    BY <1>2 DEF CuesEnd
  <2>2. <<>> \in Seq(Nat)
    OBVIOUS
  <2>3. cues' \in CuesType
    BY <1>1, <2>1, <2>2 DEF CuesType
  <2>4. /\ cues'.waiting = cues.waiting /\ cues'.speaking = cues.speaking /\ cues'.last = cues.last
        /\ cues'.pushed = cues.pushed /\ cues'.closed = cues.closed
    BY <1>1, <2>1 DEF CuesType
  <2>5. RateComes'
    BY <2>4, SameCues DEF RelayIInv
  <2> QED  BY <2>1, <2>3, <2>5, SameStream
<1>3. CASE RelayCue
  <2>1. /\ cues' = [cues EXCEPT !.told = Tail(cues.told)] /\ cues.told # <<>>
        /\ try_send([kind |-> "cue"]) /\ UNCHANGED <<source, stream, client>>
    BY <1>3 DEF RelayCue
  <2>2. Tail(cues.told) \in Seq(Nat)
    BY <1>1, <2>1
  <2>3. cues' \in CuesType
    BY <1>1, <2>1, <2>2 DEF CuesType
  <2>4. /\ cues'.waiting = cues.waiting /\ cues'.speaking = cues.speaking /\ cues'.last = cues.last
        /\ cues'.pushed = cues.pushed /\ cues'.closed = cues.closed
    BY <1>1, <2>1 DEF CuesType
  <2>5. RateComes'
    BY <2>4, SameCues DEF RelayIInv
  <2>6. /\ queue' \in QueueType /\ queue'.open = queue.open /\ (~queue.open => queue' = queue)
        /\ States' = States /\ \A i \in States : queue'.events[i] = queue.events[i]
    <3>1. [kind |-> "cue"] \in [kind : {"other", "cue"}]
      OBVIOUS
    <3> QED  BY <1>1, <2>1, <3>1, OtherQueued
  <2>7. Types'
    BY <2>1, <2>3, <2>6 DEF RelayIInv, Types
  <2>8. Phases'
    <3>1. States = {} <=> \A i \in 1..Len(queue.events) : queue.events[i].kind # "state"
      BY DEF States
    <3>2. States' = {} <=> \A i \in 1..Len(queue'.events) : queue'.events[i].kind # "state"
      BY DEF States
    <3> QED  BY <2>1, <2>6, <3>1, <3>2 DEF RelayIInv, StreamIInv, Phases
  <2>9. Ahead' /\ MovesOn' /\ Sends'
    BY <2>1, <2>6 DEF RelayIInv, StreamIInv, Ahead, MovesOn, Sends, Tells
  <2> QED  BY <2>5, <2>7, <2>8, <2>9 DEF RelayIInv, StreamIInv
<1> QED  BY <1>2, <1>3

-----------------------------------------------------------------------------
(* Of the states queued one is the newest: the one with the fewest events  *)
(* behind it.                                                              *)
LEMMA GreatestState ==
  ASSUME Len(queue.events) \in Nat, States # {}
  PROVE  \E i \in States : \A j \in States : j <= i
<1> DEFINE len == Len(queue.events)
           after == {len - i : i \in States}
<1>1. \A i \in States : i \in Nat /\ len - i \in Nat
  BY DEF States
<1> HIDE DEF len
<1>2. after \in SUBSET Nat /\ after # {}
  BY <1>1
<1>3. PICK x \in after : \A y \in after : ~ (<<y, x>> \in OpToRel(<, Nat))
  <2> HIDE DEF after
  <2> QED  BY <1>2, NatLessThanWellFounded, WFMin
<1>4. \A y \in after : ~(y < x)
  <2>1. \A y \in after : <<y, x>> \in OpToRel(<, Nat) <=> y < x
    BY <1>2 DEF OpToRel
  <2> QED  BY <1>3, <2>1, Zenon
<1>5. PICK i \in States : x = len - i
  BY <1>3
<1>6. \A j \in States : ~(len - j < len - i)
  BY <1>4, <1>5
<1>7. len \in Nat
  BY DEF len
<1>8. \A j \in States : j <= i
  BY <1>1, <1>6, <1>7
<1> QED  BY <1>5, <1>8

-----------------------------------------------------------------------------
LEMMA RelayNextLemma == RelayIInv /\ [RelayNext]_relayVars => RelayIInv'
<1> SUFFICES ASSUME RelayIInv, [RelayNext]_relayVars PROVE RelayIInv'
  OBVIOUS
<1>1. CASE ReaderTells
  BY <1>1, ReaderTellsLemma
<1>2. CASE Subscribes
  BY <1>2, SubscribeEventsLemma, SubscribeCuesLemma, ReadStatusLemma, ReadStateLemma, FirstLemma
  DEF Subscribes
<1>3. CASE Relays
  BY <1>3, RelayEventLemma, RelayEndsLemma, ReceiveLemma, LeaveLemma DEF Relays
<1>4. CASE Cueing
  BY <1>4, PushLemma, TakeCueLemma, SayLemma, CloseCuesLemma, CueRelayLemma DEF Cueing
<1>5. CASE UNCHANGED relayVars
  <2>1. UNCHANGED <<source, stream, queue, client, cues>>
    BY <1>5 DEF relayVars
  <2>2. cues' \in CuesType /\ RateComes'
    BY <2>1, SameCues DEF RelayIInv, Types
  <2> QED  BY <2>1, <2>2, SameStream
<1> QED  BY <1>1, <1>2, <1>3, <1>4, <1>5 DEF RelayNext

(* A stream that has caught up has shown its client the reader's state and *)
(* the engine's status as they are, unless the queue was full for it; what *)
(* is queued for a client only moves on; the last rate spoken is the last  *)
(* one pushed (events.rs, cues.rs).  For any queue and number of changes.  *)
THEOREM RelayClientCurrent == RelaySpec => []ClientCurrent
<1>1. RelayIInv => ClientCurrent
  <2> SUFFICES ASSUME RelayIInv PROVE ClientCurrent
    OBVIOUS
  <2> DEFINE newest == CHOOSE i \in States : \A j \in States : j <= i
             shown == IF States = {} THEN client.shown ELSE queue.events[newest]
  <2>1. queue \in QueueType /\ Len(queue.events) \in Nat
    BY DEF RelayIInv, Types, QueueType
  <2>2. States # {} => newest \in States /\ \A j \in States : j <= newest
    <3>1. States # {} => \E i \in States : \A j \in States : j <= i
      BY <2>1, GreatestState
    <3> QED  BY <3>1
  <2>3. ASSUME stream.runs, stream.set, stream.events = <<>>, queue.open, ~client.behind
        PROVE  shown.state = source.seq /\ shown.changes = source.changes
    <3>1. Tells(shown)
      BY <2>2, <2>3 DEF RelayIInv, StreamIInv, Sends
    <3>2. stream.todo = <<>>
      BY <2>3 DEF RelayIInv, StreamIInv, Phases
    <3>3. /\ Comes(stream.events, "status", stream.view.changes, source.changes)
          /\ Comes(stream.events, "state", stream.view.state, source.seq)
      BY <2>3, <3>2 DEF RelayIInv, StreamIInv, Ahead
    <3>4. stream.view.changes = source.changes /\ stream.view.state = source.seq
      BY <2>3, <3>3 DEF Comes
    <3> QED  BY <3>1, <3>4 DEF Tells
  <2>4. \A i \in States : /\ queue.events[i].seq > client.shown.seq
                          /\ \A j \in States : j < i => queue.events[j].seq < queue.events[i].seq
    BY DEF RelayIInv, StreamIInv, MovesOn
  <2>5. (cues.waiting = <<>> /\ cues.speaking = <<>> /\ ~cues.closed) => cues.last = cues.pushed
    BY DEF RelayIInv, RateComes, Rates, Speaks
  <2> QED  BY <2>3, <2>4, <2>5, Zenon DEF ClientCurrent, States
<1> QED  BY <1>1, RelayInitLemma, RelayNextLemma, PTL DEF RelaySpec

-----------------------------------------------------------------------------
(* The hotkeys.  What a thread is about, and whom it waits for or what it  *)
(* was asked.                                                              *)
Kind(p) == IF p = <<>> THEN "idle"
           ELSE IF Head(p)[1] = "join" THEN IF Len(p) = 3 THEN "joins" ELSE "ends"
           ELSE Head(p)[1]
About(p) == Head(p)[2]
K(t) == Kind(setter[t])
W(t) == About(setter[t])

Programs ==
  {<<>>} \cup {<<<<"check", c>>>> : c \in Changes} \cup {<<<<"save", c>>>> : c \in Changes}
  \cup {<<Step(s)>> : s \in {"reload", "arm", "disarm", "ready", "unlock"}}
  \cup {start_hotkeys}
  \cup {<<<<"join", n>>>> \o start_hotkeys : n \in Nat}
  \cup {<<<<"join", n>>, Step("unlock")>> : n \in Nat}

Binding == [action : Actions, chord : Chords]
Current(n) == n # 0 /\ (n = ext.slot \/ (n = Len(pumps) /\ \E t \in Setters : K(t) = "ready"))
Joined(n) == \E t \in Setters : K(t) \in {"joins", "ends"} /\ W(t) = n
Locked(t) == K(t) \in {"joins", "start", "ready", "ends", "unlock"}

PumpShape(p) ==
  /\ p = [at |-> p.at, todo |-> p.todo, bindings |-> p.bindings, ids |-> p.ids,
          errors |-> p.errors, messages |-> p.messages, recent |-> p.recent,
          presses |-> p.presses, dispatch |-> p.dispatch]
  /\ p.todo \in Seq(Binding) /\ p.bindings \in Seq(Binding) /\ p.ids \subseteq Actions

Threads == setter = [t \in Setters |-> setter[t]] /\ \A t \in Setters : setter[t] \in Programs
PumpsShape ==
  /\ Len(pumps) \in Nat /\ pumps = [n \in 1..Len(pumps) |-> pumps[n]]
  /\ \A n \in 1..Len(pumps) : PumpShape(pumps[n])
ExtForm == ext = [armed |-> ext.armed, shut |-> ext.shut, set |-> ext.set,
                  transition |-> ext.transition, slot |-> ext.slot]
ExtShape ==
  /\ ext = [armed |-> ext.armed, shut |-> ext.shut, set |-> ext.set,
            transition |-> ext.transition, slot |-> ext.slot]
  /\ ext.armed \in BOOLEAN /\ ext.slot \in 0..Len(pumps)
KeymapShape == keymap = [file |-> keymap.file, edited |-> keymap.edited, hint |-> keymap.hint]
OsShape == /\ os = [owner |-> os.owner, down |-> os.down]
           /\ os.owner = [c \in Chords |-> os.owner[c]]
KeyShape == Threads /\ PumpsShape /\ ExtShape /\ KeymapShape /\ OsShape

(* Who holds the two locks, and what the slot says of it.                  *)
Turns ==
  /\ ext.transition \in Setters \cup {Nobody}
  /\ \A t \in Setters :
       /\ Locked(t) <=> ext.transition = t
       /\ K(t) \in {"joins", "start", "ready"} => ext.armed
       /\ K(t) \in {"ends", "unlock"} => ~ext.armed
       /\ K(t) \in {"joins", "ends"} => W(t) \in 1..Len(pumps)
       /\ K(t) = "ready" => Len(pumps) # 0
       /\ K(t) = "save" => ext.set = t
  /\ ext.transition = Nobody => (ext.armed <=> ext.slot # 0)
  /\ ext.transition # Nobody => ext.slot = 0

(* A pump thread that has not ended is the current one or joined; only the *)
(* current one has chords to try, while its start is awaited.              *)
Alive ==
  \A n \in 1..Len(pumps) :
    /\ pumps[n].at # "gone" => Current(n) \/ Joined(n)
    /\ Current(n) => pumps[n].at = "waiting" /\ pumps[n].messages \in Seq(Actions)
    /\ pumps[n].todo # <<>> => n = Len(pumps) /\ \E t \in Setters : K(t) = "ready"

(* A chord of ours belongs to a thread that has not ended and is bound.    *)
OwnedBy(c, n, a) == /\ os.owner[c] = <<n, a>> /\ pumps[n].at # "gone" /\ a \in pumps[n].ids
                    /\ \E i \in 1..Len(pumps[n].bindings) :
                          pumps[n].bindings[i] = [action |-> a, chord |-> c]
Owned == \A c \in Chords : \/ os.owner[c] \in {Free, Other}
                           \/ \E n \in 1..Len(pumps), a \in Actions : OwnedBy(c, n, a)

(* Every binding of the current thread is to be tried, registered, or      *)
(* refused for a reason.                                                   *)
Settled(p, n, i) ==
  LET b == p.bindings[i]
  IN  \/ \E j \in 1..Len(p.todo) : p.todo[j] = b
      \/ os.owner[b.chord] = <<n, b.action>>
      \/ /\ b.action \in DOMAIN p.errors
         /\ \/ p.errors[b.action] = Other
            \/ \E k \in 1..Len(p.bindings) : k # i /\ p.bindings[k].chord = b.chord
Apart(s) == \A i, j \in 1..Len(s) : i # j => s[i].action # s[j].action
ToTry(p) == \A j \in 1..Len(p.todo) :
              /\ p.todo[j].action \notin p.ids \cup DOMAIN p.errors
              /\ \E i \in 1..Len(p.bindings) : p.bindings[i] = p.todo[j]
Tried(n) == /\ Apart(pumps[n].bindings) /\ Apart(pumps[n].todo) /\ ToTry(pumps[n])
            /\ \A i \in 1..Len(pumps[n].bindings) : Settled(pumps[n], n, i)
Registered == \A n \in 1..Len(pumps) : Current(n) => Tried(n)

(* A keymap that only requests changed is registered or about to be, and   *)
(* has no chord twice, nor will it.                                        *)
Single(km) == \A a, b \in Actions : km[a] \in Chords /\ km[a] = km[b] => a = b
Fresh ==
  ~keymap.edited =>
    /\ \A n \in 1..Len(pumps) : Current(n) =>
         \/ pumps[n].bindings = resolve(load_keymap(keymap.file))
         \/ \E t \in Setters : K(t) = "reload"
    /\ Single(load_keymap(keymap.file)) /\ keymap.hint = next_section_label(keymap.file)
    /\ \A t \in Setters : K(t) = "save" /\ W(t)[1] = "bind" =>
         \A a \in Actions \ {W(t)[2]} : load_keymap(keymap.file)[a] # W(t)[3]

Held == KeyShape /\ Turns /\ Alive /\ Owned /\ Registered /\ Fresh
KeysIInv == ExtForm /\ (~ext.shut => Held)

(* Tuples joined.                                                          *)
LEMMA TupleJoin ==
  ASSUME NEW a, NEW b, NEW c
  PROVE  <<a>> \o <<b, c>> = <<a, b, c>> /\ <<a>> \o <<b>> = <<a, b>>
<1>. DEFINE S == {a, b, c}
<1>1. <<a>> \in Seq(S) /\ <<b, c>> \in Seq(S) /\ <<b>> \in Seq(S) /\ <<a, b, c>> \in Seq(S)
      /\ <<a, b>> \in Seq(S)
  OBVIOUS
<1>. DEFINE x == <<a>> \o <<b, c>>
            y == <<a>> \o <<b>>
<1>2. x \in Seq(S) /\ Len(x) = 3 /\ x[1] = a /\ x[2] = b /\ x[3] = c
  BY <1>1
<1>3. y \in Seq(S) /\ Len(y) = 2 /\ y[1] = a /\ y[2] = b
  BY <1>1
<1>4. x = [i \in 1..3 |-> x[i]] /\ y = [i \in 1..2 |-> y[i]]
  BY <1>2, <1>3
<1>. DEFINE z == <<a, b, c>>
            w == <<a, b>>
<1>5. z = [i \in 1..3 |-> z[i]] /\ w = [i \in 1..2 |-> w[i]]
  OBVIOUS
<1>6. (\A i \in 1..3 : x[i] = z[i]) /\ (\A i \in 1..2 : y[i] = w[i])
  <2>1. z[1] = a /\ z[2] = b /\ z[3] = c /\ w[1] = a /\ w[2] = b  OBVIOUS
  <2>. HIDE DEF x, y, z, w
  <2>2. 1..3 = {1, 2, 3} /\ 1..2 = {1, 2}  OBVIOUS
  <2>. QED BY <1>2, <1>3, <2>1, <2>2
<1>. HIDE DEF x, y, z, w
<1>7. x = z /\ y = w  BY <1>4, <1>5, <1>6, Zenon
<1>. QED BY <1>7 DEF x, y, z, w

(* What a program begins with says what it is, and what is left of it.     *)
LEMMA ProgramStart ==
  ASSUME NEW p \in Programs
  PROVE  /\ Kind(p) = "idle" <=> p = <<>>
         /\ p # <<>> =>
              LET h == Head(p)[1]
              IN  /\ h \in {"check", "save", "reload", "arm", "disarm", "ready", "unlock"} =>
                       Tail(p) = <<>> /\ Kind(p) = h
                  /\ h \in {"check", "save"} => About(p) \in Changes
                  /\ h = "start" => Tail(p) = <<Step("ready")>> /\ Kind(p) = "start"
                  /\ h = "join" => \/ Kind(p) = "joins" /\ Tail(p) = start_hotkeys
                                   \/ Kind(p) = "ends" /\ Tail(p) = <<Step("unlock")>>
<1>1. CASE p = <<>>  BY <1>1 DEF Kind
<1>2. ASSUME NEW c \in Changes, p = <<<<"check", c>>>> \/ p = <<<<"save", c>>>>
      PROVE  /\ p # <<>> /\ Tail(p) = <<>> /\ Kind(p) = Head(p)[1] /\ About(p) = c
             /\ Head(p)[1] \in {"check", "save"}
  <2>1. PICK s \in {"check", "save"} : p = <<<<s, c>>>>  BY <1>2
  <2>2. p # <<>> /\ Tail(p) = <<>> /\ Head(p) = <<s, c>>  BY <2>1
  <2>. QED BY <2>2 DEF Kind, About
<1>3. ASSUME NEW s \in {"reload", "arm", "disarm", "ready", "unlock"}, p = <<Step(s)>>
      PROVE  p # <<>> /\ Tail(p) = <<>> /\ Kind(p) = s /\ Head(p)[1] = s
  BY <1>3 DEF Kind, Step
<1>4. CASE p = start_hotkeys
  BY <1>4 DEF Kind, start_hotkeys, Step
<1>5. ASSUME NEW n \in Nat, p = <<<<"join", n>>>> \o start_hotkeys
      PROVE  p # <<>> /\ Tail(p) = start_hotkeys /\ Kind(p) = "joins" /\ Head(p)[1] = "join"
  <2>1. p = <<<<"join", n>>, Step("start"), Step("ready")>>
    BY <1>5, TupleJoin DEF start_hotkeys
  <2>. QED BY <2>1 DEF Kind, start_hotkeys, Step
<1>6. ASSUME NEW n \in Nat, p = <<<<"join", n>>, Step("unlock")>>
      PROVE  p # <<>> /\ Tail(p) = <<Step("unlock")>> /\ Kind(p) = "ends" /\ Head(p)[1] = "join"
  BY <1>6 DEF Kind, Step
<1>. QED BY <1>1, <1>2, <1>3, <1>4, <1>5, <1>6 DEF Programs

(* The programs a thread is given.                                         *)
LEMMA ProgramsMade ==
  /\ <<>> \in Programs /\ Kind(<<>>) = "idle" /\ <<>> \o <<>> = <<>>
  /\ \A c \in Changes :
       /\ <<<<"check", c>>>> \in Programs /\ Kind(<<<<"check", c>>>>) = "check"
       /\ About(<<<<"check", c>>>>) = c
       /\ <<<<"save", c>>>> \in Programs /\ Kind(<<<<"save", c>>>>) = "save"
       /\ About(<<<<"save", c>>>>) = c /\ <<<<"save", c>>>> \o <<>> = <<<<"save", c>>>>
  /\ \A s \in {"reload", "arm", "disarm", "ready", "unlock"} :
       <<Step(s)>> \in Programs /\ Kind(<<Step(s)>>) = s /\ <<Step(s)>> \o <<>> = <<Step(s)>>
  /\ start_hotkeys \in Programs /\ Kind(start_hotkeys) = "start"
  /\ start_hotkeys \o <<>> = start_hotkeys /\ <<>> \o start_hotkeys = start_hotkeys
  /\ \A n \in Nat :
       LET p == <<<<"join", n>>>> \o start_hotkeys
           q == <<<<"join", n>>>> \o <<Step("unlock")>>
       IN  /\ p \in Programs /\ Kind(p) = "joins" /\ About(p) = n /\ p \o <<>> = p
           /\ q \in Programs /\ Kind(q) = "ends" /\ About(q) = n /\ q \o <<>> = q
  /\ <<>> \o <<Step("ready")>> = <<Step("ready")>> /\ <<>> \o <<Step("unlock")>> = <<Step("unlock")>>
<1>1. <<>> \in Programs /\ Kind(<<>>) = "idle" /\ <<>> \o <<>> = <<>>
  BY DEF Programs, Kind
<1>2. ASSUME NEW c \in Changes
      PROVE  /\ <<<<"check", c>>>> \in Programs /\ Kind(<<<<"check", c>>>>) = "check"
             /\ About(<<<<"check", c>>>>) = c
             /\ <<<<"save", c>>>> \in Programs /\ Kind(<<<<"save", c>>>>) = "save"
             /\ About(<<<<"save", c>>>>) = c /\ <<<<"save", c>>>> \o <<>> = <<<<"save", c>>>>
  <2>1. <<<<"check", c>>>> \in Programs /\ <<<<"save", c>>>> \in Programs  BY DEF Programs
  <2>2. Kind(<<<<"check", c>>>>) = "check" /\ Kind(<<<<"save", c>>>>) = "save"  BY DEF Kind
  <2>3. About(<<<<"check", c>>>>) = c /\ About(<<<<"save", c>>>>) = c  BY DEF About
  <2>. QED BY <2>1, <2>2, <2>3
<1>3. ASSUME NEW s \in {"reload", "arm", "disarm", "ready", "unlock"}
      PROVE  <<Step(s)>> \in Programs /\ Kind(<<Step(s)>>) = s /\ <<Step(s)>> \o <<>> = <<Step(s)>>
  <2>1. <<Step(s)>> \in Programs  BY DEF Programs
  <2>2. Kind(<<Step(s)>>) = s  BY DEF Kind, Step
  <2>. QED BY <2>1, <2>2
<1>4. /\ start_hotkeys \in Programs /\ Kind(start_hotkeys) = "start"
      /\ start_hotkeys \o <<>> = start_hotkeys /\ <<>> \o start_hotkeys = start_hotkeys
  <2>1. start_hotkeys \in Programs  BY DEF Programs
  <2>2. Kind(start_hotkeys) = "start"  BY DEF Kind, start_hotkeys, Step
  <2>. QED BY <2>1, <2>2 DEF start_hotkeys
<1>5. ASSUME NEW n \in Nat
      PROVE  LET p == <<<<"join", n>>>> \o start_hotkeys
             IN  p \in Programs /\ Kind(p) = "joins" /\ About(p) = n /\ p \o <<>> = p
  <2>1. <<<<"join", n>>>> \o start_hotkeys \in Programs  BY DEF Programs
  <2>2. <<<<"join", n>>>> \o start_hotkeys = <<<<"join", n>>, Step("start"), Step("ready")>>
    BY TupleJoin DEF start_hotkeys
  <2>3. LET p == <<<<"join", n>>, Step("start"), Step("ready")>>
        IN  Kind(p) = "joins" /\ About(p) = n /\ p \o <<>> = p
    BY DEF Kind, About, Step
  <2>. QED BY <2>1, <2>2, <2>3
<1>6. ASSUME NEW n \in Nat
      PROVE  LET q == <<<<"join", n>>>> \o <<Step("unlock")>>
             IN  q \in Programs /\ Kind(q) = "ends" /\ About(q) = n /\ q \o <<>> = q
  <2>1. <<<<"join", n>>>> \o <<Step("unlock")>> = <<<<"join", n>>, Step("unlock")>>
    BY TupleJoin
  <2>2. <<<<"join", n>>, Step("unlock")>> \in Programs  BY DEF Programs
  <2>3. LET p == <<<<"join", n>>, Step("unlock")>>
        IN  Kind(p) = "ends" /\ About(p) = n /\ p \o <<>> = p
    BY DEF Kind, About, Step
  <2>. QED BY <2>1, <2>2, <2>3
<1>7. <<>> \o <<Step("ready")>> = <<Step("ready")>> /\ <<>> \o <<Step("unlock")>> = <<Step("unlock")>>
  BY DEF Step
<1>. QED BY <1>1, <1>2, <1>3, <1>4, <1>5, <1>6, <1>7

(* Only thread t's program changes.                                        *)
Turned(t) == \A u \in Setters \ {t} : K(u)' = K(u) /\ W(u)' = W(u)

LEMMA TurnTaken ==
  ASSUME Threads, NEW t \in Setters, NEW p \in Programs, setter' = [setter EXCEPT ![t] = p]
  PROVE  Threads' /\ Turned(t) /\ setter'[t] = p
<1>1. DOMAIN setter = Setters  BY DEF Threads
<1>2. setter'[t] = p /\ \A u \in Setters \ {t} : setter'[u] = setter[u]  BY <1>1
<1>3. setter' = [u \in Setters |-> setter'[u]]  BY <1>1
<1>4. \A u \in Setters : setter'[u] \in Programs  BY <1>2 DEF Threads
<1>5. Turned(t)  BY <1>2 DEF Turned, K, W
<1>6. (Programs)' = Programs  BY DEF Programs
<1>. QED BY <1>2, <1>3, <1>4, <1>5, <1>6 DEF Threads

LEMMA TurnThen ==
  ASSUME Threads, NEW t \in Setters, NEW steps, Then(t, steps),
         steps \o Tail(setter[t]) \in Programs
  PROVE  Threads' /\ Turned(t) /\ setter'[t] = steps \o Tail(setter[t])
<1>1. setter' = [setter EXCEPT ![t] = steps \o Tail(setter[t])]  BY DEF Then
<1>. QED BY <1>1, TurnTaken

(* The steps of a thread, as what it is about before and after.            *)
TurnsTo(t, k, w) == Threads' /\ Turned(t) /\ K(t)' = k /\ W(t)' = w
TurnsIdle(t) == Threads' /\ Turned(t) /\ K(t)' = "idle"
TurnsOn(t, k) == Threads' /\ Turned(t) /\ K(t)' = k

LEMMA StepKind ==
  ASSUME Threads, NEW t \in Setters, NEW s, At(t, s)
  PROVE  /\ s \in {"check", "save", "reload", "arm", "disarm", "ready", "unlock"} =>
              K(t) = s /\ Tail(setter[t]) = <<>>
         /\ s \in {"check", "save"} => W(t) \in Changes
         /\ s = "start" => K(t) = "start" /\ Tail(setter[t]) = <<Step("ready")>>
         /\ s = "join" => \/ K(t) = "joins" /\ Tail(setter[t]) = start_hotkeys
                          \/ K(t) = "ends" /\ Tail(setter[t]) = <<Step("unlock")>>
         /\ Arg(t) = W(t)
<1>. DEFINE p == setter[t]
<1>1. p \in Programs /\ p # <<>> /\ Head(p)[1] = s  BY DEF Threads, At
<1>2. K(t) = Kind(p) /\ W(t) = About(p)  BY DEF K, W
<1>3. Arg(t) = W(t)  BY DEF Arg, W, About
<1>. HIDE DEF p
<1>. QED BY <1>1, <1>2, <1>3, ProgramStart DEF p

LEMMA TurnIdle ==
  ASSUME Threads, NEW t \in Setters, Then(t, <<>>), Tail(setter[t]) = <<>>
  PROVE  TurnsIdle(t)
<1>1. Threads' /\ Turned(t) /\ setter'[t] = <<>>  BY TurnThen, ProgramsMade
<1>. QED BY <1>1, ProgramsMade DEF TurnsIdle, K

LEMMA TurnKind ==
  ASSUME Threads, NEW t \in Setters, NEW steps, NEW k, NEW w, Then(t, steps),
         steps \o Tail(setter[t]) \in Programs, Kind(steps \o Tail(setter[t])) = k
  PROVE  TurnsOn(t, k) /\ (About(steps \o Tail(setter[t])) = w => TurnsTo(t, k, w))
<1>1. Threads' /\ Turned(t) /\ setter'[t] = steps \o Tail(setter[t])  BY TurnThen
<1>2. K(t)' = Kind(setter'[t]) /\ W(t)' = About(setter'[t])  BY DEF K, W, Kind, About
<1>. QED BY <1>1, <1>2 DEF TurnsOn, TurnsTo

(* What the steps of a thread with a request do to its program.            *)
LEMMA AskTurns ==
  ASSUME Threads, NEW t \in Setters, SetHotkeys(t) \/ Hold(t)
  PROVE  /\ K(t) = "idle" /\ UNCHANGED <<keymap, os, pumps, ext>>
         /\ \E k \in {"check", "arm", "disarm"} : TurnsOn(t, k)
<1>1. K(t) = "idle" /\ UNCHANGED <<keymap, os, pumps, ext>>
  BY ProgramsMade DEF SetHotkeys, Hold, K
<1>2. CASE SetHotkeys(t)
  <2>1. PICK c \in Changes : setter' = [setter EXCEPT ![t] = <<<<"check", c>>>>]
    BY <1>2 DEF SetHotkeys
  <2>2. Threads' /\ Turned(t) /\ setter'[t] = <<<<"check", c>>>>
    BY <2>1, TurnTaken, ProgramsMade
  <2>. QED BY <1>1, <2>2, ProgramsMade DEF TurnsOn, K
<1>3. CASE Hold(t)
  <2>1. PICK s \in {"arm", "disarm"} : setter' = [setter EXCEPT ![t] = <<Step(s)>>]
    BY <1>3 DEF Hold
  <2>2. Threads' /\ Turned(t) /\ setter'[t] = <<Step(s)>>
    BY <2>1, TurnTaken, ProgramsMade
  <2>. QED BY <1>1, <2>2, ProgramsMade DEF TurnsOn, K
<1>. QED BY <1>2, <1>3

Refused(c) == c[1] = "bind" /\ taken(keymap.file, c[2], c[3])

LEMMA CheckTurns ==
  ASSUME Threads, NEW t \in Setters, Check(t)
  PROVE  /\ K(t) = "check" /\ W(t) \in Changes /\ UNCHANGED <<keymap, os, pumps>>
         /\ \/ ext' = ext /\ TurnsIdle(t)
            \/ /\ ext.set = Nobody /\ ext' = [ext EXCEPT !.set = t]
               /\ TurnsTo(t, "save", W(t)) /\ ~Refused(W(t))
<1>1. At(t, "check") /\ UNCHANGED <<keymap, os, pumps>>  BY DEF Check
<1>2. K(t) = "check" /\ W(t) \in Changes /\ Tail(setter[t]) = <<>> /\ Arg(t) = W(t)
  BY <1>1, StepKind
<1>3. CASE Refused(W(t))
  <2>1. ext' = ext /\ Then(t, <<>>)  BY <1>2, <1>3 DEF Check, Refused
  <2>. QED BY <1>1, <1>2, <2>1, TurnIdle
<1>4. CASE ~Refused(W(t))
  <2>1. /\ ext.set = Nobody /\ ext' = [ext EXCEPT !.set = t]
        /\ Then(t, <<<<"save", W(t)>>>>)
    BY <1>2, <1>4 DEF Check, Refused
  <2>. DEFINE p == <<<<"save", W(t)>>>>
  <2>2. p \o Tail(setter[t]) = p /\ p \in Programs /\ Kind(p) = "save" /\ About(p) = W(t)
    BY <1>2, ProgramsMade
  <2>. HIDE DEF p
  <2>3. TurnsTo(t, "save", W(t))  BY <2>1, <2>2, TurnKind DEF p
  <2>. QED BY <1>1, <1>2, <1>4, <2>1, <2>3
<1>. QED BY <1>3, <1>4

Changed(c) == CASE c[1] = "bind" -> bind(keymap.file, c[2], c[3])
                [] c[1] = "unbind" -> unbind(keymap.file, c[2])
                [] OTHER -> reset

LEMMA SaveTurns ==
  ASSUME Threads, NEW t \in Setters, Save(t)
  PROVE  /\ K(t) = "save" /\ W(t) \in Changes /\ UNCHANGED <<os, pumps>>
         /\ ext' = [ext EXCEPT !.set = Nobody]
         /\ \/ /\ keymap' = [keymap EXCEPT !.file = Changed(W(t)),
                                           !.hint = next_section_label(Changed(W(t)))]
               /\ TurnsOn(t, "reload")
            \/ keymap' = keymap /\ TurnsIdle(t)
<1>1. At(t, "save") /\ UNCHANGED <<os, pumps>> /\ ext' = [ext EXCEPT !.set = Nobody]
  BY DEF Save
<1>2. K(t) = "save" /\ W(t) \in Changes /\ Tail(setter[t]) = <<>> /\ Arg(t) = W(t)
  BY <1>1, StepKind
<1>3. \/ /\ keymap' = [keymap EXCEPT !.file = Changed(Arg(t)),
                                     !.hint = next_section_label(Changed(Arg(t)))]
         /\ Then(t, <<Step("reload")>>)
      \/ keymap' = keymap /\ Then(t, <<>>)
  BY Zenon DEF Save, Changed
<1>4. Then(t, <<>>) => TurnsIdle(t)  BY <1>2, TurnIdle
<1>5. Then(t, <<Step("reload")>>) => TurnsOn(t, "reload")  BY <1>2, TurnKind, ProgramsMade
<1>. QED BY <1>1, <1>2, <1>3, <1>4, <1>5

(* The slot is emptied under the transition lock.                          *)
Stops(t, armed, k, joining) ==
  /\ ext.transition = Nobody /\ UNCHANGED <<keymap, os>>
  /\ ext' = [ext EXCEPT !.armed = armed, !.transition = t, !.slot = 0]
  /\ \/ ext.slot = 0 /\ pumps' = pumps /\ TurnsOn(t, k)
     \/ ext.slot # 0 /\ Quit(ext.slot) /\ TurnsTo(t, joining, ext.slot)
Restarts(t) == Stops(t, TRUE, "start", "joins")
Ends(t) == Stops(t, FALSE, "unlock", "ends")
Rests(t) == /\ ext.transition = Nobody /\ TurnsIdle(t)
            /\ UNCHANGED <<keymap, os, pumps, ext>>

LEMMA TransitionTurns ==
  ASSUME Threads, NEW t \in Setters, Reload(t) \/ Arm(t) \/ Disarm(t), ext.slot \in Nat
  PROVE  \/ K(t) = "reload" /\ (Restarts(t) \/ (Rests(t) /\ ~ext.armed))
         \/ K(t) \in {"arm", "disarm"} /\ (Rests(t) \/ Restarts(t) \/ Ends(t))
<1>1. Tail(setter[t]) = <<>>
  BY StepKind DEF Reload, Arm, Disarm
<1>2. Nothing(t) => Rests(t)  BY <1>1, TurnIdle DEF Nothing, Rests
<1>3. ASSUME Transition(t, TRUE, start_hotkeys)  PROVE Restarts(t)
  <2>1. CASE ext.slot = 0
    <3>1. TurnsOn(t, "start")  BY <1>1, <1>3, <2>1, TurnKind, ProgramsMade DEF Transition
    <3>. QED BY <1>3, <2>1, <3>1 DEF Transition, Restarts, Stops
  <2>2. CASE ext.slot # 0
    <3>. DEFINE p == <<<<"join", ext.slot>>>> \o start_hotkeys
    <3>2. p \o Tail(setter[t]) = p /\ p \in Programs /\ Kind(p) = "joins" /\ About(p) = ext.slot
      BY <1>1, ProgramsMade
    <3>3. Then(t, p)  BY <1>3, <2>2 DEF Transition
    <3>. HIDE DEF p
    <3>1. TurnsTo(t, "joins", ext.slot)  BY <3>2, <3>3, TurnKind
    <3>. QED BY <1>3, <2>2, <3>1 DEF Transition, Restarts, Stops
  <2>. QED BY <2>1, <2>2
<1>4. ASSUME Transition(t, FALSE, <<Step("unlock")>>)  PROVE Ends(t)
  <2>1. CASE ext.slot = 0
    <3>1. TurnsOn(t, "unlock")  BY <1>1, <1>4, <2>1, TurnKind, ProgramsMade DEF Transition
    <3>. QED BY <1>4, <2>1, <3>1 DEF Transition, Ends, Stops
  <2>2. CASE ext.slot # 0
    <3>. DEFINE p == <<<<"join", ext.slot>>>> \o <<Step("unlock")>>
    <3>2. p \o Tail(setter[t]) = p /\ p \in Programs /\ Kind(p) = "ends" /\ About(p) = ext.slot
      BY <1>1, ProgramsMade
    <3>3. Then(t, p)  BY <1>4, <2>2 DEF Transition
    <3>. HIDE DEF p
    <3>1. TurnsTo(t, "ends", ext.slot)  BY <3>2, <3>3, TurnKind
    <3>. QED BY <1>4, <2>2, <3>1 DEF Transition, Ends, Stops
  <2>. QED BY <2>1, <2>2
<1>5. CASE Reload(t)
  BY <1>2, <1>3, <1>5, StepKind DEF Reload
<1>6. CASE Arm(t)
  BY <1>2, <1>3, <1>6, StepKind DEF Arm
<1>7. CASE Disarm(t)
  BY <1>2, <1>4, <1>7, StepKind DEF Disarm
<1>. QED BY <1>5, <1>6, <1>7

LEMMA JoinTurns ==
  ASSUME Threads, NEW t \in Setters, Join(t)
  PROVE  /\ UNCHANGED <<keymap, os, pumps, ext>> /\ pumps[W(t)] = Gone
         /\ \/ K(t) = "joins" /\ TurnsOn(t, "start")
            \/ K(t) = "ends" /\ TurnsOn(t, "unlock")
<1>1. At(t, "join") /\ Then(t, <<>>)  BY DEF Join
<1>2. UNCHANGED <<keymap, os, pumps, ext>> /\ pumps[W(t)] = Gone
  BY <1>1, StepKind DEF Join, Stopped
<1>3. CASE K(t) = "joins" /\ Tail(setter[t]) = start_hotkeys
  BY <1>1, <1>2, <1>3, TurnKind, ProgramsMade
<1>4. CASE K(t) = "ends" /\ Tail(setter[t]) = <<Step("unlock")>>
  BY <1>1, <1>2, <1>4, TurnKind, ProgramsMade
<1>. QED BY <1>1, <1>3, <1>4, StepKind

LEMMA StartTurns ==
  ASSUME Threads, NEW t \in Setters, Start(t)
  PROVE  /\ UNCHANGED <<keymap, os, ext>> /\ K(t) = "start" /\ TurnsOn(t, "ready")
         /\ pumps' = Append(pumps, Started(resolve(load_keymap(keymap.file))))
<1>1. At(t, "start") /\ Then(t, <<>>)  BY DEF Start
<1>2. K(t) = "start" /\ Tail(setter[t]) = <<Step("ready")>>  BY <1>1, StepKind
<1>3. TurnsOn(t, "ready")  BY <1>1, <1>2, TurnKind, ProgramsMade
<1>. QED BY <1>2, <1>3 DEF Start

LEMMA ReadyTurns ==
  ASSUME Threads, NEW t \in Setters, IsReady(t)
  PROVE  /\ UNCHANGED <<keymap, os, pumps>> /\ K(t) = "ready" /\ TurnsIdle(t)
         /\ pumps[Len(pumps)].todo = <<>>
         /\ ext' = [ext EXCEPT !.transition = Nobody, !.slot = Len(pumps)]
<1>1. At(t, "ready") /\ Then(t, <<>>)  BY DEF IsReady
<1>. QED BY <1>1, StepKind, TurnIdle DEF IsReady

LEMMA UnlockTurns ==
  ASSUME Threads, NEW t \in Setters, Unlock(t)
  PROVE  /\ UNCHANGED <<keymap, os, pumps>> /\ K(t) = "unlock" /\ TurnsIdle(t)
         /\ ext' = [ext EXCEPT !.transition = Nobody]
<1>1. At(t, "unlock") /\ Then(t, <<>>)  BY DEF Unlock
<1>. QED BY <1>1, StepKind, TurnIdle DEF Unlock

(* What the steps of a hotkey thread change that the keymap's follow-up    *)
(* depends on: the rest of its state is the presses and their dispatch.    *)
Kept(n) == /\ pumps[n].bindings' = pumps[n].bindings /\ pumps[n].ids' = pumps[n].ids
           /\ pumps[n].errors' = pumps[n].errors
Seen(n) == /\ Kept(n) /\ pumps[n].at' = pumps[n].at /\ pumps[n].todo' = pumps[n].todo
Alone(n) == /\ PumpsShape' /\ Len(pumps)' = Len(pumps)
            /\ \A m \in 1..Len(pumps) \ {n} : pumps[m]' = pumps[m]
Unseen == /\ PumpsShape' /\ Len(pumps)' = Len(pumps)
          /\ \A m \in 1..Len(pumps) : Seen(m) /\ pumps[m].messages' = pumps[m].messages

LEMMA PumpFields ==
  ASSUME NEW p, PumpShape(p)
  PROVE  DOMAIN p = {"at", "todo", "bindings", "ids", "errors", "messages", "recent",
                     "presses", "dispatch"}
BY DEF PumpShape

LEMMA PumpSet ==
  ASSUME PumpsShape, NEW n \in 1..Len(pumps), NEW q, PumpShape(q),
         pumps' = [pumps EXCEPT ![n] = q]
  PROVE  Alone(n) /\ pumps'[n] = q
<1>1. DOMAIN pumps = 1..Len(pumps) /\ Len(pumps) \in Nat  BY DEF PumpsShape
<1>2. DOMAIN pumps' = 1..Len(pumps)  BY <1>1
<1>3. pumps'[n] = q /\ \A m \in 1..Len(pumps) \ {n} : pumps'[m] = pumps[m]  BY <1>1
<1>4. pumps' = [m \in 1..Len(pumps) |-> pumps'[m]]  BY <1>1
<1>5. Len(pumps') = Len(pumps)  BY <1>1, <1>2, <1>4
<1>6. \A m \in 1..Len(pumps') : PumpShape(pumps'[m])  BY <1>3, <1>5 DEF PumpsShape
<1>7. \A m \in 1..Len(pumps) : PumpShape(pumps[m])' <=> PumpShape(pumps'[m])  BY DEF PumpShape
<1>8. PumpsShape'  BY <1>1, <1>4, <1>5, <1>6, <1>7 DEF PumpsShape
<1>. QED BY <1>3, <1>5, <1>8 DEF Alone

LEMMA QuitSends ==
  ASSUME PumpsShape, NEW n \in 1..Len(pumps), NEW m,
         pumps' = [pumps EXCEPT ![n].messages = Append(@, m)]
  PROVE  Alone(n) /\ Seen(n) /\ pumps[n].messages' = Append(pumps[n].messages, m)
<1>. DEFINE v == Append(pumps[n].messages, m)
            q == [pumps[n] EXCEPT !.messages = v]
<1>1. pumps' = [pumps EXCEPT ![n] = q] /\ q = [pumps[n] EXCEPT !.messages = v]  OBVIOUS
<1>. HIDE DEF v, q
<1>2. PumpShape(pumps[n])  BY DEF PumpsShape
<1>3. /\ PumpShape(q) /\ q.messages = v /\ q.at = pumps[n].at /\ q.todo = pumps[n].todo
      /\ q.bindings = pumps[n].bindings /\ q.ids = pumps[n].ids /\ q.errors = pumps[n].errors
  BY <1>1, <1>2, PumpFields DEF PumpShape
<1>4. Alone(n) /\ pumps'[n] = q  BY <1>1, <1>3, PumpSet
<1>. QED BY <1>3, <1>4 DEF Seen, Kept, v

LEMMA UnseenSet ==
  ASSUME PumpsShape, NEW n \in 1..Len(pumps), Alone(n), Seen(n),
         pumps[n].messages' = pumps[n].messages
  PROVE  Unseen
<1>. SUFFICES ASSUME NEW m \in 1..Len(pumps)
              PROVE  Seen(m) /\ pumps[m].messages' = pumps[m].messages
  BY DEF Alone, Unseen
<1>1. CASE m = n  BY <1>1
<1>2. CASE m # n
  <2>1. pumps[m]' = pumps[m]  BY <1>2 DEF Alone
  <2>. QED BY <2>1 DEF Seen, Kept
<1>. QED BY <1>1, <1>2

LEMMA UnseenSame == PumpsShape /\ UNCHANGED pumps => Unseen
BY DEF Unseen, Seen, Kept, PumpsShape, PumpShape

(* Presses are taken, watched and carried out.                             *)
LEMMA DispatchUnseen ==
  ASSUME PumpsShape, NEW n \in 1..Len(pumps), Take(n) \/ watch(n) \/ Perform(n)
  PROVE  Unseen /\ UNCHANGED <<os, keymap, ext, setter>>
<1>. DEFINE p == pumps[n]
<1>1. UNCHANGED <<os, keymap, ext, setter>>  BY DEF Take, watch, Perform, KeysElse
<1>2. PumpShape(p)  BY DEF PumpsShape
<1>3. CASE Take(n)
  <2>1. PICK u, d : pumps' = [pumps EXCEPT ![n] = [p EXCEPT !.presses = u, !.dispatch = d]]
    <3>. DEFINE b == Head(p.presses)
                u == Tail(p.presses)
                d == [at |-> IF holdable(b.action) THEN "watching" ELSE "tap",
                      action |-> b.action, chord |-> b.chord, for |-> 0]
    <3>1. pumps' = [pumps EXCEPT ![n] = [p EXCEPT !.presses = u, !.dispatch = d]]
      BY <1>3 DEF Take
    <3>. QED BY <3>1
  <2>. DEFINE c == [p EXCEPT !.presses = u]
              q == [c EXCEPT !.dispatch = d]
  <2>4. pumps' = [pumps EXCEPT ![n] = q]  BY <2>1
  <2>5. /\ PumpShape(c) /\ c.messages = p.messages /\ c.at = p.at /\ c.todo = p.todo
        /\ c.bindings = p.bindings /\ c.ids = p.ids /\ c.errors = p.errors
    BY <1>2, PumpFields DEF PumpShape
  <2>. HIDE DEF c
  <2>2. /\ PumpShape(q) /\ q.messages = p.messages /\ q.at = p.at /\ q.todo = p.todo
        /\ q.bindings = p.bindings /\ q.ids = p.ids /\ q.errors = p.errors
    BY <2>5, PumpFields DEF PumpShape
  <2>. HIDE DEF q
  <2>3. Alone(n) /\ pumps'[n] = q  BY <2>2, <2>4, PumpSet
  <2>. QED BY <1>1, <2>2, <2>3, UnseenSet DEF Seen, Kept
<1>4. CASE watch(n) \/ Perform(n)
  <2>1. \E d : pumps' = [pumps EXCEPT ![n] = [p EXCEPT !.dispatch = d]]
    <3>1. CASE watch(n)
      <4>. DEFINE e == [p.dispatch EXCEPT !.at = IF os.down # p.dispatch.chord THEN "tap" ELSE "hold"]
      <4>1. pumps' = [pumps EXCEPT ![n] = [p EXCEPT !.dispatch = e]]  BY <3>1 DEF watch
      <4>. QED BY <4>1
    <3>2. CASE Perform(n)  BY <3>2 DEF Perform
    <3>. QED BY <1>4, <3>1, <3>2
  <2>2. PICK d : pumps' = [pumps EXCEPT ![n] = [p EXCEPT !.dispatch = d]]  BY <2>1
  <2>. DEFINE q == [p EXCEPT !.dispatch = d]
  <2>3. /\ PumpShape(q) /\ q.messages = p.messages /\ q.at = p.at /\ q.todo = p.todo
        /\ q.bindings = p.bindings /\ q.ids = p.ids /\ q.errors = p.errors
    BY <1>2, PumpFields DEF PumpShape
  <2>4. pumps' = [pumps EXCEPT ![n] = q]  BY <2>2
  <2>. HIDE DEF q
  <2>5. Alone(n) /\ pumps'[n] = q  BY <2>3, <2>4, PumpSet
  <2>. QED BY <1>1, <2>3, <2>5, UnseenSet DEF Seen, Kept
<1>. QED BY <1>3, <1>4

LEMMA TimeUnseen ==
  ASSUME PumpsShape, Time
  PROVE  Unseen /\ UNCHANGED <<os, keymap, ext, setter>>
<1>1. UNCHANGED <<os, keymap, ext, setter>>  BY DEF Time, KeysElse
<1>2. ASSUME NEW n \in 1..Len(pumps)
      PROVE  /\ PumpShape(pumps'[n]) /\ pumps'[n].messages = pumps[n].messages
             /\ pumps'[n].at = pumps[n].at /\ pumps'[n].todo = pumps[n].todo
             /\ pumps'[n].bindings = pumps[n].bindings /\ pumps'[n].ids = pumps[n].ids
             /\ pumps'[n].errors = pumps[n].errors
  <2>. DEFINE p == pumps[n]
  <2>1. PICK e : pumps'[n] = [p EXCEPT !.recent = {}, !.dispatch = e]
    <3>. DEFINE e == [p.dispatch EXCEPT !.for = IF p.dispatch.at = "watching" /\ @ < HOLD
                                                THEN @ + 1 ELSE @]
    <3>1. pumps'[n] = [p EXCEPT !.recent = {}, !.dispatch = e]  BY DEF Time
    <3>. QED BY <3>1
  <2>2. PumpShape(p)  BY DEF PumpsShape
  <2>. QED BY <2>1, <2>2, PumpFields DEF PumpShape
<1>3. Len(pumps) \in Nat /\ pumps' = [n \in 1..Len(pumps) |-> pumps'[n]]
  BY DEF Time, PumpsShape
<1>4. Len(pumps') = Len(pumps)  BY <1>3
<1>5. \A n \in 1..Len(pumps) : PumpShape(pumps[n])' <=> PumpShape(pumps'[n])  BY DEF PumpShape
<1>6. PumpsShape'  BY <1>2, <1>3, <1>4, <1>5 DEF PumpsShape
<1>7. \A n \in 1..Len(pumps) : Seen(n) /\ pumps[n].messages' = pumps[n].messages
  BY <1>2 DEF Seen, Kept
<1>. QED BY <1>1, <1>4, <1>6, <1>7 DEF Unseen

(* One chord is tried: registered, or refused for what was found.          *)
Ours(n, b) == \E i \in 1..Len(pumps[n].bindings) :
                 /\ pumps[n].bindings[i].action \in pumps[n].ids
                 /\ pumps[n].bindings[i].chord = b.chord
Registers(n, b) ==
  /\ ~Ours(n, b) /\ os.owner[b.chord] = Free
  /\ pumps[n].ids' = pumps[n].ids \cup {b.action} /\ pumps[n].errors' = pumps[n].errors
  /\ os' = [os EXCEPT !.owner[b.chord] = <<n, b.action>>]
Refuses(n, b) ==
  /\ Ours(n, b) \/ os.owner[b.chord] # Free
  /\ pumps[n].ids' = pumps[n].ids /\ os' = os
  /\ DOMAIN (pumps[n].errors') = DOMAIN pumps[n].errors \cup {b.action}
  /\ ~Ours(n, b) => pumps[n].errors'[b.action] = os.owner[b.chord]
  /\ \A a \in DOMAIN pumps[n].errors \ {b.action} : pumps[n].errors'[a] = pumps[n].errors[a]

LEMMA RegisterTries ==
  ASSUME PumpsShape, NEW n \in 1..Len(pumps), Register(n)
  PROVE  LET b == Head(pumps[n].todo)
         IN  /\ pumps[n].todo # <<>> /\ b \in Binding /\ UNCHANGED <<keymap, ext, setter>>
             /\ Alone(n) /\ pumps[n].at' = pumps[n].at /\ pumps[n].messages' = pumps[n].messages
             /\ pumps[n].bindings' = pumps[n].bindings /\ pumps[n].todo' = Tail(pumps[n].todo)
             /\ Registers(n, b) \/ Refuses(n, b)
<1>. DEFINE p == pumps[n]
            b == Head(p.todo)
            ours == {a \in p.ids : \E i \in 1..Len(p.bindings) :
                                p.bindings[i] = [action |-> a, chord |-> b.chord]}
            owner == os.owner[b.chord]
            ok == ours = {} /\ owner = Free
            why == IF ours # {} THEN <<n, "bound_twice">> ELSE owner
            said == [a \in DOMAIN p.errors \cup {b.action} |->
                       IF a = b.action THEN why ELSE p.errors[a]]
            u == Tail(p.todo)
            i == IF ok THEN p.ids \cup {b.action} ELSE p.ids
            e == IF ok THEN p.errors ELSE said
            c == [p EXCEPT !.todo = u]
            d == [c EXCEPT !.ids = i]
            q == [d EXCEPT !.errors = e]
<1>1. PumpShape(p)  BY DEF PumpsShape
<1>2. p.todo # <<>> /\ p.todo \in Seq(Binding)  BY <1>1 DEF Register, PumpShape
<1>3. b \in Binding /\ u \in Seq(Binding)  BY <1>2
<1>4. ours # {} <=> Ours(n, b)
  <2>1. \A k \in 1..Len(p.bindings) : p.bindings[k] \in Binding  BY <1>1 DEF PumpShape
  <2>2. \A k \in 1..Len(p.bindings) : \A a :
          p.bindings[k] = [action |-> a, chord |-> b.chord]
            <=> p.bindings[k].action = a /\ p.bindings[k].chord = b.chord
    BY <2>1 DEF Binding
  <2>. QED BY <2>2 DEF Ours
<1>5. /\ pumps' = [pumps EXCEPT ![n].todo = u, ![n].ids = i, ![n].errors = e]
      /\ os' = IF ok THEN [os EXCEPT !.owner[b.chord] = <<n, b.action>>] ELSE os
      /\ UNCHANGED <<keymap, ext, setter>>
  BY Zenon DEF Register, KeysElse
<1>6. pumps' = [pumps EXCEPT ![n] = q]
  BY <1>5 DEF PumpsShape
<1>7. i \subseteq Actions  BY <1>1, <1>3 DEF PumpShape, Binding
<1>8. /\ DOMAIN said = DOMAIN p.errors \cup {b.action} /\ said[b.action] = why
      /\ \A a \in DOMAIN p.errors \ {b.action} : said[a] = p.errors[a]
  OBVIOUS
<1>. HIDE DEF u, i, e
<1>9. /\ PumpShape(c) /\ c.messages = p.messages /\ c.at = p.at /\ c.todo = u
      /\ c.bindings = p.bindings
  BY <1>1, <1>3, PumpFields DEF PumpShape
<1>. HIDE DEF c
<1>10. /\ PumpShape(d) /\ d.messages = p.messages /\ d.at = p.at /\ d.todo = u
       /\ d.bindings = p.bindings /\ d.ids = i
  BY <1>7, <1>9, PumpFields DEF PumpShape
<1>. HIDE DEF d
<1>11. /\ PumpShape(q) /\ q.messages = p.messages /\ q.at = p.at /\ q.todo = u
       /\ q.bindings = p.bindings /\ q.ids = i /\ q.errors = e
  BY <1>10, PumpFields DEF PumpShape
<1>. HIDE DEF q
<1>12. Alone(n) /\ pumps'[n] = q  BY <1>6, <1>11, PumpSet
<1>13. /\ pumps[n].at' = p.at /\ pumps[n].messages' = p.messages
       /\ pumps[n].bindings' = p.bindings /\ pumps[n].todo' = u
       /\ pumps[n].ids' = i /\ pumps[n].errors' = e
  BY <1>11, <1>12
<1>. HIDE DEF p, ours, b, said
<1>14. CASE ok
  <2>1. Registers(n, b)  BY <1>4, <1>5, <1>13, <1>14 DEF Registers, p, i, e
  <2>. QED BY <1>2, <1>3, <1>5, <1>12, <1>13, <2>1 DEF p, b, u
<1>15. CASE ~ok
  <2>1. pumps[n].ids' = p.ids /\ pumps[n].errors' = said /\ os' = os
    BY <1>5, <1>13, <1>15 DEF i, e
  <2>2. ~Ours(n, b) => why = os.owner[b.chord]  BY <1>4
  <2>3. Ours(n, b) \/ os.owner[b.chord] # Free  BY <1>4, <1>15
  <2>4. Refuses(n, b)  BY <1>8, <2>1, <2>2, <2>3 DEF Refuses, p
  <2>. QED BY <1>2, <1>3, <1>5, <1>12, <1>13, <2>4 DEF p, b, u
<1>. QED BY <1>14, <1>15

(* A message is taken: a press, or the quit.                               *)
LEMMA PumpTakes ==
  ASSUME PumpsShape, NEW n \in 1..Len(pumps), Pump(n)
  PROVE  /\ UNCHANGED <<os, keymap, ext, setter>> /\ Alone(n) /\ Kept(n)
         /\ pumps[n].at = "waiting" /\ pumps[n].messages # <<>>
         /\ pumps[n].todo = <<>> /\ pumps[n].todo' = <<>>
         /\ pumps[n].messages' = Tail(pumps[n].messages)
         /\ pumps[n].at' = IF Head(pumps[n].messages) = "quit" THEN "stopping" ELSE "waiting"
<1>. DEFINE p == pumps[n]
<1>1. PumpShape(p)  BY DEF PumpsShape
<1>2. /\ p.at = "waiting" /\ p.todo = <<>> /\ p.messages # <<>>
      /\ UNCHANGED <<os, keymap, ext, setter>>
  BY DEF Pump, Is, KeysElse
<1>3. PICK r, s : pumps' = [pumps EXCEPT ![n] =
           [p EXCEPT !.at = IF Head(p.messages) = "quit" THEN "stopping" ELSE p.at,
                     !.messages = Tail(p.messages), !.recent = r, !.presses = s]]
  <2>. DEFINE m == Head(p.messages)
              runs == m # "quit" /\ allow(p, m)
              b == CHOOSE b \in {p.bindings[i] : i \in 1..Len(p.bindings)} : b.action = m
              r == IF runs /\ debounced(m) THEN p.recent \cup {m} ELSE p.recent
              s == IF runs THEN Append(p.presses, b) ELSE p.presses
  <2>1. pumps' = [pumps EXCEPT ![n] =
           [p EXCEPT !.at = IF m = "quit" THEN "stopping" ELSE p.at,
                     !.messages = Tail(p.messages), !.recent = r, !.presses = s]]
    BY Zenon DEF Pump
  <2>. HIDE DEF r, s
  <2>. QED BY <2>1
<1>. DEFINE v == IF Head(p.messages) = "quit" THEN "stopping" ELSE "waiting"
            w == Tail(p.messages)
            c == [p EXCEPT !.at = v]
            d == [c EXCEPT !.messages = w]
            e == [d EXCEPT !.recent = r]
            q == [e EXCEPT !.presses = s]
<1>4. pumps' = [pumps EXCEPT ![n] = q]  BY <1>2, <1>3
<1>. HIDE DEF v, w
<1>5. /\ PumpShape(c) /\ c.messages = p.messages /\ c.at = v /\ c.todo = p.todo
      /\ c.bindings = p.bindings /\ c.ids = p.ids /\ c.errors = p.errors
  BY <1>1, PumpFields DEF PumpShape
<1>. HIDE DEF c
<1>6. /\ PumpShape(d) /\ d.messages = w /\ d.at = v /\ d.todo = p.todo
      /\ d.bindings = p.bindings /\ d.ids = p.ids /\ d.errors = p.errors
  BY <1>5, PumpFields DEF PumpShape
<1>. HIDE DEF d
<1>7. /\ PumpShape(e) /\ e.messages = w /\ e.at = v /\ e.todo = p.todo
      /\ e.bindings = p.bindings /\ e.ids = p.ids /\ e.errors = p.errors
  BY <1>6, PumpFields DEF PumpShape
<1>. HIDE DEF e
<1>8. /\ PumpShape(q) /\ q.messages = w /\ q.at = v /\ q.todo = p.todo
      /\ q.bindings = p.bindings /\ q.ids = p.ids /\ q.errors = p.errors
  BY <1>7, PumpFields DEF PumpShape
<1>. HIDE DEF q
<1>9. Alone(n) /\ pumps'[n] = q  BY <1>4, <1>8, PumpSet
<1>. QED BY <1>2, <1>8, <1>9 DEF Kept, v, w

(* The chords are let go one by one, then the thread has ended.            *)
LEMMA UnregisterLets ==
  ASSUME PumpsShape, NEW n \in 1..Len(pumps), Unregister(n)
  PROVE  /\ UNCHANGED <<keymap, ext, setter>> /\ pumps[n].at = "stopping"
         /\ \/ /\ Alone(n) /\ Kept(n) /\ os' = os /\ pumps[n].at' = "gone"
               /\ pumps[n].todo' = pumps[n].todo /\ pumps[n].messages' = pumps[n].messages
               /\ \A c \in Chords : os.owner[c] \notin {<<n, a>> : a \in pumps[n].ids}
            \/ /\ pumps' = pumps
               /\ \E c \in Chords : /\ os.owner[c] \in {<<n, a>> : a \in pumps[n].ids}
                                    /\ os' = [os EXCEPT !.owner[c] = Free]
<1>. DEFINE p == pumps[n]
            mine == {c \in Chords : os.owner[c] \in {<<n, a>> : a \in pumps[n].ids}}
            q == [p EXCEPT !.at = "gone"]
<1>1. PumpShape(p)  BY DEF PumpsShape
<1>2. UNCHANGED <<keymap, ext, setter>> /\ p.at = "stopping"  BY DEF Unregister, KeysElse, Is
<1>3. CASE mine = {}
  <2>1. pumps' = [pumps EXCEPT ![n] = q] /\ os' = os  BY <1>3 DEF Unregister
  <2>2. /\ PumpShape(q) /\ q.messages = p.messages /\ q.at = "gone" /\ q.todo = p.todo
        /\ q.bindings = p.bindings /\ q.ids = p.ids /\ q.errors = p.errors
    BY <1>1, PumpFields DEF PumpShape
  <2>. HIDE DEF q
  <2>3. Alone(n) /\ pumps'[n] = q  BY <2>1, <2>2, PumpSet
  <2>. QED BY <1>2, <1>3, <2>1, <2>2, <2>3 DEF Kept
<1>4. CASE mine # {}
  <2>1. PICK c \in mine : pumps' = pumps /\ os' = [os EXCEPT !.owner[c] = Free]
    BY <1>4 DEF Unregister
  <2>. QED BY <1>2, <2>1
<1>. QED BY <1>3, <1>4

LEMMA StartedFields ==
  ASSUME NEW s \in Seq(Binding)
  PROVE  LET p == Started(s)
         IN  /\ PumpShape(p) /\ p.at = "waiting" /\ p.todo = s /\ p.bindings = s
             /\ p.ids = {} /\ DOMAIN p.errors = {} /\ p.messages = <<>>
BY DEF Started, PumpShape

LEMMA GoneFields ==
  PumpShape(Gone) /\ Gone.at = "gone" /\ Gone.todo = <<>>
<1>1. ASSUME NEW p, NEW e, PumpShape(p), p.todo = <<>>
      PROVE  LET q == [p EXCEPT !.at = "gone", !.dispatch = e]
             IN  PumpShape(q) /\ q.at = "gone" /\ q.todo = <<>>
  <2>. DEFINE c == [p EXCEPT !.at = "gone"]
              q == [c EXCEPT !.dispatch = e]
  <2>1. /\ PumpShape(c) /\ c.messages = p.messages /\ c.at = "gone" /\ c.todo = p.todo
        /\ c.bindings = p.bindings /\ c.ids = p.ids /\ c.errors = p.errors
    <3>1. PumpShape(p)  BY <1>1
    <3>. QED BY <3>1, PumpFields DEF PumpShape
  <2>. HIDE DEF c
  <2>2. /\ PumpShape(q) /\ q.messages = c.messages /\ q.at = c.at /\ q.todo = c.todo
        /\ q.bindings = c.bindings /\ q.ids = c.ids /\ q.errors = c.errors
    BY <2>1, PumpFields DEF PumpShape
  <2>. QED BY <1>1, <2>1, <2>2 DEF c
<1>2. PumpShape(Started(<<>>)) /\ Started(<<>>).todo = <<>>
  <2>1. <<>> \in Seq(Binding)  OBVIOUS
  <2>. QED BY <2>1, StartedFields
<1>3. Gone = [Started(<<>>) EXCEPT !.at = "gone", !.dispatch = [Idle EXCEPT !.at = "gone"]]
  BY DEF Gone, Started
<1>. QED BY <1>1, <1>2, <1>3, Zenon

LEMMA DispatchLeaves ==
  ASSUME PumpsShape, NEW n \in 1..Len(pumps), DispatchEnds(n)
  PROVE  /\ UNCHANGED <<os, keymap, ext, setter>> /\ Alone(n)
         /\ pumps[n].at = "gone" /\ pumps[n].at' = "gone" /\ pumps[n].todo' = <<>>
<1>1. /\ pumps' = [pumps EXCEPT ![n] = Gone] /\ pumps[n].at = "gone"
      /\ UNCHANGED <<os, keymap, ext, setter>>
  BY DEF DispatchEnds, Is, KeysElse
<1>2. Alone(n) /\ pumps'[n] = Gone  BY <1>1, PumpSet, GoneFields
<1>. QED BY <1>1, <1>2, GoneFields

(* The bindings made of a keymap: one for each action with a chord.        *)
Resolves(km, s, A) ==
  /\ s \in Seq(Binding) /\ Apart(s)
  /\ \A i \in 1..Len(s) : s[i].action \in A /\ s[i].chord = km[s[i].action]
  /\ \A a \in A : km[a] \in Chords => \E i \in 1..Len(s) : s[i].action = a

LEMMA EntryResolves ==
  ASSUME NEW km, NEW a \in Actions
  PROVE  Resolves(km, Entry(km, a), {a})
<1>1. CASE km[a] \in Chords
  <2>. DEFINE b == [action |-> a, chord |-> km[a]]
  <2>1. b \in Binding /\ b.action = a /\ b.chord = km[a]  BY <1>1 DEF Binding
  <2>2. Entry(km, a) = <<b>>  BY <1>1 DEF Entry
  <2>. HIDE DEF b
  <2>3. <<b>> \in Seq(Binding) /\ Len(<<b>>) = 1 /\ <<b>>[1] = b  BY <2>1
  <2>. QED BY <2>1, <2>2, <2>3 DEF Resolves, Apart
<1>2. CASE km[a] \notin Chords
  BY <1>2 DEF Resolves, Apart, Entry
<1>. QED BY <1>1, <1>2

LEMMA JoinResolves ==
  ASSUME NEW km, NEW s, NEW A, NEW r, NEW B, Resolves(km, s, A), Resolves(km, r, B), A \cap B = {}
  PROVE  Resolves(km, s \o r, A \cup B)
<1>. DEFINE t == s \o r
<1>1. s \in Seq(Binding) /\ r \in Seq(Binding)  BY DEF Resolves
<1>2. /\ t \in Seq(Binding) /\ Len(t) = Len(s) + Len(r) /\ Len(s) \in Nat /\ Len(r) \in Nat
      /\ \A i \in 1..Len(t) : t[i] = IF i <= Len(s) THEN s[i] ELSE r[i - Len(s)]
  BY <1>1
<1>3. \A i \in 1..Len(s) : i \in 1..Len(t) /\ t[i] = s[i]  BY <1>2
<1>4. \A i \in 1..Len(r) : i + Len(s) \in 1..Len(t) /\ t[i + Len(s)] = r[i]
  <2>. SUFFICES ASSUME NEW i \in 1..Len(r)
                PROVE  i + Len(s) \in 1..Len(t) /\ t[i + Len(s)] = r[i]
    OBVIOUS
  <2>1. i + Len(s) \in 1..Len(t) /\ ~(i + Len(s) <= Len(s)) /\ (i + Len(s)) - Len(s) = i
    BY <1>2
  <2>. HIDE DEF t
  <2>. QED BY <1>2, <2>1
<1>5. \A i \in 1..Len(t) : \/ i \in 1..Len(s) /\ t[i] = s[i]
                           \/ i - Len(s) \in 1..Len(r) /\ t[i] = r[i - Len(s)]
  <2>. SUFFICES ASSUME NEW i \in 1..Len(t)
                PROVE  \/ i \in 1..Len(s) /\ t[i] = s[i]
                       \/ i - Len(s) \in 1..Len(r) /\ t[i] = r[i - Len(s)]
    OBVIOUS
  <2>. HIDE DEF t
  <2>1. CASE i <= Len(s)  BY <1>2, <2>1
  <2>2. CASE ~(i <= Len(s))  BY <1>2, <2>2
  <2>. QED BY <2>1, <2>2
<1>. HIDE DEF t
<1>6. \A i \in 1..Len(t) : t[i].action \in A \cup B /\ t[i].chord = km[t[i].action]
  BY <1>5 DEF Resolves
<1>7. \A a \in A \cup B : km[a] \in Chords => \E i \in 1..Len(t) : t[i].action = a
  <2>. SUFFICES ASSUME NEW a \in A \cup B, km[a] \in Chords
                PROVE  \E i \in 1..Len(t) : t[i].action = a
    OBVIOUS
  <2>1. CASE a \in A
    <3>1. PICK i \in 1..Len(s) : s[i].action = a  BY <2>1 DEF Resolves
    <3>. QED BY <1>3, <3>1
  <2>2. CASE a \in B
    <3>1. PICK i \in 1..Len(r) : r[i].action = a  BY <2>2 DEF Resolves
    <3>. QED BY <1>4, <3>1
  <2>. QED BY <2>1, <2>2
<1>8. ASSUME NEW i \in 1..Len(t), NEW j \in 1..Len(t), i # j
      PROVE  t[i].action # t[j].action
  <2>1. CASE i \in 1..Len(s) /\ j \in 1..Len(s)
    BY <1>3, <1>8, <2>1 DEF Resolves, Apart
  <2>2. CASE i - Len(s) \in 1..Len(r) /\ j - Len(s) \in 1..Len(r)
             /\ t[i] = r[i - Len(s)] /\ t[j] = r[j - Len(s)]
    <3>1. i - Len(s) # j - Len(s)  BY <1>2, <1>8
    <3>. QED BY <2>2, <3>1 DEF Resolves, Apart
  <2>3. CASE i \in 1..Len(s) /\ j - Len(s) \in 1..Len(r) /\ t[i] = s[i] /\ t[j] = r[j - Len(s)]
    <3>1. t[i].action \in A /\ t[j].action \in B  BY <2>3 DEF Resolves
    <3>. QED BY <3>1
  <2>4. CASE j \in 1..Len(s) /\ i - Len(s) \in 1..Len(r) /\ t[j] = s[j] /\ t[i] = r[i - Len(s)]
    <3>1. t[j].action \in A /\ t[i].action \in B  BY <2>4 DEF Resolves
    <3>. QED BY <3>1
  <2>. QED BY <1>5, <2>1, <2>2, <2>3, <2>4
<1>9. Apart(t)  BY <1>8 DEF Apart
<1>. QED BY <1>2, <1>6, <1>7, <1>9 DEF Resolves, t

LEMMA KeymapResolves ==
  ASSUME NEW km
  PROVE  Resolves(km, resolve(km), Actions)
<1>1. All[1] = "restart" /\ All[2] = "flush" /\ All[3] = "pause"  BY DEF All
<1>2. Resolves(km, Entry(km, "restart"), {"restart"})  BY EntryResolves DEF Actions
<1>3. Resolves(km, Entry(km, "flush"), {"flush"})  BY EntryResolves DEF Actions
<1>4. Resolves(km, Entry(km, "pause"), {"pause"})  BY EntryResolves DEF Actions
<1>5. Resolves(km, Entry(km, "restart") \o Entry(km, "flush"), {"restart"} \cup {"flush"})
  <2>1. {"restart"} \cap {"flush"} = {}  OBVIOUS
  <2>. QED BY <1>2, <1>3, <2>1, JoinResolves
<1>6. Resolves(km, (Entry(km, "restart") \o Entry(km, "flush")) \o Entry(km, "pause"),
               ({"restart"} \cup {"flush"}) \cup {"pause"})
  <2>1. ({"restart"} \cup {"flush"}) \cap {"pause"} = {}  OBVIOUS
  <2>. QED BY <1>4, <1>5, <2>1, JoinResolves
<1>7. ({"restart"} \cup {"flush"}) \cup {"pause"} = Actions  BY DEF Actions
<1>8. resolve(km) = (Entry(km, "restart") \o Entry(km, "flush")) \o Entry(km, "pause")
  BY <1>1 DEF resolve
<1>. QED BY <1>6, <1>7, <1>8

LEMMA BindingsAre ==
  ASSUME NEW file, NEW b
  PROVE  b \in Bindings(file) <=> b \in Binding /\ load_keymap(file)[b.action] = b.chord
<1>. DEFINE km == load_keymap(file)
            s == resolve(km)
<1>1. Resolves(km, s, Actions)  BY KeymapResolves
<1>2. b \in Bindings(file) <=> \E i \in 1..Len(s) : b = s[i]  BY DEF Bindings
<1>. HIDE DEF km, s
<1>3. ASSUME NEW i \in 1..Len(s), b = s[i]
      PROVE  b \in Binding /\ km[b.action] = b.chord
  BY <1>1, <1>3 DEF Resolves
<1>4. ASSUME b \in Binding, km[b.action] = b.chord
      PROVE  \E i \in 1..Len(s) : b = s[i]
  <2>1. b.action \in Actions /\ km[b.action] \in Chords  BY <1>4 DEF Binding
  <2>2. PICK i \in 1..Len(s) : s[i].action = b.action  BY <1>1, <2>1 DEF Resolves
  <2>3. s[i] \in Binding /\ s[i].chord = km[b.action]  BY <1>1, <2>2 DEF Resolves
  <2>4. s[i] = b  BY <1>4, <2>2, <2>3 DEF Binding
  <2>. QED BY <2>4
<1>5. (\E i \in 1..Len(s) : b = s[i]) <=> (b \in Binding /\ km[b.action] = b.chord)
  BY <1>3, <1>4
<1>. QED BY <1>2, <1>5 DEF km

(* What a request makes of the keymap.                                     *)
LEMMA Loaded ==
  ASSUME NEW file, NEW a \in Actions, NEW x \in Actions
  PROVE  /\ load_keymap(unbind(file, a))[x] = IF x = a THEN Unbound ELSE load_keymap(file)[x]
         /\ load_keymap(reset)[x] = default_binding(x)
<1>. USE DEF load_keymap, read_overrides, Json
<1>1. load_keymap(unbind(file, a))[x] = IF x = a THEN Unbound ELSE load_keymap(file)[x]
  BY DEF unbind
<1>2. load_keymap(reset)[x] = default_binding(x)
  BY DEF reset
<1>. QED BY <1>1, <1>2

LEMMA LoadedBound ==
  ASSUME NEW file, NEW a \in Actions, NEW c, NEW x \in Actions
  PROVE  /\ x = a => load_keymap(bind(file, a, c))[x] = c
         /\ x # a => load_keymap(bind(file, a, c))[x] = load_keymap(file)[x]
BY DEF bind, load_keymap, read_overrides, Json

LEMMA NotTaken ==
  ASSUME NEW file, NEW a, NEW c \in Chords, ~taken(file, a, c), NEW x \in Actions \ {a}
  PROVE  load_keymap(file)[x] # c
<1>. SUFFICES ASSUME load_keymap(file)[x] = c  PROVE FALSE
  OBVIOUS
<1>. DEFINE b == [action |-> x, chord |-> c]
<1>1. b \in Binding /\ b.action = x /\ b.chord = c  BY DEF Binding
<1>. HIDE DEF b
<1>2. b \in Bindings(file)  BY <1>1, BindingsAre
<1>. QED BY <1>1, <1>2 DEF taken

LEMMA DefaultsSingle == Single([a \in Actions |-> default_binding(a)])
BY DEF Single, Actions, default_binding, Chords, Unbound

LEMMA ChangeSingle ==
  ASSUME NEW c \in Changes, Single(load_keymap(keymap.file)),
         c[1] = "bind" => \A a \in Actions \ {c[2]} : load_keymap(keymap.file)[a] # c[3]
  PROVE  Single(load_keymap(Changed(c)))
<1>. DEFINE km == load_keymap(keymap.file)
            kn == load_keymap(Changed(c))
<1>1. CASE c = <<"reset">>
  <2>1. Changed(c) = reset  BY <1>1 DEF Changed
  <2>2. \A x \in Actions : kn[x] = default_binding(x)  BY <2>1, Loaded
  <2>. HIDE DEF kn
  <2>. QED BY <2>2, DefaultsSingle DEF Single, kn
<1>2. ASSUME NEW a \in Actions, c = <<"unbind", a>>  PROVE Single(kn)
  <2>1. Changed(c) = unbind(keymap.file, a)  BY <1>2 DEF Changed
  <2>2. \A x \in Actions : kn[x] = IF x = a THEN Unbound ELSE km[x]  BY <2>1, Loaded
  <2>3. Unbound \notin Chords  BY DEF Unbound, Chords
  <2>. HIDE DEF kn
  <2>. QED BY <2>2, <2>3 DEF Single
<1>3. ASSUME NEW a \in Actions, NEW k \in Chords, c = <<"bind", a, k>>  PROVE Single(kn)
  <2>1. Changed(c) = bind(keymap.file, a, k)  BY <1>3 DEF Changed
  <2>2. \A x \in Actions : (x = a => kn[x] = k) /\ (x # a => kn[x] = km[x])
    BY <2>1, LoadedBound
  <2>3. \A x \in Actions \ {a} : km[x] # k  BY <1>3
  <2>. HIDE DEF kn
  <2>. QED BY <2>2, <2>3 DEF Single
<1>. QED BY <1>1, <1>2, <1>3, KeysAssumption

-----------------------------------------------------------------------------
(* What a step leaves as it was.                                           *)
SameTurn == /\ \A t \in Setters : K(t)' = K(t) /\ W(t)' = W(t)
            /\ \A n : (Current(n)' <=> Current(n)) /\ (Joined(n)' <=> Joined(n))

LEMMA SameTurns ==
  ASSUME Threads, ExtShape, Turns, UNCHANGED <<ext, setter>>, Len(pumps)' = Len(pumps)
  PROVE  SameTurn /\ Threads' /\ ExtShape' /\ Turns'
<1>1. \A t \in Setters : K(t)' = K(t) /\ W(t)' = W(t)
  BY DEF K, W, Kind, About
<1>2. ASSUME NEW n  PROVE (Current(n)' <=> Current(n)) /\ (Joined(n)' <=> Joined(n))
  BY <1>1 DEF Current, Joined
<1>3. (Programs)' = Programs  BY DEF Programs
<1>4. Threads' /\ ExtShape'  BY <1>3 DEF Threads, ExtShape
<1>5. \A t \in Setters : Locked(t)' <=> Locked(t)  BY <1>1 DEF Locked
<1>6. Turns'  BY <1>1, <1>5 DEF Turns
<1>. QED BY <1>1, <1>2, <1>4, <1>6 DEF SameTurn

LEMMA TriedKept ==
  ASSUME NEW n, PumpShape(pumps[n]), Tried(n), Kept(n), pumps[n].todo' = pumps[n].todo,
         \A c \in Chords : \A a : os.owner[c] = <<n, a>> => os'.owner[c] = <<n, a>>
  PROVE  Tried(n)'
<1>1. Apart(pumps[n].bindings)' /\ Apart(pumps[n].todo)'  BY DEF Tried, Kept, Apart
<1>2. ToTry(pumps[n])'  BY DEF Tried, Kept, ToTry
<1>3. ASSUME NEW i \in 1..Len(pumps[n].bindings)
      PROVE  Settled(pumps[n], n, i)'
  <2>. DEFINE b == pumps[n].bindings[i]
  <2>1. b.chord \in Chords
    <3>1. b \in Binding  BY DEF PumpShape
    <3>. QED BY <3>1 DEF Binding
  <2>2. Settled(pumps[n], n, i)  BY DEF Tried
  <2>. QED BY <2>1, <2>2 DEF Settled, Kept
<1>4. \A i \in 1..Len(pumps[n].bindings)' : Settled(pumps[n], n, i)'
  BY <1>3 DEF Kept
<1>. QED BY <1>1, <1>2, <1>4 DEF Tried

LEMMA FreshKept ==
  ASSUME Fresh, keymap' = keymap,
         \A n \in 1..Len(pumps') : Current(n)' =>
           n \in 1..Len(pumps) /\ Current(n) /\ pumps[n].bindings' = pumps[n].bindings,
         \A t \in Setters : /\ K(t) = "reload" => K(t)' = "reload"
                            /\ K(t)' = "save" => K(t) = "save" /\ W(t)' = W(t)
  PROVE  Fresh'
<1>. SUFFICES ASSUME ~keymap.edited
              PROVE  Fresh'
  BY DEF Fresh
<1>. DEFINE km == load_keymap(keymap.file)
<1>1. ASSUME NEW n \in 1..Len(pumps'), Current(n)'
      PROVE  pumps[n].bindings' = resolve(km) \/ \E t \in Setters : K(t)' = "reload"
  BY <1>1 DEF Fresh
<1>2. Single(km) /\ keymap.hint = next_section_label(keymap.file)  BY DEF Fresh
<1>3. ASSUME NEW t \in Setters, K(t)' = "save", W(t)'[1] = "bind",
             NEW a \in Actions \ {W(t)'[2]}
      PROVE  km[a] # W(t)'[3]
  BY <1>3 DEF Fresh
<1>4. (load_keymap(keymap.file))' = km
      /\ next_section_label(keymap.file)' = next_section_label(keymap.file)
  BY DEF load_keymap, next_section_label, read_overrides
<1>5. resolve(load_keymap(keymap.file))' = resolve(km) /\ (Single(load_keymap(keymap.file))' <=> Single(km))
  BY <1>4 DEF resolve, Entry, Single
<1>. HIDE DEF km
<1>. QED BY <1>1, <1>2, <1>3, <1>4, <1>5 DEF Fresh

LEMMA OwnedKept ==
  ASSUME Owned, NEW c \in Chords, os'.owner[c] = os.owner[c], Len(pumps)' = Len(pumps),
         \A n \in 1..Len(pumps), a \in Actions : OwnedBy(c, n, a) =>
           /\ pumps[n].at' # "gone" /\ a \in pumps[n].ids'
           /\ pumps[n].bindings' = pumps[n].bindings
  PROVE  os'.owner[c] \in {Free, Other} \/ \E n \in 1..Len(pumps'), a \in Actions : OwnedBy(c, n, a)'
<1>1. CASE os.owner[c] \in {Free, Other}  BY <1>1
<1>2. CASE \E n \in 1..Len(pumps), a \in Actions : OwnedBy(c, n, a)
  <2>1. PICK n \in 1..Len(pumps), a \in Actions : OwnedBy(c, n, a)  BY <1>2
  <2>2. OwnedBy(c, n, a)'  BY <2>1 DEF OwnedBy
  <2>. QED BY <2>1, <2>2
<1>. QED BY <1>1, <1>2 DEF Owned

-----------------------------------------------------------------------------
(* The steps of the hotkey threads.                                        *)
LEMMA OsSame == OsShape /\ UNCHANGED os => OsShape'
BY DEF OsShape
LEMMA KeymapSame == KeymapShape /\ UNCHANGED keymap => KeymapShape'
BY DEF KeymapShape

LEMMA HeldUnseen ==
  ASSUME Held, Unseen, UNCHANGED <<keymap, ext, setter>>, OsShape', os'.owner = os.owner
  PROVE  Held'
<1>1. Threads /\ PumpsShape /\ ExtShape /\ KeymapShape /\ Turns /\ Alive /\ Owned /\ Registered /\ Fresh
  BY DEF Held, KeyShape
<1>2. PumpsShape' /\ Len(pumps)' = Len(pumps)  BY DEF Unseen
<1>3. SameTurn /\ Threads' /\ ExtShape' /\ Turns'  BY <1>1, <1>2, SameTurns
<1>4. KeyShape'  BY <1>1, <1>2, <1>3, KeymapSame DEF KeyShape
<1>5. Alive'
  BY <1>1, <1>2, <1>3 DEF Alive, Unseen, Seen, SameTurn
<1>6. Owned'
  <2>. SUFFICES ASSUME NEW c \in Chords
                PROVE  \/ os'.owner[c] \in {Free, Other}
                       \/ \E n \in 1..Len(pumps'), a \in Actions : OwnedBy(c, n, a)'
    BY DEF Owned
  <2>1. \A n \in 1..Len(pumps) : /\ pumps[n].at' = pumps[n].at /\ pumps[n].ids' = pumps[n].ids
                                 /\ pumps[n].bindings' = pumps[n].bindings
    BY DEF Unseen, Seen, Kept
  <2>2. ASSUME NEW m \in 1..Len(pumps), NEW a \in Actions, OwnedBy(c, m, a)
        PROVE  pumps[m].at' # "gone" /\ a \in pumps[m].ids' /\ pumps[m].bindings' = pumps[m].bindings
    BY <2>1, <2>2 DEF OwnedBy
  <2>. QED BY <1>1, <1>2, <2>2, OwnedKept
<1>7. Registered'
  <2>. SUFFICES ASSUME NEW n \in 1..Len(pumps'), Current(n)'
                PROVE  Tried(n)'
    BY DEF Registered
  <2>1. n \in 1..Len(pumps) /\ Current(n)  BY <1>2, <1>3 DEF SameTurn
  <2>2. Tried(n) /\ PumpShape(pumps[n])  BY <1>1, <2>1 DEF Registered, PumpsShape
  <2>3. Kept(n) /\ pumps[n].todo' = pumps[n].todo  BY <2>1 DEF Unseen, Seen
  <2>. QED BY <2>2, <2>3, TriedKept
<1>8. Fresh'
  BY <1>1, <1>2, <1>3, FreshKept DEF SameTurn, Unseen, Seen, Kept
<1>. QED BY <1>3, <1>4, <1>5, <1>6, <1>7, <1>8 DEF Held

LEMMA HeldPump ==
  ASSUME Held, NEW n \in 1..Len(pumps), Pump(n)
  PROVE  Held'
<1>1. Threads /\ PumpsShape /\ ExtShape /\ KeymapShape /\ OsShape
      /\ Turns /\ Alive /\ Owned /\ Registered /\ Fresh
  BY DEF Held, KeyShape
<1>2. /\ UNCHANGED <<os, keymap, ext, setter>> /\ Alone(n) /\ Kept(n)
      /\ pumps[n].at = "waiting" /\ pumps[n].messages # <<>>
      /\ pumps[n].todo = <<>> /\ pumps[n].todo' = <<>>
      /\ pumps[n].messages' = Tail(pumps[n].messages)
      /\ pumps[n].at' = IF Head(pumps[n].messages) = "quit" THEN "stopping" ELSE "waiting"
  BY <1>1, PumpTakes
<1>3. PumpsShape' /\ Len(pumps)' = Len(pumps)
      /\ \A m \in 1..Len(pumps) \ {n} : pumps[m]' = pumps[m]
  BY <1>2 DEF Alone
<1>4. SameTurn /\ Threads' /\ ExtShape' /\ Turns'  BY <1>1, <1>2, <1>3, SameTurns
<1>5. KeyShape'  BY <1>1, <1>2, <1>3, <1>4, KeymapSame, OsSame DEF KeyShape
<1>6. \A m \in 1..Len(pumps) : Kept(m) /\ pumps[m].todo' = pumps[m].todo
  BY <1>2, <1>3 DEF Kept
<1>7. Alive'
  <2>. SUFFICES ASSUME NEW m \in 1..Len(pumps)
                PROVE  /\ pumps[m].at' # "gone" => Current(m)' \/ Joined(m)'
                       /\ Current(m)' => pumps[m].at' = "waiting" /\ pumps[m].messages' \in Seq(Actions)
                       /\ pumps[m].todo' # <<>> =>
                            m = Len(pumps)' /\ \E t \in Setters : K(t)' = "ready"
    BY <1>3 DEF Alive
  <2>1. CASE m # n
    <3>1. pumps[m]' = pumps[m]  BY <1>3, <2>1
    <3>. QED BY <1>1, <1>3, <1>4, <3>1 DEF Alive, SameTurn
  <2>2. CASE m = n
    <3>1. Current(n) \/ Joined(n)  BY <1>1, <1>2 DEF Alive
    <3>2. ASSUME Current(n)
          PROVE  pumps[n].at' = "waiting" /\ pumps[n].messages' \in Seq(Actions)
      <4>1. pumps[n].messages \in Seq(Actions)  BY <1>1, <3>2 DEF Alive
      <4>2. Head(pumps[n].messages) \in Actions /\ Tail(pumps[n].messages) \in Seq(Actions)
        BY <1>2, <4>1
      <4>3. "quit" \notin Actions  BY DEF Actions
      <4>. QED BY <1>2, <4>2, <4>3
    <3>. QED BY <1>2, <1>4, <2>2, <3>1, <3>2 DEF SameTurn
  <2>. QED BY <2>1, <2>2
<1>8. Owned'
  <2>. SUFFICES ASSUME NEW c \in Chords
                PROVE  \/ os'.owner[c] \in {Free, Other}
                       \/ \E m \in 1..Len(pumps'), a \in Actions : OwnedBy(c, m, a)'
    BY DEF Owned
  <2>1. \A m \in 1..Len(pumps) : pumps[m].at # "gone" => pumps[m].at' # "gone"
    BY <1>2, <1>3
  <2>. QED BY <1>1, <1>2, <1>3, <1>6, <2>1, OwnedKept DEF OwnedBy, Kept
<1>9. Registered'
  <2>. SUFFICES ASSUME NEW m \in 1..Len(pumps'), Current(m)'
                PROVE  Tried(m)'
    BY DEF Registered
  <2>1. m \in 1..Len(pumps) /\ Current(m)  BY <1>3, <1>4 DEF SameTurn
  <2>2. Tried(m) /\ PumpShape(pumps[m])  BY <1>1, <2>1 DEF Registered, PumpsShape
  <2>. QED BY <1>2, <1>6, <2>1, <2>2, TriedKept
<1>10. Fresh'
  BY <1>1, <1>2, <1>3, <1>4, <1>6, FreshKept DEF SameTurn, Kept
<1>. QED BY <1>4, <1>5, <1>7, <1>8, <1>9, <1>10 DEF Held

(* A thread that has ended, or only lets chords go, is not the current one.*)
LEMMA NotCurrent ==
  ASSUME Alive, NEW n \in 1..Len(pumps), pumps[n].at # "waiting"
  PROVE  ~Current(n) /\ pumps[n].todo = <<>>
<1>1. ~Current(n)  BY DEF Alive
<1>2. n = Len(pumps) /\ (\E t \in Setters : K(t) = "ready") => Current(n)
  BY DEF Current
<1>. QED BY <1>1, <1>2 DEF Alive

LEMMA HeldUnregister ==
  ASSUME Held, NEW n \in 1..Len(pumps), Unregister(n)
  PROVE  Held'
<1>1. Threads /\ PumpsShape /\ ExtShape /\ KeymapShape /\ OsShape
      /\ Turns /\ Alive /\ Owned /\ Registered /\ Fresh
  BY DEF Held, KeyShape
<1>2. UNCHANGED <<keymap, ext, setter>> /\ pumps[n].at = "stopping"  BY <1>1, UnregisterLets
<1>3. ~Current(n) /\ pumps[n].todo = <<>>  BY <1>1, <1>2, NotCurrent
<1>4. CASE /\ Alone(n) /\ Kept(n) /\ os' = os /\ pumps[n].at' = "gone"
           /\ pumps[n].todo' = pumps[n].todo /\ pumps[n].messages' = pumps[n].messages
           /\ \A c \in Chords : os.owner[c] \notin {<<n, a>> : a \in pumps[n].ids}
  <2>1. PumpsShape' /\ Len(pumps)' = Len(pumps)
        /\ \A m \in 1..Len(pumps) \ {n} : pumps[m]' = pumps[m]
    BY <1>4 DEF Alone
  <2>2. SameTurn /\ Threads' /\ ExtShape' /\ Turns'  BY <1>1, <1>2, <2>1, SameTurns
  <2>3. KeyShape'  BY <1>1, <1>2, <1>4, <2>1, <2>2, KeymapSame, OsSame DEF KeyShape
  <2>4. Alive'
    <3>. SUFFICES ASSUME NEW m \in 1..Len(pumps)
                  PROVE  /\ pumps[m].at' # "gone" => Current(m)' \/ Joined(m)'
                         /\ Current(m)' => pumps[m].at' = "waiting" /\ pumps[m].messages' \in Seq(Actions)
                         /\ pumps[m].todo' # <<>> =>
                              m = Len(pumps)' /\ \E t \in Setters : K(t)' = "ready"
      BY <2>1 DEF Alive
    <3>1. CASE m # n
      <4>1. pumps[m]' = pumps[m]  BY <2>1, <3>1
      <4>. QED BY <1>1, <2>1, <2>2, <4>1 DEF Alive, SameTurn
    <3>2. CASE m = n
      BY <1>3, <1>4, <2>2, <3>2 DEF SameTurn
    <3>. QED BY <3>1, <3>2
  <2>5. Owned'
    <3>. SUFFICES ASSUME NEW c \in Chords
                  PROVE  \/ os'.owner[c] \in {Free, Other}
                         \/ \E m \in 1..Len(pumps'), a \in Actions : OwnedBy(c, m, a)'
      BY DEF Owned
    <3>1. ASSUME NEW m \in 1..Len(pumps), NEW a \in Actions, OwnedBy(c, m, a)
          PROVE  pumps[m].at' # "gone" /\ a \in pumps[m].ids' /\ pumps[m].bindings' = pumps[m].bindings
      <4>1. os.owner[c] = <<m, a>> /\ a \in pumps[m].ids /\ pumps[m].at # "gone"
        BY <3>1 DEF OwnedBy
      <4>2. m # n  BY <1>4, <4>1
      <4>. QED BY <2>1, <4>1, <4>2
    <3>. QED BY <1>1, <1>4, <2>1, <3>1, OwnedKept
  <2>6. Registered'
    <3>. SUFFICES ASSUME NEW m \in 1..Len(pumps'), Current(m)'
                  PROVE  Tried(m)'
      BY DEF Registered
    <3>1. m \in 1..Len(pumps) /\ Current(m)  BY <2>1, <2>2 DEF SameTurn
    <3>2. Tried(m) /\ PumpShape(pumps[m])  BY <1>1, <3>1 DEF Registered, PumpsShape
    <3>3. Kept(m) /\ pumps[m].todo' = pumps[m].todo  BY <1>4, <2>1, <3>1 DEF Kept
    <3>. QED BY <1>4, <3>1, <3>2, <3>3, TriedKept
  <2>7. Fresh'
    <3>1. \A m \in 1..Len(pumps) : pumps[m].bindings' = pumps[m].bindings
      BY <1>4, <2>1 DEF Kept
    <3>. QED BY <1>1, <1>2, <2>1, <2>2, <3>1, FreshKept DEF SameTurn
  <2>. QED BY <2>2, <2>3, <2>4, <2>5, <2>6, <2>7 DEF Held
<1>5. ASSUME pumps' = pumps, NEW d \in Chords, NEW b \in pumps[n].ids, os.owner[d] = <<n, b>>,
             os' = [os EXCEPT !.owner[d] = Free]
      PROVE  Held'
  <2>1. SameTurn /\ Threads' /\ ExtShape' /\ Turns'  BY <1>1, <1>2, <1>5, SameTurns
  <2>2. /\ OsShape' /\ os'.owner[d] = Free
        /\ \A c \in Chords \ {d} : os'.owner[c] = os.owner[c]
    BY <1>1, <1>5 DEF OsShape
  <2>3. Unseen  BY <1>1, <1>5, UnseenSame
  <2>4. KeyShape'  BY <1>1, <1>2, <2>1, <2>2, <2>3, KeymapSame DEF KeyShape, Unseen
  <2>5. Alive'  BY <1>1, <1>5, <2>1 DEF Alive, SameTurn
  <2>6. Owned'
    <3>. SUFFICES ASSUME NEW c \in Chords
                  PROVE  \/ os'.owner[c] \in {Free, Other}
                         \/ \E m \in 1..Len(pumps'), a \in Actions : OwnedBy(c, m, a)'
      BY DEF Owned
    <3>1. CASE c = d  BY <2>2, <3>1
    <3>2. CASE c # d
      <4>1. ASSUME NEW m \in 1..Len(pumps), NEW a \in Actions, OwnedBy(c, m, a)
            PROVE  /\ pumps[m].at' # "gone" /\ a \in pumps[m].ids'
                   /\ pumps[m].bindings' = pumps[m].bindings
        BY <1>5, <4>1 DEF OwnedBy
      <4>2. os'.owner[c] = os.owner[c]  BY <2>2, <3>2
      <4>. QED BY <1>1, <1>5, <4>1, <4>2, OwnedKept
    <3>. QED BY <3>1, <3>2
  <2>7. Registered'
    <3>. SUFFICES ASSUME NEW m \in 1..Len(pumps'), Current(m)'
                  PROVE  Tried(m)'
      BY DEF Registered
    <3>1. m \in 1..Len(pumps) /\ Current(m)  BY <1>5, <2>1 DEF SameTurn
    <3>2. Tried(m) /\ PumpShape(pumps[m])  BY <1>1, <3>1 DEF Registered, PumpsShape
    <3>3. Kept(m) /\ pumps[m].todo' = pumps[m].todo  BY <1>5 DEF Kept
    <3>4. \A c \in Chords : \A a : os.owner[c] = <<m, a>> => os'.owner[c] = <<m, a>>
      <4>1. m # n  BY <1>3, <3>1
      <4>. QED BY <1>5, <2>2, <4>1
    <3>. QED BY <3>1, <3>2, <3>3, <3>4, TriedKept
  <2>8. Fresh'
    BY <1>1, <1>2, <1>5, <2>1, FreshKept DEF SameTurn
  <2>. QED BY <2>1, <2>4, <2>5, <2>6, <2>7, <2>8 DEF Held
<1>6. \/ /\ Alone(n) /\ Kept(n) /\ os' = os /\ pumps[n].at' = "gone"
         /\ pumps[n].todo' = pumps[n].todo /\ pumps[n].messages' = pumps[n].messages
         /\ \A c \in Chords : os.owner[c] \notin {<<n, a>> : a \in pumps[n].ids}
      \/ \E d \in Chords, b \in pumps[n].ids :
           pumps' = pumps /\ os.owner[d] = <<n, b>> /\ os' = [os EXCEPT !.owner[d] = Free]
  BY <1>1, UnregisterLets
<1>. QED BY <1>4, <1>5, <1>6

LEMMA HeldDispatchEnds ==
  ASSUME Held, NEW n \in 1..Len(pumps), DispatchEnds(n)
  PROVE  Held'
<1>1. Threads /\ PumpsShape /\ ExtShape /\ KeymapShape /\ OsShape
      /\ Turns /\ Alive /\ Owned /\ Registered /\ Fresh
  BY DEF Held, KeyShape
<1>2. /\ UNCHANGED <<os, keymap, ext, setter>> /\ Alone(n)
      /\ pumps[n].at = "gone" /\ pumps[n].at' = "gone" /\ pumps[n].todo' = <<>>
  BY <1>1, DispatchLeaves
<1>3. ~Current(n)  BY <1>1, <1>2, NotCurrent
<1>4. PumpsShape' /\ Len(pumps)' = Len(pumps)
      /\ \A m \in 1..Len(pumps) \ {n} : pumps[m]' = pumps[m]
  BY <1>2 DEF Alone
<1>5. SameTurn /\ Threads' /\ ExtShape' /\ Turns'  BY <1>1, <1>2, <1>4, SameTurns
<1>6. KeyShape'  BY <1>1, <1>2, <1>4, <1>5, KeymapSame, OsSame DEF KeyShape
<1>7. Alive'
  <2>. SUFFICES ASSUME NEW m \in 1..Len(pumps)
                PROVE  /\ pumps[m].at' # "gone" => Current(m)' \/ Joined(m)'
                       /\ Current(m)' => pumps[m].at' = "waiting" /\ pumps[m].messages' \in Seq(Actions)
                       /\ pumps[m].todo' # <<>> =>
                            m = Len(pumps)' /\ \E t \in Setters : K(t)' = "ready"
    BY <1>4 DEF Alive
  <2>1. CASE m # n
    <3>1. pumps[m]' = pumps[m]  BY <1>4, <2>1
    <3>. QED BY <1>1, <1>4, <1>5, <3>1 DEF Alive, SameTurn
  <2>2. CASE m = n
    BY <1>2, <1>3, <1>5, <2>2 DEF SameTurn
  <2>. QED BY <2>1, <2>2
<1>8. Owned'
  <2>. SUFFICES ASSUME NEW c \in Chords
                PROVE  \/ os'.owner[c] \in {Free, Other}
                       \/ \E m \in 1..Len(pumps'), a \in Actions : OwnedBy(c, m, a)'
    BY DEF Owned
  <2>1. ASSUME NEW m \in 1..Len(pumps), NEW a \in Actions, OwnedBy(c, m, a)
        PROVE  pumps[m].at' # "gone" /\ a \in pumps[m].ids' /\ pumps[m].bindings' = pumps[m].bindings
    <3>1. a \in pumps[m].ids /\ pumps[m].at # "gone"  BY <2>1 DEF OwnedBy
    <3>2. m # n  BY <1>2, <3>1
    <3>. QED BY <1>4, <3>1, <3>2
  <2>. QED BY <1>1, <1>2, <1>4, <2>1, OwnedKept
<1>9. \A m \in 1..Len(pumps) : Current(m) =>
        pumps[m]' = pumps[m] /\ Kept(m) /\ pumps[m].todo' = pumps[m].todo
  BY <1>3, <1>4 DEF Kept
<1>10. Registered'
  <2>. SUFFICES ASSUME NEW m \in 1..Len(pumps'), Current(m)'
                PROVE  Tried(m)'
    BY DEF Registered
  <2>1. m \in 1..Len(pumps) /\ Current(m)  BY <1>4, <1>5 DEF SameTurn
  <2>2. Tried(m) /\ PumpShape(pumps[m])  BY <1>1, <2>1 DEF Registered, PumpsShape
  <2>. QED BY <1>2, <1>9, <2>1, <2>2, TriedKept
<1>11. Fresh'
  BY <1>1, <1>2, <1>4, <1>5, <1>9, FreshKept DEF SameTurn, Kept
<1>. QED BY <1>5, <1>6, <1>7, <1>8, <1>10, <1>11 DEF Held

(* While a start is awaited every other thread has ended.                  *)
LEMMA ReadyAlone ==
  ASSUME Turns, Alive, NEW t \in Setters, K(t) = "ready", NEW m \in 1..Len(pumps), m # Len(pumps)
  PROVE  ~Current(m) /\ pumps[m].at = "gone"
<1>1. ext.transition = t /\ t # Nobody /\ ext.slot = 0
  BY KeysAssumption DEF Turns, Locked
<1>2. ~Current(m)  BY <1>1 DEF Current
<1>3. ~Joined(m)
  <2>. SUFFICES ASSUME NEW u \in Setters, K(u) \in {"joins", "ends"}
                PROVE  FALSE
    BY DEF Joined
  <2>1. Locked(u)  BY DEF Locked
  <2>2. u = t  BY <1>1, <2>1 DEF Turns
  <2>. QED BY <2>2
<1>. QED BY <1>2, <1>3 DEF Alive

LEMMA TriedRegister ==
  ASSUME NEW n, NEW b, PumpShape(pumps[n]), OsShape, Tried(n), pumps[n].todo # <<>>, n # 0,
         b = Head(pumps[n].todo), b \in Binding,
         pumps[n].bindings' = pumps[n].bindings, pumps[n].todo' = Tail(pumps[n].todo),
         Registers(n, b) \/ Refuses(n, b),
         Refuses(n, b) /\ ~Ours(n, b) => os.owner[b.chord] = Other
  PROVE  Tried(n)'
<1>. DEFINE s == pumps[n].todo
            bs == pumps[n].bindings
<1>1. /\ s \in Seq(Binding) /\ Len(s) \in Nat /\ Len(s) # 0 /\ 1 \in 1..Len(s) /\ s[1] = b
      /\ Tail(s) \in Seq(Binding) /\ Len(Tail(s)) = Len(s) - 1
      /\ \A j \in 1..Len(Tail(s)) : j + 1 \in 1..Len(s) /\ Tail(s)[j] = s[j + 1]
  BY DEF PumpShape
<1>2. \A j \in 1..Len(s) : j # 1 => j - 1 \in 1..Len(Tail(s)) /\ Tail(s)[j - 1] = s[j]
  <2>. SUFFICES ASSUME NEW j \in 1..Len(s), j # 1
                PROVE  j - 1 \in 1..Len(Tail(s)) /\ Tail(s)[j - 1] = s[j]
    OBVIOUS
  <2>1. j - 1 \in 1..Len(Tail(s)) /\ (j - 1) + 1 = j  BY <1>1
  <2>. QED BY <1>1, <2>1
<1>3. /\ Apart(bs) /\ Apart(s)
      /\ \A j \in 1..Len(s) : /\ s[j].action \notin pumps[n].ids \cup DOMAIN pumps[n].errors
                              /\ \E i \in 1..Len(bs) : bs[i] = s[j]
      /\ \A i \in 1..Len(bs) : Settled(pumps[n], n, i)
  BY DEF Tried, ToTry
<1>4. \A j \in 1..Len(Tail(s)) : j + 1 # 1 /\ j \in Nat  BY <1>1
<1>5. /\ pumps[n].ids' \subseteq pumps[n].ids \cup {b.action}
      /\ DOMAIN (pumps[n].errors') \subseteq DOMAIN pumps[n].errors \cup {b.action}
  BY DEF Registers, Refuses
<1>6. pumps[n].todo' = Tail(s) /\ pumps[n].bindings' = bs  OBVIOUS
<1>. HIDE DEF s, bs
<1>7. ASSUME NEW j \in 1..Len(Tail(s))
      PROVE  /\ Tail(s)[j].action \notin pumps[n].ids' \cup DOMAIN (pumps[n].errors')
             /\ \E i \in 1..Len(bs) : bs[i] = Tail(s)[j]
  <2>1. j + 1 \in 1..Len(s) /\ Tail(s)[j] = s[j + 1] /\ j + 1 # 1  BY <1>1, <1>4
  <2>2. s[j + 1].action # b.action  BY <1>1, <1>3, <2>1 DEF Apart
  <2>. QED BY <1>3, <1>5, <2>1, <2>2
<1>8. ASSUME NEW i \in 1..Len(Tail(s)), NEW j \in 1..Len(Tail(s)), i # j
      PROVE  Tail(s)[i].action # Tail(s)[j].action
  <2>1. i + 1 \in 1..Len(s) /\ j + 1 \in 1..Len(s) /\ i + 1 # j + 1  BY <1>1, <1>4, <1>8
  <2>. QED BY <1>1, <1>3, <2>1 DEF Apart
<1>9. ASSUME NEW i \in 1..Len(bs)
      PROVE  \/ \E j \in 1..Len(Tail(s)) : Tail(s)[j] = bs[i]
             \/ os'.owner[bs[i].chord] = <<n, bs[i].action>>
             \/ /\ bs[i].action \in DOMAIN (pumps[n].errors')
                /\ \/ pumps[n].errors'[bs[i].action] = Other
                   \/ \E k \in 1..Len(bs) : k # i /\ bs[k].chord = bs[i].chord
  <2>1. bs[i] \in Binding /\ b.chord \in Chords
    <3>1. bs[i] \in Binding  BY DEF PumpShape, bs
    <3>. QED BY <3>1 DEF Binding
  <2>2. bs[i].chord \in Chords  BY <2>1 DEF Binding
  <2>3. \/ \E j \in 1..Len(s) : s[j] = bs[i]
        \/ os.owner[bs[i].chord] = <<n, bs[i].action>>
        \/ /\ bs[i].action \in DOMAIN pumps[n].errors
           /\ \/ pumps[n].errors[bs[i].action] = Other
              \/ \E k \in 1..Len(bs) : k # i /\ bs[k].chord = bs[i].chord
    BY <1>3 DEF Settled, s, bs
  <2>4. \A c \in Chords : \A a : os.owner[c] = <<n, a>> => os'.owner[c] = <<n, a>>
    <3>1. CASE Refuses(n, b)  BY <3>1 DEF Refuses
    <3>2. CASE Registers(n, b)
      <4>1. \A c \in Chords \ {b.chord} : os'.owner[c] = os.owner[c]
        BY <2>1, <3>2 DEF Registers, OsShape
      <4>2. os.owner[b.chord] = <<0, "free">>  BY <3>2 DEF Registers, Free
      <4>3. \A a : os.owner[b.chord] # <<n, a>>  BY <4>2
      <4>. QED BY <4>1, <4>3
    <3>. QED BY <3>1, <3>2
  <2>5. CASE s[1] = bs[i]
    <3>1. CASE Registers(n, b)
      BY <1>1, <2>1, <2>5, <3>1 DEF Registers, OsShape
    <3>2. CASE Refuses(n, b) /\ ~Ours(n, b)
      BY <1>1, <2>5, <3>2 DEF Refuses
    <3>3. CASE Refuses(n, b) /\ Ours(n, b)
      <4>1. PICK k \in 1..Len(bs) : bs[k].action \in pumps[n].ids /\ bs[k].chord = b.chord
        BY <3>3 DEF Ours, bs
      <4>2. k # i  BY <1>1, <1>3, <2>5, <4>1
      <4>3. bs[i].action \in DOMAIN (pumps[n].errors')  BY <1>1, <2>5, <3>3 DEF Refuses
      <4>. QED BY <1>1, <2>5, <4>1, <4>2, <4>3
    <3>. QED BY <3>1, <3>2, <3>3
  <2>6. ASSUME NEW j \in 1..Len(s), s[j] = bs[i], j # 1
        PROVE  \E k \in 1..Len(Tail(s)) : Tail(s)[k] = bs[i]
    BY <1>2, <2>6
  <2>7. CASE os.owner[bs[i].chord] = <<n, bs[i].action>>
    BY <2>2, <2>4, <2>7
  <2>8. ASSUME bs[i].action \in DOMAIN pumps[n].errors
        PROVE  /\ bs[i].action \in DOMAIN (pumps[n].errors')
               /\ pumps[n].errors'[bs[i].action] = pumps[n].errors[bs[i].action]
    <3>1. b.action \notin DOMAIN pumps[n].errors  BY <1>1, <1>3
    <3>2. CASE Registers(n, b)  BY <2>8, <3>2 DEF Registers
    <3>3. CASE Refuses(n, b)  BY <2>8, <3>1, <3>3 DEF Refuses
    <3>. QED BY <3>2, <3>3
  <2>. QED BY <2>3, <2>5, <2>6, <2>7, <2>8
<1>10. Apart(pumps[n].bindings)' /\ Apart(pumps[n].todo)'
  <2>1. Apart(bs) /\ Apart(Tail(s))  BY <1>3, <1>8 DEF Apart
  <2>. QED BY <1>6, <2>1 DEF Apart
<1>11. ToTry(pumps[n])'  BY <1>6, <1>7 DEF ToTry
<1>12. ASSUME NEW i \in 1..Len(bs)  PROVE Settled(pumps[n], n, i)'
  <2>1. (pumps[n].bindings)'[i] = bs[i]  BY <1>6
  <2>2. \/ \E j \in 1..Len(pumps[n].todo') : pumps[n].todo'[j] = bs[i]
        \/ os'.owner[bs[i].chord] = <<n, bs[i].action>>
        \/ /\ bs[i].action \in DOMAIN (pumps[n].errors')
           /\ \/ pumps[n].errors'[bs[i].action] = Other
              \/ \E k \in 1..Len(pumps[n].bindings') :
                   k # i /\ pumps[n].bindings'[k].chord = bs[i].chord
    <3>1. CASE \E j \in 1..Len(Tail(s)) : Tail(s)[j] = bs[i]
      <4>1. PICK j \in 1..Len(Tail(s)) : Tail(s)[j] = bs[i]  BY <3>1
      <4>. QED BY <1>6, <4>1
    <3>2. CASE os'.owner[bs[i].chord] = <<n, bs[i].action>>  BY <3>2
    <3>3. CASE /\ bs[i].action \in DOMAIN (pumps[n].errors')
               /\ pumps[n].errors'[bs[i].action] = Other
      BY <3>3
    <3>4. ASSUME bs[i].action \in DOMAIN (pumps[n].errors'),
                 NEW k \in 1..Len(bs), k # i, bs[k].chord = bs[i].chord
          PROVE  /\ bs[i].action \in DOMAIN (pumps[n].errors')
                 /\ \E h \in 1..Len(pumps[n].bindings') :
                      h # i /\ pumps[n].bindings'[h].chord = bs[i].chord
      BY <1>6, <3>4
    <3>. QED BY <1>9, <3>1, <3>2, <3>3, <3>4
  <2>. QED BY <2>1, <2>2 DEF Settled
<1>. QED BY <1>6, <1>10, <1>11, <1>12 DEF Tried

LEMMA HeldRegister ==
  ASSUME Held, NEW n \in 1..Len(pumps), Register(n)
  PROVE  Held'
<1>. DEFINE b == Head(pumps[n].todo)
<1>1. Threads /\ PumpsShape /\ ExtShape /\ KeymapShape /\ OsShape
      /\ Turns /\ Alive /\ Owned /\ Registered /\ Fresh
  BY DEF Held, KeyShape
<1>2. /\ pumps[n].todo # <<>> /\ b \in Binding /\ UNCHANGED <<keymap, ext, setter>>
      /\ Alone(n) /\ pumps[n].at' = pumps[n].at /\ pumps[n].messages' = pumps[n].messages
      /\ pumps[n].bindings' = pumps[n].bindings /\ pumps[n].todo' = Tail(pumps[n].todo)
      /\ Registers(n, b) \/ Refuses(n, b)
  BY <1>1, RegisterTries
<1>3. PICK t \in Setters : n = Len(pumps) /\ K(t) = "ready"  BY <1>1, <1>2 DEF Alive
<1>4. Current(n) /\ n # 0  BY <1>3 DEF Current
<1>5. \A m \in 1..Len(pumps) : m # n => ~Current(m) /\ pumps[m].at = "gone"
  BY <1>1, <1>3, ReadyAlone
<1>6. PumpsShape' /\ Len(pumps)' = Len(pumps)
      /\ \A m \in 1..Len(pumps) \ {n} : pumps[m]' = pumps[m]
  BY <1>2 DEF Alone
<1>7. SameTurn /\ Threads' /\ ExtShape' /\ Turns'  BY <1>1, <1>2, <1>6, SameTurns
<1>8. pumps[n].at = "waiting" /\ Tried(n) /\ PumpShape(pumps[n])
  BY <1>1, <1>4 DEF Alive, Registered, PumpsShape
<1>9. b.chord \in Chords /\ b.action \in Actions /\ b = [action |-> b.action, chord |-> b.chord]
  BY <1>2 DEF Binding
<1>. HIDE DEF b
<1>10. /\ OsShape'
       /\ \A c \in Chords : c # b.chord \/ Refuses(n, b) => os'.owner[c] = os.owner[c]
       /\ Registers(n, b) => os'.owner[b.chord] = <<n, b.action>>
  <2>1. CASE Registers(n, b)
    <3>1. ~Refuses(n, b)  BY <2>1 DEF Registers, Refuses
    <3>. QED BY <1>1, <1>9, <2>1, <3>1 DEF Registers, OsShape
  <2>2. CASE Refuses(n, b)
    <3>1. ~Registers(n, b)  BY <2>2 DEF Registers, Refuses
    <3>. QED BY <1>1, <2>2, <3>1 DEF Refuses, OsShape
  <2>. QED BY <1>2, <2>1, <2>2
<1>11. KeyShape'  BY <1>1, <1>2, <1>6, <1>7, <1>10, KeymapSame DEF KeyShape
<1>12. Alive'
  <2>. SUFFICES ASSUME NEW m \in 1..Len(pumps)
                PROVE  /\ pumps[m].at' # "gone" => Current(m)' \/ Joined(m)'
                       /\ Current(m)' => pumps[m].at' = "waiting" /\ pumps[m].messages' \in Seq(Actions)
                       /\ pumps[m].todo' # <<>> =>
                            m = Len(pumps)' /\ \E u \in Setters : K(u)' = "ready"
    BY <1>6 DEF Alive
  <2>1. CASE m # n
    <3>1. pumps[m]' = pumps[m]  BY <1>6, <2>1
    <3>. QED BY <1>1, <1>6, <1>7, <3>1 DEF Alive, SameTurn
  <2>2. CASE m = n
    <3>1. pumps[n].messages \in Seq(Actions)  BY <1>1, <1>4 DEF Alive
    <3>2. K(t)' = "ready"  BY <1>3, <1>7 DEF SameTurn
    <3>. QED BY <1>2, <1>3, <1>4, <1>6, <1>7, <1>8, <2>2, <3>1, <3>2 DEF SameTurn
  <2>. QED BY <2>1, <2>2
<1>13. pumps[n].ids \subseteq pumps[n].ids'  BY <1>2 DEF Registers, Refuses
<1>14. Owned'
  <2>. SUFFICES ASSUME NEW c \in Chords
                PROVE  \/ os'.owner[c] \in {Free, Other}
                       \/ \E m \in 1..Len(pumps'), a \in Actions : OwnedBy(c, m, a)'
    BY DEF Owned
  <2>1. CASE c # b.chord \/ Refuses(n, b)
    <3>1. ASSUME NEW m \in 1..Len(pumps), NEW a \in Actions, OwnedBy(c, m, a)
          PROVE  pumps[m].at' # "gone" /\ a \in pumps[m].ids' /\ pumps[m].bindings' = pumps[m].bindings
      <4>1. a \in pumps[m].ids /\ pumps[m].at # "gone"  BY <3>1 DEF OwnedBy
      <4>2. m = n  BY <1>5, <4>1
      <4>. QED BY <1>2, <1>13, <4>1, <4>2
    <3>2. os'.owner[c] = os.owner[c]  BY <1>10, <2>1
    <3>. QED BY <1>1, <1>6, <3>1, <3>2, OwnedKept
  <2>2. CASE c = b.chord /\ Registers(n, b)
    <3>1. pumps[n].at' # "gone" /\ b.action \in pumps[n].ids'
      BY <1>2, <1>8, <2>2 DEF Registers
    <3>2. PICK i \in 1..Len(pumps[n].bindings) : pumps[n].bindings[i] = b
      <4>1. pumps[n].todo \in Seq(Binding)  BY <1>8 DEF PumpShape
      <4>2. 1 \in 1..Len(pumps[n].todo) /\ pumps[n].todo[1] = b  BY <1>2, <4>1 DEF b
      <4>. QED BY <1>8, <4>2 DEF Tried, ToTry
    <3>3. PICK x \in Actions : x = b.action  BY <1>9
    <3>4. i \in 1..Len(pumps[n].bindings') /\ pumps[n].bindings'[i] = [action |-> x, chord |-> c]
      BY <1>2, <1>9, <2>2, <3>2, <3>3
    <3>5. os'.owner[c] = <<n, x>>  BY <1>10, <2>2, <3>3
    <3>6. OwnedBy(c, n, x)'  BY <3>1, <3>3, <3>4, <3>5 DEF OwnedBy
    <3>. QED BY <1>6, <3>6
  <2>. QED BY <1>2, <2>1, <2>2
<1>15. Refuses(n, b) /\ ~Ours(n, b) => os.owner[b.chord] = Other
  <2>. SUFFICES ASSUME Refuses(n, b), ~Ours(n, b), os.owner[b.chord] # Other
                PROVE  FALSE
    OBVIOUS
  <2>1. os.owner[b.chord] # Free  BY DEF Refuses
  <2>2. PICK m \in 1..Len(pumps), a \in Actions : OwnedBy(b.chord, m, a)
    BY <1>1, <1>9, <2>1 DEF Owned
  <2>3. m = n  BY <1>5, <2>2 DEF OwnedBy
  <2>4. PICK i \in 1..Len(pumps[n].bindings) :
          a \in pumps[n].ids /\ pumps[n].bindings[i] = [action |-> a, chord |-> b.chord]
    BY <2>2, <2>3 DEF OwnedBy
  <2>5. pumps[n].bindings[i].action = a /\ pumps[n].bindings[i].chord = b.chord
    BY <2>4
  <2>. QED BY <2>4, <2>5 DEF Ours
<1>16. Registered'
  <2>. SUFFICES ASSUME NEW m \in 1..Len(pumps'), Current(m)'
                PROVE  Tried(m)'
    BY DEF Registered
  <2>1. m = n  BY <1>5, <1>6, <1>7 DEF SameTurn
  <2>2. Tried(n)'  BY <1>1, <1>2, <1>4, <1>8, <1>15, TriedRegister DEF b
  <2>. QED BY <2>1, <2>2
<1>17. Fresh'
  <2>1. \A m \in 1..Len(pumps) : pumps[m].bindings' = pumps[m].bindings
    BY <1>2, <1>6
  <2>. QED BY <1>1, <1>2, <1>6, <1>7, <2>1, FreshKept DEF SameTurn
<1>. QED BY <1>7, <1>11, <1>12, <1>14, <1>16, <1>17 DEF Held

-----------------------------------------------------------------------------
(* The user and other programs.                                            *)
LEMMA HeldPress ==
  ASSUME Held, NEW c \in Pressed, Press(c)
  PROVE  Held'
<1>. DEFINE o == os.owner[c]
<1>1. Threads /\ PumpsShape /\ ExtShape /\ KeymapShape /\ OsShape
      /\ Turns /\ Alive /\ Owned /\ Registered /\ Fresh
  BY DEF Held, KeyShape
<1>2. UNCHANGED <<keymap, ext, setter>> /\ os' = [os EXCEPT !.down = c] /\ c \in Chords
  BY KeysAssumption DEF Press
<1>3. OsShape' /\ os'.owner = os.owner
  BY <1>1, <1>2 DEF OsShape
<1>4. CASE pumps' = pumps
  BY <1>1, <1>2, <1>3, <1>4, HeldUnseen, UnseenSame
<1>5. CASE o \notin {Free, Other}
  <2>1. PICK n \in 1..Len(pumps), a \in Actions : OwnedBy(c, n, a)
    BY <1>1, <1>2, <1>5 DEF Owned
  <2>2. o[1] = n /\ o[2] = a  BY <2>1 DEF OwnedBy
  <2>3. pumps' = [pumps EXCEPT ![n].messages = Append(@, a)]
    BY <1>5, <2>2 DEF Press
  <2>4. Alone(n) /\ Seen(n) /\ pumps[n].messages' = Append(pumps[n].messages, a)
    BY <1>1, <2>3, QuitSends
  <2>5. PumpsShape' /\ Len(pumps)' = Len(pumps)
        /\ \A m \in 1..Len(pumps) \ {n} : pumps[m]' = pumps[m]
    BY <2>4 DEF Alone
  <2>6. \A m \in 1..Len(pumps) : Seen(m)  BY <2>4, <2>5 DEF Seen, Kept
  <2>7. SameTurn /\ Threads' /\ ExtShape' /\ Turns'  BY <1>1, <1>2, <2>5, SameTurns
  <2>8. KeyShape'  BY <1>1, <1>2, <1>3, <2>5, <2>7, KeymapSame DEF KeyShape
  <2>9. Alive'
    <3>. SUFFICES ASSUME NEW m \in 1..Len(pumps)
                  PROVE  /\ pumps[m].at' # "gone" => Current(m)' \/ Joined(m)'
                         /\ Current(m)' => pumps[m].at' = "waiting" /\ pumps[m].messages' \in Seq(Actions)
                         /\ pumps[m].todo' # <<>> =>
                              m = Len(pumps)' /\ \E t \in Setters : K(t)' = "ready"
      BY <2>5 DEF Alive
    <3>1. pumps[m].messages \in Seq(Actions) => pumps[m].messages' \in Seq(Actions)
      <4>1. CASE m = n
        <5>1. \A q \in Seq(Actions) : Append(q, a) \in Seq(Actions)  OBVIOUS
        <5>. QED BY <2>4, <4>1, <5>1
      <4>2. CASE m # n  BY <2>5, <4>2
      <4>. QED BY <4>1, <4>2
    <3>2. pumps[m].at' = pumps[m].at /\ pumps[m].todo' = pumps[m].todo  BY <2>6 DEF Seen
    <3>. QED BY <1>1, <2>5, <2>7, <3>1, <3>2 DEF Alive, SameTurn
  <2>10. Owned'
    <3>. SUFFICES ASSUME NEW d \in Chords
                  PROVE  \/ os'.owner[d] \in {Free, Other}
                         \/ \E m \in 1..Len(pumps'), e \in Actions : OwnedBy(d, m, e)'
      BY DEF Owned
    <3>1. ASSUME NEW m \in 1..Len(pumps), NEW e \in Actions, OwnedBy(d, m, e)
          PROVE  pumps[m].at' # "gone" /\ e \in pumps[m].ids' /\ pumps[m].bindings' = pumps[m].bindings
      <4>1. e \in pumps[m].ids /\ pumps[m].at # "gone"  BY <3>1 DEF OwnedBy
      <4>. QED BY <2>6, <4>1 DEF Seen, Kept
    <3>. QED BY <1>1, <1>3, <2>5, <3>1, OwnedKept
  <2>11. Registered'
    <3>. SUFFICES ASSUME NEW m \in 1..Len(pumps'), Current(m)'
                  PROVE  Tried(m)'
      BY DEF Registered
    <3>1. m \in 1..Len(pumps) /\ Current(m)  BY <2>5, <2>7 DEF SameTurn
    <3>2. Tried(m) /\ PumpShape(pumps[m])  BY <1>1, <3>1 DEF Registered, PumpsShape
    <3>3. Kept(m) /\ pumps[m].todo' = pumps[m].todo  BY <2>6, <3>1 DEF Seen
    <3>. QED BY <1>3, <3>2, <3>3, TriedKept
  <2>12. Fresh'
    <3>1. \A m \in 1..Len(pumps) : pumps[m].bindings' = pumps[m].bindings
      BY <2>6 DEF Seen, Kept
    <3>. QED BY <1>1, <1>2, <2>5, <2>7, <3>1, FreshKept DEF SameTurn
  <2>. QED BY <2>7, <2>8, <2>9, <2>10, <2>11, <2>12 DEF Held
<1>. QED BY <1>4, <1>5 DEF Press

LEMMA HeldOther ==
  ASSUME Held, NEW c \in Pressed, OtherTakes(c)
  PROVE  Held'
<1>1. Threads /\ PumpsShape /\ ExtShape /\ KeymapShape /\ OsShape
      /\ Turns /\ Alive /\ Owned /\ Registered /\ Fresh
  BY DEF Held, KeyShape
<1>2. /\ UNCHANGED <<keymap, ext, setter, pumps>> /\ os' = [os EXCEPT !.owner[c] = Other]
      /\ c \in Chords /\ os.owner[c] = Free
  BY KeysAssumption DEF OtherTakes
<1>3. OsShape' /\ os'.owner[c] = Other /\ \A d \in Chords \ {c} : os'.owner[d] = os.owner[d]
  BY <1>1, <1>2 DEF OsShape
<1>4. SameTurn /\ Threads' /\ ExtShape' /\ Turns'  BY <1>1, <1>2, SameTurns
<1>5. Unseen  BY <1>1, <1>2, UnseenSame
<1>6. KeyShape'  BY <1>1, <1>2, <1>3, <1>4, <1>5, KeymapSame DEF KeyShape, Unseen
<1>7. Alive'  BY <1>1, <1>2, <1>4 DEF Alive, SameTurn
<1>8. Owned'
  <2>. SUFFICES ASSUME NEW d \in Chords
                PROVE  \/ os'.owner[d] \in {Free, Other}
                       \/ \E m \in 1..Len(pumps'), a \in Actions : OwnedBy(d, m, a)'
    BY DEF Owned
  <2>1. CASE d = c  BY <1>3, <2>1
  <2>2. CASE d # c
    <3>1. ASSUME NEW m \in 1..Len(pumps), NEW a \in Actions, OwnedBy(d, m, a)
          PROVE  pumps[m].at' # "gone" /\ a \in pumps[m].ids' /\ pumps[m].bindings' = pumps[m].bindings
      BY <1>2, <3>1 DEF OwnedBy
    <3>2. os'.owner[d] = os.owner[d]  BY <1>3, <2>2
    <3>. QED BY <1>1, <1>2, <3>1, <3>2, OwnedKept
  <2>. QED BY <2>1, <2>2
<1>9. Registered'
  <2>. SUFFICES ASSUME NEW m \in 1..Len(pumps'), Current(m)'
                PROVE  Tried(m)'
    BY DEF Registered
  <2>1. m \in 1..Len(pumps) /\ Current(m) /\ m # 0  BY <1>2, <1>4 DEF SameTurn
  <2>2. Tried(m) /\ PumpShape(pumps[m])  BY <1>1, <2>1 DEF Registered, PumpsShape
  <2>3. Kept(m) /\ pumps[m].todo' = pumps[m].todo  BY <1>2 DEF Kept
  <2>4. \A d \in Chords : \A a : os.owner[d] = <<m, a>> => os'.owner[d] = <<m, a>>
    <3>1. \A a : os.owner[c] # <<m, a>>  BY <1>2, <2>1 DEF Free
    <3>. QED BY <1>3, <3>1
  <2>. QED BY <2>2, <2>3, <2>4, TriedKept
<1>10. Fresh'
  BY <1>1, <1>2, <1>4, FreshKept DEF SameTurn
<1>. QED BY <1>4, <1>6, <1>7, <1>8, <1>9, <1>10 DEF Held

LEMMA HeldEdit ==
  ASSUME Held, Edit
  PROVE  Held'
<1>1. Threads /\ PumpsShape /\ ExtShape /\ KeymapShape /\ OsShape
      /\ Turns /\ Alive /\ Owned /\ Registered /\ Fresh
  BY DEF Held, KeyShape
<1>2. UNCHANGED <<os, ext, setter, pumps>>  BY DEF Edit
<1>3. PICK file : keymap' = [keymap EXCEPT !.file = file, !.edited = TRUE]
  BY DEF Edit
<1>4. KeymapShape' /\ keymap'.edited
  BY <1>1, <1>3 DEF KeymapShape
<1>5. SameTurn /\ Threads' /\ ExtShape' /\ Turns'  BY <1>1, <1>2, SameTurns
<1>6. Unseen  BY <1>1, <1>2, UnseenSame
<1>7. KeyShape'  BY <1>1, <1>2, <1>4, <1>5, <1>6, OsSame DEF KeyShape, Unseen
<1>8. Alive'  BY <1>1, <1>2, <1>5 DEF Alive, SameTurn
<1>9. Owned'
  <2>. SUFFICES ASSUME NEW c \in Chords
                PROVE  \/ os'.owner[c] \in {Free, Other}
                       \/ \E m \in 1..Len(pumps'), a \in Actions : OwnedBy(c, m, a)'
    BY DEF Owned
  <2>1. ASSUME NEW m \in 1..Len(pumps), NEW a \in Actions, OwnedBy(c, m, a)
        PROVE  pumps[m].at' # "gone" /\ a \in pumps[m].ids' /\ pumps[m].bindings' = pumps[m].bindings
    BY <1>2, <2>1 DEF OwnedBy
  <2>. QED BY <1>1, <1>2, <2>1, OwnedKept
<1>10. Registered'
  <2>. SUFFICES ASSUME NEW m \in 1..Len(pumps'), Current(m)'
                PROVE  Tried(m)'
    BY DEF Registered
  <2>1. m \in 1..Len(pumps) /\ Current(m)  BY <1>2, <1>5 DEF SameTurn
  <2>2. Tried(m) /\ PumpShape(pumps[m])  BY <1>1, <2>1 DEF Registered, PumpsShape
  <2>3. Kept(m) /\ pumps[m].todo' = pumps[m].todo  BY <1>2 DEF Kept
  <2>. QED BY <1>2, <2>2, <2>3, TriedKept
<1>11. Fresh'  BY <1>4 DEF Fresh
<1>. QED BY <1>5, <1>7, <1>8, <1>9, <1>10, <1>11 DEF Held

LEMMA HeldLetGo ==
  ASSUME Held, LetGo
  PROVE  Held'
<1>1. PumpsShape /\ OsShape  BY DEF Held, KeyShape
<1>2. UNCHANGED <<keymap, ext, setter, pumps>> /\ os' = [os EXCEPT !.down = "none"]
  BY DEF LetGo, KeysElse
<1>3. OsShape' /\ os'.owner = os.owner  BY <1>1, <1>2 DEF OsShape
<1>. QED BY <1>1, <1>2, <1>3, HeldUnseen, UnseenSame

-----------------------------------------------------------------------------
(* The steps of the threads with requests.                                 *)
LEMMA PumpsSame ==
  ASSUME PumpsShape, Owned, Registered, UNCHANGED <<os, pumps>>,
         \A n \in 1..Len(pumps) : Current(n)' => Current(n)
  PROVE  PumpsShape' /\ Owned' /\ Registered'
<1>1. PumpsShape'  BY UnseenSame DEF Unseen
<1>2. Owned'
  <2>. SUFFICES ASSUME NEW c \in Chords
                PROVE  \/ os'.owner[c] \in {Free, Other}
                       \/ \E m \in 1..Len(pumps'), a \in Actions : OwnedBy(c, m, a)'
    BY DEF Owned
  <2>1. ASSUME NEW m \in 1..Len(pumps), NEW a \in Actions, OwnedBy(c, m, a)
        PROVE  pumps[m].at' # "gone" /\ a \in pumps[m].ids' /\ pumps[m].bindings' = pumps[m].bindings
    BY <2>1 DEF OwnedBy
  <2>. QED BY <2>1, OwnedKept
<1>3. Registered'
  <2>. SUFFICES ASSUME NEW m \in 1..Len(pumps'), Current(m)'
                PROVE  Tried(m)'
    BY DEF Registered
  <2>1. m \in 1..Len(pumps) /\ Current(m)  OBVIOUS
  <2>2. Tried(m) /\ PumpShape(pumps[m])  BY <2>1 DEF Registered, PumpsShape
  <2>3. Kept(m) /\ pumps[m].todo' = pumps[m].todo  BY DEF Kept
  <2>. QED BY <2>2, <2>3, TriedKept
<1>. QED BY <1>1, <1>2, <1>3

LEMMA CurrentKept ==
  ASSUME ext'.slot = ext.slot, Len(pumps)' = Len(pumps), NEW t \in Setters, Turned(t),
         K(t) # "ready", K(t)' # "ready"
  PROVE  /\ \A n : Current(n)' <=> Current(n)
         /\ (\E u \in Setters : K(u)' = "ready") <=> (\E u \in Setters : K(u) = "ready")
<1>1. (\E u \in Setters : K(u)' = "ready") <=> (\E u \in Setters : K(u) = "ready")
  BY DEF Turned
<1>2. ASSUME NEW n  PROVE Current(n)' <=> Current(n)
  BY <1>1 DEF Current
<1>. QED BY <1>1, <1>2

Asking == {"idle", "check", "save", "reload", "arm", "disarm"}

LEMMA JoinedKept ==
  ASSUME NEW t \in Setters, Turned(t), K(t) \in Asking, K(t)' \in Asking, NEW n
  PROVE  Joined(n)' <=> Joined(n)
<1>1. K(t) \notin {"joins", "ends"} /\ K(t)' \notin {"joins", "ends"}  BY DEF Asking
<1>. QED BY <1>1 DEF Joined, Turned

(* A thread asks on, outside the transition lock.                          *)
LEMMA QuietTurns ==
  ASSUME Turns, Alive, ExtShape, NEW t \in Setters, Turned(t), K(t) \in Asking, K(t)' \in Asking,
         pumps' = pumps, NEW s, ext' = ext \/ ext' = [ext EXCEPT !.set = s],
         \A u \in Setters : K(u)' = "save" => ext'.set = u
  PROVE  /\ Turns' /\ Alive' /\ ExtShape'
         /\ \A n : Current(n)' <=> Current(n)
<1>1. /\ ExtShape' /\ ext'.armed = ext.armed /\ ext'.slot = ext.slot
      /\ ext'.transition = ext.transition
  BY DEF ExtShape
<1>2. K(t) # "ready" /\ K(t)' # "ready"  BY DEF Asking
<1>3. /\ \A n : Current(n)' <=> Current(n)
      /\ (\E u \in Setters : K(u)' = "ready") <=> (\E u \in Setters : K(u) = "ready")
  BY <1>1, <1>2, CurrentKept
<1>4. \A n : Joined(n)' <=> Joined(n)  BY JoinedKept
<1>5. Alive'  BY <1>3, <1>4 DEF Alive
<1>6. ~Locked(t) /\ ~Locked(t)'  BY DEF Locked, Asking
<1>7. ASSUME NEW u \in Setters
      PROVE  /\ Locked(u)' <=> ext'.transition = u
             /\ K(u)' \in {"joins", "start", "ready"} => ext'.armed
             /\ K(u)' \in {"ends", "unlock"} => ~ext'.armed
             /\ K(u)' \in {"joins", "ends"} => W(u)' \in 1..Len(pumps')
             /\ K(u)' = "ready" => Len(pumps') # 0
             /\ K(u)' = "save" => ext'.set = u
  <2>1. CASE u = t
    BY <1>1, <1>6, <2>1 DEF Turns, Asking
  <2>2. CASE u # t
    <3>1. K(u)' = K(u) /\ W(u)' = W(u)  BY <2>2 DEF Turned
    <3>2. Locked(u)' <=> Locked(u)  BY <3>1 DEF Locked
    <3>. QED BY <1>1, <3>1, <3>2 DEF Turns
  <2>. QED BY <2>1, <2>2
<1>8. Turns'  BY <1>1, <1>7 DEF Turns
<1>. QED BY <1>1, <1>3, <1>5, <1>8

LEMMA HeldAsk ==
  ASSUME Held, NEW t \in Setters, SetHotkeys(t) \/ Hold(t)
  PROVE  Held'
<1>1. Threads /\ PumpsShape /\ ExtShape /\ KeymapShape /\ OsShape
      /\ Turns /\ Alive /\ Owned /\ Registered /\ Fresh
  BY DEF Held, KeyShape
<1>2. K(t) = "idle" /\ UNCHANGED <<keymap, os, pumps, ext>>
  BY <1>1, AskTurns
<1>3. PICK k \in {"check", "arm", "disarm"} : TurnsOn(t, k)  BY <1>1, AskTurns
<1>4. Threads' /\ Turned(t) /\ K(t)' = k  BY <1>3 DEF TurnsOn
<1>5. K(t) \in Asking /\ K(t)' \in Asking  BY <1>2, <1>4 DEF Asking
<1>6. \A u \in Setters : /\ K(u)' = "save" => K(u) = "save" /\ W(u)' = W(u)
                         /\ K(u) = "reload" => K(u)' = "reload"
  BY <1>2, <1>4 DEF Turned
<1>7. \A u \in Setters : K(u)' = "save" => ext'.set = u  BY <1>1, <1>2, <1>6 DEF Turns
<1>8. Turns' /\ Alive' /\ ExtShape' /\ \A n : Current(n)' <=> Current(n)
  BY <1>1, <1>2, <1>4, <1>5, <1>7, QuietTurns
<1>9. PumpsShape' /\ Owned' /\ Registered'  BY <1>1, <1>2, <1>8, PumpsSame
<1>10. KeyShape'  BY <1>1, <1>2, <1>4, <1>8, <1>9, KeymapSame, OsSame DEF KeyShape
<1>11. Fresh'  BY <1>1, <1>2, <1>6, <1>8, FreshKept
<1>. QED BY <1>8, <1>9, <1>10, <1>11 DEF Held

LEMMA HeldCheck ==
  ASSUME Held, NEW t \in Setters, Check(t)
  PROVE  Held'
<1>1. Threads /\ PumpsShape /\ ExtShape /\ KeymapShape /\ OsShape
      /\ Turns /\ Alive /\ Owned /\ Registered /\ Fresh
  BY DEF Held, KeyShape
<1>2. /\ K(t) = "check" /\ W(t) \in Changes /\ UNCHANGED <<keymap, os, pumps>>
      /\ \/ ext' = ext /\ TurnsIdle(t)
         \/ /\ ext.set = Nobody /\ ext' = [ext EXCEPT !.set = t]
            /\ TurnsTo(t, "save", W(t)) /\ ~Refused(W(t))
  BY <1>1, CheckTurns
<1>3. Threads' /\ Turned(t)  BY <1>2 DEF TurnsIdle, TurnsTo
<1>4. K(t) \in Asking /\ K(t)' \in Asking  BY <1>2 DEF Asking, TurnsIdle, TurnsTo
<1>5. \A u \in Setters \ {t} : K(u)' = K(u) /\ W(u)' = W(u)  BY <1>3 DEF Turned
<1>6. ASSUME NEW u \in Setters, K(u)' = "save"  PROVE ext'.set = u
  <2>1. CASE u = t
    <3>1. ext' = [ext EXCEPT !.set = t]  BY <1>2, <1>6, <2>1 DEF TurnsIdle
    <3>. QED BY <1>1, <2>1, <3>1 DEF ExtShape
  <2>2. CASE u # t
    <3>1. ext.set = u  BY <1>1, <1>5, <1>6, <2>2 DEF Turns
    <3>2. ext.set # Nobody  BY <3>1, KeysAssumption
    <3>. QED BY <1>2, <3>1, <3>2
  <2>. QED BY <2>1, <2>2
<1>7. Turns' /\ Alive' /\ ExtShape' /\ \A n : Current(n)' <=> Current(n)
  <2>1. ext' = ext \/ ext' = [ext EXCEPT !.set = t]  BY <1>2
  <2>. QED BY <1>1, <1>2, <1>3, <1>4, <1>6, <2>1, QuietTurns
<1>8. PumpsShape' /\ Owned' /\ Registered'  BY <1>1, <1>2, <1>7, PumpsSame
<1>9. KeyShape'  BY <1>1, <1>2, <1>3, <1>7, <1>8, KeymapSame, OsSame DEF KeyShape
<1>10. Fresh'
  <2>1. CASE ext' = ext /\ TurnsIdle(t)
    <3>1. \A u \in Setters : /\ K(u)' = "save" => K(u) = "save" /\ W(u)' = W(u)
                             /\ K(u) = "reload" => K(u)' = "reload"
      BY <1>2, <1>5, <2>1 DEF TurnsIdle
    <3>. QED BY <1>1, <1>2, <1>7, <3>1, FreshKept
  <2>2. CASE TurnsTo(t, "save", W(t)) /\ ~Refused(W(t))
    <3>. SUFFICES ASSUME ~keymap.edited
                  PROVE  Fresh'
      BY <1>2 DEF Fresh
    <3>. DEFINE km == load_keymap(keymap.file)
    <3>1. \A u \in Setters : K(u) = "reload" => K(u)' = "reload"  BY <1>2, <1>5
    <3>2. ASSUME NEW n \in 1..Len(pumps'), Current(n)'
          PROVE  pumps[n].bindings' = resolve(km) \/ \E u \in Setters : K(u)' = "reload"
      BY <1>1, <1>2, <1>7, <3>1, <3>2 DEF Fresh
    <3>3. Single(km) /\ keymap.hint = next_section_label(keymap.file)  BY <1>1 DEF Fresh
    <3>4. ASSUME NEW u \in Setters, K(u)' = "save", W(u)'[1] = "bind",
                 NEW a \in Actions \ {W(u)'[2]}
          PROVE  km[a] # W(u)'[3]
      <4>1. CASE u # t
        <5>1. K(u) = "save" /\ W(u)' = W(u)  BY <1>5, <3>4, <4>1
        <5>. QED BY <1>1, <3>4, <5>1 DEF Fresh
      <4>2. CASE u = t
        <5>1. W(t)' = W(t)  BY <2>2 DEF TurnsTo
        <5>2. W(t)[1] = "bind" /\ ~taken(keymap.file, W(t)[2], W(t)[3])
          BY <2>2, <3>4, <4>2, <5>1 DEF Refused
        <5>3. W(t)[3] \in Chords  BY <1>2, <5>2, KeysAssumption
        <5>. QED BY <3>4, <4>2, <5>1, <5>2, <5>3, NotTaken
      <4>. QED BY <4>1, <4>2
    <3>5. (load_keymap(keymap.file))' = km
          /\ next_section_label(keymap.file)' = next_section_label(keymap.file)
      BY <1>2 DEF load_keymap, next_section_label, read_overrides
    <3>6. resolve(load_keymap(keymap.file))' = resolve(km)
          /\ (Single(load_keymap(keymap.file))' <=> Single(km))
      BY <3>5 DEF resolve, Entry, Single
    <3>. HIDE DEF km
    <3>. QED BY <1>2, <3>2, <3>3, <3>4, <3>5, <3>6 DEF Fresh
  <2>. QED BY <1>2, <2>1, <2>2
<1>. QED BY <1>7, <1>8, <1>9, <1>10 DEF Held

LEMMA HeldSave ==
  ASSUME Held, NEW t \in Setters, Save(t)
  PROVE  Held'
<1>1. Threads /\ PumpsShape /\ ExtShape /\ KeymapShape /\ OsShape
      /\ Turns /\ Alive /\ Owned /\ Registered /\ Fresh
  BY DEF Held, KeyShape
<1>2. /\ K(t) = "save" /\ W(t) \in Changes /\ UNCHANGED <<os, pumps>>
      /\ ext' = [ext EXCEPT !.set = Nobody]
      /\ \/ /\ keymap' = [keymap EXCEPT !.file = Changed(W(t)),
                                        !.hint = next_section_label(Changed(W(t)))]
            /\ TurnsOn(t, "reload")
         \/ keymap' = keymap /\ TurnsIdle(t)
  BY <1>1, SaveTurns
<1>3. Threads' /\ Turned(t)  BY <1>2 DEF TurnsIdle, TurnsOn
<1>4. K(t) \in Asking /\ K(t)' \in Asking /\ K(t)' # "save"
  BY <1>2 DEF Asking, TurnsIdle, TurnsOn
<1>5. \A u \in Setters \ {t} : K(u)' = K(u) /\ W(u)' = W(u)  BY <1>3 DEF Turned
<1>6. \A u \in Setters : K(u)' # "save"
  <2>. SUFFICES ASSUME NEW u \in Setters, K(u)' = "save"  PROVE FALSE
    OBVIOUS
  <2>1. u # t  BY <1>4
  <2>2. K(u) = "save"  BY <1>5, <2>1
  <2>3. ext.set = u /\ ext.set = t  BY <1>1, <1>2, <2>2 DEF Turns
  <2>. QED BY <2>1, <2>3
<1>7. Turns' /\ Alive' /\ ExtShape' /\ \A n : Current(n)' <=> Current(n)
  BY <1>1, <1>2, <1>3, <1>4, <1>6, QuietTurns
<1>8. PumpsShape' /\ Owned' /\ Registered'  BY <1>1, <1>2, <1>7, PumpsSame
<1>9. CASE keymap' = keymap /\ TurnsIdle(t)
  <2>1. KeyShape'  BY <1>1, <1>2, <1>3, <1>7, <1>8, <1>9, KeymapSame, OsSame DEF KeyShape
  <2>2. \A u \in Setters : K(u) = "reload" => K(u)' = "reload"  BY <1>2, <1>5
  <2>3. Fresh'  BY <1>1, <1>2, <1>6, <1>7, <1>9, <2>2, FreshKept
  <2>. QED BY <1>7, <1>8, <2>1, <2>3 DEF Held
<1>10. CASE /\ keymap' = [keymap EXCEPT !.file = Changed(W(t)),
                                        !.hint = next_section_label(Changed(W(t)))]
            /\ TurnsOn(t, "reload")
  <2>. DEFINE file == Changed(W(t))
              hint == next_section_label(file)
  <2>. HIDE DEF file
  <2>1. keymap' = [keymap EXCEPT !.file = file, !.hint = hint]  BY <1>10 DEF file
  <2>. HIDE DEF hint
  <2>2. KeymapShape' /\ keymap'.file = file /\ keymap'.hint = hint
        /\ keymap'.edited = keymap.edited
    BY <1>1, <2>1 DEF KeymapShape
  <2>3. KeyShape'  BY <1>1, <1>2, <1>3, <1>7, <1>8, <2>2, OsSame DEF KeyShape
  <2>4. K(t)' = "reload"  BY <1>10 DEF TurnsOn
  <2>5. ASSUME ~keymap.edited  PROVE Single(load_keymap(file))
    <3>1. Single(load_keymap(keymap.file))  BY <1>1, <2>5 DEF Fresh
    <3>2. W(t)[1] = "bind" => \A a \in Actions \ {W(t)[2]} : load_keymap(keymap.file)[a] # W(t)[3]
      BY <1>1, <1>2, <2>5 DEF Fresh
    <3>. QED BY <1>2, <3>1, <3>2, ChangeSingle DEF file
  <2>6. Single(load_keymap(keymap.file))' <=> Single(load_keymap(file))
    BY <2>2 DEF Single, load_keymap, read_overrides
  <2>7. next_section_label(keymap.file)' = hint
    BY <2>2 DEF next_section_label, load_keymap, read_overrides, hint
  <2>8. Fresh'
    <3>1. ~keymap'.edited => Single(load_keymap(keymap.file))' BY <2>2, <2>5, <2>6
    <3>2. keymap'.hint = next_section_label(keymap.file)'  BY <2>2, <2>7
    <3>. QED BY <1>6, <2>4, <3>1, <3>2 DEF Fresh
  <2>. QED BY <1>7, <1>8, <2>3, <2>8 DEF Held
<1>. QED BY <1>2, <1>9, <1>10

(* Nobody is under the transition lock: no thread is joined or awaited.    *)
LEMMA NoTransition ==
  ASSUME Turns, ext.transition = Nobody
  PROVE  /\ \A t \in Setters : ~Locked(t)
         /\ \A n : ~Joined(n) /\ (Current(n) <=> n # 0 /\ n = ext.slot)
<1>1. \A t \in Setters : ~Locked(t)  BY KeysAssumption DEF Turns
<1>. QED BY <1>1 DEF Locked, Joined, Current

LEMMA HeldRests ==
  ASSUME Held, NEW t \in Setters, Rests(t), K(t) \in {"reload", "arm", "disarm"},
         K(t) = "reload" => ~ext.armed
  PROVE  Held'
<1>1. Threads /\ PumpsShape /\ ExtShape /\ KeymapShape /\ OsShape
      /\ Turns /\ Alive /\ Owned /\ Registered /\ Fresh
  BY DEF Held, KeyShape
<1>2. /\ ext.transition = Nobody /\ Threads' /\ Turned(t) /\ K(t)' = "idle"
      /\ UNCHANGED <<keymap, os, pumps, ext>>
  BY DEF Rests, TurnsIdle
<1>3. K(t) \in Asking /\ K(t)' \in Asking  BY <1>2 DEF Asking
<1>4. \A u \in Setters : K(u)' = "save" => K(u) = "save" /\ W(u)' = W(u)
  BY <1>2 DEF Turned
<1>5. \A u \in Setters : K(u)' = "save" => ext'.set = u  BY <1>1, <1>2, <1>4 DEF Turns
<1>6. Turns' /\ Alive' /\ ExtShape' /\ \A n : Current(n)' <=> Current(n)
  BY <1>1, <1>2, <1>3, <1>5, QuietTurns
<1>7. PumpsShape' /\ Owned' /\ Registered'  BY <1>1, <1>2, <1>6, PumpsSame
<1>8. KeyShape'  BY <1>1, <1>2, <1>6, <1>7, KeymapSame, OsSame DEF KeyShape
<1>9. Fresh'
  <2>1. CASE K(t) = "reload"
    <3>1. ext.slot = 0  BY <1>1, <1>2, <2>1 DEF Turns
    <3>2. \A n : ~Current(n)'  BY <1>1, <1>2, <1>6, <3>1, NoTransition
    <3>. SUFFICES ASSUME ~keymap.edited
                  PROVE  Fresh'
      BY <1>2 DEF Fresh
    <3>. DEFINE km == load_keymap(keymap.file)
    <3>3. Single(km) /\ keymap.hint = next_section_label(keymap.file)  BY <1>1 DEF Fresh
    <3>4. ASSUME NEW u \in Setters, K(u)' = "save", W(u)'[1] = "bind",
                 NEW a \in Actions \ {W(u)'[2]}
          PROVE  km[a] # W(u)'[3]
      BY <1>1, <1>4, <3>4 DEF Fresh
    <3>5. (load_keymap(keymap.file))' = km
          /\ next_section_label(keymap.file)' = next_section_label(keymap.file)
      BY <1>2 DEF load_keymap, next_section_label, read_overrides
    <3>6. Single(load_keymap(keymap.file))' <=> Single(km)  BY <3>5 DEF Single
    <3>. HIDE DEF km
    <3>. QED BY <1>2, <3>2, <3>3, <3>4, <3>5, <3>6 DEF Fresh
  <2>2. CASE K(t) # "reload"
    <3>1. \A u \in Setters : K(u) = "reload" => K(u)' = "reload"
      BY <1>2, <2>2 DEF Turned
    <3>. QED BY <1>1, <1>2, <1>4, <1>6, <3>1, FreshKept
  <2>. QED BY <2>1, <2>2
<1>. QED BY <1>6, <1>7, <1>8, <1>9 DEF Held

LEMMA HeldStops ==
  ASSUME Held, NEW t \in Setters, Restarts(t) \/ Ends(t)
  PROVE  Held'
<1>0. PICK armed \in BOOLEAN, k \in {"start", "unlock"}, j \in {"joins", "ends"} :
        /\ Stops(t, armed, k, j)
        /\ \/ armed = TRUE /\ k = "start" /\ j = "joins"
           \/ armed = FALSE /\ k = "unlock" /\ j = "ends"
  BY DEF Restarts, Ends
<1>1. Threads /\ PumpsShape /\ ExtShape /\ KeymapShape /\ OsShape
      /\ Turns /\ Alive /\ Owned /\ Registered /\ Fresh
  BY DEF Held, KeyShape
<1>2. /\ ext.transition = Nobody /\ UNCHANGED <<keymap, os>>
      /\ ext' = [ext EXCEPT !.armed = armed, !.transition = t, !.slot = 0]
      /\ \/ ext.slot = 0 /\ pumps' = pumps /\ TurnsOn(t, k)
         \/ ext.slot # 0 /\ Quit(ext.slot) /\ TurnsTo(t, j, ext.slot)
  BY <1>0 DEF Stops
<1>3. /\ ext' = [armed |-> armed, shut |-> ext.shut, set |-> ext.set, transition |-> t, slot |-> 0]
  BY <1>1, <1>2 DEF ExtShape
<1>4. Threads' /\ Turned(t)  BY <1>2 DEF TurnsOn, TurnsTo
<1>5. \/ ext.slot = 0 /\ K(t)' = k /\ pumps' = pumps
      \/ ext.slot # 0 /\ K(t)' = j /\ W(t)' = ext.slot /\ Quit(ext.slot)
  BY <1>2 DEF TurnsOn, TurnsTo
<1>6. \/ armed = TRUE /\ k = "start" /\ j = "joins"
      \/ armed = FALSE /\ k = "unlock" /\ j = "ends"
  BY <1>0
<1>7. \A u \in Setters \ {t} : K(u)' = K(u) /\ W(u)' = W(u)  BY <1>4 DEF Turned
<1>8. /\ \A u \in Setters : ~Locked(u)
      /\ \A n : ~Joined(n) /\ (Current(n) <=> n # 0 /\ n = ext.slot)
  BY <1>1, <1>2, NoTransition
<1>9. /\ PumpsShape' /\ Len(pumps)' = Len(pumps)
      /\ \A m \in 1..Len(pumps) : Seen(m)
  <2>1. CASE pumps' = pumps
    BY <1>1, <2>1, UnseenSame DEF Unseen
  <2>2. CASE ext.slot # 0 /\ Quit(ext.slot)
    <3>1. PICK n \in 1..Len(pumps) : n = ext.slot  BY <1>1, <2>2 DEF ExtShape, PumpsShape
    <3>2. Alone(n) /\ Seen(n)  BY <1>1, <2>2, <3>1, QuitSends DEF Quit
    <3>. QED BY <3>2 DEF Alone, Seen, Kept
  <2>. QED BY <1>5, <2>1, <2>2
<1>10. \A u \in Setters : K(u)' # "ready"
  BY <1>5, <1>6, <1>7, <1>8 DEF Locked
<1>11. \A n : ~Current(n)'  BY <1>3, <1>10 DEF Current
<1>12. \A m \in 1..Len(pumps) : pumps[m].todo = <<>>
  BY <1>1, <1>8 DEF Alive, Locked
<1>13. ExtShape'
  BY <1>1, <1>3, <1>9 DEF ExtShape, PumpsShape
<1>14. KeyShape'  BY <1>1, <1>2, <1>4, <1>9, <1>13, KeymapSame, OsSame DEF KeyShape
<1>15. Alive'
  <2>. SUFFICES ASSUME NEW m \in 1..Len(pumps)
                PROVE  (pumps[m].at' # "gone" => Joined(m)') /\ pumps[m].todo' = <<>>
    BY <1>9, <1>11 DEF Alive
  <2>1. pumps[m].todo' = <<>>  BY <1>9, <1>12 DEF Seen
  <2>2. ASSUME pumps[m].at' # "gone"  PROVE Joined(m)'
    <3>1. Current(m)  BY <1>1, <1>8, <1>9, <2>2 DEF Alive, Seen
    <3>2. K(t)' = j /\ W(t)' = m  BY <1>5, <1>8, <3>1
    <3>. QED BY <1>6, <3>2 DEF Joined
  <2>. QED BY <2>1, <2>2
<1>16. Turns'
  <2>1. ext'.transition = t /\ ext'.slot = 0 /\ ext'.armed = armed /\ ext'.set = ext.set
    BY <1>3
  <2>2. t # Nobody  BY KeysAssumption
  <2>3. ASSUME NEW u \in Setters
        PROVE  /\ Locked(u)' <=> ext'.transition = u
               /\ K(u)' \in {"joins", "start", "ready"} => ext'.armed
               /\ K(u)' \in {"ends", "unlock"} => ~ext'.armed
               /\ K(u)' \in {"joins", "ends"} => W(u)' \in 1..Len(pumps')
               /\ K(u)' = "ready" => Len(pumps') # 0
               /\ K(u)' = "save" => ext'.set = u
    <3>1. CASE u = t
      <4>1. ext.slot # 0 => ext.slot \in 1..Len(pumps)  BY <1>1 DEF ExtShape, PumpsShape
      <4>. QED BY <1>5, <1>6, <1>9, <2>1, <3>1, <4>1 DEF Locked
    <3>2. CASE u # t
      <4>1. K(u)' = K(u) /\ W(u)' = W(u)  BY <1>7, <3>2
      <4>2. ~Locked(u) /\ ~Locked(u)'  BY <1>8, <4>1 DEF Locked
      <4>. QED BY <1>1, <2>1, <3>2, <4>1, <4>2 DEF Turns, Locked
    <3>. QED BY <3>1, <3>2
  <2>. QED BY <2>1, <2>2, <2>3 DEF Turns
<1>17. Owned'
  <2>. SUFFICES ASSUME NEW c \in Chords
                PROVE  \/ os'.owner[c] \in {Free, Other}
                       \/ \E m \in 1..Len(pumps'), a \in Actions : OwnedBy(c, m, a)'
    BY DEF Owned
  <2>1. ASSUME NEW m \in 1..Len(pumps), NEW a \in Actions, OwnedBy(c, m, a)
        PROVE  pumps[m].at' # "gone" /\ a \in pumps[m].ids' /\ pumps[m].bindings' = pumps[m].bindings
    <3>1. a \in pumps[m].ids /\ pumps[m].at # "gone"  BY <2>1 DEF OwnedBy
    <3>. QED BY <1>9, <3>1 DEF Seen, Kept
  <2>. QED BY <1>1, <1>2, <1>9, <2>1, OwnedKept
<1>18. Registered'  BY <1>11 DEF Registered
<1>19. Fresh'
  <2>1. \A u \in Setters : /\ K(u)' = "save" => K(u) = "save" /\ W(u)' = W(u)
    BY <1>5, <1>6, <1>7
  <2>. SUFFICES ASSUME ~keymap.edited
                PROVE  Fresh'
    BY <1>2 DEF Fresh
  <2>. DEFINE km == load_keymap(keymap.file)
  <2>3. Single(km) /\ keymap.hint = next_section_label(keymap.file)  BY <1>1 DEF Fresh
  <2>4. ASSUME NEW u \in Setters, K(u)' = "save", W(u)'[1] = "bind",
               NEW a \in Actions \ {W(u)'[2]}
        PROVE  km[a] # W(u)'[3]
    BY <1>1, <2>1, <2>4 DEF Fresh
  <2>5. (load_keymap(keymap.file))' = km
        /\ next_section_label(keymap.file)' = next_section_label(keymap.file)
    BY <1>2 DEF load_keymap, next_section_label, read_overrides
  <2>6. Single(load_keymap(keymap.file))' <=> Single(km)  BY <2>5 DEF Single
  <2>. HIDE DEF km
  <2>. QED BY <1>2, <1>11, <2>3, <2>4, <2>5, <2>6 DEF Fresh
<1>. QED BY <1>14, <1>15, <1>16, <1>17, <1>18, <1>19 DEF Held

LEMMA HeldJoin ==
  ASSUME Held, NEW t \in Setters, Join(t)
  PROVE  Held'
<1>1. Threads /\ PumpsShape /\ ExtShape /\ KeymapShape /\ OsShape
      /\ Turns /\ Alive /\ Owned /\ Registered /\ Fresh
  BY DEF Held, KeyShape
<1>2. /\ UNCHANGED <<keymap, os, pumps, ext>> /\ pumps[W(t)] = Gone
      /\ \/ K(t) = "joins" /\ TurnsOn(t, "start")
         \/ K(t) = "ends" /\ TurnsOn(t, "unlock")
  BY <1>1, JoinTurns
<1>3. /\ Threads' /\ Turned(t)
      /\ \/ K(t) = "joins" /\ K(t)' = "start"
         \/ K(t) = "ends" /\ K(t)' = "unlock"
  BY <1>2 DEF TurnsOn
<1>4. \A u \in Setters \ {t} : K(u)' = K(u) /\ W(u)' = W(u)  BY <1>3 DEF Turned
<1>5. W(t) \in 1..Len(pumps) /\ pumps[W(t)].at = "gone"
  BY <1>1, <1>2, <1>3, GoneFields DEF Turns
<1>6. /\ \A n : Current(n)' <=> Current(n)
      /\ (\E u \in Setters : K(u)' = "ready") <=> (\E u \in Setters : K(u) = "ready")
  <2>1. K(t) # "ready" /\ K(t)' # "ready"  BY <1>3
  <2>. QED BY <1>2, <1>3, <2>1, CurrentKept
<1>7. PumpsShape' /\ Owned' /\ Registered'  BY <1>1, <1>2, <1>6, PumpsSame
<1>8. ExtShape'  BY <1>1, <1>2 DEF ExtShape
<1>9. KeyShape'  BY <1>1, <1>2, <1>3, <1>7, <1>8, KeymapSame, OsSame DEF KeyShape
<1>10. \A n \in 1..Len(pumps) : Joined(n) => Joined(n)' \/ pumps[n].at = "gone"
  BY <1>4, <1>5 DEF Joined
<1>11. Alive'  BY <1>1, <1>2, <1>6, <1>10 DEF Alive
<1>12. Turns'
  <2>1. ASSUME NEW u \in Setters
        PROVE  /\ Locked(u)' <=> ext'.transition = u
               /\ K(u)' \in {"joins", "start", "ready"} => ext'.armed
               /\ K(u)' \in {"ends", "unlock"} => ~ext'.armed
               /\ K(u)' \in {"joins", "ends"} => W(u)' \in 1..Len(pumps')
               /\ K(u)' = "ready" => Len(pumps') # 0
               /\ K(u)' = "save" => ext'.set = u
    <3>1. CASE u = t
      BY <1>1, <1>2, <1>3, <3>1 DEF Turns, Locked
    <3>2. CASE u # t
      <4>1. K(u)' = K(u) /\ W(u)' = W(u)  BY <1>4, <3>2
      <4>2. Locked(u)' <=> Locked(u)  BY <4>1 DEF Locked
      <4>. QED BY <1>1, <1>2, <4>1, <4>2 DEF Turns
    <3>. QED BY <3>1, <3>2
  <2>. QED BY <1>1, <1>2, <2>1 DEF Turns
<1>13. Fresh'
  <2>1. \A u \in Setters : /\ K(u)' = "save" => K(u) = "save" /\ W(u)' = W(u)
                           /\ K(u) = "reload" => K(u)' = "reload"
    BY <1>3, <1>4
  <2>. QED BY <1>1, <1>2, <1>6, <2>1, FreshKept
<1>. QED BY <1>7, <1>9, <1>11, <1>12, <1>13 DEF Held

LEMMA PumpAdd ==
  ASSUME PumpsShape, NEW q, PumpShape(q), pumps' = Append(pumps, q)
  PROVE  /\ PumpsShape' /\ Len(pumps') = Len(pumps) + 1 /\ pumps'[Len(pumps')] = q
         /\ \A m \in 1..Len(pumps) : m \in 1..Len(pumps') /\ pumps'[m] = pumps[m]
<1>. DEFINE S == {pumps[m] : m \in 1..Len(pumps)} \cup {q}
<1>1. Len(pumps) \in Nat /\ pumps = [m \in 1..Len(pumps) |-> pumps[m]]  BY DEF PumpsShape
<1>2. pumps \in Seq(S)
  <2>1. \A m \in 1..Len(pumps) : pumps[m] \in S  OBVIOUS
  <2>. HIDE DEF S
  <2>2. pumps \in [1..Len(pumps) -> S]  BY <1>1, <2>1
  <2>. QED BY <1>1, <2>2
<1>3. q \in S  OBVIOUS
<1>. HIDE DEF S
<1>4. /\ pumps' \in Seq(S) /\ Len(pumps') = Len(pumps) + 1 /\ pumps'[Len(pumps) + 1] = q
      /\ \A m \in 1..Len(pumps) : pumps'[m] = pumps[m]
  BY <1>2, <1>3
<1>5. pumps' = [m \in 1..Len(pumps') |-> pumps'[m]] /\ Len(pumps') \in Nat
  <2>1. \A r \in Seq(S) : Len(r) \in Nat /\ r = [m \in 1..Len(r) |-> r[m]]  OBVIOUS
  <2>. QED BY <1>4, <2>1
<1>6. \A m \in 1..Len(pumps') : m \in 1..Len(pumps) \/ m = Len(pumps) + 1
  BY <1>1, <1>4
<1>7. \A m \in 1..Len(pumps') : PumpShape(pumps'[m])
  BY <1>4, <1>6 DEF PumpsShape
<1>8. \A m \in 1..Len(pumps') : PumpShape(pumps[m])' <=> PumpShape(pumps'[m])  BY DEF PumpShape
<1>9. PumpsShape'  BY <1>5, <1>7, <1>8 DEF PumpsShape
<1>. QED BY <1>1, <1>4, <1>9

LEMMA HeldStart ==
  ASSUME Held, NEW t \in Setters, Start(t)
  PROVE  Held'
<1>. DEFINE s == resolve(load_keymap(keymap.file))
            p == Started(s)
<1>1. Threads /\ PumpsShape /\ ExtShape /\ KeymapShape /\ OsShape
      /\ Turns /\ Alive /\ Owned /\ Registered /\ Fresh
  BY DEF Held, KeyShape
<1>2. /\ UNCHANGED <<keymap, os, ext>> /\ K(t) = "start" /\ TurnsOn(t, "ready")
      /\ pumps' = Append(pumps, p)
  BY <1>1, StartTurns
<1>3. Threads' /\ Turned(t) /\ K(t)' = "ready"  BY <1>2 DEF TurnsOn
<1>4. \A u \in Setters \ {t} : K(u)' = K(u) /\ W(u)' = W(u)  BY <1>3 DEF Turned
<1>5. s \in Seq(Binding) /\ Apart(s)  BY KeymapResolves DEF Resolves
<1>. HIDE DEF s
<1>6. /\ PumpShape(p) /\ p.at = "waiting" /\ p.todo = s /\ p.bindings = s
      /\ p.ids = {} /\ DOMAIN p.errors = {} /\ p.messages = <<>>
  BY <1>5, StartedFields
<1>. HIDE DEF p
<1>7. PICK n : n = Len(pumps')  OBVIOUS
<1>8. /\ PumpsShape' /\ n = Len(pumps) + 1 /\ pumps'[n] = p /\ Len(pumps) \in Nat
      /\ \A m \in 1..Len(pumps) : m \in 1..n /\ pumps'[m] = pumps[m]
  BY <1>1, <1>2, <1>6, <1>7, PumpAdd DEF PumpsShape
<1>9. n \in 1..n /\ n # 0 /\ \A m \in 1..n : m = n \/ m \in 1..Len(pumps)  BY <1>8
<1>10. /\ ext.transition = t /\ t # Nobody /\ ext.slot = 0 /\ ext.armed
       /\ \A u \in Setters \ {t} : ~Locked(u)
  BY <1>1, <1>2, KeysAssumption DEF Turns, Locked
<1>11. \A m \in 1..Len(pumps) : pumps[m].at = "gone" /\ pumps[m].todo = <<>>
  <2>1. \A u \in Setters : K(u) # "ready" /\ K(u) \notin {"joins", "ends"}
    BY <1>2, <1>10 DEF Locked
  <2>2. \A m : ~Joined(m) /\ ~Current(m)  BY <1>10, <2>1 DEF Joined, Current
  <2>. QED BY <1>1, <2>1, <2>2 DEF Alive
<1>12. \A m : Current(m)' <=> m = n
  BY <1>2, <1>3, <1>7, <1>9, <1>10 DEF Current
<1>13. ExtShape'  BY <1>1, <1>2, <1>7, <1>8, <1>10 DEF ExtShape
<1>14. KeyShape'  BY <1>1, <1>2, <1>3, <1>8, <1>13, KeymapSame, OsSame DEF KeyShape
<1>15. Alive'
  <2>. SUFFICES ASSUME NEW m \in 1..n
                PROVE  /\ pumps[m].at' # "gone" => Current(m)' \/ Joined(m)'
                       /\ Current(m)' => pumps[m].at' = "waiting" /\ pumps[m].messages' \in Seq(Actions)
                       /\ pumps[m].todo' # <<>> =>
                            m = Len(pumps)' /\ \E u \in Setters : K(u)' = "ready"
    BY <1>7 DEF Alive
  <2>1. CASE m = n
    <3>1. <<>> \in Seq(Actions)  OBVIOUS
    <3>. QED BY <1>3, <1>6, <1>7, <1>8, <1>12, <2>1, <3>1
  <2>2. CASE m # n
    <3>1. m \in 1..Len(pumps)  BY <1>9, <2>2
    <3>2. pumps[m].at' = "gone" /\ pumps[m].todo' = <<>>  BY <1>8, <1>11, <3>1
    <3>. QED BY <1>12, <2>2, <3>2
  <2>. QED BY <2>1, <2>2
<1>16. Turns'
  <2>1. ASSUME NEW u \in Setters
        PROVE  /\ Locked(u)' <=> ext'.transition = u
               /\ K(u)' \in {"joins", "start", "ready"} => ext'.armed
               /\ K(u)' \in {"ends", "unlock"} => ~ext'.armed
               /\ K(u)' \in {"joins", "ends"} => W(u)' \in 1..Len(pumps')
               /\ K(u)' = "ready" => Len(pumps') # 0
               /\ K(u)' = "save" => ext'.set = u
    <3>1. CASE u = t
      BY <1>2, <1>3, <1>7, <1>9, <1>10, <3>1 DEF Locked
    <3>2. CASE u # t
      <4>1. K(u)' = K(u) /\ W(u)' = W(u)  BY <1>4, <3>2
      <4>2. ~Locked(u) /\ ~Locked(u)'  BY <1>10, <3>2, <4>1 DEF Locked
      <4>. QED BY <1>1, <1>2, <1>10, <3>2, <4>1, <4>2 DEF Turns, Locked
    <3>. QED BY <3>1, <3>2
  <2>. QED BY <1>2, <1>10, <2>1 DEF Turns
<1>17. Owned'
  <2>1. ASSUME NEW c \in Chords  PROVE os.owner[c] \in {Free, Other}
    BY <1>1, <1>11 DEF Owned, OwnedBy
  <2>. QED BY <1>2, <2>1 DEF Owned
<1>18. Registered'
  <2>. SUFFICES Tried(n)'
    BY <1>7, <1>12 DEF Registered
  <2>1. (pumps[n])' = p  BY <1>8
  <2>2. Apart(pumps[n].bindings)' /\ Apart(pumps[n].todo)'
    <3>1. pumps[n].bindings' = s /\ pumps[n].todo' = s  BY <1>6, <2>1
    <3>. QED BY <1>5, <3>1 DEF Apart
  <2>3. ToTry(pumps[n])'  BY <1>6, <2>1 DEF ToTry
  <2>4. ASSUME NEW i \in 1..Len(s)  PROVE Settled(pumps[n], n, i)'
    BY <1>6, <2>1 DEF Settled
  <2>. QED BY <1>6, <2>1, <2>2, <2>3, <2>4 DEF Tried
<1>19. Fresh'
  <2>. SUFFICES ASSUME ~keymap.edited
                PROVE  Fresh'
    BY <1>2 DEF Fresh
  <2>. DEFINE km == load_keymap(keymap.file)
  <2>1. \A u \in Setters : K(u)' = "save" => K(u) = "save" /\ W(u)' = W(u)
    BY <1>3, <1>4
  <2>2. pumps[n].bindings' = resolve(km)  BY <1>6, <1>8 DEF s
  <2>3. Single(km) /\ keymap.hint = next_section_label(keymap.file)  BY <1>1 DEF Fresh
  <2>4. ASSUME NEW u \in Setters, K(u)' = "save", W(u)'[1] = "bind",
               NEW a \in Actions \ {W(u)'[2]}
        PROVE  km[a] # W(u)'[3]
    BY <1>1, <2>1, <2>4 DEF Fresh
  <2>5. (load_keymap(keymap.file))' = km
        /\ next_section_label(keymap.file)' = next_section_label(keymap.file)
    BY <1>2 DEF load_keymap, next_section_label, read_overrides
  <2>6. resolve(load_keymap(keymap.file))' = resolve(km)
        /\ (Single(load_keymap(keymap.file))' <=> Single(km))
    BY <2>5 DEF resolve, Entry, Single
  <2>. HIDE DEF km
  <2>. QED BY <1>2, <1>12, <2>2, <2>3, <2>4, <2>5, <2>6 DEF Fresh
<1>. QED BY <1>14, <1>15, <1>16, <1>17, <1>18, <1>19 DEF Held

LEMMA HeldReady ==
  ASSUME Held, NEW t \in Setters, IsReady(t) \/ Unlock(t)
  PROVE  Held'
<1>1. Threads /\ PumpsShape /\ ExtShape /\ KeymapShape /\ OsShape
      /\ Turns /\ Alive /\ Owned /\ Registered /\ Fresh
  BY DEF Held, KeyShape
<1>2. /\ UNCHANGED <<keymap, os, pumps>> /\ TurnsIdle(t)
      /\ \/ /\ K(t) = "ready" /\ pumps[Len(pumps)].todo = <<>>
            /\ ext' = [ext EXCEPT !.transition = Nobody, !.slot = Len(pumps)]
         \/ K(t) = "unlock" /\ ext' = [ext EXCEPT !.transition = Nobody]
  BY <1>1, ReadyTurns, UnlockTurns
<1>3. Threads' /\ Turned(t) /\ K(t)' = "idle"  BY <1>2 DEF TurnsIdle
<1>4. \A u \in Setters \ {t} : K(u)' = K(u) /\ W(u)' = W(u)  BY <1>3 DEF Turned
<1>5. /\ ext.transition = t /\ t # Nobody /\ ext.slot = 0
      /\ \A u \in Setters \ {t} : ~Locked(u)
  BY <1>1, <1>2, KeysAssumption DEF Turns, Locked
<1>6. /\ ext'.transition = Nobody /\ ext'.armed = ext.armed /\ ext'.set = ext.set
      /\ K(t) = "ready" => ext'.slot = Len(pumps)
      /\ K(t) = "unlock" => ext'.slot = 0
  BY <1>1, <1>2, <1>5 DEF ExtShape
<1>7. ExtShape'
  <2>1. Len(pumps) \in Nat /\ ext.armed \in BOOLEAN  BY <1>1 DEF PumpsShape, ExtShape
  <2>2. ext' = [armed |-> ext'.armed, shut |-> ext'.shut, set |-> ext'.set,
                transition |-> ext'.transition, slot |-> ext'.slot]
    BY <1>1, <1>2 DEF ExtShape
  <2>3. ext'.slot \in 0..Len(pumps')  BY <1>2, <1>6, <2>1
  <2>. QED BY <1>6, <2>1, <2>2, <2>3 DEF ExtShape
<1>8. \A u \in Setters : ~Locked(u)' /\ K(u)' # "ready"
  BY <1>3, <1>4, <1>5 DEF Locked
<1>9. \A n : Current(n)' <=> Current(n)
  <2>1. CASE K(t) = "ready"
    BY <1>2, <1>5, <1>6, <1>8, <2>1 DEF Current
  <2>2. CASE K(t) = "unlock"
    <3>1. \A u \in Setters : K(u) # "ready"  BY <1>5, <2>2 DEF Locked
    <3>. QED BY <1>2, <1>5, <1>6, <1>8, <2>2, <3>1 DEF Current
  <2>. QED BY <1>2, <2>1, <2>2
<1>10. \A n : ~Joined(n)
  BY <1>2, <1>5 DEF Joined, Locked
<1>11. PumpsShape' /\ Owned' /\ Registered'  BY <1>1, <1>2, <1>9, PumpsSame
<1>12. KeyShape'  BY <1>1, <1>2, <1>3, <1>7, <1>11, KeymapSame, OsSame DEF KeyShape
<1>13. \A n \in 1..Len(pumps) : pumps[n].todo = <<>>
  <2>1. CASE K(t) = "ready"  BY <1>1, <1>2, <2>1 DEF Alive
  <2>2. CASE K(t) = "unlock"
    <3>1. \A u \in Setters : K(u) # "ready"  BY <1>5, <2>2 DEF Locked
    <3>. QED BY <1>1, <3>1 DEF Alive
  <2>. QED BY <1>2, <2>1, <2>2
<1>14. Alive'  BY <1>1, <1>2, <1>9, <1>10, <1>13 DEF Alive
<1>15. Turns'
  <2>1. ASSUME NEW u \in Setters
        PROVE  /\ Locked(u)' <=> ext'.transition = u
               /\ K(u)' \in {"joins", "start", "ready"} => ext'.armed
               /\ K(u)' \in {"ends", "unlock"} => ~ext'.armed
               /\ K(u)' \in {"joins", "ends"} => W(u)' \in 1..Len(pumps')
               /\ K(u)' = "ready" => Len(pumps') # 0
               /\ K(u)' = "save" => ext'.set = u
    <3>1. K(u)' = "save" => K(u) = "save"  BY <1>3, <1>4
    <3>2. u # Nobody  BY KeysAssumption
    <3>. QED BY <1>1, <1>6, <1>8, <3>1, <3>2 DEF Turns, Locked
  <2>2. ext'.armed <=> ext'.slot # 0
    BY <1>1, <1>2, <1>6 DEF Turns
  <2>. QED BY <1>6, <2>1, <2>2 DEF Turns
<1>16. Fresh'
  <2>1. \A u \in Setters : /\ K(u)' = "save" => K(u) = "save" /\ W(u)' = W(u)
                           /\ K(u) = "reload" => K(u)' = "reload"
    BY <1>2, <1>3, <1>4
  <2>. QED BY <1>1, <1>2, <1>9, <2>1, FreshKept
<1>. QED BY <1>11, <1>12, <1>14, <1>15, <1>16 DEF Held

-----------------------------------------------------------------------------
(* The hotkeys start registered nowhere, with a keymap of its own chords.  *)
LEMMA KeysInitHeld ==
  KeysInit => Held
<1>. SUFFICES ASSUME KeysInit  PROVE Held
  OBVIOUS
<1>1. /\ os = [owner |-> [c \in Chords |-> Free], down |-> "none"] /\ pumps = <<>>
      /\ ext = [armed |-> FALSE, shut |-> FALSE, set |-> Nobody, transition |-> Nobody, slot |-> 0]
      /\ setter = [t \in Setters |-> <<>>]
  BY DEF KeysInit
<1>2. PICK file \in {Missing, Json([a \in {"flush"} |-> "x"])} :
        keymap = [file |-> file, edited |-> FALSE, hint |-> next_section_label(file)]
  BY DEF KeysInit
<1>3. Len(pumps) = 0 /\ 1..Len(pumps) = {}  BY <1>1
<1>4. \A t \in Setters : setter[t] = <<>> /\ K(t) = "idle"
  BY <1>1 DEF K, Kind
<1>5. Threads  BY <1>1, ProgramsMade DEF Threads
<1>6. PumpsShape
  <2>1. pumps = [n \in 1..Len(pumps) |-> pumps[n]]
    <3>1. pumps \in Seq({})  BY <1>1
    <3>2. \A r \in Seq({}) : r = [n \in 1..Len(r) |-> r[n]]  OBVIOUS
    <3>. QED BY <3>1, <3>2
  <2>. QED BY <1>3, <2>1 DEF PumpsShape
<1>7. ExtShape  BY <1>1, <1>3 DEF ExtShape
<1>8. KeymapShape /\ keymap.file = file /\ keymap.hint = next_section_label(file)
  BY <1>2 DEF KeymapShape
<1>9. OsShape /\ \A c \in Chords : os.owner[c] = Free  BY <1>1 DEF OsShape
<1>10. KeyShape  BY <1>5, <1>6, <1>7, <1>8, <1>9 DEF KeyShape
<1>11. Turns
  <2>1. \A t \in Setters : ext.transition # t  BY <1>1, KeysAssumption
  <2>. QED BY <1>1, <1>4, <2>1 DEF Turns, Locked
<1>12. Alive /\ Registered /\ Owned  BY <1>3, <1>9 DEF Alive, Registered, Owned
<1>13. Single(load_keymap(file))
  <2>1. CASE file = Missing
    <3>1. load_keymap(file) = [a \in Actions |-> default_binding(a)]
      BY <2>1 DEF load_keymap, read_overrides, Missing, NoOverrides
    <3>. QED BY <3>1, DefaultsSingle
  <2>2. CASE file = Json([a \in {"flush"} |-> "x"])
    <3>1. /\ load_keymap(file)["restart"] = "up" /\ load_keymap(file)["flush"] = "x"
          /\ load_keymap(file)["pause"] = Unbound
      BY <2>2 DEF load_keymap, read_overrides, Json, Actions, default_binding
    <3>. QED BY <3>1 DEF Single, Actions, Chords, Unbound
  <2>. QED BY <1>2, <2>1, <2>2
<1>14. Fresh  BY <1>3, <1>4, <1>8, <1>13 DEF Fresh
<1>. QED BY <1>10, <1>11, <1>12, <1>14 DEF Held

LEMMA HeldNext ==
  ASSUME Held, KeysNext, ~ext'.shut
  PROVE  Held'
<1>1. ASSUME NEW t \in Setters, KeyRequests(t) \/ Runs(t)  PROVE Held'
  <2>1. ext.slot \in Nat  BY DEF Held, KeyShape, ExtShape, PumpsShape
  <2>2. Threads  BY DEF Held, KeyShape
  <2>3. CASE SetHotkeys(t) \/ Hold(t)  BY <2>3, HeldAsk
  <2>4. CASE Check(t)  BY <2>4, HeldCheck
  <2>5. CASE Save(t)  BY <2>5, HeldSave
  <2>6. CASE Reload(t) \/ Arm(t) \/ Disarm(t)
    <3>1. \/ K(t) = "reload" /\ (Restarts(t) \/ (Rests(t) /\ ~ext.armed))
          \/ K(t) \in {"arm", "disarm"} /\ (Rests(t) \/ Restarts(t) \/ Ends(t))
      BY <2>1, <2>2, <2>6, TransitionTurns
    <3>2. CASE Restarts(t) \/ Ends(t)  BY <3>2, HeldStops
    <3>3. CASE /\ Rests(t) /\ K(t) \in {"reload", "arm", "disarm"}
               /\ K(t) = "reload" => ~ext.armed
      BY <3>3, HeldRests
    <3>. QED BY <3>1, <3>2, <3>3
  <2>7. CASE Join(t)  BY <2>7, HeldJoin
  <2>8. CASE Start(t)  BY <2>8, HeldStart
  <2>9. CASE IsReady(t) \/ Unlock(t)  BY <2>9, HeldReady
  <2>. QED BY <1>1, <2>3, <2>4, <2>5, <2>6, <2>7, <2>8, <2>9 DEF KeyRequests, Runs
<1>2. ASSUME NEW n \in 1..Len(pumps), KeyThreads(n)  PROVE Held'
  <2>1. PumpsShape /\ OsShape  BY DEF Held, KeyShape
  <2>2. CASE Register(n)  BY <2>2, HeldRegister
  <2>3. CASE Pump(n)  BY <2>3, HeldPump
  <2>4. CASE Unregister(n)  BY <2>4, HeldUnregister
  <2>5. CASE Take(n) \/ watch(n) \/ Perform(n)
    <3>1. Unseen /\ UNCHANGED <<os, keymap, ext, setter>>  BY <2>1, <2>5, DispatchUnseen
    <3>. QED BY <2>1, <3>1, HeldUnseen, OsSame
  <2>6. CASE DispatchEnds(n)  BY <2>6, HeldDispatchEnds
  <2>. QED BY <1>2, <2>2, <2>3, <2>4, <2>5, <2>6 DEF KeyThreads
<1>3. CASE Keyboard
  <2>1. PumpsShape /\ OsShape  BY DEF Held, KeyShape
  <2>2. ASSUME NEW c \in Pressed, Press(c)  PROVE Held'  BY <2>2, HeldPress
  <2>3. ASSUME NEW c \in Pressed, OtherTakes(c)  PROVE Held'  BY <2>3, HeldOther
  <2>4. CASE Time
    <3>1. Unseen /\ UNCHANGED <<os, keymap, ext, setter>>  BY <2>1, <2>4, TimeUnseen
    <3>. QED BY <2>1, <3>1, HeldUnseen, OsSame
  <2>. QED BY <1>3, <2>2, <2>3, <2>4, HeldLetGo, HeldEdit DEF Keyboard
<1>4. CASE KeysShutdown
  <2>1. ext' = [ext EXCEPT !.shut = TRUE, !.slot = 0]  BY <1>4 DEF KeysShutdown
  <2>2. ExtShape  BY DEF Held, KeyShape
  <2>3. ext'.shut  BY <2>1, <2>2 DEF ExtShape
  <2>. QED BY <2>3
<1>. QED BY <1>1, <1>2, <1>3, <1>4 DEF KeysNext

(* The runtime ends once.                                                  *)
LEMMA ShutStays ==
  ASSUME ExtForm, KeysNext
  PROVE  ExtForm' /\ (ext.shut => ext'.shut)
<1>1. ASSUME ext' = ext  PROVE ExtForm' /\ (ext.shut => ext'.shut)
  BY <1>1 DEF ExtForm
<1>2. ASSUME NEW a, NEW b, NEW c, NEW d, NEW s,
             ext' = [armed |-> a, shut |-> s, set |-> b, transition |-> c, slot |-> d],
             s = ext.shut \/ s = TRUE
      PROVE  ExtForm' /\ (ext.shut => ext'.shut)
  BY <1>2 DEF ExtForm
<1>3. ASSUME NEW t \in Setters, KeyRequests(t) \/ Runs(t)
      PROVE  ExtForm' /\ (ext.shut => ext'.shut)
  <2>1. \/ ext' = ext \/ (\E b : ext' = [ext EXCEPT !.set = b])
        \/ \E c, d, a : ext' = [ext EXCEPT !.armed = a, !.transition = c, !.slot = d]
        \/ \E c, d : ext' = [ext EXCEPT !.transition = c, !.slot = d]
        \/ \E c : ext' = [ext EXCEPT !.transition = c]
    BY <1>3 DEF KeyRequests, Runs, SetHotkeys, Hold, Check, Save, Reload, Arm, Disarm, Nothing,
                Transition, Join, Start, IsReady, Unlock
  <2>2. ASSUME NEW b, ext' = [ext EXCEPT !.set = b]  PROVE ExtForm' /\ (ext.shut => ext'.shut)
    <3>1. ext' = [armed |-> ext.armed, shut |-> ext.shut, set |-> b,
                  transition |-> ext.transition, slot |-> ext.slot]
      BY <2>2 DEF ExtForm
    <3>. QED BY <1>2, <3>1
  <2>3. ASSUME NEW c, NEW d, NEW a, ext' = [ext EXCEPT !.armed = a, !.transition = c, !.slot = d]
        PROVE  ExtForm' /\ (ext.shut => ext'.shut)
    <3>1. ext' = [armed |-> a, shut |-> ext.shut, set |-> ext.set, transition |-> c, slot |-> d]
      BY <2>3 DEF ExtForm
    <3>. QED BY <1>2, <3>1
  <2>4. ASSUME NEW c, NEW d, ext' = [ext EXCEPT !.transition = c, !.slot = d]
        PROVE  ExtForm' /\ (ext.shut => ext'.shut)
    <3>1. ext' = [armed |-> ext.armed, shut |-> ext.shut, set |-> ext.set,
                  transition |-> c, slot |-> d]
      BY <2>4 DEF ExtForm
    <3>. QED BY <1>2, <3>1
  <2>5. ASSUME NEW c, ext' = [ext EXCEPT !.transition = c]
        PROVE  ExtForm' /\ (ext.shut => ext'.shut)
    <3>1. ext' = [armed |-> ext.armed, shut |-> ext.shut, set |-> ext.set,
                  transition |-> c, slot |-> ext.slot]
      BY <2>5 DEF ExtForm
    <3>. QED BY <1>2, <3>1
  <2>. QED BY <1>1, <2>1, <2>2, <2>3, <2>4, <2>5
<1>4. ASSUME NEW n \in 1..Len(pumps), KeyThreads(n)  PROVE ext' = ext
  BY <1>4 DEF KeyThreads, Register, Pump, Unregister, Take, watch, Perform, DispatchEnds, KeysElse
<1>5. CASE Keyboard
  <2>1. ext' = ext  BY <1>5 DEF Keyboard, Press, OtherTakes, LetGo, Edit, Time, KeysElse
  <2>. QED BY <1>1, <2>1
<1>6. CASE KeysShutdown
  <2>1. ext' = [ext EXCEPT !.shut = TRUE, !.slot = 0]  BY <1>6 DEF KeysShutdown
  <2>2. ext' = [armed |-> ext.armed, shut |-> TRUE, set |-> ext.set,
                transition |-> ext.transition, slot |-> 0]
    BY <2>1 DEF ExtForm
  <2>. QED BY <1>2, <2>2
<1>. QED BY <1>1, <1>3, <1>4, <1>5, <1>6 DEF KeysNext

LEMMA HeldSame ==
  ASSUME Held, UNCHANGED keyVars
  PROVE  Held'
<1>1. UNCHANGED <<keymap, os, pumps, ext, setter>>  BY DEF keyVars
<1>2. PumpsShape /\ OsShape  BY DEF Held, KeyShape
<1>. QED BY <1>1, <1>2, HeldUnseen, UnseenSame, OsSame

(* Once the threads have done what they were asked, the keys do what the   *)
(* keymap says.                                                            *)
LEMMA HeldFollows ==
  ASSUME Held, \A t \in Setters : setter[t] = <<>>
  PROVE  ChordsFollow
<1>. DEFINE file == keymap.file
            s == ext.slot
            ours == {c \in Chords : os.owner[c] \notin {Free, Other}}
<1>1. Threads /\ PumpsShape /\ ExtShape /\ KeymapShape /\ OsShape
      /\ Turns /\ Alive /\ Owned /\ Registered /\ Fresh
  BY DEF Held, KeyShape
<1>2. \A t \in Setters : K(t) = "idle"  BY DEF K, Kind
<1>3. ext.transition = Nobody
  BY <1>1, <1>2 DEF Turns, Locked
<1>4. (\A n : ~Joined(n) /\ (Current(n) <=> n # 0 /\ n = s)) /\ (ext.armed <=> s # 0)
  BY <1>1, <1>3, NoTransition DEF Turns
<1>5. ext.armed = (s # 0)  BY <1>1, <1>4 DEF ExtShape
<1>6. ASSUME NEW c \in ours
      PROVE  s # 0 /\ \E a \in Actions : OwnedBy(c, s, a)
  <2>1. PICK n \in 1..Len(pumps), a \in Actions : OwnedBy(c, n, a)  BY <1>1, <1>6 DEF Owned
  <2>2. Current(n)  BY <1>1, <1>4, <2>1 DEF Alive, OwnedBy
  <2>. QED BY <1>4, <2>1, <2>2
<1>7. ~ext.armed => ours = {}  BY <1>4, <1>6
<1>8. \A c \in ours : os.owner[c][1] = s
  <2>. SUFFICES ASSUME NEW c \in ours  PROVE os.owner[c][1] = s
    OBVIOUS
  <2>1. PICK a \in Actions : OwnedBy(c, s, a)  BY <1>6
  <2>. QED BY <2>1 DEF OwnedBy
<1>9. ASSUME ~keymap.edited, NEW b \in Bindings(file), NEW d \in Bindings(file), b.chord = d.chord
      PROVE  b = d
  <2>1. /\ b \in Binding /\ load_keymap(file)[b.action] = b.chord
        /\ d \in Binding /\ load_keymap(file)[d.action] = d.chord
    BY BindingsAre
  <2>2. b.action \in Actions /\ b.chord \in Chords /\ d.action \in Actions  BY <2>1 DEF Binding
  <2>3. b.action = d.action  BY <1>1, <1>9, <2>1, <2>2 DEF Fresh, Single
  <2>. QED BY <1>9, <2>1, <2>3 DEF Binding
<1>10. ASSUME ~keymap.edited, ext.armed
       PROVE  /\ s \in 1..Len(pumps) /\ Tried(s) /\ pumps[s].todo = <<>>
              /\ pumps[s].bindings = resolve(load_keymap(file))
  <2>1. s \in 1..Len(pumps) /\ Current(s)
    BY <1>1, <1>4, <1>10 DEF ExtShape, PumpsShape
  <2>2. pumps[s].todo = <<>>  BY <1>1, <1>2, <2>1 DEF Alive
  <2>. QED BY <1>1, <1>2, <1>10, <2>1, <2>2 DEF Registered, Fresh
<1>11. ASSUME ~keymap.edited, ext.armed, NEW b \in Bindings(file)
       PROVE  os.owner[b.chord] = <<s, b.action>> \/ hotkeys_json(b.action) = Other
  <2>. DEFINE bs == resolve(load_keymap(file))
  <2>1. PICK i \in 1..Len(bs) : b = bs[i]  BY DEF Bindings
  <2>2. Settled(pumps[s], s, i) /\ pumps[s].bindings[i] = b /\ Len(pumps[s].todo) = 0
    BY <1>10, <1>11, <2>1 DEF Tried
  <2>3. CASE os.owner[b.chord] = <<s, b.action>>  BY <2>3
  <2>4. CASE b.action \in DOMAIN pumps[s].errors /\ pumps[s].errors[b.action] = Other
    BY <2>4 DEF hotkeys_json
  <2>5. ASSUME NEW k \in 1..Len(pumps[s].bindings), k # i, pumps[s].bindings[k].chord = b.chord
        PROVE  FALSE
    <3>1. bs = pumps[s].bindings  BY <1>10, <1>11
    <3>2. bs[k] \in Bindings(file)  BY <2>5, <3>1 DEF Bindings
    <3>3. bs[k] = b  BY <1>9, <1>11, <2>5, <3>1, <3>2
    <3>4. Apart(bs)  BY <1>10, <1>11 DEF Tried
    <3>5. bs[k].action # bs[i].action  BY <2>5, <3>1, <3>4, <2>1 DEF Apart
    <3>. QED BY <2>1, <3>3, <3>5
  <2>. HIDE DEF s
  <2>. QED BY <2>2, <2>3, <2>4, <2>5 DEF Settled
<1>12. ASSUME ~keymap.edited, ext.armed, NEW c \in ours
       PROVE  [action |-> os.owner[c][2], chord |-> c] \in Bindings(file)
  <2>1. PICK a \in Actions : OwnedBy(c, s, a)  BY <1>6, <1>12
  <2>2. os.owner[c][2] = a  BY <2>1 DEF OwnedBy
  <2>3. PICK i \in 1..Len(pumps[s].bindings) : pumps[s].bindings[i] = [action |-> a, chord |-> c]
    BY <2>1 DEF OwnedBy
  <2>. QED BY <1>10, <1>12, <2>2, <2>3 DEF Bindings
<1>13. ~keymap.edited => keymap.hint = next_section_label(file)  BY <1>1 DEF Fresh
<1>. QED BY <1>5, <1>7, <1>8, <1>9, <1>11, <1>12, <1>13 DEF ChordsFollow

(* Once requests and clients are served, the registered chords are those   *)
(* of the keymap: however sets, arming, stops and presses overlap, the     *)
(* `set` lock, the transition lock and the joins of Hotkeys::stop keep     *)
(* them together (system_ext.rs start_hotkeys, keymap.rs bind).            *)
THEOREM HotkeysFollow == KeysSpec => []ChordsFollow
<1>1. KeysInit => KeysIInv
  <2>1. KeysInit => ExtForm  BY DEF KeysInit, ExtForm
  <2>. QED BY <2>1, KeysInitHeld DEF KeysIInv
<1>2. KeysIInv /\ [KeysNext]_keyVars => KeysIInv'
  <2>. SUFFICES ASSUME KeysIInv, [KeysNext]_keyVars
                PROVE  KeysIInv'
    OBVIOUS
  <2>1. CASE KeysNext
    <3>1. ExtForm' /\ (ext.shut => ext'.shut)  BY <2>1, ShutStays DEF KeysIInv
    <3>. QED BY <2>1, <3>1, HeldNext DEF KeysIInv
  <2>2. CASE UNCHANGED keyVars
    <3>1. ext' = ext  BY <2>2 DEF keyVars
    <3>. QED BY <2>2, <3>1, HeldSame DEF KeysIInv, ExtForm
  <2>. QED BY <2>1, <2>2
<1>3. KeysIInv => ChordsFollow
  <2>1. CASE ext.shut \/ \E t \in Setters : setter[t] # <<>>
    BY <2>1 DEF ChordsFollow
  <2>2. CASE ~ext.shut /\ \A t \in Setters : setter[t] = <<>>
    BY <2>2, HeldFollows DEF KeysIInv
  <2>. QED BY <2>1, <2>2
<1>. QED BY <1>1, <1>2, <1>3, PTL DEF KeysSpec
=============================================================================
