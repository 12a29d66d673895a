---------------------------- MODULE ReaderProofs ----------------------------
(***************************************************************************)
(* Proofs about Reader, for every value of its constants: the record is    *)
(* well typed, and the invariants of ReaderOK and ShownOK hold between any *)
(* two calls; and every call of the reader, as its clients see it, is a    *)
(* step of Player.  Each operator of Reader has a lemma that says what it  *)
(* assumes of the record it gets and what it guarantees of the one it      *)
(* returns, and one that says which operator of Player it is under View;   *)
(* the theorems put them together.                                         *)
(***************************************************************************)
EXTENDS ReaderView, FiniteSetTheorems, TLAPS

(* What every intermediate record of a call satisfies.                     *)
Core(r) == /\ r \in ReaderType
           /\ InRange(r) /\ LoadedOK(r) /\ RequestedOK(r) /\ IdsOK(r)

(* What a call must restore before it returns.                             *)
Flags(r) == IdleOK(r) /\ PlayingOK(r) /\ StepWaitOK(r)

(* The fields Core and Flags read, but for the requests and the type.      *)
Frame(r, s) == /\ s.current = r.current /\ s.queue = r.queue
               /\ s.loaded = r.loaded /\ s.gen = r.gen
               /\ s.next_id = r.next_id
               /\ s.paused = r.paused /\ s.step_wait = r.step_wait

-----------------------------------------------------------------------------
(* Facts about the types.                                                  *)

(* A record in ReaderType has fields of the declared types.                *)
LEMMA Fields ==
  ASSUME NEW r \in ReaderType
  PROVE  /\ r.next_id \in ItemId /\ r.gen \in Nat
         /\ r.current \in Current \cup {None} /\ r.queue \in Queue
         /\ r.last \in Item \cup {None}
         /\ r.paused \in BOOLEAN /\ r.step_wait \in BOOLEAN
         /\ r.released \in BOOLEAN /\ r.muted \in BOOLEAN
         /\ r.code_step \in BOOLEAN
         /\ r.loaded \in (Nat \ {0}) \cup {None}
         /\ r.requested \in Requests /\ r.fx \in Effects
         /\ r.lookahead \in Depth /\ r.shown \in State
         /\ r.volume \in Volumes /\ r.rate \in Rates /\ r.voice \in Voices
  BY DEF ReaderType

(* The parts of a current item.                                            *)
LEMMA CurrentFields ==
  ASSUME NEW c \in Current
  PROVE  /\ c.item \in Item /\ c.chunk \in Nat \ {0}
         /\ c.played_any \in BOOLEAN
         /\ c.item.id \in ItemId
         /\ c.item.chunks \in Seq(Kind) /\ c.item.chunks # <<>>
  BY DEF Current, Item

(* Core depends on the type, the frame and the requests only.              *)
LEMMA CoreFrame ==
  ASSUME NEW r, NEW s, Core(r), s \in ReaderType, Frame(r, s),
         s.requested = r.requested
  PROVE  Core(s)
  BY DEF Core, Frame, InRange, LoadedOK, RequestedOK, IsAlive, IdsOK

LEMMA FlagsFrame ==
  ASSUME NEW r, NEW s, Flags(r), Frame(r, s)
  PROVE  Flags(s)
  BY DEF Flags, Frame, IdleOK, PlayingOK, StepWaitOK

-----------------------------------------------------------------------------
(* Effects and requests.                                                   *)

LEMMA EmitLemma ==
  ASSUME NEW r, Core(r), NEW e \in Effect
  PROVE  /\ Core(emit(r, e)) /\ Frame(r, emit(r, e))
         /\ emit(r, e).requested = r.requested
         /\ snapshot(emit(r, e)) = snapshot(r)
         /\ emit(r, e).shown = r.shown
<1>1. r \in ReaderType /\ Append(r.fx, e) \in Effects
  BY Fields DEF Core, Effects
<1>2. emit(r, e) \in ReaderType
  BY <1>1 DEF emit, ReaderType
<1>3. /\ Frame(r, emit(r, e)) /\ emit(r, e).requested = r.requested
      /\ emit(r, e).shown = r.shown
  BY <1>1 DEF emit, ReaderType, Frame
<1>4. snapshot(emit(r, e)) = snapshot(r)
  BY <1>1 DEF emit, ReaderType, snapshot, in_code
<1> QED
  BY <1>2, <1>3, <1>4, CoreFrame

LEMMA RequestLemma ==
  ASSUME NEW r, Core(r), NEW item \in ItemId, NEW chunk \in Nat \ {0},
         IsAlive(r, <<item, chunk>>)
  PROVE  LET s == request(r, item, chunk)
         IN Core(s) /\ Frame(r, s) /\ <<item, chunk>> \in s.requested
            /\ s.lookahead = r.lookahead
<1> DEFINE p == <<item, chunk>>
           t == [r EXCEPT !.requested = @ \cup {p}]
           e == [op |-> "Synthesize", item |-> item, chunk |-> chunk]
<1>1. CASE p \in r.requested
  BY <1>1 DEF request, Frame
<1>2. CASE p \notin r.requested
  <2>1. r \in ReaderType /\ r.requested \cup {p} \in Requests
    BY Fields DEF Core, Requests, ChunkRef
  <2>2. t \in ReaderType
    BY <2>1 DEF ReaderType
  <2>3. Frame(r, t) /\ t.requested = r.requested \cup {p} /\ t.lookahead = r.lookahead
    BY <2>1 DEF ReaderType, Frame
  <2>4. Core(t)
    BY <2>2, <2>3 DEF Core, Frame, InRange, LoadedOK, RequestedOK, IsAlive, IdsOK
  <2>5. e \in Effect
    BY DEF Effect
  <2>6. Core(emit(t, e)) /\ Frame(t, emit(t, e)) /\ emit(t, e).requested = t.requested
    BY <2>4, <2>5, EmitLemma
  <2>7. emit(t, e).lookahead = t.lookahead
    BY <2>2 DEF emit, ReaderType
  <2> QED
    BY <1>2, <2>3, <2>6, <2>7 DEF request, Frame
<1> QED
  BY <1>1, <1>2

(* A position in play order: past the end, or a chunk of a live item.      *)
Position(r, p) ==
  /\ p \in Nat \X (Nat \ {0})
  /\ p[1] <= Len(r.queue) => p[2] <= Len(ItemAt(r, p[1]).chunks)

LEMMA AfterLemma ==
  ASSUME NEW r, Core(r), r.current # None, NEW p, Position(r, p)
  PROVE  Position(r, After(r, p))
<1>1. r.current \in Current /\ r.queue \in Seq(Item)
  BY Fields DEF Core, Queue
<1>2. ASSUME NEW q \in Nat, q <= Len(r.queue)
      PROVE  ItemAt(r, q).chunks \in Seq(Kind) /\ Len(ItemAt(r, q).chunks) \in Nat \ {0}
  <2>1. ItemAt(r, q) \in Item
    BY <1>1, <1>2, CurrentFields DEF ItemAt
  <2> QED
    BY <2>1 DEF Item
<1>3. p[1] \in Nat /\ p[2] \in Nat \ {0}
  BY DEF Position
<1>4. CASE p[1] > Len(r.queue)
  BY <1>4 DEF After
<1>5. CASE p[1] <= Len(r.queue) /\ p[2] < Len(ItemAt(r, p[1]).chunks)
  <2>1. After(r, p) = <<p[1], p[2] + 1>>
    BY <1>1, <1>3, <1>5 DEF After
  <2> QED
    BY <1>2, <1>3, <1>5, <2>1 DEF Position
<1>6. CASE p[1] <= Len(r.queue) /\ ~(p[2] < Len(ItemAt(r, p[1]).chunks))
  <2>1. After(r, p) = <<p[1] + 1, 1>>
    BY <1>1, <1>3, <1>6 DEF After
  <2>2. p[1] + 1 <= Len(r.queue) => 1 <= Len(ItemAt(r, p[1] + 1).chunks)
    BY <1>2, <1>3
  <2> QED
    BY <1>3, <2>1, <2>2 DEF Position
<1> QED
  BY <1>1, <1>3, <1>4, <1>5, <1>6

LEMMA AheadLemma ==
  ASSUME NEW r, Core(r), r.current # None, NEW s, Core(s), Frame(r, s),
         NEW n \in Nat, NEW p, Position(r, p)
  PROVE  Core(request_ahead(s, n, p)) /\ Frame(r, request_ahead(s, n, p))
<1>0. s.queue = r.queue /\ s.current = r.current
  BY DEF Frame
<1>1. CASE ~(n <= s.lookahead /\ p[1] <= Len(s.queue))
  BY <1>1 DEF request_ahead
<1>2. CASE n <= s.lookahead /\ p[1] <= Len(s.queue)
  <2> DEFINE id == ItemAt(s, p[1]).id
  <2>1. s.current \in Current /\ s.queue \in Seq(Item)
    BY <1>0, Fields DEF Core, Queue
  <2>2. p[1] \in Nat /\ p[2] \in Nat \ {0} /\ p[2] <= Len(ItemAt(s, p[1]).chunks)
    BY <1>0, <1>2 DEF Position, ItemAt
  <2>3. ItemAt(s, p[1]) \in Item
    BY <1>2, <2>1, <2>2, CurrentFields DEF ItemAt
  <2>4. id \in ItemId /\ Len(ItemAt(s, p[1]).chunks) \in Nat
    BY <2>3 DEF Item
  <2>5. IsAlive(s, <<id, p[2]>>)
    <3>1. CASE p[1] = 0
      BY <1>0, <2>2, <2>4, <3>1 DEF IsAlive, ItemAt
    <3>2. CASE p[1] # 0
      <4>1. p[1] \in 1..Len(s.queue) /\ ItemAt(s, p[1]) = s.queue[p[1]]
        BY <1>2, <2>1, <2>2, <3>2 DEF ItemAt
      <4> QED
        BY <2>2, <2>4, <4>1 DEF IsAlive
    <3> QED
      BY <3>1, <3>2
  <2>6. request_ahead(s, n, p) = request(s, id, p[2])
    BY <1>2 DEF request_ahead
  <2>7. Core(request(s, id, p[2])) /\ Frame(s, request(s, id, p[2]))
    BY <2>2, <2>4, <2>5, RequestLemma
  <2> QED
    BY <2>6, <2>7 DEF Frame
<1> QED
  BY <1>1, <1>2

LEMMA PrefetchLemma ==
  ASSUME NEW r, Core(r)
  PROVE  Core(prefetch(r)) /\ Frame(r, prefetch(r))
<1>1. CASE r.loaded = None \/ r.current = None
  BY <1>1 DEF prefetch, Frame
<1>2. CASE r.loaded # None /\ r.current # None
  <2> DEFINE p0 == <<0, r.current.chunk>>
             p1 == After(r, p0)
             p2 == After(r, p1)
             p3 == After(r, p2)
             p4 == After(r, p3)
             s1 == request_ahead(r, 1, p1)
             s2 == request_ahead(s1, 2, p2)
             s3 == request_ahead(s2, 3, p3)
             s4 == request_ahead(s3, 4, p4)
  <2>1. Position(r, p0)
    <3>1. r.current \in Current
      BY <1>2, Fields DEF Core
    <3> QED
      BY <1>2, <3>1, CurrentFields DEF Core, InRange, Position, ItemAt
  <2>2. Position(r, p1)
    BY <1>2, <2>1, AfterLemma
  <2>3. Position(r, p2)
    BY <1>2, <2>2, AfterLemma
  <2>4. Position(r, p3)
    BY <1>2, <2>3, AfterLemma
  <2>5. Position(r, p4)
    BY <1>2, <2>4, AfterLemma
  <2>6. Frame(r, r)
    BY DEF Frame
  <2> HIDE DEF p1, p2, p3, p4
  <2>7. Core(s1) /\ Frame(r, s1)
    BY <1>2, <2>2, <2>6, AheadLemma
  <2> HIDE DEF s1
  <2>8. Core(s2) /\ Frame(r, s2)
    BY <1>2, <2>3, <2>7, AheadLemma
  <2> HIDE DEF s2
  <2>9. Core(s3) /\ Frame(r, s3)
    BY <1>2, <2>4, <2>8, AheadLemma
  <2> HIDE DEF s3
  <2>10. Core(s4) /\ Frame(r, s4)
    BY <1>2, <2>5, <2>9, AheadLemma
  <2>11. prefetch(r) = s4
    BY <1>2 DEF prefetch, s1, s2, s3, p1, p2, p3, p4
  <2> QED
    BY <2>10, <2>11
<1> QED
  BY <1>1, <1>2

(* What finish shows is a State.                                           *)
LEMMA SnapshotType ==
  ASSUME NEW r, Core(r)
  PROVE  snapshot(r) \in State
<1> DEFINE now == IF r.current = None THEN None
                  ELSE [id |-> r.current.item.id, chunk |-> r.current.chunk,
                        code |-> in_code(r)]
<1>1. r \in ReaderType
  BY DEF Core
<1>2. now \in [id : ItemId, chunk : Nat \ {0}, code : BOOLEAN] \cup {None}
  <2>1. CASE r.current = None
    BY <2>1
  <2>2. CASE r.current # None
    <3>1. r.current \in Current
      BY <1>1, <2>2, Fields
    <3>2. in_code(r) \in BOOLEAN
      BY <1>1, Fields DEF in_code
    <3> HIDE DEF in_code
    <3> QED
      BY <2>2, <3>1, <3>2, CurrentFields
  <2> QED
    BY <2>1, <2>2
<1>3. Len(r.queue) \in Nat
  BY <1>1, Fields DEF Queue
<1>4. snapshot(r) = [now |-> now, queued |-> Len(r.queue), paused |-> r.paused,
                     stepping |-> r.step_wait, muted |-> r.muted,
                     volume |-> r.volume, rate |-> r.rate, voice |-> r.voice]
  BY DEF snapshot
<1> HIDE DEF now
<1> QED
  BY <1>1, <1>2, <1>3, <1>4, Fields DEF State

(* finish keeps Core and Flags, and leaves clients with the true state.    *)
LEMMA FinishLemma ==
  ASSUME NEW r, Core(r)
  PROVE  Core(finish(r)) /\ Frame(r, finish(r)) /\ ShownOK(finish(r))
<1> DEFINE s == prefetch(r)
           next == snapshot(s)
           t == [s EXCEPT !.shown = next]
           e == [op |-> "State", state |-> next]
<1>1. Core(s) /\ Frame(r, s)
  BY PrefetchLemma
<1> HIDE DEF s
<1>2. next \in State
  BY <1>1, SnapshotType
<1>3. CASE next = s.shown
  <2>1. finish(r) = s
    BY <1>3 DEF finish, s
  <2> QED
    BY <1>1, <1>3, <2>1 DEF ShownOK
<1>4. CASE next # s.shown
  <2>1. s \in ReaderType
    BY <1>1 DEF Core
  <2> HIDE DEF next
  <2>2. t \in ReaderType
    BY <1>2, <2>1 DEF ReaderType
  <2>3. Frame(s, t) /\ t.requested = s.requested /\ t.shown = next
    BY <2>1 DEF ReaderType, Frame
  <2>4. snapshot(t) = next
    BY <2>1 DEF ReaderType, snapshot, in_code, next
  <2>5. Core(t)
    BY <1>1, <2>2, <2>3, CoreFrame
  <2>6. e \in Effect
    BY <1>2 DEF Effect
  <2>7. /\ Core(emit(t, e)) /\ Frame(t, emit(t, e))
        /\ snapshot(emit(t, e)) = snapshot(t) /\ emit(t, e).shown = t.shown
    BY <2>5, <2>6, EmitLemma
  <2>8. finish(r) = emit(t, e)
    BY <1>4 DEF finish, s, next
  <2> QED
    BY <1>1, <2>3, <2>4, <2>7, <2>8 DEF Frame, ShownOK
<1> QED
  BY <1>3, <1>4

(* A call ends well if what it hands to finish does.                       *)
Good(r) == Core(r) /\ Flags(r)

LEMMA FinishGood ==
  ASSUME NEW r, Good(r)
  PROVE  Good(finish(r)) /\ ShownOK(finish(r))
  BY FinishLemma, FlagsFrame DEF Good

-----------------------------------------------------------------------------
(* Transitions of the playing item.                                        *)

(* begin_chunk, called with nothing loaded, loads exactly if not paused.   *)
LEMMA BeginChunkLemma ==
  ASSUME NEW r, Core(r), r.current # None, r.loaded = None
  PROVE  LET s == begin_chunk(r)
         IN /\ Core(s)
            /\ s.current = r.current /\ s.queue = r.queue
            /\ s.paused = r.paused /\ s.step_wait = r.step_wait
            /\ s.next_id = r.next_id
            /\ r.paused => s.loaded = None
            /\ ~r.paused => s.loaded # None
<1> DEFINE id == r.current.item.id
           chunk == r.current.chunk
           s == request(r, id, chunk)
           g == s.gen + 1
           t == [s EXCEPT !.gen = g, !.loaded = g]
           e == [op |-> "PlayChunk", item |-> id, chunk |-> chunk, gen |-> g]
<1>1. r.current \in Current
  BY Fields DEF Core
<1>2. id \in ItemId /\ chunk \in Nat \ {0} /\ chunk <= Len(r.current.item.chunks)
  BY <1>1, CurrentFields DEF Core, InRange
<1>3. IsAlive(r, <<id, chunk>>)
  BY <1>1, <1>2, CurrentFields DEF IsAlive
<1>4. Core(s) /\ Frame(r, s) /\ <<id, chunk>> \in s.requested
  BY <1>2, <1>3, RequestLemma
<1> HIDE DEF s
<1>5. s \in ReaderType /\ g \in Nat \ {0}
  BY <1>4, Fields DEF Core
<1>6. CASE r.paused
  <2>1. begin_chunk(r) = s
    BY <1>4, <1>6 DEF begin_chunk, s, Frame
  <2> QED
    BY <1>4, <1>6, <2>1 DEF Frame
<1>7. CASE ~r.paused
  <2>0. begin_chunk(r) = emit(t, e)
    BY <1>4, <1>7 DEF begin_chunk, s, Frame
  <2> HIDE DEF g
  <2>1. t \in ReaderType
    <3>1. g \in Nat /\ g \in (Nat \ {0}) \cup {None}
      BY <1>5
    <3> QED
      BY <1>5, <3>1 DEF ReaderType
  <2>2. /\ t.current = r.current /\ t.queue = r.queue /\ t.next_id = r.next_id
        /\ t.paused = r.paused /\ t.step_wait = r.step_wait
        /\ t.requested = s.requested
        /\ t.gen = g /\ t.loaded = g
    BY <1>4, <1>5 DEF ReaderType, Frame
  <2>3. Core(t)
    BY <1>4, <2>1, <2>2, SMTT(30)
      DEF Core, Frame, InRange, LoadedOK, RequestedOK, IsAlive, IdsOK
  <2>4. e \in Effect
    BY <1>2, <1>5 DEF Effect
  <2>5. Core(emit(t, e)) /\ Frame(t, emit(t, e))
    BY <2>3, <2>4, EmitLemma
  <2>6. t.loaded # None
    BY <1>5, <2>2, ReaderConstants
  <2> QED
    BY <1>7, <2>0, <2>2, <2>5, <2>6 DEF Frame
<1> QED
  BY <1>6, <1>7

LEMMA StopOutputLemma ==
  ASSUME NEW r, Core(r)
  PROVE  LET s == stop_output(r)
         IN /\ Core(s) /\ s.loaded = None
            /\ s.current = r.current /\ s.queue = r.queue
            /\ s.paused = r.paused /\ s.step_wait = r.step_wait
            /\ s.next_id = r.next_id
<1> DEFINE t == [r EXCEPT !.loaded = None]
           e == [op |-> "StopOutput"]
<1>1. CASE r.loaded = None
  BY <1>1 DEF stop_output
<1>2. CASE r.loaded # None
  <2>1. r \in ReaderType
    BY DEF Core
  <2>2. t \in ReaderType
    BY <2>1 DEF ReaderType
  <2>3. /\ t.loaded = None /\ t.current = r.current /\ t.queue = r.queue
        /\ t.paused = r.paused /\ t.step_wait = r.step_wait
        /\ t.next_id = r.next_id /\ t.requested = r.requested
    BY <2>1 DEF ReaderType
  <2>4. Core(t)
    BY <2>2, <2>3 DEF Core, InRange, LoadedOK, RequestedOK, IsAlive, IdsOK
  <2>5. e \in Effect
    BY DEF Effect
  <2>6. Core(emit(t, e)) /\ Frame(t, emit(t, e))
    BY <2>4, <2>5, EmitLemma
  <2> QED
    BY <1>2, <2>3, <2>6 DEF stop_output, Frame
<1> QED
  BY <1>1, <1>2

LEMMA ItemEffect ==
  ASSUME NEW id \in ItemId, NEW phase \in Phase
  PROVE  [op |-> "Item", item |-> id, phase |-> phase] \in Effect
  BY DEF Effect

LEMMA EmitItemLemma ==
  ASSUME NEW r, Core(r), NEW id \in ItemId, NEW phase \in Phase
  PROVE  /\ Core(emit_item(r, id, phase)) /\ Frame(r, emit_item(r, id, phase))
         /\ snapshot(emit_item(r, id, phase)) = snapshot(r)
         /\ emit_item(r, id, phase).shown = r.shown
  BY ItemEffect, EmitLemma DEF emit_item

(* The current item ends: only queued items keep their requests.           *)
LEMMA EndCurrentLemma ==
  ASSUME NEW r, Core(r), r.current # None, NEW phase \in Phase
  PROVE  LET s == end_current(r, phase)
         IN /\ Core(s) /\ s.loaded = None /\ s.current = None
            /\ s.queue = r.queue /\ s.next_id = r.next_id
            /\ s.paused = r.paused /\ s.step_wait = r.step_wait
<1> DEFINE s == stop_output(r)
           id == s.current.item.id
           t == [s EXCEPT !.current = None, !.last = s.current.item]
           keep == {p \in t.requested : p[1] # id}
           u == [t EXCEPT !.requested = keep]
<1>1. /\ Core(s) /\ s.loaded = None /\ s.current = r.current
      /\ s.queue = r.queue /\ s.next_id = r.next_id
      /\ s.paused = r.paused /\ s.step_wait = r.step_wait
  BY StopOutputLemma
<1>0. end_current(r, phase) = emit_item(u, id, phase)
  BY <1>1 DEF end_current, forget
<1> HIDE DEF s
<1>2. s \in ReaderType /\ s.current \in Current /\ s.requested \in Requests
  BY <1>1, Fields DEF Core
<1>3. id \in ItemId /\ s.current.item \in Item
  BY <1>2, CurrentFields
<1>4. t \in ReaderType
  BY <1>2, <1>3 DEF ReaderType
<1>5. /\ t.current = None /\ t.queue = s.queue /\ t.loaded = s.loaded
      /\ t.next_id = s.next_id /\ t.requested = s.requested
      /\ t.paused = s.paused /\ t.step_wait = s.step_wait
  BY <1>2 DEF ReaderType
<1>6. keep \in Requests /\ keep \subseteq s.requested
      /\ \A p \in keep : p[1] # id
  BY <1>2, <1>5 DEF Requests
<1> HIDE DEF t, keep
<1>7. u \in ReaderType
  BY <1>4, <1>6 DEF ReaderType
<1>8. /\ u.current = None /\ u.queue = s.queue /\ u.loaded = s.loaded
      /\ u.next_id = s.next_id /\ u.requested = keep
      /\ u.paused = s.paused /\ u.step_wait = s.step_wait
  BY <1>4, <1>5 DEF ReaderType
<1> HIDE DEF u
<1>9. RequestedOK(u)
  <2> SUFFICES ASSUME NEW p \in keep
               PROVE  IsAlive(u, p)
    BY <1>8 DEF RequestedOK
  <2>1. IsAlive(s, p) /\ p[1] # id
    BY <1>1, <1>6 DEF Core, RequestedOK
  <2> QED
    BY <1>8, <2>1 DEF IsAlive
<1>10. Core(u)
  BY <1>1, <1>7, <1>8, <1>9 DEF Core, InRange, LoadedOK, IdsOK
<1>11. Core(emit_item(u, id, phase)) /\ Frame(u, emit_item(u, id, phase))
  BY <1>3, <1>10, EmitItemLemma
<1> QED
  BY <1>0, <1>1, <1>8, <1>11 DEF Frame

(* The queue is dropped: only the current item keeps its requests.         *)
LEMMA DropQueueLemma ==
  ASSUME NEW r, Core(r)
  PROVE  LET s == drop_queue(r)
         IN /\ Core(s) /\ s.queue = <<>>
            /\ s.loaded = r.loaded /\ s.current = r.current
            /\ s.next_id = r.next_id
            /\ s.paused = r.paused /\ s.step_wait = r.step_wait
<1> DEFINE keep == {p \in r.requested :
                      \A k \in 1..Len(r.queue) : r.queue[k].id # p[1]}
           Ended(k) == [op |-> "Item", item |-> r.queue[k].id, phase |-> "Skipped"]
           ends == [k \in 1..Len(r.queue) |-> Ended(k)]
           more == r.fx \o ends
           s == [r EXCEPT !.queue = <<>>, !.requested = keep, !.fx = more]
<1>0. drop_queue(r) = s
  BY DEF drop_queue
<1>1. /\ r \in ReaderType /\ r.queue \in Seq(Item) /\ r.requested \in Requests
      /\ r.fx \in Seq(Effect)
  BY Fields DEF Core, Queue, Effects
<1>2. more \in Effects
  <2>1. ASSUME NEW k \in 1..Len(r.queue)
        PROVE  Ended(k) \in Effect
    <3>0. r.queue[k] \in Item
      BY <1>1
    <3>1. r.queue[k].id \in ItemId
      BY <3>0 DEF Item
    <3>2. "Skipped" \in Phase
      BY DEF Phase
    <3> QED
      BY <3>1, <3>2, ItemEffect
  <2> HIDE DEF Ended
  <2>2. ends \in Seq(Effect)
    BY <1>1, <2>1
  <2> QED
    BY <1>1, <2>2 DEF Effects
<1>3. keep \in Requests /\ keep \subseteq r.requested
  BY <1>1 DEF Requests
<1>4. <<>> \in Queue
  BY DEF Queue
<1>5. \A p \in keep, k \in 1..Len(r.queue) : r.queue[k].id # p[1]
  OBVIOUS
<1> HIDE DEF keep, more
<1>6. s \in ReaderType
  BY <1>1, <1>2, <1>3, <1>4 DEF ReaderType
<1>7. /\ s.queue = <<>> /\ s.requested = keep /\ s.loaded = r.loaded
      /\ s.gen = r.gen /\ s.current = r.current /\ s.next_id = r.next_id
      /\ s.paused = r.paused /\ s.step_wait = r.step_wait
  BY <1>1 DEF ReaderType
<1> HIDE DEF s
<1>8. RequestedOK(s)
  <2> SUFFICES ASSUME NEW p \in keep
               PROVE  IsAlive(s, p)
    BY <1>7 DEF RequestedOK
  <2>1. IsAlive(r, p)
    BY <1>3 DEF Core, RequestedOK
  <2> QED
    BY <1>5, <1>7, <2>1 DEF IsAlive
<1>9. LoadedOK(s)
  <2> SUFFICES ASSUME r.loaded # None
               PROVE  <<r.current.item.id, r.current.chunk>> \in keep
    BY <1>7 DEF Core, LoadedOK
  <2>1. <<r.current.item.id, r.current.chunk>> \in r.requested /\ r.current # None
    BY DEF Core, LoadedOK
  <2>2. \A k \in 1..Len(r.queue) : r.queue[k].id # r.current.item.id
    BY <2>1 DEF Core, IdsOK
  <2> QED
    BY <2>1, <2>2 DEF keep
<1>10. Core(s)
  BY <1>6, <1>7, <1>8, <1>9 DEF Core, InRange, IdsOK
<1> QED
  BY <1>0, <1>7, <1>10

(* A step wait is lifted; a pause the user made is kept.                   *)
LEMMA EndWaitLemma ==
  ASSUME NEW r, Core(r)
  PROVE  LET s == end_wait(r)
         IN /\ Core(s) /\ ~s.step_wait
            /\ s.loaded = r.loaded /\ s.current = r.current
            /\ s.queue = r.queue /\ s.next_id = r.next_id
<1> DEFINE s == [r EXCEPT !.step_wait = FALSE, !.paused = FALSE]
<1>1. r \in ReaderType /\ r.step_wait \in BOOLEAN
  BY Fields DEF Core
<1>2. CASE ~r.step_wait
  BY <1>2 DEF end_wait
<1>3. CASE r.step_wait
  <2>1. s \in ReaderType
    BY <1>1 DEF ReaderType
  <2>2. /\ s.current = r.current /\ s.queue = r.queue /\ s.loaded = r.loaded
        /\ s.gen = r.gen /\ s.next_id = r.next_id
        /\ s.requested = r.requested /\ s.step_wait = FALSE
    BY <1>1 DEF ReaderType
  <2>3. Core(s)
    BY <2>1, <2>2 DEF Core, InRange, LoadedOK, RequestedOK, IsAlive, IdsOK
  <2> QED
    BY <1>3, <2>2, <2>3 DEF end_wait
<1> QED
  BY <1>2, <1>3

(* With no current item, the next one starts or the reader goes idle.      *)
LEMMA StartNextLemma ==
  ASSUME NEW r, Core(r), r.current = None, r.loaded = None
  PROVE  Good(start_next(r))
<1> DEFINE s == end_wait(r)
<1>1. /\ Core(s) /\ ~s.step_wait /\ s.loaded = None /\ s.current = None
  BY EndWaitLemma
<1> HIDE DEF s
<1>2. s \in ReaderType /\ s.queue \in Seq(Item)
  BY <1>1, Fields DEF Core, Queue
<1>3. CASE s.queue = <<>>
  <2> DEFINE t == [s EXCEPT !.paused = FALSE]
  <2>1. t \in ReaderType
    BY <1>2 DEF ReaderType
  <2>2. /\ t.current = s.current /\ t.queue = s.queue /\ t.loaded = s.loaded
        /\ t.gen = s.gen /\ t.next_id = s.next_id
        /\ t.requested = s.requested /\ t.step_wait = s.step_wait
        /\ t.paused = FALSE
    BY <1>2 DEF ReaderType
  <2>3. Core(t)
    BY <1>1, <2>1, <2>2 DEF Core, InRange, LoadedOK, RequestedOK, IsAlive, IdsOK
  <2>4. start_next(r) = t
    BY <1>3 DEF start_next, s
  <2> QED
    BY <1>1, <1>3, <2>2, <2>3, <2>4 DEF Good, Flags, IdleOK, PlayingOK, StepWaitOK
<1>4. CASE s.queue # <<>>
  <2> DEFINE item == Head(s.queue)
             rest == Tail(s.queue)
             q == [s EXCEPT !.queue = rest, !.released = FALSE]
             t == emit_item(q, item.id, "Started")
             c == [item |-> item, chunk |-> 1, played_any |-> FALSE]
             u == [t EXCEPT !.current = c]
  <2>0. start_next(r) = begin_chunk(u)
    BY <1>4 DEF start_next, s
  <2>1. /\ item \in Item /\ item = s.queue[1] /\ rest \in Seq(Item)
        /\ Len(s.queue) \in Nat \ {0} /\ Len(rest) = Len(s.queue) - 1
        /\ \A k \in 1..Len(rest) : rest[k] = s.queue[k + 1] /\ k + 1 \in 1..Len(s.queue)
    BY <1>2, <1>4
  <2> HIDE DEF item, rest
  <2>2. item.id \in ItemId /\ item.chunks \in Seq(Kind) /\ item.chunks # <<>>
    BY <2>1 DEF Item
  <2>3. q \in ReaderType
    <3>1. rest \in Queue
      BY <2>1 DEF Queue
    <3> QED
      BY <1>2, <3>1 DEF ReaderType
  <2>4. /\ q.current = None /\ q.queue = rest /\ q.loaded = None
        /\ q.requested = s.requested /\ q.next_id = s.next_id
        /\ q.paused = s.paused /\ q.step_wait = s.step_wait
    BY <1>1, <1>2 DEF ReaderType
  <2> HIDE DEF q
  <2>5. t \in ReaderType /\ Frame(q, t) /\ t.requested = q.requested
    <3> DEFINE e == [op |-> "Item", item |-> item.id, phase |-> "Started"]
    <3>1. e \in Effect
      <4>1. "Started" \in Phase
        BY DEF Phase
      <4> QED
        BY <2>2, <4>1, ItemEffect
    <3> HIDE DEF e
    <3>2. Append(q.fx, e) \in Effects
      BY <2>3, <3>1, Fields DEF Effects
    <3>3. t = [q EXCEPT !.fx = Append(q.fx, e)]
      BY DEF emit_item, emit, e
    <3> QED
      BY <2>3, <3>2, <3>3 DEF ReaderType, Frame
  <2> HIDE DEF t
  <2>6. c \in Current
    BY <2>1 DEF Current
  <2>7. c.item = item /\ c.chunk = 1
    OBVIOUS
  <2> HIDE DEF c
  <2>8. u \in ReaderType
    BY <2>5, <2>6 DEF ReaderType
  <2>9. /\ u.current = c /\ u.queue = rest /\ u.loaded = None
        /\ u.requested = s.requested /\ u.next_id = s.next_id
        /\ u.paused = s.paused /\ u.step_wait = s.step_wait
    BY <2>4, <2>5 DEF ReaderType, Frame
  <2> HIDE DEF u
  <2>10. u.current # None
    BY <2>6, <2>9, ReaderConstants
  <2>11. RequestedOK(u)
    <3> SUFFICES ASSUME NEW p \in s.requested
                 PROVE  IsAlive(u, p)
      BY <2>9 DEF RequestedOK
    <3>1. PICK k \in 1..Len(s.queue) : /\ p[1] = s.queue[k].id
                                       /\ p[2] \in 1..Len(s.queue[k].chunks)
      BY <1>1 DEF Core, RequestedOK, IsAlive
    <3>2. CASE k = 1
      BY <2>1, <2>7, <2>9, <2>10, <3>1, <3>2 DEF IsAlive
    <3>3. CASE k # 1
      <4>1. k - 1 \in 1..Len(rest) /\ rest[k - 1] = s.queue[k]
        BY <2>1, <3>3
      <4> QED
        BY <2>9, <3>1, <4>1 DEF IsAlive
    <3> QED
      BY <3>2, <3>3
  <2>12. IdsOK(u)
    <3>1. /\ item.id < s.next_id
          /\ \A k \in 1..Len(rest) :
               /\ rest[k].id < s.next_id /\ rest[k].id # item.id
               /\ \A j \in 1..Len(rest) : j # k => rest[j].id # rest[k].id
      BY <1>1, <2>1 DEF Core, IdsOK
    <3> QED
      BY <2>7, <2>9, <3>1 DEF IdsOK
  <2>13. InRange(u)
    BY <2>2, <2>7, <2>9 DEF InRange
  <2>14. Core(u)
    BY <2>8, <2>9, <2>11, <2>12, <2>13 DEF Core, LoadedOK
  <2>15. /\ Core(begin_chunk(u)) /\ begin_chunk(u).current = u.current
         /\ begin_chunk(u).paused = u.paused
         /\ begin_chunk(u).step_wait = u.step_wait
         /\ ~u.paused => begin_chunk(u).loaded # None
    BY <2>9, <2>10, <2>14, BeginChunkLemma
  <2> QED
    BY <1>1, <2>0, <2>9, <2>10, <2>15 DEF Good, Flags, IdleOK, PlayingOK, StepWaitOK
<1> QED
  BY <1>3, <1>4

LEMMA SkipLemma ==
  ASSUME NEW r, Core(r), r.current # None
  PROVE  Good(skip(r))
<1>1. "Skipped" \in Phase
  BY DEF Phase
<1> QED
  BY <1>1, EndCurrentLemma, StartNextLemma DEF skip

(* The shared end of move_to and advance: another chunk of the same item,  *)
(* with nothing loaded, is begun.                                          *)
LEMMA ChunkMoveLemma ==
  ASSUME NEW s, Core(s), s.current # None,
         NEW to \in 1..Len(s.current.item.chunks),
         NEW c, c = [s.current EXCEPT !.chunk = to],
         NEW v \in ReaderType,
         v.current = c, v.queue = s.queue, v.loaded = None,
         v.next_id = s.next_id, v.requested = s.requested,
         v.step_wait => v.paused
  PROVE  Good(begin_chunk(v))
<1>1. s.current \in Current
  BY Fields DEF Core
<1>2. c \in Current /\ c.item = s.current.item /\ c.chunk = to
  BY <1>1, CurrentFields DEF Current
<1>3. v.current # None
  BY <1>2, ReaderConstants
<1>4. Core(v)
  BY <1>2, <1>3 DEF Core, InRange, LoadedOK, RequestedOK, IsAlive, IdsOK
<1>5. v.paused \in BOOLEAN
  BY Fields
<1>6. LET w == begin_chunk(v)
      IN /\ Core(w) /\ w.current = v.current
         /\ w.paused = v.paused /\ w.step_wait = v.step_wait
         /\ v.paused => w.loaded = None
         /\ ~v.paused => w.loaded # None
  BY <1>3, <1>4, BeginChunkLemma
<1> QED
  BY <1>3, <1>6 DEF Good, Flags, IdleOK, PlayingOK, StepWaitOK

LEMMA MoveToLemma ==
  ASSUME NEW r, Core(r), r.current # None,
         NEW to \in 1..Len(r.current.item.chunks)
  PROVE  Good(move_to(r, to))
<1> DEFINE s == stop_output(end_wait(r))
           c == [s.current EXCEPT !.chunk = to]
           t == [s EXCEPT !.current = c]
           b == s.released /\ kind_at(t, to) = "Line"
           v == [t EXCEPT !.released = b]
<1>1. /\ Core(s) /\ s.loaded = None /\ ~s.step_wait /\ s.current = r.current
  BY EndWaitLemma, StopOutputLemma
<1> HIDE DEF s
<1>2. s \in ReaderType /\ s.current \in Current
  BY <1>1, Fields DEF Core
<1>3. c \in Current
  BY <1>1, <1>2, CurrentFields DEF Current
<1>4. t = [s EXCEPT !.current.chunk = to] /\ t.released = s.released
  BY <1>2 DEF ReaderType
<1>0. move_to(r, to) = begin_chunk(v)
  BY <1>1, <1>4 DEF move_to, s
<1> HIDE DEF c
<1>5. t \in ReaderType
  BY <1>2, <1>3 DEF ReaderType
<1>6. /\ t.current = c /\ t.queue = s.queue /\ t.loaded = s.loaded
      /\ t.next_id = s.next_id /\ t.requested = s.requested
      /\ t.paused = s.paused /\ t.step_wait = s.step_wait
  BY <1>2 DEF ReaderType
<1>7. b \in BOOLEAN
  BY <1>2, Fields
<1> HIDE DEF t, b
<1>8. v \in ReaderType
  BY <1>5, <1>7 DEF ReaderType
<1>9. /\ v.current = c /\ v.queue = s.queue /\ v.loaded = s.loaded
      /\ v.next_id = s.next_id /\ v.requested = s.requested
      /\ v.paused = s.paused /\ v.step_wait = s.step_wait
  BY <1>5, <1>6 DEF ReaderType
<1> HIDE DEF v
<1>10. c = [s.current EXCEPT !.chunk = to]
  BY DEF c
<1>11. to \in 1..Len(s.current.item.chunks)
  BY <1>1
<1>12. Good(begin_chunk(v))
  BY <1>1, <1>8, <1>9, <1>10, <1>11, ChunkMoveLemma
<1> QED
  BY <1>0, <1>12

(* The loaded chunk ended: the next one, or the next item.                 *)
LEMMA AdvanceLemma ==
  ASSUME NEW r, Core(r), r.current # None, r.loaded = None, ~r.step_wait
  PROVE  Good(advance(r))
<1> DEFINE at == r.current.chunk
           len == Len(r.current.item.chunks)
<1>1. r \in ReaderType /\ r.current \in Current
  BY Fields DEF Core
<1>2. at \in Nat \ {0} /\ len \in Nat /\ at <= len
  BY <1>1, CurrentFields DEF Core, InRange
<1>3. CASE at < len
  <2> DEFINE done == kind_at(r, at)
             next == kind_at(r, at + 1)
             wait == r.code_step /\ ~r.released /\ waits(done, next) /\ ~r.paused
             c == [r.current EXCEPT !.chunk = at + 1]
             b == r.released /\ next = "Line"
             pz == r.paused \/ wait
             sw == r.step_wait \/ wait
             v == [r EXCEPT !.current = c, !.released = b,
                            !.paused = pz, !.step_wait = sw]
  <2>1. b \in BOOLEAN /\ pz \in BOOLEAN /\ sw \in BOOLEAN /\ (sw => pz)
    BY <1>1, Fields DEF waits
  <2>2. c \in Current
    BY <1>1, <1>2, CurrentFields DEF Current
  <2>3. v = [r EXCEPT !.current.chunk = at + 1, !.released = b,
                      !.paused = pz, !.step_wait = sw]
    BY <1>1 DEF ReaderType
  <2>0. advance(r) = begin_chunk(v)
    BY <1>3, <2>3 DEF advance
  <2>4. at + 1 \in 1..len /\ c = [r.current EXCEPT !.chunk = at + 1]
    BY <1>2, <1>3
  <2> HIDE DEF b, pz, sw, c
  <2>5. v \in ReaderType
    BY <1>1, <2>1, <2>2, ZenonT(60) DEF ReaderType
  <2>6. /\ v.current = c /\ v.queue = r.queue /\ v.loaded = r.loaded
        /\ v.next_id = r.next_id /\ v.requested = r.requested
        /\ v.paused = pz /\ v.step_wait = sw
    BY <1>1 DEF ReaderType
  <2> HIDE DEF v
  <2>7. Good(begin_chunk(v))
    BY <2>1, <2>4, <2>5, <2>6, ChunkMoveLemma
  <2> QED
    BY <2>0, <2>7
<1>4. CASE ~(at < len)
  <2> DEFINE phase == IF r.current.played_any THEN "Finished" ELSE "Failed"
  <2>1. phase \in Phase
    BY DEF Phase
  <2>2. advance(r) = start_next(end_current(r, phase))
    BY <1>4 DEF advance
  <2> HIDE DEF phase
  <2> QED
    BY <2>1, <2>2, EndCurrentLemma, StartNextLemma
<1> QED
  BY <1>3, <1>4

-----------------------------------------------------------------------------
(* Controls.                                                               *)

LEMMA PauseLemma ==
  ASSUME NEW r, Good(r)
  PROVE  Good(pause(r))
<1> DEFINE s == [r EXCEPT !.step_wait = FALSE]
           t == [s EXCEPT !.paused = TRUE]
           e == [op |-> "PauseOutput"]
<1>1. r \in ReaderType /\ Core(r) /\ Flags(r)
  BY DEF Good, Core
<1>2. s \in ReaderType
  BY <1>1 DEF ReaderType
<1>3. /\ s.current = r.current /\ s.queue = r.queue /\ s.loaded = r.loaded
      /\ s.gen = r.gen /\ s.next_id = r.next_id /\ s.requested = r.requested
      /\ s.paused = r.paused /\ s.step_wait = FALSE
  BY <1>1 DEF ReaderType
<1>4. Core(s)
  BY <1>1, <1>2, <1>3 DEF Core, InRange, LoadedOK, RequestedOK, IsAlive, IdsOK
<1>5. CASE s.current = None \/ s.paused
  <2>1. pause(r) = s
    BY <1>5 DEF pause
  <2> QED
    BY <1>1, <1>3, <1>4, <2>1 DEF Good, Flags, IdleOK, PlayingOK, StepWaitOK
<1>6. CASE s.current # None /\ ~s.paused
  <2>1. pause(r) = IF t.loaded # None THEN emit(t, e) ELSE t
    BY <1>6 DEF pause
  <2> HIDE DEF s
  <2>2. t \in ReaderType
    BY <1>2 DEF ReaderType
  <2>3. /\ t.current = s.current /\ t.queue = s.queue /\ t.loaded = s.loaded
        /\ t.gen = s.gen /\ t.next_id = s.next_id /\ t.requested = s.requested
        /\ t.paused = TRUE /\ t.step_wait = s.step_wait
    BY <1>2 DEF ReaderType
  <2>4. Core(t)
    BY <1>4, <2>2, <2>3 DEF Core, InRange, LoadedOK, RequestedOK, IsAlive, IdsOK
  <2>5. Flags(t)
    BY <1>3, <1>6, <2>3 DEF Flags, IdleOK, PlayingOK, StepWaitOK
  <2>6. e \in Effect
    BY DEF Effect
  <2> QED
    BY <2>1, <2>4, <2>5, <2>6, EmitLemma, FlagsFrame DEF Good
<1> QED
  BY <1>5, <1>6

LEMMA ResumeLemma ==
  ASSUME NEW r, Core(r), r.current # None
  PROVE  Good(resume(r))
<1> DEFINE s == [r EXCEPT !.paused = FALSE, !.step_wait = FALSE]
           e == [op |-> "ResumeOutput"]
<1>1. r \in ReaderType
  BY DEF Core
<1>2. s \in ReaderType
  BY <1>1 DEF ReaderType
<1>3. /\ s.current = r.current /\ s.queue = r.queue /\ s.loaded = r.loaded
      /\ s.gen = r.gen /\ s.next_id = r.next_id /\ s.requested = r.requested
      /\ s.paused = FALSE /\ s.step_wait = FALSE
  BY <1>1 DEF ReaderType
<1>0. resume(r) = IF s.loaded # None THEN emit(s, e) ELSE begin_chunk(s)
  BY DEF resume
<1> HIDE DEF s
<1>4. Core(s)
  BY <1>2, <1>3 DEF Core, InRange, LoadedOK, RequestedOK, IsAlive, IdsOK
<1>5. CASE s.loaded # None
  <2>1. Flags(s)
    BY <1>3, <1>5 DEF Flags, IdleOK, PlayingOK, StepWaitOK
  <2>2. e \in Effect
    BY DEF Effect
  <2> QED
    BY <1>0, <1>4, <1>5, <2>1, <2>2, EmitLemma, FlagsFrame DEF Good
<1>6. CASE s.loaded = None
  <2>1. LET w == begin_chunk(s)
        IN Core(w) /\ w.current = s.current /\ ~w.step_wait /\ w.loaded # None
    BY <1>3, <1>4, <1>6, BeginChunkLemma
  <2> QED
    BY <1>0, <1>3, <1>6, <2>1 DEF Good, Flags, IdleOK, PlayingOK, StepWaitOK
<1> QED
  BY <1>5, <1>6

LEMMA PlayLemma ==
  ASSUME NEW r, Good(r)
  PROVE  Good(play(r))
<1>1. CASE ~r.paused
  BY <1>1 DEF play
<1>2. CASE r.paused
  <2> DEFINE s == release_code(r)
  <2>1. Core(r) /\ r.current # None /\ r \in ReaderType
    BY <1>2 DEF Good, Core, Flags, IdleOK
  <2>2. s \in ReaderType /\ Frame(r, s) /\ s.requested = r.requested
    BY <2>1 DEF release_code, ReaderType, Frame
  <2>3. Core(s) /\ s.current # None
    BY <2>1, <2>2, CoreFrame DEF Frame
  <2>4. play(r) = resume(s)
    BY <1>2 DEF play
  <2> HIDE DEF s
  <2> QED
    BY <2>3, <2>4, ResumeLemma
<1> QED
  BY <1>1, <1>2

LEMMA StopLemma ==
  ASSUME NEW r, Good(r)
  PROVE  Good(stop(r))
<1>1. r \in ReaderType /\ Core(r) /\ Flags(r)
  BY DEF Good, Core
<1>2. CASE r.current = None /\ r.queue = <<>>
  <2> DEFINE s == [r EXCEPT !.last = None]
  <2>1. s \in ReaderType /\ Frame(r, s) /\ s.requested = r.requested
    BY <1>1 DEF ReaderType, Frame
  <2>2. stop(r) = s
    BY <1>2 DEF stop
  <2> QED
    BY <1>1, <2>1, <2>2, CoreFrame, FlagsFrame DEF Good
<1>3. CASE ~(r.current = None /\ r.queue = <<>>)
  <2> DEFINE s == drop_queue(end_current(r, "Skipped"))
             t == [s EXCEPT !.last = None, !.paused = FALSE, !.step_wait = FALSE]
  <2>1. r.current # None /\ "Skipped" \in Phase
    BY <1>1, <1>3 DEF Flags, IdleOK, Phase
  <2>2. Core(s) /\ s.current = None /\ s.loaded = None /\ s.queue = <<>>
    BY <1>1, <2>1, EndCurrentLemma, DropQueueLemma
  <2>3. stop(r) = t
    BY <1>3 DEF stop
  <2> HIDE DEF s
  <2>4. s \in ReaderType
    BY <2>2 DEF Core
  <2>5. t \in ReaderType
    BY <2>4 DEF ReaderType
  <2>6. /\ t.current = s.current /\ t.queue = s.queue /\ t.loaded = s.loaded
        /\ t.gen = s.gen /\ t.next_id = s.next_id /\ t.requested = s.requested
        /\ t.paused = FALSE /\ t.step_wait = FALSE
    BY <2>4 DEF ReaderType
  <2>7. Core(t)
    BY <2>2, <2>5, <2>6 DEF Core, InRange, LoadedOK, RequestedOK, IsAlive, IdsOK
  <2> QED
    BY <2>2, <2>3, <2>6, <2>7 DEF Good, Flags, IdleOK, PlayingOK, StepWaitOK
<1> QED
  BY <1>2, <1>3

LEMMA LineStepLemma ==
  ASSUME NEW r, Good(r), NEW next \in BOOLEAN
  PROVE  Good(line_step(r, next))
<1>1. r \in ReaderType /\ Core(r)
  BY DEF Good, Core
<1>2. CASE r.current = None \/ ~in_code(r)
  BY <1>2 DEF line_step
<1>3. CASE ~(r.current = None \/ ~in_code(r))
  <2> DEFINE to == line_target(r, next)
             len == Len(r.current.item.chunks)
             s == [r EXCEPT !.paused = FALSE, !.step_wait = FALSE, !.released = FALSE]
  <2>1. r.current # None /\ r.current \in Current
    BY <1>1, <1>3, Fields
  <2>2. r.current.chunk \in Nat \ {0} /\ len \in Nat /\ r.current.chunk <= len
    BY <1>1, <2>1, CurrentFields DEF Core, InRange
  <2>3. to \in 1..(len + 1)
    BY <2>2 DEF line_target
  <2>4. line_step(r, next) = IF to > len THEN skip(s) ELSE move_to(s, to)
    BY <1>3 DEF line_step
  <2> HIDE DEF to
  <2>5. s \in ReaderType
    BY <1>1 DEF ReaderType
  <2>6. /\ s.current = r.current /\ s.queue = r.queue /\ s.loaded = r.loaded
        /\ s.gen = r.gen /\ s.next_id = r.next_id /\ s.requested = r.requested
    BY <1>1 DEF ReaderType
  <2> HIDE DEF s
  <2>7. Core(s)
    BY <1>1, <2>5, <2>6 DEF Core, InRange, LoadedOK, RequestedOK, IsAlive, IdsOK
  <2>8. CASE to > len
    BY <2>1, <2>4, <2>6, <2>7, <2>8, SkipLemma
  <2>9. CASE ~(to > len)
    <3>1. to \in 1..Len(s.current.item.chunks)
      BY <2>2, <2>3, <2>6, <2>9
    <3>2. Good(move_to(s, to))
      BY <2>1, <2>6, <2>7, <3>1, MoveToLemma
    <3> QED
      BY <2>4, <2>9, <3>2
  <2> QED
    BY <2>8, <2>9
<1> QED
  BY <1>2, <1>3

LEMMA NextPreviousLemma ==
  ASSUME NEW r, Good(r)
  PROVE  Good(next_chunk(r)) /\ Good(previous_chunk(r))
<1>1. CASE r.current = None
  BY <1>1 DEF next_chunk, previous_chunk
<1>2. CASE r.current # None
  <2>1. Core(r) /\ r.current \in Current
    BY <1>2, Fields DEF Good, Core
  <2>2. /\ r.current.chunk \in Nat \ {0} /\ Len(r.current.item.chunks) \in Nat
        /\ r.current.chunk <= Len(r.current.item.chunks)
    BY <1>2, <2>1, CurrentFields DEF Core, InRange
  <2>3. Good(next_chunk(r))
    <3>1. CASE r.current.chunk < Len(r.current.item.chunks)
      <4>1. r.current.chunk + 1 \in 1..Len(r.current.item.chunks)
        BY <2>2, <3>1
      <4>2. Good(move_to(r, r.current.chunk + 1))
        BY <1>2, <2>1, <4>1, MoveToLemma
      <4> QED
        BY <1>2, <3>1, <4>2 DEF next_chunk
    <3>2. CASE ~(r.current.chunk < Len(r.current.item.chunks))
      BY <1>2, <2>1, <3>2, SkipLemma DEF next_chunk
    <3> QED
      BY <3>1, <3>2
  <2>4. Good(previous_chunk(r))
    <3> DEFINE to == IF r.current.chunk > 1 THEN r.current.chunk - 1 ELSE 1
    <3>1. to \in 1..Len(r.current.item.chunks)
      BY <2>2
    <3>2. previous_chunk(r) = move_to(r, to)
      BY <1>2 DEF previous_chunk
    <3> HIDE DEF to
    <3> QED
      BY <1>2, <2>1, <3>1, <3>2, MoveToLemma
  <2> QED
    BY <2>3, <2>4
<1> QED
  BY <1>1, <1>2

-----------------------------------------------------------------------------
(* New items.                                                              *)

(* No item alive has an id of n or more.                                   *)
Below(r, n) == /\ r.current # None => r.current.item.id < n
               /\ \A k \in 1..Len(r.queue) : r.queue[k].id < n

(* A fresh item joins the queue at either end.                             *)
LEMMA EnqueueLemma ==
  ASSUME NEW r, Core(r), NEW item \in Item, Below(r, item.id),
         NEW v \in ReaderType,
         \/ v.queue = <<item>> \o r.queue
         \/ v.queue = Append(r.queue, item),
         v.current = r.current, v.loaded = r.loaded, v.gen = r.gen,
         v.requested = r.requested,
         item.id < v.next_id, r.next_id <= v.next_id
  PROVE  Core(v)
<1>1. r.queue \in Seq(Item) /\ r.next_id \in Nat /\ v.next_id \in Nat
  BY Fields DEF Core, Queue, ItemId
<1>2. item.id \in Nat
  BY DEF Item, ItemId
<1>3. \A k \in 1..Len(r.queue) : r.queue[k].id \in Nat
  <2>1. \A k \in 1..Len(r.queue) : r.queue[k] \in Item
    BY <1>1
  <2> QED
    BY <2>1 DEF Item, ItemId
<1>4. r.current # None => r.current.item.id \in Nat
  BY Fields, CurrentFields DEF Core, ItemId
<1>5. InRange(v) /\ LoadedOK(v)
  BY DEF Core, InRange, LoadedOK
<1> DEFINE old == 1..Len(r.queue)
           places == 1..Len(v.queue)
           (* m maps a place in the new queue to the old one, 0 for item.  *)
           Moved(m) == /\ m \in [places -> 0..Len(r.queue)]
                       /\ \A j, k \in places : m[j] = m[k] => j = k
                       /\ \A k \in places : v.queue[k] =
                            IF m[k] = 0 THEN item ELSE r.queue[m[k]]
                       /\ \A j \in old : \E k \in places : m[k] = j
<1>6. \E m : Moved(m)
  <2>1. CASE v.queue = <<item>> \o r.queue
    <3> DEFINE m == [k \in places |-> k - 1]
    <3>1. /\ Len(v.queue) = Len(r.queue) + 1 /\ v.queue[1] = item
          /\ \A k \in places : k # 1 => v.queue[k] = r.queue[k - 1]
      BY <1>1, <2>1
    <3>2. \A j \in old : j + 1 \in places /\ m[j + 1] = j
      BY <1>1, <3>1
    <3>3. m \in [places -> 0..Len(r.queue)] /\ \A j, k \in places : m[j] = m[k] => j = k
      BY <1>1, <3>1
    <3>4. ASSUME NEW k \in places
          PROVE  v.queue[k] = IF m[k] = 0 THEN item ELSE r.queue[m[k]]
      <4>1. m[k] = k - 1 /\ k \in Nat /\ (k - 1 = 0 <=> k = 1)
        BY <1>1, <3>1
      <4> HIDE DEF m
      <4> QED
        BY <3>1, <4>1
    <3>5. Moved(m)
      BY <3>2, <3>3, <3>4
    <3> QED
      BY <3>5
  <2>2. CASE v.queue = Append(r.queue, item)
    <3> DEFINE m == [k \in places |-> IF k = Len(v.queue) THEN 0 ELSE k]
    <3>1. /\ Len(v.queue) = Len(r.queue) + 1 /\ v.queue[Len(v.queue)] = item
          /\ \A k \in places : k # Len(v.queue) => v.queue[k] = r.queue[k]
      BY <1>1, <2>2
    <3>2. \A j \in old : j \in places /\ m[j] = j
      BY <1>1, <3>1
    <3>3. m \in [places -> 0..Len(r.queue)] /\ \A j, k \in places : m[j] = m[k] => j = k
      BY <1>1, <3>1
    <3>4. ASSUME NEW k \in places
          PROVE  v.queue[k] = IF m[k] = 0 THEN item ELSE r.queue[m[k]]
      <4>1. m[k] = IF k = Len(v.queue) THEN 0 ELSE k
        OBVIOUS
      <4>2. k # 0
        OBVIOUS
      <4> HIDE DEF m
      <4> QED
        BY <3>1, <4>1, <4>2
    <3>5. Moved(m)
      BY <3>2, <3>3, <3>4
    <3> QED
      BY <3>5, ZenonT(60)
  <2> QED
    BY <2>1, <2>2
<1>7. PICK m : Moved(m)
  BY <1>6
<1>8. ASSUME NEW k \in places
      PROVE  /\ v.queue[k].id < v.next_id
             /\ r.current # None => v.queue[k].id # r.current.item.id
  <2>1. CASE m[k] = 0
    BY <1>2, <1>4, <1>7, <2>1 DEF Below
  <2>2. CASE m[k] # 0
    <3>1. m[k] \in old /\ v.queue[k] = r.queue[m[k]]
      BY <1>1, <1>7, <2>2
    <3>2. /\ r.queue[m[k]].id < item.id /\ r.queue[m[k]].id \in Nat
          /\ r.current # None => r.queue[m[k]].id # r.current.item.id
      BY <1>3, <3>1 DEF Below, Core, IdsOK
    <3> QED
      BY <1>1, <1>2, <3>1, <3>2
  <2> QED
    BY <2>1, <2>2
<1>9. ASSUME NEW k \in places, NEW j \in places, j # k
      PROVE  v.queue[j].id # v.queue[k].id
  <2>1. /\ m[j] # m[k] /\ m[j] \in 0..Len(r.queue) /\ m[k] \in 0..Len(r.queue)
        /\ v.queue[k] = IF m[k] = 0 THEN item ELSE r.queue[m[k]]
        /\ v.queue[j] = IF m[j] = 0 THEN item ELSE r.queue[m[j]]
    BY <1>7, <1>9
  <2>2. ASSUME NEW i \in 0..Len(r.queue), i # 0
        PROVE  i \in old /\ r.queue[i].id # item.id
    <3>1. i \in old
      BY <1>1, <2>2
    <3>2. r.queue[i].id < item.id /\ r.queue[i].id \in Nat
      BY <1>3, <3>1 DEF Below
    <3> QED
      BY <1>2, <3>1, <3>2
  <2>3. CASE m[k] = 0
    BY <2>1, <2>2, <2>3
  <2>4. CASE m[j] = 0
    BY <2>1, <2>2, <2>4
  <2>5. CASE m[k] # 0 /\ m[j] # 0
    <3>1. m[k] \in old /\ m[j] \in old
      BY <2>1, <2>2, <2>5
    <3>2. \A x, y \in old : x # y => r.queue[x].id # r.queue[y].id
      BY DEF Core, IdsOK
    <3> QED
      BY <2>1, <2>5, <3>1, <3>2
  <2> QED
    BY <2>3, <2>4, <2>5
<1>10. IdsOK(v)
  <2>1. r.current # None => r.current.item.id < v.next_id
    BY <1>1, <1>2, <1>4 DEF Below
  <2> QED
    BY <1>8, <1>9, <2>1 DEF IdsOK
<1>11. RequestedOK(v)
  <2> SUFFICES ASSUME NEW p \in r.requested, NEW j \in old,
                      p[1] = r.queue[j].id, p[2] \in 1..Len(r.queue[j].chunks)
               PROVE  \E k \in places : /\ p[1] = v.queue[k].id
                                     /\ p[2] \in 1..Len(v.queue[k].chunks)
    BY DEF Core, RequestedOK, IsAlive
  <2>1. PICK k \in places : m[k] = j
    BY <1>7
  <2>2. v.queue[k] = r.queue[j]
    <3>1. v.queue[k] = IF m[k] = 0 THEN item ELSE r.queue[m[k]]
      BY <1>7
    <3>2. j # 0
      OBVIOUS
    <3> QED
      BY <2>1, <3>1, <3>2
  <2> QED
    BY <2>2
<1> QED
  BY <1>5, <1>10, <1>11 DEF Core

LEMMA RestartLemma ==
  ASSUME NEW r, Good(r)
  PROVE  Good(restart(r))
<1>1. r \in ReaderType /\ Core(r) /\ Flags(r)
  BY DEF Good, Core
<1>2. CASE r.current # None
  <2>1. 1 \in 1..Len(r.current.item.chunks)
    BY <1>1, <1>2, Fields, CurrentFields
  <2> QED
    BY <1>1, <1>2, <2>1, MoveToLemma DEF restart
<1>3. CASE r.current = None /\ r.last = None
  BY <1>3 DEF restart
<1>4. CASE r.current = None /\ r.last # None
  <2> DEFINE item == [r.last EXCEPT !.id = r.next_id]
             q == <<item>> \o r.queue
             n == r.next_id + 1
             v == [r EXCEPT !.queue = q, !.next_id = n, !.last = None]
  <2>1. r.last \in Item /\ r.next_id \in ItemId /\ r.queue \in Seq(Item)
    BY <1>1, <1>4, Fields DEF Queue
  <2>2. item \in Item /\ item.id = r.next_id
    BY <2>1 DEF Item
  <2>0. restart(r) = start_next(v)
    BY <1>4 DEF restart
  <2> HIDE DEF item
  <2>3. q \in Queue
    BY <2>1, <2>2 DEF Queue
  <2>4. n \in ItemId /\ item.id < n /\ r.next_id <= n
    BY <2>1, <2>2 DEF ItemId
  <2>5. q = <<item>> \o r.queue
    OBVIOUS
  <2> HIDE DEF q, n
  <2>6. v \in ReaderType
    BY <1>1, <2>3, <2>4 DEF ReaderType
  <2>7. /\ v.queue = q /\ v.next_id = n /\ v.current = r.current
        /\ v.loaded = r.loaded /\ v.gen = r.gen /\ v.requested = r.requested
    BY <1>1 DEF ReaderType
  <2> HIDE DEF v
  <2>8. Below(r, item.id)
    BY <1>1, <2>2 DEF Core, IdsOK, Below
  <2>9. Core(v)
    BY <1>1, <2>2, <2>4, <2>5, <2>6, <2>7, <2>8, EnqueueLemma
  <2>10. v.current = None /\ v.loaded = None
    BY <1>1, <1>4, <2>7 DEF Flags, IdleOK
  <2> QED
    BY <2>0, <2>9, <2>10, StartNextLemma
<1> QED
  BY <1>2, <1>3, <1>4

LEMMA MuteLemma ==
  ASSUME NEW r, Good(r)
  PROVE  Good(mute(r)) /\ Good(unmute(r))
<1>1. r \in ReaderType /\ Core(r) /\ Flags(r)
  BY DEF Good, Core
<1>2. [op |-> "Mute"] \in Effect /\ [op |-> "Unmute"] \in Effect
  BY DEF Effect
<1>3. ASSUME NEW b \in BOOLEAN, NEW e \in Effect
      PROVE  Good(emit([r EXCEPT !.muted = b], e))
  <2> DEFINE s == [r EXCEPT !.muted = b]
  <2>1. s \in ReaderType /\ Frame(r, s) /\ s.requested = r.requested
    BY <1>1 DEF ReaderType, Frame
  <2> HIDE DEF s
  <2>2. Core(s) /\ Flags(s)
    BY <1>1, <2>1, CoreFrame, FlagsFrame
  <2>3. Core(emit(s, e)) /\ Flags(emit(s, e))
    BY <2>2, EmitLemma, FlagsFrame
  <2> QED
    BY <2>3 DEF Good, s
<1> QED
  BY <1>2, <1>3 DEF mute, unmute

LEMMA ControlLemma ==
  ASSUME NEW r, Good(r), NEW c \in Control
  PROVE  Good(control(r, c)) /\ ShownOK(control(r, c))
<1>1. /\ Good(play(r)) /\ Good(pause(r)) /\ Good(stop(r))
      /\ Good(next_chunk(r)) /\ Good(previous_chunk(r)) /\ Good(restart(r))
      /\ Good(mute(r)) /\ Good(unmute(r))
      /\ Good(line_step(r, TRUE)) /\ Good(line_step(r, FALSE))
  BY PlayLemma, PauseLemma, StopLemma, NextPreviousLemma, RestartLemma,
     MuteLemma, LineStepLemma
<1>2. r.current # None => Good(skip(r))
  BY SkipLemma DEF Good
<1>3. PICK s : Good(s) /\ control(r, c) = finish(s)
  BY <1>1, <1>2 DEF control, Control
<1> QED
  BY <1>3, FinishGood

-----------------------------------------------------------------------------
(* The other calls.                                                        *)

LEMMA SpeakLemma ==
  ASSUME NEW r, Good(r), ShownOK(r), NEW text \in Texts,
         NEW replace \in BOOLEAN, NEW interrupt \in BOOLEAN
  PROVE  LET w == speak(r, text, replace, interrupt) IN Good(w) /\ ShownOK(w)
<1> DEFINE id == r.next_id
           chunks == text[r.chunking]
           item == [id |-> id, chunks |-> chunks]
           n == r.next_id + 1
           s == [r EXCEPT !.next_id = n]
           t == IF replace THEN drop_queue(s) ELSE s
           cut == end_current(t, "Skipped")
           first == <<item>> \o cut.queue
           front == [cut EXCEPT !.queue = first]
           all == Append(t.queue, item)
           back == [t EXCEPT !.queue = all]
           w == speak(r, text, replace, interrupt)
<1>1. r \in ReaderType /\ Core(r) /\ Flags(r) /\ id \in ItemId
  BY Fields DEF Good, Core
<1>2. n \in ItemId /\ id < n /\ id \in Nat
  BY <1>1 DEF ItemId
<1>3. chunks \in Seq(Kind)
  BY <1>1, ReaderConstants DEF ReaderType
<1>0. w = CASE chunks = <<>> -> emit_item(s, id, "Skipped")
            [] chunks # <<>> /\ interrupt /\ t.current # None ->
                 finish(start_next(front))
            [] OTHER -> finish(IF t.current = None THEN start_next(back) ELSE back)
  BY DEF speak
<1> HIDE DEF w, n, id, chunks
<1>4. s \in ReaderType
  BY <1>1, <1>2 DEF ReaderType
<1>5. /\ s.current = r.current /\ s.queue = r.queue /\ s.loaded = r.loaded
      /\ s.gen = r.gen /\ s.requested = r.requested /\ s.next_id = n
      /\ s.paused = r.paused /\ s.step_wait = r.step_wait /\ s.shown = r.shown
  BY <1>1 DEF ReaderType
<1>6. snapshot(s) = snapshot(r)
  BY <1>1 DEF ReaderType, snapshot, in_code
<1> HIDE DEF s
<1>7. Below(r, id)
  BY <1>1 DEF Core, IdsOK, Below, id
<1>8. Core(s)
  <2>1. \A k \in 1..Len(r.queue) : r.queue[k].id < n /\ r.queue[k].id \in Nat
    <3>1. \A k \in 1..Len(r.queue) : r.queue[k] \in Item
      BY <1>1, Fields DEF Queue
    <3>2. \A k \in 1..Len(r.queue) : r.queue[k].id \in Nat
      BY <3>1 DEF Item, ItemId
    <3> QED
      BY <1>2, <1>7, <3>2 DEF Below, n, id, ItemId
  <2>2. r.current # None => r.current.item.id < n
    <3>1. r.current # None => r.current.item.id \in Nat
      BY <1>1, Fields, CurrentFields DEF ItemId
    <3> QED
      BY <1>2, <1>7, <3>1 DEF Below, n, id, ItemId
  <2>3. IdsOK(s)
    BY <1>1, <1>5, <2>1, <2>2 DEF Core, IdsOK
  <2> QED
    BY <1>1, <1>4, <1>5, <2>3 DEF Core, InRange, LoadedOK, RequestedOK, IsAlive
<1>9. Flags(s)
  BY <1>1, <1>5 DEF Flags, IdleOK, PlayingOK, StepWaitOK
<1>10. CASE chunks = <<>>
  <2>1. "Skipped" \in Phase
    BY DEF Phase
  <2>2. w = emit_item(s, id, "Skipped")
    BY <1>0, <1>10
  <2>3. Core(w) /\ Frame(s, w) /\ snapshot(w) = snapshot(s) /\ w.shown = s.shown
    BY <1>1, <1>8, <2>1, <2>2, EmitItemLemma
  <2>4. Good(w)
    BY <1>9, <2>3, FlagsFrame DEF Good
  <2> QED
    BY <1>5, <1>6, <2>3, <2>4 DEF ShownOK, w
<1>11. CASE chunks # <<>>
  <2>1. item \in Item /\ item.id = id
    BY <1>1, <1>3, <1>11 DEF Item
  <2> HIDE DEF item
  <2>2. /\ Core(t) /\ t.current = s.current /\ t.loaded = s.loaded
        /\ t.paused = s.paused /\ t.step_wait = s.step_wait /\ t.next_id = n
        /\ t.queue = <<>> \/ t.queue = s.queue
    BY <1>5, <1>8, DropQueueLemma
  <2>3. Flags(t)
    BY <1>9, <2>2 DEF Flags, IdleOK, PlayingOK, StepWaitOK
  <2> HIDE DEF t
  <2>4. Below(t, id)
    BY <1>5, <1>7, <2>2 DEF Below
  <2>5. t \in ReaderType /\ t.queue \in Seq(Item)
    BY <2>2, Fields DEF Core, Queue
  <2>6. CASE interrupt /\ t.current # None
    <3>1. "Skipped" \in Phase
      BY DEF Phase
    <3>2. /\ Core(cut) /\ cut.loaded = None /\ cut.current = None
          /\ cut.queue = t.queue /\ cut.next_id = n
      BY <2>2, <2>6, <3>1, EndCurrentLemma
    <3> HIDE DEF cut
    <3>3. cut \in ReaderType
      BY <3>2 DEF Core
    <3>4. first \in Queue
      BY <2>1, <2>5, <3>2 DEF Queue
    <3>5. first = <<item>> \o cut.queue
      OBVIOUS
    <3>6. Below(cut, item.id)
      BY <2>1, <2>4, <3>2 DEF Below
    <3>7. w = finish(start_next(front))
      BY <1>0, <1>11, <2>6
    <3> HIDE DEF first
    <3>8. front \in ReaderType
      BY <3>3, <3>4 DEF ReaderType
    <3>9. /\ front.current = cut.current /\ front.queue = first
          /\ front.loaded = cut.loaded /\ front.gen = cut.gen
          /\ front.requested = cut.requested /\ front.next_id = cut.next_id
      BY <3>3 DEF ReaderType
    <3> HIDE DEF front
    <3>10. item.id < front.next_id /\ cut.next_id <= front.next_id
      BY <1>2, <2>1, <3>2, <3>9 DEF ItemId
    <3>11. Core(front)
      BY <2>1, <3>2, <3>5, <3>6, <3>8, <3>9, <3>10, EnqueueLemma
    <3>12. Good(start_next(front))
      BY <3>2, <3>9, <3>11, StartNextLemma
    <3> QED
      BY <3>7, <3>12, FinishGood DEF w
  <2>7. CASE ~(interrupt /\ t.current # None)
    <3>1. all \in Queue
      BY <2>1, <2>5 DEF Queue
    <3>2. all = Append(t.queue, item)
      OBVIOUS
    <3>3. w = finish(IF t.current = None THEN start_next(back) ELSE back)
      BY <1>0, <1>11, <2>7
    <3> HIDE DEF all
    <3>4. back \in ReaderType
      BY <2>5, <3>1 DEF ReaderType
    <3>5. /\ back.current = t.current /\ back.queue = all
          /\ back.loaded = t.loaded /\ back.gen = t.gen
          /\ back.requested = t.requested /\ back.next_id = t.next_id
          /\ back.paused = t.paused /\ back.step_wait = t.step_wait
      BY <2>5 DEF ReaderType
    <3> HIDE DEF back
    <3>6. item.id < back.next_id /\ t.next_id <= back.next_id
      BY <1>2, <2>1, <2>2, <3>5 DEF ItemId
    <3>7. Core(back)
      BY <2>1, <2>2, <2>4, <3>2, <3>4, <3>5, <3>6, EnqueueLemma
    <3>8. CASE t.current = None
      <4>1. back.current = None /\ back.loaded = None
        BY <2>3, <3>5, <3>8 DEF Flags, IdleOK
      <4>2. Good(start_next(back))
        BY <3>7, <4>1, StartNextLemma
      <4> QED
        BY <3>3, <3>8, <4>2, FinishGood DEF w
    <3>9. CASE t.current # None
      <4>1. Flags(back)
        BY <2>3, <3>5, <3>9 DEF Flags, IdleOK, PlayingOK, StepWaitOK
      <4>2. Good(back)
        BY <3>7, <4>1 DEF Good
      <4> QED
        BY <3>3, <3>9, <4>2, FinishGood DEF w
    <3> QED
      BY <3>8, <3>9
  <2> QED
    BY <2>6, <2>7
<1> QED
  BY <1>10, <1>11

(* A stale event changes nothing; the loaded chunk's moves the reader on.  *)
LEMMA OnAudioLemma ==
  ASSUME NEW r, Good(r), ShownOK(r), NEW e \in AudioEvent, NEW gen \in Nat
  PROVE  Good(on_audio(r, e, gen)) /\ ShownOK(on_audio(r, e, gen))
<1> DEFINE c == [r.current EXCEPT !.played_any = TRUE]
           s == IF e # "Failed" /\ r.current # None
                THEN [r EXCEPT !.current.played_any = TRUE] ELSE r
           t == [s EXCEPT !.loaded = None]
<1>1. CASE r.loaded # gen
  BY <1>1 DEF on_audio
<1>2. CASE r.loaded = gen
  <2>1. r \in ReaderType /\ Core(r) /\ Flags(r)
    BY DEF Good, Core
  <2>2. r.loaded # None /\ r.current # None /\ ~r.step_wait
    BY <1>2, <2>1, ReaderConstants DEF Core, LoadedOK, Flags, StepWaitOK
  <2>3. r.current \in Current
    BY <2>1, <2>2, Fields
  <2>4. /\ c \in Current /\ c.item = r.current.item /\ c.chunk = r.current.chunk
    BY <2>3 DEF Current
  <2>5. on_audio(r, e, gen) = finish(IF e = "ChunkStarted" THEN s ELSE advance(t))
    BY <1>2 DEF on_audio
  <2>6. s = r \/ s = [r EXCEPT !.current = c]
    BY <2>1 DEF ReaderType
  <2> HIDE DEF s, c
  <2>7. s \in ReaderType
    BY <2>1, <2>4, <2>6 DEF ReaderType
  <2>8. /\ s.current = r.current \/ s.current = c
        /\ s.queue = r.queue /\ s.loaded = r.loaded /\ s.gen = r.gen
        /\ s.requested = r.requested /\ s.next_id = r.next_id
        /\ s.paused = r.paused /\ s.step_wait = r.step_wait
    BY <2>1, <2>6 DEF ReaderType
  <2>9. /\ s.current # None /\ s.current.item = r.current.item
        /\ s.current.chunk = r.current.chunk
    BY <2>2, <2>4, <2>8, ReaderConstants
  <2>10. Core(s)
    BY <2>1, <2>2, <2>7, <2>8, <2>9
      DEF Core, InRange, LoadedOK, RequestedOK, IsAlive, IdsOK
  <2>11. Flags(s)
    BY <2>1, <2>2, <2>8, <2>9 DEF Flags, IdleOK, PlayingOK, StepWaitOK
  <2>12. t \in ReaderType
    BY <2>7 DEF ReaderType
  <2>13. /\ t.current = s.current /\ t.queue = s.queue /\ t.loaded = None
         /\ t.gen = s.gen /\ t.requested = s.requested /\ t.next_id = s.next_id
         /\ t.step_wait = s.step_wait
    BY <2>7 DEF ReaderType
  <2> HIDE DEF t
  <2>14. Core(t)
    BY <2>10, <2>12, <2>13
      DEF Core, InRange, LoadedOK, RequestedOK, IsAlive, IdsOK
  <2>15. Good(advance(t))
    BY <2>2, <2>8, <2>9, <2>13, <2>14, AdvanceLemma
  <2> QED
    BY <2>5, <2>10, <2>11, <2>15, FinishGood DEF Good
<1> QED
  BY <1>1, <1>2

LEMMA CodeStepLemma ==
  ASSUME NEW r, Good(r), NEW on \in BOOLEAN
  PROVE  Good(set_code_step(r, on)) /\ ShownOK(set_code_step(r, on))
<1> DEFINE s == [r EXCEPT !.code_step = on]
<1>1. r \in ReaderType /\ Core(r) /\ Flags(r)
  BY DEF Good, Core
<1>2. s \in ReaderType /\ Frame(r, s) /\ s.requested = r.requested
  BY <1>1 DEF ReaderType, Frame
<1>0. set_code_step(r, on) = finish(IF ~on /\ s.step_wait THEN resume(s) ELSE s)
  BY DEF set_code_step
<1> HIDE DEF s
<1>3. Core(s) /\ Flags(s)
  BY <1>1, <1>2, CoreFrame, FlagsFrame
<1>4. s.step_wait => Good(resume(s))
  BY <1>3, ResumeLemma DEF Flags, StepWaitOK
<1> QED
  BY <1>0, <1>3, <1>4, FinishGood DEF Good

LEMMA SettingsLemma ==
  ASSUME NEW r, Good(r)
  PROVE  /\ \A v \in Volumes : Good(set_volume(r, v)) /\ ShownOK(set_volume(r, v))
         /\ \A x \in Rates : Good(set_rate(r, x)) /\ ShownOK(set_rate(r, x))
         /\ \A v \in Voices : Good(set_voice(r, v)) /\ ShownOK(set_voice(r, v))
         /\ \A n \in Int : Good(set_lookahead(r, n)) /\ ShownOK(set_lookahead(r, n))
         /\ \A c \in Chunking : Good(set_chunking(r, c)) /\ ShownOK(set_chunking(r, c))
<1>1. r \in ReaderType /\ Core(r) /\ Flags(r)
  BY DEF Good, Core
<1>2. ASSUME NEW s \in ReaderType, Frame(r, s), s.requested = r.requested
      PROVE  Good(s)
  BY <1>1, <1>2, CoreFrame, FlagsFrame DEF Good
<1>3. ASSUME NEW v \in Volumes
      PROVE  Good(set_volume(r, v)) /\ ShownOK(set_volume(r, v))
  <2> DEFINE s == [r EXCEPT !.volume = v]
             e == [op |-> "SetVolume", volume |-> v]
  <2>1. s \in ReaderType /\ Frame(r, s) /\ s.requested = r.requested
    BY <1>1 DEF ReaderType, Frame
  <2>0. set_volume(r, v) = finish(IF v = r.volume THEN r ELSE emit(s, e))
    BY DEF set_volume
  <2> HIDE DEF s
  <2>2. e \in Effect
    BY DEF Effect
  <2>3. Good(s)
    BY <1>2, <2>1
  <2>4. Good(emit(s, e))
    BY <2>2, <2>3, EmitLemma, FlagsFrame DEF Good
  <2> QED
    BY <2>0, <2>4, FinishGood
<1>4. ASSUME NEW x \in Rates
      PROVE  Good(set_rate(r, x)) /\ ShownOK(set_rate(r, x))
  <2> DEFINE s == [r EXCEPT !.rate = x]
  <2>1. s \in ReaderType /\ Frame(r, s) /\ s.requested = r.requested
    BY <1>1 DEF ReaderType, Frame
  <2> QED
    BY <1>2, <2>1, FinishGood DEF set_rate
<1>5. ASSUME NEW v \in Voices
      PROVE  Good(set_voice(r, v)) /\ ShownOK(set_voice(r, v))
  <2> DEFINE s == [r EXCEPT !.voice = v]
  <2>1. s \in ReaderType /\ Frame(r, s) /\ s.requested = r.requested
    BY <1>1 DEF ReaderType, Frame
  <2> QED
    BY <1>2, <2>1, FinishGood DEF set_voice
<1>6. ASSUME NEW n \in Int
      PROVE  Good(set_lookahead(r, n)) /\ ShownOK(set_lookahead(r, n))
  <2> DEFINE d == IF n < 1 THEN 1 ELSE IF n > MAX_LOOKAHEAD THEN MAX_LOOKAHEAD ELSE n
             s == [r EXCEPT !.lookahead = d]
  <2>1. d \in Depth
    BY DEF Depth, MAX_LOOKAHEAD
  <2>2. set_lookahead(r, n) = finish(s)
    BY DEF set_lookahead
  <2> HIDE DEF d
  <2>3. s \in ReaderType /\ Frame(r, s) /\ s.requested = r.requested
    BY <1>1, <2>1 DEF ReaderType, Frame
  <2> QED
    BY <1>2, <2>2, <2>3, FinishGood
<1>7. ASSUME NEW c \in Chunking
      PROVE  Good(set_chunking(r, c)) /\ ShownOK(set_chunking(r, c))
  <2> DEFINE s == [r EXCEPT !.chunking = c]
  <2>1. s \in ReaderType /\ Frame(r, s) /\ s.requested = r.requested
    BY <1>1 DEF ReaderType, Frame
  <2> QED
    BY <1>2, <2>1, FinishGood DEF set_chunking
<1> QED
  BY <1>3, <1>4, <1>5, <1>6, <1>7

-----------------------------------------------------------------------------
(* The theorems.                                                           *)

(* The inductive invariant: the type, ReaderOK and ShownOK together.       *)
ReaderIInv == Good(reader) /\ ShownOK(reader)

LEMMA InitLemma == Init => ReaderIInv
<1> SUFFICES ASSUME NEW volume \in Volumes, NEW rate \in Rates, NEW voice \in Voices,
                    reader = new(volume, rate, voice)
             PROVE  ReaderIInv
  BY DEF Init
<1>1. <<>> \in Effects /\ <<>> \in Queue /\ {} \in Requests /\ 1 \in Depth
      /\ 1 \in ItemId /\ "Sentences" \in Chunking
  BY DEF Effects, Queue, Requests, Depth, MAX_LOOKAHEAD, ItemId, Chunking
<1>2. reader.shown \in State
  BY DEF new, State
<1>3. reader \in ReaderType
  BY <1>1, <1>2 DEF new, ReaderType
<1>4. /\ reader.current = None /\ reader.queue = <<>> /\ reader.loaded = None
      /\ reader.requested = {} /\ reader.paused = FALSE /\ reader.step_wait = FALSE
  BY DEF new
<1>5. Good(reader)
  BY <1>3, <1>4 DEF Good, Core, Flags, InRange, LoadedOK, RequestedOK, IdsOK,
                    IdleOK, PlayingOK, StepWaitOK
<1>6. ShownOK(reader)
  BY DEF ShownOK, snapshot, new
<1> QED
  BY <1>5, <1>6 DEF ReaderIInv

LEMMA CalledLemma ==
  ASSUME ReaderIInv
  PROVE  Good(Called) /\ ShownOK(Called)
<1>1. reader \in ReaderType /\ Core(reader) /\ Flags(reader)
  BY DEF ReaderIInv, Good, Core
<1>2. <<>> \in Effects
  BY DEF Effects
<1>3. Called \in ReaderType
  BY <1>1, <1>2 DEF Called, ReaderType
<1>4. Frame(reader, Called) /\ Called.requested = reader.requested
  BY <1>1 DEF Called, ReaderType, Frame
<1>5. snapshot(Called) = snapshot(reader) /\ Called.shown = reader.shown
  BY <1>1 DEF Called, ReaderType, snapshot, in_code
<1> QED
  BY <1>1, <1>3, <1>4, <1>5, CoreFrame, FlagsFrame DEF ReaderIInv, Good, ShownOK

LEMMA NextLemma == ReaderIInv /\ [Next]_reader => ReaderIInv'
<1> SUFFICES ASSUME ReaderIInv, [Next]_reader
             PROVE  ReaderIInv'
  OBVIOUS
<1>1. Good(Called) /\ ShownOK(Called)
  BY CalledLemma
<1>2. ASSUME NEW text \in Texts, NEW replace \in BOOLEAN, NEW interrupt \in BOOLEAN,
             Speak(text, replace, interrupt)
      PROVE  ReaderIInv'
  BY <1>1, <1>2, SpeakLemma DEF Speak, Returns, ReaderIInv
<1>3. ASSUME NEW c \in Control, DoControl(c)
      PROVE  ReaderIInv'
  BY <1>1, <1>3, ControlLemma DEF DoControl, Returns, ReaderIInv
<1>4. ASSUME NEW e \in AudioEvent, NEW gen \in 1..MaxGen, OnAudio(e, gen)
      PROVE  ReaderIInv'
  <2>1. gen \in Nat
    BY <1>4
  <2> QED
    BY <1>1, <1>4, <2>1, OnAudioLemma DEF OnAudio, Returns, ReaderIInv
<1>5. CASE Settings
  <2>1. ASSUME NEW on \in BOOLEAN, SetCodeStep(on)
        PROVE  ReaderIInv'
    BY <1>1, <2>1, CodeStepLemma DEF SetCodeStep, Returns, ReaderIInv
  <2>2. ASSUME NEW v \in Volumes, SetVolume(v)
        PROVE  ReaderIInv'
    BY <1>1, <2>2, SettingsLemma DEF SetVolume, Returns, ReaderIInv
  <2>3. ASSUME NEW x \in Rates, SetRate(x)
        PROVE  ReaderIInv'
    BY <1>1, <2>3, SettingsLemma DEF SetRate, Returns, ReaderIInv
  <2>4. ASSUME NEW v \in Voices, SetVoice(v)
        PROVE  ReaderIInv'
    BY <1>1, <2>4, SettingsLemma DEF SetVoice, Returns, ReaderIInv
  <2>5. ASSUME NEW n \in 0..(MAX_LOOKAHEAD + 1), SetLookahead(n)
        PROVE  ReaderIInv'
    <3>1. n \in Int
      BY <2>5
    <3> QED
      BY <1>1, <2>5, <3>1, SettingsLemma DEF SetLookahead, Returns, ReaderIInv
  <2>6. ASSUME NEW c \in Chunking, SetChunking(c)
        PROVE  ReaderIInv'
    BY <1>1, <2>6, SettingsLemma DEF SetChunking, Returns, ReaderIInv
  <2> QED
    BY <1>5, <2>1, <2>2, <2>3, <2>4, <2>5, <2>6 DEF Settings
<1>6. CASE UNCHANGED reader
  BY <1>6 DEF ReaderIInv
<1> QED
  BY <1>2, <1>3, <1>4, <1>5, <1>6 DEF Next

(* Whatever clients call and whatever the output reports, in any order,    *)
(* the reader's record keeps its type.                                     *)
THEOREM ReaderTypeCorrect == Spec => []TypeOK
<1>1. ReaderIInv => TypeOK
  BY DEF ReaderIInv, Good, Core, TypeOK
<1> QED
  BY InitLemma, NextLemma, <1>1, PTL DEF Spec

(* Between any two calls the reader is never paused while idle, never      *)
(* silent while it should play, never waiting at a code line with audio    *)
(* loaded; only the newest gen can be loaded, and only chunks of live      *)
(* items are requested; ids are never reused among live items.             *)
THEOREM ReaderCorrect == Spec => []ReaderInv
<1>1. ReaderIInv => ReaderInv
  BY DEF ReaderIInv, Good, Core, Flags, ReaderInv, ReaderOK
<1> QED
  BY InitLemma, NextLemma, <1>1, PTL DEF Spec

(* What the last State event showed is what the reader is: no call that    *)
(* changes anything visible returns without telling.                       *)
THEOREM ReaderShown == Spec => []ShownInv
<1>1. ReaderIInv => ShownInv
  BY DEF ReaderIInv, ShownInv
<1> QED
  BY InitLemma, NextLemma, <1>1, PTL DEF Spec

-----------------------------------------------------------------------------
(* Reader implements Player.                                               *)

IsSeq(s) == \E S : s \in Seq(S)

-----------------------------------------------------------------------------
(* Sequences.                                                              *)

LEMMA SeqConcat ==
  ASSUME NEW s, NEW t, IsSeq(s), IsSeq(t)
  PROVE  /\ IsSeq(s \o t) /\ Len(s) \in Nat /\ Len(s \o t) = Len(s) + Len(t)
         /\ \A i \in 1..Len(s) : (s \o t)[i] = s[i]
         /\ \A i \in 1..Len(t) : (s \o t)[Len(s) + i] = t[i]
<1>1. PICK S : s \in Seq(S)
  BY DEF IsSeq
<1>2. PICK T : t \in Seq(T)
  BY DEF IsSeq
<1>3. s \in Seq(S \cup T) /\ t \in Seq(S \cup T)
  BY <1>1, <1>2
<1> HIDE DEF IsSeq
<1>4. s \o t \in Seq(S \cup T)
  BY <1>3
<1>5. IsSeq(s \o t)
  BY <1>4, Zenon DEF IsSeq
<1> QED  BY <1>3, <1>5

LEMMA SeqAppend ==
  ASSUME NEW s, IsSeq(s), NEW e
  PROVE  /\ IsSeq(Append(s, e)) /\ Len(s) \in Nat /\ Len(Append(s, e)) = Len(s) + 1
         /\ \A i \in 1..Len(s) : Append(s, e)[i] = s[i]
         /\ Append(s, e)[Len(s) + 1] = e
<1>1. PICK S : s \in Seq(S)
  BY DEF IsSeq
<1>2. s \in Seq(S \cup {e}) /\ e \in S \cup {e}
  BY <1>1
<1> HIDE DEF IsSeq
<1>3. Append(s, e) \in Seq(S \cup {e})
  BY <1>2
<1>4. IsSeq(Append(s, e))
  BY <1>3, Zenon DEF IsSeq
<1> QED  BY <1>2, <1>4

LEMMA SeqLen ==
  ASSUME NEW s, IsSeq(s)
  PROVE  Len(s) \in Nat
BY SeqConcat

(* A function over 1..n is a sequence.                                     *)
LEMMA FcnIsSeq ==
  ASSUME NEW n \in Nat, NEW f, f = [i \in 1..n |-> f[i]]
  PROVE  IsSeq(f) /\ Len(f) = n
<1> DEFINE S == {f[i] : i \in 1..n}
<1>1. f \in [1..n -> S]
  OBVIOUS
<1>2. f \in Seq(S)
  BY <1>1
<1>3. IsSeq(f)
  BY <1>2, Zenon DEF IsSeq
<1> HIDE DEF S
<1> QED  BY <1>1, <1>2, <1>3

LEMMA SeqsEqual ==
  ASSUME NEW s, NEW t, IsSeq(s), IsSeq(t), Len(s) = Len(t), \A i \in 1..Len(s) : s[i] = t[i]
  PROVE  s = t
<1>1. PICK S : s \in Seq(S)
  BY DEF IsSeq
<1>2. PICK T : t \in Seq(T)
  BY DEF IsSeq
<1> QED  BY <1>1, <1>2

LEMMA ConcatLast ==
  ASSUME NEW s, NEW t, IsSeq(s), IsSeq(t), Len(t) = 1
  PROVE  (s \o t)[Len(s) + 1] = t[1]
<1>1. \A i \in 1..Len(t) : (s \o t)[Len(s) + i] = t[i]
  BY SeqConcat
<1>2. 1 \in 1..Len(t)
  OBVIOUS
<1> QED  BY <1>1, <1>2, Zenon

LEMMA ConcatOne ==
  ASSUME NEW s, NEW t, NEW e, IsSeq(s), IsSeq(t), Len(t) = 1, t[1] = e
  PROVE  s \o t = Append(s, e)
<1> DEFINE u == s \o t
           v == Append(s, e)
<1>1. /\ IsSeq(u) /\ Len(s) \in Nat /\ Len(u) = Len(s) + Len(t)
      /\ \A i \in 1..Len(s) : u[i] = s[i]
  BY SeqConcat, Zenon
<1>2. u[Len(s) + 1] = t[1]
  BY ConcatLast, Zenon
<1> HIDE DEF u
<1>3. Len(u) = Len(s) + 1 /\ u[Len(s) + 1] = e
  BY <1>1, <1>2
<1>4. /\ IsSeq(v) /\ Len(v) = Len(s) + 1 /\ v[Len(s) + 1] = e
      /\ \A i \in 1..Len(s) : v[i] = s[i]
  BY SeqAppend
<1> HIDE DEF v
<1>5. \A i \in 1..Len(u) : u[i] = v[i]
  BY <1>1, <1>3, <1>4
<1>6. u = v
  BY <1>1, <1>3, <1>4, <1>5, SeqsEqual
<1> QED  BY <1>6 DEF u, v

-----------------------------------------------------------------------------
(* The items that ended.                                                   *)

LEMMA EndsFinite ==
  ASSUME NEW fx, IsSeq(fx)
  PROVE  /\ IsFiniteSet(Ends(fx)) /\ Cardinality(Ends(fx)) \in Nat
         /\ IsSeq(EndedBy(fx)) /\ Len(EndedBy(fx)) = Cardinality(Ends(fx))
<1>1. Len(fx) \in Nat /\ Ends(fx) \subseteq 1..Len(fx)
  BY SeqLen DEF Ends
<1>2. IsFiniteSet(1..Len(fx))
  BY <1>1, FS_Interval
<1>3. IsFiniteSet(Ends(fx)) /\ Cardinality(Ends(fx)) \in Nat
  BY <1>1, <1>2, FS_Subset, FS_CardinalityType
<1>4. EndedBy(fx) = [i \in 1..Cardinality(Ends(fx)) |-> EndedBy(fx)[i]]
  BY DEF EndedBy
<1> QED  BY <1>3, <1>4, FcnIsSeq

LEMMA NoneEnded == EndedBy(<<>>) = <<>>
<1>1. Ends(<<>>) = {}
  BY DEF Ends
<1>2. Cardinality(Ends(<<>>)) = 0
  BY <1>1, FS_EmptySet
<1>3. <<>> \in Seq({})
  OBVIOUS
<1>4. IsSeq(<<>>)
  BY <1>3, Zenon DEF IsSeq
<1> QED  BY <1>2, <1>4, EndsFinite, SeqsEqual

(* An effect that ends no item.                                            *)
LEMMA OthersEndNone ==
  ASSUME NEW fx, IsSeq(fx), NEW e, ~IsEnd(e)
  PROVE  EndedBy(Append(fx, e)) = EndedBy(fx)
<1> DEFINE gx == Append(fx, e)
<1>1. Len(fx) \in Nat /\ Len(gx) = Len(fx) + 1 /\ gx[Len(fx) + 1] = e
      /\ \A i \in 1..Len(fx) : gx[i] = fx[i]
  BY SeqAppend
<1> HIDE DEF gx
<1>2. Ends(gx) = Ends(fx)
  BY <1>1 DEF Ends
<1>3. \A k : EndedAt(gx, k) = EndedAt(fx, k)
  BY <1>2 DEF EndedAt
<1>4. \A k \in Ends(fx) : gx[k].item = fx[k].item
  BY <1>1 DEF Ends
<1>5. \A n : NthEnded(gx, n) = NthEnded(fx, n)
  BY <1>2, <1>3, <1>4 DEF NthEnded
<1>6. EndedBy(gx) = EndedBy(fx)
  BY <1>2, <1>5 DEF EndedBy
<1> QED  BY <1>6 DEF gx

(* Effects that each end one.                                              *)
LEMMA EachEndsOne ==
  ASSUME NEW fx, NEW g, IsSeq(fx), IsSeq(g), \A i \in 1..Len(g) : IsEnd(g[i])
  PROVE  EndedBy(fx \o g) = EndedBy(fx) \o [i \in 1..Len(g) |-> g[i].item]
<1> DEFINE gx == fx \o g
           n == Len(fx)
           m == Len(g)
           S == Ends(fx)
           T == Ends(gx)
           c == Cardinality(S)
           ids == [i \in 1..m |-> g[i].item]
<1>1. /\ n \in Nat /\ m \in Nat /\ Len(gx) = n + m /\ IsSeq(gx)
      /\ \A i \in 1..n : gx[i] = fx[i]
      /\ \A i \in 1..m : gx[n + i] = g[i]
  BY SeqConcat
<1>2. /\ IsFiniteSet(S) /\ c \in Nat /\ IsSeq(EndedBy(fx)) /\ Len(EndedBy(fx)) = c
      /\ IsSeq(EndedBy(gx)) /\ Len(EndedBy(gx)) = Cardinality(T)
  BY <1>1, EndsFinite
<1>3. IsSeq(ids) /\ Len(ids) = m /\ \A i \in 1..m : ids[i] = g[i].item
  BY <1>1, FcnIsSeq
<1> HIDE DEF gx, n, m, c, ids
<1>4. /\ IsSeq(EndedBy(fx) \o ids) /\ Len(EndedBy(fx) \o ids) = c + m
      /\ \A i \in 1..c : (EndedBy(fx) \o ids)[i] = EndedBy(fx)[i]
      /\ \A i \in 1..m : (EndedBy(fx) \o ids)[c + i] = ids[i]
  <2>1. IsSeq(EndedBy(fx)) /\ IsSeq(ids) /\ Len(EndedBy(fx)) = c /\ Len(ids) = m
    BY <1>2, <1>3
  <2> QED  BY <2>1, SeqConcat
<1>5. S \subseteq 1..n
  BY DEF Ends, n
<1>6. \A k : k \in T <=> k \in S \/ k \in (n+1)..(n+m)
  <2>1. ASSUME NEW k \in 1..n PROVE k \in T <=> k \in S
    BY <1>1, <2>1 DEF Ends, n
  <2>2. ASSUME NEW k \in (n+1)..(n+m) PROVE k \in T
    <3>1. PICK i \in 1..m : k = n + i
      BY <1>1, <2>2
    <3> QED  BY <1>1, <3>1 DEF Ends, m
  <2>3. T \subseteq 1..(n+m)
    BY <1>1 DEF Ends
  <2> HIDE DEF S, T
  <2>4. 1..(n+m) = (1..n) \cup ((n+1)..(n+m))
    BY <1>1
  <2> QED  BY <1>5, <2>1, <2>2, <2>3, <2>4
<1>7. \A q \in 0..m : Cardinality(S \cup ((n+1)..(n+q))) = c + q
  <2> TAKE q \in 0..m
  <2> DEFINE I == (n+1)..(n+q)
  <2>1. IsFiniteSet(I) /\ Cardinality(I) = q
    <3>1. n+1 \in Int /\ n+q \in Int /\ (n+1 > n+q => q = 0) /\ (n+q)-(n+1)+1 = q
      BY <1>1
    <3> QED  BY <3>1, FS_Interval
  <2>2. S \cap I = {}
    BY <1>1, <1>5
  <2> HIDE DEF I, S
  <2>3. Cardinality(S \cup I) = Cardinality(S) + Cardinality(I) - Cardinality(S \cap I)
    BY <1>2, <2>1, FS_Union
  <2>4. Cardinality(S \cap I) = 0
    BY <2>2, FS_EmptySet
  <2> QED  BY <1>2, <2>1, <2>3, <2>4 DEF c, I
<1> HIDE DEF S, T
<1>8. Cardinality(T) = c + m
  <2>1. T = S \cup ((n+1)..(n+m))
    BY <1>6
  <2>2. m \in 0..m
    BY <1>1
  <2> QED  BY <1>7, <2>1, <2>2
<1>9. \A k \in S : EndedAt(gx, k) = EndedAt(fx, k) /\ EndedAt(fx, k) <= c /\ gx[k] = fx[k]
  <2> TAKE k \in S
  <2>1. {j \in T : j <= k} = {j \in S : j <= k}
    BY <1>1, <1>5, <1>6
  <2>2. Cardinality({j \in S : j <= k}) <= c
    BY <1>2, FS_Subset DEF c
  <2>3. gx[k] = fx[k]
    BY <1>1, <1>5
  <2> QED  BY <2>1, <2>2, <2>3 DEF EndedAt, S, T
<1>10. \A q \in 1..m : EndedAt(gx, n + q) = c + q
  <2> TAKE q \in 1..m
  <2>1. {j \in T : j <= n + q} = S \cup ((n+1)..(n+q))
    <3>1. \A j \in S : j \in 1..n /\ j <= n + q
      BY <1>1, <1>5
    <3>2. \A j : j \in (n+1)..(n+q) <=> j \in (n+1)..(n+m) /\ j <= n + q
      BY <1>1
    <3> QED  BY <1>6, <3>1, <3>2
  <2>2. q \in 0..m
    BY <1>1
  <2> QED  BY <1>7, <2>1, <2>2 DEF EndedAt, T
<1>11. \A i \in 1..c : NthEnded(gx, i) = NthEnded(fx, i)
  <2> TAKE i \in 1..c
  <2>1. \A k \in T : EndedAt(gx, k) = i <=> k \in S /\ EndedAt(fx, k) = i
    <3> TAKE k \in T
    <3>1. CASE k \in S
      BY <1>9, <3>1
    <3>2. CASE k \notin S
      <4>1. PICK q \in 1..m : k = n + q
        BY <1>1, <1>6, <3>2
      <4> QED  BY <1>2, <1>10, <3>2, <4>1
    <3> QED  BY <3>1, <3>2
  <2>2. {j \in T : EndedAt(gx, j) = i} = {j \in S : EndedAt(fx, j) = i}
    BY <1>6, <2>1
  <2>3. {gx[k].item : k \in {j \in T : EndedAt(gx, j) = i}}
        = {fx[k].item : k \in {j \in S : EndedAt(fx, j) = i}}
    BY <1>9, <2>2
  <2> QED  BY <2>3 DEF NthEnded, S, T
<1>12. \A q \in 1..m : NthEnded(gx, c + q) = {g[q].item}
  <2> TAKE q \in 1..m
  <2>1. \A k \in T : EndedAt(gx, k) = c + q <=> k = n + q
    <3> TAKE k \in T
    <3>1. CASE k \in S
      <4>1. EndedAt(gx, k) <= c /\ k <= n
        BY <1>1, <1>5, <1>9, <3>1
      <4>2. EndedAt(gx, k) # c + q /\ k # n + q
        BY <1>1, <1>2, <4>1, <3>1, <1>5
      <4> QED  BY <4>2
    <3>2. CASE k \notin S
      <4>1. PICK p \in 1..m : k = n + p
        BY <1>1, <1>6, <3>2
      <4>2. EndedAt(gx, k) = c + p
        BY <1>10, <4>1
      <4>3. p \in Int /\ q \in Int
        BY <1>1
      <4> QED  BY <1>1, <1>2, <4>1, <4>2, <4>3, SMTT(30)
    <3> QED  BY <3>1, <3>2
  <2>2. n + q \in T /\ gx[n + q] = g[q]
    BY <1>1, <1>6
  <2>3. {j \in T : EndedAt(gx, j) = c + q} = {n + q}
    BY <2>1, <2>2
  <2>4. {gx[k].item : k \in {j \in T : EndedAt(gx, j) = c + q}} = {g[q].item}
    BY <2>2, <2>3
  <2> QED  BY <2>4 DEF NthEnded, T
<1>13. \A i \in 1..(c + m) : EndedBy(gx)[i] = The(NthEnded(gx, i))
  BY <1>8 DEF EndedBy, T
<1>14. \A i \in 1..c : EndedBy(fx)[i] = The(NthEnded(fx, i))
  BY DEF EndedBy, S, c
<1>15. \A x : The({x}) = x
  BY DEF The
<1>16. \A i \in 1..(c + m) : EndedBy(gx)[i] = (EndedBy(fx) \o ids)[i]
  <2> TAKE i \in 1..(c + m)
  <2>1. CASE i \in 1..c
    BY <1>1, <1>2, <1>4, <1>11, <1>13, <1>14, <2>1
  <2>2. CASE i \notin 1..c
    <3>1. PICK q \in 1..m : i = c + q
      BY <1>1, <1>2, <2>2
    <3>2. EndedBy(gx)[i] = The({g[q].item})
      BY <1>12, <1>13, <3>1
    <3>3. (EndedBy(fx) \o ids)[i] = g[q].item
      BY <1>3, <1>4, <3>1
    <3> QED  BY <3>2, <3>3, <1>15
  <2> QED  BY <2>1, <2>2
<1> QED  
  <2>1. EndedBy(gx) = EndedBy(fx) \o ids
    BY <1>2, <1>4, <1>8, <1>16, SeqsEqual
  <2> QED  BY <2>1 DEF gx, ids, m
(* One effect that ends one.                                               *)
LEMMA OneEnds ==
  ASSUME NEW fx, IsSeq(fx), NEW e, IsEnd(e)
  PROVE  EndedBy(Append(fx, e)) = Append(EndedBy(fx), e.item)
<1> DEFINE g == <<e>>
           ids == [i \in 1..Len(g) |-> g[i].item]
<1>1. g \in Seq({e}) /\ Len(g) = 1 /\ g[1] = e
  OBVIOUS
<1>2. IsSeq(g) /\ \A i \in 1..Len(g) : IsEnd(g[i])
  <2>1. IsSeq(g)
    BY <1>1, Zenon DEF IsSeq
  <2> QED  BY <1>1, <2>1
<1>3. IsSeq(ids) /\ Len(ids) = 1 /\ ids[1] = e.item
  <2> HIDE DEF g
  <2> QED  BY <1>1, FcnIsSeq
<1>4. IsSeq(EndedBy(fx))
  BY EndsFinite
<1> HIDE DEF g, ids
<1>5. fx \o g = Append(fx, e)
  BY <1>1, <1>2, ConcatOne
<1>6. EndedBy(fx) \o ids = Append(EndedBy(fx), e.item)
  BY <1>3, <1>4, ConcatOne
<1>7. EndedBy(fx \o g) = EndedBy(fx) \o ids
  BY <1>2, EachEndsOne DEF ids
<1> QED  BY <1>5, <1>6, <1>7

-----------------------------------------------------------------------------
(* The items of the queue.                                                 *)

Viewed == [id : ItemId, chunks : Nat \ {0}]

LEMMA ItemViewed ==
  ASSUME NEW item \in Item
  PROVE  /\ ItemView(item) \in Viewed /\ ItemView(item) # None
         /\ ItemView(item).id = item.id /\ ItemView(item).chunks = Len(item.chunks)
<1>1. item.id \in ItemId /\ item.chunks \in Seq(Kind) /\ item.chunks # <<>>
  BY DEF Item
<1>2. Len(item.chunks) \in Nat \ {0}
  BY <1>1
<1>3. ItemView(item) \in Viewed
  BY <1>1, <1>2 DEF ItemView, Viewed
<1>4. Viewed \subseteq [id : Nat, chunks : Nat]
  BY DEF Viewed, ItemId
<1> QED  BY <1>3, <1>4, ReaderViewConstants DEF ItemView

LEMMA QueueViewed ==
  ASSUME NEW q \in Seq(Item)
  PROVE  /\ QueueView(q) \in Seq(Viewed) /\ Len(QueueView(q)) = Len(q)
         /\ \A k \in 1..Len(q) : QueueView(q)[k] = ItemView(q[k])
         /\ QueueView(q) = <<>> <=> q = <<>>
<1>1. QueueView(q) \in [1..Len(q) -> Viewed]
  BY ItemViewed DEF QueueView
<1>2. Len(q) \in Nat
  OBVIOUS
<1>3. QueueView(q) \in Seq(Viewed) /\ Len(QueueView(q)) = Len(q)
  BY <1>1, <1>2
<1> QED  BY <1>3 DEF QueueView

LEMMA QueueAppend ==
  ASSUME NEW q \in Seq(Item), NEW item \in Item
  PROVE  QueueView(Append(q, item)) = Append(QueueView(q), ItemView(item))
<1> DEFINE s == Append(q, item)
<1>1. s \in Seq(Item) /\ Len(s) = Len(q) + 1 /\ s[Len(q) + 1] = item
      /\ \A k \in 1..Len(q) : s[k] = q[k]
  OBVIOUS
<1> HIDE DEF s
<1>2. QueueView(s) \in Seq(Viewed) /\ Len(QueueView(s)) = Len(s)
      /\ \A k \in 1..Len(s) : QueueView(s)[k] = ItemView(s[k])
  BY <1>1, QueueViewed
<1>3. QueueView(q) \in Seq(Viewed) /\ Len(QueueView(q)) = Len(q)
      /\ \A k \in 1..Len(q) : QueueView(q)[k] = ItemView(q[k])
  BY QueueViewed
<1>4. ItemView(item) \in Viewed
  BY ItemViewed
<1>5. QueueView(s) = Append(QueueView(q), ItemView(item))
  BY <1>1, <1>2, <1>3, <1>4
<1> QED  BY <1>5 DEF s

LEMMA QueuePrepend ==
  ASSUME NEW q \in Seq(Item), NEW item \in Item
  PROVE  QueueView(<<item>> \o q) = <<ItemView(item)>> \o QueueView(q)
<1> DEFINE s == <<item>> \o q
<1>1. s \in Seq(Item) /\ Len(s) = Len(q) + 1 /\ s[1] = item
      /\ \A k \in 1..Len(q) : s[k + 1] = q[k]
  OBVIOUS
<1> HIDE DEF s
<1>2. QueueView(s) \in Seq(Viewed) /\ Len(QueueView(s)) = Len(s)
      /\ \A k \in 1..Len(s) : QueueView(s)[k] = ItemView(s[k])
  BY <1>1, QueueViewed
<1>3. QueueView(q) \in Seq(Viewed) /\ Len(QueueView(q)) = Len(q)
      /\ \A k \in 1..Len(q) : QueueView(q)[k] = ItemView(q[k])
  BY QueueViewed
<1>4. ItemView(item) \in Viewed
  BY ItemViewed
<1> DEFINE v == <<ItemView(item)>> \o QueueView(q)
<1>5. v \in Seq(Viewed) /\ Len(v) = Len(q) + 1 /\ v[1] = ItemView(item)
      /\ \A k \in 1..Len(q) : v[k + 1] = ItemView(q[k])
  BY <1>3, <1>4
<1> HIDE DEF v
<1>6. \A i \in 1..Len(s) : QueueView(s)[i] = v[i]
  <2> TAKE i \in 1..Len(s)
  <2>1. CASE i = 1
    BY <1>1, <1>2, <1>5, <2>1
  <2>2. CASE i # 1
    <3>1. PICK k \in 1..Len(q) : i = k + 1
      BY <1>1, <2>2
    <3> QED  BY <1>1, <1>2, <1>5, <3>1
  <2> QED  BY <2>1, <2>2
<1>7. QueueView(s) = v
  BY <1>1, <1>2, <1>5, <1>6, SMTT(30)
<1> QED  BY <1>7 DEF s, v

LEMMA QueueTail ==
  ASSUME NEW q \in Seq(Item), q # <<>>
  PROVE  /\ Head(q) \in Item /\ Tail(q) \in Seq(Item)
         /\ Head(QueueView(q)) = ItemView(Head(q))
         /\ QueueView(Tail(q)) = Tail(QueueView(q))
<1> DEFINE s == Tail(q)
<1>1. Head(q) \in Item /\ Len(q) > 0 /\ Head(q) = q[1]
  OBVIOUS
<1>2. s \in Seq(Item) /\ Len(s) = Len(q) - 1 /\ \A k \in 1..Len(s) : s[k] = q[k + 1]
  OBVIOUS
<1> HIDE DEF s
<1>3. QueueView(s) \in Seq(Viewed) /\ Len(QueueView(s)) = Len(s)
      /\ \A k \in 1..Len(s) : QueueView(s)[k] = ItemView(s[k])
  BY <1>2, QueueViewed
<1>4. QueueView(q) \in Seq(Viewed) /\ Len(QueueView(q)) = Len(q) /\ QueueView(q) # <<>>
      /\ \A k \in 1..Len(q) : QueueView(q)[k] = ItemView(q[k])
  BY QueueViewed
<1>5. Head(QueueView(q)) = ItemView(Head(q))
  BY <1>1, <1>4
<1> DEFINE v == Tail(QueueView(q))
<1>6. v \in Seq(Viewed) /\ Len(v) = Len(q) - 1 /\ \A k \in 1..Len(v) : v[k] = QueueView(q)[k + 1]
  BY <1>1, <1>4
<1> HIDE DEF v
<1>7. \A k \in 1..Len(s) : k + 1 \in 1..Len(q)
  BY <1>2
<1>8. QueueView(s) = v
  BY <1>2, <1>3, <1>4, <1>6, <1>7, SMTT(30)
<1> QED  BY <1>1, <1>2, <1>5, <1>8 DEF s, v

-----------------------------------------------------------------------------
(* What View reads of a record, and what it takes for granted.             *)
Names == {"current", "queue", "last", "paused", "step_wait", "next_id", "fx", "loaded", "gen",
          "requested", "released", "shown", "muted", "volume", "rate", "voice", "lookahead",
          "chunking", "code_step"}
Viewable(r) ==
  /\ Names \subseteq DOMAIN r
  /\ r.current \in Current \cup {None} /\ r.queue \in Seq(Item) /\ r.last \in Item \cup {None}
  /\ r.paused \in BOOLEAN /\ r.step_wait \in BOOLEAN /\ r.next_id \in ItemId /\ IsSeq(r.fx)

(* s looks like r: but for the order of effects that end nothing and for   *)
(* what View leaves out they are the same.                                 *)
Same(r, s) ==
  /\ Viewable(s) /\ DOMAIN s = DOMAIN r
  /\ s.current = r.current /\ s.queue = r.queue /\ s.last = r.last /\ s.next_id = r.next_id
  /\ s.paused = r.paused /\ s.step_wait = r.step_wait /\ EndedBy(s.fx) = EndedBy(r.fx)

LEMMA SameView ==
  ASSUME NEW r, NEW s, Same(r, s)
  PROVE  View(s) = View(r)
BY DEF Same, View

LEMMA SameSelf ==
  ASSUME NEW r, Viewable(r)
  PROVE  Same(r, r)
BY DEF Same

LEMMA SameTrans ==
  ASSUME NEW r, NEW s, NEW t, Same(r, s), Same(s, t)
  PROVE  Same(r, t)
BY DEF Same

LEMMA TypeViewable ==
  ASSUME NEW r \in ReaderType
  PROVE  Viewable(r)
<1>1. Names \subseteq DOMAIN r
  BY DEF ReaderType, Names
<1>2. IsSeq(r.fx)
  BY Fields, Zenon DEF IsSeq, Effects
<1> QED  BY <1>1, <1>2, Fields DEF Viewable, Queue

(* A record in which only what View leaves out is changed.                 *)
LEMMA SameFields ==
  ASSUME NEW r, NEW s, Viewable(r), DOMAIN s = DOMAIN r,
         s.current = r.current, s.queue = r.queue, s.last = r.last, s.next_id = r.next_id,
         s.paused = r.paused, s.step_wait = r.step_wait, s.fx = r.fx
  PROVE  Same(r, s)
BY DEF Same, Viewable

LEMMA EmitSame ==
  ASSUME NEW r, Viewable(r), NEW e, ~IsEnd(e)
  PROVE  Same(r, emit(r, e))
<1> DEFINE s == emit(r, e)
<1>1. /\ DOMAIN s = DOMAIN r /\ s.fx = Append(r.fx, e)
      /\ s.current = r.current /\ s.queue = r.queue /\ s.last = r.last /\ s.next_id = r.next_id
      /\ s.paused = r.paused /\ s.step_wait = r.step_wait
  BY DEF emit, Viewable, Names
<1>2. IsSeq(r.fx) /\ IsSeq(Append(r.fx, e))
  BY SeqAppend DEF Viewable
<1> HIDE DEF s
<1>3. Viewable(s)
  BY <1>1, <1>2 DEF Viewable
<1>4. EndedBy(s.fx) = EndedBy(r.fx)
  BY <1>1, <1>2, OthersEndNone
<1>5. Same(r, s)
  BY <1>1, <1>3, <1>4 DEF Same
<1> QED  BY <1>5 DEF s

(* The effect of an item that ends.                                        *)
LEMMA EmitEnd ==
  ASSUME NEW r, Viewable(r), NEW id, NEW phase, phase # "Started"
  PROVE  LET s == emit_item(r, id, phase)
         IN /\ Viewable(s) /\ DOMAIN s = DOMAIN r
            /\ s.current = r.current /\ s.queue = r.queue /\ s.last = r.last
            /\ s.next_id = r.next_id /\ s.paused = r.paused /\ s.step_wait = r.step_wait
            /\ EndedBy(s.fx) = Append(EndedBy(r.fx), id)
<1> DEFINE e == [op |-> "Item", item |-> id, phase |-> phase]
           s == emit(r, e)
<1>1. IsEnd(e) /\ e.item = id
  BY DEF IsEnd
<1> HIDE DEF e
<1>2. /\ DOMAIN s = DOMAIN r /\ s.fx = Append(r.fx, e)
      /\ s.current = r.current /\ s.queue = r.queue /\ s.last = r.last /\ s.next_id = r.next_id
      /\ s.paused = r.paused /\ s.step_wait = r.step_wait
  BY DEF emit, Viewable, Names
<1>3. IsSeq(r.fx) /\ IsSeq(Append(r.fx, e))
  BY SeqAppend DEF Viewable
<1>4. s = emit_item(r, id, phase)
  BY DEF emit_item, e
<1> HIDE DEF s
<1>5. Viewable(s)
  BY <1>2, <1>3 DEF Viewable
<1>6. EndedBy(s.fx) = Append(EndedBy(r.fx), id)
  BY <1>1, <1>2, <1>3, OneEnds
<1> QED  BY <1>2, <1>4, <1>5, <1>6

LEMMA EmitStarted ==
  ASSUME NEW r, Viewable(r), NEW id
  PROVE  Same(r, emit_item(r, id, "Started"))
<1>1. ~IsEnd([op |-> "Item", item |-> id, phase |-> "Started"])
  BY DEF IsEnd
<1> QED  BY <1>1, EmitSame DEF emit_item

-----------------------------------------------------------------------------
(* The operators that clients do not see.                                  *)

LEMMA RequestSame ==
  ASSUME NEW r, Viewable(r), NEW item, NEW chunk
  PROVE  Same(r, request(r, item, chunk))
<1> DEFINE s == [r EXCEPT !.requested = @ \cup {<<item, chunk>>}]
           e == [op |-> "Synthesize", item |-> item, chunk |-> chunk]
<1>1. Same(r, s)
  <2>1. /\ DOMAIN s = DOMAIN r /\ s.fx = r.fx
        /\ s.current = r.current /\ s.queue = r.queue /\ s.last = r.last /\ s.next_id = r.next_id
        /\ s.paused = r.paused /\ s.step_wait = r.step_wait
    BY DEF Viewable, Names
  <2> HIDE DEF s
  <2> QED  BY <2>1, SameFields
<1>2. ~IsEnd(e)
  BY DEF IsEnd
<1> HIDE DEF s, e
<1>3. Same(s, emit(s, e))
  BY <1>1, <1>2, EmitSame DEF Same
<1>4. request(r, item, chunk) = r \/ request(r, item, chunk) = emit(s, e)
  BY DEF request, s, e
<1> QED  BY <1>1, <1>3, <1>4, SameSelf, SameTrans

LEMMA PrefetchSame ==
  ASSUME NEW r, Viewable(r)
  PROVE  Same(r, prefetch(r))
<1>1. \A s, n, p : Viewable(s) => Same(s, request_ahead(s, n, p))
  BY RequestSame, SameSelf DEF request_ahead
<1> DEFINE p1 == After(r, <<0, r.current.chunk>>)
           p2 == After(r, p1)
           p3 == After(r, p2)
           p4 == After(r, p3)
           s1 == request_ahead(r, 1, p1)
           s2 == request_ahead(s1, 2, p2)
           s3 == request_ahead(s2, 3, p3)
           s4 == request_ahead(s3, 4, p4)
<1>2. prefetch(r) = r \/ prefetch(r) = s4
  BY DEF prefetch
<1> HIDE DEF p1, p2, p3, p4
<1>3. Same(r, s1)
  BY <1>1
<1>4. Same(s1, s2)
  BY <1>1, <1>3 DEF Same
<1>5. Same(s2, s3)
  BY <1>1, <1>4 DEF Same
<1>6. Same(s3, s4)
  BY <1>1, <1>5 DEF Same
<1> HIDE DEF s1, s2, s3, s4
<1> QED  BY <1>2, <1>3, <1>4, <1>5, <1>6, SameSelf, SameTrans

LEMMA FinishSame ==
  ASSUME NEW r, Viewable(r)
  PROVE  Same(r, finish(r))
<1> DEFINE s == prefetch(r)
           next == snapshot(s)
           t == [s EXCEPT !.shown = next]
           e == [op |-> "State", state |-> next]
<1>1. Same(r, s)
  BY PrefetchSame
<1>2. finish(r) = s \/ finish(r) = emit(t, e)
  BY DEF finish
<1>3. ~IsEnd(e)
  BY DEF IsEnd
<1> HIDE DEF s, next, e
<1>4. Same(s, t)
  <2>1. /\ DOMAIN t = DOMAIN s /\ t.fx = s.fx
        /\ t.current = s.current /\ t.queue = s.queue /\ t.last = s.last /\ t.next_id = s.next_id
        /\ t.paused = s.paused /\ t.step_wait = s.step_wait
    BY <1>1 DEF Same, Viewable, Names
  <2> HIDE DEF t
  <2> QED  BY <1>1, <2>1, SameFields DEF Same
<1> HIDE DEF t
<1>5. Same(t, emit(t, e))
  BY <1>3, <1>4, EmitSame DEF Same
<1> QED  BY <1>1, <1>2, <1>4, <1>5, SameTrans

LEMMA BeginChunkSame ==
  ASSUME NEW r, Viewable(r)
  PROVE  Same(r, begin_chunk(r))
<1> DEFINE id == r.current.item.id
           s == request(r, id, r.current.chunk)
           t == [s EXCEPT !.gen = @ + 1, !.loaded = s.gen + 1]
           e == [op |-> "PlayChunk", item |-> id, chunk |-> r.current.chunk, gen |-> s.gen + 1]
<1>1. Same(r, s)
  BY RequestSame
<1>2. begin_chunk(r) = r \/ begin_chunk(r) = s \/ begin_chunk(r) = emit(t, e)
  BY DEF begin_chunk
<1>3. ~IsEnd(e)
  BY DEF IsEnd
<1> HIDE DEF s, e
<1>4. Same(s, t)
  <2>1. /\ DOMAIN t = DOMAIN s /\ t.fx = s.fx
        /\ t.current = s.current /\ t.queue = s.queue /\ t.last = s.last /\ t.next_id = s.next_id
        /\ t.paused = s.paused /\ t.step_wait = s.step_wait
    BY <1>1 DEF Same, Viewable, Names
  <2> HIDE DEF t
  <2> QED  BY <1>1, <2>1, SameFields DEF Same
<1> HIDE DEF t
<1>5. Same(t, emit(t, e))
  BY <1>3, <1>4, EmitSame DEF Same
<1> QED  BY <1>1, <1>2, <1>4, <1>5, SameTrans, SameSelf

LEMMA StopOutputSame ==
  ASSUME NEW r, Viewable(r)
  PROVE  Same(r, stop_output(r))
<1> DEFINE t == [r EXCEPT !.loaded = None]
           e == [op |-> "StopOutput"]
<1>1. stop_output(r) = r \/ stop_output(r) = emit(t, e)
  BY DEF stop_output
<1>2. ~IsEnd(e)
  BY DEF IsEnd
<1> HIDE DEF e
<1>3. Same(r, t)
  <2>1. /\ DOMAIN t = DOMAIN r /\ t.fx = r.fx
        /\ t.current = r.current /\ t.queue = r.queue /\ t.last = r.last /\ t.next_id = r.next_id
        /\ t.paused = r.paused /\ t.step_wait = r.step_wait
    BY DEF Viewable, Names
  <2> HIDE DEF t
  <2> QED  BY <2>1, SameFields
<1> HIDE DEF t
<1>4. Same(t, emit(t, e))
  BY <1>2, <1>3, EmitSame DEF Same
<1> QED  BY <1>1, <1>3, <1>4, SameTrans, SameSelf

-----------------------------------------------------------------------------
(* The operators of Player.                                                *)

(* A state of Player, field by field, and what its operators make of it.   *)
Fielded(c, k, q, l, p, n, e) ==
  [current |-> c, chunk |-> k, queue |-> q, last |-> l, pause |-> p, next_id |-> n, ended |-> e]

Only(c, k, q, l, p, n, e) ==
  [current : {c}, chunk : {k}, queue : {q}, last : {l}, pause : {p}, next_id : {n}, ended : {e}]

LEMMA OnlyFielded ==
  ASSUME NEW c, NEW k, NEW q, NEW l, NEW p, NEW n, NEW e
  PROVE  /\ Fielded(c, k, q, l, p, n, e) \in Only(c, k, q, l, p, n, e)
         /\ \A v \in Only(c, k, q, l, p, n, e) : v = Fielded(c, k, q, l, p, n, e)
<1>1. Fielded(c, k, q, l, p, n, e) \in Only(c, k, q, l, p, n, e)
  BY DEF Fielded, Only
<1>2. ASSUME NEW v \in Only(c, k, q, l, p, n, e)
      PROVE  v = Fielded(c, k, q, l, p, n, e)
  BY <1>2 DEF Fielded, Only
<1> QED  BY <1>1, <1>2

Waited(p) == IF p = "Step" THEN "No" ELSE p

LEMMA PlayerMoves ==
  ASSUME NEW c, NEW k, NEW q, NEW l, NEW p, NEW n, NEW e
  PROVE  LET v == Fielded(c, k, q, l, p, n, e)
         IN /\ Seen!end_wait(v) = Fielded(c, k, q, l, Waited(p), n, e)
            /\ Seen!resume(v) = Fielded(c, k, q, l, "No", n, e)
            /\ q = <<>> => Seen!start_next(v) = Fielded(c, k, q, l, "No", n, e)
            /\ q # <<>> => Seen!start_next(v) = Fielded(Head(q), 1, Tail(q), l, Waited(p), n, e)
            /\ c # None => Seen!pause(v) = Fielded(c, k, q, l, "User", n, e)
<1> DEFINE v == Fielded(c, k, q, l, p, n, e)
<1>0. v \in Only(c, k, q, l, p, n, e)
  BY OnlyFielded
<1> HIDE DEF v
<1>1. Seen!end_wait(v) = Fielded(c, k, q, l, Waited(p), n, e)
  <2>1. Seen!end_wait(v) \in Only(c, k, q, l, Waited(p), n, e)
    BY <1>0 DEF Only, Seen!end_wait, Waited
  <2> QED  BY <2>1, OnlyFielded, Zenon
<1>2. Seen!resume(v) = Fielded(c, k, q, l, "No", n, e)
  <2>1. Seen!resume(v) \in Only(c, k, q, l, "No", n, e)
    BY <1>0 DEF Only, Seen!resume
  <2> QED  BY <2>1, OnlyFielded, Zenon
<1>3. q = <<>> => Seen!start_next(v) = Fielded(c, k, q, l, "No", n, e)
  <2>1. q = <<>> => Seen!start_next(v) \in Only(c, k, q, l, "No", n, e)
    BY <1>0 DEF Only, Seen!start_next, Seen!end_wait
  <2> QED  BY <2>1, OnlyFielded, Zenon
<1>4. q # <<>> => Seen!start_next(v) = Fielded(Head(q), 1, Tail(q), l, Waited(p), n, e)
  <2>1. q # <<>> => Seen!start_next(v) \in Only(Head(q), 1, Tail(q), l, Waited(p), n, e)
    BY <1>0 DEF Only, Seen!start_next, Seen!end_wait, Waited
  <2> QED  BY <2>1, OnlyFielded, Zenon
<1>5. c # None => Seen!pause(v) = Fielded(c, k, q, l, "User", n, e)
  <2>1. c # None => Seen!pause(v) \in Only(c, k, q, l, "User", n, e)
    BY <1>0 DEF Only, Seen!pause
  <2> QED  BY <2>1, OnlyFielded, Zenon
<1> QED  BY <1>1, <1>2, <1>3, <1>4, <1>5, Zenon DEF v

LEMMA PlayerMovesTo ==
  ASSUME NEW c, NEW k, NEW q, NEW l, NEW p, NEW n, NEW e, NEW to
  PROVE  LET v == Fielded(c, k, q, l, p, n, e)
         IN /\ c # None => Seen!move_to(v, to) = Fielded(c, to, q, l, Waited(p), n, e)
<1> DEFINE v == Fielded(c, k, q, l, p, n, e)
<1>0. v \in Only(c, k, q, l, p, n, e)
  BY OnlyFielded
<1> HIDE DEF v
<1>1. c # None => Seen!move_to(v, to) = Fielded(c, to, q, l, Waited(p), n, e)
  <2>1. c # None => Seen!move_to(v, to) \in Only(c, to, q, l, Waited(p), n, e)
    BY <1>0 DEF Only, Seen!move_to, Seen!end_wait, Waited
  <2> QED  BY <2>1, OnlyFielded, Zenon
<1> QED  BY <1>1, Zenon DEF v

Ids(q) == [i \in 1..Len(q) |-> q[i].id]

LEMMA PlayerEnds ==
  ASSUME NEW c, NEW k, NEW q, NEW l, NEW p, NEW n, NEW e
  PROVE  LET v == Fielded(c, k, q, l, p, n, e)
         IN /\ c = None => Seen!end_current(v) = Fielded(c, k, q, l, p, n, e)
            /\ c # None => Seen!end_current(v) = Fielded(None, 0, q, c, p, n, Append(e, c.id))
            /\ Seen!drop_queue(v) = Fielded(c, k, <<>>, l, p, n, e \o Ids(q))
<1> DEFINE v == Fielded(c, k, q, l, p, n, e)
<1>0. v \in Only(c, k, q, l, p, n, e)
  BY OnlyFielded
<1> HIDE DEF v
<1>1. c = None => Seen!end_current(v) = Fielded(c, k, q, l, p, n, e)
  <2>1. c = None => Seen!end_current(v) \in Only(c, k, q, l, p, n, e)
    BY <1>0 DEF Only, Seen!end_current
  <2> QED  BY <2>1, OnlyFielded, Zenon
<1>2. c # None => Seen!end_current(v) = Fielded(None, 0, q, c, p, n, Append(e, c.id))
  <2>1. c # None => Seen!end_current(v) \in Only(None, 0, q, c, p, n, Append(e, c.id))
    BY <1>0 DEF Only, Seen!end_current
  <2> QED  BY <2>1, OnlyFielded, Zenon
<1>3. Seen!drop_queue(v) = Fielded(c, k, <<>>, l, p, n, e \o Ids(q))
  <2>1. Seen!drop_queue(v) \in Only(c, k, <<>>, l, p, n, e \o Ids(q))
    BY <1>0 DEF Only, Seen!drop_queue, Ids
  <2> QED  BY <2>1, OnlyFielded, Zenon
<1> QED  BY <1>1, <1>2, <1>3, Zenon DEF v

(* View, field by field.                                                   *)
CurrentView(r) == IF r.current = None THEN None ELSE ItemView(r.current.item)
ChunkView(r) == IF r.current = None THEN 0 ELSE r.current.chunk
LastView(r) == IF r.last = None THEN None ELSE ItemView(r.last)

LEMMA ViewFielded ==
  ASSUME NEW r
  PROVE  View(r) = Fielded(CurrentView(r), ChunkView(r), QueueView(r.queue), LastView(r),
                           PauseView(r.step_wait, r.paused), r.next_id, EndedBy(r.fx))
BY DEF View, Fielded, CurrentView, ChunkView, LastView

LEMMA ViewFields ==
  ASSUME NEW r
  PROVE  /\ View(r).current = IF r.current = None THEN None ELSE ItemView(r.current.item)
         /\ View(r).chunk = IF r.current = None THEN 0 ELSE r.current.chunk
         /\ View(r).queue = QueueView(r.queue)
         /\ View(r).last = IF r.last = None THEN None ELSE ItemView(r.last)
         /\ View(r).pause = PauseView(r.step_wait, r.paused)
         /\ View(r).next_id = r.next_id /\ View(r).ended = EndedBy(r.fx)
BY DEF View

LEMMA NoCurrent ==
  ASSUME NEW r, Viewable(r)
  PROVE  /\ View(r).current = None <=> r.current = None
         /\ View(r).last = None <=> r.last = None
         /\ View(r).queue = <<>> <=> r.queue = <<>>
         /\ r.current # None => /\ r.current \in Current
                                /\ View(r).chunk = r.current.chunk
                                /\ View(r).current.id = r.current.item.id
                                /\ View(r).current.chunks = Len(r.current.item.chunks)
<1>1. r.current # None => r.current \in Current /\ r.current.item \in Item
  BY CurrentFields DEF Viewable
<1>2. r.last # None => r.last \in Item
  BY DEF Viewable
<1> QED  BY <1>1, <1>2, ItemViewed, QueueViewed, ViewFields DEF Viewable

LEMMA EndWaitView ==
  ASSUME NEW r, Viewable(r)
  PROVE  LET s == end_wait(r)
         IN /\ Viewable(s) /\ ~s.step_wait
            /\ s.current = r.current /\ s.queue = r.queue /\ s.last = r.last
            /\ s.next_id = r.next_id /\ s.fx = r.fx
            /\ View(s) = Seen!end_wait(View(r))
<1> DEFINE s == end_wait(r)
<1>1. /\ DOMAIN s = DOMAIN r /\ ~s.step_wait /\ s.paused = (r.paused /\ ~r.step_wait)
      /\ s.current = r.current /\ s.queue = r.queue /\ s.last = r.last
      /\ s.next_id = r.next_id /\ s.fx = r.fx
  BY DEF end_wait, Viewable, Names
<1>2. s.step_wait = FALSE
  BY DEF end_wait, Viewable, Names
<1> HIDE DEF s
<1>3. Viewable(s)
  BY <1>1, <1>2 DEF Viewable
<1>4. View(s) = Seen!end_wait(View(r))
  <2>1. /\ CurrentView(s) = CurrentView(r) /\ ChunkView(s) = ChunkView(r) /\ LastView(s) = LastView(r)
        /\ PauseView(s.step_wait, s.paused) = Waited(PauseView(r.step_wait, r.paused))
    BY <1>1, <1>2 DEF CurrentView, ChunkView, LastView, PauseView, Waited
  <2> QED  BY <1>1, <2>1, ViewFielded, PlayerMoves
<1> QED  BY <1>1, <1>3, <1>4 DEF s

LEMMA EndCurrentView ==
  ASSUME NEW r, Viewable(r), NEW phase, phase # "Started"
  PROVE  LET s == end_current(r, phase)
         IN /\ Viewable(s) /\ s.current = None /\ s.queue = r.queue
            /\ s.next_id = r.next_id /\ s.paused = r.paused /\ s.step_wait = r.step_wait
            /\ View(s) = Seen!end_current(View(r))
<1> DEFINE o == stop_output(r)
           id == o.current.item.id
           t == [o EXCEPT !.current = None, !.last = o.current.item]
           u == [t EXCEPT !.requested = {p \in @ : p[1] # id}]
           s == emit_item(u, id, phase)
<1>1. Same(r, o)
  BY StopOutputSame
<1>2. View(o) = View(r)
  BY <1>1, SameView
<1>3. CASE o.current = None
  <2>1. end_current(r, phase) = o
    BY <1>3 DEF end_current
  <2>2. View(r).current = None
    BY <1>1, <1>3, NoCurrent, ViewFields DEF Same
  <2> HIDE DEF o
  <2> QED  BY <1>1, <1>2, <1>3, <2>1, <2>2 DEF Same, Seen!end_current
<1>4. CASE o.current # None
  <2>1. end_current(r, phase) = s
    BY <1>4 DEF end_current, forget
  <2>2. o.current \in Current /\ o.current.item \in Item
    BY <1>1, <1>4, CurrentFields DEF Same, Viewable
  <2> HIDE DEF o
  <2>3. /\ DOMAIN u = DOMAIN o /\ u.current = None /\ u.last = o.current.item
        /\ u.queue = o.queue /\ u.next_id = o.next_id /\ u.paused = o.paused
        /\ u.step_wait = o.step_wait /\ u.fx = o.fx
    BY <1>1 DEF Same, Viewable, Names
  <2> HIDE DEF u, id
  <2>4. Viewable(u)
    BY <1>1, <2>2, <2>3 DEF Same, Viewable
  <2>5. /\ Viewable(s) /\ s.current = u.current /\ s.queue = u.queue /\ s.last = u.last
        /\ s.next_id = u.next_id /\ s.paused = u.paused /\ s.step_wait = u.step_wait
        /\ EndedBy(s.fx) = Append(EndedBy(u.fx), id)
    BY <2>4, EmitEnd
  <2> HIDE DEF s
  <2>6. u.last # None
    BY <2>2, <2>3, ReaderConstants
  <2>7. /\ CurrentView(o) = ItemView(o.current.item) /\ CurrentView(o) # None
        /\ CurrentView(o).id = id
    BY <1>4, <2>2, ItemViewed DEF CurrentView, id
  <2>8. /\ CurrentView(s) = None /\ ChunkView(s) = 0 /\ LastView(s) = CurrentView(o)
    BY <2>3, <2>5, <2>6, <2>7 DEF CurrentView, ChunkView, LastView
  <2>9. View(s) = Seen!end_current(View(r))
    <3>1. Seen!end_current(View(o)) =
            Fielded(None, 0, QueueView(o.queue), CurrentView(o), PauseView(o.step_wait, o.paused),
                    o.next_id, Append(EndedBy(o.fx), id))
      BY <2>7, ViewFielded, PlayerEnds
    <3> QED  BY <1>2, <2>3, <2>5, <2>8, <3>1, ViewFielded
  <2> QED  BY <1>1, <2>1, <2>3, <2>5, <2>9 DEF Same
<1> QED  BY <1>3, <1>4

LEMMA DropQueueView ==
  ASSUME NEW r, Viewable(r)
  PROVE  LET s == drop_queue(r)
         IN /\ Viewable(s) /\ s.queue = <<>> /\ s.current = r.current /\ s.last = r.last
            /\ s.next_id = r.next_id /\ s.paused = r.paused /\ s.step_wait = r.step_wait
            /\ View(s) = Seen!drop_queue(View(r))
<1> DEFINE q == r.queue
           g == [k \in 1..Len(q) |-> [op |-> "Item", item |-> q[k].id, phase |-> "Skipped"]]
           s == drop_queue(r)
<1>1. q \in Seq(Item) /\ Len(q) \in Nat /\ IsSeq(r.fx)
  BY DEF Viewable
<1>2. /\ DOMAIN s = DOMAIN r /\ s.queue = <<>> /\ s.current = r.current /\ s.last = r.last
      /\ s.next_id = r.next_id /\ s.paused = r.paused /\ s.step_wait = r.step_wait
      /\ s.fx = r.fx \o g
  BY DEF drop_queue, Viewable, Names
<1>3. IsSeq(g) /\ Len(g) = Len(q)
  BY <1>1, FcnIsSeq
<1>4. \A i \in 1..Len(q) : IsEnd(g[i]) /\ g[i].item = q[i].id
  BY DEF IsEnd
<1> HIDE DEF s, g
<1>5. Viewable(s)
  <2>1. IsSeq(s.fx) /\ <<>> \in Seq(Item)
    BY <1>1, <1>2, <1>3, SeqConcat
  <2> QED  BY <1>2, <2>1 DEF Viewable
<1>6. EndedBy(s.fx) = EndedBy(r.fx) \o [i \in 1..Len(g) |-> g[i].item]
  BY <1>1, <1>2, <1>3, <1>4, EachEndsOne
<1>7. [i \in 1..Len(g) |-> g[i].item] = Ids(QueueView(q))
  <2>1. /\ Len(QueueView(q)) = Len(q)
        /\ \A i \in 1..Len(q) : QueueView(q)[i].id = q[i].id
    BY <1>1, QueueViewed, ItemViewed
  <2> QED  BY <1>3, <1>4, <2>1 DEF Ids
<1>8. QueueView(<<>>) = <<>>
  <2>1. <<>> \in Seq(Item)
    OBVIOUS
  <2> QED  BY <2>1, QueueViewed
<1>9. CurrentView(s) = CurrentView(r) /\ ChunkView(s) = ChunkView(r) /\ LastView(s) = LastView(r)
  BY <1>2 DEF CurrentView, ChunkView, LastView
<1> HIDE DEF q
<1>10. View(s) = Seen!drop_queue(View(r))
  <2>1. Seen!drop_queue(View(r)) =
          Fielded(CurrentView(r), ChunkView(r), <<>>, LastView(r), PauseView(r.step_wait, r.paused),
                  r.next_id, EndedBy(r.fx) \o Ids(QueueView(r.queue)))
    BY ViewFielded, PlayerEnds
  <2>2. EndedBy(s.fx) = EndedBy(r.fx) \o Ids(QueueView(r.queue))
    BY <1>6, <1>7, Zenon DEF q
  <2> QED  BY <1>2, <1>8, <1>9, <2>1, <2>2, ViewFielded
<1> QED  BY <1>2, <1>5, <1>10 DEF s

(* start_next, of whatever queue there is.                                 *)
LEMMA StartNextView ==
  ASSUME NEW r, Viewable(r)
  PROVE  Viewable(start_next(r)) /\ View(start_next(r)) = Seen!start_next(View(r))
<1> DEFINE s == end_wait(r)
<1>1. /\ Viewable(s) /\ ~s.step_wait /\ s.current = r.current /\ s.queue = r.queue
      /\ s.last = r.last /\ s.next_id = r.next_id /\ s.fx = r.fx
      /\ View(s) = Seen!end_wait(View(r))
  BY EndWaitView
<1>2. PauseView(s.step_wait, s.paused) = Waited(PauseView(r.step_wait, r.paused))
  BY DEF PauseView, Waited, end_wait, Viewable, Names
<1>3. QueueView(r.queue) = <<>> <=> r.queue = <<>>
  BY QueueViewed DEF Viewable
<1>4. CASE r.queue = <<>>
  <2> DEFINE t == [s EXCEPT !.paused = FALSE]
  <2>1. start_next(r) = t
    BY <1>1, <1>4 DEF start_next
  <2> HIDE DEF s
  <2>2. /\ DOMAIN t = DOMAIN s /\ t.paused = FALSE /\ t.step_wait = s.step_wait
        /\ t.current = s.current /\ t.queue = s.queue /\ t.last = s.last
        /\ t.next_id = s.next_id /\ t.fx = s.fx
    BY <1>1 DEF Viewable, Names
  <2> HIDE DEF t
  <2>3. Viewable(t)
    BY <1>1, <2>2 DEF Viewable
  <2>4. /\ CurrentView(t) = CurrentView(r) /\ ChunkView(t) = ChunkView(r) /\ LastView(t) = LastView(r)
        /\ PauseView(t.step_wait, t.paused) = "No"
    BY <1>1, <2>2 DEF CurrentView, ChunkView, LastView, PauseView
  <2>5. View(t) = Seen!start_next(View(r))
    BY <1>1, <1>3, <1>4, <2>2, <2>4, ViewFielded, PlayerMoves
  <2> QED  BY <2>1, <2>3, <2>5
<1>5. CASE r.queue # <<>>
  <2> DEFINE item == Head(s.queue)
             a == [s EXCEPT !.queue = Tail(@), !.released = FALSE]
             b == emit_item(a, item.id, "Started")
             now == [item |-> item, chunk |-> 1, played_any |-> FALSE]
             c == [b EXCEPT !.current = now]
  <2>1. start_next(r) = begin_chunk(c)
    BY <1>1, <1>5 DEF start_next
  <2>2. item \in Item /\ Tail(s.queue) \in Seq(Item) /\ item = Head(r.queue)
        /\ Head(QueueView(r.queue)) = ItemView(item)
        /\ QueueView(Tail(s.queue)) = Tail(QueueView(r.queue))
    BY <1>1, <1>5, QueueTail DEF Viewable
  <2> HIDE DEF s, item
  <2>3. now \in Current /\ now # None
    <3>1. now \in Current
      BY <2>2 DEF Current
    <3> HIDE DEF now
    <3> QED  BY <3>1, ReaderConstants
  <2>4. /\ DOMAIN a = DOMAIN s /\ a.queue = Tail(s.queue) /\ a.paused = s.paused
        /\ a.step_wait = s.step_wait /\ a.current = s.current /\ a.last = s.last
        /\ a.next_id = s.next_id /\ a.fx = s.fx
    BY <1>1 DEF Viewable, Names
  <2> HIDE DEF a
  <2>5. Viewable(a)
    BY <1>1, <2>2, <2>4 DEF Viewable
  <2>6. Same(a, b)
    BY <2>5, EmitStarted
  <2>7. now.item = item /\ now.chunk = 1
    OBVIOUS
  <2> HIDE DEF b, now
  <2>8. /\ DOMAIN c = DOMAIN b /\ c.queue = b.queue /\ c.paused = b.paused
        /\ c.step_wait = b.step_wait /\ c.current = now /\ c.last = b.last
        /\ c.next_id = b.next_id /\ c.fx = b.fx
    BY <2>6 DEF Same, Viewable, Names
  <2> HIDE DEF c
  <2>9. Viewable(c)
    BY <2>3, <2>6, <2>8 DEF Same, Viewable
  <2>10. Same(c, begin_chunk(c)) /\ View(begin_chunk(c)) = View(c)
    BY <2>9, BeginChunkSame, SameView
  <2>11. CurrentView(c) = ItemView(item) /\ ChunkView(c) = 1 /\ LastView(c) = LastView(r)
    BY <1>1, <2>3, <2>4, <2>6, <2>7, <2>8 DEF CurrentView, ChunkView, LastView, Same
  <2>12. /\ QueueView(c.queue) = Tail(QueueView(r.queue))
         /\ PauseView(c.step_wait, c.paused) = Waited(PauseView(r.step_wait, r.paused))
         /\ c.next_id = r.next_id /\ EndedBy(c.fx) = EndedBy(r.fx)
    BY <1>1, <1>2, <2>2, <2>4, <2>6, <2>8 DEF Same
  <2>13. View(c) = Seen!start_next(View(r))
    <3>1. Seen!start_next(View(r)) =
            Fielded(Head(QueueView(r.queue)), 1, Tail(QueueView(r.queue)), LastView(r),
                    Waited(PauseView(r.step_wait, r.paused)), r.next_id, EndedBy(r.fx))
      BY <1>3, <1>5, ViewFielded, PlayerMoves
    <3> QED  BY <2>2, <2>11, <2>12, <3>1, ViewFielded
  <2> QED  BY <2>1, <2>10, <2>13 DEF Same
<1> QED  BY <1>4, <1>5

LEMMA SkipView ==
  ASSUME NEW r, Viewable(r), r.current # None
  PROVE  Viewable(skip(r)) /\ View(skip(r)) = Seen!skip(View(r))
<1> DEFINE s == end_current(r, "Skipped")
<1>1. Viewable(s) /\ View(s) = Seen!end_current(View(r))
  BY EndCurrentView
<1>2. Viewable(start_next(s)) /\ View(start_next(s)) = Seen!start_next(View(s))
  BY <1>1, StartNextView
<1>3. View(r).current # None
  BY NoCurrent
<1> QED  BY <1>1, <1>2, <1>3 DEF skip, Seen!skip

LEMMA ViewOnly ==
  ASSUME NEW r
  PROVE  /\ View(r) \in Only(CurrentView(r), ChunkView(r), QueueView(r.queue), LastView(r),
                             PauseView(r.step_wait, r.paused), r.next_id, EndedBy(r.fx))
         /\ \A v \in Only(CurrentView(r), ChunkView(r), QueueView(r.queue), LastView(r),
                          PauseView(r.step_wait, r.paused), r.next_id, EndedBy(r.fx)) : v = View(r)
BY ViewFielded, OnlyFielded

LEMMA MoveToView ==
  ASSUME NEW r, Viewable(r), r.current # None, NEW to \in Nat \ {0}
  PROVE  Viewable(move_to(r, to)) /\ View(move_to(r, to)) = Seen!move_to(View(r), to)
<1> DEFINE a == end_wait(r)
           s == stop_output(a)
           t == [s EXCEPT !.current.chunk = to]
           v == [t EXCEPT !.released = @ /\ kind_at(t, to) = "Line"]
<1>1. /\ Viewable(a) /\ a.current = r.current /\ a.queue = r.queue
      /\ a.last = r.last /\ a.next_id = r.next_id /\ a.fx = r.fx
  BY EndWaitView
<1>2. PauseView(a.step_wait, a.paused) = Waited(PauseView(r.step_wait, r.paused))
  BY DEF PauseView, Waited, end_wait, Viewable, Names
<1> HIDE DEF a
<1>3. Same(a, s)
  BY <1>1, StopOutputSame
<1> HIDE DEF s
<1>4. s.current \in Current /\ s.current = r.current /\ s.current # None
  BY <1>1, <1>3 DEF Same, Viewable
<1>5. move_to(r, to) = begin_chunk(v)
  BY <1>4 DEF move_to, a, s
<1> DEFINE c == [s.current EXCEPT !.chunk = to]
<1>6. c \in Current /\ c.item = s.current.item /\ c.chunk = to
  BY <1>4 DEF Current
<1>7. c # None
  BY <1>6, ReaderConstants
<1>8. /\ DOMAIN v = DOMAIN s /\ v.current = c /\ v.queue = s.queue /\ v.last = s.last
      /\ v.next_id = s.next_id /\ v.paused = s.paused /\ v.step_wait = s.step_wait /\ v.fx = s.fx
  BY <1>3 DEF Same, Viewable, Names
<1> HIDE DEF v, c
<1>9. Viewable(v)
  BY <1>3, <1>6, <1>8 DEF Same, Viewable
<1>10. Same(v, begin_chunk(v)) /\ View(begin_chunk(v)) = View(v)
  BY <1>9, BeginChunkSame, SameView
<1>11. CurrentView(v) = CurrentView(r) /\ ChunkView(v) = to /\ LastView(v) = LastView(r)
  BY <1>1, <1>3, <1>4, <1>6, <1>7, <1>8 DEF CurrentView, ChunkView, LastView, Same
<1>12. /\ v.queue = r.queue /\ v.next_id = r.next_id /\ EndedBy(v.fx) = EndedBy(r.fx)
       /\ PauseView(v.step_wait, v.paused) = Waited(PauseView(r.step_wait, r.paused))
  BY <1>1, <1>2, <1>3, <1>8 DEF Same
<1>13. CurrentView(r) # None
  BY NoCurrent, ViewFields DEF CurrentView
<1>14. Seen!move_to(View(r), to) =
         Fielded(CurrentView(r), to, QueueView(r.queue), LastView(r),
                 Waited(PauseView(r.step_wait, r.paused)), r.next_id, EndedBy(r.fx))
  BY <1>13, ViewFielded, PlayerMovesTo
<1>15. View(v) = Seen!move_to(View(r), to)
  BY <1>11, <1>12, <1>14, ViewFielded
<1> QED  BY <1>5, <1>10, <1>15 DEF Same

(* The end of a chunk is that of Player, which leaves open when to wait.   *)
LEMMA AdvanceView ==
  ASSUME NEW r, Viewable(r), r.current # None, ~r.step_wait
  PROVE  /\ Viewable(advance(r))
         /\ \E wait \in BOOLEAN : View(advance(r)) = Seen!advance(View(r), wait)
<1> DEFINE at == r.current.chunk
           len == Len(r.current.item.chunks)
<1>1. r.current \in Current /\ at \in Nat \ {0} /\ len \in Nat
  BY CurrentFields DEF Viewable
<1>2. View(r).current # None /\ View(r).chunk = at /\ View(r).current.chunks = len
  BY NoCurrent
<1>3. CASE at < len
  <2> DEFINE next == kind_at(r, at + 1)
             wait == r.code_step /\ ~r.released /\ waits(kind_at(r, at), next) /\ ~r.paused
             v == [r EXCEPT !.current.chunk = at + 1, !.released = @ /\ next = "Line",
                            !.paused = @ \/ wait, !.step_wait = @ \/ wait]
             c == [r.current EXCEPT !.chunk = at + 1]
  <2>1. advance(r) = begin_chunk(v)
    BY <1>3 DEF advance
  <2>2. wait \in BOOLEAN /\ (wait => ~r.paused)
    OBVIOUS
  <2>3. c \in Current /\ c.item = r.current.item /\ c.chunk = at + 1
    BY <1>1 DEF Current
  <2>4. c # None
    BY <2>3, ReaderConstants
  <2> HIDE DEF wait, next
  <2>5. /\ DOMAIN v = DOMAIN r /\ v.current = c /\ v.queue = r.queue /\ v.last = r.last
        /\ v.next_id = r.next_id /\ v.fx = r.fx
        /\ v.paused = (r.paused \/ wait) /\ v.step_wait = (r.step_wait \/ wait)
    BY DEF Viewable, Names
  <2> HIDE DEF v, c
  <2>6. Viewable(v)
    BY <2>2, <2>3, <2>5 DEF Viewable
  <2>7. Same(v, begin_chunk(v)) /\ View(begin_chunk(v)) = View(v)
    BY <2>6, BeginChunkSame, SameView
  <2>8. CurrentView(v) = CurrentView(r) /\ ChunkView(v) = at + 1 /\ LastView(v) = LastView(r)
    BY <2>3, <2>4, <2>5 DEF CurrentView, ChunkView, LastView
  <2> DEFINE p == PauseView(r.step_wait, r.paused)
             pw == IF wait /\ p = "No" THEN "Step" ELSE p
  <2>9. PauseView(v.step_wait, v.paused) = pw
    BY <2>2, <2>5 DEF PauseView
  <2> HIDE DEF p
  <2>10. Seen!advance(View(r), wait) \in Only(CurrentView(r), at + 1, QueueView(r.queue),
                                             LastView(r), pw, r.next_id, EndedBy(r.fx))
    <3>1. View(r) \in Only(CurrentView(r), ChunkView(r), QueueView(r.queue), LastView(r), p,
                           r.next_id, EndedBy(r.fx))
      BY ViewOnly DEF p
    <3> QED  BY <1>2, <1>3, <3>1 DEF Only, Seen!advance
  <2> HIDE DEF pw
  <2>11. Seen!advance(View(r), wait) = View(v)
    BY <2>5, <2>8, <2>9, <2>10, ViewOnly
  <2> QED  BY <2>1, <2>2, <2>7, <2>11 DEF Same
<1>4. CASE ~(at < len)
  <2> DEFINE phase == IF r.current.played_any THEN "Finished" ELSE "Failed"
             s == end_current(r, phase)
  <2>1. advance(r) = start_next(s)
    BY <1>4 DEF advance
  <2>2. phase # "Started"
    OBVIOUS
  <2> HIDE DEF phase
  <2>3. Viewable(s) /\ View(s) = Seen!end_current(View(r))
    BY <2>2, EndCurrentView
  <2>4. Viewable(start_next(s)) /\ View(start_next(s)) = Seen!start_next(View(s))
    BY <2>3, StartNextView
  <2>5. View(start_next(s)) = Seen!advance(View(r), FALSE)
    BY <1>2, <1>4, <2>3, <2>4 DEF Seen!advance, Seen!skip
  <2> QED  BY <2>1, <2>4, <2>5
<1> QED  BY <1>3, <1>4

-----------------------------------------------------------------------------
(* The controls.                                                           *)

LEMMA ResumeView ==
  ASSUME NEW r, Viewable(r)
  PROVE  Viewable(resume(r)) /\ View(resume(r)) = Seen!resume(View(r))
<1> DEFINE s == [r EXCEPT !.paused = FALSE, !.step_wait = FALSE]
           e == [op |-> "ResumeOutput"]
<1>1. resume(r) = emit(s, e) \/ resume(r) = begin_chunk(s)
  BY DEF resume
<1>2. ~IsEnd(e)
  BY DEF IsEnd
<1>3. /\ DOMAIN s = DOMAIN r /\ s.current = r.current /\ s.queue = r.queue /\ s.last = r.last
      /\ s.next_id = r.next_id /\ s.fx = r.fx /\ s.paused = FALSE /\ s.step_wait = FALSE
  BY DEF Viewable, Names
<1> HIDE DEF s, e
<1>4. Viewable(s)
  BY <1>3 DEF Viewable
<1>5. Same(s, resume(r))
  BY <1>1, <1>2, <1>4, EmitSame, BeginChunkSame
<1>6. /\ CurrentView(s) = CurrentView(r) /\ ChunkView(s) = ChunkView(r) /\ LastView(s) = LastView(r)
      /\ PauseView(s.step_wait, s.paused) = "No"
  BY <1>3 DEF CurrentView, ChunkView, LastView, PauseView
<1>7. View(s) = Seen!resume(View(r))
  BY <1>3, <1>6, ViewFielded, PlayerMoves
<1> QED  BY <1>5, <1>7, SameView DEF Same

LEMMA PausesView ==
  ASSUME NEW r, Viewable(r), StepWaitOK(r)
  PROVE  Viewable(pause(r)) /\ View(pause(r)) = Seen!pause(View(r))
<1> DEFINE s == [r EXCEPT !.step_wait = FALSE]
           t == [s EXCEPT !.paused = TRUE]
           e == [op |-> "PauseOutput"]
<1>0. View(r).current = None <=> r.current = None
  BY NoCurrent
<1>1. /\ DOMAIN s = DOMAIN r /\ s.current = r.current /\ s.queue = r.queue /\ s.last = r.last
      /\ s.next_id = r.next_id /\ s.fx = r.fx /\ s.paused = r.paused /\ s.step_wait = FALSE
  BY DEF Viewable, Names
<1>2. pause(r) = IF s.current = None \/ s.paused THEN s
                 ELSE IF t.loaded # None THEN emit(t, e) ELSE t
  BY DEF pause
<1>3. ~IsEnd(e)
  BY DEF IsEnd
<1> HIDE DEF s, e
<1>4. Viewable(s)
  BY <1>1 DEF Viewable
<1>5. CASE r.current = None
  <2>1. r.step_wait = FALSE
    BY <1>5 DEF StepWaitOK, Viewable
  <2>2. Same(r, s)
    BY <1>1, <2>1, SameFields
  <2>3. pause(r) = s /\ Seen!pause(View(r)) = View(r)
    BY <1>0, <1>1, <1>2, <1>5 DEF Seen!pause
  <2> QED  BY <1>4, <2>2, <2>3, SameView
<1>6. CASE r.current # None
  <2>1. CurrentView(r) # None
    BY <1>6, NoCurrent, ViewFields DEF CurrentView
  <2>2. Seen!pause(View(r)) =
          Fielded(CurrentView(r), ChunkView(r), QueueView(r.queue), LastView(r), "User",
                  r.next_id, EndedBy(r.fx))
    BY <2>1, ViewFielded, PlayerMoves
  <2>3. CASE r.paused
    <3>1. pause(r) = s
      BY <1>1, <1>2, <2>3
    <3>2. /\ CurrentView(s) = CurrentView(r) /\ ChunkView(s) = ChunkView(r)
          /\ LastView(s) = LastView(r) /\ PauseView(s.step_wait, s.paused) = "User"
      BY <1>1, <2>3 DEF CurrentView, ChunkView, LastView, PauseView
    <3> QED  BY <1>1, <1>4, <2>2, <3>1, <3>2, ViewFielded
  <2>4. CASE ~r.paused
    <3>1. /\ DOMAIN t = DOMAIN s /\ t.current = s.current /\ t.queue = s.queue /\ t.last = s.last
          /\ t.next_id = s.next_id /\ t.fx = s.fx /\ t.paused = TRUE /\ t.step_wait = s.step_wait
      BY <1>4 DEF Viewable, Names
    <3>2. pause(r) = emit(t, e) \/ pause(r) = t
      BY <1>1, <1>2, <1>6, <2>4
    <3> HIDE DEF t
    <3>3. Viewable(t)
      BY <1>4, <3>1 DEF Viewable
    <3>4. Same(t, pause(r))
      BY <1>3, <3>2, <3>3, EmitSame, SameSelf
    <3>5. /\ CurrentView(t) = CurrentView(r) /\ ChunkView(t) = ChunkView(r)
          /\ LastView(t) = LastView(r) /\ PauseView(t.step_wait, t.paused) = "User"
      BY <1>1, <3>1 DEF CurrentView, ChunkView, LastView, PauseView
    <3>6. View(t) = Seen!pause(View(r))
      BY <1>1, <2>2, <3>1, <3>5, ViewFielded
    <3> QED  BY <3>4, <3>6, SameView DEF Same
  <2> QED  BY <2>3, <2>4
<1> QED  BY <1>5, <1>6

(* Play resumes a paused reader; Player's resume changes no other.         *)
LEMMA PlayView ==
  ASSUME NEW r, Viewable(r), StepWaitOK(r)
  PROVE  Viewable(play(r)) /\ View(play(r)) = Seen!resume(View(r))
<1>1. CASE r.paused
  <2> DEFINE s == release_code(r)
  <2>1. Same(r, s)
    <3>1. /\ DOMAIN s = DOMAIN r /\ s.current = r.current /\ s.queue = r.queue /\ s.last = r.last
          /\ s.next_id = r.next_id /\ s.fx = r.fx /\ s.paused = r.paused /\ s.step_wait = r.step_wait
      BY DEF release_code, Viewable, Names
    <3> HIDE DEF s
    <3> QED  BY <3>1, SameFields
  <2>2. play(r) = resume(s)
    BY <1>1 DEF play
  <2> HIDE DEF s
  <2> QED  BY <2>1, <2>2, ResumeView, SameView DEF Same
<1>2. CASE ~r.paused
  <2>1. PauseView(r.step_wait, r.paused) = "No"
    BY <1>2 DEF PauseView, StepWaitOK
  <2> QED  BY <1>2, <2>1, ViewFielded, PlayerMoves DEF play
<1> QED  BY <1>1, <1>2

LEMMA ConcatEmpty ==
  ASSUME NEW s, NEW t, IsSeq(s), IsSeq(t), Len(t) = 0
  PROVE  s \o t = s
<1> DEFINE u == s \o t
<1>1. /\ IsSeq(u) /\ Len(s) \in Nat /\ Len(u) = Len(s) + Len(t)
      /\ \A i \in 1..Len(s) : u[i] = s[i]
  BY SeqConcat, ZenonT(60)
<1> HIDE DEF u
<1>2. u = s
  BY <1>1, SeqsEqual
<1> QED  BY <1>2 DEF u

LEMMA StopView ==
  ASSUME NEW r, Viewable(r), IdleOK(r)
  PROVE  Viewable(stop(r)) /\ View(stop(r)) = Seen!stop(View(r))
<1>1. CASE r.current = None /\ r.queue = <<>>
  <2> DEFINE s == [r EXCEPT !.last = None]
  <2>1. stop(r) = s
    BY <1>1 DEF stop
  <2>2. /\ DOMAIN s = DOMAIN r /\ s.current = r.current /\ s.queue = r.queue /\ s.last = None
        /\ s.next_id = r.next_id /\ s.fx = r.fx /\ s.paused = r.paused /\ s.step_wait = r.step_wait
    BY DEF Viewable, Names
  <2> HIDE DEF s
  <2>3. Viewable(s)
    BY <2>2 DEF Viewable
  <2>4. QueueView(r.queue) = <<>> /\ CurrentView(r) = None
    <3>1. QueueView(r.queue) = <<>>
      BY <1>1, QueueViewed DEF Viewable
    <3> QED  BY <1>1, <3>1 DEF CurrentView
  <2>5. EndedBy(r.fx) \o Ids(<<>>) = EndedBy(r.fx)
    <3>1. Len(<<>>) = 0 /\ Ids(<<>>) = [i \in 1..0 |-> Ids(<<>>)[i]]
      BY DEF Ids
    <3>2. IsSeq(Ids(<<>>)) /\ Len(Ids(<<>>)) = 0
      BY <3>1, FcnIsSeq
    <3> QED  BY <3>2, EndsFinite, ConcatEmpty DEF Viewable
  <2>6. Seen!drop_queue(Seen!end_current(View(r))) =
          Fielded(CurrentView(r), ChunkView(r), <<>>, LastView(r), PauseView(r.step_wait, r.paused),
                  r.next_id, EndedBy(r.fx))
    <3>1. Seen!end_current(View(r)) = View(r)
      BY <2>4, ViewFielded, PlayerEnds
    <3>2. Seen!drop_queue(View(r)) =
          Fielded(CurrentView(r), ChunkView(r), <<>>, LastView(r), PauseView(r.step_wait, r.paused),
                  r.next_id, EndedBy(r.fx) \o Ids(QueueView(r.queue)))
      BY ViewFielded, PlayerEnds
    <3> QED  BY <2>4, <2>5, <3>1, <3>2
  <2>7. Seen!stop(View(r)) \in Only(CurrentView(r), ChunkView(r), <<>>, None, "No",
                                    r.next_id, EndedBy(r.fx))
    <3>1. Seen!drop_queue(Seen!end_current(View(r))) \in
            Only(CurrentView(r), ChunkView(r), <<>>, LastView(r), PauseView(r.step_wait, r.paused),
                 r.next_id, EndedBy(r.fx))
      BY <2>6, OnlyFielded
    <3> QED  BY <3>1 DEF Only, Seen!stop
  <2>8. /\ CurrentView(s) = CurrentView(r) /\ ChunkView(s) = ChunkView(r) /\ LastView(s) = None
        /\ PauseView(s.step_wait, s.paused) = "No"
    BY <1>1, <2>2 DEF CurrentView, ChunkView, LastView, PauseView, IdleOK
  <2>9. Seen!stop(View(r)) = View(s)
    BY <2>2, <2>4, <2>7, <2>8, ViewOnly
  <2> QED  BY <2>1, <2>3, <2>9
<1>2. CASE ~(r.current = None /\ r.queue = <<>>)
  <2> DEFINE a == end_current(r, "Skipped")
             b == drop_queue(a)
             s == [b EXCEPT !.last = None, !.paused = FALSE, !.step_wait = FALSE]
  <2>1. stop(r) = s
    BY <1>2 DEF stop
  <2>2. Viewable(a) /\ View(a) = Seen!end_current(View(r))
    BY EndCurrentView
  <2>3. Viewable(b) /\ View(b) = Seen!drop_queue(View(a))
    BY <2>2, DropQueueView
  <2> HIDE DEF b
  <2>4. /\ DOMAIN s = DOMAIN b /\ s.current = b.current /\ s.queue = b.queue /\ s.last = None
        /\ s.next_id = b.next_id /\ s.fx = b.fx /\ s.paused = FALSE /\ s.step_wait = FALSE
    BY <2>3 DEF Viewable, Names
  <2> HIDE DEF s
  <2>5. Viewable(s)
    BY <2>3, <2>4 DEF Viewable
  <2>6. /\ CurrentView(s) = CurrentView(b) /\ ChunkView(s) = ChunkView(b) /\ LastView(s) = None
        /\ PauseView(s.step_wait, s.paused) = "No"
    BY <2>4 DEF CurrentView, ChunkView, LastView, PauseView
  <2>7. Seen!stop(View(r)) = [View(b) EXCEPT !.last = None, !.pause = "No"]
    BY <2>2, <2>3 DEF Seen!stop
  <2>8. [View(b) EXCEPT !.last = None, !.pause = "No"] \in
          Only(CurrentView(b), ChunkView(b), QueueView(b.queue), None, "No", b.next_id, EndedBy(b.fx))
    BY ViewOnly DEF Only
  <2>9. Seen!stop(View(r)) = View(s)
    BY <2>4, <2>6, <2>7, <2>8, ViewOnly
  <2> QED  BY <2>1, <2>5, <2>9
<1> QED  BY <1>1, <1>2

LEMMA NextPreviousView ==
  ASSUME NEW r, Viewable(r)
  PROVE  /\ Viewable(next_chunk(r)) /\ View(next_chunk(r)) = Seen!next_chunk(View(r))
         /\ Viewable(previous_chunk(r)) /\ View(previous_chunk(r)) = Seen!previous_chunk(View(r))
<1>1. CASE r.current = None
  <2>1. View(r).current = None
    BY <1>1, NoCurrent
  <2>2. next_chunk(r) = r /\ previous_chunk(r) = r
    BY <1>1 DEF next_chunk, previous_chunk
  <2>3. Seen!next_chunk(View(r)) = View(r)
    BY <2>1 DEF Seen!next_chunk, Seen!skip
  <2>4. Seen!previous_chunk(View(r)) = View(r)
    BY <2>1 DEF Seen!previous_chunk, Seen!move_to
  <2> QED  BY <2>2, <2>3, <2>4
<1>2. CASE r.current # None
  <2> DEFINE at == r.current.chunk
             len == Len(r.current.item.chunks)
             back == IF at > 1 THEN at - 1 ELSE 1
  <2>1. r.current \in Current /\ at \in Nat \ {0} /\ len \in Nat
    BY <1>2, CurrentFields DEF Viewable
  <2>2. View(r).current # None /\ View(r).chunk = at /\ View(r).current.chunks = len
    BY <1>2, NoCurrent
  <2>3. at + 1 \in Nat \ {0} /\ back \in Nat \ {0}
    BY <2>1
  <2>4. next_chunk(r) = (IF at < len THEN move_to(r, at + 1) ELSE skip(r))
        /\ previous_chunk(r) = move_to(r, back)
    BY <1>2 DEF next_chunk, previous_chunk
  <2>5. Seen!next_chunk(View(r)) = IF at < len THEN Seen!move_to(View(r), at + 1) ELSE Seen!skip(View(r))
    BY <2>2 DEF Seen!next_chunk
  <2>6. Seen!previous_chunk(View(r)) = Seen!move_to(View(r), back)
    BY <2>2 DEF Seen!previous_chunk
  <2> HIDE DEF at, len, back
  <2>7. /\ Viewable(move_to(r, at + 1)) /\ View(move_to(r, at + 1)) = Seen!move_to(View(r), at + 1)
        /\ Viewable(move_to(r, back)) /\ View(move_to(r, back)) = Seen!move_to(View(r), back)
    BY <1>2, <2>3, MoveToView
  <2>8. Viewable(skip(r)) /\ View(skip(r)) = Seen!skip(View(r))
    BY <1>2, SkipView
  <2> QED  BY <2>4, <2>5, <2>6, <2>7, <2>8
<1> QED  BY <1>1, <1>2

(* A line step stays in the item, or skips it.                             *)
LEMMA LineStepView ==
  ASSUME NEW r, Viewable(r), InRange(r), NEW next \in BOOLEAN
  PROVE  LET w == line_step(r, next)
         IN /\ Viewable(w)
            /\ \/ View(w) = View(r)
               \/ /\ View(r).current # None
                  /\ \/ \E to \in 1..View(r).current.chunks :
                          View(w) = Seen!move_to(Seen!resume(View(r)), to)
                     \/ View(w) = Seen!skip(Seen!resume(View(r)))
<1>1. CASE r.current = None \/ ~in_code(r)
  BY <1>1 DEF line_step
<1>2. CASE ~(r.current = None \/ ~in_code(r))
  <2> DEFINE to == line_target(r, next)
             len == Len(r.current.item.chunks)
             s == [r EXCEPT !.paused = FALSE, !.step_wait = FALSE, !.released = FALSE]
  <2>1. r.current \in Current /\ r.current.chunk \in 1..len /\ len \in Nat
    BY <1>2, CurrentFields DEF Viewable, InRange
  <2>2. to \in Nat \ {0}
    BY <2>1 DEF line_target
  <2>3. line_step(r, next) = IF to > len THEN skip(s) ELSE move_to(s, to)
    BY <1>2 DEF line_step
  <2>4. /\ DOMAIN s = DOMAIN r /\ s.current = r.current /\ s.queue = r.queue /\ s.last = r.last
        /\ s.next_id = r.next_id /\ s.fx = r.fx /\ s.paused = FALSE /\ s.step_wait = FALSE
    BY DEF Viewable, Names
  <2> HIDE DEF s, to
  <2>5. Viewable(s) /\ s.current # None
    BY <1>2, <2>4 DEF Viewable
  <2>6. /\ CurrentView(s) = CurrentView(r) /\ ChunkView(s) = ChunkView(r) /\ LastView(s) = LastView(r)
        /\ PauseView(s.step_wait, s.paused) = "No"
    BY <2>4 DEF CurrentView, ChunkView, LastView, PauseView
  <2>7. View(s) = Seen!resume(View(r))
    BY <2>4, <2>6, ViewFielded, PlayerMoves
  <2>8. View(r).current # None /\ View(r).current.chunks = len
    BY <1>2, NoCurrent
  <2>9. CASE to > len
    BY <2>3, <2>5, <2>7, <2>8, <2>9, SkipView
  <2>10. CASE ~(to > len)
    <3>1. to \in 1..View(r).current.chunks
      BY <2>1, <2>2, <2>8, <2>10
    <3>2. Viewable(move_to(s, to)) /\ View(move_to(s, to)) = Seen!move_to(View(s), to)
      BY <2>2, <2>5, MoveToView
    <3>3. line_step(r, next) = move_to(s, to)
      BY <2>3, <2>10
    <3> QED  BY <2>7, <2>8, <3>1, <3>2, <3>3
  <2> QED  BY <2>9, <2>10
<1> QED  BY <1>1, <1>2

(* A record with another queue, as Player sees it.                         *)
LEMMA QueuedView ==
  ASSUME NEW r, Viewable(r), NEW q \in Seq(Item)
  PROVE  LET s == [r EXCEPT !.queue = q]
         IN /\ Viewable(s) /\ s.current = r.current
            /\ View(s) = [View(r) EXCEPT !.queue = QueueView(q)]
<1> DEFINE s == [r EXCEPT !.queue = q]
<1>1. /\ DOMAIN s = DOMAIN r /\ s.current = r.current /\ s.queue = q /\ s.last = r.last
      /\ s.next_id = r.next_id /\ s.fx = r.fx /\ s.paused = r.paused /\ s.step_wait = r.step_wait
  BY DEF Viewable, Names
<1> HIDE DEF s
<1>2. Viewable(s)
  BY <1>1 DEF Viewable
<1>3. CurrentView(s) = CurrentView(r) /\ ChunkView(s) = ChunkView(r) /\ LastView(s) = LastView(r)
  BY <1>1 DEF CurrentView, ChunkView, LastView
<1>4. [View(r) EXCEPT !.queue = QueueView(q)] \in
        Only(CurrentView(r), ChunkView(r), QueueView(q), LastView(r),
             PauseView(r.step_wait, r.paused), r.next_id, EndedBy(r.fx))
  BY ViewOnly DEF Only
<1>5. View(s) = [View(r) EXCEPT !.queue = QueueView(q)]
  BY <1>1, <1>3, <1>4, ViewOnly
<1> QED  BY <1>1, <1>2, <1>5 DEF s

LEMMA RestartView ==
  ASSUME NEW r, Viewable(r)
  PROVE  Viewable(restart(r)) /\ View(restart(r)) = Seen!restart(View(r))
<1>0. /\ View(r).current = None <=> r.current = None
      /\ View(r).last = None <=> r.last = None
  BY NoCurrent
<1>1. CASE r.current # None
  <2>1. restart(r) = move_to(r, 1) /\ Seen!restart(View(r)) = Seen!move_to(View(r), 1)
    BY <1>0, <1>1 DEF restart, Seen!restart
  <2>2. 1 \in Nat \ {0}
    OBVIOUS
  <2> QED  BY <1>1, <2>1, <2>2, MoveToView
<1>2. CASE r.current = None /\ r.last = None
  BY <1>0, <1>2 DEF restart, Seen!restart
<1>3. CASE r.current = None /\ r.last # None
  <2> DEFINE item == [r.last EXCEPT !.id = r.next_id]
             v == [r EXCEPT !.queue = <<item>> \o @, !.next_id = @ + 1, !.last = None]
             p == [View(r) EXCEPT !.queue = <<[View(r).last EXCEPT !.id = View(r).next_id]>> \o @,
                                  !.next_id = @ + 1, !.last = None]
  <2>1. restart(r) = start_next(v) /\ Seen!restart(View(r)) = Seen!start_next(p)
    <3>1. restart(r) = start_next(v)
      BY <1>3 DEF restart
    <3>2. Seen!restart(View(r)) = Seen!start_next(p)
      BY <1>0, <1>3 DEF Seen!restart
    <3> QED  BY <3>1, <3>2
  <2>2. r.last \in Item /\ r.next_id \in ItemId /\ r.queue \in Seq(Item)
    BY <1>3 DEF Viewable
  <2>3. item \in Item /\ item.id = r.next_id /\ item.chunks = r.last.chunks
    BY <2>2 DEF Item
  <2>4. ItemView(item) = [ItemView(r.last) EXCEPT !.id = r.next_id]
    <3>1. ItemView(r.last) \in [id : ItemId, chunks : {Len(r.last.chunks)}]
      BY <2>2 DEF ItemView, Item
    <3>2. [ItemView(r.last) EXCEPT !.id = r.next_id] \in [id : {r.next_id}, chunks : {Len(r.last.chunks)}]
      BY <3>1
    <3>3. ItemView(item) \in [id : {r.next_id}, chunks : {Len(r.last.chunks)}]
      BY <2>3 DEF ItemView
    <3> HIDE DEF item
    <3> QED  BY <3>2, <3>3
  <2> HIDE DEF item
  <2>5. <<item>> \o r.queue \in Seq(Item)
        /\ QueueView(<<item>> \o r.queue) = <<ItemView(item)>> \o QueueView(r.queue)
    <3>1. item \in Item /\ r.queue \in Seq(Item)
      BY <2>2, <2>3
    <3>2. <<item>> \o r.queue \in Seq(Item)
      BY <3>1
    <3> QED  BY <3>1, <3>2, QueuePrepend
  <2>6. /\ DOMAIN v = DOMAIN r /\ v.current = r.current /\ v.queue = <<item>> \o r.queue
        /\ v.last = None /\ v.next_id = r.next_id + 1 /\ v.fx = r.fx
        /\ v.paused = r.paused /\ v.step_wait = r.step_wait
    BY DEF Viewable, Names
  <2> HIDE DEF v
  <2>7. Viewable(v)
    <3>1. r.next_id + 1 \in ItemId
      BY <2>2 DEF ItemId
    <3> QED  BY <2>5, <2>6, <3>1 DEF Viewable
  <2>8. CurrentView(v) = CurrentView(r) /\ ChunkView(v) = ChunkView(r) /\ LastView(v) = None
    BY <2>6 DEF CurrentView, ChunkView, LastView
  <2> DEFINE q == <<ItemView(item)>> \o QueueView(r.queue)
  <2>9. View(r).last = ItemView(r.last) /\ View(r).next_id = r.next_id /\ View(r).queue = QueueView(r.queue)
    BY <1>3, ViewFields
  <2>10. p = [View(r) EXCEPT !.queue = q, !.next_id = r.next_id + 1, !.last = None]
    BY <2>4, <2>9
  <2> HIDE DEF p, q
  <2>11. p \in Only(CurrentView(r), ChunkView(r), q, None,
                    PauseView(r.step_wait, r.paused), r.next_id + 1, EndedBy(r.fx))
    BY <2>10, ViewOnly DEF Only
  <2>12. QueueView(v.queue) = q
    BY <2>5, <2>6 DEF q
  <2>13. p = View(v)
    BY <2>6, <2>8, <2>11, <2>12, ViewOnly
  <2> QED  BY <2>1, <2>7, <2>13, StartNextView
<1> QED  BY <1>1, <1>2, <1>3

LEMMA MuteSame ==
  ASSUME NEW r, Viewable(r)
  PROVE  Same(r, mute(r)) /\ Same(r, unmute(r))
<1>1. ASSUME NEW b, NEW e, ~IsEnd(e)
      PROVE  Same(r, emit([r EXCEPT !.muted = b], e))
  <2> DEFINE s == [r EXCEPT !.muted = b]
  <2>1. /\ DOMAIN s = DOMAIN r /\ s.current = r.current /\ s.queue = r.queue /\ s.last = r.last
        /\ s.next_id = r.next_id /\ s.fx = r.fx /\ s.paused = r.paused /\ s.step_wait = r.step_wait
    BY DEF Viewable, Names
  <2> HIDE DEF s
  <2>2. Same(r, s)
    BY <2>1, SameFields
  <2>3. Same(s, emit(s, e))
    BY <1>1, <2>2, EmitSame DEF Same
  <2>4. Same(r, emit(s, e))
    BY <2>2, <2>3, SameTrans
  <2> QED  BY <2>4 DEF s
<1>2. ~IsEnd([op |-> "Mute"]) /\ ~IsEnd([op |-> "Unmute"])
  BY DEF IsEnd
<1>3. Same(r, r)
  BY SameSelf
<1>4. Same(r, mute(r))
  BY <1>1, <1>2, <1>3 DEF mute
<1>5. Same(r, unmute(r))
  BY <1>1, <1>2, <1>3 DEF unmute
<1> QED  BY <1>4, <1>5

(* Each control is Player's, shows nothing, or is a line step.             *)
LEMMA ControlView ==
  ASSUME NEW r, Viewable(r), IdleOK(r), StepWaitOK(r), InRange(r), NEW c \in Control
  PROVE  LET w == control(r, c)
         IN \/ c \in Seen!Control /\ View(w) = Seen!control(View(r), c)
            \/ View(w) = View(r)
            \/ /\ View(r).current # None
               /\ \/ \E to \in 1..View(r).current.chunks :
                       View(w) = Seen!move_to(Seen!resume(View(r)), to)
                  \/ View(w) = Seen!skip(Seen!resume(View(r)))
<1>0. \A s : Viewable(s) => View(finish(s)) = View(s)
  BY FinishSame, SameView
<1>1. CASE c = "Play"
  <2>1. control(r, c) = finish(play(r)) /\ Seen!control(View(r), c) = Seen!resume(View(r))
        /\ c \in Seen!Control
    BY <1>1 DEF control, Seen!control, Seen!Control
  <2> QED  BY <1>0, <2>1, PlayView
<1>2. CASE c = "Pause"
  <2>1. control(r, c) = finish(pause(r)) /\ Seen!control(View(r), c) = Seen!pause(View(r))
        /\ c \in Seen!Control
    BY <1>2 DEF control, Seen!control, Seen!Control
  <2> QED  BY <1>0, <2>1, PausesView
<1>3. CASE c = "Toggle"
  <2>1. /\ control(r, c) = finish(IF r.paused THEN play(r) ELSE pause(r)) /\ c \in Seen!Control
        /\ Seen!control(View(r), c) =
             IF View(r).pause = "No" THEN Seen!pause(View(r)) ELSE Seen!resume(View(r))
    BY <1>3 DEF control, Seen!control, Seen!Control
  <2>2. View(r).pause = "No" <=> ~r.paused
    BY ViewFields DEF PauseView, StepWaitOK
  <2>3. CASE r.paused
    <3>1. control(r, c) = finish(play(r)) /\ Seen!control(View(r), c) = Seen!resume(View(r))
      BY <2>1, <2>2, <2>3
    <3> QED  BY <1>0, <2>1, <3>1, PlayView
  <2>4. CASE ~r.paused
    <3>1. control(r, c) = finish(pause(r)) /\ Seen!control(View(r), c) = Seen!pause(View(r))
      BY <2>1, <2>2, <2>4
    <3> QED  BY <1>0, <2>1, <3>1, PausesView
  <2> QED  BY <2>3, <2>4
<1>4. CASE c = "Stop"
  <2>1. control(r, c) = finish(stop(r)) /\ Seen!control(View(r), c) = Seen!stop(View(r))
        /\ c \in Seen!Control
    BY <1>4 DEF control, Seen!control, Seen!Control
  <2> QED  BY <1>0, <2>1, StopView
<1>5. CASE c = "Skip"
  <2>1. /\ control(r, c) = finish(IF r.current # None THEN skip(r) ELSE r) /\ c \in Seen!Control
        /\ Seen!control(View(r), c) = Seen!skip(View(r))
    BY <1>5 DEF control, Seen!control, Seen!Control
  <2>2. CASE r.current # None
    BY <1>0, <2>1, <2>2, SkipView
  <2>3. CASE r.current = None
    <3>1. View(r).current = None
      BY <2>3, NoCurrent
    <3> QED  BY <1>0, <2>1, <2>3, <3>1 DEF Seen!skip
  <2> QED  BY <2>2, <2>3
<1>6. CASE c = "Previous"
  <2>1. control(r, c) = finish(previous_chunk(r)) /\ c \in Seen!Control
        /\ Seen!control(View(r), c) = Seen!previous_chunk(View(r))
    BY <1>6 DEF control, Seen!control, Seen!Control
  <2> QED  BY <1>0, <2>1, NextPreviousView
<1>7. CASE c = "Next"
  <2>1. control(r, c) = finish(next_chunk(r)) /\ c \in Seen!Control
        /\ Seen!control(View(r), c) = Seen!next_chunk(View(r))
    BY <1>7 DEF control, Seen!control, Seen!Control
  <2> QED  BY <1>0, <2>1, NextPreviousView
<1>8. CASE c = "Restart"
  <2>1. control(r, c) = finish(restart(r)) /\ c \in Seen!Control
        /\ Seen!control(View(r), c) = Seen!restart(View(r))
    BY <1>8 DEF control, Seen!control, Seen!Control
  <2> QED  BY <1>0, <2>1, RestartView
<1>9. CASE c = "Mute" \/ c = "Unmute"
  <2>1. control(r, c) = finish(mute(r)) \/ control(r, c) = finish(unmute(r))
    BY <1>9 DEF control
  <2> QED  BY <1>0, <2>1, MuteSame, SameView DEF Same
<1>10. CASE c = "NextLine" \/ c = "PreviousLine"
  <2>1. \E next \in BOOLEAN : control(r, c) = finish(line_step(r, next))
    BY <1>10 DEF control
  <2>2. PICK next \in BOOLEAN : control(r, c) = finish(line_step(r, next))
    BY <2>1
  <2>3. Viewable(line_step(r, next))
    BY LineStepView
  <2>4. View(control(r, c)) = View(line_step(r, next))
    BY <1>0, <2>2, <2>3
  <2> QED  BY <2>4, LineStepView
<1> QED
  BY <1>1, <1>2, <1>3, <1>4, <1>5, <1>6, <1>7, <1>8, <1>9, <1>10 DEF Control

-----------------------------------------------------------------------------
(* The other calls.                                                        *)

LEMMA SpeakView ==
  ASSUME NEW r, Viewable(r), NEW text \in Texts, r.chunking \in Chunking,
         NEW replace \in BOOLEAN, NEW interrupt \in BOOLEAN
  PROVE  /\ View(speak(r, text, replace, interrupt))
              = Seen!speak(View(r), Len(text[r.chunking]), replace, interrupt)
<1> DEFINE id == r.next_id
           chunks == text[r.chunking]
           item == [id |-> id, chunks |-> chunks]
           s == [r EXCEPT !.next_id = @ + 1]
           t == IF replace THEN drop_queue(s) ELSE s
           cut == end_current(t, "Skipped")
           queued == [t EXCEPT !.queue = Append(@, item)]
           first == [cut EXCEPT !.queue = <<item>> \o @]
           len == Len(chunks)
           seen == [id |-> View(r).next_id, chunks |-> len]
           ps == [View(r) EXCEPT !.next_id = @ + 1]
           pt == IF replace THEN Seen!drop_queue(ps) ELSE ps
<1>1. chunks \in Seq(Kind) /\ id \in ItemId
  BY ReaderConstants DEF Viewable
<1>2. speak(r, text, replace, interrupt) =
        CASE chunks = <<>> -> emit_item(s, id, "Skipped")
          [] chunks # <<>> /\ interrupt /\ t.current # None -> finish(start_next(first))
          [] OTHER -> finish(IF t.current = None THEN start_next(queued) ELSE queued)
  BY DEF speak
<1>3. Seen!speak(View(r), len, replace, interrupt) =
        IF len = 0 THEN [ps EXCEPT !.ended = Append(@, seen.id)]
        ELSE IF interrupt /\ pt.current # None
        THEN Seen!start_next([Seen!end_current(pt) EXCEPT !.queue = <<seen>> \o @])
        ELSE IF pt.current = None THEN Seen!start_next([pt EXCEPT !.queue = Append(@, seen)])
        ELSE [pt EXCEPT !.queue = Append(@, seen)]
  BY DEF Seen!speak
<1>4. /\ DOMAIN s = DOMAIN r /\ s.current = r.current /\ s.queue = r.queue /\ s.last = r.last
      /\ s.next_id = id + 1 /\ s.fx = r.fx /\ s.paused = r.paused /\ s.step_wait = r.step_wait
  BY DEF Viewable, Names
<1>5. View(r).next_id = id
  BY ViewFields
<1>6. seen = ItemView(item) /\ (len = 0 <=> chunks = <<>>)
  BY <1>1, <1>5 DEF ItemView
<1> HIDE DEF s, chunks
<1>7. Viewable(s)
  <2>1. id + 1 \in ItemId
    BY <1>1 DEF ItemId
  <2> QED  BY <1>4, <2>1 DEF Viewable
<1>8. View(s) = ps
  <2>1. CurrentView(s) = CurrentView(r) /\ ChunkView(s) = ChunkView(r) /\ LastView(s) = LastView(r)
    BY <1>4 DEF CurrentView, ChunkView, LastView
  <2>2. ps = [View(r) EXCEPT !.next_id = id + 1]
    BY <1>5
  <2>3. [View(r) EXCEPT !.next_id = id + 1] \in
          Only(CurrentView(r), ChunkView(r), QueueView(r.queue), LastView(r),
               PauseView(r.step_wait, r.paused), id + 1, EndedBy(r.fx))
    <3> HIDE DEF id
    <3> QED  BY ViewOnly DEF Only
  <2> HIDE DEF ps
  <2> QED  BY <1>4, <2>1, <2>2, <2>3, ViewOnly
<1> HIDE DEF ps, id
<1>9. Viewable(t) /\ View(t) = pt
  BY <1>7, <1>8, DropQueueView
<1> HIDE DEF t, pt
<1>10. pt.current = None <=> t.current = None
  BY <1>9, NoCurrent
<1>11. CASE chunks = <<>>
  <2> DEFINE w == emit_item(s, id, "Skipped")
  <2>1. /\ w.current = s.current /\ w.queue = s.queue /\ w.last = s.last
        /\ w.next_id = s.next_id /\ w.paused = s.paused /\ w.step_wait = s.step_wait
        /\ EndedBy(w.fx) = Append(EndedBy(s.fx), id)
    BY <1>7, EmitEnd
  <2> HIDE DEF w
  <2>2. CurrentView(w) = CurrentView(s) /\ ChunkView(w) = ChunkView(s) /\ LastView(w) = LastView(s)
    BY <2>1 DEF CurrentView, ChunkView, LastView
  <2>3. ps.ended = EndedBy(s.fx) /\ seen.id = id
    BY <1>5, <1>8, ViewFields
  <2>4. [ps EXCEPT !.ended = Append(@, seen.id)] = [View(s) EXCEPT !.ended = Append(EndedBy(s.fx), id)]
    BY <1>8, <2>3
  <2>5. [View(s) EXCEPT !.ended = Append(EndedBy(s.fx), id)] \in
          Only(CurrentView(s), ChunkView(s), QueueView(s.queue), LastView(s),
               PauseView(s.step_wait, s.paused), s.next_id, Append(EndedBy(s.fx), id))
    BY ViewOnly DEF Only
  <2>6. View(w) = [ps EXCEPT !.ended = Append(@, seen.id)]
    BY <2>1, <2>2, <2>4, <2>5, ViewOnly
  <2>7. speak(r, text, replace, interrupt) = w
    BY <1>2, <1>11 DEF w
  <2>8. Seen!speak(View(r), len, replace, interrupt) = [ps EXCEPT !.ended = Append(@, seen.id)]
    BY <1>3, <1>6, <1>11
  <2> QED  BY <2>6, <2>7, <2>8 DEF chunks
<1>12. CASE chunks # <<>>
  <2>1. item \in Item /\ len # 0
    BY <1>1, <1>6, <1>12 DEF Item
  <2> HIDE DEF item, seen
  <2>2. Viewable(cut) /\ View(cut) = Seen!end_current(pt)
    BY <1>9, EndCurrentView
  <2>3. t.queue \in Seq(Item) /\ cut.queue \in Seq(Item)
    BY <1>9, <2>2 DEF Viewable
  <2> HIDE DEF cut
  <2>4. Viewable(first) /\ View(first) = [View(cut) EXCEPT !.queue = <<seen>> \o QueueView(cut.queue)]
    <3>1. <<item>> \o cut.queue \in Seq(Item)
      BY <2>1, <2>3
    <3>2. QueueView(<<item>> \o cut.queue) = <<seen>> \o QueueView(cut.queue)
      BY <1>6, <2>1, <2>3, QueuePrepend
    <3> DEFINE q == <<item>> \o cut.queue
    <3> HIDE DEF q
    <3>3. Viewable([cut EXCEPT !.queue = q])
          /\ View([cut EXCEPT !.queue = q]) = [View(cut) EXCEPT !.queue = QueueView(q)]
      BY <2>2, <3>1, QueuedView DEF q
    <3> QED  BY <3>2, <3>3 DEF q
  <2>5. Viewable(queued) /\ View(queued) = [pt EXCEPT !.queue = Append(QueueView(t.queue), seen)]
        /\ queued.current = t.current
    <3>1. Append(t.queue, item) \in Seq(Item)
      BY <2>1, <2>3
    <3>2. QueueView(Append(t.queue, item)) = Append(QueueView(t.queue), seen)
      BY <1>6, <2>1, <2>3, QueueAppend
    <3> DEFINE q == Append(t.queue, item)
    <3> HIDE DEF q
    <3>3. Viewable([t EXCEPT !.queue = q]) /\ [t EXCEPT !.queue = q].current = t.current
          /\ View([t EXCEPT !.queue = q]) = [View(t) EXCEPT !.queue = QueueView(q)]
      BY <1>9, <3>1, QueuedView DEF q
    <3> QED  BY <1>9, <3>2, <3>3 DEF q
  <2>6. View(cut).queue = QueueView(cut.queue) /\ pt.queue = QueueView(t.queue)
    BY <1>9, ViewFields
  <2>7. View(first) = [Seen!end_current(pt) EXCEPT !.queue = <<seen>> \o @]
    BY <2>2, <2>4, <2>6
  <2>8. View(queued) = [pt EXCEPT !.queue = Append(@, seen)]
    BY <2>5, <2>6
  <2> HIDE DEF first, queued
  <2>9. \A x : Viewable(x) => View(finish(x)) = View(x)
    BY FinishSame, SameView
  <2>10. \A x : Viewable(x) => Viewable(start_next(x)) /\ View(start_next(x)) = Seen!start_next(View(x))
    BY StartNextView
  <2> DEFINE w == speak(r, text, replace, interrupt)
             pw == Seen!speak(View(r), len, replace, interrupt)
  <2>11. CASE interrupt /\ t.current # None
    <3>1. w = finish(start_next(first))
      BY <1>2, <1>12, <2>11
    <3>2. pw = Seen!start_next(View(first))
      BY <1>3, <1>10, <2>1, <2>7, <2>11
    <3>3. View(w) = pw
      BY <2>4, <2>9, <2>10, <3>1, <3>2
    <3> QED  BY <3>3 DEF chunks
  <2>12. CASE ~(interrupt /\ t.current # None) /\ t.current = None
    <3>1. w = finish(start_next(queued))
      BY <1>2, <1>12, <2>12
    <3>2. pw = Seen!start_next(View(queued))
      BY <1>3, <1>10, <2>1, <2>8, <2>12
    <3>3. View(w) = pw
      BY <2>5, <2>9, <2>10, <3>1, <3>2
    <3> QED  BY <3>3 DEF chunks
  <2>13. CASE ~(interrupt /\ t.current # None) /\ t.current # None
    <3>1. w = finish(queued)
      BY <1>2, <1>12, <2>13
    <3>2. pw = View(queued)
      BY <1>3, <1>10, <2>1, <2>8, <2>13
    <3>3. View(w) = pw
      BY <2>5, <2>9, <3>1, <3>2
    <3> QED  BY <3>3 DEF chunks
  <2> QED  BY <2>11, <2>12, <2>13
<1> QED  BY <1>11, <1>12

LEMMA OnAudioView ==
  ASSUME NEW r, Viewable(r), StepWaitOK(r), LoadedOK(r), NEW e \in AudioEvent, NEW gen \in Nat
  PROVE  LET w == on_audio(r, e, gen)
         IN \/ View(w) = View(r)
            \/ /\ View(r).current # None
               /\ \E wait \in BOOLEAN : View(w) = Seen!advance(View(r), wait)
<1>1. CASE r.loaded # gen
  BY <1>1 DEF on_audio
<1>2. CASE r.loaded = gen
  <2> DEFINE s == IF e # "Failed" /\ r.current # None
                  THEN [r EXCEPT !.current.played_any = TRUE] ELSE r
             c == [r.current EXCEPT !.played_any = TRUE]
             t == [s EXCEPT !.loaded = None]
  <2>1. r.loaded # None
    BY <1>2, ReaderConstants
  <2>2. r.current # None /\ ~r.step_wait
    BY <2>1 DEF LoadedOK, StepWaitOK
  <2>3. r.current \in Current
    BY <2>2 DEF Viewable
  <2>4. c \in Current /\ c.item = r.current.item /\ c.chunk = r.current.chunk
    BY <2>3 DEF Current
  <2>5. c # None
    BY <2>4, ReaderConstants
  <2>6. on_audio(r, e, gen) = finish(IF e = "ChunkStarted" THEN s ELSE advance(t))
    BY <1>2 DEF on_audio
  <2> HIDE DEF c
  <2>7. /\ DOMAIN s = DOMAIN r /\ s.current \in {r.current, c} /\ s.queue = r.queue
        /\ s.last = r.last /\ s.next_id = r.next_id /\ s.fx = r.fx /\ s.paused = r.paused
        /\ s.step_wait = r.step_wait
    BY DEF Viewable, Names, c
  <2> HIDE DEF s
  <2>8. Viewable(s) /\ s.current # None
    BY <2>2, <2>4, <2>5, <2>7 DEF Viewable
  <2>9. View(s) = View(r)
    <3>1. CurrentView(s) = CurrentView(r) /\ ChunkView(s) = ChunkView(r) /\ LastView(s) = LastView(r)
      BY <2>2, <2>4, <2>7, <2>8 DEF CurrentView, ChunkView, LastView
    <3> QED  BY <2>7, <3>1, ViewFielded
  <2>10. CASE e = "ChunkStarted"
    <3>1. on_audio(r, e, gen) = finish(s)
      BY <2>6, <2>10
    <3> QED  BY <2>8, <2>9, <3>1, FinishSame, SameView
  <2>11. CASE e # "ChunkStarted"
    <3>1. /\ DOMAIN t = DOMAIN s /\ t.current = s.current /\ t.queue = s.queue
          /\ t.last = s.last /\ t.next_id = s.next_id /\ t.fx = s.fx /\ t.paused = s.paused
          /\ t.step_wait = s.step_wait
      BY <2>8 DEF Viewable, Names
    <3>2. on_audio(r, e, gen) = finish(advance(t))
      BY <2>6, <2>11
    <3> HIDE DEF t
    <3>3. Same(s, t) /\ View(t) = View(r)
      BY <2>8, <2>9, <3>1, SameFields, SameView
    <3>4. Viewable(t) /\ t.current # None /\ ~t.step_wait
      BY <2>2, <2>7, <2>8, <3>1, <3>3 DEF Same
    <3>5. /\ Viewable(advance(t))
          /\ \E wait \in BOOLEAN : View(advance(t)) = Seen!advance(View(r), wait)
      BY <3>3, <3>4, AdvanceView
    <3>6. View(finish(advance(t))) = View(advance(t))
      BY <3>5, FinishSame, SameView
    <3>7. View(r).current # None
      BY <2>2, NoCurrent
    <3> QED  BY <3>2, <3>5, <3>6, <3>7
  <2> QED  BY <2>10, <2>11
<1> QED  BY <1>1, <1>2

(* Turning step mode off ends a wait.                                      *)
LEMMA CodeStepView ==
  ASSUME NEW r, Viewable(r), StepWaitOK(r), NEW on \in BOOLEAN
  PROVE  LET w == set_code_step(r, on)
         IN View(w) = View(r) \/ View(w) = Seen!end_wait(View(r))
<1> DEFINE s == [r EXCEPT !.code_step = on]
<1>1. /\ DOMAIN s = DOMAIN r /\ s.current = r.current /\ s.queue = r.queue /\ s.last = r.last
      /\ s.next_id = r.next_id /\ s.fx = r.fx /\ s.paused = r.paused /\ s.step_wait = r.step_wait
  BY DEF Viewable, Names
<1>2. set_code_step(r, on) = finish(IF ~on /\ s.step_wait THEN resume(s) ELSE s)
  BY DEF set_code_step
<1> HIDE DEF s
<1>3. Same(r, s) /\ View(s) = View(r)
  BY <1>1, SameFields, SameView
<1>4. Viewable(s)
  BY <1>3 DEF Same
<1>5. CASE ~(~on /\ s.step_wait)
  <2>1. set_code_step(r, on) = finish(s)
    BY <1>2, <1>5
  <2> QED  BY <1>3, <1>4, <2>1, FinishSame, SameView
<1>6. CASE ~on /\ s.step_wait
  <2>1. set_code_step(r, on) = finish(resume(s))
    BY <1>2, <1>6
  <2>2. Viewable(resume(s)) /\ View(resume(s)) = Seen!resume(View(r))
    BY <1>3, <1>4, ResumeView
  <2>3. View(finish(resume(s))) = Seen!resume(View(r))
    BY <2>2, FinishSame, SameView
  <2>4. Waited(PauseView(r.step_wait, r.paused)) = "No"
    BY <1>1, <1>6 DEF Waited, PauseView
  <2>5. Seen!resume(View(r)) = Seen!end_wait(View(r))
    BY <2>4, ViewFielded, PlayerMoves
  <2> QED  BY <2>1, <2>3, <2>5
<1> QED  BY <1>5, <1>6

(* The other settings show nothing new to Player.                          *)
LEMMA SettingsSame ==
  ASSUME NEW r, Viewable(r), NEW x
  PROVE  /\ View(set_volume(r, x)) = View(r) /\ View(set_rate(r, x)) = View(r)
         /\ View(set_voice(r, x)) = View(r) /\ View(set_lookahead(r, x)) = View(r)
         /\ View(set_chunking(r, x)) = View(r)
<1>0. \A s : Same(r, s) => View(finish(s)) = View(r)
  BY FinishSame, SameView DEF Same
<1>1. ASSUME NEW s, DOMAIN s = DOMAIN r,
             s.current = r.current /\ s.queue = r.queue /\ s.last = r.last /\ s.next_id = r.next_id,
             s.fx = r.fx /\ s.paused = r.paused /\ s.step_wait = r.step_wait
      PROVE  Same(r, s)
  BY <1>1, SameFields
<1>2. View(set_volume(r, x)) = View(r)
  <2> DEFINE s == [r EXCEPT !.volume = x]
             e == [op |-> "SetVolume", volume |-> x]
  <2>1. /\ DOMAIN s = DOMAIN r /\ s.current = r.current /\ s.queue = r.queue /\ s.last = r.last
        /\ s.next_id = r.next_id /\ s.fx = r.fx /\ s.paused = r.paused /\ s.step_wait = r.step_wait
    BY DEF Viewable, Names
  <2>2. set_volume(r, x) = finish(r) \/ set_volume(r, x) = finish(emit(s, e))
    BY DEF set_volume
  <2>3. ~IsEnd(e)
    BY DEF IsEnd
  <2> HIDE DEF s, e
  <2>4. Same(r, s)
    BY <1>1, <2>1
  <2>5. Same(s, emit(s, e))
    BY <2>3, <2>4, EmitSame DEF Same
  <2>6. Same(r, emit(s, e)) /\ Same(r, r)
    BY <2>4, <2>5, SameTrans, SameSelf
  <2> QED  BY <1>0, <2>2, <2>6
<1>3. View(set_rate(r, x)) = View(r)
  <2> DEFINE s == [r EXCEPT !.rate = x]
  <2>1. /\ DOMAIN s = DOMAIN r /\ s.current = r.current /\ s.queue = r.queue /\ s.last = r.last
        /\ s.next_id = r.next_id /\ s.fx = r.fx /\ s.paused = r.paused /\ s.step_wait = r.step_wait
    BY DEF Viewable, Names
  <2>2. set_rate(r, x) = finish(s)
    BY DEF set_rate
  <2> HIDE DEF s
  <2> QED  BY <1>0, <1>1, <2>1, <2>2
<1>4. View(set_voice(r, x)) = View(r)
  <2> DEFINE s == [r EXCEPT !.voice = x]
  <2>1. /\ DOMAIN s = DOMAIN r /\ s.current = r.current /\ s.queue = r.queue /\ s.last = r.last
        /\ s.next_id = r.next_id /\ s.fx = r.fx /\ s.paused = r.paused /\ s.step_wait = r.step_wait
    BY DEF Viewable, Names
  <2>2. set_voice(r, x) = finish(s)
    BY DEF set_voice
  <2> HIDE DEF s
  <2> QED  BY <1>0, <1>1, <2>1, <2>2
<1>5. View(set_lookahead(r, x)) = View(r)
  <2> DEFINE n == IF x < 1 THEN 1 ELSE IF x > MAX_LOOKAHEAD THEN MAX_LOOKAHEAD ELSE x
             s == [r EXCEPT !.lookahead = n]
  <2>1. set_lookahead(r, x) = finish(s)
    BY DEF set_lookahead
  <2> HIDE DEF n
  <2>2. /\ DOMAIN s = DOMAIN r /\ s.current = r.current /\ s.queue = r.queue /\ s.last = r.last
        /\ s.next_id = r.next_id /\ s.fx = r.fx /\ s.paused = r.paused /\ s.step_wait = r.step_wait
    BY DEF Viewable, Names
  <2> HIDE DEF s
  <2> QED  BY <1>0, <1>1, <2>1, <2>2
<1>6. View(set_chunking(r, x)) = View(r)
  <2> DEFINE s == [r EXCEPT !.chunking = x]
  <2>1. /\ DOMAIN s = DOMAIN r /\ s.current = r.current /\ s.queue = r.queue /\ s.last = r.last
        /\ s.next_id = r.next_id /\ s.fx = r.fx /\ s.paused = r.paused /\ s.step_wait = r.step_wait
    BY DEF Viewable, Names
  <2>2. set_chunking(r, x) = finish(s)
    BY DEF set_chunking
  <2> HIDE DEF s
  <2> QED  BY <1>0, <1>1, <2>1, <2>2
<1> QED  BY <1>2, <1>3, <1>4, <1>5, <1>6

-----------------------------------------------------------------------------
(* The refinement.                                                         *)

LEMMA CalledView ==
  ASSUME ReaderIInv
  PROVE  /\ Viewable(Called) /\ Good(Called) /\ Called.chunking \in Chunking
         /\ View(Called) = Seen!Quiet /\ View(Called).current = PlayerView.current
<1>1. Good(Called) /\ Called \in ReaderType
  BY CalledLemma DEF Good, Core
<1>2. Viewable(Called) /\ Called.chunking \in Chunking
  BY <1>1, TypeViewable DEF ReaderType
<1>3. Viewable(reader)
  BY TypeViewable DEF ReaderIInv, Good, Core
<1> DEFINE s == Called
<1>4. /\ s.current = reader.current /\ s.queue = reader.queue /\ s.last = reader.last
      /\ s.next_id = reader.next_id /\ s.fx = <<>> /\ s.paused = reader.paused
      /\ s.step_wait = reader.step_wait
  BY <1>3 DEF Called, Viewable, Names
<1> HIDE DEF s
<1>5. CurrentView(s) = CurrentView(reader) /\ ChunkView(s) = ChunkView(reader)
      /\ LastView(s) = LastView(reader)
  BY <1>4 DEF CurrentView, ChunkView, LastView
<1>6. [View(reader) EXCEPT !.ended = <<>>] \in
        Only(CurrentView(reader), ChunkView(reader), QueueView(reader.queue), LastView(reader),
             PauseView(reader.step_wait, reader.paused), reader.next_id, <<>>)
  BY ViewOnly DEF Only
<1>7. EndedBy(s.fx) = <<>>
  BY <1>4, NoneEnded
<1>8. [View(reader) EXCEPT !.ended = <<>>] = View(s)
  BY <1>4, <1>5, <1>6, <1>7, ViewOnly
<1>9. View(s).current = View(reader).current
  BY <1>5, ViewFields DEF CurrentView
<1> QED  BY <1>1, <1>2, <1>8, <1>9 DEF s, Seen!Quiet, PlayerView

LEMMA InitView == Init => Seen!PlayerInit
<1> SUFFICES ASSUME Init
             PROVE  Seen!PlayerInit
  OBVIOUS
<1>1. /\ reader.current = None /\ reader.queue = <<>> /\ reader.last = None /\ reader.next_id = 1
      /\ reader.fx = <<>> /\ reader.paused = FALSE /\ reader.step_wait = FALSE
  BY DEF Init, new
<1>2. QueueView(<<>>) = <<>>
  <2>1. <<>> \in Seq(Item)
    OBVIOUS
  <2> QED  BY <2>1, QueueViewed
<1>3. PauseView(FALSE, FALSE) = "No"
  BY DEF PauseView
<1> QED  BY <1>1, <1>2, <1>3, NoneEnded DEF Seen!PlayerInit, PlayerView, View

LEMMA StepView == ReaderIInv /\ [Next]_reader => [Seen!PlayerNext]_PlayerView
<1> SUFFICES ASSUME ReaderIInv, [Next]_reader
             PROVE  [Seen!PlayerNext]_PlayerView
  OBVIOUS
<1> DEFINE r == Called
<1>0. /\ Viewable(r) /\ r.chunking \in Chunking /\ View(r) = Seen!Quiet
      /\ View(r).current = PlayerView.current
      /\ InRange(r) /\ LoadedOK(r) /\ IdleOK(r) /\ StepWaitOK(r)
  BY CalledView DEF Good, Core, Flags
<1> HIDE DEF r
<1>1. PlayerView' = View(reader')
  BY DEF PlayerView
<1>2. ASSUME View(reader') = View(r) \/ View(reader') = Seen!end_wait(View(r))
      PROVE  Seen!PlayerNext
  BY <1>0, <1>1, <1>2 DEF Seen!PlayerNext, Seen!Other, Seen!Returns
<1>3. ASSUME NEW text \in Texts, NEW replace \in BOOLEAN, NEW interrupt \in BOOLEAN,
             Speak(text, replace, interrupt)
      PROVE  Seen!PlayerNext
  <2> DEFINE n == Len(text[r.chunking])
  <2>1. reader' = speak(r, text, replace, interrupt)
    BY <1>3 DEF Speak, Returns, r
  <2>2. View(reader') = Seen!speak(View(r), n, replace, interrupt)
    BY <1>0, <2>1, SpeakView
  <2>3. n \in {Len(txt[c]) : txt \in Texts, c \in Chunking}
    BY <1>0
  <2> HIDE DEF n
  <2> QED  BY <1>0, <1>1, <2>2, <2>3 DEF Seen!PlayerNext, Seen!Returns
<1>4. ASSUME NEW c \in Control, DoControl(c)
      PROVE  Seen!PlayerNext
  <2>1. reader' = control(r, c)
    BY <1>4 DEF DoControl, Returns, r
  <2>2. CASE c \in Seen!Control /\ View(reader') = Seen!control(View(r), c)
    BY <1>0, <1>1, <2>2 DEF Seen!PlayerNext, Seen!Returns
  <2>3. CASE View(reader') = View(r)
    BY <1>2, <2>3
  <2>4. CASE /\ View(r).current # None
             /\ \/ \E to \in 1..View(r).current.chunks :
                     View(reader') = Seen!move_to(Seen!resume(View(r)), to)
                \/ View(reader') = Seen!skip(Seen!resume(View(r)))
    BY <1>0, <1>1, <2>4 DEF Seen!PlayerNext, Seen!LineStep, Seen!Returns
  <2> QED  BY <1>0, <2>1, <2>2, <2>3, <2>4, ControlView
<1>5. ASSUME NEW e \in AudioEvent, NEW gen \in 1..MaxGen, OnAudio(e, gen)
      PROVE  Seen!PlayerNext
  <2>1. reader' = on_audio(r, e, gen) /\ gen \in Nat
    BY <1>5, ReaderConstants DEF OnAudio, Returns, r
  <2>2. CASE View(reader') = View(r)
    BY <1>2, <2>2
  <2>3. CASE /\ View(r).current # None
             /\ \E wait \in BOOLEAN : View(reader') = Seen!advance(View(r), wait)
    BY <1>0, <1>1, <2>3 DEF Seen!PlayerNext, Seen!Advance, Seen!Returns
  <2> QED  BY <1>0, <2>1, <2>2, <2>3, OnAudioView
<1>6. CASE Settings
  <2>1. ASSUME NEW on \in BOOLEAN, SetCodeStep(on)
        PROVE  Seen!PlayerNext
    <3>1. reader' = set_code_step(r, on)
      BY <2>1 DEF SetCodeStep, Returns, r
    <3> QED  BY <1>0, <1>2, <3>1, CodeStepView
  <2>2. ASSUME ~(\E on \in BOOLEAN : SetCodeStep(on))
        PROVE  Seen!PlayerNext
    <3>1. \E x : \/ reader' = set_volume(r, x) \/ reader' = set_rate(r, x)
                 \/ reader' = set_voice(r, x) \/ reader' = set_lookahead(r, x)
                 \/ reader' = set_chunking(r, x)
      BY <1>6, <2>2 DEF Settings, SetVolume, SetRate, SetVoice, SetLookahead, SetChunking, Returns, r
    <3> QED  BY <1>0, <1>2, <3>1, SettingsSame
  <2> QED  BY <2>1, <2>2
<1>7. CASE UNCHANGED reader
  BY <1>7 DEF PlayerView
<1> QED
  BY <1>3, <1>4, <1>5, <1>6, <1>7 DEF Next

(* The reader, as its clients see it, is Player: whatever is called and    *)
(* whatever the output reports, for any texts and bounds, every step of    *)
(* the state machine of reader/mod.rs is one that Player allows.           *)
THEOREM ReaderImplementsPlayer == Spec => ImplementsPlayer
<1>1. ReaderIInv /\ [Next]_reader => ReaderIInv'
  BY NextLemma
<1> QED
  BY InitLemma, InitView, StepView, <1>1, PTL DEF Spec, ImplementsPlayer, Seen!PlayerSpec
=============================================================================
