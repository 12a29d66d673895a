---------------------------- MODULE WorkerProofs ----------------------------
(***************************************************************************)
(* Proofs about ReaderWorker, for every value of its constants: no play is *)
(* lost, and the audio keeps in step with the reader.                      *)
(*                                                                         *)
(* First, what a call of the reader leaves to be carried out: Plan and     *)
(* Does say it of the effects of a call, in the order they come in.  Then  *)
(* the invariant of the threads: Flow relates the reader, the effects      *)
(* still to be carried out, the worker's, the synthesizer's and the        *)
(* output's records and the two queues of answers.  A call of the reader   *)
(* establishes it (CallFlow), each effect carried out takes it from the    *)
(* reader to the reader without that effect (ApplyFlow), and the other     *)
(* threads' steps keep it.  WorkerIInv is Flow while the worker runs;      *)
(* once the synthesizer is closed only the audio kept still matters.       *)
(***************************************************************************)
EXTENDS ReaderWorker, ReaderProofs, WellFoundedInduction

-----------------------------------------------------------------------------
(* What the effects of a call say.                                         *)
EndsItem(e, i) == e.op = "Item" /\ e.phase # "Started" /\ e.item = i
Makes(e, p)  == e.op = "Synthesize" /\ <<e.item, e.chunk>> = p

Ended(fx, i)      == \E k \in 1..Len(fx) : EndsItem(fx[k], i)
MadeBy(fx, p)    == \E k \in 1..Len(fx) : Makes(fx[k], p)
Has(fx, op)       == \E k \in 1..Len(fx) : fx[k].op = op

Place(r) == <<r.current.item.id, r.current.chunk>>

(* No item with this id is alive.                                          *)
Gone(r, i) == /\ r.current # None => r.current.item.id # i
              /\ \A k \in 1..Len(r.queue) : r.queue[k].id # i

(* The requests are those that were there, but for the items that ended,   *)
(* and the new ones, each asked for once.  D: those that were there; X:    *)
(* ids of items that ended before; n: a bound of the ids that are gone.    *)
Requested(s, D, X, n) ==
  /\ \A p \in ChunkRef : p \in s.requested <=> (p \in D /\ ~Ended(s.fx, p[1])) \/ MadeBy(s.fx, p)
  /\ \A p \in ChunkRef : MadeBy(s.fx, p) => p \notin D
  /\ \A p \in ChunkRef : \A j, k \in 1..Len(s.fx) : Makes(s.fx[j], p) /\ Makes(s.fx[k], p) => j = k
  /\ \A i \in ItemId : i \in X \/ Ended(s.fx, i) => Gone(s, i) /\ i < n

(* What is played is the current chunk, newly numbered, after what stops   *)
(* the output and after it was asked for.                                  *)
Played(s, D, G) ==
  \A k \in 1..Len(s.fx) : s.fx[k].op = "PlayChunk" =>
    /\ s.current # None /\ ~s.paused
    /\ s.loaded = s.gen /\ s.fx[k].gen = s.gen /\ s.gen > G
    /\ <<s.fx[k].item, s.fx[k].chunk>> = Place(s)
    /\ Place(s) \in D \/ \E j \in 1..Len(s.fx) : j < k /\ Makes(s.fx[j], Place(s))
    /\ \A j \in 1..Len(s.fx) : /\ s.fx[j].op = "PlayChunk" => j = k
                               /\ s.fx[j].op = "StopOutput" => j < k

(* What is loaded is played anew or is what was loaded before (L at P),    *)
(* and then nothing stops it; the pause is what it was (U) or one of its   *)
(* effects; what was loaded and no longer is, is stopped.                  *)
Held(s, L, P, U) ==
  /\ Has(s.fx, "PlayChunk") \/ s.loaded = None
       \/ (s.loaded = L /\ Place(s) = P /\ ~Has(s.fx, "StopOutput"))
  /\ s.loaded # None /\ ~Has(s.fx, "PlayChunk") /\ ~Has(s.fx, "PauseOutput")
       /\ ~Has(s.fx, "ResumeOutput") => s.paused = U
  /\ Has(s.fx, "PauseOutput") => s.paused /\ s.loaded # None /\ ~Has(s.fx, "PlayChunk")
  /\ Has(s.fx, "ResumeOutput") => ~s.paused /\ s.loaded # None /\ ~Has(s.fx, "PlayChunk")
  /\ L = None \/ s.loaded = L \/ Has(s.fx, "StopOutput")

Plan(s, D, X, n, L, P, U, G) ==
  Requested(s, D, X, n) /\ Played(s, D, G) /\ Held(s, L, P, U) /\ s.gen >= G

(* Before anything is asked for or played.                                 *)
Before(s, D, X, n, L, G) ==
  /\ \A k \in 1..Len(s.fx) : s.fx[k].op \in {"StopOutput", "Item"}
  /\ \A p \in ChunkRef : p \in s.requested <=> p \in D /\ ~Ended(s.fx, p[1])
  /\ \A i \in ItemId : i \in X \/ Ended(s.fx, i) => Gone(s, i) /\ i < n
  /\ s.loaded = None \/ (s.loaded = L /\ ~Has(s.fx, "StopOutput"))
  /\ s.loaded = L \/ Has(s.fx, "StopOutput")
  /\ s.gen = G

(* A record that is fit for a call.                                        *)
Fit(r) == /\ Viewable(r) /\ r.gen \in Nat /\ r.requested \subseteq ChunkRef
          /\ r.loaded \in (Nat \ {0}) \cup {None}

LEMMA TypeFit ==
  ASSUME NEW r \in ReaderType
  PROVE  Fit(r)
BY TypeViewable, Fields DEF Fit, Requests

-----------------------------------------------------------------------------
(* One effect more.                                                        *)
More(fx, e, f) ==
  /\ IsSeq(f) /\ Len(fx) \in Nat /\ Len(f) = Len(fx) + 1
  /\ f[Len(f)] = e /\ \A k \in 1..Len(fx) : f[k] = fx[k]
  /\ \A i : Ended(f, i) <=> Ended(fx, i) \/ EndsItem(e, i)
  /\ \A p : MadeBy(f, p) <=> MadeBy(fx, p) \/ Makes(e, p)
  /\ \A op : Has(f, op) <=> Has(fx, op) \/ e.op = op

LEMMA OneMore ==
  ASSUME NEW fx, IsSeq(fx), NEW e, NEW f, f = Append(fx, e)
  PROVE  More(fx, e, f)
<1>1. /\ IsSeq(f) /\ Len(fx) \in Nat /\ Len(f) = Len(fx) + 1
      /\ f[Len(f)] = e /\ \A k \in 1..Len(fx) : f[k] = fx[k]
  BY SeqAppend, SeqLen
<1>2. \A k : k \in 1..Len(f) <=> k \in 1..Len(fx) \/ k = Len(f)
  BY <1>1
<1>3. \A i : Ended(f, i) <=> Ended(fx, i) \/ EndsItem(e, i)
  BY <1>1, <1>2, Zenon DEF Ended
<1>4. \A p : MadeBy(f, p) <=> MadeBy(fx, p) \/ Makes(e, p)
  BY <1>1, <1>2, Zenon DEF MadeBy
<1>5. \A op : Has(f, op) <=> Has(fx, op) \/ e.op = op
  BY <1>1, <1>2, Zenon DEF Has
<1> QED  BY <1>1, <1>3, <1>4, <1>5 DEF More

(* What Plan reads of a record, but for the effects and the requests.      *)
Alike(r, s) ==
  /\ s.current = r.current /\ s.queue = r.queue /\ s.gen = r.gen
  /\ s.loaded = r.loaded /\ s.paused = r.paused

Neutral == {"State", "SetVolume", "Mute", "Unmute"}

LEMMA LatePlan ==
  ASSUME NEW r, NEW s, NEW e, IsSeq(r.fx), Alike(r, s), s.fx = Append(r.fx, e),
         e.op \in Neutral \cup {"Synthesize"},
         NEW D, NEW L, NEW P, NEW U, NEW G, Played(r, D, G), Held(r, L, P, U)
  PROVE  Played(s, D, G) /\ Held(s, L, P, U)
<1>1. /\ Len(r.fx) \in Nat /\ Len(s.fx) = Len(r.fx) + 1
      /\ s.fx[Len(s.fx)] = e /\ \A k \in 1..Len(r.fx) : s.fx[k] = r.fx[k]
      /\ \A op : Has(s.fx, op) <=> Has(r.fx, op) \/ e.op = op
  <2>1. More(r.fx, e, s.fx)
    BY OneMore
  <2> QED  BY <2>1 DEF More
<1>2. /\ e.op # "PlayChunk" /\ e.op # "StopOutput" /\ e.op # "PauseOutput" /\ e.op # "ResumeOutput"
  BY DEF Neutral
<1>3. Held(s, L, P, U)
  BY <1>1, <1>2 DEF Held, Alike, Place
<1>4. Place(s) = Place(r)
  BY DEF Place, Alike
<1>5. ASSUME NEW k \in 1..Len(s.fx), s.fx[k].op = "PlayChunk"
      PROVE  /\ k \in 1..Len(r.fx) /\ s.fx[k] = r.fx[k]
             /\ \A j \in 1..Len(s.fx) : j \in 1..Len(r.fx) \/ s.fx[j].op \notin {"PlayChunk", "StopOutput"}
             /\ \A j \in 1..Len(r.fx) : j \in 1..Len(s.fx) /\ s.fx[j] = r.fx[j]
  BY <1>1, <1>2, <1>5
<1>6. Played(s, D, G)
  <2> SUFFICES ASSUME NEW k \in 1..Len(s.fx), s.fx[k].op = "PlayChunk"
               PROVE  /\ s.current # None /\ ~s.paused
                      /\ s.loaded = s.gen /\ s.fx[k].gen = s.gen /\ s.gen > G
                      /\ <<s.fx[k].item, s.fx[k].chunk>> = Place(s)
                      /\ Place(s) \in D \/ \E j \in 1..Len(s.fx) : j < k /\ Makes(s.fx[j], Place(s))
                      /\ \A j \in 1..Len(s.fx) : /\ s.fx[j].op = "PlayChunk" => j = k
                                                 /\ s.fx[j].op = "StopOutput" => j < k
    BY Zenon DEF Played
  <2>1. /\ k \in 1..Len(r.fx) /\ s.fx[k] = r.fx[k]
        /\ \A j \in 1..Len(s.fx) : j \in 1..Len(r.fx) \/ s.fx[j].op \notin {"PlayChunk", "StopOutput"}
        /\ \A j \in 1..Len(r.fx) : j \in 1..Len(s.fx) /\ s.fx[j] = r.fx[j]
    BY <1>5
  <2>2. /\ r.current # None /\ ~r.paused
        /\ r.loaded = r.gen /\ r.fx[k].gen = r.gen /\ r.gen > G
        /\ <<r.fx[k].item, r.fx[k].chunk>> = Place(r)
        /\ Place(r) \in D \/ \E j \in 1..Len(r.fx) : j < k /\ Makes(r.fx[j], Place(r))
        /\ \A j \in 1..Len(r.fx) : /\ r.fx[j].op = "PlayChunk" => j = k
                                   /\ r.fx[j].op = "StopOutput" => j < k
    BY <2>1, Zenon DEF Played
  <2>3. Place(s) \in D \/ \E j \in 1..Len(s.fx) : j < k /\ Makes(s.fx[j], Place(s))
    BY <1>4, <2>1, <2>2, Zenon
  <2>4. \A j \in 1..Len(s.fx) : /\ s.fx[j].op = "PlayChunk" => j = k
                                /\ s.fx[j].op = "StopOutput" => j < k
    BY <2>1, <2>2
  <2> QED  BY <1>4, <2>1, <2>2, <2>3, <2>4, Zenon DEF Alike
<1> QED  BY <1>3, <1>6

LEMMA NeutralPlan ==
  ASSUME NEW r, NEW s, NEW e, IsSeq(r.fx), Alike(r, s), s.fx = Append(r.fx, e),
         s.requested = r.requested, e.op \in Neutral,
         NEW D, NEW X, NEW n, NEW L, NEW P, NEW U, NEW G, Plan(r, D, X, n, L, P, U, G)
  PROVE  Plan(s, D, X, n, L, P, U, G)
<1>1. /\ Len(r.fx) \in Nat /\ Len(s.fx) = Len(r.fx) + 1
      /\ s.fx[Len(s.fx)] = e /\ \A k \in 1..Len(r.fx) : s.fx[k] = r.fx[k]
      /\ \A i : Ended(s.fx, i) <=> Ended(r.fx, i) \/ EndsItem(e, i)
      /\ \A p : MadeBy(s.fx, p) <=> MadeBy(r.fx, p) \/ Makes(e, p)
  <2>1. More(r.fx, e, s.fx)
    BY OneMore
  <2> QED  BY <2>1 DEF More
<1>2. (\A i : ~EndsItem(e, i)) /\ (\A p : ~Makes(e, p))
  BY DEF Neutral, EndsItem, Makes
<1>3. \A i : Gone(s, i) <=> Gone(r, i)
  BY DEF Gone, Alike
<1>4. Played(s, D, G) /\ Held(s, L, P, U)
  BY LatePlan DEF Plan
<1>5. \A p \in ChunkRef : \A j, k \in 1..Len(s.fx) : Makes(s.fx[j], p) /\ Makes(s.fx[k], p) => j = k
  <2>1. \A p \in ChunkRef : \A j, k \in 1..Len(r.fx) : Makes(r.fx[j], p) /\ Makes(r.fx[k], p) => j = k
    BY DEF Plan, Requested
  <2>2. \A p : \A j \in 1..Len(s.fx) : Makes(s.fx[j], p) => j \in 1..Len(r.fx) /\ Makes(r.fx[j], p)
    BY <1>1, <1>2
  <2> QED  BY <2>1, <2>2
<1>6. Requested(s, D, X, n)
  BY <1>1, <1>2, <1>3, <1>5 DEF Plan, Requested
<1> QED  BY <1>4, <1>6 DEF Plan, Alike

LEMMA SynthesizePlan ==
  ASSUME NEW r, NEW s, NEW p \in ChunkRef, NEW e, IsSeq(r.fx), Alike(r, s), s.fx = Append(r.fx, e),
         e.op = "Synthesize", <<e.item, e.chunk>> = p,
         p \notin r.requested, s.requested = r.requested \cup {p}, ~Gone(r, p[1]),
         NEW D, NEW X, NEW n, NEW L, NEW P, NEW U, NEW G, Plan(r, D, X, n, L, P, U, G)
  PROVE  Plan(s, D, X, n, L, P, U, G)
<1>1. /\ Len(r.fx) \in Nat /\ Len(s.fx) = Len(r.fx) + 1
      /\ s.fx[Len(s.fx)] = e /\ \A k \in 1..Len(r.fx) : s.fx[k] = r.fx[k]
      /\ \A i : Ended(s.fx, i) <=> Ended(r.fx, i) \/ EndsItem(e, i)
      /\ \A q : MadeBy(s.fx, q) <=> MadeBy(r.fx, q) \/ Makes(e, q)
  <2>1. More(r.fx, e, s.fx)
    BY OneMore
  <2> QED  BY <2>1 DEF More
<1>2. (\A i : ~EndsItem(e, i)) /\ (\A q : Makes(e, q) <=> q = p)
  BY DEF EndsItem, Makes
<1>3. \A i : Gone(s, i) <=> Gone(r, i)
  BY DEF Gone, Alike
<1>4. Played(s, D, G) /\ Held(s, L, P, U)
  BY LatePlan DEF Plan
<1>5. p[1] \in ItemId
  BY DEF ChunkRef
<1>6. p \notin D /\ ~MadeBy(r.fx, p)
  BY <1>5, Zenon DEF Plan, Requested
<1>7. \A q \in ChunkRef : \A j, k \in 1..Len(s.fx) : Makes(s.fx[j], q) /\ Makes(s.fx[k], q) => j = k
  <2>1. \A q \in ChunkRef : \A j, k \in 1..Len(r.fx) : Makes(r.fx[j], q) /\ Makes(r.fx[k], q) => j = k
    BY DEF Plan, Requested
  <2>2. \A q : \A j \in 1..Len(s.fx) : Makes(s.fx[j], q) =>
                 (j \in 1..Len(r.fx) /\ Makes(r.fx[j], q)) \/ (j = Len(s.fx) /\ q = p)
    BY <1>1, <1>2
  <2>3. \A j \in 1..Len(r.fx) : ~Makes(r.fx[j], p)
    BY <1>6, Zenon DEF MadeBy
  <2>4. SUFFICES ASSUME NEW q \in ChunkRef, NEW j \in 1..Len(s.fx), NEW k \in 1..Len(s.fx),
                        Makes(s.fx[j], q), Makes(s.fx[k], q)
                 PROVE  j = k
    OBVIOUS
  <2>5. CASE q = p
    BY <2>2, <2>3, <2>4, <2>5, Zenon
  <2>6. CASE q # p
    BY <2>1, <2>2, <2>4, <2>6, Zenon
  <2> QED  BY <2>5, <2>6
<1>8. Requested(s, D, X, n)
  <2>1. \A q \in ChunkRef : q \in s.requested <=> (q \in D /\ ~Ended(s.fx, q[1])) \/ MadeBy(s.fx, q)
    BY <1>1, <1>2 DEF Plan, Requested
  <2>2. \A q \in ChunkRef : MadeBy(s.fx, q) => q \notin D
    BY <1>1, <1>2, <1>6 DEF Plan, Requested
  <2>3. \A i \in ItemId : i \in X \/ Ended(s.fx, i) => Gone(s, i) /\ i < n
    BY <1>1, <1>2, <1>3 DEF Plan, Requested
  <2> QED  BY <1>7, <2>1, <2>2, <2>3 DEF Requested
<1> QED  BY <1>4, <1>8 DEF Plan, Alike

(* s is r with a chunk requested.                                          *)
Sought(r, s, item, chunk) ==
  /\ Fit(s) /\ Alike(r, s) /\ s.lookahead = r.lookahead /\ s.shown = r.shown
  /\ s.next_id = r.next_id /\ DOMAIN s = DOMAIN r
  /\ <<item, chunk>> \in s.requested
  /\ \A k \in 1..Len(r.fx) : k \in 1..Len(s.fx) /\ s.fx[k] = r.fx[k]
  /\ <<item, chunk>> \in r.requested \/ MadeBy(s.fx, <<item, chunk>>)

LEMMA RequestPlan ==
  ASSUME NEW r, Fit(r), NEW item \in ItemId, NEW chunk \in Nat \ {0}, ~Gone(r, item),
         NEW D, NEW X, NEW n, NEW L, NEW P, NEW U, NEW G, Plan(r, D, X, n, L, P, U, G)
  PROVE  /\ Sought(r, request(r, item, chunk), item, chunk)
         /\ Plan(request(r, item, chunk), D, X, n, L, P, U, G)
<1> DEFINE p == <<item, chunk>>
           e == [op |-> "Synthesize", item |-> item, chunk |-> chunk]
           t == [r EXCEPT !.requested = @ \cup {p}]
           s == emit(t, e)
<1>1. CASE p \in r.requested
  <2>1. request(r, item, chunk) = r
    BY <1>1 DEF request
  <2> QED  BY <1>1, <2>1 DEF Alike, Sought
<1>2. CASE p \notin r.requested
  <2>1. request(r, item, chunk) = s
    BY <1>2 DEF request
  <2>2. /\ Alike(r, s) /\ s.fx = Append(r.fx, e) /\ s.requested = r.requested \cup {p}
        /\ s.lookahead = r.lookahead /\ s.next_id = r.next_id /\ DOMAIN s = DOMAIN r
        /\ s.last = r.last /\ s.step_wait = r.step_wait /\ s.shown = r.shown
    BY DEF emit, Alike, Fit, Viewable, Names
  <2>3. e.op = "Synthesize" /\ <<e.item, e.chunk>> = p /\ p \in ChunkRef /\ p[1] = item
    BY DEF ChunkRef
  <2> HIDE DEF s, e, p
  <2>4. IsSeq(r.fx) /\ IsSeq(s.fx)
    BY <2>2, SeqAppend DEF Fit, Viewable
  <2>5. Fit(s)
    BY <2>2, <2>3, <2>4 DEF Fit, Viewable, Alike
  <2>6. Plan(s, D, X, n, L, P, U, G)
    BY <1>2, <2>2, <2>3, <2>4, SynthesizePlan
  <2>9. p \in s.requested
    BY <2>2
  <2>7. /\ \A k \in 1..Len(r.fx) : k \in 1..Len(s.fx) /\ s.fx[k] = r.fx[k]
        /\ MadeBy(s.fx, p)
    <3>1. /\ Len(r.fx) \in Nat /\ Len(s.fx) = Len(r.fx) + 1
          /\ \A k \in 1..Len(r.fx) : s.fx[k] = r.fx[k]
          /\ \A q : MadeBy(s.fx, q) <=> MadeBy(r.fx, q) \/ Makes(e, q)
      <4>1. More(r.fx, e, s.fx)
        BY <2>2, <2>4, OneMore
      <4> QED  BY <4>1 DEF More
    <3>2. Makes(e, p)
      BY <2>3 DEF Makes
    <3> QED  BY <3>1, <3>2
  <2>8. <<item, chunk>> = p
    BY DEF p
  <2> QED  BY <2>1, <2>2, <2>5, <2>6, <2>7, <2>8, <2>9 DEF Sought
<1> QED  BY <1>1, <1>2

(* Only live items are asked for ahead of time.                            *)
Later(r, s) ==
  /\ Fit(s) /\ Alike(r, s) /\ s.next_id = r.next_id /\ DOMAIN s = DOMAIN r

LEMMA AheadPlan ==
  ASSUME NEW r, Fit(r), r.current # None, NEW m, NEW q \in Nat \X (Nat \ {0}),
         NEW D, NEW X, NEW n, NEW L, NEW P, NEW U, NEW G, Plan(r, D, X, n, L, P, U, G)
  PROVE  LET s == request_ahead(r, m, q)
         IN Later(r, s) /\ Plan(s, D, X, n, L, P, U, G)
<1>1. CASE m <= r.lookahead /\ q[1] <= Len(r.queue)
  <2> DEFINE item == ItemAt(r, q[1]).id
  <2>1. request_ahead(r, m, q) = request(r, item, q[2])
    BY <1>1 DEF request_ahead
  <2>2. r.queue \in Seq(Item) /\ r.current \in Current /\ q[1] \in Nat /\ q[2] \in Nat \ {0}
    BY DEF Fit, Viewable
  <2>3. item \in ItemId /\ ~Gone(r, item)
    <3>1. CASE q[1] = 0
      BY <2>2, <3>1, CurrentFields DEF ItemAt, Gone
    <3>2. CASE q[1] # 0
      <4>1. q[1] \in 1..Len(r.queue) /\ item = r.queue[q[1]].id /\ r.queue[q[1]] \in Item
        BY <1>1, <2>2, <3>2 DEF ItemAt
      <4> QED  BY <4>1 DEF Gone, Item
    <3> QED  BY <3>1, <3>2
  <2> HIDE DEF item
  <2>4. /\ Sought(r, request(r, item, q[2]), item, q[2])
        /\ Plan(request(r, item, q[2]), D, X, n, L, P, U, G)
    BY <2>2, <2>3, RequestPlan
  <2> QED  BY <2>1, <2>4 DEF Later, Sought
<1>2. CASE ~(m <= r.lookahead /\ q[1] <= Len(r.queue))
  <2>1. request_ahead(r, m, q) = r
    BY <1>2 DEF request_ahead
  <2> QED  BY <2>1 DEF Later, Alike
<1> QED  BY <1>1, <1>2

LEMMA AfterPlace ==
  ASSUME NEW r, NEW q \in Nat \X (Nat \ {0})
  PROVE  After(r, q) \in Nat \X (Nat \ {0})
BY DEF After

LEMMA PrefetchPlan ==
  ASSUME NEW r, Fit(r),
         NEW D, NEW X, NEW n, NEW L, NEW P, NEW U, NEW G, Plan(r, D, X, n, L, P, U, G)
  PROVE  Later(r, prefetch(r)) /\ Plan(prefetch(r), D, X, n, L, P, U, G)
<1>1. CASE r.loaded = None \/ r.current = None
  <2>1. prefetch(r) = r
    BY <1>1 DEF prefetch
  <2> QED  BY <2>1 DEF Later, Alike
<1>2. CASE r.loaded # None /\ r.current # None
  <2> DEFINE p1 == After(r, <<0, r.current.chunk>>)
             p2 == After(r, p1)
             p3 == After(r, p2)
             p4 == After(r, p3)
             s1 == request_ahead(r, 1, p1)
             s2 == request_ahead(s1, 2, p2)
             s3 == request_ahead(s2, 3, p3)
             s4 == request_ahead(s3, 4, p4)
  <2>1. prefetch(r) = s4
    BY <1>2 DEF prefetch
  <2>2. <<0, r.current.chunk>> \in Nat \X (Nat \ {0})
    BY <1>2, CurrentFields DEF Fit, Viewable
  <2>3. p1 \in Nat \X (Nat \ {0})
    BY <2>2, AfterPlace
  <2> HIDE DEF p1
  <2>4. p2 \in Nat \X (Nat \ {0})
    BY <2>3, AfterPlace
  <2> HIDE DEF p2
  <2>5. p3 \in Nat \X (Nat \ {0})
    BY <2>4, AfterPlace
  <2> HIDE DEF p3
  <2>6. p4 \in Nat \X (Nat \ {0})
    BY <2>5, AfterPlace
  <2> HIDE DEF p4
  <2>7. Later(r, s1) /\ Plan(s1, D, X, n, L, P, U, G)
    BY <1>2, <2>3, AheadPlan
  <2> HIDE DEF s1
  <2>8. Later(s1, s2) /\ Plan(s2, D, X, n, L, P, U, G)
    BY <1>2, <2>4, <2>7, AheadPlan DEF Later, Alike
  <2> HIDE DEF s2
  <2>9. Later(s2, s3) /\ Plan(s3, D, X, n, L, P, U, G)
    BY <1>2, <2>5, <2>7, <2>8, AheadPlan DEF Later, Alike
  <2> HIDE DEF s3
  <2>10. Later(s3, s4) /\ Plan(s4, D, X, n, L, P, U, G)
    BY <1>2, <2>6, <2>7, <2>8, <2>9, AheadPlan DEF Later, Alike
  <2> HIDE DEF s4
  <2> QED  BY <2>1, <2>7, <2>8, <2>9, <2>10 DEF Later, Alike
<1> QED  BY <1>1, <1>2

LEMMA FinishPlan ==
  ASSUME NEW r, Fit(r),
         NEW D, NEW X, NEW n, NEW L, NEW P, NEW U, NEW G, Plan(r, D, X, n, L, P, U, G)
  PROVE  Later(r, finish(r)) /\ Plan(finish(r), D, X, n, L, P, U, G)
<1> DEFINE s == prefetch(r)
           next == snapshot(s)
           e == [op |-> "State", state |-> next]
           t == emit([s EXCEPT !.shown = next], e)
<1>1. Later(r, s) /\ Plan(s, D, X, n, L, P, U, G)
  BY PrefetchPlan
<1>2. finish(r) = s \/ finish(r) = t
  BY DEF finish
<1>3. e.op \in Neutral
  BY DEF Neutral
<1> HIDE DEF s, next, e
<1>4. /\ Alike(s, t) /\ t.fx = Append(s.fx, e) /\ t.requested = s.requested
      /\ t.next_id = s.next_id /\ DOMAIN t = DOMAIN s /\ t.last = s.last /\ t.step_wait = s.step_wait
  BY <1>1 DEF emit, Later, Alike, Fit, Viewable, Names
<1> HIDE DEF t
<1>5. IsSeq(s.fx) /\ IsSeq(t.fx)
  BY <1>1, <1>4, SeqAppend DEF Later, Fit, Viewable
<1>6. Later(s, t)
  BY <1>1, <1>4, <1>5 DEF Later, Alike, Fit, Viewable
<1>7. Plan(t, D, X, n, L, P, U, G)
  BY <1>1, <1>3, <1>4, <1>5, NeutralPlan
<1> QED  BY <1>1, <1>2, <1>6, <1>7 DEF Later, Alike

(* A chunk begins: from Before to Plan.                                    *)
LEMMA BeforePlan ==
  ASSUME NEW r, Fit(r),
         NEW D, NEW X, NEW n, NEW L, NEW P, NEW U, NEW G, Before(r, D, X, n, L, G),
         r.loaded # None => Place(r) = P /\ r.paused = U
  PROVE  Plan(r, D, X, n, L, P, U, G)
<1>1. \A k \in 1..Len(r.fx) : r.fx[k].op \in {"StopOutput", "Item"}
  BY DEF Before
<1>2. /\ ~Has(r.fx, "PlayChunk") /\ ~Has(r.fx, "PauseOutput") /\ ~Has(r.fx, "ResumeOutput")
      /\ \A p : ~MadeBy(r.fx, p)
  BY <1>1 DEF Has, MadeBy, Makes
<1>3. Requested(r, D, X, n)
  <2>1. \A p \in ChunkRef : \A j, k \in 1..Len(r.fx) : Makes(r.fx[j], p) /\ Makes(r.fx[k], p) => j = k
    BY <1>2 DEF MadeBy
  <2> QED  BY <1>2, <2>1 DEF Before, Requested
<1>4. Played(r, D, G)
  BY <1>1 DEF Played
<1>5. Held(r, L, P, U)
  BY <1>2 DEF Held, Before
<1>6. r.gen >= G
  BY DEF Before, Fit
<1> QED  BY <1>3, <1>4, <1>5, <1>6 DEF Plan

LEMMA BeginChunkPlan ==
  ASSUME NEW r, Fit(r), r.loaded = None,
         NEW D, NEW X, NEW n, NEW L, NEW P, NEW U, NEW G, L = None \/ L \in Nat, G \in Nat,
         Before(r, D, X, n, L, G)
  PROVE  /\ Plan(begin_chunk(r), D, X, n, L, P, U, G) /\ Fit(begin_chunk(r))
         /\ begin_chunk(r).next_id = r.next_id
<1>0. Plan(r, D, X, n, L, P, U, G)
  BY BeforePlan
<1>1. CASE r.current = None
  <2>1. begin_chunk(r) = r
    BY <1>1 DEF begin_chunk
  <2> QED  BY <1>0, <2>1
<1>2. CASE r.current # None
  <2> DEFINE id == r.current.item.id
             c == r.current.chunk
             s == request(r, id, c)
             g == s.gen + 1
             e == [op |-> "PlayChunk", item |-> id, chunk |-> c, gen |-> g]
             t == emit([s EXCEPT !.gen = g, !.loaded = g], e)
  <2>1. id \in ItemId /\ c \in Nat \ {0} /\ ~Gone(r, id)
    BY <1>2, CurrentFields DEF Fit, Viewable, Gone
  <2>2. /\ Fit(s) /\ Alike(r, s) /\ s.next_id = r.next_id
        /\ <<id, c>> \in s.requested /\ Plan(s, D, X, n, L, P, U, G)
        /\ \A k \in 1..Len(r.fx) : k \in 1..Len(s.fx) /\ s.fx[k] = r.fx[k]
        /\ <<id, c>> \in r.requested \/ MadeBy(s.fx, <<id, c>>)
    <3>1. Sought(r, s, id, c) /\ Plan(s, D, X, n, L, P, U, G)
      BY <1>0, <2>1, RequestPlan
    <3> HIDE DEF s, id, c
    <3> QED  BY <3>1, Zenon DEF Sought
  <2>3. begin_chunk(r) = (IF s.paused THEN s ELSE t)
    BY <1>2 DEF begin_chunk
  <2> HIDE DEF s
  <2>4. e.op = "PlayChunk" /\ <<e.item, e.chunk>> = <<id, c>> /\ e.gen = g
    OBVIOUS
  <2> HIDE DEF e
  <2>5. /\ t.fx = Append(s.fx, e) /\ t.requested = s.requested /\ t.current = s.current
        /\ t.queue = s.queue /\ t.gen = g /\ t.loaded = g /\ t.paused = s.paused
        /\ t.next_id = s.next_id /\ DOMAIN t = DOMAIN s /\ t.last = s.last /\ t.step_wait = s.step_wait
    BY <2>2 DEF emit, Fit, Viewable, Names
  <2>6. More(s.fx, e, t.fx)
    BY <2>2, <2>5, OneMore DEF Fit, Viewable
  <2>7. g \in Nat \ {0} /\ g = G + 1 /\ g # None
    BY <2>2, ReaderConstants DEF Alike, Before, Fit
  <2> HIDE DEF t, g, id, c
  <2>8. Fit(t)
    BY <2>2, <2>5, <2>6, <2>7 DEF Fit, Viewable, More
  <2>9. ASSUME ~s.paused PROVE Plan(t, D, X, n, L, P, U, G)
    <3>1. (\A i : ~EndsItem(e, i)) /\ (\A p : ~Makes(e, p))
      BY <2>4 DEF EndsItem, Makes
    <3>2. Place(t) = <<id, c>> /\ Place(s) = <<id, c>> /\ t.current # None
      BY <1>2, <2>2, <2>5 DEF Place, Alike, id, c
    <3>3. s.loaded = None
      BY <2>2 DEF Alike
    <3>4. ~Has(s.fx, "PlayChunk") /\ ~Has(s.fx, "PauseOutput") /\ ~Has(s.fx, "ResumeOutput")
      <4>1. ~Has(s.fx, "PauseOutput") /\ ~Has(s.fx, "ResumeOutput")
        BY <2>2, <3>3 DEF Plan, Held
      <4>2. s.loaded = s.gen => FALSE
        BY <2>2, <3>3, ReaderConstants DEF Fit
      <4>3. ~Has(s.fx, "PlayChunk")
        BY <2>2, <4>2 DEF Plan, Played, Has
      <4> QED  BY <4>1, <4>3
    <3>5. Requested(t, D, X, n)
      <4>1. \A i : Gone(t, i) <=> Gone(s, i)
        BY <2>5 DEF Gone
      <4>2. \A p \in ChunkRef : \A j, k \in 1..Len(t.fx) : Makes(t.fx[j], p) /\ Makes(t.fx[k], p) => j = k
        <5>1. \A p \in ChunkRef : \A j, k \in 1..Len(s.fx) : Makes(s.fx[j], p) /\ Makes(s.fx[k], p) => j = k
          BY <2>2 DEF Plan, Requested
        <5>2. \A p : \A j \in 1..Len(t.fx) : Makes(t.fx[j], p) => j \in 1..Len(s.fx) /\ Makes(s.fx[j], p)
          BY <2>6, <3>1 DEF More
        <5> QED  BY <5>1, <5>2
      <4> QED  BY <2>2, <2>5, <2>6, <3>1, <4>1, <4>2 DEF Plan, Requested, More
    <3>6. Played(t, D, G)
      <4>1. <<id, c>> \in D \/ MadeBy(s.fx, <<id, c>>)
        <5>1. <<id, c>> \in r.requested => <<id, c>> \in D
          BY <2>1 DEF Before, ChunkRef
        <5> QED  BY <2>2, <5>1
      <4>2. ASSUME NEW k \in 1..Len(t.fx), t.fx[k].op = "PlayChunk" PROVE k = Len(t.fx) /\ t.fx[k] = e
        BY <2>6, <3>4, <4>2 DEF More, Has
      <4>3. \A j \in 1..Len(s.fx) : j \in 1..Len(t.fx) /\ j < Len(t.fx) /\ t.fx[j] = s.fx[j]
        BY <2>6 DEF More
      <4>4. ASSUME NEW k \in 1..Len(t.fx), t.fx[k].op = "PlayChunk"
            PROVE  /\ Place(t) \in D \/ \E j \in 1..Len(t.fx) : j < k /\ Makes(t.fx[j], Place(t))
                   /\ \A j \in 1..Len(t.fx) : /\ t.fx[j].op = "PlayChunk" => j = k
                                              /\ t.fx[j].op = "StopOutput" => j < k
        <5>1. k = Len(t.fx) /\ t.fx[k] = e
          BY <4>2, <4>4
        <5>2. Place(t) \in D \/ \E j \in 1..Len(t.fx) : j < k /\ Makes(t.fx[j], Place(t))
          BY <3>2, <4>1, <4>3, <5>1, Zenon DEF MadeBy
        <5>3. \A j \in 1..Len(t.fx) : j = k \/ j < k
          BY <2>6, <5>1 DEF More
        <5>4. \A j \in 1..Len(t.fx) : t.fx[j].op = "StopOutput" => j < k
          BY <4>4, <5>3
        <5> QED  BY <4>2, <5>1, <5>2, <5>4
      <4>5. g > G
        BY <2>7
      <4> QED  BY <2>4, <2>5, <2>9, <3>2, <4>2, <4>4, <4>5, Zenon DEF Played
    <3>7. Held(t, L, P, U)
      <4>1. Has(t.fx, "PlayChunk") /\ ~Has(t.fx, "PauseOutput") /\ ~Has(t.fx, "ResumeOutput")
        BY <2>4, <2>6, <3>4 DEF More
      <4>2. L = None \/ Has(t.fx, "StopOutput")
        BY <2>2, <2>6, <3>3 DEF More, Plan, Held
      <4> QED  BY <4>1, <4>2 DEF Held
    <3>8. t.gen >= G
      BY <2>5, <2>7
    <3> QED  BY <3>5, <3>6, <3>7, <3>8 DEF Plan
  <2> QED  BY <2>2, <2>3, <2>5, <2>8, <2>9
<1> QED  BY <1>1, <1>2

-----------------------------------------------------------------------------
(* What ends before a chunk begins.                                        *)
Ordered(r, n) ==
  /\ Below(r, n)
  /\ \A k \in 1..Len(r.queue) :
       /\ r.current # None => r.queue[k].id # r.current.item.id
       /\ \A j \in 1..Len(r.queue) : j # k => r.queue[j].id # r.queue[k].id

LEMMA BeforeSame ==
  ASSUME NEW r, NEW s, s.fx = r.fx, s.requested = r.requested, s.loaded = r.loaded, s.gen = r.gen,
         NEW D, NEW X, NEW n, NEW L, NEW G, Before(r, D, X, n, L, G),
         \A i \in ItemId : Gone(r, i) /\ i < n => Gone(s, i)
  PROVE  Before(s, D, X, n, L, G)
BY DEF Before

LEMMA EndWaitBefore ==
  ASSUME NEW r, Fit(r), NEW D, NEW X, NEW n, NEW L, NEW G, Before(r, D, X, n, L, G)
  PROVE  LET s == end_wait(r)
         IN /\ Fit(s) /\ Before(s, D, X, n, L, G) /\ s.queue = r.queue /\ s.current = r.current
            /\ s.loaded = r.loaded /\ s.next_id = r.next_id /\ s.fx = r.fx /\ s.gen = r.gen
<1> DEFINE s == end_wait(r)
<1>1. /\ DOMAIN s = DOMAIN r /\ s.current = r.current /\ s.queue = r.queue /\ s.last = r.last
      /\ s.paused \in BOOLEAN /\ s.step_wait \in BOOLEAN /\ s.next_id = r.next_id /\ s.fx = r.fx
      /\ s.gen = r.gen /\ s.requested = r.requested /\ s.loaded = r.loaded
  BY DEF end_wait, Fit, Viewable, Names
<1> HIDE DEF s
<1>2. Fit(s)
  BY <1>1 DEF Fit, Viewable
<1>3. \A i : Gone(r, i) => Gone(s, i)
  BY <1>1 DEF Gone
<1>4. Before(s, D, X, n, L, G)
  BY <1>1, <1>3, BeforeSame
<1> QED  BY <1>1, <1>2, <1>4 DEF s

LEMMA StopOutputBefore ==
  ASSUME NEW r, Fit(r), NEW D, NEW X, NEW n, NEW L, NEW G, Before(r, D, X, n, L, G)
  PROVE  LET s == stop_output(r)
         IN /\ Fit(s) /\ Before(s, D, X, n, L, G) /\ s.queue = r.queue /\ s.current = r.current
            /\ s.loaded = None /\ s.next_id = r.next_id /\ s.gen = r.gen /\ s.paused = r.paused
            /\ s.step_wait = r.step_wait
<1> DEFINE e == [op |-> "StopOutput"]
           s == emit([r EXCEPT !.loaded = None], e)
<1>1. CASE r.loaded = None
  BY <1>1 DEF stop_output
<1>2. CASE r.loaded # None
  <2>1. stop_output(r) = s
    BY <1>2 DEF stop_output
  <2>2. e.op = "StopOutput"
    OBVIOUS
  <2> HIDE DEF e
  <2>3. /\ DOMAIN s = DOMAIN r /\ s.current = r.current /\ s.queue = r.queue /\ s.last = r.last
        /\ s.paused = r.paused /\ s.step_wait = r.step_wait /\ s.next_id = r.next_id
        /\ s.fx = Append(r.fx, e) /\ s.gen = r.gen /\ s.requested = r.requested /\ s.loaded = None
    BY DEF emit, Fit, Viewable, Names
  <2>4. More(r.fx, e, s.fx)
    BY <2>3, OneMore DEF Fit, Viewable
  <2> HIDE DEF s
  <2>5. Fit(s)
    BY <2>3, <2>4 DEF Fit, Viewable, More
  <2>6. \A i : (Gone(r, i) => Gone(s, i)) /\ ~EndsItem(e, i)
    BY <2>2, <2>3 DEF Gone, EndsItem
  <2>7. \A k \in 1..Len(s.fx) : s.fx[k].op \in {"StopOutput", "Item"}
    BY <2>2, <2>4 DEF Before, More
  <2>8. Has(s.fx, "StopOutput")
    BY <2>2, <2>4 DEF More
  <2>9. Before(s, D, X, n, L, G)
    BY <2>3, <2>4, <2>6, <2>7, <2>8 DEF Before, More
  <2> QED  BY <2>1, <2>3, <2>5, <2>9
<1> QED  BY <1>1, <1>2

LEMMA EndCurrentBefore ==
  ASSUME NEW r, Fit(r), NEW phase, phase # "Started",
         NEW D, NEW X, NEW n, NEW L, NEW G, Before(r, D, X, n, L, G), Ordered(r, n)
  PROVE  LET s == end_current(r, phase)
         IN /\ Fit(s) /\ Before(s, D, X, n, L, G) /\ s.queue = r.queue /\ s.current = None
            /\ s.loaded = None /\ s.next_id = r.next_id /\ s.gen = r.gen
<1> DEFINE o == stop_output(r)
           id == o.current.item.id
           keep == {p \in o.requested : p[1] # id}
           t == [o EXCEPT !.current = None, !.last = o.current.item]
           u == [t EXCEPT !.requested = {p \in @ : p[1] # id}]
           e == [op |-> "Item", item |-> id, phase |-> phase]
           s == emit(u, e)
<1>1. /\ Fit(o) /\ Before(o, D, X, n, L, G) /\ o.queue = r.queue /\ o.current = r.current
      /\ o.loaded = None /\ o.next_id = r.next_id /\ o.gen = r.gen
  BY StopOutputBefore
<1>2. CASE o.current = None
  <2>1. end_current(r, phase) = o
    BY <1>2 DEF end_current
  <2> QED  BY <1>1, <1>2, <2>1
<1>3. CASE o.current # None
  <2>1. end_current(r, phase) = s
    BY <1>3 DEF end_current, forget, emit_item
  <2>2. o.current \in Current /\ o.current.item \in Item /\ id \in ItemId
    BY <1>1, <1>3, CurrentFields DEF Fit, Viewable
  <2> HIDE DEF o
  <2>3. e.op = "Item" /\ e.item = id /\ e.phase = phase
    OBVIOUS
  <2> HIDE DEF e
  <2>4. /\ DOMAIN s = DOMAIN o /\ s.current = None /\ s.last = o.current.item
        /\ s.queue = o.queue /\ s.next_id = o.next_id /\ s.paused = o.paused
        /\ s.step_wait = o.step_wait /\ s.fx = Append(o.fx, e) /\ s.gen = o.gen
        /\ s.loaded = o.loaded /\ s.requested = keep
    BY <1>1 DEF emit, Fit, Viewable, Names
  <2>5. keep \subseteq ChunkRef /\ \A p : p \in keep <=> p \in o.requested /\ p[1] # id
    BY <1>1 DEF Fit
  <2>6. More(o.fx, e, s.fx)
    BY <1>1, <2>4, OneMore DEF Fit, Viewable
  <2> HIDE DEF s, keep, t, u
  <2>7. Fit(s)
    BY <1>1, <2>2, <2>4, <2>5, <2>6 DEF Fit, Viewable, More
  <2>8. \A i : EndsItem(e, i) <=> i = id
    BY <2>3 DEF EndsItem
  <2>9. \A i : (Gone(o, i) => Gone(s, i)) /\ (i = id => Gone(s, i) /\ i < n)
    <3>1. id < n /\ \A k \in 1..Len(o.queue) : o.queue[k].id # id
      BY <1>1, <1>3 DEF Ordered, Below, id
    <3> QED  BY <2>4, <3>1 DEF Gone
  <2>10. \A k \in 1..Len(s.fx) : s.fx[k].op \in {"StopOutput", "Item"}
    <3>1. \A k \in 1..Len(o.fx) : o.fx[k].op \in {"StopOutput", "Item"}
      BY <1>1 DEF Before
    <3>2. \A k \in 1..Len(s.fx) : k \in 1..Len(o.fx) \/ k = Len(s.fx)
      BY <2>6 DEF More
    <3> QED  BY <2>3, <2>6, <3>1, <3>2, Zenon DEF More
  <2>11. Has(s.fx, "StopOutput") <=> Has(o.fx, "StopOutput")
    BY <2>3, <2>6 DEF More
  <2>12. \A p \in ChunkRef : p \in s.requested <=> p \in D /\ ~Ended(s.fx, p[1])
    BY <1>1, <2>4, <2>5, <2>6, <2>8 DEF Before, More
  <2>13. \A i \in ItemId : i \in X \/ Ended(s.fx, i) => Gone(s, i) /\ i < n
    BY <1>1, <2>6, <2>8, <2>9 DEF Before, More
  <2>14. Before(s, D, X, n, L, G)
    BY <1>1, <2>4, <2>10, <2>11, <2>12, <2>13 DEF Before
  <2> QED  BY <1>1, <2>1, <2>4, <2>7, <2>14
<1> QED  BY <1>2, <1>3

LEMMA Places ==
  ASSUME NEW a \in Nat, NEW b \in Nat
  PROVE  /\ \A k \in 1..(a + b) : k \in 1..a \/ \E j \in 1..b : k = a + j
         /\ \A k \in 1..a : k \in 1..(a + b)
         /\ \A k \in 1..b : a + k \in 1..(a + b)
<1>1. \A k \in 1..(a + b) : k \in 1..a \/ (k - a \in 1..b /\ k = a + (k - a))
  OBVIOUS
<1> QED  BY <1>1

(* f is fx and then g.                                                     *)
Chained(fx, g, f) ==
  /\ IsSeq(f) /\ Len(fx) \in Nat /\ Len(g) \in Nat
  /\ \A k \in 1..Len(fx) : k \in 1..Len(f) /\ f[k] = fx[k]
  /\ \A k \in 1..Len(g) : \E j \in 1..Len(f) : f[j] = g[k]
  /\ \A k \in 1..Len(f) : (k \in 1..Len(fx) /\ f[k] = fx[k]) \/ \E j \in 1..Len(g) : f[k] = g[j]

LEMMA Chain ==
  ASSUME NEW fx, NEW g, IsSeq(fx), IsSeq(g)
  PROVE  Chained(fx, g, fx \o g)
<1> DEFINE f == fx \o g
<1>1. /\ IsSeq(f) /\ Len(fx) \in Nat /\ Len(f) = Len(fx) + Len(g)
      /\ \A i \in 1..Len(fx) : f[i] = fx[i]
      /\ \A i \in 1..Len(g) : f[Len(fx) + i] = g[i]
  BY SeqConcat
<1>2. Len(g) \in Nat
  BY SeqLen
<1> HIDE DEF f
<1>3. PICK a \in Nat : a = Len(fx)
  BY <1>1
<1>4. PICK b \in Nat : b = Len(g)
  BY <1>2
<1>5. /\ \A k \in 1..Len(f) : k \in 1..a \/ \E j \in 1..b : k = a + j
      /\ \A k \in 1..a : k \in 1..Len(f)
      /\ \A k \in 1..b : a + k \in 1..Len(f)
  <2>1. Len(f) = a + b
    BY <1>1, <1>3, <1>4
  <2> HIDE DEF f
  <2> QED  BY <2>1, Places
<1>6. Chained(fx, g, f)
  BY <1>1, <1>2, <1>3, <1>4, <1>5, Zenon DEF Chained
<1> QED  BY <1>6 DEF f

LEMMA DropQueueBefore ==
  ASSUME NEW r, Fit(r),
         NEW D, NEW X, NEW n, NEW L, NEW G, Before(r, D, X, n, L, G), Ordered(r, n)
  PROVE  LET s == drop_queue(r)
         IN /\ Fit(s) /\ Before(s, D, X, n, L, G) /\ s.queue = <<>> /\ s.current = r.current
            /\ s.loaded = r.loaded /\ s.next_id = r.next_id /\ s.gen = r.gen /\ s.paused = r.paused
            /\ s.step_wait = r.step_wait
<1> DEFINE q == r.queue
           g == [k \in 1..Len(q) |-> [op |-> "Item", item |-> q[k].id, phase |-> "Skipped"]]
           keep == {p \in r.requested : \A k \in 1..Len(q) : q[k].id # p[1]}
           s == drop_queue(r)
<1>1. q \in Seq(Item) /\ Len(q) \in Nat /\ IsSeq(r.fx)
  BY DEF Fit, Viewable
<1>2. /\ DOMAIN s = DOMAIN r /\ s.queue = <<>> /\ s.current = r.current /\ s.last = r.last
      /\ s.next_id = r.next_id /\ s.paused = r.paused /\ s.step_wait = r.step_wait
      /\ s.fx = r.fx \o g /\ s.gen = r.gen /\ s.loaded = r.loaded /\ s.requested = keep
  BY DEF drop_queue, Fit, Viewable, Names
<1>3. IsSeq(g) /\ Len(g) = Len(q)
  BY <1>1, FcnIsSeq
<1>4. \A k \in 1..Len(q) : g[k].op = "Item" /\ g[k].item = q[k].id /\ g[k].phase = "Skipped"
  OBVIOUS
<1>5. keep \subseteq ChunkRef
      /\ \A p : p \in keep <=> p \in r.requested /\ \A k \in 1..Len(q) : q[k].id # p[1]
  BY DEF Fit
<1> HIDE DEF s, g, keep
<1>6. Chained(r.fx, g, s.fx)
  BY <1>1, <1>2, <1>3, Chain, Zenon
<1>9. \A i : Ended(s.fx, i) <=> Ended(r.fx, i) \/ \E k \in 1..Len(q) : q[k].id = i
  <2> TAKE i
  <2>1. \A k \in 1..Len(g) : EndsItem(g[k], i) <=> q[k].id = i
    BY <1>3, <1>4 DEF EndsItem
  <2>2. Ended(s.fx, i) <=> Ended(r.fx, i) \/ \E k \in 1..Len(g) : EndsItem(g[k], i)
    BY <1>6, Zenon DEF Chained, Ended
  <2> QED  BY <1>3, <2>1, <2>2
<1>10. \A k \in 1..Len(s.fx) : s.fx[k].op \in {"StopOutput", "Item"}
  <2>1. \A k \in 1..Len(r.fx) : r.fx[k].op \in {"StopOutput", "Item"}
    BY DEF Before
  <2>2. \A k \in 1..Len(g) : g[k].op \in {"StopOutput", "Item"}
    BY <1>3, <1>4
  <2> QED  BY <1>6, <2>1, <2>2, Zenon DEF Chained
<1>11. Has(s.fx, "StopOutput") <=> Has(r.fx, "StopOutput")
  <2>1. \A k \in 1..Len(g) : g[k].op # "StopOutput"
    BY <1>3, <1>4
  <2> QED  BY <1>6, <2>1, Zenon DEF Chained, Has
<1>12. \A i : Gone(r, i) => Gone(s, i)
  BY <1>2 DEF Gone
<1>13. \A k \in 1..Len(q) : Gone(s, q[k].id) /\ q[k].id < n
  BY <1>2 DEF Gone, Ordered, Below
<1>14. \A p \in ChunkRef : p \in s.requested <=> p \in D /\ ~Ended(s.fx, p[1])
  <2> TAKE p \in ChunkRef
  <2>1. p \in s.requested <=> p \in r.requested /\ \A k \in 1..Len(q) : q[k].id # p[1]
    BY <1>2, <1>5
  <2>2. p \in r.requested <=> p \in D /\ ~Ended(r.fx, p[1])
    BY DEF Before
  <2> QED  BY <1>9, <2>1, <2>2
<1>15. \A i \in ItemId : i \in X \/ Ended(s.fx, i) => Gone(s, i) /\ i < n
  <2> TAKE i \in ItemId
  <2>1. i \in X \/ Ended(r.fx, i) => Gone(r, i) /\ i < n
    BY DEF Before
  <2> QED  BY <1>9, <1>12, <1>13, <2>1
<1>16. Before(s, D, X, n, L, G)
  BY <1>2, <1>10, <1>11, <1>14, <1>15 DEF Before
<1>17. Fit(s)
  <2>1. <<>> \in Seq(Item)
    OBVIOUS
  <2> QED  BY <1>2, <1>5, <1>6, <2>1 DEF Fit, Viewable, Chained
<1> QED  BY <1>2, <1>16, <1>17 DEF s

-----------------------------------------------------------------------------
(* What a call leaves to be carried out, helper by helper.                 *)
LEMMA FreshBefore ==
  ASSUME NEW r, Fit(r), r.fx = <<>>, NEW n, NEW X, \A i \in X : Gone(r, i) /\ i < n
  PROVE  Before(r, r.requested, X, n, r.loaded, r.gen)
<1>1. Len(r.fx) = 0
  BY SeqLen DEF Fit, Viewable
<1>2. \A op, i : ~Has(r.fx, op) /\ ~Ended(r.fx, i)
  BY <1>1 DEF Has, Ended
<1> QED  BY <1>1, <1>2 DEF Before

LEMMA StartNextPlan ==
  ASSUME NEW r, Fit(r), r.loaded = None,
         NEW D, NEW X, NEW n, NEW L, NEW P, NEW U, NEW G, L = None \/ L \in Nat, G \in Nat,
         Before(r, D, X, n, L, G)
  PROVE  /\ Plan(start_next(r), D, X, n, L, P, U, G) /\ Fit(start_next(r))
         /\ start_next(r).next_id = r.next_id
<1> DEFINE s == end_wait(r)
<1>1. /\ Fit(s) /\ Before(s, D, X, n, L, G) /\ s.queue = r.queue /\ s.current = r.current
      /\ s.loaded = None /\ s.next_id = r.next_id
  BY EndWaitBefore
<1>2. CASE s.queue = <<>>
  <2> DEFINE t == [s EXCEPT !.paused = FALSE]
  <2>1. start_next(r) = t
    BY <1>2 DEF start_next
  <2> HIDE DEF s
  <2>2. /\ DOMAIN t = DOMAIN s /\ t.paused = FALSE /\ t.step_wait = s.step_wait
        /\ t.current = s.current /\ t.queue = s.queue /\ t.last = s.last /\ t.gen = s.gen
        /\ t.next_id = s.next_id /\ t.fx = s.fx /\ t.requested = s.requested /\ t.loaded = s.loaded
    BY <1>1 DEF Fit, Viewable, Names
  <2> HIDE DEF t
  <2>3. Fit(t)
    BY <1>1, <2>2 DEF Fit, Viewable
  <2>4. \A i : Gone(s, i) => Gone(t, i)
    BY <2>2 DEF Gone
  <2>5. Before(t, D, X, n, L, G)
    BY <1>1, <2>2, <2>4, BeforeSame
  <2>6. Plan(t, D, X, n, L, P, U, G)
    BY <1>1, <2>2, <2>3, <2>5, BeforePlan
  <2> QED  BY <1>1, <2>1, <2>2, <2>3, <2>6
<1>3. CASE s.queue # <<>>
  <2> DEFINE item == Head(s.queue)
             a == [s EXCEPT !.queue = Tail(@), !.released = FALSE]
             e == [op |-> "Item", item |-> item.id, phase |-> "Started"]
             now == [item |-> item, chunk |-> 1, played_any |-> FALSE]
             c == [emit(a, e) EXCEPT !.current = now]
  <2>1. start_next(r) = begin_chunk(c)
    BY <1>3 DEF start_next, emit_item
  <2>2. /\ item \in Item /\ Tail(s.queue) \in Seq(Item) /\ item = s.queue[1] /\ 1 \in 1..Len(s.queue)
        /\ \A k \in 1..Len(Tail(s.queue)) : k + 1 \in 1..Len(s.queue) /\ Tail(s.queue)[k] = s.queue[k + 1]
    BY <1>1, <1>3 DEF Fit, Viewable
  <2> HIDE DEF s, item
  <2>3. now \in Current /\ now # None
    <3>1. now \in Current
      BY <2>2 DEF Current
    <3> HIDE DEF now
    <3> QED  BY <3>1, ReaderConstants
  <2>4. now.item = item /\ e.op = "Item" /\ e.phase = "Started"
    OBVIOUS
  <2> HIDE DEF now, e
  <2>5. /\ DOMAIN c = DOMAIN s /\ c.queue = Tail(s.queue) /\ c.paused = s.paused
        /\ c.step_wait = s.step_wait /\ c.current = now /\ c.last = s.last /\ c.gen = s.gen
        /\ c.next_id = s.next_id /\ c.fx = Append(s.fx, e) /\ c.requested = s.requested
        /\ c.loaded = s.loaded
    BY <1>1 DEF emit, Fit, Viewable, Names
  <2> HIDE DEF c
  <2>6. More(s.fx, e, c.fx)
    BY <1>1, <2>5, OneMore DEF Fit, Viewable
  <2>7. Fit(c)
    BY <1>1, <2>2, <2>3, <2>5, <2>6 DEF Fit, Viewable, More
  <2>8. \A i : (Gone(s, i) => Gone(c, i)) /\ ~EndsItem(e, i)
    <3> TAKE i
    <3>1. ~EndsItem(e, i)
      BY <2>4 DEF EndsItem
    <3>2. ASSUME Gone(s, i) PROVE Gone(c, i)
      BY <2>2, <2>4, <2>5, <3>2 DEF Gone
    <3> QED  BY <3>1, <3>2
  <2>9. \A k \in 1..Len(c.fx) : c.fx[k].op \in {"StopOutput", "Item"}
    <3>1. \A k \in 1..Len(s.fx) : s.fx[k].op \in {"StopOutput", "Item"}
      BY <1>1 DEF Before
    <3>2. \A k \in 1..Len(c.fx) : k \in 1..Len(s.fx) \/ k = Len(c.fx)
      BY <2>6 DEF More
    <3> QED  BY <2>4, <2>6, <3>1, <3>2, Zenon DEF More
  <2>10. Has(c.fx, "StopOutput") <=> Has(s.fx, "StopOutput")
    BY <2>4, <2>6 DEF More
  <2>11. \A i : Ended(c.fx, i) <=> Ended(s.fx, i)
    BY <2>6, <2>8 DEF More
  <2>12. Before(c, D, X, n, L, G)
    BY <1>1, <2>5, <2>8, <2>9, <2>10, <2>11 DEF Before
  <2>13. /\ Plan(begin_chunk(c), D, X, n, L, P, U, G) /\ Fit(begin_chunk(c))
         /\ begin_chunk(c).next_id = c.next_id
    BY <1>1, <2>5, <2>7, <2>12, BeginChunkPlan
  <2> QED  BY <1>1, <2>1, <2>5, <2>13
<1> QED  BY <1>2, <1>3

LEMMA SkipPlan ==
  ASSUME NEW r, Fit(r), NEW phase, phase # "Started",
         NEW D, NEW X, NEW n, NEW L, NEW P, NEW U, NEW G, L = None \/ L \in Nat, G \in Nat,
         Before(r, D, X, n, L, G), Ordered(r, n)
  PROVE  /\ Plan(start_next(end_current(r, phase)), D, X, n, L, P, U, G)
         /\ Fit(start_next(end_current(r, phase)))
         /\ start_next(end_current(r, phase)).next_id = r.next_id
<1> DEFINE c == end_current(r, phase)
<1>1. Fit(c) /\ Before(c, D, X, n, L, G) /\ c.loaded = None /\ c.next_id = r.next_id
  BY EndCurrentBefore
<1> HIDE DEF c
<1>2. Plan(start_next(c), D, X, n, L, P, U, G) /\ Fit(start_next(c)) /\ start_next(c).next_id = c.next_id
  BY <1>1, StartNextPlan
<1> QED  BY <1>1, <1>2 DEF c

LEMMA MoveToPlan ==
  ASSUME NEW r, Fit(r), r.current # None, NEW to \in Nat \ {0},
         NEW D, NEW X, NEW n, NEW L, NEW P, NEW U, NEW G, L = None \/ L \in Nat, G \in Nat,
         Before(r, D, X, n, L, G)
  PROVE  /\ Plan(move_to(r, to), D, X, n, L, P, U, G) /\ Fit(move_to(r, to))
         /\ move_to(r, to).next_id = r.next_id
<1> DEFINE a == end_wait(r)
           s == stop_output(a)
           t == [s EXCEPT !.current.chunk = to]
           v == [t EXCEPT !.released = @ /\ kind_at(t, to) = "Line"]
           c == [s.current EXCEPT !.chunk = to]
<1>1. /\ Fit(a) /\ Before(a, D, X, n, L, G) /\ a.queue = r.queue /\ a.current = r.current
      /\ a.next_id = r.next_id
  BY EndWaitBefore
<1> HIDE DEF a
<1>2. /\ Fit(s) /\ Before(s, D, X, n, L, G) /\ s.queue = a.queue /\ s.current = a.current
      /\ s.loaded = None /\ s.next_id = a.next_id
  BY <1>1, StopOutputBefore
<1> HIDE DEF s
<1>3. s.current \in Current /\ s.current # None
  BY <1>1, <1>2 DEF Fit, Viewable
<1>4. move_to(r, to) = begin_chunk(v)
  BY <1>3 DEF move_to, a, s
<1>5. c \in Current /\ c.item = s.current.item
  BY <1>3 DEF Current
<1>6. c # None
  BY <1>5, ReaderConstants
<1>7. /\ DOMAIN v = DOMAIN s /\ v.current = c /\ v.queue = s.queue /\ v.last = s.last
      /\ v.next_id = s.next_id /\ v.paused = s.paused /\ v.step_wait = s.step_wait /\ v.fx = s.fx
      /\ v.gen = s.gen /\ v.loaded = s.loaded /\ v.requested = s.requested
  BY <1>2 DEF Fit, Viewable, Names
<1> HIDE DEF v, c
<1>8. Fit(v)
  BY <1>2, <1>5, <1>7 DEF Fit, Viewable
<1>9. \A i : Gone(s, i) => Gone(v, i)
  BY <1>3, <1>5, <1>7 DEF Gone
<1>10. Before(v, D, X, n, L, G)
  BY <1>2, <1>7, <1>9, BeforeSame
<1>11. /\ Plan(begin_chunk(v), D, X, n, L, P, U, G) /\ Fit(begin_chunk(v))
       /\ begin_chunk(v).next_id = v.next_id
  BY <1>2, <1>7, <1>8, <1>10, BeginChunkPlan
<1> QED  BY <1>1, <1>2, <1>4, <1>7, <1>11

LEMMA AdvancePlan ==
  ASSUME NEW r, Fit(r), r.current # None, r.loaded = None,
         NEW D, NEW X, NEW n, NEW L, NEW P, NEW U, NEW G, L = None \/ L \in Nat, G \in Nat,
         Before(r, D, X, n, L, G), Ordered(r, n)
  PROVE  /\ Plan(advance(r), D, X, n, L, P, U, G) /\ Fit(advance(r))
         /\ advance(r).next_id = r.next_id
<1> DEFINE at == r.current.chunk
           len == Len(r.current.item.chunks)
<1>1. r.current \in Current /\ at \in Nat \ {0} /\ len \in Nat
  BY CurrentFields DEF Fit, Viewable
<1>2. CASE at < len
  <2> DEFINE next == kind_at(r, at + 1)
             wait == r.code_step /\ ~r.released /\ waits(kind_at(r, at), next) /\ ~r.paused
             v == [r EXCEPT !.current.chunk = at + 1, !.released = @ /\ next = "Line",
                            !.paused = @ \/ wait, !.step_wait = @ \/ wait]
             c == [r.current EXCEPT !.chunk = at + 1]
  <2>1. advance(r) = begin_chunk(v)
    BY <1>2 DEF advance
  <2>2. wait \in BOOLEAN
    OBVIOUS
  <2>3. c \in Current /\ c.item = r.current.item
    BY <1>1 DEF Current
  <2>4. c # None
    BY <2>3, ReaderConstants
  <2> HIDE DEF wait, next
  <2>5. /\ DOMAIN v = DOMAIN r /\ v.current = c /\ v.queue = r.queue /\ v.last = r.last
        /\ v.next_id = r.next_id /\ v.fx = r.fx /\ v.gen = r.gen /\ v.loaded = r.loaded
        /\ v.requested = r.requested
        /\ v.paused = (r.paused \/ wait) /\ v.step_wait = (r.step_wait \/ wait)
    BY DEF Fit, Viewable, Names
  <2> HIDE DEF v, c
  <2>6. Fit(v)
    BY <2>2, <2>3, <2>5 DEF Fit, Viewable
  <2>7. \A i : Gone(r, i) => Gone(v, i)
    BY <2>3, <2>5 DEF Gone
  <2>8. Before(v, D, X, n, L, G)
    BY <2>5, <2>7, BeforeSame
  <2>9. /\ Plan(begin_chunk(v), D, X, n, L, P, U, G) /\ Fit(begin_chunk(v))
        /\ begin_chunk(v).next_id = v.next_id
    BY <2>5, <2>6, <2>8, BeginChunkPlan
  <2> QED  BY <2>1, <2>5, <2>9
<1>3. CASE ~(at < len)
  <2> DEFINE phase == IF r.current.played_any THEN "Finished" ELSE "Failed"
  <2>1. advance(r) = start_next(end_current(r, phase))
    BY <1>3 DEF advance
  <2>2. phase # "Started"
    OBVIOUS
  <2> HIDE DEF phase
  <2>3. /\ Plan(start_next(end_current(r, phase)), D, X, n, L, P, U, G)
        /\ Fit(start_next(end_current(r, phase)))
        /\ start_next(end_current(r, phase)).next_id = r.next_id
    BY <2>2, SkipPlan
  <2> QED  BY <2>1, <2>3
<1> QED  BY <1>2, <1>3

(* The output is paused or resumed, and nothing else.                      *)
LEMMA LevelPlan ==
  ASSUME NEW r, Fit(r), NEW e, NEW s, s.fx = Append(r.fx, e), Alike(r, s), s.requested = r.requested,
         NEW D, NEW X, NEW n, NEW L, NEW P, NEW U, NEW G, Before(r, D, X, n, L, G),
         r.loaded # None, Place(r) = P,
         \/ e.op = "PauseOutput" /\ r.paused = TRUE
         \/ e.op = "ResumeOutput" /\ r.paused = FALSE
  PROVE  Plan(s, D, X, n, L, P, U, G)
<1>1. \A k \in 1..Len(r.fx) : r.fx[k].op \in {"StopOutput", "Item"}
  BY DEF Before
<1>2. /\ ~Has(r.fx, "PlayChunk") /\ ~Has(r.fx, "PauseOutput") /\ ~Has(r.fx, "ResumeOutput")
      /\ \A p : ~MadeBy(r.fx, p)
  BY <1>1 DEF Has, MadeBy, Makes
<1>3. More(r.fx, e, s.fx)
  BY OneMore DEF Fit, Viewable
<1>4. (\A i : ~EndsItem(e, i)) /\ (\A p : ~Makes(e, p))
  BY DEF EndsItem, Makes
<1>5. /\ \A op : Has(s.fx, op) <=> Has(r.fx, op) \/ e.op = op
      /\ \A i : Ended(s.fx, i) <=> Ended(r.fx, i)
      /\ \A p : ~MadeBy(s.fx, p)
  BY <1>2, <1>3, <1>4 DEF More
<1>6. \A i : Gone(s, i) <=> Gone(r, i)
  BY DEF Gone, Alike
<1>7. Requested(s, D, X, n)
  <2>1. \A p \in ChunkRef : \A j, k \in 1..Len(s.fx) : Makes(s.fx[j], p) /\ Makes(s.fx[k], p) => j = k
    BY <1>5, Zenon DEF MadeBy
  <2> QED  BY <1>5, <1>6, <2>1 DEF Before, Requested
<1>8. ~Has(s.fx, "PlayChunk")
  BY <1>2, <1>5
<1>9. Played(s, D, G)
  BY <1>8, Zenon DEF Played, Has
<1>10. s.loaded # None /\ s.loaded = L /\ Place(s) = P /\ ~Has(r.fx, "StopOutput") /\ s.paused = r.paused
  BY DEF Before, Alike, Place
<1>11. Held(s, L, P, U)
  BY <1>2, <1>5, <1>8, <1>10 DEF Held
<1>12. s.gen >= G
  BY DEF Before, Fit, Alike
<1> QED  BY <1>7, <1>9, <1>11, <1>12 DEF Plan

LEMMA PausePlan ==
  ASSUME NEW r, Fit(r), NEW D, NEW X, NEW n, NEW L, NEW P, NEW U, NEW G, Before(r, D, X, n, L, G),
         r.loaded # None => Place(r) = P /\ r.paused = U
  PROVE  /\ Plan(pause(r), D, X, n, L, P, U, G) /\ Fit(pause(r)) /\ pause(r).next_id = r.next_id
<1> DEFINE s == [r EXCEPT !.step_wait = FALSE]
           t == [s EXCEPT !.paused = TRUE]
           e == [op |-> "PauseOutput"]
           w == emit(t, e)
<1>1. pause(r) = IF s.current = None \/ s.paused THEN s
                 ELSE IF t.loaded # None THEN w ELSE t
  BY DEF pause
<1>2. e.op = "PauseOutput"
  OBVIOUS
<1> HIDE DEF e
<1>3. /\ DOMAIN s = DOMAIN r /\ s.current = r.current /\ s.queue = r.queue /\ s.last = r.last
      /\ s.next_id = r.next_id /\ s.fx = r.fx /\ s.paused = r.paused /\ s.step_wait = FALSE
      /\ s.gen = r.gen /\ s.loaded = r.loaded /\ s.requested = r.requested
  BY DEF Fit, Viewable, Names
<1> HIDE DEF s
<1>4. Fit(s)
  BY <1>3 DEF Fit, Viewable
<1>5. Before(s, D, X, n, L, G)
  <2>1. \A i \in ItemId : Gone(r, i) => Gone(s, i)
    BY <1>3 DEF Gone
  <2> QED  BY <1>3, <2>1, BeforeSame
<1>6. Plan(s, D, X, n, L, P, U, G)
  BY <1>3, <1>4, <1>5, BeforePlan DEF Place
<1>7. /\ DOMAIN t = DOMAIN s /\ t.current = s.current /\ t.queue = s.queue /\ t.last = s.last
      /\ t.next_id = s.next_id /\ t.fx = s.fx /\ t.paused = TRUE /\ t.step_wait = s.step_wait
      /\ t.gen = s.gen /\ t.loaded = s.loaded /\ t.requested = s.requested
  BY <1>4 DEF Fit, Viewable, Names
<1>8. /\ w.fx = Append(t.fx, e) /\ w.requested = t.requested /\ w.next_id = t.next_id
      /\ DOMAIN w = DOMAIN t /\ w.last = t.last /\ w.step_wait = t.step_wait /\ Alike(t, w)
  BY <1>4 DEF emit, Fit, Viewable, Names, Alike
<1> HIDE DEF t, w
<1>9. Fit(t)
  BY <1>4, <1>7 DEF Fit, Viewable
<1>10. Before(t, D, X, n, L, G)
  <2>1. \A i \in ItemId : Gone(s, i) => Gone(t, i)
    BY <1>7 DEF Gone
  <2> QED  BY <1>5, <1>7, <2>1, BeforeSame
<1>11. t.loaded = None => Plan(t, D, X, n, L, P, U, G)
  BY <1>9, <1>10, BeforePlan
<1>12. IsSeq(w.fx)
  BY <1>8, <1>9, SeqAppend DEF Fit, Viewable
<1>13. Fit(w)
  BY <1>8, <1>9, <1>12 DEF Fit, Viewable, Alike
<1>14. t.loaded # None => Plan(w, D, X, n, L, P, U, G)
  <2>1. t.loaded # None => Place(t) = P
    BY <1>3, <1>7 DEF Place
  <2> QED  BY <1>2, <1>7, <1>8, <1>9, <1>10, <2>1, LevelPlan
<1>15. pause(r) = s \/ (pause(r) = w /\ t.loaded # None) \/ (pause(r) = t /\ t.loaded = None)
  BY <1>1
<1> QED  BY <1>3, <1>4, <1>6, <1>7, <1>8, <1>9, <1>11, <1>13, <1>14, <1>15

LEMMA ResumePlan ==
  ASSUME NEW r, Fit(r), NEW D, NEW X, NEW n, NEW L, NEW P, NEW U, NEW G, Before(r, D, X, n, L, G),
         L = None \/ L \in Nat, G \in Nat, r.loaded # None => Place(r) = P
  PROVE  /\ Plan(resume(r), D, X, n, L, P, U, G) /\ Fit(resume(r)) /\ resume(r).next_id = r.next_id
<1> DEFINE t == [r EXCEPT !.paused = FALSE, !.step_wait = FALSE]
           e == [op |-> "ResumeOutput"]
           w == emit(t, e)
<1>1. resume(r) = IF t.loaded # None THEN w ELSE begin_chunk(t)
  BY DEF resume
<1>2. e.op = "ResumeOutput"
  OBVIOUS
<1> HIDE DEF e
<1>7. /\ DOMAIN t = DOMAIN r /\ t.current = r.current /\ t.queue = r.queue /\ t.last = r.last
      /\ t.next_id = r.next_id /\ t.fx = r.fx /\ t.paused = FALSE /\ t.step_wait = FALSE
      /\ t.gen = r.gen /\ t.loaded = r.loaded /\ t.requested = r.requested
  BY DEF Fit, Viewable, Names
<1> HIDE DEF t
<1>9. Fit(t)
  BY <1>7 DEF Fit, Viewable
<1>8. /\ w.fx = Append(t.fx, e) /\ w.requested = t.requested /\ w.next_id = t.next_id
      /\ DOMAIN w = DOMAIN t /\ w.last = t.last /\ w.step_wait = t.step_wait /\ Alike(t, w)
  BY <1>9 DEF emit, Fit, Viewable, Names, Alike
<1> HIDE DEF w
<1>10. Before(t, D, X, n, L, G)
  <2>1. \A i \in ItemId : Gone(r, i) => Gone(t, i)
    BY <1>7 DEF Gone
  <2> QED  BY <1>7, <2>1, BeforeSame
<1>11. CASE t.loaded = None
  <2>1. /\ Plan(begin_chunk(t), D, X, n, L, P, U, G) /\ Fit(begin_chunk(t))
        /\ begin_chunk(t).next_id = t.next_id
    BY <1>9, <1>10, <1>11, BeginChunkPlan
  <2> QED  BY <1>1, <1>7, <1>11, <2>1
<1>12. CASE t.loaded # None
  <2>1. IsSeq(w.fx)
    BY <1>8, <1>9, SeqAppend DEF Fit, Viewable
  <2>2. Fit(w)
    BY <1>8, <1>9, <2>1 DEF Fit, Viewable, Alike
  <2>3. Place(t) = P
    BY <1>7, <1>12 DEF Place
  <2>4. Plan(w, D, X, n, L, P, U, G)
    BY <1>2, <1>7, <1>8, <1>9, <1>10, <1>12, <2>3, LevelPlan
  <2> QED  BY <1>1, <1>7, <1>8, <1>12, <2>2, <2>4
<1> QED  BY <1>11, <1>12

-----------------------------------------------------------------------------
(* A call on a reader between calls: what is left for r to become s.  L is *)
(* what of r's is loaded when the call begins.                             *)
Dead(r) == {i \in ItemId : Gone(r, i) /\ i < r.next_id}
Idle(r) == Good(r) /\ r.fx = <<>>
Does(r, s, L) ==
  /\ Fit(s) /\ r.next_id <= s.next_id
  /\ Plan(s, r.requested, Dead(r), s.next_id, L, Place(r), r.paused, r.gen)

LEMMA IdleBefore ==
  ASSUME NEW r, Idle(r)
  PROVE  /\ Fit(r) /\ Ordered(r, r.next_id) /\ r.next_id \in Nat \ {0}
         /\ Before(r, r.requested, Dead(r), r.next_id, r.loaded, r.gen)
         /\ r.loaded = None \/ r.loaded \in Nat
         /\ r.gen \in Nat /\ InRange(r) /\ IdleOK(r) /\ StepWaitOK(r) /\ LoadedOK(r)
<1>1. Fit(r)
  BY TypeFit DEF Idle, Good, Core
<1>2. Ordered(r, r.next_id)
  BY DEF Idle, Good, Core, IdsOK, Ordered, Below
<1>3. Before(r, r.requested, Dead(r), r.next_id, r.loaded, r.gen)
  <2>1. \A i \in Dead(r) : Gone(r, i) /\ i < r.next_id
    BY DEF Dead
  <2> QED  BY <1>1, <2>1, FreshBefore DEF Idle
<1>4. r.next_id \in Nat \ {0}
  BY <1>1 DEF Fit, Viewable, ItemId
<1> QED  BY <1>1, <1>2, <1>3, <1>4 DEF Fit, Idle, Good, Core, Flags

LEMMA PlanMore ==
  ASSUME NEW s, NEW D, NEW X, NEW n \in Nat, NEW L, NEW P, NEW U, NEW G, Plan(s, D, X, n, L, P, U, G),
         NEW m \in Nat, n <= m
  PROVE  Plan(s, D, X, m, L, P, U, G)
<1>1. \A i \in ItemId : i < n => i < m
  BY DEF ItemId
<1> QED  BY <1>1 DEF Plan, Requested

LEMMA FinishDoes ==
  ASSUME NEW r, NEW s, NEW L, Does(r, s, L)
  PROVE  Does(r, finish(s), L)
<1>1. /\ Later(s, finish(s))
      /\ Plan(finish(s), r.requested, Dead(r), s.next_id, L, Place(r), r.paused, r.gen)
  BY FinishPlan DEF Does
<1> QED  BY <1>1 DEF Later, Does

(* A call that changes nothing of what Plan reads.                         *)
LEMMA StillDoes ==
  ASSUME NEW r, Idle(r), NEW s, Fit(s), Alike(r, s), s.fx = r.fx, s.requested = r.requested,
         s.next_id = r.next_id
  PROVE  Does(r, s, r.loaded) /\ Before(s, r.requested, Dead(r), r.next_id, r.loaded, r.gen)
         /\ Place(s) = Place(r)
<1>1. \A i \in ItemId : Gone(r, i) => Gone(s, i)
  BY DEF Gone, Alike
<1>2. Before(s, r.requested, Dead(r), r.next_id, r.loaded, r.gen)
  BY <1>1, IdleBefore, BeforeSame DEF Alike
<1>3. Place(s) = Place(r)
  BY DEF Place, Alike
<1>4. Plan(s, r.requested, Dead(r), r.next_id, r.loaded, Place(r), r.paused, r.gen)
  BY <1>2, <1>3, BeforePlan DEF Alike
<1> QED  BY <1>2, <1>3, <1>4, IdleBefore DEF Does

LEMMA PlayDoes ==
  ASSUME NEW r, Idle(r)
  PROVE  Does(r, play(r), r.loaded)
<1> DEFINE s == release_code(r)
<1>1. /\ DOMAIN s = DOMAIN r /\ Alike(r, s) /\ s.last = r.last /\ s.next_id = r.next_id
      /\ s.fx = r.fx /\ s.requested = r.requested /\ s.step_wait = r.step_wait
  BY IdleBefore DEF release_code, Fit, Viewable, Names, Alike
<1>2. play(r) = IF r.paused THEN resume(s) ELSE r
  BY DEF play
<1> HIDE DEF s
<1>3. Fit(s)
  BY <1>1, IdleBefore DEF Fit, Viewable, Alike
<1>4. Before(s, r.requested, Dead(r), r.next_id, r.loaded, r.gen) /\ Place(s) = Place(r)
  BY <1>1, <1>3, StillDoes
<1>5. /\ Plan(resume(s), r.requested, Dead(r), r.next_id, r.loaded, Place(r), r.paused, r.gen)
      /\ Fit(resume(s)) /\ resume(s).next_id = s.next_id
  BY <1>3, <1>4, IdleBefore, ResumePlan
<1>6. Does(r, resume(s), r.loaded)
  BY <1>1, <1>5, IdleBefore DEF Does
<1>7. Does(r, r, r.loaded)
  BY StillDoes, IdleBefore DEF Alike
<1> QED  BY <1>2, <1>6, <1>7

LEMMA PauseDoes ==
  ASSUME NEW r, Idle(r)
  PROVE  Does(r, pause(r), r.loaded)
<1>1. /\ Plan(pause(r), r.requested, Dead(r), r.next_id, r.loaded, Place(r), r.paused, r.gen)
      /\ Fit(pause(r)) /\ pause(r).next_id = r.next_id
  BY IdleBefore, PausePlan
<1> QED  BY <1>1, IdleBefore DEF Does

LEMMA MuteDoes ==
  ASSUME NEW r, Idle(r)
  PROVE  /\ Does(r, mute(r), r.loaded) /\ Does(r, unmute(r), r.loaded)
         /\ \A v : Does(r, set_volume(r, v), r.loaded)
<1>0. Does(r, r, r.loaded)
  BY StillDoes, IdleBefore DEF Alike
<1>1. ASSUME NEW s, Fit(s), Alike(r, s), s.fx = r.fx, s.requested = r.requested,
             s.next_id = r.next_id, NEW e, e.op \in Neutral
      PROVE  Does(r, emit(s, e), r.loaded)
  <2> DEFINE w == emit(s, e)
  <2>1. Does(r, s, r.loaded)
    BY <1>1, StillDoes
  <2>2. /\ w.fx = Append(s.fx, e) /\ w.requested = s.requested /\ w.next_id = s.next_id
        /\ DOMAIN w = DOMAIN s /\ w.last = s.last /\ w.step_wait = s.step_wait /\ Alike(s, w)
    BY <1>1 DEF emit, Fit, Viewable, Names, Alike
  <2> HIDE DEF w
  <2>3. IsSeq(s.fx) /\ IsSeq(w.fx)
    BY <1>1, <2>2, SeqAppend DEF Fit, Viewable
  <2>4. Fit(w)
    BY <1>1, <2>2, <2>3 DEF Fit, Viewable, Alike
  <2>5. Plan(w, r.requested, Dead(r), s.next_id, r.loaded, Place(r), r.paused, r.gen)
    BY <1>1, <2>1, <2>2, <2>3, NeutralPlan DEF Does
  <2>6. Does(r, w, r.loaded)
    BY <2>1, <2>2, <2>4, <2>5 DEF Does
  <2> QED  BY <2>6 DEF w
<1>2. ASSUME NEW b
      PROVE  LET s == [r EXCEPT !.muted = b]
             IN Fit(s) /\ Alike(r, s) /\ s.fx = r.fx /\ s.requested = r.requested /\ s.next_id = r.next_id
  <2> DEFINE s == [r EXCEPT !.muted = b]
  <2>1. /\ DOMAIN s = DOMAIN r /\ Alike(r, s) /\ s.last = r.last /\ s.next_id = r.next_id
        /\ s.fx = r.fx /\ s.requested = r.requested /\ s.step_wait = r.step_wait
    BY IdleBefore DEF Fit, Viewable, Names, Alike
  <2> HIDE DEF s
  <2>2. Fit(s)
    BY <2>1, IdleBefore DEF Fit, Viewable, Alike
  <2> QED  BY <2>1, <2>2 DEF s
<1>3. ASSUME NEW v
      PROVE  LET s == [r EXCEPT !.volume = v]
             IN Fit(s) /\ Alike(r, s) /\ s.fx = r.fx /\ s.requested = r.requested /\ s.next_id = r.next_id
  <2> DEFINE s == [r EXCEPT !.volume = v]
  <2>1. /\ DOMAIN s = DOMAIN r /\ Alike(r, s) /\ s.last = r.last /\ s.next_id = r.next_id
        /\ s.fx = r.fx /\ s.requested = r.requested /\ s.step_wait = r.step_wait
    BY IdleBefore DEF Fit, Viewable, Names, Alike
  <2> HIDE DEF s
  <2>2. Fit(s)
    BY <2>1, IdleBefore DEF Fit, Viewable, Alike
  <2> QED  BY <2>1, <2>2 DEF s
<1>4. Does(r, mute(r), r.loaded)
  <2> DEFINE s == [r EXCEPT !.muted = TRUE]
             e == [op |-> "Mute"]
  <2>1. Fit(s) /\ Alike(r, s) /\ s.fx = r.fx /\ s.requested = r.requested /\ s.next_id = r.next_id
    BY <1>2
  <2>2. e.op \in Neutral
    BY DEF Neutral
  <2>3. mute(r) = r \/ mute(r) = emit(s, e)
    BY DEF mute
  <2> HIDE DEF s, e
  <2> QED  BY <1>0, <1>1, <2>1, <2>2, <2>3
<1>5. Does(r, unmute(r), r.loaded)
  <2> DEFINE s == [r EXCEPT !.muted = FALSE]
             e == [op |-> "Unmute"]
  <2>1. Fit(s) /\ Alike(r, s) /\ s.fx = r.fx /\ s.requested = r.requested /\ s.next_id = r.next_id
    BY <1>2
  <2>2. e.op \in Neutral
    BY DEF Neutral
  <2>3. unmute(r) = r \/ unmute(r) = emit(s, e)
    BY DEF unmute
  <2> HIDE DEF s, e
  <2> QED  BY <1>0, <1>1, <2>1, <2>2, <2>3
<1>6. ASSUME NEW v PROVE Does(r, set_volume(r, v), r.loaded)
  <2> DEFINE s == [r EXCEPT !.volume = v]
             e == [op |-> "SetVolume", volume |-> v]
             t == IF v = r.volume THEN r ELSE emit(s, e)
  <2>1. Fit(s) /\ Alike(r, s) /\ s.fx = r.fx /\ s.requested = r.requested /\ s.next_id = r.next_id
    BY <1>3
  <2>2. e.op \in Neutral
    BY DEF Neutral
  <2>3. set_volume(r, v) = finish(t)
    BY DEF set_volume
  <2> HIDE DEF s, e
  <2>4. Does(r, t, r.loaded)
    BY <1>0, <1>1, <2>1, <2>2
  <2> HIDE DEF t
  <2> QED  BY <2>3, <2>4, FinishDoes
<1> QED  BY <1>4, <1>5, <1>6

LEMMA StopDoes ==
  ASSUME NEW r, Idle(r)
  PROVE  Does(r, stop(r), r.loaded)
<1> DEFINE c == end_current(r, "Skipped")
           s == drop_queue(c)
<1>1. CASE r.current = None /\ r.queue = <<>>
  <2> DEFINE v == [r EXCEPT !.last = None]
  <2>1. stop(r) = v
    BY <1>1 DEF stop
  <2>2. /\ DOMAIN v = DOMAIN r /\ Alike(r, v) /\ v.last = None /\ v.next_id = r.next_id
        /\ v.fx = r.fx /\ v.requested = r.requested /\ v.step_wait = r.step_wait
    BY IdleBefore DEF Fit, Viewable, Names, Alike
  <2> HIDE DEF v
  <2>3. Fit(v)
    BY <2>2, IdleBefore DEF Fit, Viewable, Alike
  <2> QED  BY <2>1, <2>2, <2>3, StillDoes
<1>2. CASE ~(r.current = None /\ r.queue = <<>>)
  <2> DEFINE v == [s EXCEPT !.last = None, !.paused = FALSE, !.step_wait = FALSE]
  <2>1. stop(r) = v
    BY <1>2 DEF stop
  <2>2. /\ Fit(c) /\ Before(c, r.requested, Dead(r), r.next_id, r.loaded, r.gen)
        /\ c.queue = r.queue /\ c.current = None /\ c.loaded = None /\ c.next_id = r.next_id
    BY IdleBefore, EndCurrentBefore
  <2> HIDE DEF c
  <2>3. Ordered(c, r.next_id)
    BY <2>2, IdleBefore DEF Ordered, Below
  <2>4. /\ Fit(s) /\ Before(s, r.requested, Dead(r), r.next_id, r.loaded, r.gen)
        /\ s.loaded = None /\ s.next_id = r.next_id
    BY <2>2, <2>3, DropQueueBefore
  <2> HIDE DEF s
  <2>5. /\ DOMAIN v = DOMAIN s /\ v.current = s.current /\ v.queue = s.queue /\ v.last = None
        /\ v.next_id = s.next_id /\ v.fx = s.fx /\ v.paused = FALSE /\ v.step_wait = FALSE
        /\ v.gen = s.gen /\ v.loaded = s.loaded /\ v.requested = s.requested
    BY <2>4 DEF Fit, Viewable, Names
  <2> HIDE DEF v
  <2>6. Fit(v)
    BY <2>4, <2>5 DEF Fit, Viewable
  <2>7. Before(v, r.requested, Dead(r), r.next_id, r.loaded, r.gen)
    <3>1. \A i \in ItemId : Gone(s, i) => Gone(v, i)
      BY <2>5 DEF Gone
    <3> QED  BY <2>4, <2>5, <3>1, BeforeSame
  <2>8. Plan(v, r.requested, Dead(r), r.next_id, r.loaded, Place(r), r.paused, r.gen)
    BY <2>4, <2>5, <2>6, <2>7, BeforePlan
  <2> QED  BY <2>1, <2>4, <2>5, <2>6, <2>8, IdleBefore DEF Does
<1> QED  BY <1>1, <1>2

LEMMA SkipDoes ==
  ASSUME NEW r, Idle(r)
  PROVE  Does(r, skip(r), r.loaded)
<1>1. "Skipped" # "Started"
  OBVIOUS
<1>2. /\ Plan(skip(r), r.requested, Dead(r), r.next_id, r.loaded, Place(r), r.paused, r.gen)
      /\ Fit(skip(r)) /\ skip(r).next_id = r.next_id
  BY <1>1, IdleBefore, SkipPlan DEF skip
<1> QED  BY <1>2, IdleBefore DEF Does

LEMMA MoveToDoes ==
  ASSUME NEW r, Idle(r), r.current # None, NEW to \in Nat \ {0}
  PROVE  Does(r, move_to(r, to), r.loaded)
<1>2. /\ Plan(move_to(r, to), r.requested, Dead(r), r.next_id, r.loaded, Place(r), r.paused, r.gen)
      /\ Fit(move_to(r, to)) /\ move_to(r, to).next_id = r.next_id
  BY IdleBefore, MoveToPlan
<1> QED  BY <1>2, IdleBefore DEF Does

LEMMA NextPreviousDoes ==
  ASSUME NEW r, Idle(r)
  PROVE  Does(r, next_chunk(r), r.loaded) /\ Does(r, previous_chunk(r), r.loaded)
<1>1. CASE r.current = None
  <2>1. Does(r, r, r.loaded)
    BY StillDoes, IdleBefore DEF Alike
  <2> QED  BY <1>1, <2>1 DEF next_chunk, previous_chunk
<1>2. CASE r.current # None
  <2>1. r.current.chunk \in Nat \ {0}
    BY <1>2, IdleBefore, CurrentFields DEF Fit, Viewable
  <2>2. \A to \in Nat \ {0} : Does(r, move_to(r, to), r.loaded)
    BY <1>2, MoveToDoes
  <2>3. r.current.chunk + 1 \in Nat \ {0}
        /\ (IF r.current.chunk > 1 THEN r.current.chunk - 1 ELSE 1) \in Nat \ {0}
    BY <2>1
  <2>4. Does(r, previous_chunk(r), r.loaded)
    BY <1>2, <2>2, <2>3 DEF previous_chunk
  <2>5. Does(r, next_chunk(r), r.loaded)
    BY <1>2, <2>2, <2>3, SkipDoes DEF next_chunk
  <2> QED  BY <2>4, <2>5
<1> QED  BY <1>1, <1>2

LEMMA LineStepDoes ==
  ASSUME NEW r, Idle(r), NEW next \in BOOLEAN
  PROVE  Does(r, line_step(r, next), r.loaded)
<1>1. CASE r.current = None \/ ~in_code(r)
  <2>1. Does(r, r, r.loaded)
    BY StillDoes, IdleBefore DEF Alike
  <2> QED  BY <1>1, <2>1 DEF line_step
<1>2. CASE ~(r.current = None \/ ~in_code(r))
  <2> DEFINE to == line_target(r, next)
             len == Len(r.current.item.chunks)
             s == [r EXCEPT !.paused = FALSE, !.step_wait = FALSE, !.released = FALSE]
  <2>1. r.current \in Current /\ r.current.chunk \in Nat \ {0}
    BY <1>2, IdleBefore, CurrentFields DEF Fit, Viewable
  <2>2. to \in Nat \ {0}
    BY <2>1 DEF line_target
  <2>3. line_step(r, next) = skip(s) \/ line_step(r, next) = move_to(s, to)
    BY <1>2 DEF line_step
  <2>4. /\ DOMAIN s = DOMAIN r /\ s.current = r.current /\ s.queue = r.queue /\ s.last = r.last
        /\ s.next_id = r.next_id /\ s.fx = r.fx /\ s.paused = FALSE /\ s.step_wait = FALSE
        /\ s.gen = r.gen /\ s.loaded = r.loaded /\ s.requested = r.requested
    BY IdleBefore DEF Fit, Viewable, Names
  <2> HIDE DEF s, to
  <2>5. Fit(s) /\ s.current # None
    BY <1>2, <2>4, IdleBefore DEF Fit, Viewable
  <2>6. Before(s, r.requested, Dead(r), r.next_id, r.loaded, r.gen)
    <3>1. \A i \in ItemId : Gone(r, i) => Gone(s, i)
      BY <2>4 DEF Gone
    <3> QED  BY <2>4, <3>1, IdleBefore, BeforeSame
  <2>7. Ordered(s, r.next_id)
    BY <2>4, IdleBefore DEF Ordered, Below
  <2>8. /\ Plan(move_to(s, to), r.requested, Dead(r), r.next_id, r.loaded, Place(r), r.paused, r.gen)
        /\ Fit(move_to(s, to)) /\ move_to(s, to).next_id = s.next_id
    BY <2>2, <2>5, <2>6, IdleBefore, MoveToPlan
  <2>9. "Skipped" # "Started"
    OBVIOUS
  <2>10. /\ Plan(skip(s), r.requested, Dead(r), r.next_id, r.loaded, Place(r), r.paused, r.gen)
         /\ Fit(skip(s)) /\ skip(s).next_id = s.next_id
    BY <2>5, <2>6, <2>7, <2>9, IdleBefore, SkipPlan DEF skip
  <2> QED  BY <2>3, <2>4, <2>8, <2>10, IdleBefore DEF Does
<1> QED  BY <1>1, <1>2

(* An item with a fresh id joins the queue.                                *)
LEMMA JoinBefore ==
  ASSUME NEW r, Fit(r), NEW item \in Item, NEW v, DOMAIN v = DOMAIN r,
         v.queue = <<item>> \o r.queue \/ v.queue = Append(r.queue, item),
         v.current = r.current, v.loaded = r.loaded, v.gen = r.gen, v.requested = r.requested,
         v.paused = r.paused, v.step_wait = r.step_wait, v.fx = r.fx,
         v.last \in Item \cup {None}, v.next_id \in ItemId,
         NEW D, NEW X, NEW n \in Nat, n <= item.id, NEW L, NEW G, Before(r, D, X, n, L, G)
  PROVE  Fit(v) /\ Before(v, D, X, n, L, G)
<1>1. r.queue \in Seq(Item)
  BY DEF Fit, Viewable
<1>2. v.queue \in Seq(Item) /\ \A k \in 1..Len(v.queue) : v.queue[k] = item
                                 \/ \E j \in 1..Len(r.queue) : v.queue[k] = r.queue[j]
  <2>1. CASE v.queue = Append(r.queue, item)
    BY <1>1, <2>1
  <2>2. CASE v.queue = <<item>> \o r.queue
    <3>1. v.queue \in Seq(Item) /\ Len(v.queue) = 1 + Len(r.queue)
      BY <1>1, <2>2
    <3>2. \A k \in 1..Len(v.queue) : k = 1 \/ (k - 1 \in 1..Len(r.queue) /\ v.queue[k] = r.queue[k - 1])
      BY <1>1, <2>2, <3>1
    <3>3. v.queue[1] = item
      BY <1>1, <2>2
    <3> QED  BY <3>1, <3>2, <3>3
  <2> QED  BY <2>1, <2>2
<1>3. Fit(v)
  BY <1>2 DEF Fit, Viewable
<1>4. \A i \in ItemId : Gone(r, i) /\ i < n => Gone(v, i)
  <2>1. item.id \in Nat
    BY DEF Item, ItemId
  <2>2. SUFFICES ASSUME NEW i \in ItemId, Gone(r, i), i < n PROVE Gone(v, i)
    OBVIOUS
  <2>3. item.id # i
    BY <2>1, <2>2 DEF ItemId
  <2> QED  BY <1>2, <2>2, <2>3, Zenon DEF Gone
<1>5. Before(v, D, X, n, L, G)
  BY <1>4, BeforeSame
<1> QED  BY <1>3, <1>5

LEMMA RestartDoes ==
  ASSUME NEW r, Idle(r)
  PROVE  Does(r, restart(r), r.loaded)
<1>1. CASE r.current # None
  <2>1. restart(r) = move_to(r, 1)
    BY <1>1 DEF restart
  <2> QED  BY <1>1, <2>1, MoveToDoes
<1>2. CASE r.current = None /\ r.last = None
  <2>1. Does(r, r, r.loaded)
    BY StillDoes, IdleBefore DEF Alike
  <2> QED  BY <1>2, <2>1 DEF restart
<1>3. CASE r.current = None /\ r.last # None
  <2> DEFINE item == [r.last EXCEPT !.id = r.next_id]
             v == [r EXCEPT !.queue = <<item>> \o @, !.next_id = @ + 1, !.last = None]
  <2>1. restart(r) = start_next(v)
    BY <1>3 DEF restart
  <2>2. r.last \in Item /\ r.next_id \in ItemId /\ r.next_id \in Nat
    BY <1>3, IdleBefore DEF Fit, Viewable, ItemId
  <2>3. item \in Item /\ item.id = r.next_id
    BY <2>2 DEF Item
  <2> HIDE DEF item
  <2>4. /\ DOMAIN v = DOMAIN r /\ v.current = r.current /\ v.queue = <<item>> \o r.queue
        /\ v.last = None /\ v.next_id = r.next_id + 1 /\ v.fx = r.fx
        /\ v.paused = r.paused /\ v.step_wait = r.step_wait
        /\ v.gen = r.gen /\ v.loaded = r.loaded /\ v.requested = r.requested
    BY IdleBefore DEF Fit, Viewable, Names
  <2> HIDE DEF v
  <2>5. r.next_id + 1 \in ItemId
    BY <2>2 DEF ItemId
  <2>6. Fit(v) /\ Before(v, r.requested, Dead(r), r.next_id, r.loaded, r.gen)
    BY <2>2, <2>3, <2>4, <2>5, IdleBefore, JoinBefore
  <2>7. v.loaded = None
    BY <1>3, <2>4, IdleBefore DEF IdleOK
  <2>8. /\ Plan(start_next(v), r.requested, Dead(r), r.next_id, r.loaded, Place(r), r.paused, r.gen)
        /\ Fit(start_next(v)) /\ start_next(v).next_id = v.next_id
    BY <2>6, <2>7, IdleBefore, StartNextPlan
  <2>9. Plan(start_next(v), r.requested, Dead(r), r.next_id + 1, r.loaded, Place(r), r.paused, r.gen)
    BY <2>2, <2>8, PlanMore
  <2> QED  BY <2>1, <2>2, <2>4, <2>8, <2>9 DEF Does
<1> QED  BY <1>1, <1>2, <1>3

LEMMA ControlDoes ==
  ASSUME NEW r, Idle(r), NEW c \in Control
  PROVE  Does(r, control(r, c), r.loaded)
<1>1. /\ Does(r, play(r), r.loaded) /\ Does(r, pause(r), r.loaded) /\ Does(r, stop(r), r.loaded)
      /\ Does(r, skip(r), r.loaded) /\ Does(r, r, r.loaded) /\ Does(r, restart(r), r.loaded)
      /\ Does(r, next_chunk(r), r.loaded) /\ Does(r, previous_chunk(r), r.loaded)
      /\ Does(r, mute(r), r.loaded) /\ Does(r, unmute(r), r.loaded)
      /\ Does(r, line_step(r, TRUE), r.loaded) /\ Does(r, line_step(r, FALSE), r.loaded)
  <2>1. Does(r, r, r.loaded)
    BY StillDoes, IdleBefore DEF Alike
  <2> QED  BY <2>1, PlayDoes, PauseDoes, StopDoes, SkipDoes, RestartDoes, NextPreviousDoes, MuteDoes,
              LineStepDoes
<1>2. PICK s : Does(r, s, r.loaded) /\ control(r, c) = finish(s)
  BY <1>1 DEF control, Control
<1> QED  BY <1>2, FinishDoes

LEMMA SpeakDoes ==
  ASSUME NEW r, Idle(r), NEW text \in Texts, NEW replace \in BOOLEAN, NEW interrupt \in BOOLEAN
  PROVE  Does(r, speak(r, text, replace, interrupt), r.loaded)
<1> DEFINE id == r.next_id
           chunks == text[r.chunking]
           item == [id |-> id, chunks |-> chunks]
           D == r.requested
           X == Dead(r)
           L == r.loaded
           P == Place(r)
           U == r.paused
           G == r.gen
           s == [r EXCEPT !.next_id = @ + 1]
           t == IF replace THEN drop_queue(s) ELSE s
           cut == end_current(t, "Skipped")
           queued == [t EXCEPT !.queue = Append(@, item)]
           first == [cut EXCEPT !.queue = <<item>> \o @]
           w == emit_item(s, id, "Skipped")
           m == id + 1
<1>1. chunks \in Seq(Kind) /\ id \in ItemId /\ id \in Nat \ {0} /\ m \in ItemId /\ m \in Nat /\ id < m
  <2>1. r.chunking \in Chunking
    BY DEF Idle, Good, Core, ReaderType
  <2> QED  BY <2>1, ReaderConstants, IdleBefore DEF ItemId
<1>2. speak(r, text, replace, interrupt) =
        CASE chunks = <<>> -> w
          [] chunks # <<>> /\ interrupt /\ t.current # None -> finish(start_next(first))
          [] OTHER -> finish(IF t.current = None THEN start_next(queued) ELSE queued)
  BY DEF speak
<1>3. /\ DOMAIN s = DOMAIN r /\ s.current = r.current /\ s.queue = r.queue /\ s.last = r.last
      /\ s.next_id = m /\ s.fx = r.fx /\ s.paused = r.paused /\ s.step_wait = r.step_wait
      /\ s.gen = r.gen /\ s.loaded = r.loaded /\ s.requested = r.requested
  BY IdleBefore DEF Fit, Viewable, Names
<1> HIDE DEF s, chunks
<1>4. Fit(s)
  BY <1>1, <1>3, IdleBefore DEF Fit, Viewable
<1>5. Before(s, D, X, id, L, G)
  <2>1. \A i \in ItemId : Gone(r, i) => Gone(s, i)
    BY <1>3 DEF Gone
  <2> QED  BY <1>3, <2>1, IdleBefore, BeforeSame
<1>6. Ordered(s, id)
  BY <1>3, IdleBefore DEF Ordered, Below
<1> HIDE DEF id, m
<1>7. /\ Fit(t) /\ Before(t, D, X, id, L, G) /\ t.current = r.current /\ t.loaded = r.loaded
      /\ t.next_id = m /\ t.paused = r.paused
  BY <1>3, <1>4, <1>5, <1>6, DropQueueBefore
<1>8. Ordered(t, id)
  <2>1. t.queue = <<>> \/ t.queue = s.queue
    BY <1>4, <1>5, <1>6, DropQueueBefore
  <2>2. t.queue = <<>> => Len(t.queue) = 0
    OBVIOUS
  <2>3. t.current = s.current
    BY <1>3, <1>7
  <2> HIDE DEF t
  <2> QED  BY <1>6, <2>1, <2>2, <2>3 DEF Ordered, Below
<1> HIDE DEF t
<1>9. CASE chunks = <<>>
  <2> DEFINE e == [op |-> "Item", item |-> id, phase |-> "Skipped"]
  <2>1. e.op = "Item" /\ e.item = id /\ e.phase = "Skipped"
    OBVIOUS
  <2> HIDE DEF e
  <2>2. /\ DOMAIN w = DOMAIN s /\ Alike(s, w) /\ w.last = s.last /\ w.next_id = s.next_id
        /\ w.fx = Append(s.fx, e) /\ w.requested = s.requested /\ w.step_wait = s.step_wait
    BY <1>4 DEF emit_item, emit, e, Fit, Viewable, Names, Alike
  <2> HIDE DEF w
  <2>3. More(s.fx, e, w.fx)
    BY <1>4, <2>2, OneMore DEF Fit, Viewable
  <2>4. Fit(w)
    BY <1>4, <2>2, <2>3 DEF Fit, Viewable, Alike, More
  <2>5. \A i : EndsItem(e, i) <=> i = id
    BY <2>1 DEF EndsItem
  <2>6. \A i : Gone(w, i) <=> Gone(s, i)
    BY <2>2 DEF Gone, Alike
  <2>7. Gone(s, id)
    <3>1. s.current # None => s.current.item.id \in Nat
      BY <1>4, CurrentFields DEF Fit, Viewable, ItemId
    <3>2. \A k \in 1..Len(s.queue) : s.queue[k].id \in Nat
      <4>1. s.queue \in Seq(Item) /\ \A i \in Item : i.id \in Nat
        BY <1>4 DEF Fit, Viewable, Item, ItemId
      <4> QED  BY <4>1
    <3>3. \A i \in Nat : i < id => i # id
      BY <1>1
    <3> QED  BY <1>6, <3>1, <3>2, <3>3 DEF Ordered, Below, Gone
  <2>8. \A k \in 1..Len(w.fx) : w.fx[k].op \in {"StopOutput", "Item"}
    <3>1. \A k \in 1..Len(s.fx) : s.fx[k].op \in {"StopOutput", "Item"}
      BY <1>5 DEF Before
    <3>2. \A k \in 1..Len(w.fx) : k \in 1..Len(s.fx) \/ k = Len(w.fx)
      BY <2>3 DEF More
    <3> QED  BY <2>1, <2>3, <3>1, <3>2, Zenon DEF More
  <2>9. Has(w.fx, "StopOutput") <=> Has(s.fx, "StopOutput")
    BY <2>1, <2>3 DEF More
  <2>10. \A p \in ChunkRef : p \in D => p[1] # id
    <3>1. RequestedOK(r) /\ IdsOK(r)
      BY DEF Idle, Good, Core
    <3>2. \A p \in D : p[1] < id
      BY <3>1 DEF RequestedOK, IsAlive, IdsOK, id
    <3> QED  BY <1>1, <3>2
  <2>11. \A p \in ChunkRef : p \in w.requested <=> p \in D /\ ~Ended(w.fx, p[1])
    BY <1>5, <2>2, <2>3, <2>5, <2>10 DEF Before, More
  <2>12. \A i \in ItemId : i \in X \/ Ended(w.fx, i) => Gone(w, i) /\ i < m
    <3>1. \A i \in ItemId : i < id => i < m
      BY <1>1 DEF ItemId
    <3> QED  BY <1>1, <1>5, <2>3, <2>5, <2>6, <2>7, <3>1 DEF Before, More
  <2>13. Before(w, D, X, m, L, G)
    BY <1>5, <2>2, <2>8, <2>9, <2>11, <2>12 DEF Before, Alike
  <2>14. Place(w) = P /\ w.paused = U
    BY <1>3, <2>2 DEF Place, Alike
  <2> HIDE DEF D, X, L, P, U, G
  <2>15. Plan(w, D, X, m, L, P, U, G)
    BY <2>4, <2>13, <2>14, BeforePlan
  <2>16. speak(r, text, replace, interrupt) = w
    BY <1>2, <1>9
  <2> QED  BY <1>1, <1>3, <2>2, <2>4, <2>15, <2>16 DEF Does, D, X, L, P, U, G, id
<1>10. CASE chunks # <<>>
  <2>1. item \in Item /\ item.id = id
    BY <1>1, <1>10 DEF Item
  <2> HIDE DEF item
  <2>2. L = None \/ L \in Nat
    BY IdleBefore
  <2>3. G \in Nat
    BY IdleBefore
  <2>4. "Skipped" # "Started"
    OBVIOUS
  <2>5. /\ Fit(cut) /\ Before(cut, D, X, id, L, G) /\ cut.loaded = None /\ cut.next_id = m
    BY <1>7, <1>8, <2>4, EndCurrentBefore
  <2> HIDE DEF cut
  <2>6. /\ Fit(first) /\ Before(first, D, X, id, L, G) /\ first.loaded = None /\ first.next_id = m
    <3>1. /\ DOMAIN first = DOMAIN cut /\ first.current = cut.current /\ first.queue = <<item>> \o cut.queue
          /\ first.last = cut.last /\ first.next_id = cut.next_id /\ first.fx = cut.fx
          /\ first.paused = cut.paused /\ first.step_wait = cut.step_wait
          /\ first.gen = cut.gen /\ first.loaded = cut.loaded /\ first.requested = cut.requested
      BY <2>5 DEF Fit, Viewable, Names
    <3> HIDE DEF first, D, X, L, G
    <3>2. first.last \in Item \cup {None} /\ first.next_id \in ItemId /\ id <= item.id
      BY <1>1, <2>1, <2>5, <3>1 DEF Fit, Viewable
    <3>3. Fit(first) /\ Before(first, D, X, id, L, G)
      BY <1>1, <2>1, <2>5, <3>1, <3>2, JoinBefore
    <3> QED  BY <2>5, <3>1, <3>3
  <2>7. /\ Fit(queued) /\ Before(queued, D, X, id, L, G) /\ queued.loaded = r.loaded
        /\ queued.next_id = m /\ queued.current = r.current /\ queued.paused = r.paused
    <3>1. /\ DOMAIN queued = DOMAIN t /\ queued.current = t.current /\ queued.queue = Append(t.queue, item)
          /\ queued.last = t.last /\ queued.next_id = t.next_id /\ queued.fx = t.fx
          /\ queued.paused = t.paused /\ queued.step_wait = t.step_wait
          /\ queued.gen = t.gen /\ queued.loaded = t.loaded /\ queued.requested = t.requested
      BY <1>7 DEF Fit, Viewable, Names
    <3> HIDE DEF queued, D, X, L, G
    <3>2. queued.last \in Item \cup {None} /\ queued.next_id \in ItemId /\ id <= item.id
      BY <1>1, <1>7, <2>1, <3>1 DEF Fit, Viewable
    <3>3. Fit(queued) /\ Before(queued, D, X, id, L, G)
      BY <1>1, <1>7, <2>1, <3>1, <3>2, JoinBefore
    <3> QED  BY <1>7, <3>1, <3>3
  <2> HIDE DEF first, queued
  <2>8. t.current = None => r.loaded = None
    BY <1>7, IdleBefore DEF IdleOK
  <2>9. Place(queued) = P
    BY <2>7 DEF Place
  <2>10. L = r.loaded /\ U = r.paused
    OBVIOUS
  <2> HIDE DEF D, X, L, P, U, G
  <2>11. /\ Plan(start_next(first), D, X, id, L, P, U, G) /\ Fit(start_next(first))
         /\ start_next(first).next_id = m
    BY <2>2, <2>3, <2>6, StartNextPlan
  <2>12. t.current = None => /\ Plan(start_next(queued), D, X, id, L, P, U, G)
                             /\ Fit(start_next(queued)) /\ start_next(queued).next_id = m
    BY <2>2, <2>3, <2>7, <2>8, StartNextPlan
  <2>13. Plan(queued, D, X, id, L, P, U, G)
    BY <2>7, <2>9, <2>10, BeforePlan
  <2>14. PICK z : /\ Plan(z, D, X, id, L, P, U, G) /\ Fit(z) /\ z.next_id = m
                  /\ speak(r, text, replace, interrupt) = finish(z)
    BY <1>2, <1>10, <2>7, <2>11, <2>12, <2>13
  <2>15. Plan(z, D, X, m, L, P, U, G)
    BY <1>1, <2>14, PlanMore
  <2>16. Does(r, z, r.loaded)
    BY <1>1, <2>14, <2>15 DEF Does, D, X, L, P, U, G, id
  <2> QED  BY <2>14, <2>16, FinishDoes
<1> QED  BY <1>9, <1>10

(* An event about what is loaded: L is what is loaded after it.            *)
LEMMA OnAudioDoes ==
  ASSUME NEW r, Idle(r), NEW e, NEW gen
  PROVE  Does(r, on_audio(r, e, gen), IF r.loaded = gen /\ e # "ChunkStarted" THEN None ELSE r.loaded)
<1> DEFINE c == [r.current EXCEPT !.played_any = TRUE]
           s == IF e # "Failed" /\ r.current # None
                THEN [r EXCEPT !.current.played_any = TRUE] ELSE r
           t == [s EXCEPT !.loaded = None]
<1>1. CASE r.loaded # gen
  <2>1. Does(r, r, r.loaded)
    BY StillDoes, IdleBefore DEF Alike
  <2> QED  BY <1>1, <2>1 DEF on_audio
<1>2. CASE r.loaded = gen
  <2>1. on_audio(r, e, gen) = finish(IF e = "ChunkStarted" THEN s ELSE advance(t))
    BY <1>2 DEF on_audio
  <2>2. r.current # None => /\ c \in Current /\ c # None /\ c.item = r.current.item
                            /\ c.chunk = r.current.chunk
    <3>1. r.current # None => c \in Current /\ c.item = r.current.item /\ c.chunk = r.current.chunk
      BY IdleBefore DEF Current, Fit, Viewable
    <3> HIDE DEF c
    <3> QED  BY <3>1, ReaderConstants
  <2>3. s = r \/ (r.current # None /\ s = [r EXCEPT !.current = c])
    BY IdleBefore DEF Fit, Viewable, Names
  <2> HIDE DEF s, c
  <2>4. /\ DOMAIN s = DOMAIN r /\ s.queue = r.queue /\ s.last = r.last
        /\ s.next_id = r.next_id /\ s.fx = r.fx /\ s.paused = r.paused /\ s.step_wait = r.step_wait
        /\ s.gen = r.gen /\ s.loaded = r.loaded /\ s.requested = r.requested
        /\ s.current = r.current \/ (r.current # None /\ s.current = c)
    BY <2>3, IdleBefore DEF Fit, Viewable, Names
  <2>5. Fit(s)
    BY <2>2, <2>4, IdleBefore DEF Fit, Viewable
  <2>6. \A i : Gone(r, i) => Gone(s, i)
    BY <2>2, <2>4 DEF Gone
  <2>7. Place(s) = Place(r)
    BY <2>2, <2>4 DEF Place
  <2>8. Before(s, r.requested, Dead(r), r.next_id, r.loaded, r.gen)
    BY <2>4, <2>6, IdleBefore, BeforeSame
  <2>9. Plan(s, r.requested, Dead(r), r.next_id, r.loaded, Place(r), r.paused, r.gen)
    BY <2>4, <2>5, <2>7, <2>8, BeforePlan
  <2>10. Does(r, s, r.loaded)
    BY <2>4, <2>5, <2>9, IdleBefore DEF Does
  <2>11. CASE e = "ChunkStarted"
    BY <2>1, <2>10, <2>11, FinishDoes
  <2>12. CASE e # "ChunkStarted"
    <3>1. /\ DOMAIN t = DOMAIN s /\ t.queue = s.queue /\ t.last = s.last /\ t.current = s.current
          /\ t.next_id = s.next_id /\ t.fx = s.fx /\ t.paused = s.paused /\ t.step_wait = s.step_wait
          /\ t.gen = s.gen /\ t.loaded = None /\ t.requested = s.requested
      BY <2>5 DEF Fit, Viewable, Names
    <3> HIDE DEF t
    <3>2. Fit(t)
      BY <2>5, <3>1 DEF Fit, Viewable
    <3>3. Len(r.fx) = 0
      BY SeqLen DEF Idle
    <3>4. Before(t, r.requested, Dead(r), r.next_id, None, r.gen)
      <4>1. \A i : Gone(s, i) => Gone(t, i)
        BY <3>1 DEF Gone
      <4> QED  BY <2>4, <2>8, <3>1, <4>1 DEF Before
    <3>5. Ordered(t, r.next_id)
      BY <2>2, <2>4, <3>1, IdleBefore DEF Ordered, Below
    <3>6. t.current = None => advance(t) = t
      BY DEF advance
    <3>7. t.current # None =>
            /\ Plan(advance(t), r.requested, Dead(r), r.next_id, None, Place(r), r.paused, r.gen)
            /\ Fit(advance(t)) /\ advance(t).next_id = t.next_id
      BY <3>1, <3>2, <3>4, <3>5, IdleBefore, AdvancePlan
    <3>8. Plan(t, r.requested, Dead(r), r.next_id, None, Place(r), r.paused, r.gen)
      BY <3>1, <3>2, <3>4, BeforePlan
    <3>9. Does(r, advance(t), None)
      BY <2>4, <3>1, <3>2, <3>6, <3>7, <3>8, IdleBefore DEF Does
    <3> QED  BY <1>2, <2>1, <2>12, <3>9, FinishDoes
  <2> QED  BY <2>11, <2>12
<1> QED  BY <1>1, <1>2

LEMMA CodeStepDoes ==
  ASSUME NEW r, Idle(r), NEW on
  PROVE  Does(r, set_code_step(r, on), r.loaded)
<1> DEFINE s == [r EXCEPT !.code_step = on]
<1>1. set_code_step(r, on) = finish(IF ~on /\ s.step_wait THEN resume(s) ELSE s)
  BY DEF set_code_step
<1>2. /\ DOMAIN s = DOMAIN r /\ Alike(r, s) /\ s.last = r.last /\ s.next_id = r.next_id
      /\ s.fx = r.fx /\ s.requested = r.requested /\ s.step_wait = r.step_wait
  BY IdleBefore DEF Fit, Viewable, Names, Alike
<1> HIDE DEF s
<1>3. Fit(s)
  BY <1>2, IdleBefore DEF Fit, Viewable, Alike
<1>4. /\ Does(r, s, r.loaded) /\ Before(s, r.requested, Dead(r), r.next_id, r.loaded, r.gen)
      /\ Place(s) = Place(r)
  BY <1>2, <1>3, StillDoes
<1>5. /\ Plan(resume(s), r.requested, Dead(r), r.next_id, r.loaded, Place(r), r.paused, r.gen)
      /\ Fit(resume(s)) /\ resume(s).next_id = s.next_id
  BY <1>3, <1>4, IdleBefore, ResumePlan
<1>6. Does(r, resume(s), r.loaded)
  BY <1>2, <1>5, IdleBefore DEF Does
<1> QED  BY <1>1, <1>4, <1>6, FinishDoes

-----------------------------------------------------------------------------
(* The queues.                                                             *)
Among(t, q) == \E k \in 1..Len(t) : t[k] = q

(* The entries kept of a queue are those at the places kept.               *)
LEMMA RetainLemma ==
  ASSUME NEW S, NEW t \in Seq(S), NEW K \in SUBSET (1..Len(t))
  PROVE  /\ retain(t, K) \in Seq(S)
         /\ \A q : Among(retain(t, K), q) <=> \E k \in K : t[k] = q
<1> DEFINE upto(k) == Cardinality({j \in K : j <= k})
           c == Cardinality(K)
           f == [k \in K |-> upto(k)]
           at(i) == CHOOSE k \in K : upto(k) = i
<1>0. Len(t) \in Nat /\ K \subseteq Nat /\ \A k \in K : t[k] \in S
  OBVIOUS
<1>1. IsFiniteSet(K) /\ c \in Nat
  <2>1. IsFiniteSet(1..Len(t))
    BY <1>0, FS_Interval
  <2>2. IsFiniteSet(K)
    BY <2>1, FS_Subset
  <2> QED  BY <2>2, FS_CardinalityType
<1>2. ASSUME NEW k \in K PROVE upto(k) \in 1..c /\ IsFiniteSet({j \in K : j <= k})
  <2> DEFINE T == {j \in K : j <= k}
  <2>1. T \in SUBSET K /\ k \in T
    OBVIOUS
  <2> HIDE DEF T
  <2>2. IsFiniteSet(T) /\ Cardinality(T) <= c /\ Cardinality(T) \in Nat
    BY <1>1, <2>1, FS_Subset, FS_CardinalityType
  <2>3. Cardinality(T) # 0
    BY <2>1, <2>2, FS_EmptySet
  <2>4. Cardinality(T) \in 1..c
    BY <1>1, <2>2, <2>3
  <2> QED  BY <2>2, <2>4 DEF T
<1>3. ASSUME NEW j \in K, NEW k \in K, j < k PROVE upto(j) # upto(k)
  <2> DEFINE A == {i \in K : i <= j}
             B == {i \in K : i <= k}
  <2>0. j \in Nat /\ k \in Nat /\ \A i \in K : i \in Nat
    BY <1>0
  <2>1. A \in SUBSET B /\ k \in B /\ k \notin A
    <3>1. \A i \in K : i <= j => i <= k
      BY <1>3, <2>0
    <3>2. k <= k /\ ~(k <= j)
      BY <1>3, <2>0
    <3> QED  BY <3>1, <3>2
  <2>2. IsFiniteSet(B)
    BY <1>2
  <2> HIDE DEF A, B
  <2>3. Cardinality(A) # Cardinality(B)
    BY <2>1, <2>2, FS_Subset
  <2> QED  BY <2>3 DEF A, B
<1>4. \A j, k \in K : upto(j) = upto(k) => j = k
  <2> HIDE DEF upto
  <2>1. \A j, k \in K : j < k \/ k < j \/ j = k
    OBVIOUS
  <2> QED  BY <1>3, <2>1
<1>5. \A i \in 1..c : \E k \in K : upto(k) = i
  <2> HIDE DEF upto
  <2>1. f \in [K -> 1..c]
    BY <1>2
  <2>2. f \in Injection(K, 1..c)
    BY <1>4, <2>1 DEF Injection, IsInjective
  <2>3. IsFiniteSet(1..c) /\ Cardinality(1..c) = c
    BY <1>1, FS_Interval
  <2>4. f \in Surjection(K, 1..c)
    <3> HIDE DEF f
    <3> QED  BY <2>2, <2>3, FS_Injection
  <2> QED  BY <2>4 DEF Surjection
<1>6. \A i \in 1..c : at(i) \in K /\ upto(at(i)) = i
  <2> HIDE DEF upto
  <2> QED  BY <1>5
<1>7. \A k \in K : at(upto(k)) = k
  <2> HIDE DEF upto
  <2> QED  BY <1>4
<1>8. retain(t, K) = [i \in 1..c |-> t[at(i)]]
  BY DEF retain
<1> HIDE DEF at, upto, c
<1>9. retain(t, K) \in Seq(S) /\ Len(retain(t, K)) = c
  <2>1. \A i \in 1..c : t[at(i)] \in S
    BY <1>0, <1>6
  <2> QED  BY <1>1, <1>8, <2>1
<1>10. ASSUME NEW q PROVE Among(retain(t, K), q) <=> \E k \in K : t[k] = q
  <2>1. ASSUME NEW i \in 1..c, t[at(i)] = q PROVE \E k \in K : t[k] = q
    BY <1>6, <2>1
  <2>2. ASSUME NEW k \in K, t[k] = q PROVE \E i \in 1..c : t[at(i)] = q
    BY <1>2, <1>7, <2>2
  <2> QED  BY <1>8, <1>9, <2>1, <2>2 DEF Among
<1> QED  BY <1>9, <1>10

(* A promoted entry stays in the queue, and so do the others.              *)
Promoted(t, p) ==
  LET at == {k \in 1..Len(t) : t[k] = p}
      position == CHOOSE k \in at : \A j \in at : k <= j
  IN [k \in 1..Len(t) |-> IF k = 1 THEN p ELSE IF k <= position THEN t[k - 1] ELSE t[k]]

LEMMA PromotedLemma ==
  ASSUME NEW S, NEW t \in Seq(S), NEW p, Among(t, p)
  PROVE  /\ Promoted(t, p) \in Seq(S)
         /\ \A q : Among(Promoted(t, p), q) <=> Among(t, q)
<1> DEFINE at == {k \in 1..Len(t) : t[k] = p}
           position == CHOOSE k \in at : \A j \in at : k <= j
           u == [k \in 1..Len(t) |->
                   IF k = 1 THEN p ELSE IF k <= position THEN t[k - 1] ELSE t[k]]
<1>1. at # {} /\ at \subseteq Nat /\ Len(t) \in Nat
  BY DEF Among
<1>2. \E k \in at : \A j \in at : k <= j
  <2> HIDE DEF at
  <2>1. PICK k \in at : \A j \in at : ~(<<j, k>> \in OpToRel(<, Nat))
    BY <1>1, NatLessThanWellFounded, WFMin
  <2>2. \A j \in at : <<j, k>> \in OpToRel(<, Nat) <=> j < k
    BY <1>1 DEF OpToRel
  <2>3. k \in Nat /\ \A j \in at : j \in Nat /\ ~(j < k)
    BY <1>1, <2>1, <2>2
  <2> QED  BY <2>3
<1>3. position \in at
  <2> HIDE DEF at
  <2> QED  BY <1>2
<1>4. position \in 1..Len(t) /\ t[position] = p
  BY <1>3
<1> HIDE DEF position, at
<1>5. u \in Seq(S) /\ Len(u) = Len(t)
  <2>1. \A k \in 1..Len(t) : u[k] \in S
    BY <1>4
  <2>2. u \in [1..Len(t) -> S]
    BY <2>1
  <2> HIDE DEF u
  <2> QED  BY <1>1, <2>2
<1>6. ASSUME NEW q PROVE Among(u, q) <=> Among(t, q)
  <2>1. ASSUME NEW k \in 1..Len(t), u[k] = q PROVE Among(t, q)
    <3>1. CASE k = 1
      BY <1>4, <2>1, <3>1 DEF Among
    <3>2. CASE k # 1 /\ k <= position
      <4>1. t[k - 1] = q /\ k - 1 \in 1..Len(t)
        BY <1>1, <2>1, <3>2
      <4> QED  BY <4>1 DEF Among
    <3>3. CASE k # 1 /\ ~(k <= position)
      BY <2>1, <3>3 DEF Among
    <3> QED  BY <3>1, <3>2, <3>3
  <2>2. ASSUME NEW k \in 1..Len(t), t[k] = q PROVE Among(u, q)
    <3>1. CASE k = position
      <4>1. 1 \in 1..Len(t) /\ u[1] = q
        BY <1>1, <1>4, <2>2, <3>1
      <4> HIDE DEF u
      <4> QED  BY <1>5, <4>1 DEF Among
    <3>2. CASE k < position
      <4>1. k + 1 \in 1..Len(t) /\ u[k + 1] = q
        BY <1>1, <1>4, <2>2, <3>2
      <4> HIDE DEF u
      <4> QED  BY <1>5, <4>1 DEF Among
    <3>3. CASE k > position
      <4>1. k \in 1..Len(t) /\ u[k] = q
        BY <1>1, <1>4, <2>2, <3>3
      <4> HIDE DEF u
      <4> QED  BY <1>5, <4>1 DEF Among
    <3> QED  BY <1>4, <3>1, <3>2, <3>3
  <2> HIDE DEF u
  <2> QED  BY <1>5, <2>1, <2>2 DEF Among
<1>7. u = Promoted(t, p)
  BY DEF Promoted, at, position
<1> HIDE DEF u
<1> QED  BY <1>5, <1>6, <1>7
-----------------------------------------------------------------------------
(* The threads' records.                                                   *)
Slots   == [st : {"Pending", "Streaming", "Ok", "Err"}, n : Nat]
Waiting == [p : ChunkRef, gen : Nat \ {0}, paused : BOOLEAN]
Opened  == [p : ChunkRef, gen : Nat \ {0}]

(* The threads' records are of their types.                                *)
Shape(m) ==
  /\ {"w", "s", "o"} \subseteq DOMAIN m
  /\ {"audio", "waiting", "open", "pending", "hold", "volume", "muted", "phase"} \subseteq DOMAIN m.w
  /\ {"tasks", "job", "cancelled", "made", "result", "closed", "exited", "streams"} \subseteq DOMAIN m.s
  /\ {"gen", "p", "n", "open", "paused", "started", "ended", "volume"} \subseteq DOMAIN m.o

OfWorker(w) ==
  /\ DOMAIN w.audio \subseteq ChunkRef /\ \A q \in DOMAIN w.audio : w.audio[q] \in Slots
  /\ w.waiting \in Waiting \cup {None} /\ w.open \in Opened \cup {None}
  /\ w.pending \in Seq(Nat \ {0}) /\ w.hold \in {"on", "over", None}
OfSynth(s) ==
  /\ s.tasks \in Seq(ChunkRef) /\ s.job \in ChunkRef \cup {None} /\ s.made \in Nat
  /\ s.cancelled \in BOOLEAN /\ s.streams \in BOOLEAN
  /\ s.result \in {"Ok", "Err", "Cancelled", None}
OfOutput(o) ==
  /\ o.gen \in (Nat \ {0}) \cup {None} /\ o.n \in Nat
  /\ o.open \in BOOLEAN /\ o.paused \in BOOLEAN /\ o.ended \in BOOLEAN
  /\ o.ended => o.gen # None

Typed(m) == Shape(m) /\ OfWorker(m.w) /\ OfSynth(m.s) /\ OfOutput(m.o)

St(m, p)  == SlotOf(m, p).st
Num(m, p) == SlotOf(m, p).n

(* What a call of the worker leaves as it was, but for the order of tasks. *)
Aside(m, n) ==
  /\ n.w.phase = m.w.phase
  /\ n.s.job = m.s.job /\ n.s.cancelled = m.s.cancelled /\ n.s.made = m.s.made
  /\ n.s.result = m.s.result /\ n.s.streams = m.s.streams
  /\ \A q : Among(n.s.tasks, q) <=> Among(m.s.tasks, q)

LEMMA SlotTypes ==
  ASSUME NEW m, Typed(m), NEW p
  PROVE  /\ Num(m, p) \in Nat
         /\ St(m, p) \in {"Pending", "Streaming", "Ok", "Err", "None"}
         /\ St(m, p) # "None" <=> p \in DOMAIN m.w.audio
         /\ Loadable(m, p) <=> St(m, p) \in {"Ok", "Err", "Streaming"}
BY DEF Typed, OfWorker, Slots, St, Num, SlotOf, NoSlot, Slot, Loadable

LEMMA PromoteLemma ==
  ASSUME NEW m, Typed(m), NEW p
  PROVE  LET n == promote(m, p)
         IN Typed(n) /\ Aside(m, n) /\ n.w = m.w /\ n.o = m.o
<1> DEFINE t == m.s.tasks
           at == {k \in 1..Len(t) : t[k] = p}
           u == Promoted(t, p)
           n == [m EXCEPT !.s.tasks = u]
<1>1. promote(m, p) = IF at = {} THEN m ELSE n
  BY DEF promote, Promoted
<1>2. t \in Seq(ChunkRef)
  BY DEF Typed, OfSynth
<1>3. at # {} => u \in Seq(ChunkRef) /\ \A q : Among(u, q) <=> Among(t, q)
  <2>1. at # {} => Among(t, p)
    BY DEF Among
  <2> HIDE DEF t
  <2> QED  BY <1>2, <2>1, PromotedLemma
<1> HIDE DEF at, u, t
<1>4. /\ DOMAIN n = DOMAIN m /\ n.w = m.w /\ n.o = m.o /\ DOMAIN n.s = DOMAIN m.s /\ n.s.tasks = u
      /\ n.s.job = m.s.job /\ n.s.cancelled = m.s.cancelled /\ n.s.made = m.s.made
      /\ n.s.result = m.s.result /\ n.s.streams = m.s.streams
  BY DEF Typed, Shape
<1> HIDE DEF n
<1>5. at # {} => Typed(n) /\ Aside(m, n)
  BY <1>3, <1>4 DEF Typed, Shape, OfSynth, Aside, t
<1> QED  BY <1>1, <1>4, <1>5 DEF Aside

(* What load comes to: the chunk waits, plays or fails.                    *)
Waits(m, n, p, g) ==
  /\ n.w.waiting = Wait(p, g, FALSE) /\ n.w.open = None
  /\ n.o = m.o /\ n.w.pending = m.w.pending
  /\ St(m, p) = "Pending" \/ n.w.hold # None
Plays(m, n, p, g) ==
  /\ n.w.waiting = m.w.waiting /\ n.w.pending = m.w.pending
  /\ St(m, p) \in {"Ok", "Streaming"}
  /\ n.w.open = IF St(m, p) = "Streaming" THEN [p |-> p, gen |-> g] ELSE None
  /\ n.o.gen = g /\ n.o.p = p /\ n.o.n = Num(m, p)
  /\ n.o.open = (St(m, p) = "Streaming") /\ n.o.paused = FALSE /\ n.o.ended = FALSE
Fails(m, n, p, g) ==
  /\ n.w.waiting = m.w.waiting /\ n.w.open = None /\ n.o = m.o
  /\ n.w.pending = Append(m.w.pending, g) /\ St(m, p) = "Err"
Loads(m, n, p, g) ==
  /\ Typed(n) /\ Aside(m, n) /\ n.w.audio = m.w.audio
  /\ Waits(m, n, p, g) \/ Plays(m, n, p, g) \/ Fails(m, n, p, g)

LEMMA LoadLemma ==
  ASSUME NEW m, Typed(m), NEW p \in DOMAIN m.w.audio, NEW g \in Nat \ {0}
  PROVE  Loads(m, load(m, p, g), p, g)
<1> DEFINE slot == SlotOf(m, p)
           wait == Wait(p, g, FALSE)
           h == IF p[2] = 1 THEN None ELSE m.w.hold
           kept == [m EXCEPT !.w.open = None, !.w.waiting = wait]
           m1 == [m EXCEPT !.w.open = None, !.w.hold = h]
           late == [m1 EXCEPT !.w.waiting = wait]
           failed == [m1 EXCEPT !.w.pending = Append(@, g)]
           opened == [m1 EXCEPT !.w.open = [p |-> p, gen |-> g]]
           held == p[2] = 1 /\ m.w.hold = "on"
<1>1. /\ p \in ChunkRef /\ St(m, p) \in {"Pending", "Streaming", "Ok", "Err"} /\ Num(m, p) \in Nat
      /\ slot.st = St(m, p) /\ slot.n = Num(m, p)
  BY SlotTypes DEF Typed, OfWorker, St, Num
<1>2. wait \in Waiting /\ [p |-> p, gen |-> g] \in Opened /\ wait # None
  <2>1. wait \in Waiting /\ [p |-> p, gen |-> g] \in Opened
    BY <1>1 DEF Wait, Waiting, Opened
  <2>2. None \notin Waiting
    BY WorkerNone DEF Waiting
  <2> HIDE DEF wait
  <2> QED  BY <2>1, <2>2
<1>0. h \in {"on", "over", None}
  BY DEF Typed, OfWorker
<1>3. load(m, p, g) =
        CASE held -> IF slot.st = "Pending" THEN promote(kept, p) ELSE kept
          [] ~held /\ slot.st = "Ok" -> output_play(m1, p, g, slot.n, FALSE)
          [] ~held /\ slot.st = "Streaming" -> output_play(opened, p, g, slot.n, TRUE)
          [] ~held /\ slot.st = "Pending" -> promote(late, p)
          [] OTHER -> failed
  BY DEF load
<1> HIDE DEF slot
<1>4. CASE held
  <2>1. /\ DOMAIN kept = DOMAIN m /\ DOMAIN kept.w = DOMAIN m.w /\ kept.s = m.s /\ kept.o = m.o
        /\ kept.w.open = None /\ kept.w.waiting = wait /\ kept.w.audio = m.w.audio
        /\ kept.w.pending = m.w.pending /\ kept.w.hold = "on" /\ kept.w.phase = m.w.phase
    BY <1>4 DEF Typed, Shape
  <2> HIDE DEF kept, wait
  <2>2. Typed(kept)
    BY <1>2, <2>1 DEF Typed, Shape, OfWorker
  <2>3. Aside(m, kept) /\ None # "on"
    BY <2>1, WorkerNone DEF Aside
  <2> DEFINE n == promote(kept, p)
  <2>4. Typed(n) /\ Aside(kept, n) /\ n.w = kept.w /\ n.o = kept.o
    BY <2>2, PromoteLemma
  <2> HIDE DEF n
  <2>5. Loads(m, n, p, g) /\ Loads(m, kept, p, g)
    BY <2>1, <2>2, <2>3, <2>4 DEF Loads, Aside, Waits, wait
  <2> QED  BY <1>3, <1>4, <2>5 DEF n
<1>5. CASE ~held
  <2>1. /\ DOMAIN m1 = DOMAIN m /\ DOMAIN m1.w = DOMAIN m.w /\ m1.s = m.s /\ m1.o = m.o
        /\ m1.w.open = None /\ m1.w.waiting = m.w.waiting /\ m1.w.audio = m.w.audio
        /\ m1.w.pending = m.w.pending /\ m1.w.hold = h /\ m1.w.phase = m.w.phase
    BY DEF Typed, Shape
  <2> HIDE DEF m1, h
  <2>2. Typed(m1) /\ Aside(m, m1)
    BY <1>0, <2>1 DEF Typed, Shape, OfWorker, Aside
  <2>3. CASE slot.st = "Ok"
    <3> DEFINE n == output_play(m1, p, g, slot.n, FALSE)
    <3>1. /\ DOMAIN n = DOMAIN m1 /\ n.w = m1.w /\ n.s = m1.s
          /\ {"gen", "p", "n", "open", "paused", "started", "ended", "volume"} \subseteq DOMAIN n.o
          /\ n.o.gen = g /\ n.o.p = p /\ n.o.n = slot.n /\ n.o.open = FALSE /\ n.o.paused = FALSE
          /\ n.o.ended = FALSE
      BY <2>1, <2>2 DEF output_play, EmptyOutput, Typed, Shape
    <3> HIDE DEF n
    <3>2. Typed(n)
      BY <1>1, <2>2, <3>1 DEF Typed, Shape, OfOutput
    <3>3. Loads(m, n, p, g)
      BY <1>1, <2>1, <2>2, <2>3, <3>1, <3>2 DEF Loads, Aside, Plays
    <3> QED  BY <1>3, <1>5, <2>3, <3>3 DEF n
  <2>4. CASE slot.st = "Streaming"
    <3> DEFINE n == output_play(opened, p, g, slot.n, TRUE)
    <3>0. /\ DOMAIN opened = DOMAIN m1 /\ DOMAIN opened.w = DOMAIN m1.w /\ opened.s = m1.s
          /\ opened.w.open = [p |-> p, gen |-> g] /\ opened.w.waiting = m1.w.waiting
          /\ opened.w.audio = m1.w.audio /\ opened.w.pending = m1.w.pending
          /\ opened.w.hold = m1.w.hold /\ opened.w.phase = m1.w.phase /\ opened.o = m1.o
      BY <2>1, <2>2 DEF Typed, Shape
    <3> HIDE DEF opened
    <3>1. /\ DOMAIN n = DOMAIN opened /\ n.w = opened.w /\ n.s = opened.s
          /\ {"gen", "p", "n", "open", "paused", "started", "ended", "volume"} \subseteq DOMAIN n.o
          /\ n.o.gen = g /\ n.o.p = p /\ n.o.n = slot.n /\ n.o.open = TRUE /\ n.o.paused = FALSE
          /\ n.o.ended = FALSE
      BY <2>1, <2>2, <3>0 DEF output_play, EmptyOutput, Typed, Shape
    <3> HIDE DEF n
    <3>2. Typed(n)
      BY <1>1, <1>2, <2>2, <3>0, <3>1 DEF Typed, Shape, OfOutput, OfWorker
    <3>3. Loads(m, n, p, g)
      BY <1>1, <2>1, <2>2, <2>4, <3>0, <3>1, <3>2 DEF Loads, Aside, Plays
    <3> QED  BY <1>3, <1>5, <2>4, <3>3 DEF n
  <2>5. CASE slot.st = "Pending"
    <3> DEFINE n == promote(late, p)
    <3>0. /\ DOMAIN late = DOMAIN m1 /\ DOMAIN late.w = DOMAIN m1.w /\ late.s = m1.s
          /\ late.w.open = m1.w.open /\ late.w.waiting = wait
          /\ late.w.audio = m1.w.audio /\ late.w.pending = m1.w.pending
          /\ late.w.hold = m1.w.hold /\ late.w.phase = m1.w.phase /\ late.o = m1.o
      BY <2>1, <2>2 DEF Typed, Shape
    <3> HIDE DEF late, wait
    <3>1. Typed(late)
      BY <1>2, <2>2, <3>0 DEF Typed, Shape, OfWorker
    <3>2. Typed(n) /\ Aside(late, n) /\ n.w = late.w /\ n.o = late.o
      BY <3>1, PromoteLemma
    <3> HIDE DEF n
    <3>3. Loads(m, n, p, g)
      BY <1>1, <2>1, <2>2, <2>5, <3>0, <3>2 DEF Loads, Aside, Waits, wait
    <3> QED  BY <1>3, <1>5, <2>5, <3>3 DEF n
  <2>6. CASE slot.st = "Err"
    <3> DEFINE n == failed
    <3>0. /\ DOMAIN n = DOMAIN m1 /\ DOMAIN n.w = DOMAIN m1.w /\ n.s = m1.s
          /\ n.w.open = m1.w.open /\ n.w.waiting = m1.w.waiting
          /\ n.w.audio = m1.w.audio /\ n.w.pending = Append(m1.w.pending, g)
          /\ n.w.hold = m1.w.hold /\ n.w.phase = m1.w.phase /\ n.o = m1.o
      BY <2>1, <2>2 DEF Typed, Shape
    <3> HIDE DEF n, failed
    <3>1. Append(m1.w.pending, g) \in Seq(Nat \ {0})
      BY <2>2 DEF Typed, OfWorker
    <3>2. Typed(n)
      BY <2>2, <3>0, <3>1 DEF Typed, Shape, OfWorker
    <3>3. Loads(m, n, p, g)
      BY <1>1, <2>1, <2>2, <2>6, <3>0, <3>2 DEF Loads, Aside, Fails
    <3> QED  BY <1>3, <1>5, <2>6, <3>3 DEF n
  <2> QED  BY <1>1, <2>3, <2>4, <2>5, <2>6
<1> QED  BY <1>4, <1>5

-----------------------------------------------------------------------------
(* One effect carried out.                                                 *)
Less(fx, e, t) ==
  /\ Len(t) \in Nat /\ Len(fx) = Len(t) + 1
  /\ fx[1] = e /\ \A k \in 1..Len(t) : k + 1 \in 1..Len(fx) /\ t[k] = fx[k + 1]
  /\ \A i : Ended(fx, i) <=> EndsItem(e, i) \/ Ended(t, i)
  /\ \A p : MadeBy(fx, p) <=> Makes(e, p) \/ MadeBy(t, p)
  /\ \A op : Has(fx, op) <=> e.op = op \/ Has(t, op)

LEMMA OneLess ==
  ASSUME NEW S, NEW fx \in Seq(S), fx # <<>>
  PROVE  Less(fx, Head(fx), Tail(fx)) /\ Head(fx) \in S /\ Tail(fx) \in Seq(S)
<1> DEFINE e == Head(fx)
           t == Tail(fx)
<1>1. /\ Len(t) \in Nat /\ Len(fx) = Len(t) + 1 /\ e = fx[1] /\ e \in S /\ t \in Seq(S)
      /\ \A k \in 1..Len(t) : t[k] = fx[k + 1]
  OBVIOUS
<1> HIDE DEF e, t
<1>2. \A k : k \in 1..Len(fx) <=> k = 1 \/ \E j \in 1..Len(t) : k = j + 1
  <2>1. ASSUME NEW k \in 1..Len(fx), k # 1 PROVE \E j \in 1..Len(t) : k = j + 1
    <3>1. k - 1 \in 1..Len(t) /\ k = (k - 1) + 1
      BY <1>1, <2>1
    <3> QED  BY <3>1
  <2>2. 1 \in 1..Len(fx) /\ \A j \in 1..Len(t) : j + 1 \in 1..Len(fx)
    BY <1>1
  <2> QED  BY <2>1, <2>2
<1>3. \A j \in 1..Len(t) : j + 1 \in 1..Len(fx) /\ t[j] = fx[j + 1]
  BY <1>1, <1>2
<1>4. \A i : Ended(fx, i) <=> EndsItem(e, i) \/ Ended(t, i)
  BY <1>1, <1>2, <1>3, Zenon DEF Ended
<1>5. \A p : MadeBy(fx, p) <=> Makes(e, p) \/ MadeBy(t, p)
  BY <1>1, <1>2, <1>3, Zenon DEF MadeBy
<1>6. \A op : Has(fx, op) <=> e.op = op \/ Has(t, op)
  <2>1. ASSUME NEW op, NEW k \in 1..Len(fx), fx[k].op = op PROVE e.op = op \/ Has(t, op)
    <3>1. CASE k = 1
      BY <1>1, <2>1, <3>1
    <3>2. ASSUME NEW j \in 1..Len(t), k = j + 1 PROVE Has(t, op)
      BY <1>3, <2>1, <3>2 DEF Has
    <3> QED  BY <1>2, <3>1, <3>2
  <2>2. ASSUME NEW op, NEW j \in 1..Len(t), t[j].op = op PROVE Has(fx, op)
    BY <1>3, <2>2 DEF Has
  <2>3. ASSUME NEW op, e.op = op PROVE Has(fx, op)
    <3>1. 1 \in 1..Len(fx) /\ fx[1].op = op
      BY <1>1, <1>2, <2>3
    <3> QED  BY <3>1 DEF Has
  <2> QED  BY <2>1, <2>2, <2>3 DEF Has
<1> QED  BY <1>1, <1>3, <1>4, <1>5, <1>6 DEF Less, e, t

-----------------------------------------------------------------------------
(* What is loaded was played before the effects that are left.             *)
Kept(r) == r.loaded # None /\ ~Has(r.fx, "PlayChunk")
(* What is left of the effects of a call, with audio kept of the chunks D. *)
Fx(r, D) ==
  /\ Requested(r, D, {}, r.next_id) /\ Played(r, D, 0)
  /\ Kept(r) => ~Has(r.fx, "StopOutput")
  /\ Has(r.fx, "PauseOutput") => Kept(r) /\ r.paused
  /\ Has(r.fx, "ResumeOutput") => Kept(r) /\ ~r.paused

(* The chunks whose audio is kept once e is carried out.                   *)
Keeps(D, e, E) ==
  /\ \A p : Makes(e, p) => E = D \cup {p}
  /\ \A i : EndsItem(e, i) => E = {q \in D : q[1] # i}
  /\ e.op # "Synthesize" /\ ~(e.op = "Item" /\ e.phase # "Started") => E = D

(* The effect carried out, and what is left.                               *)
Popped(r) == [r EXCEPT !.fx = Tail(@)]

(* What the first effect says of the reader and of the effects after it.   *)
Says(r, D, e) ==
  /\ e \in Effect
  /\ \A p : Makes(e, p) => p \in ChunkRef /\ p \notin D /\ ~Gone(r, p[1])
  /\ \A i : EndsItem(e, i) => i \in ItemId /\ Gone(r, i) /\ i < r.next_id
  /\ e.op = "PlayChunk" =>
       /\ r.current # None /\ ~r.paused /\ r.loaded = r.gen /\ r.loaded # None
       /\ e.gen = r.gen /\ r.gen \in Nat \ {0} /\ <<e.item, e.chunk>> = Place(r) /\ Place(r) \in D
       /\ Kept(Popped(r)) /\ ~Has(r.fx, "StopOutput")
  /\ e.op = "StopOutput" => ~Kept(r) /\ ~Kept(Popped(r))
  /\ e.op \in {"PauseOutput", "ResumeOutput"} => Kept(r) /\ r.paused = (e.op = "PauseOutput")

LEMMA PoppedFields ==
  ASSUME NEW r, Good(r), ShownOK(r), r.fx # <<>>
  PROVE  LET t == Popped(r) e == Head(r.fx)
         IN /\ Good(t) /\ ShownOK(t) /\ Less(r.fx, e, t.fx) /\ e \in Effect
            /\ t.current = r.current /\ t.queue = r.queue /\ t.gen = r.gen /\ t.loaded = r.loaded
            /\ t.paused = r.paused /\ t.requested = r.requested /\ t.next_id = r.next_id
<1> DEFINE t == Popped(r)
<1>1. r \in ReaderType /\ r.fx \in Seq(Effect)
  BY Fields DEF Good, Core, Effects
<1>2. Less(r.fx, Head(r.fx), Tail(r.fx)) /\ Head(r.fx) \in Effect /\ Tail(r.fx) \in Effects
  BY <1>1, OneLess DEF Effects
<1>3. /\ t \in ReaderType /\ Frame(r, t) /\ t.requested = r.requested /\ t.fx = Tail(r.fx)
      /\ t.shown = r.shown
  <2> DEFINE f == Tail(r.fx)
  <2>1. Popped(r) = [r EXCEPT !.fx = f] /\ f \in Effects
    BY <1>2 DEF Popped
  <2> HIDE DEF f
  <2>2. t \in ReaderType
    BY <1>1, <2>1 DEF ReaderType
  <2>3. /\ Frame(r, t) /\ t.requested = r.requested /\ t.fx = f /\ t.shown = r.shown
    BY <1>1, <2>1 DEF ReaderType, Frame
  <2> QED  BY <2>2, <2>3 DEF f
<1>4. snapshot(t) = snapshot(r)
  BY <1>1 DEF Popped, ReaderType, snapshot, in_code
<1>5. Good(t) /\ ShownOK(t)
  BY <1>3, <1>4, CoreFrame, FlagsFrame DEF Good, ShownOK
<1> QED  BY <1>2, <1>3, <1>5 DEF Frame

LEMMA AliveNotGone ==
  ASSUME NEW r, RequestedOK(r), NEW p \in r.requested
  PROVE  ~Gone(r, p[1])
BY DEF RequestedOK, IsAlive, Gone

LEMMA EffectParts ==
  ASSUME NEW e \in Effect
  PROVE  /\ \A p : Makes(e, p) => p \in ChunkRef /\ e.op = "Synthesize"
         /\ \A i : EndsItem(e, i) => i \in ItemId /\ e.op = "Item" /\ e.phase # "Started"
         /\ e.op = "Synthesize" => Makes(e, <<e.item, e.chunk>>)
         /\ e.op = "Item" /\ e.phase # "Started" => EndsItem(e, e.item)
<1>1. e.op = "Synthesize" => e.item \in ItemId /\ e.chunk \in Nat \ {0}
  BY DEF Effect
<1>2. e.op = "Item" => e.item \in ItemId
  BY DEF Effect
<1> QED  BY <1>1, <1>2 DEF Makes, EndsItem, ChunkRef

LEMMA SaysLemma ==
  ASSUME NEW r, Good(r), ShownOK(r), r.fx # <<>>, NEW D \in SUBSET ChunkRef, Fx(r, D)
  PROVE  Says(r, D, Head(r.fx))
<1> DEFINE e == Head(r.fx)
           t == Popped(r)
<1>1. /\ Less(r.fx, e, t.fx) /\ e \in Effect
      /\ t.current = r.current /\ t.gen = r.gen /\ t.loaded = r.loaded /\ t.paused = r.paused
  BY PoppedFields
<1>2. RequestedOK(r) /\ LoadedOK(r) /\ r.gen \in Nat /\ None \notin Nat
  BY Fields, ReaderConstants DEF Good, Core
<1> HIDE DEF e, t
<1>3. 1 \in 1..Len(r.fx) /\ r.fx[1] = e /\ Len(t.fx) \in Nat /\ Len(r.fx) = Len(t.fx) + 1
  BY <1>1 DEF Less
<1>4. \A p : Makes(e, p) => p \in ChunkRef /\ p \notin D /\ ~Gone(r, p[1])
  <2>1. ASSUME NEW p, Makes(e, p) PROVE p \in ChunkRef /\ p \notin D /\ p \in r.requested
    <3>1. p \in ChunkRef /\ MadeBy(r.fx, p)
      BY <1>1, <2>1, EffectParts DEF Less
    <3> QED  BY <3>1 DEF Fx, Requested
  <2> QED  BY <1>2, <2>1, AliveNotGone
<1>5. \A i : EndsItem(e, i) => i \in ItemId /\ Gone(r, i) /\ i < r.next_id
  <2>1. ASSUME NEW i, EndsItem(e, i) PROVE i \in ItemId /\ Ended(r.fx, i)
    BY <1>1, <2>1, EffectParts DEF Less
  <2> QED  BY <2>1 DEF Fx, Requested
<1>6. CASE e.op = "PlayChunk"
  <2>1. /\ r.current # None /\ ~r.paused
        /\ r.loaded = r.gen /\ e.gen = r.gen /\ r.gen > 0
        /\ <<e.item, e.chunk>> = Place(r)
        /\ Place(r) \in D \/ \E j \in 1..Len(r.fx) : j < 1 /\ Makes(r.fx[j], Place(r))
        /\ \A j \in 1..Len(r.fx) : /\ r.fx[j].op = "PlayChunk" => j = 1
                                   /\ r.fx[j].op = "StopOutput" => j < 1
    BY <1>3, <1>6 DEF Fx, Played
  <2>2. \A j \in 1..Len(r.fx) : ~(j < 1)
    BY <1>3
  <2>3. ~Has(r.fx, "StopOutput") /\ Place(r) \in D
    BY <2>1, <2>2 DEF Has
  <2>4. ~Has(t.fx, "PlayChunk")
    <3>1. ASSUME NEW k \in 1..Len(t.fx), t.fx[k].op = "PlayChunk" PROVE FALSE
      <4>1. k + 1 \in 1..Len(r.fx) /\ r.fx[k + 1].op = "PlayChunk"
        BY <1>1, <3>1 DEF Less
      <4>2. k + 1 = 1 /\ k \in 1..Len(t.fx)
        BY <2>1, <4>1
      <4> QED  BY <1>3, <4>2
    <3> QED  BY <3>1 DEF Has
  <2>5. r.gen \in Nat \ {0} /\ r.loaded # None
    BY <1>2, <2>1
  <2>6. Kept(t)
    BY <1>1, <2>4, <2>5 DEF Kept
  <2> QED  BY <1>1, <1>4, <1>5, <1>6, <2>1, <2>3, <2>5, <2>6 DEF Says, e, t
<1>7. e.op = "StopOutput" => ~Kept(r) /\ ~Kept(t)
  <2>1. e.op = "StopOutput" => Has(r.fx, "StopOutput") /\ (Has(t.fx, "PlayChunk") <=> Has(r.fx, "PlayChunk"))
    BY <1>1 DEF Less
  <2> QED  BY <1>1, <2>1 DEF Fx, Kept
<1>8. e.op \in {"PauseOutput", "ResumeOutput"} => Kept(r) /\ r.paused = (e.op = "PauseOutput")
  <2>1. r.paused \in BOOLEAN
    BY Fields DEF Good, Core
  <2>2. e.op \in {"PauseOutput", "ResumeOutput"} => Has(r.fx, e.op)
    BY <1>1 DEF Less
  <2> QED  BY <2>1, <2>2 DEF Fx
<1> QED  BY <1>1, <1>4, <1>5, <1>6, <1>7, <1>8 DEF Says, e, t

(* What is left of the effects is as it should be.                         *)
LEMMA RestLemma ==
  ASSUME NEW r, Good(r), ShownOK(r), r.fx # <<>>, NEW D \in SUBSET ChunkRef, Fx(r, D),
         NEW E, Keeps(D, Head(r.fx), E)
  PROVE  Fx(Popped(r), E)
<1> DEFINE e == Head(r.fx)
           t == Popped(r)
<1>1. /\ Less(r.fx, e, t.fx) /\ e \in Effect
      /\ t.current = r.current /\ t.queue = r.queue /\ t.gen = r.gen /\ t.loaded = r.loaded
      /\ t.paused = r.paused /\ t.requested = r.requested /\ t.next_id = r.next_id
  BY PoppedFields
<1>2. RequestedOK(r) /\ Says(r, D, e)
  BY SaysLemma DEF Good, Core
<1>0. Keeps(D, e, E)
  OBVIOUS
<1> HIDE DEF e, t
<1>3. /\ Len(t.fx) \in Nat /\ Len(r.fx) = Len(t.fx) + 1 /\ r.fx[1] = e
      /\ \A k \in 1..Len(t.fx) : k + 1 \in 1..Len(r.fx) /\ t.fx[k] = r.fx[k + 1]
  BY <1>1 DEF Less
<1>4. \A i : Gone(t, i) <=> Gone(r, i)
  BY <1>1 DEF Gone
<1>5. ASSUME NEW p \in ChunkRef PROVE p \in E <=> Makes(e, p) \/ (p \in D /\ ~EndsItem(e, p[1]))
  <2>1. CASE \E q : Makes(e, q)
    <3>1. PICK q : Makes(e, q)
      BY <2>1
    <3>2. E = D \cup {q} /\ e.op = "Synthesize" /\ (Makes(e, p) <=> p = q)
      BY <1>0, <3>1 DEF Keeps, Makes
    <3> QED  BY <3>2 DEF EndsItem
  <2>2. CASE \E i : EndsItem(e, i)
    <3>1. PICK i : EndsItem(e, i)
      BY <2>2
    <3>2. E = {q \in D : q[1] # i} /\ e.op = "Item" /\ (EndsItem(e, p[1]) <=> p[1] = i)
      BY <1>0, <3>1 DEF Keeps, EndsItem
    <3> QED  BY <3>2 DEF Makes
  <2>3. CASE ~(\E q : Makes(e, q)) /\ ~(\E i : EndsItem(e, i))
    <3>1. e.op # "Synthesize" /\ ~(e.op = "Item" /\ e.phase # "Started")
      BY <1>1, <2>3, EffectParts
    <3> QED  BY <1>0, <2>3, <3>1 DEF Keeps
  <2> QED  BY <2>1, <2>2, <2>3
<1>6. Requested(t, E, {}, t.next_id)
  <2>1. ASSUME NEW i \in ItemId, Ended(t.fx, i) PROVE Gone(t, i) /\ i < t.next_id
    BY <1>1, <1>4, <2>1 DEF Fx, Requested, Less
  <2>2. ASSUME NEW p \in ChunkRef
        PROVE  p \in t.requested <=> (p \in E /\ ~Ended(t.fx, p[1])) \/ MadeBy(t.fx, p)
    <3>1. p \in r.requested <=> (p \in D /\ ~Ended(r.fx, p[1])) \/ MadeBy(r.fx, p)
      BY DEF Fx, Requested
    <3>2. /\ MadeBy(r.fx, p) <=> Makes(e, p) \/ MadeBy(t.fx, p)
          /\ Ended(r.fx, p[1]) <=> EndsItem(e, p[1]) \/ Ended(t.fx, p[1])
      BY <1>1 DEF Less
    <3>3. Makes(e, p) => ~Ended(t.fx, p[1])
      <4>1. p[1] \in ItemId
        BY DEF ChunkRef
      <4> QED  BY <1>2, <1>4, <2>1, <4>1 DEF Says
    <3> QED  BY <1>1, <1>5, <3>1, <3>2, <3>3
  <2>3. ASSUME NEW p \in ChunkRef, MadeBy(t.fx, p) PROVE p \notin E
    <3>1. p \notin D
      BY <1>1, <2>3 DEF Fx, Requested, Less
    <3>2. ~Makes(e, p)
      <4>1. PICK k \in 1..Len(t.fx) : Makes(t.fx[k], p)
        BY <2>3 DEF MadeBy
      <4>2. k + 1 \in 1..Len(r.fx) /\ Makes(r.fx[k + 1], p)
        BY <1>3, <4>1
      <4>3. Makes(r.fx[1], p) /\ 1 \in 1..Len(r.fx) => 1 = k + 1
        BY <4>2 DEF Fx, Requested
      <4>4. k \in 1..Len(t.fx) /\ Len(t.fx) \in Nat
        BY <1>3
      <4>5. 1 # k + 1 /\ 1 \in 1..Len(r.fx)
        BY <1>3, <4>4
      <4> QED  BY <1>3, <4>3, <4>5
    <3> QED  BY <1>5, <3>1, <3>2
  <2>4. ASSUME NEW p \in ChunkRef, NEW j \in 1..Len(t.fx), NEW k \in 1..Len(t.fx),
               Makes(t.fx[j], p), Makes(t.fx[k], p)
        PROVE  j = k
    <3>1. /\ j + 1 \in 1..Len(r.fx) /\ Makes(r.fx[j + 1], p)
          /\ k + 1 \in 1..Len(r.fx) /\ Makes(r.fx[k + 1], p)
      BY <1>3, <2>4
    <3>2. j + 1 = k + 1
      BY <3>1 DEF Fx, Requested
    <3> QED  BY <1>3, <3>2
  <2> QED  BY <2>1, <2>2, <2>3, <2>4 DEF Requested
<1>7. Played(t, E, 0)
  <2> SUFFICES ASSUME NEW k \in 1..Len(t.fx), t.fx[k].op = "PlayChunk"
               PROVE  /\ t.current # None /\ ~t.paused
                      /\ t.loaded = t.gen /\ t.fx[k].gen = t.gen /\ t.gen > 0
                      /\ <<t.fx[k].item, t.fx[k].chunk>> = Place(t)
                      /\ Place(t) \in E \/ \E j \in 1..Len(t.fx) : j < k /\ Makes(t.fx[j], Place(t))
                      /\ \A j \in 1..Len(t.fx) : /\ t.fx[j].op = "PlayChunk" => j = k
                                                 /\ t.fx[j].op = "StopOutput" => j < k
    BY DEF Played
  <2>1. k + 1 \in 1..Len(r.fx) /\ r.fx[k + 1] = t.fx[k] /\ k \in Nat
    BY <1>3
  <2>2. /\ r.current # None /\ ~r.paused
        /\ r.loaded = r.gen /\ r.fx[k + 1].gen = r.gen /\ r.gen > 0
        /\ <<r.fx[k + 1].item, r.fx[k + 1].chunk>> = Place(r)
        /\ Place(r) \in D \/ \E j \in 1..Len(r.fx) : j < k + 1 /\ Makes(r.fx[j], Place(r))
        /\ \A j \in 1..Len(r.fx) : /\ r.fx[j].op = "PlayChunk" => j = k + 1
                                   /\ r.fx[j].op = "StopOutput" => j < k + 1
    BY <2>1 DEF Fx, Played
  <2>3. Place(t) = Place(r)
    BY <1>1 DEF Place
  <2>4. ASSUME NEW j \in 1..Len(t.fx)
        PROVE  /\ t.fx[j].op = "PlayChunk" => j = k
               /\ t.fx[j].op = "StopOutput" => j < k
    <3>1. j + 1 \in 1..Len(r.fx) /\ r.fx[j + 1] = t.fx[j] /\ j \in Nat
      BY <1>3
    <3>2. /\ r.fx[j + 1].op = "PlayChunk" => j + 1 = k + 1
          /\ r.fx[j + 1].op = "StopOutput" => j + 1 < k + 1
      BY <2>2, <3>1
    <3> QED  BY <2>1, <3>1, <3>2
  <2>5. Place(t) \in E \/ \E j \in 1..Len(t.fx) : j < k /\ Makes(t.fx[j], Place(t))
    <3>1. r.current.item.id \in ItemId /\ Place(r) \in ChunkRef
      <4>1. r.current \in Current
        BY <2>2, Fields DEF Good, Core
      <4> QED  BY <4>1, CurrentFields DEF Place, ChunkRef
    <3>2. ~Gone(r, Place(r)[1])
      BY <2>2 DEF Gone, Place
    <3>3. CASE Place(r) \in D
      BY <1>2, <1>5, <2>3, <3>1, <3>2, <3>3 DEF Says
    <3>4. ASSUME NEW j \in 1..Len(r.fx), j < k + 1, Makes(r.fx[j], Place(r))
          PROVE  Place(t) \in E \/ \E i \in 1..Len(t.fx) : i < k /\ Makes(t.fx[i], Place(t))
      <4>1. CASE j = 1
        BY <1>3, <1>5, <2>3, <3>1, <3>4, <4>1
      <4>2. CASE j # 1
        <5>1. j - 1 \in 1..Len(t.fx) /\ j - 1 < k /\ (j - 1) + 1 = j
          BY <1>3, <2>1, <3>4, <4>2
        <5>2. Makes(t.fx[j - 1], Place(t))
          BY <1>3, <2>3, <3>4, <5>1
        <5> QED  BY <5>1, <5>2
      <4> QED  BY <4>1, <4>2
    <3> QED  BY <2>2, <3>3, <3>4
  <2> QED  BY <1>1, <2>1, <2>2, <2>3, <2>4, <2>5
<1>8. /\ Kept(t) => ~Has(t.fx, "StopOutput")
      /\ Has(t.fx, "PauseOutput") => Kept(t) /\ t.paused
      /\ Has(t.fx, "ResumeOutput") => Kept(t) /\ ~t.paused
  <2>1. \A op : Has(r.fx, op) <=> e.op = op \/ Has(t.fx, op)
    BY <1>1 DEF Less
  <2>2. CASE e.op = "PlayChunk"
    BY <1>1, <1>2, <2>1, <2>2 DEF Fx, Kept, Says
  <2>3. CASE e.op # "PlayChunk"
    BY <1>1, <2>1, <2>3 DEF Fx, Kept
  <2> QED  BY <2>2, <2>3
<1> QED  BY <1>6, <1>7, <1>8 DEF Fx, t

-----------------------------------------------------------------------------
(* What holds of the reader r, the threads m, the results d and the events *)
(* v that wait, while the worker runs.                                     *)
Results == [p : ChunkRef, result : {"Part", "Ok", "Err", "Cancelled"}, n : Nat]
Happens == [e : AudioEvent, gen : Nat \ {0}]

EndIn(v, g) == \E k \in 1..Len(v) : v[k].gen = g /\ v[k].e # "ChunkStarted"
Live(m) == m.o.gen # None /\ ~m.o.ended

(* g is a newer play than any that the events, the output or the worker's  *)
(* failures are about.                                                     *)
Newer(m, v, g) == /\ \A k \in 1..Len(v) : v[k].gen < g
                  /\ m.o.gen # None => m.o.gen < g
                  /\ \A q : Among(m.w.pending, q) => q < g

(* The end of what sounds is told once, when it has ended.                 *)
Told(m, v) == ~Among(m.w.pending, m.o.gen) /\ (EndIn(v, m.o.gen) => m.o.ended)

(* Plays are numbered upward, and no number comes back.                    *)
Gens(r, m, v) ==
  /\ Newer(m, v, r.gen + 1)
  /\ m.w.waiting # None => m.w.waiting.gen <= r.gen /\ Newer(m, v, m.w.waiting.gen)
  /\ Has(r.fx, "PlayChunk") => /\ Newer(m, v, r.gen)
                               /\ m.w.waiting # None => m.w.waiting.gen < r.gen
  /\ Told(m, v)

(* What sounds or waits is what the reader has loaded, or is stopped.      *)
Due(r, m) ==
  /\ Live(m) => Has(r.fx, "StopOutput") \/ (Kept(r) /\ m.o.gen = r.loaded)
  /\ m.w.waiting # None =>
       ~Live(m) /\ (Has(r.fx, "StopOutput") \/ (Kept(r) /\ m.w.waiting.gen = r.loaded))

(* What the reader has loaded is on its way.                               *)
Somewhere(r, m, v) == \/ m.w.waiting # None
                      \/ m.o.gen = r.loaded /\ ~m.o.ended
                      \/ EndIn(v, r.loaded)
                      \/ Among(m.w.pending, r.loaded)
(* How the chunk the reader has loaded waits, and how it sounds.           *)
WaitsWell(r, m) ==
  LET w == m.w.waiting
  IN /\ w.p = Place(r) /\ w.p \in DOMAIN m.w.audio
     /\ Loadable(m, w.p) => m.w.hold # None \/ w.paused
     /\ ~Has(r.fx, "ResumeOutput") => (w.paused => r.paused)
     /\ ~Has(r.fx, "PauseOutput") => (r.paused => w.paused \/ St(m, w.p) = "Err")
SoundsWell(r, m) ==
  LET o == m.o
  IN /\ o.p = Place(r) /\ o.p \in DOMAIN m.w.audio
     /\ o.open => m.w.open = [p |-> o.p, gen |-> o.gen] /\ St(m, o.p) = "Streaming"
     /\ ~o.open => St(m, o.p) \in {"Ok", "Err"}
     /\ o.n >= Num(m, o.p)
     /\ o.ended => ~o.open
     /\ ~o.ended /\ ~Has(r.fx, "ResumeOutput") /\ ~Has(r.fx, "PauseOutput") => o.paused = r.paused
Carried(r, m, v) ==
  Kept(r) => /\ Somewhere(r, m, v)
             /\ m.w.waiting # None => WaitsWell(r, m)
             /\ m.o.gen = r.loaded => SoundsWell(r, m)

(* What is asked of the synthesizer, and what it answered.                 *)
Making(m, p) == St(m, p) \in {"Pending", "Streaming"}
Wanted(r, m, p) == p \in DOMAIN m.w.audio \/ (Gone(r, p[1]) /\ p[1] < r.next_id)
Final(d, p) == \E k \in 1..Len(d) : d[k].p = p /\ d[k].result # "Part"
Parts(d, p, k) == Cardinality({j \in 1..Len(d) : j < k /\ d[j].p = p /\ d[j].result = "Part"})

(* Whatever is asked or answered is wanted, or of an item that has ended;  *)
(* what is being made is asked for or answered; a cancel is never of a     *)
(* chunk wanted; and no answer claims more pieces than the inbox and the   *)
(* slot hold.                                                              *)
Known(r, m, d) ==
  /\ \A q : Among(m.s.tasks, q) => Wanted(r, m, q)
  /\ m.s.job # None => Wanted(r, m, m.s.job)
  /\ \A k \in 1..Len(d) : Wanted(r, m, d[k].p)
Comes(m, d) ==
  \A p : Making(m, p) => Among(m.s.tasks, p) \/ m.s.job = p \/ Final(d, p)
Cancels(m, d) ==
  /\ m.s.job # None /\ (m.s.cancelled \/ m.s.result = "Cancelled") => m.s.job \notin DOMAIN m.w.audio
  /\ \A k \in 1..Len(d) : d[k].result = "Cancelled" => d[k].p \notin DOMAIN m.w.audio
Counts(m, d) ==
  IF m.s.streams
  THEN /\ m.s.job # None /\ Making(m, m.s.job) =>
            m.s.made <= Num(m, m.s.job) + Parts(d, m.s.job, Len(d) + 1)
       /\ \A k \in 1..Len(d) : d[k].result # "Part" /\ Making(m, d[k].p) =>
            d[k].n <= Num(m, d[k].p) + Parts(d, d[k].p, k)
  ELSE /\ \A p : St(m, p) # "Streaming"
       /\ \A k \in 1..Len(d) : d[k].result # "Part"
OpenOK(m) == m.w.open # None => St(m, m.w.open.p) = "Streaming"
Work(r, m, d) == Known(r, m, d) /\ Comes(m, d) /\ Cancels(m, d) /\ Counts(m, d)

(* All of it.                                                              *)
Flow(r, m, d, v) ==
  /\ Fx(r, DOMAIN m.w.audio) /\ Gens(r, m, v) /\ Due(r, m) /\ Carried(r, m, v)
  /\ Work(r, m, d) /\ OpenOK(m)

-----------------------------------------------------------------------------
(* A call of the reader.                                                   *)

(* The threads as a call leaves them: a failure or an event may be taken,  *)
(* L is what is still loaded when it is.                                   *)
SameBut(m, n) ==
  /\ n.w.audio = m.w.audio /\ n.w.waiting = m.w.waiting /\ n.w.open = m.w.open /\ n.w.hold = m.w.hold
  /\ n.s = m.s /\ n.o = m.o

Fewer(m, v, n, u, L) ==
  /\ \A q : Among(n.w.pending, q) => Among(m.w.pending, q)
  /\ \A k \in 1..Len(u) : \E j \in 1..Len(v) : u[k] = v[j]
  /\ L # None => /\ EndIn(v, L) => EndIn(u, L)
                 /\ Among(m.w.pending, L) => Among(n.w.pending, L)

LEMMA NothingBefore ==
  ASSUME NEW r, Idle(r), NEW D \in SUBSET ChunkRef, Fx(r, D)
  PROVE  /\ r.requested = D /\ ~Has(r.fx, "PlayChunk") /\ ~Has(r.fx, "StopOutput")
         /\ ~Has(r.fx, "PauseOutput") /\ ~Has(r.fx, "ResumeOutput") /\ (Kept(r) <=> r.loaded # None)
<1>1. r.fx = <<>> /\ \A k : k \notin 1..Len(r.fx)
  BY DEF Idle
<1>2. \A i : ~Ended(r.fx, i) /\ ~MadeBy(r.fx, i) /\ ~Has(r.fx, i)
  BY <1>1, Zenon DEF Ended, MadeBy, Has
<1>3. r.requested \subseteq ChunkRef
  BY IdleBefore DEF Fit
<1>4. r.requested = D
  BY <1>2, <1>3 DEF Fx, Requested
<1> QED  BY <1>2, <1>4 DEF Kept

LEMMA CallFlow ==
  ASSUME NEW r, Idle(r), NEW m, Typed(m), NEW d \in Seq(Results), NEW v \in Seq(Happens), Flow(r, m, d, v),
         NEW s, NEW n, NEW u, NEW L, SameBut(m, n), Fewer(m, v, n, u, L), Does(r, s, L),
         L = r.loaded \/ (L = None /\ ~Live(m) /\ m.w.waiting = None)
  PROVE  Flow(s, n, d, u)
<1> DEFINE D == DOMAIN m.w.audio
<1>1. /\ D \subseteq ChunkRef /\ DOMAIN n.w.audio = D
      /\ \A p : St(n, p) = St(m, p) /\ Num(n, p) = Num(m, p) /\ (Loadable(n, p) <=> Loadable(m, p))
  BY DEF Typed, OfWorker, SameBut, St, Num, Loadable, SlotOf
<1>2. /\ r.requested = D /\ ~Has(r.fx, "PlayChunk") /\ ~Has(r.fx, "StopOutput")
      /\ ~Has(r.fx, "PauseOutput") /\ ~Has(r.fx, "ResumeOutput") /\ (Kept(r) <=> r.loaded # None)
  BY <1>1, NothingBefore DEF Flow
<1>3. /\ r.gen \in Nat /\ s.gen \in Nat /\ LoadedOK(r) /\ r.next_id <= s.next_id
      /\ r.next_id \in Nat /\ s.next_id \in Nat
  BY IdleBefore DEF Does, Fit, Viewable, ItemId
<1>4. /\ Requested(s, D, Dead(r), s.next_id) /\ Played(s, D, r.gen)
      /\ Held(s, L, Place(r), r.paused) /\ s.gen >= r.gen
  BY <1>2 DEF Does, Plan
<1> HIDE DEF D
<1>5. Has(s.fx, "PlayChunk") => s.loaded = s.gen /\ s.gen > r.gen
  BY <1>4 DEF Has, Played
<1>6. Kept(s) => /\ s.loaded = L /\ L # None /\ Place(s) = Place(r) /\ ~Has(s.fx, "StopOutput")
                 /\ L = r.loaded /\ Kept(r)
  BY <1>2, <1>4 DEF Kept, Held
<1>7. Fx(s, D)
  <2>1. Requested(s, D, {}, s.next_id)
    BY <1>4 DEF Requested
  <2>2. Played(s, D, 0)
    BY <1>3, <1>4 DEF Played
  <2> QED  BY <1>6, <2>1, <2>2, <1>4 DEF Fx, Held, Kept
<1>8. Gens(s, n, u)
  <2>1. \A g : Newer(m, v, g) => Newer(n, u, g)
    BY DEF Newer, SameBut, Fewer
  <2>2. \A g, h \in Nat : g <= h /\ Newer(m, v, g) => Newer(m, v, h)
    <3>1. /\ \A k \in 1..Len(v) : v[k].gen \in Nat
          /\ m.o.gen # None => m.o.gen \in Nat
          /\ \A q : Among(m.w.pending, q) => q \in Nat
      <4>1. \A k \in 1..Len(v) : v[k] \in Happens
        OBVIOUS
      <4>2. m.w.pending \in Seq(Nat \ {0})
        BY DEF Typed, OfWorker
      <4> QED  BY <4>1, <4>2 DEF Happens, Typed, OfOutput, Among
    <3> QED  BY <3>1 DEF Newer
  <2>3. Newer(m, v, r.gen + 1) /\ Newer(m, v, s.gen + 1)
    BY <1>3, <1>4, <2>2 DEF Flow, Gens
  <2>4. Has(s.fx, "PlayChunk") => Newer(m, v, s.gen)
    BY <1>3, <1>5, <2>2, <2>3
  <2>5. m.w.waiting # None => m.w.waiting.gen \in Nat /\ m.w.waiting.gen <= r.gen /\ Newer(m, v, m.w.waiting.gen)
    BY DEF Flow, Gens, Typed, OfWorker, Waiting
  <2>6. Told(n, u)
    BY DEF Flow, Gens, Told, EndIn, SameBut, Fewer
  <2>7. n.w.waiting = m.w.waiting
    BY DEF SameBut
  <2> QED  BY <1>3, <1>4, <1>5, <2>1, <2>3, <2>4, <2>5, <2>6, <2>7 DEF Gens
<1>9. Due(s, n)
  <2>1. n.w.waiting = m.w.waiting /\ n.o = m.o
    BY DEF SameBut
  <2>2. CASE L = r.loaded
    <3>1. Live(m) \/ m.w.waiting # None => r.loaded # None
      BY <1>2, <2>2 DEF Flow, Due
    <3>2. r.loaded # None => Has(s.fx, "StopOutput") \/ (Kept(s) /\ s.loaded = r.loaded)
      <4>1. r.loaded # None => r.loaded = r.gen
        BY <1>3 DEF LoadedOK
      <4> QED  BY <1>3, <1>4, <1>5, <2>2, <4>1 DEF Held, Kept
    <3> QED  BY <1>2, <2>1, <3>1, <3>2 DEF Flow, Due, Live
  <2>3. CASE ~Live(m) /\ m.w.waiting = None
    BY <2>1, <2>3 DEF Due, Live
  <2> QED  BY <2>2, <2>3
<1>10. Carried(s, n, u)
  <2> SUFFICES ASSUME Kept(s) PROVE Carried(s, n, u)
    BY DEF Carried
  <2>1. /\ s.loaded = L /\ L # None /\ Place(s) = Place(r) /\ L = r.loaded /\ Kept(r)
    BY <1>6
  <2>2. /\ Somewhere(r, m, v) /\ (m.w.waiting # None => WaitsWell(r, m))
        /\ m.o.gen = r.loaded => SoundsWell(r, m)
    BY <2>1 DEF Flow, Carried
  <2>3. Somewhere(s, n, u)
    BY <2>1, <2>2 DEF Somewhere, SameBut, Fewer
  <2>4. /\ ~Has(s.fx, "ResumeOutput") /\ ~Has(s.fx, "PauseOutput") => s.paused = r.paused
        /\ Has(s.fx, "PauseOutput") => s.paused
        /\ Has(s.fx, "ResumeOutput") => ~s.paused
    BY <1>4, <2>1 DEF Held, Kept
  <2>5. n.w.waiting # None => WaitsWell(s, n)
    BY <1>1, <1>2, <2>1, <2>2, <2>4 DEF WaitsWell, SameBut
  <2>6. n.o.gen = s.loaded => SoundsWell(s, n)
    BY <1>1, <1>2, <2>1, <2>2, <2>4 DEF SoundsWell, SameBut
  <2> QED  BY <2>3, <2>5, <2>6 DEF Carried
<1>11. Work(s, n, d) /\ OpenOK(n)
  <2>1. \A q \in ChunkRef : Wanted(r, m, q) => Wanted(s, n, q)
    <3>1. \A i \in ItemId : Gone(r, i) /\ i < r.next_id => Gone(s, i) /\ i < s.next_id
      BY <1>4 DEF Requested, Dead
    <3> QED  BY <1>1, <3>1 DEF Wanted, ChunkRef, D
  <2>2. Known(r, m, d) /\ Comes(m, d) /\ Cancels(m, d) /\ Counts(m, d) /\ OpenOK(m)
    BY DEF Flow, Work
  <2>3. /\ n.s = m.s /\ n.w.open = m.w.open /\ n.w.audio = m.w.audio
    BY DEF SameBut
  <2>4. /\ \A q : Among(m.s.tasks, q) => q \in ChunkRef
        /\ m.s.job # None => m.s.job \in ChunkRef
        /\ \A k \in 1..Len(d) : d[k].p \in ChunkRef
    <3>1. \A k \in 1..Len(d) : d[k] \in Results
      OBVIOUS
    <3>2. m.s.tasks \in Seq(ChunkRef) /\ m.s.job \in ChunkRef \cup {None}
      BY DEF Typed, OfSynth
    <3> QED  BY <3>1, <3>2 DEF Among, Results
  <2>5. Known(s, n, d)
    BY <2>1, <2>2, <2>3, <2>4 DEF Known
  <2>6. Comes(n, d) /\ Cancels(n, d) /\ OpenOK(n)
    BY <1>1, <2>2, <2>3 DEF Comes, Cancels, OpenOK, Making
  <2>7. Counts(n, d)
    BY <1>1, <2>2, <2>3 DEF Counts, Making
  <2> QED  BY <2>5, <2>6, <2>7 DEF Work
<1> QED  BY <1>1, <1>7, <1>8, <1>9, <1>10, <1>11 DEF Flow

-----------------------------------------------------------------------------
(* What several steps share.                                               *)
LEMMA NotNat ==
  None \notin Nat /\ None \notin ChunkRef
BY ReaderConstants, WorkerNone

(* The ends of a queue.                                                    *)
LEMMA AmongAppend ==
  ASSUME NEW S, NEW t \in Seq(S), NEW e
  PROVE  \A q : Among(Append(t, e), q) <=> Among(t, q) \/ q = e
<1> DEFINE u == Append(t, e)
<1>1. Len(t) \in Nat /\ Len(u) = Len(t) + 1 /\ u[Len(t) + 1] = e /\ \A k \in 1..Len(t) : u[k] = t[k]
  OBVIOUS
<1> HIDE DEF u
<1>2. \A k : k \in 1..Len(u) <=> k \in 1..Len(t) \/ k = Len(t) + 1
  BY <1>1
<1>3. \A q : Among(u, q) <=> Among(t, q) \/ q = e
  BY <1>1, <1>2, Zenon DEF Among
<1> QED  BY <1>3 DEF u

LEMMA AmongTail ==
  ASSUME NEW S, NEW t \in Seq(S), t # <<>>
  PROVE  \A q : Among(t, q) <=> q = Head(t) \/ Among(Tail(t), q)
<1> DEFINE u == Tail(t)
           e == Head(t)
<1>1. /\ Len(u) \in Nat /\ Len(t) = Len(u) + 1 /\ t[1] = e
      /\ \A k \in 1..Len(u) : u[k] = t[k + 1]
  OBVIOUS
<1> HIDE DEF u, e
<1>2. ASSUME NEW q, NEW k \in 1..Len(t), t[k] = q PROVE q = e \/ Among(u, q)
  <2>1. CASE k = 1
    BY <1>1, <1>2, <2>1
  <2>2. CASE k # 1
    <3>1. k - 1 \in 1..Len(u) /\ u[k - 1] = t[(k - 1) + 1] /\ (k - 1) + 1 = k
      BY <1>1, <2>2
    <3> QED  BY <1>2, <3>1 DEF Among
  <2> QED  BY <2>1, <2>2
<1>3. ASSUME NEW q, NEW k \in 1..Len(u), u[k] = q PROVE Among(t, q)
  <2>1. k + 1 \in 1..Len(t) /\ t[k + 1] = q
    BY <1>1, <1>3
  <2> QED  BY <2>1 DEF Among
<1>4. Among(t, e)
  <2>1. 1 \in 1..Len(t)
    BY <1>1
  <2> QED  BY <1>1, <2>1 DEF Among
<1> QED  BY <1>2, <1>3, <1>4 DEF Among, e, u

LEMMA Numbers ==
  ASSUME NEW m, Typed(m), NEW v \in Seq(Happens)
  PROVE  /\ \A k \in 1..Len(v) : v[k] \in Happens /\ v[k].gen \in Nat \ {0}
         /\ m.o.gen # None => m.o.gen \in Nat \ {0}
         /\ \A q : Among(m.w.pending, q) => q \in Nat \ {0}
         /\ m.w.waiting # None => m.w.waiting \in Waiting
         /\ \A g, h \in Nat : g <= h /\ Newer(m, v, g) => Newer(m, v, h)
<1>1. \A k \in 1..Len(v) : v[k] \in Happens
  OBVIOUS
<1>2. m.w.pending \in Seq(Nat \ {0})
  BY DEF Typed, OfWorker
<1>3. \A q : Among(m.w.pending, q) => q \in Nat \ {0}
  BY <1>2 DEF Among
<1>4. \A k \in 1..Len(v) : v[k].gen \in Nat \ {0}
  BY <1>1 DEF Happens
<1>5. m.o.gen # None => m.o.gen \in Nat \ {0}
  BY DEF Typed, OfOutput
<1>6. \A g, h \in Nat : g <= h /\ Newer(m, v, g) => Newer(m, v, h)
  BY <1>3, <1>4, <1>5 DEF Newer
<1>7. m.w.waiting # None => m.w.waiting \in Waiting
  BY DEF Typed, OfWorker
<1> QED  BY <1>1, <1>3, <1>4, <1>5, <1>6, <1>7

(* A step that leaves the synthesizer and the audio alone.                 *)
LEMMA WorkFrame ==
  ASSUME NEW r, NEW m, NEW n, NEW d, Work(r, m, d), Aside(m, n), n.w.audio = m.w.audio
  PROVE  Work(r, n, d) /\ \A p : St(n, p) = St(m, p) /\ Num(n, p) = Num(m, p)
                                 /\ (Loadable(n, p) <=> Loadable(m, p))
<1>1. \A p : St(n, p) = St(m, p) /\ Num(n, p) = Num(m, p) /\ (Loadable(n, p) <=> Loadable(m, p))
  BY DEF St, Num, Loadable, SlotOf
<1>2. \A p : (Making(n, p) <=> Making(m, p)) /\ (Wanted(r, n, p) <=> Wanted(r, m, p))
  BY <1>1 DEF Making, Wanted
<1>3. Known(r, n, d)
  BY <1>2 DEF Work, Known, Aside
<1>4. Comes(n, d)
  BY <1>2 DEF Work, Comes, Aside
<1>5. Cancels(n, d)
  BY <1>2 DEF Work, Cancels, Aside
<1>6. Counts(n, d)
  BY <1>1, <1>2 DEF Work, Counts, Aside
<1> QED  BY <1>1, <1>3, <1>4, <1>5, <1>6 DEF Work

(* The chunk the reader has loaded is loaded by the worker: it waits,      *)
(* plays or fails.                                                         *)
LEMMA LoadFlow ==
  ASSUME NEW r, Good(r), NEW m, Typed(m), NEW d, NEW v \in Seq(Happens), NEW n,
         NEW p \in DOMAIN m.w.audio, p = Place(r), Loads(m, n, p, r.gen),
         Kept(r), r.loaded = r.gen, m.w.waiting = None, ~Live(m), Newer(m, v, r.gen), Told(m, v),
         r.paused => St(m, p) = "Err", Fx(r, DOMAIN m.w.audio),
         Work(r, m, d)
  PROVE  Flow(r, n, d, v)
<1> DEFINE g == r.gen
           D == DOMAIN m.w.audio
<1>1. /\ Typed(n) /\ Aside(m, n) /\ n.w.audio = m.w.audio
      /\ Waits(m, n, p, g) \/ Plays(m, n, p, g) \/ Fails(m, n, p, g)
  BY DEF Loads
<1>2. /\ g \in Nat \ {0} /\ r.loaded = g /\ ~Has(r.fx, "PlayChunk") /\ ~Has(r.fx, "StopOutput")
      /\ None \notin Nat
  <2>1. r.gen \in Nat /\ r.loaded \in (Nat \ {0}) \cup {None} /\ r.loaded # None
    BY Fields DEF Good, Core, Kept
  <2> QED  BY <2>1, NotNat DEF Fx, Kept
<1>3. /\ Work(r, n, d)
      /\ \A q : St(n, q) = St(m, q) /\ Num(n, q) = Num(m, q) /\ (Loadable(n, q) <=> Loadable(m, q))
  BY <1>1, WorkFrame
<1>4. Newer(m, v, g + 1)
  BY <1>2, Numbers
<1>5. p \in D /\ St(m, p) \in {"Pending", "Streaming", "Ok", "Err"} /\ Num(m, p) \in Nat
      /\ (Loadable(m, p) <=> St(m, p) \in {"Ok", "Err", "Streaming"})
  BY SlotTypes
<1>6. /\ \A k \in 1..Len(v) : v[k].gen \in Nat /\ v[k].gen < g
      /\ m.o.gen # None => m.o.gen \in Nat /\ m.o.gen < g
      /\ \A q : Among(m.w.pending, q) => q \in Nat /\ q < g
  BY Numbers DEF Newer
<1>7. Fx(r, DOMAIN n.w.audio)
  BY <1>1
<1> HIDE DEF g
<1>8. \A q : Wait(p, g, FALSE).p = p /\ Wait(p, g, FALSE).gen = g /\ Wait(p, g, FALSE).paused = FALSE
  BY DEF Wait
<1>9. CASE Waits(m, n, p, g)
  <2>1. n.w.waiting.p = p /\ n.w.waiting.gen = g /\ n.w.waiting.paused = FALSE
    BY <1>8, <1>9 DEF Waits
  <2>2. n.o = m.o /\ n.w.pending = m.w.pending /\ n.w.open = None
        /\ (St(m, p) = "Pending" \/ n.w.hold # None)
    BY <1>9 DEF Waits
  <2>3. Newer(n, v, g) /\ Newer(n, v, g + 1) /\ Told(n, v) /\ ~Live(n)
    BY <1>4, <2>2 DEF Newer, Told, Live, g
  <2>4. Gens(r, n, v)
    BY <1>2, <2>1, <2>3 DEF Gens, g
  <2>5. Due(r, n)
    BY <1>2, <2>1, <2>3 DEF Due, g
  <2>6. WaitsWell(r, n)
    BY <1>1, <1>3, <1>5, <2>1, <2>2 DEF WaitsWell
  <2>7. n.o.gen # r.loaded
    BY <1>2, <1>6, <2>2
  <2>8. n.w.waiting # None
    <3>1. p \in ChunkRef
      BY DEF Typed, OfWorker
    <3>2. Wait(p, g, FALSE) \in [p : ChunkRef, gen : Nat, paused : BOOLEAN]
      BY <1>2, <3>1 DEF Wait
    <3>3. Wait(p, g, FALSE) # None
      BY <3>2, WorkerNone
    <3> QED  BY <1>9, <3>3 DEF Waits
  <2> QED  BY <1>3, <1>7, <2>2, <2>4, <2>5, <2>6, <2>7, <2>8 DEF Flow, Carried, Somewhere, OpenOK
<1>10. CASE Plays(m, n, p, g)
  <2>1. /\ n.w.waiting = None /\ n.w.pending = m.w.pending /\ St(m, p) \in {"Ok", "Streaming"}
        /\ n.w.open = IF St(m, p) = "Streaming" THEN [p |-> p, gen |-> g] ELSE None
        /\ n.o.gen = g /\ n.o.p = p /\ n.o.n = Num(m, p)
        /\ n.o.open = (St(m, p) = "Streaming") /\ n.o.paused = FALSE /\ n.o.ended = FALSE
    BY <1>10 DEF Plays
  <2>2. Newer(n, v, g + 1)
    BY <1>2, <1>4, <1>6, <2>1 DEF Newer
  <2>3. Told(n, v)
    BY <1>2, <1>6, <2>1 DEF Told, EndIn
  <2>4. Gens(r, n, v)
    BY <1>2, <2>1, <2>2, <2>3 DEF Gens, g
  <2>5. Due(r, n)
    BY <1>2, <2>1 DEF Due
  <2>6. OpenOK(n)
    BY <1>3, <2>1 DEF OpenOK
  <2>7. r.paused = FALSE
    <3>1. r.paused \in BOOLEAN
      BY Fields DEF Good, Core
    <3> QED  BY <2>1, <3>1
  <2>8. SoundsWell(r, n)
    <3>1. /\ n.o.p = Place(r) /\ n.o.p \in DOMAIN n.w.audio /\ (n.o.ended => ~n.o.open)
          /\ n.o.paused = r.paused
      BY <1>1, <1>5, <2>1, <2>7
    <3>2. n.o.n >= Num(n, n.o.p) /\ St(n, n.o.p) = St(m, p)
      BY <1>3, <1>5, <2>1
    <3>3. CASE St(m, p) = "Streaming"
      <4>1. n.o.open = TRUE /\ n.w.open = [p |-> n.o.p, gen |-> n.o.gen]
        BY <2>1, <3>3
      <4> QED  BY <3>1, <3>2, <3>3, <4>1 DEF SoundsWell
    <3>4. CASE St(m, p) = "Ok"
      <4>1. n.o.open = FALSE
        BY <2>1, <3>4
      <4> QED  BY <3>1, <3>2, <3>4, <4>1 DEF SoundsWell
    <3> QED  BY <2>1, <3>3, <3>4
  <2>9. Somewhere(r, n, v)
    BY <1>2, <2>1 DEF Somewhere
  <2> QED  BY <1>3, <1>7, <2>1, <2>4, <2>5, <2>6, <2>8, <2>9 DEF Flow, Carried
<1>11. CASE Fails(m, n, p, g)
  <2>1. /\ n.w.waiting = None /\ n.w.open = None /\ n.o = m.o
        /\ n.w.pending = Append(m.w.pending, g)
    BY <1>11 DEF Fails
  <2>2. \A q : Among(n.w.pending, q) <=> Among(m.w.pending, q) \/ q = g
    <3>1. m.w.pending \in Seq(Nat \ {0})
      BY DEF Typed, OfWorker
    <3> QED  BY <2>1, <3>1, AmongAppend
  <2>3. Newer(n, v, g + 1) /\ Told(n, v) /\ ~Live(n)
    BY <1>2, <1>4, <1>6, <2>1, <2>2 DEF Newer, Told, Live
  <2>4. Gens(r, n, v)
    BY <1>2, <2>1, <2>3 DEF Gens, g
  <2>5. Due(r, n) /\ OpenOK(n)
    BY <2>1, <2>3 DEF Due, OpenOK
  <2>6. n.o.gen # r.loaded /\ Somewhere(r, n, v)
    BY <1>2, <1>6, <2>1, <2>2 DEF Somewhere
  <2> QED  BY <1>3, <1>7, <2>1, <2>4, <2>5, <2>6 DEF Flow, Carried
<1> QED  BY <1>1, <1>9, <1>10, <1>11

(* A chunk that waits may be loaded: the reader has it loaded, and nothing *)
(* sounds.                                                                 *)
WaitFlows(r, m, d, v) ==
  /\ Good(r) /\ Typed(m) /\ v \in Seq(Happens) /\ Fx(r, DOMAIN m.w.audio) /\ Work(r, m, d)
  /\ Kept(r) /\ r.loaded = r.gen /\ m.w.waiting # None /\ m.w.waiting.p = Place(r)
  /\ m.w.waiting.gen = r.gen /\ Place(r) \in DOMAIN m.w.audio
  /\ ~Live(m) /\ Newer(m, v, r.gen) /\ Told(m, v)
  /\ r.paused => St(m, Place(r)) = "Err"

LEMMA LoadWaiting ==
  ASSUME NEW r, NEW m, NEW d, NEW v, WaitFlows(r, m, d, v)
  PROVE  LET n == load_waiting(m) IN Typed(n) /\ n.w.phase = m.w.phase /\ Flow(r, n, d, v)
<1> DEFINE o == [m EXCEPT !.w.waiting = None]
           n == load_waiting(m)
           p == Place(r)
<1>1. Typed(m) /\ m.w.waiting.p = p /\ m.w.waiting.gen = r.gen
  BY DEF WaitFlows
<1>2. n = load(o, p, r.gen)
  BY <1>1 DEF load_waiting
<1>3. /\ DOMAIN o = DOMAIN m /\ DOMAIN o.w = DOMAIN m.w /\ o.w.waiting = None
      /\ o.w.audio = m.w.audio /\ o.w.open = m.w.open /\ o.w.pending = m.w.pending
      /\ o.w.hold = m.w.hold /\ o.w.phase = m.w.phase /\ o.s = m.s /\ o.o = m.o
  BY <1>1 DEF Typed, Shape
<1> HIDE DEF o, n, p
<1>4. Typed(o) /\ Aside(m, o)
  BY <1>1, <1>3 DEF Typed, Shape, OfWorker, Aside
<1>5. Work(r, o, d) /\ \A q : St(o, q) = St(m, q)
  BY <1>3, <1>4, WorkFrame DEF WaitFlows
<1>6. ~Live(o) /\ Newer(o, v, r.gen) /\ Told(o, v)
  BY <1>3 DEF WaitFlows, Live, Newer, Told
<1>7. p \in DOMAIN o.w.audio /\ r.gen \in Nat \ {0}
  <2>1. r.gen \in Nat /\ r.loaded \in (Nat \ {0}) \cup {None} /\ r.loaded # None
    BY Fields DEF WaitFlows, Good, Core, Kept
  <2> QED  BY <1>3, <2>1 DEF WaitFlows, p
<1>8. Loads(o, n, p, r.gen)
  BY <1>2, <1>4, <1>7, LoadLemma
<1>9. /\ Good(r) /\ v \in Seq(Happens) /\ Fx(r, DOMAIN o.w.audio) /\ Kept(r) /\ r.loaded = r.gen
      /\ p = Place(r) /\ (r.paused => St(o, p) = "Err")
  BY <1>3, <1>5 DEF WaitFlows, p
<1>10. Flow(r, n, d, v)
  BY <1>3, <1>4, <1>5, <1>6, <1>7, <1>8, <1>9, LoadFlow
<1> QED  BY <1>3, <1>8, <1>10 DEF Loads, Aside, n

-----------------------------------------------------------------------------
(* One effect carried out, by the threads m.                               *)
Turn(r, m, d, v) ==
  /\ Good(r) /\ ShownOK(r) /\ r.fx # <<>> /\ Typed(m)
  /\ d \in Seq(Results) /\ v \in Seq(Happens) /\ Flow(r, m, d, v)

Turned(t, m, n, d, v) == Typed(n) /\ n.w.phase = m.w.phase /\ Flow(t, n, d, v)

Rest(r, t, e) ==
  /\ Good(t) /\ ShownOK(t)
  /\ t.current = r.current /\ t.queue = r.queue /\ t.gen = r.gen /\ t.loaded = r.loaded
  /\ t.paused = r.paused /\ t.requested = r.requested /\ t.next_id = r.next_id
  /\ Place(t) = Place(r) /\ \A i : Gone(t, i) <=> Gone(r, i)
  /\ \A op : Has(r.fx, op) <=> e.op = op \/ Has(t.fx, op)
  /\ e.op # "PlayChunk" => (Kept(t) <=> Kept(r))
  /\ r.gen \in Nat /\ r.paused \in BOOLEAN
  /\ r.loaded # None => r.loaded = r.gen /\ r.current # None /\ ~Gone(r, Place(r)[1])
                          /\ Place(r) \in ChunkRef

LEMMA TurnLemma ==
  ASSUME NEW r, NEW m, NEW d, NEW v, Turn(r, m, d, v)
  PROVE  /\ Rest(r, Popped(r), Head(r.fx)) /\ Says(r, DOMAIN m.w.audio, Head(r.fx))
         /\ DOMAIN m.w.audio \subseteq ChunkRef /\ Work(Popped(r), m, d)
<1> DEFINE t == Popped(r)
           e == Head(r.fx)
<1>1. /\ Good(t) /\ ShownOK(t) /\ Less(r.fx, e, t.fx) /\ e \in Effect
      /\ t.current = r.current /\ t.queue = r.queue /\ t.gen = r.gen /\ t.loaded = r.loaded
      /\ t.paused = r.paused /\ t.requested = r.requested /\ t.next_id = r.next_id
  BY PoppedFields DEF Turn
<1>2. DOMAIN m.w.audio \subseteq ChunkRef
  BY DEF Turn, Typed, OfWorker
<1>3. Says(r, DOMAIN m.w.audio, e)
  BY <1>2, SaysLemma DEF Turn, Flow
<1> HIDE DEF t, e
<1>4. Place(t) = Place(r) /\ \A i : Gone(t, i) <=> Gone(r, i)
  BY <1>1 DEF Place, Gone
<1>5. \A op : Has(r.fx, op) <=> e.op = op \/ Has(t.fx, op)
  BY <1>1 DEF Less
<1>6. e.op # "PlayChunk" => (Kept(t) <=> Kept(r))
  BY <1>1, <1>5 DEF Kept
<1>7. r \in ReaderType /\ LoadedOK(r)
  BY DEF Turn, Good, Core
<1>8. r.gen \in Nat /\ r.paused \in BOOLEAN /\ (r.loaded # None => r.loaded = r.gen /\ r.current # None)
  BY <1>7, Fields DEF LoadedOK
<1>9. r.loaded # None => ~Gone(r, Place(r)[1]) /\ Place(r) \in ChunkRef
  <2> SUFFICES ASSUME r.loaded # None PROVE ~Gone(r, Place(r)[1]) /\ Place(r) \in ChunkRef
    OBVIOUS
  <2>1. r.current \in Current /\ r.current # None
    BY <1>7, <1>8, Fields
  <2> QED  BY <2>1, CurrentFields DEF Gone, Place, ChunkRef
<1>10. Rest(r, t, e)
  BY <1>1, <1>4, <1>5, <1>6, <1>8, <1>9 DEF Rest
<1>11. Work(t, m, d)
  <2>1. \A q : Wanted(t, m, q) <=> Wanted(r, m, q)
    BY <1>1, <1>4 DEF Wanted
  <2> QED  BY <2>1 DEF Turn, Flow, Work, Known
<1> QED  BY <1>2, <1>3, <1>10, <1>11 DEF t, e

(* What the properties read of the threads.                                *)
Quietly(m, n) ==
  /\ Typed(n) /\ n.w.audio = m.w.audio /\ n.w.waiting = m.w.waiting /\ n.w.open = m.w.open
  /\ n.w.pending = m.w.pending /\ n.w.hold = m.w.hold /\ n.w.phase = m.w.phase /\ n.s = m.s
  /\ n.o.gen = m.o.gen /\ n.o.p = m.o.p /\ n.o.n = m.o.n /\ n.o.open = m.o.open
  /\ n.o.paused = m.o.paused /\ n.o.ended = m.o.ended

LEMMA AsideSame ==
  ASSUME NEW m, NEW n, n.w.phase = m.w.phase, n.s = m.s
  PROVE  Aside(m, n)
BY DEF Aside

(* An effect that says nothing to the synthesizer and plays nothing.       *)
LEMMA PassFlow ==
  ASSUME NEW r, NEW m, NEW d, NEW v, Turn(r, m, d, v), NEW n, Quietly(m, n),
         Head(r.fx).op \notin {"Synthesize", "PlayChunk", "PauseOutput", "ResumeOutput", "StopOutput"},
         ~(Head(r.fx).op = "Item" /\ Head(r.fx).phase # "Started")
  PROVE  Turned(Popped(r), m, n, d, v)
<1> DEFINE e == Head(r.fx)
           t == Popped(r)
           D == DOMAIN m.w.audio
<1>1. Rest(r, t, e) /\ Says(r, D, e) /\ D \subseteq ChunkRef /\ Work(t, m, d)
  BY TurnLemma
<1>2. Fx(t, D)
  <2>1. Keeps(D, e, D)
    BY <1>1, EffectParts DEF Keeps, Says
  <2> QED  BY <1>1, <2>1, RestLemma DEF Turn, Flow
<1>3. /\ Gens(r, m, v) /\ Due(r, m) /\ Carried(r, m, v) /\ OpenOK(m)
  BY DEF Turn, Flow
<1>4. Aside(m, n)
  BY AsideSame DEF Quietly
<1>5. Work(t, n, d) /\ \A p : St(n, p) = St(m, p) /\ Num(n, p) = Num(m, p) /\ (Loadable(n, p) <=> Loadable(m, p))
  BY <1>1, <1>4, WorkFrame DEF Quietly
<1> HIDE DEF e, t, D
<1>6. \A op \in {"PlayChunk", "PauseOutput", "ResumeOutput", "StopOutput"} : Has(t.fx, op) <=> Has(r.fx, op)
  BY <1>1 DEF Rest, e
<1>7. Kept(t) <=> Kept(r)
  BY <1>1 DEF Rest, e
<1>8. Gens(t, n, v)
  <2>1. \A g : Newer(n, v, g) <=> Newer(m, v, g)
    BY DEF Newer, Quietly
  <2>2. Told(n, v)
    BY <1>3 DEF Gens, Told, Quietly
  <2> QED  BY <1>1, <1>3, <1>6, <2>1, <2>2 DEF Gens, Quietly, Rest
<1>9. Due(t, n)
  BY <1>1, <1>3, <1>6, <1>7 DEF Due, Live, Quietly, Rest
<1>10. Carried(t, n, v)
  <2>1. Somewhere(r, m, v) => Somewhere(t, n, v)
    BY <1>1 DEF Somewhere, Quietly, Rest
  <2>2. WaitsWell(r, m) => WaitsWell(t, n)
    BY <1>1, <1>5, <1>6 DEF WaitsWell, Quietly, Rest
  <2>3. SoundsWell(r, m) => SoundsWell(t, n)
    BY <1>1, <1>5, <1>6 DEF SoundsWell, Quietly, Rest
  <2>4. n.w.waiting = m.w.waiting /\ n.o.gen = m.o.gen /\ t.loaded = r.loaded
    BY <1>1 DEF Quietly, Rest
  <2> QED  BY <1>3, <1>7, <2>1, <2>2, <2>3, <2>4 DEF Carried
<1>11. OpenOK(n) /\ DOMAIN n.w.audio = D
  BY <1>3, <1>5 DEF OpenOK, Quietly, D
<1> QED  BY <1>2, <1>5, <1>8, <1>9, <1>10, <1>11 DEF Turned, Flow, Quietly, t

(* PlayChunk.                                                              *)
LEMMA PlayFlow ==
  ASSUME NEW r, NEW m, NEW d, NEW v, Turn(r, m, d, v), NEW n, NEW p, Head(r.fx).op = "PlayChunk",
         p = <<Head(r.fx).item, Head(r.fx).chunk>>,
         n = load([m EXCEPT !.w.waiting = None], p, Head(r.fx).gen)
  PROVE  Turned(Popped(r), m, n, d, v)
<1> DEFINE e == Head(r.fx)
           t == Popped(r)
           D == DOMAIN m.w.audio
           o == [m EXCEPT !.w.waiting = None]
<1>1. Rest(r, t, e) /\ Says(r, D, e) /\ D \subseteq ChunkRef /\ Work(t, m, d)
  BY TurnLemma
<1>0. e.op = "PlayChunk" /\ p = <<e.item, e.chunk>> /\ n = load(o, p, e.gen)
  OBVIOUS
<1>2. Fx(t, D)
  <2>1. Keeps(D, e, D)
    BY <1>1, EffectParts DEF Keeps, Says
  <2> QED  BY <1>1, <2>1, RestLemma DEF Turn, Flow
<1>3. /\ Gens(r, m, v) /\ Due(r, m) /\ Typed(m) /\ v \in Seq(Happens)
  BY DEF Turn, Flow
<1>4. /\ DOMAIN o = DOMAIN m /\ DOMAIN o.w = DOMAIN m.w /\ o.w.waiting = None
      /\ o.w.audio = m.w.audio /\ o.w.open = m.w.open /\ o.w.pending = m.w.pending
      /\ o.w.hold = m.w.hold /\ o.w.phase = m.w.phase /\ o.s = m.s /\ o.o = m.o
  BY <1>3 DEF Typed, Shape
<1> HIDE DEF e, t, D, o
<1>5. Typed(o) /\ Aside(m, o)
  BY <1>3, <1>4 DEF Typed, Shape, OfWorker, Aside
<1>6. /\ e.gen = r.gen /\ r.gen \in Nat \ {0} /\ p = Place(r) /\ p \in D /\ Kept(t) /\ ~r.paused
      /\ r.loaded = r.gen /\ ~Has(r.fx, "StopOutput") /\ Has(r.fx, "PlayChunk") /\ t.gen = r.gen
      /\ Place(t) = Place(r) /\ t.loaded = t.gen /\ ~t.paused /\ Good(t)
  BY <1>0, <1>1 DEF Says, Rest, t
<1>7. ~Live(o) /\ Newer(o, v, r.gen) /\ Told(o, v)
  <2>1. ~Live(m)
    BY <1>3, <1>6 DEF Due, Kept
  <2>2. Newer(m, v, r.gen) /\ Told(m, v)
    BY <1>3, <1>6 DEF Gens
  <2> QED  BY <1>4, <2>1, <2>2 DEF Live, Newer, Told
<1>8. Work(t, o, d)
  BY <1>1, <1>4, <1>5, WorkFrame
<1>9. Loads(o, n, p, t.gen)
  BY <1>0, <1>4, <1>5, <1>6, LoadLemma DEF D
<1>10. Flow(t, n, d, v)
  BY <1>2, <1>3, <1>4, <1>5, <1>6, <1>7, <1>8, <1>9, LoadFlow DEF D
<1> QED  BY <1>4, <1>5, <1>9, <1>10 DEF Turned, Loads, Aside, t

-----------------------------------------------------------------------------
(* StopOutput.                                                             *)
LEMMA StopFlow ==
  ASSUME NEW r, NEW m, NEW d, NEW v, Turn(r, m, d, v), NEW n, Head(r.fx).op = "StopOutput",
         Typed(n), n.s = m.s, n.w.audio = m.w.audio, n.w.phase = m.w.phase, n.w.pending = m.w.pending,
         n.w.waiting = None, n.w.open = None, n.o = m.o \/ n.o.gen = None, m.w.waiting = None => n.o.gen = None
  PROVE  Turned(Popped(r), m, n, d, v)
<1> DEFINE e == Head(r.fx)
           t == Popped(r)
           D == DOMAIN m.w.audio
<1>1. Rest(r, t, e) /\ Says(r, D, e) /\ D \subseteq ChunkRef /\ Work(t, m, d) /\ e.op = "StopOutput"
  BY TurnLemma
<1>2. Fx(t, D)
  <2>1. Keeps(D, e, D)
    BY <1>1, EffectParts DEF Keeps, Says
  <2> QED  BY <1>1, <2>1, RestLemma DEF Turn, Flow
<1>3. /\ Gens(r, m, v) /\ Due(r, m) /\ Typed(m) /\ v \in Seq(Happens)
  BY DEF Turn, Flow
<1> HIDE DEF e, t, D
<1>4. Work(t, n, d)
  BY <1>1, AsideSame, WorkFrame
<1>5. ~Kept(t)
  BY <1>1 DEF Says, t
<1>6. n.o.gen = None => Told(n, v)
  <2>1. /\ \A k \in 1..Len(v) : v[k].gen # None
        /\ \A q : Among(m.w.pending, q) => q # None
    BY <1>3, Numbers, NotNat
  <2> QED  BY <2>1 DEF Told, EndIn
<1>7. n.o = m.o => Told(n, v)
  BY <1>3 DEF Gens, Told
<1>8. \A g : Newer(m, v, g) => Newer(n, v, g)
  BY DEF Newer
<1>9. Gens(t, n, v)
  BY <1>1, <1>3, <1>6, <1>7, <1>8 DEF Gens, Rest
<1>10. Due(t, n)
  BY <1>3 DEF Due, Live
<1>11. Carried(t, n, v) /\ OpenOK(n) /\ DOMAIN n.w.audio = D
  BY <1>5 DEF Carried, OpenOK, D
<1> QED  BY <1>2, <1>4, <1>9, <1>10, <1>11 DEF Turned, Flow, t

(* PauseOutput, and ResumeOutput when nothing is loaded.                   *)
LEMMA PauseFlow ==
  ASSUME NEW r, NEW m, NEW d, NEW v, Turn(r, m, d, v), NEW n, NEW on \in BOOLEAN,
         Head(r.fx).op = IF on THEN "PauseOutput" ELSE "ResumeOutput",
         Typed(n), n.s = m.s, n.w.audio = m.w.audio, n.w.phase = m.w.phase, n.w.pending = m.w.pending,
         n.w.open = m.w.open, n.w.hold = m.w.hold,
         n.o.gen = m.o.gen, n.o.p = m.o.p, n.o.n = m.o.n, n.o.open = m.o.open, n.o.ended = m.o.ended,
         m.w.waiting = None => n.w.waiting = None /\ (m.o.gen # None => n.o.paused = on),
         m.w.waiting # None => /\ n.w.waiting = [m.w.waiting EXCEPT !.paused = on]
                               /\ on \/ ~Loadable(m, m.w.waiting.p)
  PROVE  Turned(Popped(r), m, n, d, v)
<1> DEFINE e == Head(r.fx)
           t == Popped(r)
           D == DOMAIN m.w.audio
<1>1. Rest(r, t, e) /\ Says(r, D, e) /\ D \subseteq ChunkRef /\ Work(t, m, d)
  BY TurnLemma
<1>0. e.op = IF on THEN "PauseOutput" ELSE "ResumeOutput"
  OBVIOUS
<1>2. Fx(t, D)
  <2>1. Keeps(D, e, D)
    BY <1>0, <1>1, EffectParts DEF Keeps, Says
  <2> QED  BY <1>1, <2>1, RestLemma DEF Turn, Flow
<1>3. /\ Gens(r, m, v) /\ Due(r, m) /\ Typed(m) /\ v \in Seq(Happens) /\ Carried(r, m, v) /\ OpenOK(m)
  BY DEF Turn, Flow
<1> HIDE DEF e, t, D
<1>4. Work(t, n, d) /\ \A p : St(n, p) = St(m, p) /\ Num(n, p) = Num(m, p) /\ (Loadable(n, p) <=> Loadable(m, p))
  BY <1>1, AsideSame, WorkFrame
<1>5. Kept(t) /\ Kept(r) /\ r.paused = on /\ t.paused = on /\ r.loaded # None /\ t.loaded = r.loaded
      /\ t.gen = r.gen /\ Place(t) = Place(r)
  BY <1>0, <1>1 DEF Says, Rest, Kept
<1>6. m.w.waiting # None =>
        /\ n.w.waiting.p = m.w.waiting.p /\ n.w.waiting.gen = m.w.waiting.gen /\ n.w.waiting.paused = on
        /\ n.w.waiting # None
  <2> SUFFICES ASSUME m.w.waiting # None
               PROVE  /\ n.w.waiting.p = m.w.waiting.p /\ n.w.waiting.gen = m.w.waiting.gen
                      /\ n.w.waiting.paused = on /\ n.w.waiting # None
    OBVIOUS
  <2>1. m.w.waiting \in Waiting
    BY <1>3, Numbers
  <2>2. n.w.waiting \in Waiting
    BY <2>1 DEF Waiting
  <2>3. None \notin Waiting
    BY WorkerNone DEF Waiting
  <2> QED  BY <2>1, <2>2, <2>3 DEF Waiting
<1>7. \A g : Newer(m, v, g) => Newer(n, v, g)
  BY DEF Newer
<1>8. Told(n, v)
  BY <1>3 DEF Gens, Told
<1>9. ~Has(t.fx, "PlayChunk")
  BY <1>5 DEF Kept
<1>10. Gens(t, n, v)
  BY <1>3, <1>5, <1>6, <1>7, <1>8, <1>9 DEF Gens
<1>11. ~Has(r.fx, "StopOutput")
  BY <1>5 DEF Turn, Flow, Fx
<1>12. Due(t, n)
  BY <1>3, <1>5, <1>6, <1>11 DEF Due, Live
<1>13. Somewhere(t, n, v)
  BY <1>3, <1>5, <1>6 DEF Carried, Somewhere
<1>14. ASSUME n.w.waiting # None PROVE WaitsWell(t, n)
  <2>1. WaitsWell(r, m) /\ m.w.waiting # None
    BY <1>3, <1>5, <1>14 DEF Carried
  <2> QED  BY <1>4, <1>5, <1>6, <2>1 DEF WaitsWell
<1>15. ASSUME n.o.gen = t.loaded PROVE SoundsWell(t, n)
  <2>1. SoundsWell(r, m)
    BY <1>3, <1>5, <1>15 DEF Carried
  <2>2. m.w.waiting = None
    <3>1. m.w.waiting # None => m.w.waiting.gen = r.loaded /\ Newer(m, v, m.w.waiting.gen)
      BY <1>3, <1>5, <1>11 DEF Due, Gens
    <3>2. r.loaded \in Nat
      BY <1>1, <1>5 DEF Rest
    <3> QED  BY <1>5, <1>15, <3>1, <3>2 DEF Newer
  <2>3. n.o.paused = on
    BY <1>5, <1>15, <2>2
  <2> QED  BY <1>4, <1>5, <2>1, <2>3 DEF SoundsWell
<1>16. OpenOK(n)
  BY <1>3, <1>4 DEF OpenOK
<1> QED  BY <1>2, <1>4, <1>10, <1>12, <1>13, <1>14, <1>15, <1>16 DEF Turned, Flow, Carried, t, D

(* ResumeOutput when what waits can be loaded.                             *)
LEMMA ResumeFlow ==
  ASSUME NEW r, NEW m, NEW d, NEW v, Turn(r, m, d, v), NEW n, Head(r.fx).op = "ResumeOutput",
         m.w.waiting # None, n = load_waiting(m)
  PROVE  Turned(Popped(r), m, n, d, v)
<1> DEFINE e == Head(r.fx)
           t == Popped(r)
           D == DOMAIN m.w.audio
<1>1. Rest(r, t, e) /\ Says(r, D, e) /\ D \subseteq ChunkRef /\ Work(t, m, d)
  BY TurnLemma
<1>2. Fx(t, D)
  <2>1. Keeps(D, e, D)
    BY <1>1, EffectParts DEF Keeps, Says
  <2> QED  BY <1>1, <2>1, RestLemma DEF Turn, Flow
<1>3. /\ Gens(r, m, v) /\ Due(r, m) /\ Typed(m) /\ v \in Seq(Happens) /\ Carried(r, m, v) /\ d \in Seq(Results)
      /\ Fx(r, D) /\ e.op = "ResumeOutput"
  BY DEF Turn, Flow
<1> HIDE DEF e, t, D
<1>4. Kept(t) /\ Kept(r) /\ ~r.paused /\ ~t.paused /\ r.loaded # None /\ t.loaded = r.loaded
      /\ t.gen = r.gen /\ Place(t) = Place(r) /\ r.loaded = r.gen /\ Good(t) /\ r.gen \in Nat
  BY <1>1, <1>3 DEF Says, Rest, Kept
<1>5. ~Has(r.fx, "StopOutput")
  BY <1>3, <1>4 DEF Fx
<1>6. WaitFlows(t, m, d, v)
  BY <1>2, <1>3, <1>4, <1>5, <1>1 DEF WaitFlows, D, Due, Gens, Carried, WaitsWell
<1> QED  BY <1>6, LoadWaiting DEF Turned, t

-----------------------------------------------------------------------------
(* Synthesize, and the end of an item.                                     *)
LEMMA SlotLemma ==
  ASSUME NEW m, Typed(m), NEW p \in ChunkRef, NEW slot \in Slots, NEW n, n = WithSlot(m, p, slot)
  PROVE  /\ Typed(n) /\ DOMAIN n.w.audio = DOMAIN m.w.audio \cup {p}
         /\ St(n, p) = slot.st /\ Num(n, p) = slot.n
         /\ \A q : q # p => St(n, q) = St(m, q) /\ Num(n, q) = Num(m, q)
                            /\ (Loadable(n, q) <=> Loadable(m, q))
         /\ n.w.waiting = m.w.waiting /\ n.w.open = m.w.open /\ n.w.pending = m.w.pending
         /\ n.w.hold = m.w.hold /\ n.w.phase = m.w.phase /\ n.s = m.s /\ n.o = m.o
<1> DEFINE a == [q \in DOMAIN m.w.audio \cup {p} |-> IF q = p THEN slot ELSE m.w.audio[q]]
<1>1. n = [m EXCEPT !.w.audio = a]
  BY DEF WithSlot
<1>2. /\ DOMAIN a = DOMAIN m.w.audio \cup {p} /\ a[p] = slot
      /\ \A q \in DOMAIN m.w.audio : q # p => a[q] = m.w.audio[q]
  OBVIOUS
<1> HIDE DEF a
<1>3. /\ DOMAIN n = DOMAIN m /\ DOMAIN n.w = DOMAIN m.w /\ n.w.audio = a
      /\ n.w.waiting = m.w.waiting /\ n.w.open = m.w.open /\ n.w.pending = m.w.pending
      /\ n.w.hold = m.w.hold /\ n.w.phase = m.w.phase /\ n.s = m.s /\ n.o = m.o
  BY <1>1 DEF Typed, Shape
<1>4. DOMAIN a \subseteq ChunkRef /\ \A q \in DOMAIN a : a[q] \in Slots
  BY <1>2 DEF Typed, OfWorker
<1>5. Typed(n)
  BY <1>3, <1>4 DEF Typed, Shape, OfWorker
<1>6. SlotOf(n, p) = slot /\ \A q : q # p => SlotOf(n, q) = SlotOf(m, q)
  BY <1>2, <1>3 DEF SlotOf
<1> QED  BY <1>2, <1>3, <1>5, <1>6 DEF St, Num, Loadable

(* The output and what waits, when they stay as they are and the chunk the *)
(* reader has loaded does.                                                 *)
LEMMA StillFlow ==
  ASSUME NEW r, NEW t, NEW m, NEW n, NEW v, Gens(r, m, v), Due(r, m), Carried(r, m, v),
         t.gen = r.gen, t.loaded = r.loaded, t.paused = r.paused, Place(t) = Place(r),
         \A op \in {"PlayChunk", "PauseOutput", "ResumeOutput", "StopOutput"} : Has(t.fx, op) <=> Has(r.fx, op),
         n.o = m.o, n.w.waiting = m.w.waiting, n.w.pending = m.w.pending, n.w.hold = m.w.hold,
         Kept(r) /\ Place(r) \in DOMAIN m.w.audio =>
           /\ Place(r) \in DOMAIN n.w.audio
           /\ St(n, Place(r)) = St(m, Place(r)) /\ Num(n, Place(r)) = Num(m, Place(r))
           /\ Loadable(n, Place(r)) <=> Loadable(m, Place(r)),
         Kept(r) /\ m.o.open /\ m.o.gen = r.loaded => n.w.open = m.w.open
  PROVE  Gens(t, n, v) /\ Due(t, n) /\ Carried(t, n, v)
<1>1. Kept(t) <=> Kept(r)
  BY DEF Kept
<1>2. Gens(t, n, v)
  <2>1. \A g : Newer(n, v, g) <=> Newer(m, v, g)
    BY DEF Newer
  <2>2. Told(n, v)
    BY DEF Gens, Told
  <2> QED  BY <2>1, <2>2 DEF Gens
<1>3. Due(t, n)
  BY <1>1 DEF Due, Live
<1>4. Somewhere(r, m, v) => Somewhere(t, n, v)
  BY DEF Somewhere
<1>5. Kept(r) /\ WaitsWell(r, m) => WaitsWell(t, n)
  BY DEF WaitsWell
<1>6. Kept(r) /\ m.o.gen = r.loaded /\ SoundsWell(r, m) => SoundsWell(t, n)
  BY DEF SoundsWell
<1> QED  BY <1>1, <1>2, <1>3, <1>4, <1>5, <1>6 DEF Carried

LEMMA SynthesizeFlow ==
  ASSUME NEW r, NEW m, NEW d, NEW v, Turn(r, m, d, v), NEW n, NEW p, Makes(Head(r.fx), p),
         n = push_job(WithSlot(m, p, Slot("Pending", 0)), p)
  PROVE  Turned(Popped(r), m, n, d, v)
<1> DEFINE e == Head(r.fx)
           t == Popped(r)
           D == DOMAIN m.w.audio
           s == WithSlot(m, p, Slot("Pending", 0))
<1>1. Rest(r, t, e) /\ Says(r, D, e) /\ D \subseteq ChunkRef /\ Work(t, m, d)
  BY TurnLemma
<1>0. Makes(e, p) /\ e.op = "Synthesize" /\ n = push_job(s, p)
  BY DEF Makes
<1>2. Fx(t, D \cup {p})
  <2>1. Keeps(D, e, D \cup {p})
    BY <1>0 DEF Keeps, Makes, EndsItem
  <2> QED  BY <1>1, <2>1, RestLemma DEF Turn, Flow
<1>3. /\ Gens(r, m, v) /\ Due(r, m) /\ Typed(m) /\ Carried(r, m, v) /\ OpenOK(m)
  BY DEF Turn, Flow
<1>4. p \in ChunkRef /\ p \notin D /\ ~Gone(t, p[1])
  BY <1>0, <1>1 DEF Says, Rest
<1> HIDE DEF e, t, D
<1>5. Slot("Pending", 0) \in Slots /\ Slot("Pending", 0).st = "Pending" /\ Slot("Pending", 0).n = 0
  BY DEF Slot, Slots
<1>6. /\ Typed(s) /\ DOMAIN s.w.audio = D \cup {p}
      /\ St(s, p) = "Pending" /\ Num(s, p) = 0
      /\ \A q : q # p => St(s, q) = St(m, q) /\ Num(s, q) = Num(m, q)
                         /\ (Loadable(s, q) <=> Loadable(m, q))
      /\ s.w.waiting = m.w.waiting /\ s.w.open = m.w.open /\ s.w.pending = m.w.pending
      /\ s.w.hold = m.w.hold /\ s.w.phase = m.w.phase /\ s.s = m.s /\ s.o = m.o
  BY <1>3, <1>4, <1>5, SlotLemma DEF D
<1> HIDE DEF s
<1>7. /\ DOMAIN n = DOMAIN s /\ n.w = s.w /\ n.o = s.o /\ DOMAIN n.s = DOMAIN s.s
      /\ n.s.tasks = Append(s.s.tasks, p) /\ n.s.job = s.s.job /\ n.s.cancelled = s.s.cancelled
      /\ n.s.made = s.s.made /\ n.s.result = s.s.result /\ n.s.streams = s.s.streams
  BY <1>0, <1>6 DEF push_job, Typed, Shape
<1>8. Typed(n) /\ \A q : Among(n.s.tasks, q) <=> Among(m.s.tasks, q) \/ q = p
  <2>1. s.s.tasks \in Seq(ChunkRef)
    BY <1>6 DEF Typed, OfSynth
  <2>2. Append(s.s.tasks, p) \in Seq(ChunkRef)
    BY <1>4, <2>1
  <2>3. \A q : Among(n.s.tasks, q) <=> Among(s.s.tasks, q) \/ q = p
    <3>1. \A q : Among(Append(s.s.tasks, p), q) <=> Among(s.s.tasks, q) \/ q = p
      BY <2>1, AmongAppend, Zenon
    <3>2. n.s.tasks = Append(s.s.tasks, p)
      BY <1>7
    <3> QED  BY <3>1, <3>2, Zenon
  <2> QED  BY <1>6, <1>7, <2>2, <2>3 DEF Typed, Shape, OfSynth
<1>9. \A q : /\ St(n, q) = St(s, q) /\ Num(n, q) = Num(s, q) /\ (Loadable(n, q) <=> Loadable(s, q))
  BY <1>7 DEF St, Num, Loadable, SlotOf
<1>10. /\ Known(t, m, d) /\ Comes(m, d) /\ Cancels(m, d) /\ Counts(m, d)
       /\ ~Wanted(t, m, p)
  BY <1>1, <1>4 DEF Work, Wanted, D
<1>11. \A q : Wanted(t, m, q) => Wanted(t, n, q) /\ q # p
  BY <1>6, <1>7, <1>10 DEF Wanted, D
<1>12. Known(t, n, d)
  <2>1. Wanted(t, n, p)
    BY <1>6, <1>7 DEF Wanted
  <2> QED  BY <1>6, <1>7, <1>8, <1>10, <1>11, <2>1 DEF Known
<1>13. Comes(n, d)
  BY <1>6, <1>7, <1>8, <1>9, <1>10 DEF Comes, Making
<1>14. Cancels(n, d)
  BY <1>6, <1>7, <1>10, <1>11 DEF Cancels, Known, D
<1>15. Counts(n, d)
  <2>1. m.s.job # None => St(n, m.s.job) = St(m, m.s.job) /\ Num(n, m.s.job) = Num(m, m.s.job)
    BY <1>6, <1>9, <1>10, <1>11 DEF Known
  <2>2. \A k \in 1..Len(d) : St(n, d[k].p) = St(m, d[k].p) /\ Num(n, d[k].p) = Num(m, d[k].p)
    BY <1>6, <1>9, <1>10, <1>11 DEF Known
  <2>3. \A q : St(m, q) # "Streaming" => St(n, q) # "Streaming"
    BY <1>6, <1>9
  <2> QED  BY <1>6, <1>7, <1>10, <2>1, <2>2, <2>3 DEF Counts, Making
<1>16. OpenOK(n)
  <2>1. m.w.open # None => m.w.open.p # p
    <3>1. St(m, p) # "Streaming"
      BY <1>3, <1>4, SlotTypes DEF D
    <3> QED  BY <1>3, <3>1 DEF OpenOK
  <2> QED  BY <1>3, <1>6, <1>7, <1>9, <2>1 DEF OpenOK
<1>17. Gens(t, n, v) /\ Due(t, n) /\ Carried(t, n, v)
  <2>1. \A op \in {"PlayChunk", "PauseOutput", "ResumeOutput", "StopOutput"} : Has(t.fx, op) <=> Has(r.fx, op)
    BY <1>0, <1>1 DEF Rest
  <2>2. Place(r) \in DOMAIN m.w.audio =>
           /\ Place(r) \in DOMAIN n.w.audio
           /\ St(n, Place(r)) = St(m, Place(r)) /\ Num(n, Place(r)) = Num(m, Place(r))
           /\ Loadable(n, Place(r)) <=> Loadable(m, Place(r))
    BY <1>4, <1>6, <1>7, <1>9 DEF D
  <2>3. /\ n.o = m.o /\ n.w.waiting = m.w.waiting /\ n.w.pending = m.w.pending /\ n.w.hold = m.w.hold
        /\ n.w.open = m.w.open
        /\ t.gen = r.gen /\ t.loaded = r.loaded /\ t.paused = r.paused /\ Place(t) = Place(r)
    BY <1>1, <1>6, <1>7 DEF Rest
  <2> QED  BY <1>3, <2>1, <2>2, <2>3, StillFlow
<1> QED  BY <1>2, <1>6, <1>7, <1>8, <1>12, <1>13, <1>14, <1>15, <1>16, <1>17 DEF Turned, Flow, Work, t

(* An item ends.                                                           *)
LEMMA EndedLemma ==
  ASSUME NEW m, Typed(m), NEW i, NEW n, n = item_ended(m, i)
  PROVE  /\ Typed(n) /\ DOMAIN n.w.audio = {q \in DOMAIN m.w.audio : q[1] # i}
         /\ \A q : q[1] # i => St(n, q) = St(m, q) /\ Num(n, q) = Num(m, q)
                               /\ (Loadable(n, q) <=> Loadable(m, q))
         /\ \A q : q \notin DOMAIN n.w.audio => St(n, q) = "None"
         /\ n.w.open = (IF m.w.open # None /\ m.w.open.p[1] = i THEN None ELSE m.w.open)
         /\ n.w.waiting = m.w.waiting /\ n.w.pending = m.w.pending
         /\ n.w.hold = m.w.hold /\ n.w.phase = m.w.phase /\ n.o = m.o
         /\ \A q : Among(n.s.tasks, q) <=> Among(m.s.tasks, q) /\ q[1] # i
         /\ n.s.job = m.s.job /\ n.s.made = m.s.made /\ n.s.result = m.s.result
         /\ n.s.streams = m.s.streams
         /\ n.s.cancelled <=> m.s.cancelled \/ (m.s.job # None /\ m.s.job[1] = i)
<1> DEFINE D == {q \in DOMAIN m.w.audio : q[1] # i}
           a == [q \in D |-> m.w.audio[q]]
           o == IF m.w.open # None /\ m.w.open.p[1] = i THEN None ELSE m.w.open
           s == [m EXCEPT !.w.open = o, !.w.audio = a]
           K == {k \in 1..Len(m.s.tasks) : m.s.tasks[k][1] # i}
           t == retain(m.s.tasks, K)
           c == m.s.cancelled \/ (m.s.job # None /\ m.s.job[1] = i)
<1>1. Typed(m) /\ Shape(m)
  BY DEF Typed
<1>2. o \in Opened \cup {None} /\ DOMAIN a = D /\ D \subseteq ChunkRef /\ D \subseteq DOMAIN m.w.audio
      /\ \A q \in D : a[q] = m.w.audio[q] /\ a[q] \in Slots
  BY <1>1 DEF Typed, OfWorker
<1>3. t \in Seq(ChunkRef) /\ \A q : Among(t, q) <=> Among(m.s.tasks, q) /\ q[1] # i
  <2>1. m.s.tasks \in Seq(ChunkRef) /\ K \in SUBSET (1..Len(m.s.tasks))
    BY <1>1 DEF Typed, OfSynth
  <2>2. \A q : (\E k \in K : m.s.tasks[k] = q) <=> Among(m.s.tasks, q) /\ q[1] # i
    BY DEF Among
  <2> HIDE DEF K
  <2>3. t \in Seq(ChunkRef) /\ \A q : Among(t, q) <=> \E k \in K : m.s.tasks[k] = q
    BY <2>1, RetainLemma
  <2> QED  BY <2>2, <2>3
<1>4. c \in BOOLEAN
  BY <1>1 DEF Typed, OfSynth
<1>5. /\ s.s = m.s /\ s.o = m.o /\ DOMAIN s = DOMAIN m /\ DOMAIN s.w = DOMAIN m.w
      /\ s.w.open = o /\ s.w.audio = a /\ s.w.waiting = m.w.waiting /\ s.w.pending = m.w.pending
      /\ s.w.hold = m.w.hold /\ s.w.phase = m.w.phase
  <2> HIDE DEF o, a
  <2> QED  BY <1>1 DEF Shape
<1>6. item_ended(m, i) = drop_item(s, i)
  <2>1. s = [m EXCEPT
               !.w.open = IF @ # None /\ @.p[1] = i THEN None ELSE @,
               !.w.audio = [p \in {q \in DOMAIN @ : q[1] # i} |-> @[p]]]
    BY <1>1 DEF Shape
  <2> QED  BY <2>1 DEF item_ended
<1>7. drop_item(s, i) = [s EXCEPT !.s.tasks = t, !.s.cancelled = c]
  <2>1. s.s = m.s /\ DOMAIN s = DOMAIN m
    BY <1>5
  <2> HIDE DEF s
  <2> QED  BY <1>1, <2>1 DEF drop_item, Shape
<1> HIDE DEF s, t, c, o, a
<1>8. /\ DOMAIN n = DOMAIN s /\ n.w = s.w /\ n.o = s.o /\ DOMAIN n.s = DOMAIN s.s
      /\ n.s.tasks = t /\ n.s.cancelled = c /\ n.s.job = s.s.job
      /\ n.s.made = s.s.made /\ n.s.result = s.s.result /\ n.s.streams = s.s.streams
  <2>1. n = [s EXCEPT !.s.tasks = t, !.s.cancelled = c]
    BY <1>6, <1>7
  <2>2. {"w", "s", "o"} \subseteq DOMAIN s /\ {"tasks", "job", "cancelled", "made", "result", "streams"} \subseteq DOMAIN s.s
    BY <1>1, <1>5 DEF Shape
  <2> DEFINE u == [s EXCEPT !.s.tasks = t]
  <2>3. /\ DOMAIN u = DOMAIN s /\ u.w = s.w /\ u.o = s.o /\ DOMAIN u.s = DOMAIN s.s /\ u.s.tasks = t
        /\ u.s.job = s.s.job /\ u.s.made = s.s.made /\ u.s.result = s.s.result
        /\ u.s.streams = s.s.streams
    BY <2>2
  <2>4. n = [u EXCEPT !.s.cancelled = c]
    BY <2>1
  <2> HIDE DEF u
  <2> QED  BY <2>2, <2>3, <2>4
<1>9. Typed(n)
  BY <1>1, <1>2, <1>3, <1>4, <1>5, <1>8 DEF Typed, Shape, OfWorker, OfSynth
<1>10. \A q : q[1] # i => SlotOf(n, q) = SlotOf(m, q)
  BY <1>2, <1>5, <1>8 DEF SlotOf
<1>11. \A q : q[1] # i => St(n, q) = St(m, q) /\ Num(n, q) = Num(m, q)
                          /\ (Loadable(n, q) <=> Loadable(m, q))
  BY <1>10 DEF St, Num, Loadable
<1>12. \A q : q \notin DOMAIN n.w.audio => St(n, q) = "None"
  BY <1>9, SlotTypes
<1> QED  BY <1>2, <1>3, <1>5, <1>8, <1>9, <1>11, <1>12 DEF o, c

LEMMA EndedFlow ==
  ASSUME NEW r, NEW m, NEW d, NEW v, Turn(r, m, d, v), NEW n, NEW i, EndsItem(Head(r.fx), i),
         n = item_ended(m, i)
  PROVE  Turned(Popped(r), m, n, d, v)
<1> DEFINE e == Head(r.fx)
           t == Popped(r)
           D == DOMAIN m.w.audio
           E == {q \in D : q[1] # i}
<1>1. Rest(r, t, e) /\ Says(r, D, e) /\ D \subseteq ChunkRef /\ Work(t, m, d)
  BY TurnLemma
<1>0. EndsItem(e, i) /\ e.op = "Item"
  BY DEF EndsItem
<1>2. Fx(t, E)
  <2>1. Keeps(D, e, E)
    BY <1>0 DEF Keeps, Makes, EndsItem
  <2> QED  BY <1>1, <2>1, RestLemma DEF Turn, Flow
<1>3. /\ Gens(r, m, v) /\ Due(r, m) /\ Typed(m) /\ Carried(r, m, v) /\ OpenOK(m)
  BY DEF Turn, Flow
<1>4. Gone(t, i) /\ i < t.next_id
  BY <1>0, <1>1 DEF Says, Rest
<1> HIDE DEF e, t, D
<1>5. /\ Typed(n) /\ DOMAIN n.w.audio = E
      /\ \A q : q[1] # i => St(n, q) = St(m, q) /\ Num(n, q) = Num(m, q)
                            /\ (Loadable(n, q) <=> Loadable(m, q))
      /\ \A q : q \notin DOMAIN n.w.audio => St(n, q) = "None"
      /\ n.w.open = (IF m.w.open # None /\ m.w.open.p[1] = i THEN None ELSE m.w.open)
      /\ n.w.waiting = m.w.waiting /\ n.w.pending = m.w.pending
      /\ n.w.hold = m.w.hold /\ n.w.phase = m.w.phase /\ n.o = m.o
  BY <1>3, EndedLemma DEF D
<1>6. /\ \A q : Among(n.s.tasks, q) <=> Among(m.s.tasks, q) /\ q[1] # i
      /\ n.s.job = m.s.job /\ n.s.made = m.s.made /\ n.s.result = m.s.result
      /\ n.s.streams = m.s.streams
      /\ n.s.cancelled <=> m.s.cancelled \/ (m.s.job # None /\ m.s.job[1] = i)
  BY <1>3, EndedLemma
<1>7. Known(t, m, d) /\ Comes(m, d) /\ Cancels(m, d) /\ Counts(m, d)
  BY <1>1 DEF Work
<1>8. \A q : q \in E <=> q \in D /\ q[1] # i
  OBVIOUS
<1> HIDE DEF E
<1>9. \A q : Wanted(t, m, q) => Wanted(t, n, q)
  BY <1>4, <1>5, <1>8 DEF Wanted, D
<1>10. \A q : Making(n, q) => Making(m, q) /\ Num(n, q) = Num(m, q) /\ q[1] # i
  BY <1>5, <1>8 DEF Making
<1>11. Known(t, n, d)
  BY <1>6, <1>7, <1>9 DEF Known
<1>12. Comes(n, d)
  BY <1>6, <1>7, <1>10 DEF Comes
<1>13. Cancels(n, d)
  BY <1>5, <1>6, <1>7, <1>8 DEF Cancels, D
<1>14. Counts(n, d)
  <2>1. \A q : St(n, q) = "Streaming" => St(m, q) = "Streaming"
    BY <1>5, <1>8
  <2> QED  BY <1>6, <1>7, <1>10, <2>1 DEF Counts
<1>15. OpenOK(n)
  BY <1>3, <1>5 DEF OpenOK
<1>16. Gens(t, n, v) /\ Due(t, n) /\ Carried(t, n, v)
  <2>1. \A op \in {"PlayChunk", "PauseOutput", "ResumeOutput", "StopOutput"} : Has(t.fx, op) <=> Has(r.fx, op)
    BY <1>0, <1>1 DEF Rest
  <2>0. Kept(r) => Place(r)[1] # i
    BY <1>0, <1>1, <1>4 DEF Kept, Rest
  <2>2. Kept(r) /\ Place(r) \in DOMAIN m.w.audio =>
           /\ Place(r) \in DOMAIN n.w.audio
           /\ St(n, Place(r)) = St(m, Place(r)) /\ Num(n, Place(r)) = Num(m, Place(r))
           /\ Loadable(n, Place(r)) <=> Loadable(m, Place(r))
    BY <1>5, <1>8, <2>0 DEF D
  <2>3. /\ n.o = m.o /\ n.w.waiting = m.w.waiting /\ n.w.pending = m.w.pending /\ n.w.hold = m.w.hold
        /\ t.gen = r.gen /\ t.loaded = r.loaded /\ t.paused = r.paused /\ Place(t) = Place(r)
    BY <1>1, <1>5 DEF Rest
  <2>4. Kept(r) /\ m.o.open /\ m.o.gen = r.loaded => n.w.open = m.w.open
    BY <1>3, <1>5, <2>0 DEF Carried, SoundsWell
  <2> QED  BY <1>3, <2>1, <2>2, <2>3, <2>4, StillFlow
<1> QED  BY <1>2, <1>5, <1>11, <1>12, <1>13, <1>14, <1>15, <1>16 DEF Turned, Flow, Work, t

-----------------------------------------------------------------------------
(* Every effect, as the worker carries it out.                             *)
LEMMA ApplyFlow ==
  ASSUME NEW r, NEW m, NEW d, NEW v, Turn(r, m, d, v)
  PROVE  Turned(Popped(r), m, apply(m, Head(r.fx)), d, v)
<1> DEFINE e == Head(r.fx)
           n == apply(m, e)
           p == <<e.item, e.chunk>>
<1>1. /\ Typed(m) /\ e \in Effect
  BY TurnLemma DEF Turn, Says
<1>2. /\ OfOutput(m.o) /\ OfWorker(m.w) /\ Shape(m)
  BY <1>1 DEF Typed
<1>3. e.op \in {"Synthesize", "PlayChunk", "PauseOutput", "ResumeOutput", "StopOutput", "Mute", "Unmute",
                "SetVolume", "Item", "State"}
  BY <1>1 DEF Effect
<1> HIDE DEF e
<1>4. CASE e.op = "Synthesize"
  <2>1. n = push_job(WithSlot(m, p, Slot("Pending", 0)), p)
    BY <1>4 DEF apply
  <2>2. Makes(e, p)
    BY <1>4 DEF Makes
  <2> HIDE DEF p, n
  <2> QED  BY <2>1, <2>2, SynthesizeFlow DEF e, n
<1>5. CASE e.op = "PlayChunk"
  <2>1. n = load([m EXCEPT !.w.waiting = None], p, e.gen)
    BY <1>5 DEF apply
  <2> HIDE DEF n
  <2> QED  BY <1>5, <2>1, PlayFlow DEF e, n
<1>6. CASE e.op = "PauseOutput"
  <2>1. n = IF m.w.waiting # None THEN [m EXCEPT !.w.waiting.paused = TRUE]
            ELSE IF m.o.gen # None THEN [m EXCEPT !.o.paused = TRUE] ELSE m
    BY <1>6 DEF apply, output_pause
  <2> HIDE DEF n
  <2>2. CASE m.w.waiting # None
    <3> DEFINE w == [m.w.waiting EXCEPT !.paused = TRUE]
    <3>1. n = [m EXCEPT !.w.waiting = w]
      BY <1>2, <2>1, <2>2 DEF Shape
    <3>2. w \in Waiting
      BY <1>2, <2>2 DEF OfWorker, Waiting
    <3> HIDE DEF w
    <3>3. /\ DOMAIN n = DOMAIN m /\ DOMAIN n.w = DOMAIN m.w /\ n.w.waiting = w
          /\ n.w.audio = m.w.audio /\ n.w.open = m.w.open /\ n.w.pending = m.w.pending
          /\ n.w.hold = m.w.hold /\ n.w.phase = m.w.phase /\ n.s = m.s /\ n.o = m.o
      BY <1>2, <3>1 DEF Shape
    <3>4. Typed(n)
      BY <1>1, <3>2, <3>3 DEF Typed, Shape, OfWorker
    <3>5. TRUE \in BOOLEAN /\ e.op = IF TRUE THEN "PauseOutput" ELSE "ResumeOutput"
      BY <1>6
    <3> QED  BY <2>2, <3>3, <3>4, <3>5, PauseFlow DEF e, n, w
  <2>3. CASE m.w.waiting = None /\ m.o.gen # None
    <3>1. n = [m EXCEPT !.o.paused = TRUE]
      BY <2>1, <2>3
    <3>3. /\ DOMAIN n = DOMAIN m /\ DOMAIN n.o = DOMAIN m.o /\ n.o.paused = TRUE
          /\ n.o.gen = m.o.gen /\ n.o.p = m.o.p /\ n.o.n = m.o.n /\ n.o.open = m.o.open
          /\ n.o.ended = m.o.ended /\ n.w = m.w /\ n.s = m.s
      BY <1>2, <3>1 DEF Shape
    <3>4. Typed(n)
      BY <1>1, <3>3 DEF Typed, Shape, OfOutput
    <3>5. TRUE \in BOOLEAN /\ e.op = IF TRUE THEN "PauseOutput" ELSE "ResumeOutput"
      BY <1>6
    <3> QED  BY <2>3, <3>3, <3>4, <3>5, PauseFlow DEF e, n
  <2>4. CASE m.w.waiting = None /\ m.o.gen = None
    <3>1. n = m
      BY <2>1, <2>4
    <3>5. TRUE \in BOOLEAN /\ e.op = IF TRUE THEN "PauseOutput" ELSE "ResumeOutput"
      BY <1>6
    <3> QED  BY <1>1, <2>4, <3>1, <3>5, PauseFlow DEF e, n
  <2> QED  BY <2>2, <2>3, <2>4
<1>7. CASE e.op = "ResumeOutput"
  <2>1. n = IF m.w.waiting = None THEN IF m.o.gen # None THEN [m EXCEPT !.o.paused = FALSE] ELSE m
            ELSE IF Loadable(m, m.w.waiting.p) THEN load_waiting(m)
            ELSE [m EXCEPT !.w.waiting.paused = FALSE]
    BY <1>7 DEF apply, output_resume
  <2>5. FALSE \in BOOLEAN /\ e.op = IF FALSE THEN "PauseOutput" ELSE "ResumeOutput"
    BY <1>7
  <2> HIDE DEF n
  <2>2. CASE m.w.waiting # None /\ ~Loadable(m, m.w.waiting.p)
    <3> DEFINE w == [m.w.waiting EXCEPT !.paused = FALSE]
    <3>1. n = [m EXCEPT !.w.waiting = w]
      BY <1>2, <2>1, <2>2 DEF Shape
    <3>2. w \in Waiting
      BY <1>2, <2>2 DEF OfWorker, Waiting
    <3> HIDE DEF w
    <3>3. /\ DOMAIN n = DOMAIN m /\ DOMAIN n.w = DOMAIN m.w /\ n.w.waiting = w
          /\ n.w.audio = m.w.audio /\ n.w.open = m.w.open /\ n.w.pending = m.w.pending
          /\ n.w.hold = m.w.hold /\ n.w.phase = m.w.phase /\ n.s = m.s /\ n.o = m.o
      BY <1>2, <3>1 DEF Shape
    <3>4. Typed(n)
      BY <1>1, <3>2, <3>3 DEF Typed, Shape, OfWorker
    <3> QED  BY <2>2, <2>5, <3>3, <3>4, PauseFlow DEF e, n, w
  <2>3. CASE m.w.waiting = None /\ m.o.gen # None
    <3>1. n = [m EXCEPT !.o.paused = FALSE]
      BY <2>1, <2>3
    <3>3. /\ DOMAIN n = DOMAIN m /\ DOMAIN n.o = DOMAIN m.o /\ n.o.paused = FALSE
          /\ n.o.gen = m.o.gen /\ n.o.p = m.o.p /\ n.o.n = m.o.n /\ n.o.open = m.o.open
          /\ n.o.ended = m.o.ended /\ n.w = m.w /\ n.s = m.s
      BY <1>2, <3>1 DEF Shape
    <3>4. Typed(n)
      BY <1>1, <3>3 DEF Typed, Shape, OfOutput
    <3> QED  BY <2>3, <2>5, <3>3, <3>4, PauseFlow DEF e, n
  <2>4. CASE m.w.waiting = None /\ m.o.gen = None
    <3>1. n = m
      BY <2>1, <2>4
    <3> QED  BY <1>1, <2>4, <2>5, <3>1, PauseFlow DEF e, n
  <2>6. CASE m.w.waiting # None /\ Loadable(m, m.w.waiting.p)
    BY <1>7, <2>1, <2>6, ResumeFlow DEF e, n
  <2> QED  BY <2>2, <2>3, <2>4, <2>6
<1>8. CASE e.op = "StopOutput"
  <2> DEFINE s == [m EXCEPT !.w.open = None, !.w.waiting = None]
             u == [m.o EXCEPT !.gen = None]
             q == [EmptyOutput EXCEPT !.volume = s.o.volume]
  <2>1. n = IF m.w.waiting = None THEN [s EXCEPT !.o = q] ELSE s
    BY <1>8 DEF apply, output_stop
  <2>2. /\ DOMAIN s = DOMAIN m /\ DOMAIN s.w = DOMAIN m.w /\ s.w.waiting = None
        /\ s.w.audio = m.w.audio /\ s.w.open = None /\ s.w.pending = m.w.pending
        /\ s.w.hold = m.w.hold /\ s.w.phase = m.w.phase /\ s.s = m.s /\ s.o = m.o
    BY <1>2 DEF Shape
  <2> HIDE DEF n, s
  <2>3. Typed(s)
    BY <1>1, <2>2 DEF Typed, Shape, OfWorker
  <2>4. /\ q.gen = None /\ q.n = 0 /\ q.open = FALSE /\ q.paused = FALSE /\ q.ended = FALSE
        /\ {"gen", "p", "n", "open", "paused", "started", "ended", "volume"} \subseteq DOMAIN q
    BY DEF EmptyOutput
  <2> HIDE DEF q
  <2>5. CASE m.w.waiting = None
    <3>1. n.w = s.w /\ n.s = s.s /\ n.o = q /\ DOMAIN n = DOMAIN s
      BY <1>2, <2>1, <2>2, <2>5 DEF Shape
    <3>2. OfOutput(q)
      <4>1. 0 \in Nat /\ FALSE \in BOOLEAN
        OBVIOUS
      <4> QED  BY <2>4, <4>1 DEF OfOutput
    <3>3. Shape(n)
      BY <2>3, <2>4, <3>1 DEF Typed, Shape
    <3>4. Typed(n)
      BY <2>3, <3>1, <3>2, <3>3 DEF Typed
    <3> QED  BY <1>8, <2>2, <2>4, <3>1, <3>4, StopFlow DEF e, n
  <2>6. CASE m.w.waiting # None
    <3>1. n = s
      BY <2>1, <2>6
    <3> QED  BY <1>8, <2>2, <2>3, <2>6, <3>1, StopFlow DEF e, n
  <2> QED  BY <2>5, <2>6
<1>9. CASE e.op = "Item" /\ e.phase # "Started"
  <2>1. n = item_ended(m, e.item)
    BY <1>9 DEF apply
  <2>2. EndsItem(e, e.item)
    BY <1>9 DEF EndsItem
  <2> HIDE DEF n
  <2> QED  BY <2>1, <2>2, EndedFlow DEF e, n
<1>10. CASE e.op \in {"Mute", "Unmute", "SetVolume", "State", "Item"} /\ ~(e.op = "Item" /\ e.phase # "Started")
  <2> DEFINE Quieted(b, vol) == [[m EXCEPT !.w.muted = b] EXCEPT !.o.volume = vol]
  <2>1. ASSUME NEW b, NEW vol PROVE Quietly(m, Quieted(b, vol))
    <3> DEFINE s == [m EXCEPT !.w.muted = b]
               u == [s EXCEPT !.o.volume = vol]
    <3>1. /\ DOMAIN s = DOMAIN m /\ DOMAIN s.w = DOMAIN m.w /\ s.w.waiting = m.w.waiting
          /\ s.w.audio = m.w.audio /\ s.w.open = m.w.open /\ s.w.pending = m.w.pending
          /\ s.w.hold = m.w.hold /\ s.w.phase = m.w.phase /\ s.s = m.s /\ s.o = m.o
      BY <1>2 DEF Shape
    <3> HIDE DEF s
    <3>2. /\ DOMAIN u = DOMAIN s /\ u.w = s.w /\ u.s = s.s /\ DOMAIN u.o = DOMAIN s.o
          /\ u.o.gen = m.o.gen /\ u.o.p = m.o.p /\ u.o.n = m.o.n /\ u.o.open = m.o.open
          /\ u.o.paused = m.o.paused /\ u.o.ended = m.o.ended
      BY <1>2, <3>1 DEF Shape
    <3> HIDE DEF u
    <3>3. Typed(u)
      BY <1>1, <3>1, <3>2 DEF Typed, Shape, OfWorker, OfOutput
    <3>4. Quietly(m, u)
      BY <3>1, <3>2, <3>3 DEF Quietly
    <3> QED  BY <3>4 DEF u, s
  <2>2. ASSUME NEW vol PROVE Quietly(m, set_level(m, vol))
    <3> DEFINE s == [m EXCEPT !.w.volume = vol]
               u == [s EXCEPT !.o.volume = vol]
    <3>0. set_level(m, vol) = IF m.w.muted THEN s ELSE u
      BY DEF set_level, output_volume
    <3>1. /\ DOMAIN s = DOMAIN m /\ DOMAIN s.w = DOMAIN m.w /\ s.w.waiting = m.w.waiting
          /\ s.w.audio = m.w.audio /\ s.w.open = m.w.open /\ s.w.pending = m.w.pending
          /\ s.w.hold = m.w.hold /\ s.w.phase = m.w.phase /\ s.s = m.s /\ s.o = m.o
      BY <1>2 DEF Shape
    <3> HIDE DEF s
    <3>2. /\ DOMAIN u = DOMAIN s /\ u.w = s.w /\ u.s = s.s /\ DOMAIN u.o = DOMAIN s.o
          /\ u.o.gen = m.o.gen /\ u.o.p = m.o.p /\ u.o.n = m.o.n /\ u.o.open = m.o.open
          /\ u.o.paused = m.o.paused /\ u.o.ended = m.o.ended
      BY <1>2, <3>1 DEF Shape
    <3> HIDE DEF u
    <3>3. Typed(u) /\ Typed(s)
      BY <1>1, <3>1, <3>2 DEF Typed, Shape, OfWorker, OfOutput
    <3>4. Quietly(m, u) /\ Quietly(m, s)
      BY <3>1, <3>2, <3>3 DEF Quietly
    <3> QED  BY <3>0, <3>4
  <2>3. e.op = "Mute" => n = Quieted(TRUE, 0)
    BY DEF apply, output_volume
  <2>4. e.op = "Unmute" => n = Quieted(FALSE, m.w.volume)
    BY DEF apply, output_volume
  <2>5. e.op = "SetVolume" => n = set_level(m, e.volume)
    BY DEF apply
  <2>6. e.op \in {"State", "Item"} => n = m
    BY <1>10 DEF apply
  <2>7. Quietly(m, m)
    BY <1>1 DEF Quietly
  <2> HIDE DEF n, Quieted
  <2>8. Quietly(m, n)
    <3>1. CASE e.op = "Mute"
      BY <2>1, <2>3, <3>1
    <3>2. CASE e.op = "Unmute"
      BY <2>1, <2>4, <3>2
    <3>3. CASE e.op = "SetVolume"
      BY <2>2, <2>5, <3>3
    <3>4. CASE e.op \in {"State", "Item"}
      BY <2>6, <2>7, <3>4
    <3> QED  BY <1>10, <3>1, <3>2, <3>3, <3>4
  <2>9. e.op \notin {"Synthesize", "PlayChunk", "PauseOutput", "ResumeOutput", "StopOutput"}
    BY <1>10
  <2> QED  BY <1>10, <2>8, <2>9, PassFlow DEF e, n
<1> QED  BY <1>3, <1>4, <1>5, <1>6, <1>7, <1>8, <1>9, <1>10 DEF e

-----------------------------------------------------------------------------
(* The results that wait, taken from one end and added at the other.       *)
IsPart(e, p) == e.p = p /\ e.result = "Part"
IsFinal(e, p) == e.p = p /\ e.result # "Part"
PartsAt(d, p, k) == {j \in 1..Len(d) : j < k /\ IsPart(d[j], p)}

LEMMA PartsCount ==
  ASSUME NEW d \in Seq(Results), NEW p, NEW k
  PROVE  /\ Parts(d, p, k) = Cardinality(PartsAt(d, p, k))
         /\ IsFiniteSet(PartsAt(d, p, k)) /\ Parts(d, p, k) \in Nat
<1>1. Len(d) \in Nat
  OBVIOUS
<1>2. IsFiniteSet(1..Len(d))
  BY <1>1, FS_Interval
<1>3. PartsAt(d, p, k) \in SUBSET (1..Len(d))
  BY DEF PartsAt
<1>4. IsFiniteSet(PartsAt(d, p, k))
  BY <1>2, <1>3, FS_Subset
<1>5. Parts(d, p, k) = Cardinality(PartsAt(d, p, k))
  BY DEF Parts, PartsAt, IsPart
<1> QED  BY <1>4, <1>5, FS_CardinalityType

(* The first result, and the ones after it.                                *)
LEMMA FirstResult ==
  ASSUME NEW d \in Seq(Results), d # <<>>
  PROVE  /\ Head(d) \in Results /\ Tail(d) \in Seq(Results)
         /\ 1 \in 1..Len(d) /\ d[1] = Head(d)
         /\ \A k \in 1..Len(Tail(d)) : k + 1 \in 1..Len(d) /\ Tail(d)[k] = d[k + 1]
         /\ \A p : Final(d, p) <=> IsFinal(Head(d), p) \/ Final(Tail(d), p)
<1> DEFINE e == Head(d)
           t == Tail(d)
<1>1. /\ Len(t) \in Nat /\ Len(d) = Len(t) + 1 /\ e = d[1] /\ e \in Results /\ t \in Seq(Results)
      /\ \A k \in 1..Len(t) : t[k] = d[k + 1]
  OBVIOUS
<1> HIDE DEF e, t
<1>2. \A k : k \in 1..Len(d) <=> k = 1 \/ \E j \in 1..Len(t) : k = j + 1
  <2>1. ASSUME NEW k \in 1..Len(d), k # 1 PROVE \E j \in 1..Len(t) : k = j + 1
    <3>1. k - 1 \in 1..Len(t) /\ k = (k - 1) + 1
      BY <1>1, <2>1
    <3> QED  BY <3>1
  <2> QED  BY <1>1, <2>1
<1>3. \A k \in 1..Len(t) : k + 1 \in 1..Len(d) /\ t[k] = d[k + 1]
  BY <1>1
<1>4. ASSUME NEW p PROVE Final(d, p) <=> IsFinal(e, p) \/ Final(t, p)
  <2>1. Final(d, p) <=> \E k : k \in 1..Len(d) /\ IsFinal(d[k], p)
    BY DEF Final, IsFinal
  <2>2. Final(t, p) <=> \E k : k \in 1..Len(t) /\ IsFinal(t[k], p)
    BY DEF Final, IsFinal
  <2>3. \A k \in 1..Len(t) : IsFinal(t[k], p) <=> IsFinal(d[k + 1], p)
    BY <1>3
  <2>4. IsFinal(e, p) <=> IsFinal(d[1], p)
    BY <1>1
  <2> QED  BY <1>2, <1>3, <2>1, <2>2, <2>3, <2>4
<1> QED  BY <1>1, <1>2, <1>3, <1>4 DEF e, t

LEMMA FirstParts ==
  ASSUME NEW d \in Seq(Results), d # <<>>, NEW p
  PROVE  /\ Parts(d, p, 1) = 0
         /\ \A k \in Nat \ {0} : Parts(d, p, k + 1) =
              Parts(Tail(d), p, k) + (IF IsPart(Head(d), p) THEN 1 ELSE 0)
         /\ Len(d) = Len(Tail(d)) + 1
<1> DEFINE e == Head(d)
           t == Tail(d)
<1>1. /\ Len(t) \in Nat /\ Len(d) = Len(t) + 1 /\ e = d[1] /\ t \in Seq(Results)
      /\ \A k \in 1..Len(t) : t[k] = d[k + 1]
  OBVIOUS
<1> HIDE DEF e, t
<1>2. Parts(d, p, 1) = 0
  <2>1. PartsAt(d, p, 1) = {}
    BY DEF PartsAt
  <2> QED  BY <2>1, PartsCount, FS_EmptySet
<1>3. ASSUME NEW k \in Nat \ {0}
      PROVE  Parts(d, p, k + 1) = Parts(t, p, k) + (IF IsPart(e, p) THEN 1 ELSE 0)
  <2> DEFINE A == PartsAt(d, p, k + 1)
             B == PartsAt(t, p, k)
             C == {j + 1 : j \in B}
             f == [j \in B |-> j + 1]
  <2>1. /\ Parts(d, p, k + 1) = Cardinality(A) /\ Parts(t, p, k) = Cardinality(B)
        /\ IsFiniteSet(B) /\ Cardinality(B) \in Nat
    BY <1>1, PartsCount
  <2>2. B \subseteq Nat /\ \A j \in B : j \in 1..Len(t) /\ j < k /\ IsPart(t[j], p)
    BY DEF PartsAt
  <2>3. f \in Bijection(B, C)
    <3> HIDE DEF B
    <3>1. f \in [B -> C] /\ \A j \in C : \E i \in B : f[i] = j
      OBVIOUS
    <3>2. \A i, j \in B : f[i] = f[j] => i = j
      BY <2>2
    <3> QED  BY <3>1, <3>2 DEF Bijection, Injection, Surjection, IsInjective
  <2>4. IsFiniteSet(C) /\ Cardinality(C) = Cardinality(B)
    <3> HIDE DEF B, C, f
    <3>1. ExistsBijection(B, C)
      BY <2>3 DEF ExistsBijection
    <3> QED  BY <2>1, <3>1, FS_Bijection
  <2>5. \A j \in C : j \in 2..Len(d) /\ j < k + 1 /\ IsPart(d[j], p)
    <3> SUFFICES ASSUME NEW i \in B PROVE i + 1 \in 2..Len(d) /\ i + 1 < k + 1 /\ IsPart(d[i + 1], p)
      OBVIOUS
    <3>1. i \in 1..Len(t) /\ i < k /\ IsPart(t[i], p)
      BY <2>2
    <3> HIDE DEF B
    <3> QED  BY <1>1, <3>1
  <2>6. \A j \in 2..Len(d) : j < k + 1 /\ IsPart(d[j], p) => j \in C
    <3> SUFFICES ASSUME NEW j \in 2..Len(d), j < k + 1, IsPart(d[j], p) PROVE j \in C
      OBVIOUS
    <3>1. j - 1 \in 1..Len(t) /\ j - 1 < k /\ t[j - 1] = d[j] /\ (j - 1) + 1 = j
      BY <1>1
    <3>2. j - 1 \in B
      BY <3>1 DEF PartsAt
    <3> HIDE DEF B
    <3> QED  BY <3>1, <3>2
  <2>7. A = IF IsPart(e, p) THEN C \cup {1} ELSE C
    <3> HIDE DEF C
    <3>1. \A j : j \in A <=> j \in 1..Len(d) /\ j < k + 1 /\ IsPart(d[j], p)
      BY DEF PartsAt
    <3> HIDE DEF A
    <3>2. 1 \in A <=> IsPart(e, p)
      BY <1>1, <3>1
    <3>3. \A j : j \in A /\ j # 1 <=> j \in C
      <4>1. \A j : j \in 2..Len(d) <=> j \in 1..Len(d) /\ j # 1
        BY <1>1
      <4> QED  BY <2>5, <2>6, <3>1, <4>1
    <3>4. \A j : j \in A <=> j \in C \/ (j = 1 /\ IsPart(e, p))
      BY <3>2, <3>3
    <3> QED  BY <3>4
  <2>8. 1 \notin C
    <3> HIDE DEF C
    <3> QED  BY <2>5
  <2> HIDE DEF A, B, C, f
  <2>9. Cardinality(C \cup {1}) = Cardinality(C) + 1
    BY <2>4, <2>8, FS_AddElement
  <2> QED  BY <2>1, <2>4, <2>7, <2>9
<1> QED  BY <1>1, <1>2, <1>3 DEF e, t

(* One more result.                                                        *)
LEMMA LastResult ==
  ASSUME NEW d \in Seq(Results), NEW e \in Results, NEW u, u = Append(d, e)
  PROVE  /\ u \in Seq(Results) /\ Len(d) \in Nat /\ Len(u) = Len(d) + 1 /\ u[Len(u)] = e
         /\ \A k \in 1..Len(d) : u[k] = d[k]
         /\ \A k : k \in 1..Len(u) <=> k \in 1..Len(d) \/ k = Len(u)
         /\ \A p : Final(u, p) <=> IsFinal(e, p) \/ Final(d, p)
<1>1. u \in Seq(Results) /\ Len(d) \in Nat /\ Len(u) = Len(d) + 1 /\ u[Len(u)] = e
      /\ \A k \in 1..Len(d) : u[k] = d[k]
  OBVIOUS
<1>2. \A k : k \in 1..Len(u) <=> k \in 1..Len(d) \/ k = Len(u)
  BY <1>1
<1>3. \A p : Final(u, p) <=> IsFinal(e, p) \/ Final(d, p)
  BY <1>1, <1>2, Zenon DEF Final, IsFinal
<1> QED  BY <1>1, <1>2, <1>3

MoreParts(d, e, u, p) ==
  /\ \A k \in 1..Len(u) : Parts(u, p, k) = Parts(d, p, k)
  /\ Parts(u, p, Len(u) + 1) = Parts(d, p, Len(d) + 1) + (IF IsPart(e, p) THEN 1 ELSE 0)

LEMMA LastParts ==
  ASSUME NEW d \in Seq(Results), NEW e \in Results, NEW u, u = Append(d, e)
  PROVE  \A p : MoreParts(d, e, u, p)
<1> SUFFICES ASSUME NEW p PROVE MoreParts(d, e, u, p)
  OBVIOUS
<1>1. /\ u \in Seq(Results) /\ Len(d) \in Nat /\ Len(u) = Len(d) + 1 /\ u[Len(u)] = e
      /\ \A k \in 1..Len(d) : u[k] = d[k]
      /\ \A k : k \in 1..Len(u) <=> k \in 1..Len(d) \/ k = Len(u)
  BY LastResult
<1>2. ASSUME NEW k \in 1..Len(u) PROVE Parts(u, p, k) = Parts(d, p, k)
  <2>1. \A j : j \in 1..Len(u) /\ j < k <=> j \in 1..Len(d) /\ j < k
    BY <1>1
  <2>2. PartsAt(u, p, k) = PartsAt(d, p, k)
    BY <1>1, <2>1 DEF PartsAt
  <2> QED  BY <1>1, <2>2, PartsCount
<1>3. Parts(u, p, Len(u) + 1) = Parts(d, p, Len(d) + 1) + (IF IsPart(e, p) THEN 1 ELSE 0)
  <2> DEFINE A == PartsAt(u, p, Len(u) + 1)
             B == PartsAt(d, p, Len(d) + 1)
  <2>1. /\ Parts(u, p, Len(u) + 1) = Cardinality(A) /\ Parts(d, p, Len(d) + 1) = Cardinality(B)
        /\ IsFiniteSet(B) /\ Cardinality(B) \in Nat
    BY <1>1, PartsCount
  <2>2. \A j : j \in A <=> j \in 1..Len(u) /\ IsPart(u[j], p)
    BY <1>1 DEF PartsAt
  <2>3. \A j : j \in B <=> j \in 1..Len(d) /\ IsPart(d[j], p)
    BY <1>1 DEF PartsAt
  <2>4. Len(u) \notin 1..Len(d)
    BY <1>1
  <2> HIDE DEF A, B
  <2>5. A = IF IsPart(e, p) THEN B \cup {Len(u)} ELSE B
    <3>1. \A j : j \in A <=> j \in B \/ (j = Len(u) /\ IsPart(e, p))
      BY <1>1, <2>2, <2>3
    <3> QED  BY <3>1
  <2>6. Cardinality(B \cup {Len(u)}) = Cardinality(B) + 1
    BY <2>1, <2>3, <2>4, FS_AddElement
  <2> QED  BY <2>1, <2>5, <2>6
<1> QED  BY <1>2, <1>3 DEF MoreParts

-----------------------------------------------------------------------------
(* A result or a hold, handled between two calls of the reader.            *)
Settled(r, m, d, v) ==
  /\ Good(r) /\ ShownOK(r) /\ r.fx = <<>> /\ Typed(m)
  /\ d \in Seq(Results) /\ v \in Seq(Happens) /\ Flow(r, m, d, v)

Steady(r) ==
  /\ ~Has(r.fx, "PlayChunk") /\ ~Has(r.fx, "StopOutput")
  /\ ~Has(r.fx, "PauseOutput") /\ ~Has(r.fx, "ResumeOutput")
  /\ (Kept(r) <=> r.loaded # None) /\ (Kept(r) => r.loaded = r.gen /\ r.gen \in Nat \ {0})

LEMMA SteadyLemma ==
  ASSUME NEW r, NEW m, NEW d, NEW v, Settled(r, m, d, v)
  PROVE  /\ Steady(r) /\ Typed(m) /\ Idle(r)
         /\ Fx(r, DOMAIN m.w.audio) /\ Gens(r, m, v) /\ Due(r, m) /\ Carried(r, m, v)
         /\ Work(r, m, d) /\ OpenOK(m)
<1>1. Idle(r) /\ Typed(m)
  BY DEF Settled, Idle
<1>2. /\ Fx(r, DOMAIN m.w.audio) /\ Gens(r, m, v) /\ Due(r, m) /\ Carried(r, m, v)
      /\ Work(r, m, d) /\ OpenOK(m)
  BY DEF Settled, Flow
<1>3. DOMAIN m.w.audio \in SUBSET ChunkRef
  BY <1>1 DEF Typed, OfWorker
<1>4. /\ ~Has(r.fx, "PlayChunk") /\ ~Has(r.fx, "StopOutput")
      /\ ~Has(r.fx, "PauseOutput") /\ ~Has(r.fx, "ResumeOutput") /\ (Kept(r) <=> r.loaded # None)
  BY <1>1, <1>2, <1>3, NothingBefore
<1>5. Kept(r) => r.loaded = r.gen /\ r.gen \in Nat \ {0}
  <2>1. r.loaded \in (Nat \ {0}) \cup {None} /\ LoadedOK(r)
    BY Fields DEF Settled, Good, Core
  <2> QED  BY <2>1 DEF Kept, LoadedOK
<1> QED  BY <1>1, <1>2, <1>4, <1>5 DEF Steady

(* What the synthesizer owes once its first answer is taken.               *)
LEMMA WorkTail ==
  ASSUME NEW r, NEW m, Typed(m), NEW d \in Seq(Results), d # <<>>, Work(r, m, d),
         NEW n, n.s = m.s, DOMAIN n.w.audio = DOMAIN m.w.audio,
         \A q : q # Head(d).p => St(n, q) = St(m, q) /\ Num(n, q) = Num(m, q),
         \/ /\ Head(d).result = "Part" /\ Making(m, Head(d).p)
            /\ St(n, Head(d).p) = "Streaming" /\ Num(n, Head(d).p) = Num(m, Head(d).p) + 1
         \/ St(n, Head(d).p) \notin {"Pending", "Streaming"}
  PROVE  Work(r, n, Tail(d)) /\ Tail(d) \in Seq(Results)
<1> DEFINE e == Head(d)
           t == Tail(d)
           c(q) == IF IsPart(e, q) THEN 1 ELSE 0
<1>1. /\ e \in Results /\ t \in Seq(Results) /\ 1 \in 1..Len(d) /\ d[1] = e
      /\ \A k \in 1..Len(t) : k + 1 \in 1..Len(d) /\ t[k] = d[k + 1]
      /\ \A q : Final(d, q) <=> IsFinal(e, q) \/ Final(t, q)
  BY FirstResult
<1>2. \A q : /\ \A k \in Nat \ {0} : Parts(d, q, k + 1) = Parts(t, q, k) + c(q)
             /\ Len(d) = Len(t) + 1
  BY FirstParts
<1>3. /\ \A q : q # e.p => St(n, q) = St(m, q) /\ Num(n, q) = Num(m, q)
      /\ \/ e.result = "Part" /\ Making(m, e.p) /\ St(n, e.p) = "Streaming" /\ Num(n, e.p) = Num(m, e.p) + 1
         \/ ~Making(n, e.p)
  BY DEF Making
<1>4. \A q : Num(m, q) \in Nat
  BY SlotTypes
<1>5. Len(t) \in Nat /\ \A q, k : Parts(t, q, k) \in Nat
  <2>1. t \in Seq(Results) /\ Len(t) \in Nat
    BY <1>1
  <2> HIDE DEF t
  <2>2. \A q, k : Parts(t, q, k) \in Nat
    BY <2>1, PartsCount, Zenon
  <2> QED  BY <2>1, <2>2
<1> HIDE DEF t
<1>6. \A q : Making(n, q) => /\ Making(m, q) /\ Num(n, q) \in Nat
                             /\ Num(n, q) = Num(m, q) + c(q)
                             /\ ~IsFinal(e, q)
  <2> HIDE DEF e
  <2>1. ASSUME NEW q, Making(n, q), q # e.p
        PROVE  Making(m, q) /\ Num(n, q) \in Nat /\ Num(n, q) = Num(m, q) + c(q) /\ ~IsFinal(e, q)
    BY <1>3, <1>4, <2>1 DEF Making, IsPart, IsFinal
  <2>2. ASSUME Making(n, e.p)
        PROVE  /\ Making(m, e.p) /\ Num(n, e.p) \in Nat /\ Num(n, e.p) = Num(m, e.p) + c(e.p)
               /\ ~IsFinal(e, e.p)
    BY <1>3, <1>4, <2>2 DEF IsPart, IsFinal
  <2> QED  BY <2>1, <2>2
<1>7. Known(r, n, t)
  <2>1. \A q : Wanted(r, n, q) <=> Wanted(r, m, q)
    BY DEF Wanted
  <2> QED  BY <1>1, <2>1 DEF Work, Known
<1>8. Comes(n, t)
  BY <1>1, <1>6 DEF Work, Comes
<1>9. Cancels(n, t)
  BY <1>1 DEF Work, Cancels
<1>10. ASSUME m.s.streams PROVE Counts(n, t)
  <2>1. n.s.job # None /\ Making(n, n.s.job) =>
          n.s.made <= Num(n, n.s.job) + Parts(t, n.s.job, Len(t) + 1)
    <3> SUFFICES ASSUME m.s.job # None, Making(n, m.s.job)
                 PROVE  m.s.made <= Num(n, m.s.job) + Parts(t, m.s.job, Len(t) + 1)
      OBVIOUS
    <3> DEFINE j == m.s.job
    <3>1. m.s.made <= Num(m, j) + Parts(d, j, Len(d) + 1)
      BY <1>6, <1>10 DEF Work, Counts
    <3>2. Parts(d, j, (Len(t) + 1) + 1) = Parts(t, j, Len(t) + 1) + c(j)
      <4>1. Len(t) + 1 \in Nat \ {0}
        BY <1>5
      <4> HIDE DEF c
      <4> QED  BY <1>2, <4>1
    <3>3. Num(n, j) = Num(m, j) + c(j) /\ Num(m, j) \in Nat /\ c(j) \in Nat /\ m.s.made \in Nat
          /\ Parts(t, j, Len(t) + 1) \in Nat
      BY <1>4, <1>5, <1>6 DEF Typed, OfSynth
    <3>4. Len(d) = Len(t) + 1
      BY <1>2
    <3> HIDE DEF j, c
    <3> QED  BY <3>1, <3>2, <3>3, <3>4 DEF j
  <2>2. ASSUME NEW k \in 1..Len(t), t[k].result # "Part", Making(n, t[k].p)
        PROVE  t[k].n <= Num(n, t[k].p) + Parts(t, t[k].p, k)
    <3> DEFINE j == t[k].p
    <3>1. k + 1 \in 1..Len(d) /\ t[k] = d[k + 1] /\ k \in Nat \ {0} /\ t[k] \in Results
      BY <1>1, <1>5
    <3>2. d[k + 1].n <= Num(m, j) + Parts(d, j, k + 1)
      BY <1>6, <1>10, <2>2, <3>1 DEF Work, Counts
    <3>3. Parts(d, j, k + 1) = Parts(t, j, k) + c(j)
      BY <1>2, <3>1
    <3>4. Num(n, j) = Num(m, j) + c(j) /\ Num(m, j) \in Nat /\ c(j) \in Nat /\ t[k].n \in Nat
          /\ Parts(t, j, k) \in Nat
      BY <1>4, <1>5, <1>6, <2>2, <3>1 DEF Results
    <3>5. d[k + 1].n = t[k].n
      BY <3>1
    <3> DEFINE x == t[k].n
               y == Num(m, j)
               z == Parts(t, j, k)
    <3>6. x <= y + (z + c(j)) /\ y \in Nat /\ z \in Nat /\ x \in Nat /\ c(j) \in Nat /\ Num(n, j) = y + c(j)
      BY <3>2, <3>3, <3>4, <3>5
    <3> HIDE DEF c, x, y, z
    <3>7. x <= Num(n, j) + z
      BY <3>6
    <3> QED  BY <3>7, Zenon DEF x, z, j
  <2> QED  BY <1>10, <2>1, <2>2 DEF Counts
<1>11. ASSUME ~m.s.streams PROVE Counts(n, t)
  <2>1. /\ \A q : St(m, q) # "Streaming"
        /\ \A k \in 1..Len(d) : d[k].result # "Part"
    BY <1>11 DEF Work, Counts
  <2>2. \A q : St(n, q) # "Streaming"
    <3>1. e.result # "Part"
      BY <1>1, <2>1
    <3>2. St(n, e.p) # "Streaming"
      BY <1>3, <3>1 DEF Making
    <3>3. ASSUME NEW q, q # e.p PROVE St(n, q) # "Streaming"
      BY <1>3, <2>1, <3>3
    <3> QED  BY <3>2, <3>3, Zenon
  <2> QED  BY <1>1, <1>11, <2>1, <2>2 DEF Counts
<1>12. Counts(n, t)
  BY <1>10, <1>11, Zenon
<1> QED  BY <1>1, <1>7, <1>8, <1>9, <1>12 DEF Work, t

-----------------------------------------------------------------------------
(* An answer about a chunk p that is being made: its slot changes, and the *)
(* threads become s.                                                       *)
Answer(r, m, d, v, p, slot, s) ==
  /\ Settled(r, m, d, v) /\ d # <<>> /\ Making(m, p)
  /\ slot \in Slots /\ slot.st \in {"Streaming", "Ok", "Err"}
  /\ s = WithSlot(m, p, slot) /\ Work(r, s, Tail(d)) /\ Tail(d) \in Seq(Results)

LEMMA AnswerLemma ==
  ASSUME NEW r, NEW m, NEW d, NEW v, NEW p, NEW slot, NEW s, Answer(r, m, d, v, p, slot, s)
  PROVE  /\ Typed(s) /\ DOMAIN s.w.audio = DOMAIN m.w.audio /\ p \in DOMAIN m.w.audio
         /\ St(s, p) = slot.st /\ Num(s, p) = slot.n /\ Loadable(s, p)
         /\ \A q : q # p => St(s, q) = St(m, q) /\ Num(s, q) = Num(m, q)
                            /\ (Loadable(s, q) <=> Loadable(m, q))
         /\ s.w.waiting = m.w.waiting /\ s.w.open = m.w.open /\ s.w.pending = m.w.pending
         /\ s.w.hold = m.w.hold /\ s.w.phase = m.w.phase /\ s.s = m.s /\ s.o = m.o
         /\ Fx(r, DOMAIN s.w.audio) /\ Gens(r, s, v) /\ Due(r, s)
<1>1. Typed(m) /\ Fx(r, DOMAIN m.w.audio) /\ Gens(r, m, v) /\ Due(r, m)
  BY SteadyLemma DEF Answer
<1>2. p \in DOMAIN m.w.audio
  BY <1>1, SlotTypes DEF Answer, Making
<1>3. p \in ChunkRef
  BY <1>1, <1>2 DEF Typed, OfWorker
<1>4. /\ Typed(s) /\ DOMAIN s.w.audio = DOMAIN m.w.audio \cup {p}
      /\ St(s, p) = slot.st /\ Num(s, p) = slot.n
      /\ \A q : q # p => St(s, q) = St(m, q) /\ Num(s, q) = Num(m, q)
                         /\ (Loadable(s, q) <=> Loadable(m, q))
      /\ s.w.waiting = m.w.waiting /\ s.w.open = m.w.open /\ s.w.pending = m.w.pending
      /\ s.w.hold = m.w.hold /\ s.w.phase = m.w.phase /\ s.s = m.s /\ s.o = m.o
  BY <1>1, <1>3, SlotLemma DEF Answer
<1>5. DOMAIN s.w.audio = DOMAIN m.w.audio
  BY <1>2, <1>4
<1>6. Loadable(s, p)
  BY <1>4, SlotTypes DEF Answer
<1>7. Gens(r, s, v)
  <2>1. \A g : Newer(s, v, g) <=> Newer(m, v, g)
    BY <1>4 DEF Newer
  <2>2. Told(s, v)
    BY <1>1, <1>4 DEF Gens, Told
  <2> QED  BY <1>1, <1>4, <2>1, <2>2 DEF Gens
<1>8. Due(r, s)
  BY <1>1, <1>4 DEF Due, Live
<1> QED  BY <1>1, <1>2, <1>4, <1>5, <1>6, <1>7, <1>8

(* A chunk that sounds while it is being made is the open one.             *)
LEMMA SoundsOpen ==
  ASSUME NEW r, NEW m, NEW p, Making(m, p), m.o.p = p, SoundsWell(r, m)
  PROVE  /\ m.o.open /\ m.w.open = [p |-> p, gen |-> m.o.gen] /\ St(m, p) = "Streaming"
         /\ m.w.open.p = p /\ m.w.open.gen = m.o.gen
<1>1. m.o.open
  BY DEF SoundsWell, Making
<1>2. m.w.open = [p |-> p, gen |-> m.o.gen] /\ St(m, p) = "Streaming"
  BY <1>1 DEF SoundsWell
<1> QED  BY <1>1, <1>2

(* The chunk waits for it and may be loaded.                               *)
LEMMA AnswerWaits ==
  ASSUME NEW r, NEW m, NEW d, NEW v, NEW p, NEW slot, NEW s, Answer(r, m, d, v, p, slot, s),
         m.w.waiting # None, m.w.waiting.p = p, m.w.waiting.paused => slot.st = "Err"
  PROVE  Turned(r, m, load_waiting(s), Tail(d), v)
<1>1. /\ Typed(s) /\ DOMAIN s.w.audio = DOMAIN m.w.audio /\ p \in DOMAIN m.w.audio
      /\ St(s, p) = slot.st
      /\ s.w.waiting = m.w.waiting /\ s.w.pending = m.w.pending
      /\ s.w.phase = m.w.phase /\ s.o = m.o
      /\ Fx(r, DOMAIN s.w.audio) /\ Gens(r, s, v) /\ Due(r, s)
  BY AnswerLemma
<1>2. Steady(r) /\ Due(r, m) /\ Carried(r, m, v) /\ Gens(r, m, v)
  BY SteadyLemma DEF Answer
<1>3. Kept(r) /\ r.loaded = r.gen /\ m.w.waiting.gen = r.gen /\ ~Live(s)
  BY <1>1, <1>2 DEF Steady, Due
<1>4. WaitsWell(r, m)
  BY <1>2, <1>3 DEF Carried
<1>5. p = Place(r) /\ (r.paused => slot.st = "Err")
  BY <1>2, <1>4 DEF WaitsWell, Steady, Answer, Making
<1>6. Newer(s, v, r.gen) /\ Told(s, v)
  BY <1>1, <1>3 DEF Gens
<1>7. Good(r) /\ v \in Seq(Happens) /\ Work(r, s, Tail(d))
  BY DEF Answer, Settled
<1>8. WaitFlows(r, s, Tail(d), v)
  BY <1>1, <1>3, <1>5, <1>6, <1>7 DEF WaitFlows
<1>9. LET n == load_waiting(s) IN Typed(n) /\ n.w.phase = s.w.phase /\ Flow(r, n, Tail(d), v)
  BY <1>8, LoadWaiting
<1> QED  BY <1>1, <1>9 DEF Turned

(* What waits or sounds, when the answer leaves them as they are.          *)
LEMMA AnswerWaiting ==
  ASSUME NEW r, NEW m, NEW d, NEW v, NEW p, NEW slot, NEW s, Answer(r, m, d, v, p, slot, s),
         NEW n, n.w.audio = s.w.audio, n.w.waiting = m.w.waiting, n.w.hold = m.w.hold,
         Kept(r), m.w.waiting # None,
         m.w.waiting.p = p => m.w.waiting.paused \/ Loadable(m, p)
  PROVE  WaitsWell(r, n)
<1>1. /\ DOMAIN s.w.audio = DOMAIN m.w.audio /\ p \in DOMAIN m.w.audio
      /\ \A q : q # p => St(s, q) = St(m, q) /\ (Loadable(s, q) <=> Loadable(m, q))
  BY AnswerLemma
<1>2. Steady(r) /\ WaitsWell(r, m)
  BY SteadyLemma DEF Answer, Carried
<1>3. \A q : St(n, q) = St(s, q) /\ (Loadable(n, q) <=> Loadable(s, q))
  BY DEF St, Loadable, SlotOf
<1>4. CASE m.w.waiting.p # p
  BY <1>1, <1>2, <1>3, <1>4 DEF WaitsWell
<1>5. CASE m.w.waiting.p = p
  <2>1. St(m, p) # "Err"
    BY DEF Answer, Making
  <2> QED  BY <1>1, <1>2, <1>3, <1>5, <2>1 DEF WaitsWell, Steady
<1> QED  BY <1>4, <1>5

LEMMA AnswerKept ==
  ASSUME NEW r, NEW m, NEW d, NEW v, NEW p, NEW slot, NEW s, Answer(r, m, d, v, p, slot, s),
         ~(m.w.open # None /\ m.w.open.p = p),
         m.w.waiting # None /\ m.w.waiting.p = p => m.w.waiting.paused
  PROVE  Turned(r, m, s, Tail(d), v)
<1>1. /\ Typed(s) /\ DOMAIN s.w.audio = DOMAIN m.w.audio /\ p \in DOMAIN m.w.audio
      /\ \A q : q # p => St(s, q) = St(m, q) /\ Num(s, q) = Num(m, q)
      /\ s.w.waiting = m.w.waiting /\ s.w.open = m.w.open /\ s.w.pending = m.w.pending
      /\ s.w.hold = m.w.hold /\ s.w.phase = m.w.phase /\ s.s = m.s /\ s.o = m.o
      /\ Fx(r, DOMAIN s.w.audio) /\ Gens(r, s, v) /\ Due(r, s)
  BY AnswerLemma
<1>2. Steady(r) /\ Carried(r, m, v) /\ OpenOK(m) /\ Typed(m)
  BY SteadyLemma DEF Answer
<1>3. Kept(r) /\ s.w.waiting # None => WaitsWell(r, s)
  BY <1>1, AnswerWaiting
<1>4. Kept(r) /\ s.o.gen = r.loaded => SoundsWell(r, s)
  <2> SUFFICES ASSUME Kept(r), s.o.gen = r.loaded PROVE SoundsWell(r, s)
    OBVIOUS
  <2>1. SoundsWell(r, m)
    BY <1>1, <1>2 DEF Carried
  <2>2. m.o.p # p
    <3> SUFFICES ASSUME m.o.p = p PROVE FALSE
      OBVIOUS
    <3>1. m.w.open = [p |-> p, gen |-> m.o.gen] /\ m.w.open.p = p
      BY <2>1, SoundsOpen DEF Answer
    <3>2. m.w.open # None
      <4>1. m.o.gen \in Nat /\ p \in ChunkRef
        BY <1>1, <1>2 DEF Steady, Typed, OfWorker
      <4>2. [p |-> p, gen |-> m.o.gen] \in [p : ChunkRef, gen : Nat]
        BY <4>1
      <4> QED  BY <3>1, <4>2, WorkerNone
    <3> QED  BY <3>1, <3>2
  <2> QED  BY <1>1, <2>1, <2>2 DEF SoundsWell
<1>5. Carried(r, s, v)
  <2>1. Somewhere(r, m, v) => Somewhere(r, s, v)
    BY <1>1 DEF Somewhere
  <2> QED  BY <1>2, <1>3, <1>4, <2>1 DEF Carried
<1>6. OpenOK(s)
  BY <1>1, <1>2 DEF OpenOK
<1> QED  BY <1>1, <1>5, <1>6 DEF Turned, Flow, Answer

-----------------------------------------------------------------------------
(* The chunk is the open one: the output is told.                          *)
OpenTold(m, s, n, p, slot) ==
  /\ m.w.open # None /\ m.w.open.p = p /\ Typed(n)
  /\ n.w.audio = s.w.audio /\ n.w.waiting = m.w.waiting /\ n.w.pending = m.w.pending
  /\ n.w.hold = m.w.hold /\ n.w.phase = m.w.phase /\ n.s = m.s
  /\ n.o.gen = m.o.gen /\ n.o.p = m.o.p /\ n.o.paused = m.o.paused /\ n.o.ended = m.o.ended
  /\ \/ slot.st = "Streaming" /\ n.w.open = m.w.open /\ n.o.open = m.o.open
     \/ /\ slot.st # "Streaming" /\ n.w.open = None
        /\ n.o.open => m.o.open /\ m.o.gen # m.w.open.gen
  /\ n.o.n >= m.o.n
  /\ m.o.gen = m.w.open.gen /\ m.o.n >= Num(m, p) => n.o.n >= slot.n

LEMMA AnswerOpen ==
  ASSUME NEW r, NEW m, NEW d, NEW v, NEW p, NEW slot, NEW s, Answer(r, m, d, v, p, slot, s),
         NEW n, OpenTold(m, s, n, p, slot)
  PROVE  Turned(r, m, n, Tail(d), v)
<1>1. /\ DOMAIN s.w.audio = DOMAIN m.w.audio /\ p \in DOMAIN m.w.audio
      /\ St(s, p) = slot.st /\ Num(s, p) = slot.n
      /\ \A q : q # p => St(s, q) = St(m, q) /\ Num(s, q) = Num(m, q)
      /\ s.w.pending = m.w.pending /\ s.w.phase = m.w.phase /\ s.s = m.s
      /\ Fx(r, DOMAIN s.w.audio)
  BY AnswerLemma
<1>2. /\ Steady(r) /\ Carried(r, m, v) /\ OpenOK(m) /\ Typed(m) /\ Typed(n)
      /\ Gens(r, m, v) /\ Due(r, m)
  BY SteadyLemma DEF Answer, OpenTold
<1>3. \A q : St(n, q) = St(s, q) /\ Num(n, q) = Num(s, q) /\ (Loadable(n, q) <=> Loadable(s, q))
  BY DEF St, Num, Loadable, SlotOf, OpenTold
<1>4. St(m, p) = "Streaming" /\ Loadable(m, p)
  BY <1>2, SlotTypes DEF OpenOK, OpenTold
<1>5. Kept(r) /\ n.w.waiting # None => WaitsWell(r, n)
  BY <1>4, AnswerWaiting DEF OpenTold
<1>6. Kept(r) /\ n.o.gen = r.loaded => SoundsWell(r, n)
  <2> SUFFICES ASSUME Kept(r), n.o.gen = r.loaded PROVE SoundsWell(r, n)
    OBVIOUS
  <2>1. SoundsWell(r, m)
    BY <1>2 DEF Carried, OpenTold
  <2>2. m.o.n \in Nat /\ n.o.n \in Nat /\ n.o.n >= m.o.n
    BY <1>2 DEF Typed, OfOutput, OpenTold
  <2>3. CASE m.o.p = p
    <3>1. m.o.open /\ m.w.open = [p |-> p, gen |-> m.o.gen] /\ m.w.open.gen = m.o.gen
      BY <2>1, <2>3, SoundsOpen DEF Answer
    <3>2. n.o.n >= Num(n, p)
      BY <1>1, <1>3, <2>1, <2>3, <3>1 DEF OpenTold, SoundsWell
    <3>3. CASE slot.st = "Streaming"
      BY <1>1, <1>3, <2>1, <2>3, <3>1, <3>2, <3>3 DEF OpenTold, SoundsWell
    <3>4. CASE slot.st # "Streaming"
      <4>1. ~n.o.open /\ St(n, p) \in {"Ok", "Err"}
        BY <1>1, <1>3, <3>1, <3>4 DEF OpenTold, Answer
      <4> QED  BY <1>1, <2>1, <2>3, <3>2, <4>1 DEF OpenTold, SoundsWell
    <3> QED  BY <3>3, <3>4
  <2>4. CASE m.o.p # p
    <3>1. ~m.o.open
      BY <2>1, <2>4 DEF SoundsWell, OpenTold
    <3>2. ~n.o.open
      BY <3>1 DEF OpenTold
    <3>3. Num(n, m.o.p) = Num(m, m.o.p) /\ St(n, m.o.p) = St(m, m.o.p) /\ Num(m, m.o.p) \in Nat
      BY <1>1, <1>2, <1>3, <2>4, SlotTypes
    <3>4. n.o.n >= Num(n, m.o.p)
      BY <2>1, <2>2, <3>3 DEF SoundsWell
    <3> QED  BY <1>1, <2>1, <3>1, <3>2, <3>3, <3>4 DEF OpenTold, SoundsWell
  <2> QED  BY <2>3, <2>4
<1>7. Carried(r, n, v)
  <2>1. Somewhere(r, m, v) => Somewhere(r, n, v)
    BY DEF Somewhere, OpenTold
  <2> QED  BY <1>2, <1>5, <1>6, <2>1 DEF Carried
<1>8. OpenOK(n)
  BY <1>1, <1>3 DEF OpenOK, OpenTold
<1>9. Gens(r, n, v)
  <2>1. \A g : Newer(n, v, g) <=> Newer(m, v, g)
    BY DEF Newer, OpenTold
  <2>2. Told(n, v)
    BY <1>2 DEF Gens, Told, OpenTold
  <2> QED  BY <1>2, <2>1, <2>2 DEF Gens, OpenTold
<1>10. Due(r, n)
  BY <1>2 DEF Due, Live, OpenTold
<1>11. Work(r, n, Tail(d)) /\ n.w.phase = m.w.phase
  <2>1. Aside(s, n) /\ Work(r, s, Tail(d)) /\ n.w.audio = s.w.audio
    BY <1>1 DEF OpenTold, Answer, Aside
  <2> QED  BY <2>1, WorkFrame DEF OpenTold
<1> QED  BY <1>1, <1>2, <1>7, <1>8, <1>9, <1>10, <1>11 DEF Turned, Flow, OpenTold

(* An answer about a chunk that nobody waits for any more.                 *)
LEMMA AnswerLost ==
  ASSUME NEW r, NEW m, NEW d, NEW v, Settled(r, m, d, v), d # <<>>, ~Making(m, Head(d).p)
  PROVE  Turned(r, m, m, Tail(d), v)
<1>1. /\ Typed(m) /\ Fx(r, DOMAIN m.w.audio) /\ Gens(r, m, v) /\ Due(r, m) /\ Carried(r, m, v)
      /\ Work(r, m, d) /\ OpenOK(m)
  BY SteadyLemma
<1>2. d \in Seq(Results)
  BY DEF Settled
<1>3. Work(r, m, Tail(d))
  BY <1>1, <1>2, WorkTail DEF Making
<1> QED  BY <1>1, <1>3 DEF Turned, Flow

LEMMA PartFlow ==
  ASSUME NEW r, NEW m, NEW d, NEW v, Settled(r, m, d, v), d # <<>>, Head(d).result = "Part"
  PROVE  Turned(r, m, part(m, Head(d).p), Tail(d), v)
<1> DEFINE p == Head(d).p
           slot == Slot("Streaming", Num(m, p) + 1)
           s == WithSlot(m, p, slot)
           n == part(m, p)
           w == s.w.waiting
<1>1. n = IF ~Making(m, p) THEN m
          ELSE IF s.w.open # None /\ s.w.open.p = p THEN output_append(s, s.w.open.gen)
          ELSE IF w # None /\ w.p = p /\ ~w.paused THEN load_waiting(s) ELSE s
  BY DEF part, Making, St, Num
<1> HIDE DEF n
<1>2. CASE ~Making(m, p)
  BY <1>1, <1>2, AnswerLost DEF n
<1>3. CASE Making(m, p)
  <2>1. Num(m, p) \in Nat /\ Typed(m) /\ d \in Seq(Results) /\ Work(r, m, d)
    BY SteadyLemma, SlotTypes DEF Settled
  <2>2. slot \in Slots /\ slot.st = "Streaming" /\ slot.n = Num(m, p) + 1
    <3>1. Num(m, p) + 1 \in Nat
      BY <2>1
    <3> QED  BY <3>1 DEF Slot, Slots
  <2>3. p \in ChunkRef /\ p \in DOMAIN m.w.audio
    BY <1>3, <2>1, SlotTypes DEF Typed, OfWorker, Making
  <2> HIDE DEF slot, p
  <2>4. /\ DOMAIN s.w.audio = DOMAIN m.w.audio \cup {p} /\ St(s, p) = "Streaming"
        /\ Num(s, p) = Num(m, p) + 1 /\ s.s = m.s
        /\ \A q : q # p => St(s, q) = St(m, q) /\ Num(s, q) = Num(m, q)
    BY <2>1, <2>2, <2>3, SlotLemma
  <2> HIDE DEF s
  <2>5. Work(r, s, Tail(d)) /\ Tail(d) \in Seq(Results)
    <3>1. DOMAIN s.w.audio = DOMAIN m.w.audio
      BY <2>3, <2>4
    <3> QED  BY <1>3, <2>1, <2>4, <3>1, WorkTail DEF p
  <2>6. Answer(r, m, d, v, p, slot, s)
    BY <1>3, <2>2, <2>5 DEF Answer, s
  <2>7. /\ Typed(s) /\ s.w.waiting = m.w.waiting /\ s.w.open = m.w.open /\ s.w.pending = m.w.pending
        /\ s.w.hold = m.w.hold /\ s.w.phase = m.w.phase /\ s.s = m.s /\ s.o = m.o
    BY <2>6, AnswerLemma
  <2>8. CASE s.w.open # None /\ s.w.open.p = p
    <3>1. n = IF s.o.gen = s.w.open.gen THEN [s EXCEPT !.o.n = @ + 1] ELSE s
      BY <1>1, <1>3, <2>8 DEF output_append
    <3>2. OpenTold(m, s, n, p, slot)
      <4>0. m.o.n \in Nat
        BY <2>1 DEF Typed, OfOutput
      <4>1. CASE s.o.gen = s.w.open.gen
        <5>1. /\ DOMAIN n = DOMAIN s /\ n.w = s.w /\ n.s = s.s /\ DOMAIN n.o = DOMAIN s.o
              /\ n.o.n = s.o.n + 1 /\ n.o.gen = s.o.gen /\ n.o.p = s.o.p /\ n.o.open = s.o.open
              /\ n.o.paused = s.o.paused /\ n.o.ended = s.o.ended
          BY <2>7, <3>1, <4>1 DEF Typed, Shape
        <5>2. s.o.n + 1 \in Nat
          BY <2>7, <4>0
        <5>3. Typed(n)
          BY <2>7, <5>1, <5>2 DEF Typed, Shape, OfOutput
        <5>4. n.o.n >= m.o.n /\ (m.o.n >= Num(m, p) => n.o.n >= slot.n)
          BY <2>1, <2>2, <2>7, <4>0, <5>1
        <5> QED  BY <2>2, <2>7, <2>8, <5>1, <5>3, <5>4 DEF OpenTold
      <4>2. CASE s.o.gen # s.w.open.gen
        <5>1. n = s
          BY <3>1, <4>2
        <5> QED  BY <2>2, <2>7, <2>8, <4>0, <4>2, <5>1 DEF OpenTold
      <4> QED  BY <4>1, <4>2
    <3> QED  BY <2>6, <3>2, AnswerOpen DEF n, p
  <2>9. CASE ~(s.w.open # None /\ s.w.open.p = p) /\ w # None /\ w.p = p /\ ~w.paused
    <3>1. n = load_waiting(s)
      BY <1>1, <1>3, <2>9
    <3> QED  BY <2>6, <2>7, <2>9, <3>1, AnswerWaits DEF n, p
  <2>10. CASE ~(s.w.open # None /\ s.w.open.p = p) /\ ~(w # None /\ w.p = p /\ ~w.paused)
    <3>1. n = s
      BY <1>1, <1>3, <2>10
    <3> QED  BY <2>6, <2>7, <2>10, <3>1, AnswerKept DEF n, p
  <2> QED  BY <2>8, <2>9, <2>10
<1> QED  BY <1>2, <1>3

LEMMA SynthesizedFlow ==
  ASSUME NEW r, NEW m, NEW d, NEW v, Settled(r, m, d, v), d # <<>>, Head(d).result # "Part"
  PROVE  Turned(r, m, synthesized(m, Head(d).p, Head(d).result = "Ok", Head(d).n), Tail(d), v)
<1> DEFINE e == Head(d)
           p == e.p
           ok == e.result = "Ok"
           slot == Slot(IF ok THEN "Ok" ELSE "Err", e.n)
           s == WithSlot(m, p, slot)
           n == synthesized(m, p, ok, e.n)
           w == s.w.waiting
           t == [s EXCEPT !.w.open = None]
<1>1. n = IF ~Making(m, p) THEN m
          ELSE IF s.w.open # None /\ s.w.open.p = p THEN output_finish(t, s.w.open.gen)
          ELSE IF w # None /\ w.p = p /\ ~(w.paused /\ ok) THEN load_waiting(s) ELSE s
  BY DEF synthesized, Making, St
<1> HIDE DEF n
<1>2. CASE ~Making(m, p)
  BY <1>1, <1>2, AnswerLost DEF n
<1>3. CASE Making(m, p)
  <2>1. /\ Typed(m) /\ d \in Seq(Results) /\ Work(r, m, d) /\ e \in Results
        /\ 1 \in 1..Len(d) /\ d[1] = e
    BY SteadyLemma, FirstResult DEF Settled
  <2>2. slot \in Slots /\ slot.st \in {"Ok", "Err"} /\ slot.n = e.n /\ e.n \in Nat
        /\ (slot.st = "Ok" <=> ok)
    BY <2>1 DEF Slot, Slots, Results
  <2>3. p \in ChunkRef /\ p \in DOMAIN m.w.audio
    BY <1>3, <2>1, SlotTypes DEF Typed, OfWorker, Making
  <2>4. m.w.open # None /\ m.w.open.p = p => e.n <= Num(m, p)
    <3> SUFFICES ASSUME m.w.open # None, m.w.open.p = p PROVE e.n <= Num(m, p)
      OBVIOUS
    <3>1. St(m, p) = "Streaming"
      BY SteadyLemma DEF OpenOK
    <3>2. m.s.streams
      BY <2>1, <3>1 DEF Work, Counts
    <3>3. e.n <= Num(m, p) + Parts(d, p, 1)
      BY <1>3, <2>1, <3>2 DEF Work, Counts
    <3>4. Parts(d, p, 1) = 0 /\ Num(m, p) \in Nat
      BY <2>1, FirstParts, SlotTypes
    <3> QED  BY <2>2, <3>3, <3>4
  <2> HIDE DEF slot, p, e, ok
  <2>5. /\ DOMAIN s.w.audio = DOMAIN m.w.audio \cup {p} /\ St(s, p) = slot.st
        /\ s.s = m.s
        /\ \A q : q # p => St(s, q) = St(m, q) /\ Num(s, q) = Num(m, q)
    BY <2>1, <2>2, <2>3, SlotLemma
  <2> HIDE DEF s
  <2>6. Work(r, s, Tail(d)) /\ Tail(d) \in Seq(Results)
    <3>1. DOMAIN s.w.audio = DOMAIN m.w.audio
      BY <2>3, <2>5
    <3>2. St(s, p) \notin {"Pending", "Streaming"}
      BY <2>2, <2>5
    <3> QED  BY <2>1, <2>5, <3>1, <3>2, WorkTail DEF p, e
  <2>7. Answer(r, m, d, v, p, slot, s)
    BY <1>3, <2>2, <2>6 DEF Answer, s
  <2>8. /\ Typed(s) /\ s.w.waiting = m.w.waiting /\ s.w.open = m.w.open /\ s.w.pending = m.w.pending
        /\ s.w.hold = m.w.hold /\ s.w.phase = m.w.phase /\ s.s = m.s /\ s.o = m.o
    BY <2>7, AnswerLemma
  <2>9. CASE s.w.open # None /\ s.w.open.p = p
    <3>1. n = IF t.o.gen = s.w.open.gen THEN [t EXCEPT !.o.open = FALSE] ELSE t
      BY <1>1, <1>3, <2>9 DEF output_finish
    <3>2. /\ DOMAIN t = DOMAIN s /\ DOMAIN t.w = DOMAIN s.w /\ t.w.open = None
          /\ t.w.audio = s.w.audio /\ t.w.waiting = s.w.waiting /\ t.w.pending = s.w.pending
          /\ t.w.hold = s.w.hold /\ t.w.phase = s.w.phase /\ t.s = s.s /\ t.o = s.o
      BY <2>8 DEF Typed, Shape
    <3> HIDE DEF t
    <3>3. Typed(t)
      BY <2>8, <3>2 DEF Typed, Shape, OfWorker
    <3>4. m.o.n \in Nat /\ (m.o.n >= Num(m, p) => m.o.n >= slot.n) /\ m.o.n >= m.o.n
      <4>1. m.o.n \in Nat /\ Num(m, p) \in Nat
        BY <2>1, SlotTypes DEF Typed, OfOutput
      <4>2. slot.n <= Num(m, p) /\ slot.n \in Nat
        BY <2>2, <2>4, <2>8, <2>9
      <4> QED  BY <4>1, <4>2
    <3>5. OpenTold(m, s, n, p, slot)
      <4>1. CASE t.o.gen = s.w.open.gen
        <5>1. /\ DOMAIN n = DOMAIN t /\ n.w = t.w /\ n.s = t.s /\ DOMAIN n.o = DOMAIN t.o
              /\ n.o.n = t.o.n /\ n.o.gen = t.o.gen /\ n.o.p = t.o.p /\ n.o.open = FALSE
              /\ n.o.paused = t.o.paused /\ n.o.ended = t.o.ended
          BY <3>1, <3>3, <4>1 DEF Typed, Shape
        <5>2. Typed(n)
          BY <3>3, <5>1 DEF Typed, Shape, OfOutput
        <5> QED  BY <2>2, <2>8, <2>9, <3>2, <3>4, <5>1, <5>2 DEF OpenTold
      <4>2. CASE t.o.gen # s.w.open.gen
        <5>1. n = t
          BY <3>1, <4>2
        <5> QED  BY <2>2, <2>8, <2>9, <3>2, <3>3, <3>4, <4>2, <5>1 DEF OpenTold
      <4> QED  BY <4>1, <4>2
    <3> QED  BY <2>7, <3>5, AnswerOpen DEF n, p, e, ok
  <2>10. CASE ~(s.w.open # None /\ s.w.open.p = p) /\ w # None /\ w.p = p /\ ~(w.paused /\ ok)
    <3>1. n = load_waiting(s)
      BY <1>1, <1>3, <2>10
    <3>2. m.w.waiting # None /\ m.w.waiting.p = p /\ (m.w.waiting.paused => slot.st = "Err")
      <4>1. m.w.waiting # None /\ m.w.waiting.p = p
        BY <2>8, <2>10
      <4>2. ASSUME m.w.waiting.paused PROVE slot.st = "Err"
        <5>1. ~ok
          BY <2>8, <2>10, <4>2, Zenon
        <5> QED  BY <2>2, <5>1
      <4> QED  BY <4>1, <4>2, Zenon
    <3>3. Turned(r, m, load_waiting(s), Tail(d), v)
      BY <2>7, <3>2, AnswerWaits, Zenon
    <3> QED  BY <3>1, <3>3 DEF n, p, e, ok
  <2>11. CASE ~(s.w.open # None /\ s.w.open.p = p) /\ ~(w # None /\ w.p = p /\ ~(w.paused /\ ok))
    <3>1. n = s
      BY <1>1, <1>3, <2>11
    <3> QED  BY <2>7, <2>8, <2>11, <3>1, AnswerKept DEF n, p, e, ok
  <2> QED  BY <2>9, <2>10, <2>11
<1> QED  BY <1>2, <1>3

-----------------------------------------------------------------------------
(* The hold.                                                               *)
LEMMA HoldFlow ==
  ASSUME NEW r, NEW m, NEW d, NEW v, Typed(m), Flow(r, m, d, v), NEW h \in {"on", "over"},
         NEW n, DOMAIN n = DOMAIN m, n.w = [m.w EXCEPT !.hold = h], n.s = m.s, n.o = m.o
  PROVE  Turned(r, m, n, d, v)
<1>1. /\ DOMAIN n.w = DOMAIN m.w /\ n.w.hold = h
      /\ n.w.audio = m.w.audio /\ n.w.waiting = m.w.waiting /\ n.w.open = m.w.open
      /\ n.w.pending = m.w.pending /\ n.w.phase = m.w.phase
  BY DEF Typed, Shape
<1>2. h # None /\ h \in {"on", "over", None}
  BY WorkerNone
<1>3. Typed(n)
  BY <1>1, <1>2 DEF Typed, Shape, OfWorker
<1>4. Work(r, n, d) /\ \A p : St(n, p) = St(m, p) /\ Num(n, p) = Num(m, p)
                              /\ (Loadable(n, p) <=> Loadable(m, p))
  BY <1>1, AsideSame, WorkFrame DEF Flow
<1>5. Gens(r, n, v)
  <2>1. \A g : Newer(n, v, g) <=> Newer(m, v, g)
    BY <1>1 DEF Newer
  <2>2. Told(n, v)
    BY <1>1 DEF Flow, Gens, Told
  <2> QED  BY <1>1, <2>1, <2>2 DEF Flow, Gens
<1>6. Due(r, n)
  BY <1>1 DEF Flow, Due, Live
<1>7. Carried(r, n, v)
  <2>1. Somewhere(r, m, v) => Somewhere(r, n, v)
    BY <1>1 DEF Somewhere
  <2>2. WaitsWell(r, m) => WaitsWell(r, n)
    BY <1>1, <1>2, <1>4 DEF WaitsWell
  <2>3. SoundsWell(r, m) => SoundsWell(r, n)
    BY <1>1, <1>4 DEF SoundsWell
  <2> QED  BY <1>1, <2>1, <2>2, <2>3 DEF Flow, Carried
<1>8. OpenOK(n) /\ Fx(r, DOMAIN n.w.audio)
  BY <1>1, <1>4 DEF Flow, OpenOK
<1> QED  BY <1>1, <1>3, <1>4, <1>5, <1>6, <1>7, <1>8 DEF Turned, Flow

LEMMA ReleaseFlow ==
  ASSUME NEW r, NEW m, NEW d, NEW v, Settled(r, m, d, v)
  PROVE  Turned(r, m, release_hold(m), d, v)
<1> DEFINE s == [m EXCEPT !.w.hold = None]
           w == s.w.waiting
           n == release_hold(m)
<1>1. n = IF w # None /\ ~w.paused /\ Loadable(s, w.p) THEN load_waiting(s) ELSE s
  BY DEF release_hold
<1>2. /\ Steady(r) /\ Typed(m) /\ Fx(r, DOMAIN m.w.audio) /\ Gens(r, m, v) /\ Due(r, m)
      /\ Carried(r, m, v) /\ Work(r, m, d) /\ OpenOK(m) /\ Good(r) /\ v \in Seq(Happens)
  BY SteadyLemma DEF Settled
<1>3. /\ DOMAIN s = DOMAIN m /\ DOMAIN s.w = DOMAIN m.w /\ s.w.hold = None /\ s.s = m.s /\ s.o = m.o
      /\ s.w.audio = m.w.audio /\ s.w.waiting = m.w.waiting /\ s.w.open = m.w.open
      /\ s.w.pending = m.w.pending /\ s.w.phase = m.w.phase
  BY <1>2 DEF Typed, Shape
<1> HIDE DEF n, s
<1>4. Typed(s)
  BY <1>2, <1>3 DEF Typed, Shape, OfWorker
<1>5. Work(r, s, d) /\ \A p : St(s, p) = St(m, p) /\ Num(s, p) = Num(m, p)
                              /\ (Loadable(s, p) <=> Loadable(m, p))
  BY <1>2, <1>3, AsideSame, WorkFrame
<1>6. Gens(r, s, v) /\ Told(s, v)
  <2>1. \A g : Newer(s, v, g) <=> Newer(m, v, g)
    BY <1>3 DEF Newer
  <2>2. Told(s, v)
    BY <1>2, <1>3 DEF Gens, Told
  <2> QED  BY <1>2, <1>3, <2>1, <2>2 DEF Gens
<1>7. Due(r, s)
  BY <1>2, <1>3 DEF Due, Live
<1>8. CASE w # None /\ ~w.paused /\ Loadable(s, w.p)
  <2>1. Kept(r) /\ r.loaded = r.gen /\ w.gen = r.gen /\ ~Live(s)
    BY <1>2, <1>7, <1>8 DEF Steady, Due
  <2>2. WaitsWell(r, m)
    BY <1>2, <1>3, <1>8, <2>1 DEF Carried
  <2>3. w.p = Place(r) /\ Place(r) \in DOMAIN s.w.audio /\ (r.paused => St(s, Place(r)) = "Err")
    BY <1>2, <1>3, <1>5, <1>8, <2>2 DEF WaitsWell, Steady
  <2>4. Newer(s, v, r.gen)
    BY <1>6, <1>8, <2>1 DEF Gens
  <2>5. WaitFlows(r, s, d, v)
    BY <1>2, <1>3, <1>4, <1>5, <1>6, <1>8, <2>1, <2>3, <2>4 DEF WaitFlows
  <2>6. LET u == load_waiting(s) IN Typed(u) /\ u.w.phase = s.w.phase /\ Flow(r, u, d, v)
    BY <2>5, LoadWaiting
  <2>7. n = load_waiting(s)
    BY <1>1, <1>8
  <2> QED  BY <1>3, <2>6, <2>7 DEF Turned, n
<1>9. CASE ~(w # None /\ ~w.paused /\ Loadable(s, w.p))
  <2>1. WaitsWell(r, m) /\ w # None => WaitsWell(r, s)
    BY <1>3, <1>5, <1>9 DEF WaitsWell
  <2>2. SoundsWell(r, m) => SoundsWell(r, s)
    BY <1>3, <1>5 DEF SoundsWell
  <2>3. Somewhere(r, m, v) => Somewhere(r, s, v)
    BY <1>3 DEF Somewhere
  <2>4. Carried(r, s, v)
    BY <1>2, <1>3, <2>1, <2>2, <2>3 DEF Carried
  <2>5. OpenOK(s) /\ Fx(r, DOMAIN s.w.audio)
    BY <1>2, <1>3, <1>5 DEF OpenOK
  <2>6. n = s
    BY <1>1, <1>9
  <2> QED  BY <1>3, <1>4, <1>5, <1>6, <1>7, <2>4, <2>5, <2>6 DEF Turned, Flow, n
<1> QED  BY <1>8, <1>9

-----------------------------------------------------------------------------
(* The synthesis thread.                                                   *)
LEMMA FieldsFlow ==
  ASSUME NEW r, NEW m, NEW d, NEW v, Typed(m), Flow(r, m, d, v),
         NEW n, NEW u, n.w = m.w, n.o = m.o, Shape(n), OfSynth(n.s), Work(r, n, u)
  PROVE  Turned(r, m, n, u, v)
<1>1. Typed(n)
  BY DEF Typed
<1>2. \A p : St(n, p) = St(m, p) /\ Num(n, p) = Num(m, p) /\ (Loadable(n, p) <=> Loadable(m, p))
  BY DEF St, Num, Loadable, SlotOf
<1>3. Gens(r, n, v)
  <2>1. \A g : Newer(n, v, g) <=> Newer(m, v, g)
    BY DEF Newer
  <2>2. Told(n, v)
    BY DEF Flow, Gens, Told
  <2> QED  BY <2>1, <2>2 DEF Flow, Gens
<1>4. Due(r, n)
  BY DEF Flow, Due, Live
<1>5. Carried(r, n, v)
  <2>1. Somewhere(r, m, v) => Somewhere(r, n, v)
    BY DEF Somewhere
  <2>2. WaitsWell(r, m) => WaitsWell(r, n)
    BY <1>2 DEF WaitsWell
  <2>3. SoundsWell(r, m) => SoundsWell(r, n)
    BY <1>2 DEF SoundsWell
  <2> QED  BY <2>1, <2>2, <2>3 DEF Flow, Carried
<1>6. OpenOK(n) /\ Fx(r, DOMAIN n.w.audio)
  BY <1>2 DEF Flow, OpenOK
<1> QED  BY <1>1, <1>3, <1>4, <1>5, <1>6 DEF Turned, Flow

LEMMA SynthFlow ==
  ASSUME NEW r, NEW m, NEW d, NEW v, Typed(m), Flow(r, m, d, v),
         NEW n, NEW u, DOMAIN n = DOMAIN m, n.w = m.w, n.o = m.o, DOMAIN n.s = DOMAIN m.s,
         OfSynth(n.s), Work(r, n, u)
  PROVE  Turned(r, m, n, u, v)
<1>1. Shape(n)
  BY DEF Typed, Shape
<1> QED  BY <1>1, FieldsFlow

(* The threads as `Becomes` puts them together again.                      *)
LEMMA BecomesFlow ==
  ASSUME NEW r, NEW m, NEW d, NEW v, Typed(m), Flow(r, m, d, v),
         NEW n, n = [w |-> m.w, s |-> m.s, o |-> m.o]
  PROVE  Typed(n) /\ Flow(r, n, d, v)
<1>1. n.w = m.w /\ n.s = m.s /\ n.o = m.o /\ DOMAIN n = {"w", "s", "o"}
  OBVIOUS
<1>2. Shape(n) /\ OfSynth(n.s)
  BY <1>1 DEF Typed, Shape
<1>3. Work(r, n, d)
  BY <1>1, AsideSame, WorkFrame DEF Flow
<1>4. Turned(r, m, n, d, v)
  BY <1>1, <1>2, <1>3, FieldsFlow
<1> QED  BY <1>4 DEF Turned

(* What Work reads of the slots.                                           *)
LEMMA SlotsSame ==
  ASSUME NEW r, NEW m, NEW n, n.w = m.w
  PROVE  /\ \A p : St(n, p) = St(m, p) /\ Num(n, p) = Num(m, p) /\ (Making(n, p) <=> Making(m, p))
         /\ \A p : Wanted(r, n, p) <=> Wanted(r, m, p)
  BY DEF St, Num, SlotOf, Making, Wanted

LEMMA BeginFlow ==
  ASSUME NEW r, NEW m, NEW d, NEW v, Typed(m), d \in Seq(Results), Flow(r, m, d, v),
         NEW n, DOMAIN n = DOMAIN m, n.w = m.w, n.o = m.o,
         m.s.job = None, m.s.tasks # <<>>,
         n.s = [begin(m.s, Head(m.s.tasks)) EXCEPT !.tasks = Tail(@), !.made = 0, !.result = None]
  PROVE  Turned(r, m, n, d, v)
<1> DEFINE t == m.s.tasks
<1>1. /\ t \in Seq(ChunkRef) /\ t # <<>> /\ Head(t) \in ChunkRef /\ Tail(t) \in Seq(ChunkRef)
      /\ \A q : Among(t, q) <=> q = Head(t) \/ Among(Tail(t), q)
  <2>1. t \in Seq(ChunkRef) /\ t # <<>>
    BY DEF Typed, OfSynth
  <2> HIDE DEF t
  <2>2. \A q : Among(t, q) <=> q = Head(t) \/ Among(Tail(t), q)
    BY <2>1, AmongTail
  <2> QED  BY <2>1, <2>2
<1>2. /\ DOMAIN n.s = DOMAIN m.s /\ n.s.job = Head(t) /\ n.s.tasks = Tail(t) /\ n.s.cancelled = FALSE
      /\ n.s.made = 0 /\ n.s.result = None /\ n.s.streams = m.s.streams
  BY DEF Typed, Shape, begin
<1> HIDE DEF t
<1>3. OfSynth(n.s)
  <2>1. m.s.streams \in BOOLEAN
    BY DEF Typed, OfSynth
  <2>2. 0 \in Nat /\ FALSE \in BOOLEAN
    OBVIOUS
  <2> QED  BY <1>1, <1>2, <2>1, <2>2 DEF OfSynth
<1>4. /\ \A p : St(n, p) = St(m, p) /\ Num(n, p) = Num(m, p) /\ (Making(n, p) <=> Making(m, p))
      /\ \A p : Wanted(r, n, p) <=> Wanted(r, m, p)
  BY SlotsSame
<1>5. Known(r, m, d) /\ Comes(m, d) /\ Cancels(m, d) /\ Counts(m, d)
  BY DEF Flow, Work
<1>6. Known(r, n, d)
  BY <1>1, <1>2, <1>4, <1>5 DEF Known, t
<1>7. Comes(n, d)
  <2>1. None \notin ChunkRef
    BY WorkerNone
  <2>2. ASSUME NEW p, Making(n, p) PROVE Among(n.s.tasks, p) \/ n.s.job = p \/ Final(d, p)
    <3>1. p # None
      BY <1>4, <2>1, <2>2, SlotTypes DEF Making, Typed, OfWorker
    <3> QED  BY <1>1, <1>2, <1>4, <1>5, <2>2, <3>1 DEF Comes, t
  <2> QED  BY <2>2 DEF Comes
<1>8. Cancels(n, d)
  BY <1>2, <1>5, WorkerNone DEF Cancels
<1>9. Counts(n, d)
  <2>1. \A p : Num(m, p) \in Nat /\ Parts(d, p, Len(d) + 1) \in Nat
    BY SlotTypes, PartsCount
  <2>2. \A p : 0 <= Num(m, p) + Parts(d, p, Len(d) + 1)
    BY <2>1
  <2> QED  BY <1>2, <1>4, <1>5, <2>2 DEF Counts
<1> QED  BY <1>2, <1>3, <1>6, <1>7, <1>8, <1>9, SynthFlow DEF Work

LEMMA ExitFlow ==
  ASSUME NEW r, NEW m, NEW d, NEW v, Typed(m), Flow(r, m, d, v),
         NEW n, DOMAIN n = DOMAIN m, n.w = m.w, n.o = m.o, n.s = [m.s EXCEPT !.exited = TRUE]
  PROVE  Turned(r, m, n, d, v)
<1>1. /\ DOMAIN n.s = DOMAIN m.s /\ n.s.job = m.s.job /\ n.s.tasks = m.s.tasks
      /\ n.s.cancelled = m.s.cancelled
      /\ n.s.made = m.s.made /\ n.s.result = m.s.result /\ n.s.streams = m.s.streams
  BY DEF Typed, Shape
<1>2. OfSynth(n.s)
  BY <1>1 DEF Typed, OfSynth
<1>3. Aside(m, n)
  BY <1>1 DEF Aside
<1>4. Work(r, n, d)
  BY <1>3, WorkFrame DEF Flow
<1> QED  BY <1>1, <1>2, <1>4, SynthFlow

(* The engine returns.                                                     *)
LEMMA ReturnFlow ==
  ASSUME NEW r, NEW m, NEW d, NEW v, Typed(m), d \in Seq(Results), Flow(r, m, d, v),
         NEW n, DOMAIN n = DOMAIN m, n.w = m.w, n.o = m.o,
         NEW result \in {"Ok", "Err", "Cancelled"}, result = "Cancelled" => m.s.cancelled,
         n.s = [m.s EXCEPT !.result = result,
                           !.made = IF result # "Ok" THEN 0 ELSE IF m.s.streams THEN @ ELSE 1]
  PROVE  Turned(r, m, n, d, v)
<1> DEFINE made == IF result # "Ok" THEN 0 ELSE IF m.s.streams THEN m.s.made ELSE 1
<1>1. /\ DOMAIN n.s = DOMAIN m.s /\ n.s.job = m.s.job /\ n.s.tasks = m.s.tasks
      /\ n.s.cancelled = m.s.cancelled
      /\ n.s.made = made /\ n.s.result = result /\ n.s.streams = m.s.streams
  BY DEF Typed, Shape
<1>2. m.s.made \in Nat /\ made \in Nat /\ (m.s.streams => made <= m.s.made)
  BY DEF Typed, OfSynth
<1> HIDE DEF made
<1>3. OfSynth(n.s)
  BY <1>1, <1>2 DEF Typed, OfSynth
<1>4. /\ \A p : St(n, p) = St(m, p) /\ Num(n, p) = Num(m, p) /\ (Making(n, p) <=> Making(m, p))
      /\ \A p : Wanted(r, n, p) <=> Wanted(r, m, p)
  BY SlotsSame
<1>5. Known(r, m, d) /\ Comes(m, d) /\ Cancels(m, d) /\ Counts(m, d)
  BY DEF Flow, Work
<1>6. Known(r, n, d) /\ Comes(n, d)
  BY <1>1, <1>4, <1>5 DEF Known, Comes
<1>7. Cancels(n, d)
  <2>1. result = "Cancelled" => m.s.cancelled
    OBVIOUS
  <2> QED  BY <1>1, <1>5, <2>1 DEF Cancels
<1>8. Counts(n, d)
  <2>1. ASSUME m.s.streams PROVE Counts(n, d)
    <3>1. /\ m.s.job # None /\ Making(m, m.s.job) =>
               m.s.made <= Num(m, m.s.job) + Parts(d, m.s.job, Len(d) + 1)
          /\ \A k \in 1..Len(d) : d[k].result # "Part" /\ Making(m, d[k].p) =>
               d[k].n <= Num(m, d[k].p) + Parts(d, d[k].p, k)
      BY <1>5, <2>1 DEF Counts
    <3>2. \A p : Num(m, p) \in Nat
      BY SlotTypes
    <3>3. m.s.job # None /\ Making(m, m.s.job) =>
               made <= Num(m, m.s.job) + Parts(d, m.s.job, Len(d) + 1)
      <4>1. Parts(d, m.s.job, Len(d) + 1) \in Nat
        BY PartsCount
      <4> QED  BY <1>2, <2>1, <3>1, <3>2, <4>1
    <3> QED  BY <1>1, <1>4, <2>1, <3>1, <3>3 DEF Counts
  <2>2. ASSUME ~m.s.streams PROVE Counts(n, d)
    BY <1>1, <1>4, <1>5, <2>2 DEF Counts
  <2> QED  BY <2>1, <2>2, Zenon
<1> QED  BY <1>1, <1>3, <1>6, <1>7, <1>8, SynthFlow DEF Work

-----------------------------------------------------------------------------
(* A piece, or the end of a job, goes to the inbox.                        *)
LEMMA PieceFlow ==
  ASSUME NEW r, NEW m, NEW d, NEW v, Typed(m), d \in Seq(Results), Flow(r, m, d, v),
         NEW n, DOMAIN n = DOMAIN m, n.w = m.w, n.o = m.o, m.s.streams, m.s.job # None,
         n.s = [m.s EXCEPT !.made = @ + 1],
         NEW u, u = Append(d, [p |-> m.s.job, result |-> "Part", n |-> 1])
  PROVE  Turned(r, m, n, u, v) /\ u \in Seq(Results)
<1> DEFINE p == m.s.job
           e == [p |-> p, result |-> "Part", n |-> 1]
<1>1. p \in ChunkRef /\ m.s.made \in Nat /\ m.s.made + 1 \in Nat
  BY DEF Typed, OfSynth
<1>2. e \in Results /\ e.p = p /\ e.result = "Part"
  BY <1>1 DEF Results
<1>3. /\ DOMAIN n.s = DOMAIN m.s /\ n.s.job = p /\ n.s.tasks = m.s.tasks
      /\ n.s.cancelled = m.s.cancelled
      /\ n.s.made = m.s.made + 1 /\ n.s.result = m.s.result /\ n.s.streams = m.s.streams
  BY DEF Typed, Shape
<1> HIDE DEF e, p
<1>4. OfSynth(n.s)
  BY <1>1, <1>3 DEF Typed, OfSynth, p
<1>5. u = Append(d, e)
  BY DEF e, p
<1>6. /\ u \in Seq(Results) /\ Len(d) \in Nat /\ Len(u) = Len(d) + 1 /\ u[Len(u)] = e
      /\ \A k \in 1..Len(d) : u[k] = d[k]
      /\ \A k : k \in 1..Len(u) <=> k \in 1..Len(d) \/ k = Len(u)
      /\ \A q : Final(u, q) <=> IsFinal(e, q) \/ Final(d, q)
  BY <1>2, <1>5, LastResult
<1>7. /\ \A q : \A k \in 1..Len(u) : Parts(u, q, k) = Parts(d, q, k)
      /\ Parts(u, p, Len(u) + 1) = Parts(d, p, Len(d) + 1) + 1
  <2>1. IsPart(e, p)
    BY <1>2 DEF IsPart
  <2>2. \A q : MoreParts(d, e, u, q)
    BY <1>2, <1>5, LastParts
  <2> QED  BY <2>1, <2>2 DEF MoreParts
<1>8. /\ \A q : St(n, q) = St(m, q) /\ Num(n, q) = Num(m, q) /\ (Making(n, q) <=> Making(m, q))
      /\ \A q : Wanted(r, n, q) <=> Wanted(r, m, q)
  BY SlotsSame
<1>9. Known(r, m, d) /\ Comes(m, d) /\ Cancels(m, d) /\ Counts(m, d)
  BY DEF Flow, Work
<1>10. Known(r, n, u)
  BY <1>2, <1>3, <1>6, <1>8, <1>9 DEF Known, p
<1>11. Comes(n, u)
  BY <1>3, <1>6, <1>8, <1>9 DEF Comes, p
<1>12. Cancels(n, u)
  BY <1>2, <1>3, <1>6, <1>9 DEF Cancels, p
<1>13. Counts(n, u)
  <2>1. /\ Making(m, p) => m.s.made <= Num(m, p) + Parts(d, p, Len(d) + 1)
        /\ \A k \in 1..Len(d) : d[k].result # "Part" /\ Making(m, d[k].p) =>
             d[k].n <= Num(m, d[k].p) + Parts(d, d[k].p, k)
    BY <1>9 DEF Counts, p
  <2>2. Num(m, p) \in Nat /\ Parts(d, p, Len(d) + 1) \in Nat
    BY SlotTypes, PartsCount
  <2>3. Making(n, n.s.job) => n.s.made <= Num(n, n.s.job) + Parts(u, n.s.job, Len(u) + 1)
    BY <1>1, <1>3, <1>7, <1>8, <2>1, <2>2
  <2>4. ASSUME NEW k \in 1..Len(u), u[k].result # "Part", Making(n, u[k].p)
        PROVE  u[k].n <= Num(n, u[k].p) + Parts(u, u[k].p, k)
    <3>1. k \in 1..Len(d) /\ u[k] = d[k]
      BY <1>2, <1>6, <2>4
    <3> QED  BY <1>7, <1>8, <2>1, <2>4, <3>1
  <2> QED  BY <1>3, <2>3, <2>4 DEF Counts
<1> QED  BY <1>3, <1>4, <1>6, <1>10, <1>11, <1>12, <1>13, SynthFlow DEF Work

LEMMA DeliverFlow ==
  ASSUME NEW r, NEW m, NEW d, NEW v, Typed(m), d \in Seq(Results), Flow(r, m, d, v),
         NEW n, DOMAIN n = DOMAIN m, n.w = m.w, n.o = m.o, m.s.job # None, m.s.result # None,
         n.s = [m.s EXCEPT !.job = None, !.result = None, !.made = 0],
         NEW u, u = Append(d, [p |-> m.s.job, result |-> m.s.result, n |-> m.s.made])
  PROVE  Turned(r, m, n, u, v) /\ u \in Seq(Results)
<1> DEFINE p == m.s.job
           e == [p |-> p, result |-> m.s.result, n |-> m.s.made]
<1>1. p \in ChunkRef /\ m.s.made \in Nat /\ m.s.result \in {"Ok", "Err", "Cancelled"}
  BY DEF Typed, OfSynth
<1>2. e \in Results /\ e.p = p /\ e.result = m.s.result /\ e.n = m.s.made /\ e.result # "Part"
  BY <1>1 DEF Results
<1>3. /\ DOMAIN n.s = DOMAIN m.s /\ n.s.job = None /\ n.s.tasks = m.s.tasks
      /\ n.s.cancelled = m.s.cancelled
      /\ n.s.made = 0 /\ n.s.result = None /\ n.s.streams = m.s.streams
  BY DEF Typed, Shape
<1> HIDE DEF e
<1>4. OfSynth(n.s)
  <2>1. 0 \in Nat
    OBVIOUS
  <2> QED  BY <1>1, <1>3, <2>1 DEF Typed, OfSynth
<1>5. u = Append(d, e)
  BY DEF e
<1> HIDE DEF p
<1>6. /\ u \in Seq(Results) /\ Len(d) \in Nat /\ Len(u) = Len(d) + 1 /\ u[Len(u)] = e
      /\ \A k \in 1..Len(d) : u[k] = d[k]
      /\ \A k : k \in 1..Len(u) <=> k \in 1..Len(d) \/ k = Len(u)
      /\ \A q : Final(u, q) <=> IsFinal(e, q) \/ Final(d, q)
  BY <1>2, <1>5, LastResult
<1>7. \A q : \A k \in 1..Len(u) : Parts(u, q, k) = Parts(d, q, k)
  <2>1. \A q : MoreParts(d, e, u, q)
    BY <1>2, <1>5, LastParts
  <2> QED  BY <2>1 DEF MoreParts
<1>8. /\ \A q : St(n, q) = St(m, q) /\ Num(n, q) = Num(m, q) /\ (Making(n, q) <=> Making(m, q))
      /\ \A q : Wanted(r, n, q) <=> Wanted(r, m, q)
  BY SlotsSame
<1>9. Known(r, m, d) /\ Comes(m, d) /\ Cancels(m, d) /\ Counts(m, d)
  BY DEF Flow, Work
<1>10. Known(r, n, u)
  BY <1>2, <1>3, <1>6, <1>8, <1>9 DEF Known, p
<1>11. Comes(n, u)
  <2>1. IsFinal(e, p)
    BY <1>2 DEF IsFinal
  <2> QED  BY <1>3, <1>6, <1>8, <1>9, <2>1 DEF Comes, p
<1>12. Cancels(n, u)
  <2>1. ASSUME NEW k \in 1..Len(u), u[k].result = "Cancelled" PROVE u[k].p \notin DOMAIN n.w.audio
    <3>1. CASE k \in 1..Len(d)
      BY <1>6, <1>9, <2>1, <3>1 DEF Cancels
    <3>2. CASE k = Len(u)
      <4>1. m.s.result = "Cancelled" /\ u[k].p = m.s.job
        BY <1>2, <1>6, <2>1, <3>2 DEF p
      <4> QED  BY <1>9, <4>1 DEF Cancels
    <3> QED  BY <1>6, <3>1, <3>2
  <2> QED  BY <1>3, <2>1 DEF Cancels
<1>13. Counts(n, u)
  <2>1. ASSUME m.s.streams PROVE Counts(n, u)
    <3>1. /\ Making(m, p) => m.s.made <= Num(m, p) + Parts(d, p, Len(d) + 1)
          /\ \A k \in 1..Len(d) : d[k].result # "Part" /\ Making(m, d[k].p) =>
               d[k].n <= Num(m, d[k].p) + Parts(d, d[k].p, k)
      BY <1>9, <2>1 DEF Counts, p
    <3>2. ASSUME NEW k \in 1..Len(u), u[k].result # "Part", Making(n, u[k].p)
          PROVE  u[k].n <= Num(n, u[k].p) + Parts(u, u[k].p, k)
      <4>1. CASE k \in 1..Len(d)
        <5>1. u[k] = d[k]
          BY <1>6, <4>1
        <5> QED  BY <1>7, <1>8, <3>1, <3>2, <4>1, <5>1
      <4>2. CASE k = Len(u)
        <5>1. u[k] = e /\ k = Len(d) + 1
          BY <1>6, <4>2
        <5>2. Making(m, p)
          BY <1>2, <1>8, <3>2, <5>1
        <5>3. Parts(u, p, k) = Parts(d, p, Len(d) + 1)
          BY <1>7, <5>1
        <5> QED  BY <1>2, <1>8, <3>1, <5>1, <5>2, <5>3
      <4> QED  BY <1>6, <4>1, <4>2
    <3> QED  BY <1>3, <2>1, <3>2 DEF Counts
  <2>2. ASSUME ~m.s.streams PROVE Counts(n, u)
    <3>1. /\ \A q : St(m, q) # "Streaming" /\ \A k \in 1..Len(d) : d[k].result # "Part"
      BY <1>9, <2>2 DEF Counts
    <3> QED  BY <1>2, <1>3, <1>6, <1>8, <2>2, <3>1 DEF Counts
  <2> QED  BY <2>1, <2>2, Zenon
<1> QED  BY <1>3, <1>4, <1>6, <1>10, <1>11, <1>12, <1>13, SynthFlow DEF Work

-----------------------------------------------------------------------------
(* The output tells what happened to the play it holds.                    *)
Grows(v, e, u) ==
  /\ u \in Seq(Happens)
  /\ \A g : EndIn(u, g) <=> EndIn(v, g) \/ (e.gen = g /\ e.e # "ChunkStarted")
  /\ \A k \in 1..Len(u) : u[k] = e \/ \E j \in 1..Len(v) : u[k] = v[j]

LEMMA EndAppend ==
  ASSUME NEW v \in Seq(Happens), NEW e \in Happens, NEW u, u = Append(v, e)
  PROVE  Grows(v, e, u)
<1>1. u \in Seq(Happens) /\ Len(v) \in Nat /\ Len(u) = Len(v) + 1 /\ u[Len(u)] = e
      /\ \A k \in 1..Len(v) : u[k] = v[k]
  OBVIOUS
<1>2. \A k : k \in 1..Len(u) <=> k \in 1..Len(v) \/ k = Len(u)
  BY <1>1
<1>3. \A g : EndIn(u, g) <=> EndIn(v, g) \/ (e.gen = g /\ e.e # "ChunkStarted")
  BY <1>1, <1>2, Zenon DEF EndIn
<1>4. \A k \in 1..Len(u) : u[k] = e \/ \E j \in 1..Len(v) : u[k] = v[j]
  BY <1>1, <1>2
<1> QED  BY <1>1, <1>3, <1>4 DEF Grows

(* The output changes and tells of its play: what waits stays, and the     *)
(* play has ended or is the one it was.                                    *)
Tells(m, n, v, e) ==
  /\ Typed(m) /\ Typed(n) /\ n.w = m.w /\ n.s = m.s /\ v \in Seq(Happens)
  /\ m.o.gen # None /\ e \in Happens /\ e.gen = m.o.gen
  /\ \/ e.e = "ChunkStarted" /\ Quietly(m, n)
     \/ /\ e.e # "ChunkStarted" /\ n.o.gen = m.o.gen /\ n.o.ended /\ ~m.o.ended /\ ~m.o.open
        /\ n.o.p = m.o.p /\ n.o.n = m.o.n /\ n.o.open = m.o.open
     \/ e.e # "ChunkStarted" /\ n.o.gen = None

LEMMA TellsFlow ==
  ASSUME NEW r, NEW m, NEW d, NEW v, Flow(r, m, d, v), NEW n, NEW e, Tells(m, n, v, e),
         NEW u, u = Append(v, e)
  PROVE  Turned(r, m, n, d, u) /\ u \in Seq(Happens)
<1>1. Typed(m) /\ Typed(n) /\ n.w = m.w /\ n.s = m.s /\ v \in Seq(Happens) /\ e \in Happens
      /\ e.gen = m.o.gen /\ m.o.gen \in Nat \ {0}
  BY DEF Tells, Typed, OfOutput
<1>2. /\ u \in Seq(Happens)
      /\ \A g : EndIn(u, g) <=> EndIn(v, g) \/ (e.gen = g /\ e.e # "ChunkStarted")
      /\ \A k \in 1..Len(u) : u[k] = e \/ \E j \in 1..Len(v) : u[k] = v[j]
  <2>1. Grows(v, e, u)
    BY <1>1, EndAppend
  <2> QED  BY <2>1 DEF Grows
<1>3. n.o.gen = m.o.gen \/ n.o.gen = None
  BY DEF Tells, Quietly
<1>4. Work(r, n, d) /\ \A p : St(n, p) = St(m, p) /\ Num(n, p) = Num(m, p)
                              /\ (Loadable(n, p) <=> Loadable(m, p))
  BY <1>1, AsideSame, WorkFrame DEF Flow
<1>5. Gens(r, n, u)
  <2>1. ASSUME NEW g, Newer(m, v, g) PROVE Newer(n, u, g)
    <3>1. \A k \in 1..Len(u) : u[k].gen < g
      <4>1. e.gen < g
        BY <1>1, <2>1, NotNat DEF Newer
      <4> QED  BY <1>2, <2>1, <4>1 DEF Newer
    <3> QED  BY <1>1, <1>3, <2>1, <3>1 DEF Newer
  <2>2. Told(n, u)
    <3>1. Told(m, v)
      BY DEF Flow, Gens
    <3>2. CASE n.o.gen = None
      <4>1. None \notin Nat
        BY NotNat
      <4>2. \A q : Among(m.w.pending, q) => q \in Nat
        BY <1>1, Numbers
      <4>3. ~EndIn(v, None)
        <5>1. \A k \in 1..Len(v) : v[k].gen \in Nat \ {0}
          BY <1>1, Numbers
        <5> QED  BY <4>1, <5>1 DEF EndIn
      <4> QED  BY <1>1, <1>2, <3>2, <4>1, <4>2, <4>3 DEF Told
    <3>3. CASE n.o.gen # None
      BY <1>1, <1>2, <1>3, <3>1, <3>3 DEF Told, Tells, Quietly
    <3> QED  BY <3>2, <3>3
  <2> QED  BY <1>1, <2>1, <2>2 DEF Flow, Gens
<1>6. Live(n) => Live(m) /\ n.o.gen = m.o.gen
  BY DEF Tells, Quietly, Live
<1>7. Due(r, n)
  BY <1>1, <1>6 DEF Flow, Due
<1>8. Carried(r, n, u)
  <2> SUFFICES ASSUME Kept(r) PROVE Carried(r, n, u)
    BY DEF Carried
  <2>1. /\ Somewhere(r, m, v) /\ (m.w.waiting # None => WaitsWell(r, m))
        /\ (m.o.gen = r.loaded => SoundsWell(r, m))
    BY DEF Flow, Carried
  <2>2. Somewhere(r, n, u)
    <3>1. CASE m.o.gen = r.loaded /\ ~m.o.ended
      <4>1. (n.o.gen = r.loaded /\ ~n.o.ended) \/ e.e # "ChunkStarted"
        BY <3>1 DEF Tells, Quietly
      <4> QED  BY <1>1, <1>2, <3>1, <4>1 DEF Somewhere
    <3>2. CASE ~(m.o.gen = r.loaded /\ ~m.o.ended)
      BY <1>1, <1>2, <2>1, <3>2 DEF Somewhere
    <3> QED  BY <3>1, <3>2
  <2>3. n.w.waiting # None => WaitsWell(r, n)
    BY <1>1, <1>4, <2>1 DEF WaitsWell
  <2>4. n.o.gen = r.loaded => SoundsWell(r, n)
    <3> SUFFICES ASSUME n.o.gen = r.loaded PROVE SoundsWell(r, n)
      OBVIOUS
    <3>1. SoundsWell(r, m) /\ n.o.gen # None
      BY <1>3, <2>1 DEF Kept
    <3>2. CASE Quietly(m, n)
      BY <1>4, <3>1, <3>2 DEF SoundsWell, Quietly
    <3>3. CASE n.o.ended /\ ~m.o.open /\ n.o.p = m.o.p /\ n.o.n = m.o.n /\ n.o.open = m.o.open
      BY <1>1, <1>4, <3>1, <3>3 DEF SoundsWell
    <3> QED  BY <3>1, <3>2, <3>3 DEF Tells
  <2> QED  BY <2>2, <2>3, <2>4 DEF Carried
<1>9. OpenOK(n) /\ Fx(r, DOMAIN n.w.audio)
  BY <1>1, <1>4 DEF Flow, OpenOK
<1> QED  BY <1>1, <1>2, <1>4, <1>5, <1>7, <1>8, <1>9 DEF Turned, Flow

-----------------------------------------------------------------------------
(* The inductive invariant of the reader's threads.                        *)
(* Runs: up to the end of `closing`; Over: after it.                       *)
Runs(r, m, d, v) ==
  /\ Good(r) /\ ShownOK(r) /\ Typed(m) /\ DOMAIN m = {"w", "s", "o"}
  /\ d \in Seq(Results) /\ v \in Seq(Happens) /\ Flow(r, m, d, v)
Over(r, w) ==
  /\ {"audio", "pending", "hold", "phase"} \subseteq DOMAIN w
  /\ r.fx = <<>> /\ w.pending = <<>> /\ DOMAIN w.audio = r.requested

WorkerIInv ==
  \/ worker.phase \in {"running", "closing"} /\ Runs(reader, Threads, done, events)
  \/ worker.phase \in {"joining", "closed"} /\ Over(reader, worker)

LEMMA ThreadsLemma ==
  /\ DOMAIN Threads = {"w", "s", "o"} /\ Threads.w = worker /\ Threads.s = synth /\ Threads.o = output
  /\ DOMAIN Threads' = {"w", "s", "o"} /\ Threads'.w = worker' /\ Threads'.s = synth' /\ Threads'.o = output'
  /\ \A m : Becomes(m) => Threads' = [w |-> m.w, s |-> m.s, o |-> m.o]
BY DEF Threads, Becomes

(* A call of the reader, with what it takes from the inbox.                *)
LEMMA CallRuns ==
  ASSUME NEW r, NEW m, NEW d, NEW v, Runs(r, m, d, v), r.fx = <<>>,
         NEW s, NEW n, NEW u, NEW L, Does(r, s, L), Good(s), ShownOK(s),
         DOMAIN n = {"w", "s", "o"}, Typed(n), SameBut(m, n), Fewer(m, v, n, u, L), u \in Seq(Happens),
         L = r.loaded \/ (L = None /\ ~Live(m) /\ m.w.waiting = None)
  PROVE  Runs(s, n, d, u)
<1>1. Idle(r)
  BY DEF Runs, Idle
<1>2. Flow(s, n, d, u)
  BY <1>1, CallFlow DEF Runs
<1> QED  BY <1>2 DEF Runs

(* What ends a play that the reader has loaded finds it over.              *)
LEMMA TakenEnds ==
  ASSUME NEW r, NEW m, NEW d, NEW v, Runs(r, m, d, v), r.fx = <<>>, r.loaded # None,
         EndIn(v, r.loaded) \/ Among(m.w.pending, r.loaded)
  PROVE  ~Live(m) /\ m.w.waiting = None
<1>1. Settled(r, m, d, v)
  BY DEF Runs, Settled
<1>2. Steady(r) /\ Typed(m) /\ Due(r, m) /\ Gens(r, m, v) /\ v \in Seq(Happens)
  BY <1>1, SteadyLemma DEF Settled
<1>3. r.loaded = r.gen /\ r.gen \in Nat \ {0}
  BY <1>2 DEF Steady
<1>4. ~Live(m)
  BY <1>2 DEF Due, Steady, Gens, Told, Live
<1>5. m.w.waiting = None
  <2> SUFFICES ASSUME m.w.waiting # None PROVE FALSE
    OBVIOUS
  <2>1. m.w.waiting.gen = r.loaded /\ Newer(m, v, r.loaded)
    BY <1>2 DEF Due, Steady, Gens
  <2>2. CASE EndIn(v, r.loaded)
    BY <1>3, <2>1, <2>2 DEF Newer, EndIn
  <2>3. CASE Among(m.w.pending, r.loaded)
    BY <1>3, <2>1, <2>3 DEF Newer
  <2> QED  BY <2>2, <2>3
<1> QED  BY <1>4, <1>5

LEMMA DrainRuns ==
  ASSUME NEW r, NEW m, NEW d, NEW v, Runs(r, m, d, v), r.fx = <<>>, m.w.pending # <<>>,
         NEW n, DOMAIN n = DOMAIN m, n.s = m.s, n.o = m.o, n.w = [m.w EXCEPT !.pending = Tail(@)]
  PROVE  Runs(on_audio(r, "Failed", Head(m.w.pending)), n, d, v) /\ n.w.phase = m.w.phase
<1> DEFINE t == m.w.pending
           q == Head(t)
           L == IF r.loaded = q /\ "Failed" # "ChunkStarted" THEN None ELSE r.loaded
           s == on_audio(r, "Failed", q)
<1>1. t \in Seq(Nat \ {0}) /\ t # <<>> /\ q \in Nat \ {0} /\ Tail(t) \in Seq(Nat \ {0})
  <2>1. t \in Seq(Nat \ {0}) /\ t # <<>>
    BY DEF Runs, Typed, OfWorker
  <2> HIDE DEF t
  <2> QED  BY <2>1
<1>2. \A g : Among(t, g) <=> g = q \/ Among(Tail(t), g)
  <2> HIDE DEF t
  <2> QED  BY <1>1, AmongTail
<1>3. /\ DOMAIN n.w = DOMAIN m.w /\ n.w.pending = Tail(t) /\ n.w.audio = m.w.audio
      /\ n.w.waiting = m.w.waiting /\ n.w.open = m.w.open /\ n.w.hold = m.w.hold
      /\ n.w.phase = m.w.phase
  BY DEF Runs, Typed, Shape
<1>4. Typed(n) /\ SameBut(m, n)
  BY <1>1, <1>3 DEF Runs, Typed, Shape, OfWorker, SameBut
<1>5. Idle(r) /\ Good(r) /\ ShownOK(r) /\ r.loaded \in (Nat \ {0}) \cup {None}
  BY Fields DEF Runs, Idle, Good, Core
<1>6. "Failed" \in AudioEvent /\ q \in Nat
  BY <1>1 DEF AudioEvent
<1> HIDE DEF t, q
<1>7. Good(s) /\ ShownOK(s)
  BY <1>5, <1>6, OnAudioLemma
<1>8. Does(r, s, L)
  BY <1>5, OnAudioDoes
<1>9. Fewer(m, v, n, v, L)
  BY <1>2, <1>3 DEF Fewer, t
<1>10. L = r.loaded \/ (L = None /\ ~Live(m) /\ m.w.waiting = None)
  <2>1. CASE r.loaded = q
    <3>1. Among(m.w.pending, r.loaded) /\ r.loaded # None
      BY <1>2, <1>6, <2>1, NotNat DEF t
    <3> QED  BY <2>1, <3>1, TakenEnds
  <2>2. CASE r.loaded # q
    BY <2>2
  <2> QED  BY <2>1, <2>2
<1> HIDE DEF L, s
<1>11. Runs(s, n, d, v)
  BY <1>4, <1>7, <1>8, <1>9, <1>10, CallRuns DEF Runs
<1> QED  BY <1>3, <1>11 DEF s, q, t

LEMMA AudioRuns ==
  ASSUME NEW r, NEW m, NEW d, NEW v, Runs(r, m, d, v), r.fx = <<>>, v # <<>>
  PROVE  Runs(on_audio(r, Head(v).e, Head(v).gen), m, d, Tail(v))
<1> DEFINE e == Head(v)
           L == IF r.loaded = e.gen /\ e.e # "ChunkStarted" THEN None ELSE r.loaded
           s == on_audio(r, e.e, e.gen)
<1>1. /\ v \in Seq(Happens) /\ e \in Happens /\ Tail(v) \in Seq(Happens)
      /\ Len(Tail(v)) \in Nat /\ Len(v) = Len(Tail(v)) + 1 /\ v[1] = e
      /\ \A k \in 1..Len(Tail(v)) : Tail(v)[k] = v[k + 1]
  BY DEF Runs
<1>2. e.e \in AudioEvent /\ e.gen \in Nat \ {0}
  BY <1>1 DEF Happens
<1>3. Idle(r) /\ Good(r) /\ ShownOK(r) /\ Typed(m)
  BY DEF Runs, Idle
<1> HIDE DEF e
<1>4. Good(s) /\ ShownOK(s)
  BY <1>2, <1>3, OnAudioLemma
<1>5. Does(r, s, L)
  BY <1>3, OnAudioDoes
<1>6. EndIn(v, L) /\ L # None => EndIn(Tail(v), L)
  <2> SUFFICES ASSUME L # None, NEW k \in 1..Len(v), v[k].gen = L, v[k].e # "ChunkStarted"
               PROVE  EndIn(Tail(v), L)
    BY DEF EndIn
  <2>1. k # 1
    BY <1>1
  <2>2. k - 1 \in 1..Len(Tail(v)) /\ Tail(v)[k - 1] = v[(k - 1) + 1] /\ (k - 1) + 1 = k
    BY <1>1, <2>1
  <2> QED  BY <2>2 DEF EndIn
<1>7. Fewer(m, v, m, Tail(v), L)
  <2>1. \A k \in 1..Len(Tail(v)) : k + 1 \in 1..Len(v) /\ Tail(v)[k] = v[k + 1]
    BY <1>1
  <2>2. \A k \in 1..Len(Tail(v)) : \E j \in 1..Len(v) : Tail(v)[k] = v[j]
    BY <2>1
  <2> HIDE DEF L
  <2> QED  BY <1>6, <2>2 DEF Fewer
<1>8. L = r.loaded \/ (L = None /\ ~Live(m) /\ m.w.waiting = None)
  <2>1. CASE r.loaded = e.gen /\ e.e # "ChunkStarted"
    <3>1. EndIn(v, r.loaded)
      <4>1. 1 \in 1..Len(v)
        BY <1>1
      <4> QED  BY <1>1, <2>1, <4>1 DEF EndIn
    <3>2. r.loaded # None
      BY <1>2, <2>1, NotNat
    <3> QED  BY <2>1, <3>1, <3>2, TakenEnds
  <2>2. CASE ~(r.loaded = e.gen /\ e.e # "ChunkStarted")
    BY <2>2
  <2> QED  BY <2>1, <2>2
<1>9. SameBut(m, m)
  BY DEF SameBut
<1> HIDE DEF L, s
<1>10. Runs(s, m, d, Tail(v))
  BY <1>1, <1>3, <1>4, <1>5, <1>7, <1>8, <1>9, CallRuns DEF Runs
<1> QED  BY <1>10 DEF s, e

(* A request of a client, which takes nothing from the inbox.              *)
LEMMA AskRuns ==
  ASSUME NEW r, NEW m, NEW d, NEW v, Runs(r, m, d, v), r.fx = <<>>,
         NEW s, Does(r, s, r.loaded), Good(s), ShownOK(s)
  PROVE  Runs(s, m, d, v)
<1>1. SameBut(m, m) /\ Fewer(m, v, m, v, r.loaded)
  BY DEF SameBut, Fewer
<1> QED  BY <1>1, CallRuns DEF Runs

-----------------------------------------------------------------------------
(* The first state.                                                        *)
LEMMA EmptyQueue ==
  ASSUME NEW t, t = <<>>
  PROVE  /\ Len(t) = 0 /\ \A k : k \notin 1..Len(t)
         /\ \A q : ~Among(t, q) /\ ~EndIn(t, q) /\ ~Final(t, q)
         /\ \A q : ~Ended(t, q) /\ ~MadeBy(t, q) /\ ~Has(t, q)
<1>1. Len(t) = 0 /\ \A k : k \notin 1..Len(t)
  OBVIOUS
<1> QED  BY <1>1, Zenon DEF Among, EndIn, Final, Ended, MadeBy, Has

LEMMA WorkerInitLemma == WorkerInit => WorkerIInv
<1> SUFFICES ASSUME NEW v \in Volumes, NEW x \in Rates, NEW voice \in Voices, NEW streams \in Streams,
                    reader = [new(v, x, voice) EXCEPT !.lookahead = Lookahead],
                    output = [EmptyOutput EXCEPT !.volume = v],
                    worker = [audio |-> <<>>, waiting |-> None, open |-> None,
                              pending |-> <<>>, hold |-> None, volume |-> v,
                              muted |-> FALSE, phase |-> "running"],
                    synth = [tasks |-> <<>>, job |-> None, cancelled |-> FALSE, made |-> 0,
                             result |-> None, closed |-> FALSE, exited |-> FALSE,
                             streams |-> streams],
                    done = <<>>, events = <<>>
             PROVE  WorkerIInv
  BY DEF WorkerInit
<1> DEFINE r == reader
           m == Threads
<1>1. <<>> \in Effects /\ <<>> \in Queue /\ {} \in Requests /\ Lookahead \in Depth
      /\ 1 \in ItemId /\ "Sentences" \in Chunking
  BY WorkerConstants DEF Effects, Queue, Requests, ItemId, Chunking
<1>2. /\ r.current = None /\ r.queue = <<>> /\ r.loaded = None /\ r.fx = <<>> /\ r.gen = 0
      /\ r.requested = {} /\ r.paused = FALSE /\ r.step_wait = FALSE /\ r.next_id = 1
  BY DEF new
<1>3. Good(r) /\ ShownOK(r)
  <2>1. r.shown \in State
    BY DEF new, State
  <2>2. r \in ReaderType
    BY <1>1, <2>1 DEF new, ReaderType
  <2>3. Good(r)
    BY <1>2, <2>2 DEF Good, Core, Flags, InRange, LoadedOK, RequestedOK, IdsOK,
                      IdleOK, PlayingOK, StepWaitOK
  <2>4. ShownOK(r)
    BY DEF ShownOK, snapshot, new
  <2> QED  BY <2>3, <2>4
<1>4. /\ m.w = worker /\ m.s = synth /\ m.o = output /\ DOMAIN m = {"w", "s", "o"}
  BY ThreadsLemma
<1>5. /\ worker.audio = <<>> /\ worker.waiting = None /\ worker.open = None /\ worker.pending = <<>>
      /\ worker.hold = None /\ worker.phase = "running"
      /\ DOMAIN worker = {"audio", "waiting", "open", "pending", "hold", "volume", "muted", "phase"}
  OBVIOUS
<1>6. /\ synth.tasks = <<>> /\ synth.job = None /\ synth.cancelled = FALSE /\ synth.made = 0
      /\ synth.result = None /\ synth.streams = streams
      /\ DOMAIN synth = {"tasks", "job", "cancelled", "made", "result", "closed", "exited", "streams"}
  OBVIOUS
<1>7. /\ output.gen = None /\ output.n = 0 /\ output.open = FALSE /\ output.paused = FALSE
      /\ output.ended = FALSE
      /\ DOMAIN output = {"gen", "p", "n", "open", "paused", "started", "ended", "volume"}
  BY DEF EmptyOutput
<1>8. <<>> \in Seq(Nat \ {0}) /\ <<>> \in Seq(ChunkRef) /\ done \in Seq(Results) /\ events \in Seq(Happens)
      /\ streams \in BOOLEAN /\ DOMAIN worker.audio = {} /\ 0 \in Nat /\ FALSE \in BOOLEAN
  BY <1>5, WorkerConstants
<1> HIDE DEF r, m
<1>9. Typed(m)
  <2>1. Shape(m)
    BY <1>4, <1>5, <1>6, <1>7 DEF Shape
  <2>2. OfWorker(m.w)
    BY <1>4, <1>5, <1>8 DEF OfWorker
  <2>3. OfSynth(m.s)
    BY <1>4, <1>6, <1>8 DEF OfSynth
  <2>4. OfOutput(m.o)
    BY <1>4, <1>7, <1>8 DEF OfOutput
  <2> QED  BY <2>1, <2>2, <2>3, <2>4 DEF Typed
<1>10. /\ \A q : ~Among(m.w.pending, q) /\ ~Among(m.s.tasks, q) /\ ~EndIn(events, q) /\ ~Final(done, q)
       /\ \A k : k \notin 1..Len(events) /\ k \notin 1..Len(done) /\ k \notin 1..Len(r.fx)
       /\ \A q : ~Ended(r.fx, q) /\ ~MadeBy(r.fx, q) /\ ~Has(r.fx, q)
  BY <1>2, <1>4, <1>5, <1>6, EmptyQueue
<1>11. \A p : St(m, p) = "None" /\ ~Making(m, p)
  BY <1>4, <1>8 DEF St, SlotOf, NoSlot, Slot, Making
<1>12. Fx(r, DOMAIN m.w.audio)
  BY <1>2, <1>4, <1>8, <1>10 DEF Fx, Requested, Played, Kept
<1>13. Gens(r, m, events) /\ Due(r, m) /\ Carried(r, m, events)
  BY <1>2, <1>4, <1>5, <1>7, <1>10 DEF Gens, Newer, Told, Due, Live, Carried, Kept
<1>14. Work(r, m, done) /\ OpenOK(m)
  BY <1>4, <1>5, <1>6, <1>10, <1>11 DEF Work, Known, Comes, Cancels, Counts, OpenOK
<1>15. Runs(r, m, done, events)
  BY <1>3, <1>4, <1>8, <1>9, <1>12, <1>13, <1>14 DEF Runs, Flow
<1> QED  BY <1>5, <1>15 DEF WorkerIInv, r, m

-----------------------------------------------------------------------------
(* Every step keeps it: the clients' requests,                             *)
LEMMA ClientSteps ==
  ASSUME WorkerIInv, Clients
  PROVE  WorkerIInv'
<1>1. Ready /\ worker.phase = "running" /\ reader.fx = <<>> /\ Runs(reader, Threads, done, events)
  BY DEF WorkerIInv, Clients, ClientSpeak, ClientControl, ClientVolume, ClientCodeStep, ClientHold,
         Asks, Ready, Quiet
<1>2. Idle(reader) /\ Good(reader) /\ ShownOK(reader)
  BY <1>1 DEF Runs, Idle
<1>3. ASSUME NEW s, Asks(s), Does(reader, s, reader.loaded), Good(s), ShownOK(s) PROVE WorkerIInv'
  <2>1. Runs(s, Threads, done, events)
    BY <1>1, <1>3, AskRuns
  <2>2. reader' = s /\ Threads' = Threads /\ done' = done /\ events' = events /\ worker' = worker
    BY <1>3 DEF Asks, Threads
  <2> QED  BY <1>1, <2>1, <2>2 DEF WorkerIInv
<1>4. ASSUME NEW text \in Texts, NEW replace \in BOOLEAN, NEW interrupt \in BOOLEAN,
             ClientSpeak(text, replace, interrupt)
      PROVE  WorkerIInv'
  <2> DEFINE s == speak(reader, text, replace, interrupt)
  <2>1. Does(reader, s, reader.loaded) /\ Good(s) /\ ShownOK(s)
    BY <1>2, SpeakDoes, SpeakLemma
  <2>2. Asks(s)
    BY <1>4 DEF ClientSpeak
  <2> HIDE DEF s
  <2> QED  BY <1>3, <2>1, <2>2
<1>5. ASSUME NEW c \in Control, ClientControl(c) PROVE WorkerIInv'
  <2> DEFINE s == control(reader, c)
  <2>1. Does(reader, s, reader.loaded) /\ Good(s) /\ ShownOK(s)
    BY <1>2, ControlDoes, ControlLemma
  <2>2. Asks(s)
    BY <1>5 DEF ClientControl
  <2> HIDE DEF s
  <2> QED  BY <1>3, <2>1, <2>2
<1>6. ASSUME NEW v \in Volumes, ClientVolume(v) PROVE WorkerIInv'
  <2> DEFINE s == set_volume(reader, v)
  <2>1. Does(reader, s, reader.loaded) /\ Good(s) /\ ShownOK(s)
    BY <1>2, MuteDoes, SettingsLemma
  <2>2. Asks(s)
    BY <1>6 DEF ClientVolume
  <2> HIDE DEF s
  <2> QED  BY <1>3, <2>1, <2>2
<1>7. ASSUME NEW on \in BOOLEAN, ClientCodeStep(on) PROVE WorkerIInv'
  <2> DEFINE s == set_code_step(reader, on)
  <2>1. Does(reader, s, reader.loaded) /\ Good(s) /\ ShownOK(s)
    BY <1>2, CodeStepDoes, CodeStepLemma
  <2>2. Asks(s)
    BY <1>7 DEF ClientCodeStep
  <2> HIDE DEF s
  <2> QED  BY <1>3, <2>1, <2>2
<1>8. ASSUME ClientHold PROVE WorkerIInv'
  <2>1. /\ worker' = [worker EXCEPT !.hold = "on"] /\ UNCHANGED <<reader, synth, output, done, events>>
    BY <1>8 DEF ClientHold
  <2>2. /\ DOMAIN Threads' = DOMAIN Threads /\ Threads'.w = [Threads.w EXCEPT !.hold = "on"]
        /\ Threads'.s = Threads.s /\ Threads'.o = Threads.o /\ Threads.w = worker /\ Threads'.w = worker'
        /\ DOMAIN Threads' = {"w", "s", "o"}
    BY <2>1, ThreadsLemma
  <2> DEFINE m == Threads
             n == Threads'
  <2>3. "on" \in {"on", "over"} /\ Typed(m) /\ Flow(reader, m, done, events)
    BY <1>1 DEF Runs
  <2> HIDE DEF m, n
  <2>4. Turned(reader, m, n, done, events)
    BY <2>2, <2>3, HoldFlow DEF m, n
  <2>5. Runs(reader, n, done, events) /\ n.w.phase = m.w.phase
    BY <1>1, <2>2, <2>4 DEF Runs, Turned, n
  <2> QED  BY <1>1, <2>1, <2>2, <2>5 DEF WorkerIInv, m, n
<1>9. Controls \subseteq Control
  BY WorkerConstants
<1> QED  BY <1>4, <1>5, <1>6, <1>7, <1>8, <1>9 DEF Clients

-----------------------------------------------------------------------------
(* the worker's own steps,                                                 *)
LEMMA BecomesRuns ==
  ASSUME NEW t, NEW m, NEW n, NEW d \in Seq(Results), NEW v \in Seq(Happens),
         Good(t), ShownOK(t), Turned(t, m, n, d, v), Becomes(n)
  PROVE  Runs(t, Threads', d, v) /\ worker'.phase = m.w.phase
<1>1. /\ Threads' = [w |-> n.w, s |-> n.s, o |-> n.o] /\ DOMAIN Threads' = {"w", "s", "o"}
      /\ Threads'.w = worker'
  BY ThreadsLemma
<1>2. worker' = n.w
  BY DEF Becomes
<1> DEFINE k == Threads'
<1>3. k = [w |-> n.w, s |-> n.s, o |-> n.o] /\ DOMAIN k = {"w", "s", "o"}
  BY <1>1
<1> HIDE DEF k
<1>4. Typed(k) /\ Flow(t, k, d, v)
  BY <1>3, BecomesFlow DEF Turned
<1>5. Runs(t, k, d, v)
  BY <1>3, <1>4 DEF Runs
<1> QED  BY <1>2, <1>5 DEF Turned, k

LEMMA RunningNow ==
  ASSUME WorkerIInv, worker.phase \in {"running", "closing"}
  PROVE  Runs(reader, Threads, done, events)
BY DEF WorkerIInv

LEMMA RunningNext ==
  ASSUME worker'.phase = worker.phase, worker.phase \in {"running", "closing"},
         Runs(reader', Threads', done', events')
  PROVE  WorkerIInv'
BY DEF WorkerIInv

LEMMA ApplyStep ==
  ASSUME WorkerIInv, Apply
  PROVE  WorkerIInv'
<1>1. reader.fx # <<>> /\ Becomes(apply(Threads, Head(reader.fx)))
      /\ reader' = Popped(reader) /\ done' = done /\ events' = events
  BY DEF Apply, Popped
<1>2. worker.phase \in {"running", "closing"}
  BY <1>1 DEF WorkerIInv, Over
<1>3. Runs(reader, Threads, done, events) /\ Threads.w = worker
  BY <1>2, RunningNow, ThreadsLemma
<1> DEFINE m == Threads
           n == apply(m, Head(reader.fx))
           t == Popped(reader)
<1>4. Turn(reader, m, done, events) /\ done \in Seq(Results) /\ events \in Seq(Happens)
  BY <1>1, <1>3 DEF Runs, Turn
<1>5. Good(t) /\ ShownOK(t)
  BY <1>1, <1>3, PoppedFields DEF Runs
<1> HIDE DEF m, t
<1>6. Turned(t, m, n, done, events)
  BY <1>4, ApplyFlow DEF t
<1>7. Becomes(n)
  BY <1>1 DEF m
<1> HIDE DEF n
<1>8. Runs(t, Threads', done, events) /\ worker'.phase = m.w.phase
  BY <1>4, <1>5, <1>6, <1>7, BecomesRuns
<1> QED  BY <1>1, <1>2, <1>3, <1>8, RunningNext DEF m, t

LEMMA DrainStep ==
  ASSUME WorkerIInv, Drain
  PROVE  WorkerIInv'
<1>1. /\ reader.fx = <<>> /\ worker.pending # <<>>
      /\ reader' = on_audio(reader, "Failed", Head(worker.pending))
      /\ worker' = [worker EXCEPT !.pending = Tail(@)]
      /\ UNCHANGED <<synth, output, done, events>>
  BY DEF Drain
<1>2. worker.phase \in {"running", "closing"}
  BY <1>1 DEF WorkerIInv, Over
<1>3. Runs(reader, Threads, done, events)
  BY <1>2, RunningNow
<1> DEFINE m == Threads
           n == Threads'
<1>4. /\ DOMAIN n = DOMAIN m /\ n.s = m.s /\ n.o = m.o /\ n.w = [m.w EXCEPT !.pending = Tail(@)]
      /\ m.w = worker /\ n.w = worker'
  BY <1>1, ThreadsLemma
<1> HIDE DEF m, n
<1>5. /\ Runs(on_audio(reader, "Failed", Head(m.w.pending)), n, done, events)
      /\ n.w.phase = m.w.phase
  BY <1>1, <1>3, <1>4, DrainRuns DEF m
<1>6. Runs(reader', n, done', events') /\ worker'.phase = worker.phase
  BY <1>1, <1>4, <1>5
<1> QED  BY <1>2, <1>6, RunningNext DEF n

LEMMA HandleAudioStep ==
  ASSUME WorkerIInv, HandleAudio
  PROVE  WorkerIInv'
<1>1. /\ reader.fx = <<>> /\ worker.phase = "running" /\ events # <<>>
      /\ reader' = on_audio(reader, Head(events).e, Head(events).gen) /\ events' = Tail(events)
      /\ worker' = worker /\ synth' = synth /\ output' = output /\ done' = done
  BY DEF HandleAudio, Ready, Quiet
<1>2. Runs(reader, Threads, done, events)
  BY <1>1, RunningNow
<1>3. Runs(on_audio(reader, Head(events).e, Head(events).gen), Threads, done, Tail(events))
  BY <1>1, <1>2, AudioRuns
<1>4. Threads' = Threads
  BY <1>1 DEF Threads
<1> QED  BY <1>1, <1>3, <1>4, RunningNext

LEMMA SettledNow ==
  ASSUME WorkerIInv, Ready
  PROVE  /\ Settled(reader, Threads, done, events) /\ Runs(reader, Threads, done, events)
         /\ worker.phase = "running" /\ reader.fx = <<>> /\ Threads.w = worker
         /\ Good(reader) /\ ShownOK(reader) /\ done \in Seq(Results) /\ events \in Seq(Happens)
<1>1. reader.fx = <<>> /\ worker.phase = "running"
  BY DEF Ready, Quiet
<1>2. Runs(reader, Threads, done, events)
  BY <1>1, RunningNow
<1> QED  BY <1>1, <1>2, ThreadsLemma DEF Runs, Settled

LEMMA HandleDoneStep ==
  ASSUME WorkerIInv, HandleDone
  PROVE  WorkerIInv'
<1> DEFINE m == Threads
           e == Head(done)
           n == IF e.result = "Part" THEN part(m, e.p)
                ELSE synthesized(m, e.p, e.result = "Ok", e.n)
<1>1. /\ Ready /\ done # <<>> /\ Becomes(n) /\ done' = Tail(done)
      /\ reader' = reader /\ events' = events
  BY DEF HandleDone
<1>2. /\ Settled(reader, m, done, events) /\ worker.phase = "running" /\ m.w = worker
      /\ Good(reader) /\ ShownOK(reader) /\ done \in Seq(Results) /\ events \in Seq(Happens)
  BY <1>1, SettledNow
<1>3. Tail(done) \in Seq(Results)
  BY <1>1, <1>2, FirstResult
<1> HIDE DEF m
<1>4. Turned(reader, m, n, Tail(done), events)
  <2>1. CASE e.result = "Part"
    BY <1>1, <1>2, <2>1, PartFlow
  <2>2. CASE e.result # "Part"
    BY <1>1, <1>2, <2>2, SynthesizedFlow
  <2> QED  BY <2>1, <2>2
<1>5. Becomes(n)
  BY <1>1
<1> HIDE DEF n
<1>6. Runs(reader, Threads', Tail(done), events) /\ worker'.phase = m.w.phase
  BY <1>2, <1>3, <1>4, <1>5, BecomesRuns
<1> QED  BY <1>1, <1>2, <1>6, RunningNext

LEMMA ReleaseHoldStep ==
  ASSUME WorkerIInv, ReleaseHold
  PROVE  WorkerIInv'
<1> DEFINE m == Threads
           n == release_hold(m)
<1>1. Ready /\ Becomes(n) /\ done' = done /\ reader' = reader /\ events' = events
  BY DEF ReleaseHold
<1>2. /\ Settled(reader, m, done, events) /\ worker.phase = "running" /\ m.w = worker
      /\ Good(reader) /\ ShownOK(reader) /\ done \in Seq(Results) /\ events \in Seq(Happens)
  BY <1>1, SettledNow
<1> HIDE DEF m
<1>3. Turned(reader, m, n, done, events)
  BY <1>2, ReleaseFlow
<1>4. Becomes(n)
  BY <1>1
<1> HIDE DEF n
<1>5. Runs(reader, Threads', done, events) /\ worker'.phase = m.w.phase
  BY <1>2, <1>3, <1>4, BecomesRuns
<1> QED  BY <1>1, <1>2, <1>5, RunningNext

LEMMA ShutdownStep ==
  ASSUME WorkerIInv, Shutdown
  PROVE  WorkerIInv'
<1> DEFINE m == Threads
           n == Threads'
           s == control(reader, "Stop")
<1>1. /\ Ready /\ reader' = s /\ worker' = [worker EXCEPT !.phase = "closing"]
      /\ synth' = synth /\ output' = output /\ done' = done /\ events' = events
  BY DEF Shutdown
<1>2. /\ Runs(reader, m, done, events) /\ reader.fx = <<>> /\ Good(reader) /\ ShownOK(reader)
      /\ events \in Seq(Happens) /\ Typed(m)
  BY <1>1, SettledNow DEF Runs
<1>3. Idle(reader) /\ "Stop" \in Control
  BY <1>2 DEF Idle, Control
<1>4. Does(reader, s, reader.loaded) /\ Good(s) /\ ShownOK(s)
  BY <1>2, <1>3, ControlDoes, ControlLemma
<1>5. /\ DOMAIN n = {"w", "s", "o"} /\ DOMAIN m = {"w", "s", "o"} /\ m.w = worker /\ n.w = worker'
      /\ n.s = m.s /\ n.o = m.o
  BY <1>1, ThreadsLemma
<1> HIDE DEF m, n, s
<1>6. /\ DOMAIN n.w = DOMAIN m.w /\ n.w.audio = m.w.audio /\ n.w.waiting = m.w.waiting
      /\ n.w.open = m.w.open /\ n.w.pending = m.w.pending /\ n.w.hold = m.w.hold
      /\ n.w.phase = "closing"
  BY <1>1, <1>2, <1>5 DEF Typed, Shape
<1>7. Typed(n) /\ SameBut(m, n)
  BY <1>2, <1>5, <1>6 DEF Typed, Shape, OfWorker, SameBut
<1>8. Fewer(m, events, n, events, reader.loaded)
  BY <1>6 DEF Fewer
<1>9. Runs(s, n, done, events)
  BY <1>2, <1>4, <1>5, <1>7, <1>8, CallRuns
<1> QED  BY <1>1, <1>5, <1>6, <1>9 DEF WorkerIInv, n

LEMMA CloseStep ==
  ASSUME WorkerIInv, CloseSynth
  PROVE  WorkerIInv'
<1>1. /\ reader.fx = <<>> /\ worker.pending = <<>> /\ worker.phase = "closing"
      /\ worker' = [worker EXCEPT !.phase = "joining"] /\ reader' = reader
  BY DEF CloseSynth, Quiet
<1>2. Runs(reader, Threads, done, events) /\ Threads.w = worker
  BY <1>1, RunningNow, ThreadsLemma
<1>3. Settled(reader, Threads, done, events)
  BY <1>1, <1>2 DEF Runs, Settled
<1>4. /\ Idle(reader) /\ Fx(reader, DOMAIN worker.audio) /\ Typed(Threads)
  BY <1>2, <1>3, SteadyLemma
<1>5. DOMAIN worker.audio \in SUBSET ChunkRef
  BY <1>2, <1>4 DEF Typed, OfWorker
<1>6. reader.requested = DOMAIN worker.audio
  BY <1>4, <1>5, NothingBefore
<1>7. {"audio", "waiting", "open", "pending", "hold", "volume", "muted", "phase"} \subseteq DOMAIN worker
  BY <1>2, <1>4 DEF Typed, Shape
<1>8. /\ worker'.phase = "joining" /\ worker'.audio = worker.audio /\ worker'.pending = worker.pending
      /\ DOMAIN worker' = DOMAIN worker
  BY <1>1, <1>7
<1> QED  BY <1>1, <1>6, <1>7, <1>8 DEF WorkerIInv, Over

LEMMA JoinedStep ==
  ASSUME WorkerIInv, Joined
  PROVE  WorkerIInv'
<1>1. worker.phase = "joining" /\ worker' = [worker EXCEPT !.phase = "closed"] /\ reader' = reader
  BY DEF Joined
<1>2. Over(reader, worker)
  BY <1>1 DEF WorkerIInv
<1>3. /\ worker'.phase = "closed" /\ worker'.audio = worker.audio /\ worker'.pending = worker.pending
      /\ DOMAIN worker' = DOMAIN worker
  BY <1>1, <1>2 DEF Over
<1> QED  BY <1>1, <1>2, <1>3 DEF WorkerIInv, Over

-----------------------------------------------------------------------------
(* the synthesis thread's,                                                 *)
LEMMA OverStays ==
  ASSUME WorkerIInv, ~(worker.phase \in {"running", "closing"}),
         reader' = reader, worker' = worker
  PROVE  WorkerIInv'
BY DEF WorkerIInv, Over

LEMMA TurnedRuns ==
  ASSUME WorkerIInv, worker.phase \in {"running", "closing"}, reader' = reader,
         Turned(reader, Threads, Threads', done', events'),
         done' \in Seq(Results), events' \in Seq(Happens)
  PROVE  WorkerIInv'
<1>1. /\ Runs(reader, Threads, done, events) /\ DOMAIN Threads' = {"w", "s", "o"}
      /\ Threads.w = worker /\ Threads'.w = worker'
  BY RunningNow, ThreadsLemma
<1> DEFINE m == Threads
           n == Threads'
<1>2. Runs(reader, m, done, events) /\ Turned(reader, m, n, done', events')
      /\ DOMAIN n = {"w", "s", "o"} /\ m.w = worker /\ n.w = worker'
  BY <1>1
<1> HIDE DEF m, n
<1>3. Runs(reader', n, done', events') /\ worker'.phase = worker.phase
  BY <1>2 DEF Runs, Turned
<1> QED  BY <1>3, RunningNext DEF n

LEMMA SynthSteps ==
  ASSUME WorkerIInv, Synth
  PROVE  WorkerIInv'
<1>1. reader' = reader /\ worker' = worker /\ output' = output /\ events' = events
  BY DEF Synth, SynthBegin, SynthExit, SynthPart, SynthReturn, SynthDeliver
<1>2. CASE ~(worker.phase \in {"running", "closing"})
  BY <1>1, <1>2, OverStays
<1>3. CASE worker.phase \in {"running", "closing"}
  <2> DEFINE m == Threads
             n == Threads'
  <2>1. Runs(reader, m, done, events)
    BY <1>3, RunningNow
  <2>2. /\ DOMAIN n = DOMAIN m /\ n.w = m.w /\ n.o = m.o /\ m.s = synth /\ n.s = synth'
    BY <1>1, ThreadsLemma
  <2> HIDE DEF m, n
  <2>3. /\ Typed(m) /\ Flow(reader, m, done, events) /\ done \in Seq(Results)
        /\ events \in Seq(Happens)
    BY <2>1 DEF Runs
  <2> SUFFICES Turned(reader, m, n, done', events) /\ done' \in Seq(Results)
    BY <1>1, <1>3, <2>3, TurnedRuns DEF m, n
  <2>4. CASE SynthBegin
    <3>1. /\ m.s.job = None /\ m.s.tasks # <<>> /\ done' = done
          /\ n.s = [begin(m.s, Head(m.s.tasks)) EXCEPT !.tasks = Tail(@), !.made = 0, !.result = None]
      BY <2>2, <2>4 DEF SynthBegin
    <3> QED  BY <2>2, <2>3, <3>1, BeginFlow
  <2>5. CASE SynthExit
    <3>1. n.s = [m.s EXCEPT !.exited = TRUE] /\ done' = done
      BY <2>2, <2>5 DEF SynthExit
    <3> QED  BY <2>2, <2>3, <3>1, ExitFlow
  <2>6. CASE SynthPart
    <3>1. /\ m.s.streams /\ m.s.job # None /\ n.s = [m.s EXCEPT !.made = @ + 1]
          /\ done' = Append(done, [p |-> m.s.job, result |-> "Part", n |-> 1])
      BY <2>2, <2>6 DEF SynthPart
    <3> QED  BY <2>2, <2>3, <3>1, PieceFlow
  <2>7. CASE SynthReturn
    <3>1. done' = done
      BY <2>7 DEF SynthReturn
    <3>2. PICK result \in {"Ok", "Err", "Cancelled"} :
            /\ result = "Cancelled" => m.s.cancelled
            /\ n.s = [m.s EXCEPT !.result = result,
                                 !.made = IF result # "Ok" THEN 0 ELSE IF m.s.streams THEN @ ELSE 1]
      BY <2>2, <2>7 DEF SynthReturn
    <3> QED  BY <2>2, <2>3, <3>1, <3>2, ReturnFlow
  <2>8. CASE SynthDeliver
    <3>1. /\ m.s.job # None /\ m.s.result # None
          /\ n.s = [m.s EXCEPT !.job = None, !.result = None, !.made = 0]
          /\ done' = Append(done, [p |-> m.s.job, result |-> m.s.result, n |-> m.s.made])
      BY <2>2, <2>8 DEF SynthDeliver
    <3> QED  BY <2>2, <2>3, <3>1, DeliverFlow
  <2> QED  BY <2>4, <2>5, <2>6, <2>7, <2>8 DEF Synth
<1> QED  BY <1>2, <1>3

(* and the output's, the device's and the clock's.                         *)
LEMMA OutputSteps ==
  ASSUME WorkerIInv, OutputStarted \/ OutputFinished \/ DeviceLost
  PROVE  WorkerIInv'
<1>1. reader' = reader /\ worker' = worker /\ synth' = synth /\ done' = done
  BY DEF OutputStarted, OutputFinished, DeviceLost
<1>2. CASE ~(worker.phase \in {"running", "closing"})
  BY <1>1, <1>2, OverStays
<1>3. CASE worker.phase \in {"running", "closing"}
  <2> DEFINE m == Threads
             n == Threads'
  <2>1. Runs(reader, m, done, events)
    BY <1>3, RunningNow
  <2>2. /\ DOMAIN n = DOMAIN m /\ n.w = m.w /\ n.s = m.s /\ m.o = output /\ n.o = output'
    BY <1>1, ThreadsLemma
  <2> HIDE DEF m, n
  <2>3. /\ Typed(m) /\ Flow(reader, m, done, events) /\ done \in Seq(Results)
        /\ events \in Seq(Happens) /\ m.o.gen \in (Nat \ {0}) \cup {None}
        /\ {"gen", "p", "n", "open", "paused", "started", "ended", "volume"} \subseteq DOMAIN m.o
    BY <2>1 DEF Runs, Typed, Shape, OfOutput
  <2>4. ASSUME NEW e, events' = Append(events, e), Tells(m, n, events, e) PROVE WorkerIInv'
    <3>1. Turned(reader, m, n, done, events') /\ events' \in Seq(Happens)
      BY <2>3, <2>4, TellsFlow
    <3> QED  BY <1>1, <1>3, <2>3, <3>1, TurnedRuns DEF m, n
  <2>5. CASE OutputStarted
    <3> DEFINE e == [e |-> "ChunkStarted", gen |-> m.o.gen]
    <3>1. /\ m.o.gen # None /\ n.o = [m.o EXCEPT !.started = TRUE]
          /\ events' = Append(events, e)
      BY <2>2, <2>5 DEF OutputStarted, Reports
    <3>2. /\ n.o.gen = m.o.gen /\ n.o.p = m.o.p /\ n.o.n = m.o.n /\ n.o.open = m.o.open
          /\ n.o.paused = m.o.paused /\ n.o.ended = m.o.ended /\ DOMAIN n.o = DOMAIN m.o
      BY <2>3, <3>1
    <3>3. Typed(n)
      <4>1. OfOutput(n.o)
        BY <2>3, <3>2 DEF Typed, OfOutput
      <4>2. Shape(n)
        BY <2>2, <2>3, <3>2 DEF Typed, Shape
      <4> QED  BY <2>2, <2>3, <4>1, <4>2 DEF Typed
    <3>4. Quietly(m, n)
      BY <2>2, <3>2, <3>3 DEF Quietly
    <3>5. e \in Happens /\ e.e = "ChunkStarted" /\ e.gen = m.o.gen
      BY <2>3, <3>1 DEF Happens, AudioEvent
    <3> HIDE DEF e
    <3>6. Tells(m, n, events, e)
      BY <2>2, <2>3, <3>1, <3>3, <3>4, <3>5 DEF Tells
    <3> QED  BY <2>4, <3>1, <3>6
  <2>6. CASE OutputFinished
    <3> DEFINE e == [e |-> "ChunkFinished", gen |-> m.o.gen]
    <3>1. /\ m.o.gen # None /\ ~m.o.ended /\ ~m.o.open /\ n.o = [m.o EXCEPT !.ended = TRUE]
          /\ events' = Append(events, e)
      BY <2>2, <2>6 DEF OutputFinished, Reports
    <3>2. /\ n.o.gen = m.o.gen /\ n.o.p = m.o.p /\ n.o.n = m.o.n /\ n.o.open = m.o.open
          /\ n.o.paused = m.o.paused /\ n.o.ended = TRUE /\ DOMAIN n.o = DOMAIN m.o
      BY <2>3, <3>1
    <3>3. Typed(n)
      BY <2>2, <2>3, <3>1, <3>2 DEF Typed, Shape, OfOutput
    <3>4. e \in Happens /\ e.e = "ChunkFinished" /\ e.gen = m.o.gen
      BY <2>3, <3>1 DEF Happens, AudioEvent
    <3> HIDE DEF e
    <3>5. Tells(m, n, events, e)
      BY <2>2, <2>3, <3>1, <3>2, <3>3, <3>4 DEF Tells
    <3> QED  BY <2>4, <3>1, <3>5
  <2>7. CASE DeviceLost
    <3> DEFINE e == [e |-> "Failed", gen |-> m.o.gen]
    <3>1. /\ m.o.gen # None /\ n.o = [EmptyOutput EXCEPT !.volume = m.o.volume]
          /\ events' = Append(events, e)
      BY <2>2, <2>7 DEF DeviceLost, Reports
    <3>2. /\ n.o.gen = None /\ n.o.n = 0 /\ n.o.open = FALSE
          /\ n.o.paused = FALSE /\ n.o.ended = FALSE
          /\ DOMAIN n.o = {"gen", "p", "n", "open", "paused", "started", "ended", "volume"}
      BY <3>1 DEF EmptyOutput
    <3>3. Typed(n)
      <4>1. 0 \in Nat /\ FALSE \in BOOLEAN
        OBVIOUS
      <4>2. OfOutput(n.o)
        BY <3>2, <4>1 DEF OfOutput
      <4>3. Shape(n)
        BY <2>2, <2>3, <3>2 DEF Typed, Shape
      <4> QED  BY <2>2, <2>3, <4>2, <4>3 DEF Typed
    <3>4. e \in Happens /\ e.e = "Failed" /\ e.gen = m.o.gen
      BY <2>3, <3>1 DEF Happens, AudioEvent
    <3> HIDE DEF e
    <3>5. Tells(m, n, events, e)
      BY <2>2, <2>3, <3>1, <3>2, <3>3, <3>4 DEF Tells
    <3> QED  BY <2>4, <3>1, <3>5
  <2> QED  BY <2>5, <2>6, <2>7
<1> QED  BY <1>2, <1>3

LEMMA HoldOverStep ==
  ASSUME WorkerIInv, HoldOver
  PROVE  WorkerIInv'
<1>1. /\ worker' = [worker EXCEPT !.hold = "over"] /\ reader' = reader /\ synth' = synth
      /\ output' = output /\ done' = done /\ events' = events
  BY DEF HoldOver
<1>2. CASE ~(worker.phase \in {"running", "closing"})
  <2>1. worker.phase \in {"joining", "closed"} /\ Over(reader, worker)
    BY <1>2 DEF WorkerIInv
  <2>2. /\ worker'.phase = worker.phase /\ worker'.audio = worker.audio
        /\ worker'.pending = worker.pending /\ DOMAIN worker' = DOMAIN worker
    BY <1>1, <2>1 DEF Over
  <2> QED  BY <1>1, <2>1, <2>2 DEF WorkerIInv, Over
<1>3. CASE worker.phase \in {"running", "closing"}
  <2> DEFINE m == Threads
             n == Threads'
  <2>1. Runs(reader, m, done, events)
    BY <1>3, RunningNow
  <2>2. /\ DOMAIN n = DOMAIN m /\ n.w = [m.w EXCEPT !.hold = "over"] /\ n.s = m.s /\ n.o = m.o
    BY <1>1, ThreadsLemma
  <2> HIDE DEF m, n
  <2>3. /\ Typed(m) /\ Flow(reader, m, done, events) /\ done \in Seq(Results)
        /\ events \in Seq(Happens) /\ "over" \in {"on", "over"}
    BY <2>1 DEF Runs
  <2>4. Turned(reader, m, n, done, events)
    BY <2>2, <2>3, HoldFlow
  <2> QED  BY <1>1, <1>3, <2>3, <2>4, TurnedRuns DEF m, n
<1> QED  BY <1>2, <1>3

LEMMA WorkerStepLemma == WorkerIInv /\ [WorkerNext]_vars => WorkerIInv'
<1> SUFFICES ASSUME WorkerIInv, [WorkerNext]_vars PROVE WorkerIInv'
  OBVIOUS
<1>1. CASE Clients
  BY <1>1, ClientSteps
<1>2. CASE Worker
  BY <1>2, ApplyStep, DrainStep, HandleAudioStep, HandleDoneStep, ReleaseHoldStep, CloseStep,
     JoinedStep DEF Worker
<1>3. CASE Shutdown
  BY <1>3, ShutdownStep
<1>4. CASE Synth
  BY <1>4, SynthSteps
<1>5. CASE Device \/ DeviceLost
  BY <1>5, OutputSteps DEF Device
<1>6. CASE HoldOver
  BY <1>6, HoldOverStep
<1>7. CASE UNCHANGED vars \/ Closed
  <2>1. UNCHANGED vars
    BY <1>7 DEF Closed
  <2> QED  BY <2>1 DEF vars, WorkerIInv, Threads, Runs, Over
<1> QED  BY <1>1, <1>2, <1>3, <1>4, <1>5, <1>6, <1>7 DEF WorkerNext

-----------------------------------------------------------------------------
(* What the invariant says between two messages.                           *)
LEMMA ChunkComes ==
  ASSUME NEW p, Comes(Threads, done), Making(Threads, p)
  PROVE  Coming(p)
<1>1. Threads.s = synth
  BY ThreadsLemma
<1> QED  BY <1>1 DEF Comes, Coming, Among, Final

LEMMA InvLost == WorkerIInv => NoLostPlay
<1> SUFFICES ASSUME WorkerIInv, Ready, reader.loaded # None PROVE NoLostPlay
  BY DEF NoLostPlay
<1> DEFINE m == Threads
           g == reader.loaded
           p == <<reader.current.item.id, reader.current.chunk>>
           w == worker.waiting
<1>1. Settled(reader, m, done, events)
  BY SettledNow
<1>2. /\ Steady(reader) /\ Typed(m) /\ Due(reader, m) /\ Carried(reader, m, events)
      /\ Work(reader, m, done) /\ Gens(reader, m, events)
  BY <1>1, SteadyLemma
<1>3. m.w = worker /\ m.s = synth /\ m.o = output
  BY ThreadsLemma
<1>4. Kept(reader) /\ p = Place(reader)
  BY <1>2 DEF Steady, Place
<1>5. ~Among(worker.pending, g)
  <2>1. worker.pending = <<>>
    BY DEF Ready, Quiet
  <2> QED  BY <2>1, EmptyQueue
<1>6. CASE w # None
  <2>1. w \in Waiting /\ w.paused \in BOOLEAN
    BY <1>2, <1>3, <1>6 DEF Typed, OfWorker, Waiting
  <2>2. w.gen = g /\ WaitsWell(reader, m)
    BY <1>2, <1>3, <1>4, <1>6 DEF Due, Steady, Carried
  <2>3. /\ w.p = p /\ (w.paused => reader.paused) /\ p \in DOMAIN m.w.audio
        /\ Loadable(m, p) => worker.hold # None \/ w.paused
    BY <1>2, <1>3, <1>4, <2>2 DEF WaitsWell, Steady
  <2>4. ~Loadable(m, p) => Coming(p)
    <3> SUFFICES ASSUME ~Loadable(m, p) PROVE Coming(p)
      OBVIOUS
    <3>1. Making(m, p)
      BY <1>2, <2>3, SlotTypes DEF Making
    <3> QED  BY <1>2, <3>1, ChunkComes DEF Work
  <2>5. IF Loadable(Threads, p) THEN worker.hold # None \/ reader.paused ELSE Coming(p)
    BY <2>3, <2>4, Zenon
  <2> QED  BY <1>6, <2>2, <2>3, <2>5 DEF NoLostPlay
<1>7. CASE output.gen = g /\ ~output.ended /\ w = None
  <2>1. SoundsWell(reader, m)
    BY <1>2, <1>3, <1>4, <1>7 DEF Carried
  <2>2. output.p = p /\ (output.open => worker.open = [p |-> p, gen |-> g] /\ St(m, p) = "Streaming")
    BY <1>3, <1>4, <1>7, <2>1 DEF SoundsWell
  <2>3. output.open => Coming(p)
    <3> SUFFICES ASSUME output.open PROVE Coming(p)
      OBVIOUS
    <3>1. Making(m, p)
      BY <2>2 DEF Making
    <3> QED  BY <1>2, <3>1, ChunkComes DEF Work
  <2> QED  BY <1>7, <2>2, <2>3 DEF NoLostPlay
<1>8. CASE EndIn(events, g)
  BY <1>8 DEF NoLostPlay, Ending, EndIn
<1> QED  BY <1>2, <1>3, <1>4, <1>5, <1>6, <1>7, <1>8 DEF Carried, Somewhere

LEMMA InvSilent == WorkerIInv => PauseIsSilent
<1> SUFFICES ASSUME WorkerIInv, Ready, output.gen # None, ~output.ended
             PROVE  reader.loaded = output.gen /\ output.paused = reader.paused
  BY DEF PauseIsSilent
<1> DEFINE m == Threads
<1>1. Settled(reader, m, done, events) /\ m.o = output
  BY SettledNow, ThreadsLemma
<1>2. /\ Steady(reader) /\ Due(reader, m) /\ Carried(reader, m, events)
  BY <1>1, SteadyLemma
<1> HIDE DEF m
<1>3. Kept(reader) /\ output.gen = reader.loaded
  BY <1>1, <1>2 DEF Due, Live, Steady
<1>4. SoundsWell(reader, m)
  BY <1>1, <1>2, <1>3 DEF Carried
<1>5. output.paused = reader.paused
  BY <1>1, <1>2, <1>4 DEF SoundsWell, Steady
<1> QED  BY <1>3, <1>5

LEMMA InvFollows == WorkerIInv => AudioFollows
<1> SUFFICES ASSUME WorkerIInv PROVE AudioFollows
  OBVIOUS
<1>1. Quiet => DOMAIN worker.audio = reader.requested
  <2>1. CASE worker.phase \in {"running", "closing"}
    <3> SUFFICES ASSUME Quiet PROVE DOMAIN worker.audio = reader.requested
      OBVIOUS
    <3>1. Runs(reader, Threads, done, events) /\ Threads.w = worker
      BY <2>1, RunningNow, ThreadsLemma
    <3>2. Settled(reader, Threads, done, events)
      BY <3>1 DEF Quiet, Runs, Settled
    <3>3. Idle(reader) /\ Fx(reader, DOMAIN worker.audio) /\ Typed(Threads)
      BY <3>1, <3>2, SteadyLemma
    <3>4. DOMAIN worker.audio \in SUBSET ChunkRef
      BY <3>1, <3>3 DEF Typed, OfWorker
    <3> QED  BY <3>3, <3>4, NothingBefore
  <2>2. CASE ~(worker.phase \in {"running", "closing"})
    BY <2>2 DEF WorkerIInv, Over
  <2> QED  BY <2>1, <2>2
<1>2. ASSUME Ready, NEW p \in DOMAIN worker.audio, worker.audio[p].st \in {"Pending", "Streaming"}
      PROVE  Coming(p)
  <2>1. Settled(reader, Threads, done, events) /\ Threads.w = worker
    BY <1>2, SettledNow
  <2>2. Comes(Threads, done)
    BY <2>1, SteadyLemma DEF Work
  <2>3. Making(Threads, p)
    BY <1>2, <2>1 DEF Making, St, SlotOf
  <2> QED  BY <2>2, <2>3, ChunkComes
<1> QED  BY <1>1, <1>2 DEF AudioFollows

LEMMA InvWhole == WorkerIInv => NothingCutShort
<1> SUFFICES ASSUME WorkerIInv, Ready, output.ended, reader.loaded = output.gen
             PROVE  /\ SlotOf(Threads, output.p).st \in {"Ok", "Err"}
                    /\ output.n >= SlotOf(Threads, output.p).n
  BY DEF NothingCutShort
<1> DEFINE m == Threads
<1>1. Settled(reader, m, done, events) /\ m.o = output
  BY SettledNow, ThreadsLemma
<1>2. Steady(reader) /\ Typed(m) /\ Carried(reader, m, events)
  BY <1>1, SteadyLemma
<1> HIDE DEF m
<1>3. output.gen # None
  BY <1>1, <1>2 DEF Typed, OfOutput
<1>4. Kept(reader)
  BY <1>2, <1>3 DEF Steady
<1>5. SoundsWell(reader, m)
  BY <1>1, <1>2, <1>4 DEF Carried
<1>6. St(m, output.p) \in {"Ok", "Err"} /\ output.n >= Num(m, output.p)
  BY <1>1, <1>5 DEF SoundsWell
<1> QED  BY <1>6 DEF St, Num, m

LEMMA InvCancels == WorkerIInv => CancelHitsEndedItems
<1> SUFFICES ASSUME WorkerIInv, Ready PROVE CancelHitsEndedItems
  BY DEF CancelHitsEndedItems
<1>1. Settled(reader, Threads, done, events) /\ Threads.w = worker
  BY SettledNow
<1>2. Cancels(Threads, done)
  BY <1>1, SteadyLemma DEF Work
<1> QED  BY <1>1, <1>2 DEF Cancels, CancelHitsEndedItems

(* The invariant holds of every reachable state.                           *)
LEMMA WorkerInvariant == WorkerSpec => []WorkerIInv
<1> QED  BY WorkerInitLemma, WorkerStepLemma, PTL DEF WorkerSpec

(* Between two messages, a chunk that the reader believes loaded is        *)
(* sounding, its end is on the way, or it waits for audio being made or    *)
(* for a hold: the reader never waits for a play that nobody will end,     *)
(* however requests, results, parts, device losses and holds interleave    *)
(* (worker.rs load, drain and release_hold, synth.rs, output.rs).          *)
THEOREM WorkerNeverLosesPlay == WorkerSpec => []NoLostPlay
<1>1. WorkerIInv => NoLostPlay
  BY InvLost
<1> QED  BY <1>1, WorkerInvariant, PTL

(* Between two messages the audio is in step with the reader: what sounds  *)
(* is the chunk that is loaded, paused when the reader is paused; the      *)
(* audio kept is that of the chunks requested, and what is missing of it   *)
(* is being made; a chunk that ended played all that was made; and a       *)
(* cancel reached only items that have ended (worker.rs, synth.rs          *)
(* drop_item, output.rs).                                                  *)
THEOREM WorkerAudioInStep == WorkerSpec => []AudioInStep
<1>1. WorkerIInv => AudioInStep
  BY InvSilent, InvFollows, InvWhole, InvCancels DEF AudioInStep
<1> QED  BY <1>1, WorkerInvariant, PTL
=============================================================================
