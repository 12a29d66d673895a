---------------------------- MODULE RouterProofs ----------------------------
(***************************************************************************)
(* Proofs about Router and Channels, for every value of their constants:   *)
(* the router's references, floor, open channels and batches are in order  *)
(* between any two calls, whether its methods are called by themselves or  *)
(* by the driver.  Each operator of Router has a lemma that says that it   *)
(* keeps RouterOK; the theorems put them together.                         *)
(***************************************************************************)
EXTENDS Channels, TLAPS, FiniteSetTheorems, WellFoundedInduction

(* What every call of the router finds and leaves.                         *)
BatchesOK(r) == \A id \in Ids : BatchOK(r, r.ch[id])
RouterOK(r) == /\ r \in RouterType
               /\ RefsOK(r) /\ FloorOK(r) /\ OpenOK(r) /\ BatchesOK(r)

-----------------------------------------------------------------------------
(* Sets of positions and what Vec::retain leaves.                          *)

(* A set of natural numbers has a least one.                               *)
LEMMA LeastNatural ==
  ASSUME NEW D \in SUBSET Nat, D # {}
  PROVE  \E n \in D : \A m \in D : n <= m
<1>1. PICK x \in D : \A y \in D : ~ (<<y, x>> \in OpToRel(<, Nat))
  BY NatLessThanWellFounded, WFMin
<1>2. \A y \in D : <<y, x>> \in OpToRel(<, Nat) <=> y < x
  BY DEF OpToRel
<1>3. \A y \in D : ~(y < x)
  BY <1>1, <1>2, Zenon
<1>4. \A y \in D : x <= y
  BY <1>3
<1> QED  BY <1>4

LEMMA KeptFinite ==
  ASSUME NEW S, NEW s \in Seq(S), NEW gone
  PROVE  /\ kept(s, gone) \subseteq 1..Len(s) /\ IsFiniteSet(kept(s, gone))
         /\ Cardinality(kept(s, gone)) \in Nat
         /\ \A i : kept_to(s, gone, i) \in Nat /\ kept_to(s, gone, i) <= Cardinality(kept(s, gone))
<1>1. Len(s) \in Nat /\ kept(s, gone) \subseteq 1..Len(s)
  BY DEF kept
<1>2. IsFiniteSet(1..Len(s))
  BY <1>1, FS_Interval
<1>3. IsFiniteSet(kept(s, gone)) /\ Cardinality(kept(s, gone)) \in Nat
  BY <1>1, <1>2, FS_Subset, FS_CardinalityType
<1>4. ASSUME NEW i
      PROVE  kept_to(s, gone, i) \in Nat /\ kept_to(s, gone, i) <= Cardinality(kept(s, gone))
  <2> DEFINE T == {j \in kept(s, gone) : j <= i}
  <2>1. T \subseteq kept(s, gone)
    OBVIOUS
  <2> HIDE DEF T
  <2>2. IsFiniteSet(T) /\ Cardinality(T) <= Cardinality(kept(s, gone)) /\ Cardinality(T) \in Nat
    BY <1>3, <2>1, FS_Subset, FS_CardinalityType
  <2> QED  BY <2>2 DEF kept_to, T
<1> QED  BY <1>1, <1>3, <1>4

LEMMA KeptRises ==
  ASSUME NEW S, NEW s \in Seq(S), NEW gone, NEW i \in kept(s, gone), NEW k \in kept(s, gone), i < k
  PROVE  kept_to(s, gone, i) < kept_to(s, gone, k)
<1> DEFINE A == {j \in kept(s, gone) : j <= i}
           B == {j \in kept(s, gone) : j <= k}
<1>1. kept(s, gone) \subseteq 1..Len(s) /\ IsFiniteSet(kept(s, gone)) /\ Len(s) \in Nat
  BY KeptFinite
<1>2. A \subseteq B /\ A # B /\ B \subseteq kept(s, gone)
  <2>1. \A j \in kept(s, gone) : j \in Nat
    BY <1>1
  <2>2. k \in B /\ k \notin A
    BY <2>1
  <2>3. A \subseteq B
    BY <2>1
  <2> QED  BY <2>2, <2>3
<1> HIDE DEF A, B
<1>3. IsFiniteSet(B)
  BY <1>1, <1>2, FS_Subset
<1>4. Cardinality(A) < Cardinality(B)
  <2>1. Cardinality(A) <= Cardinality(B) /\ (Cardinality(A) = Cardinality(B) => A = B)
    BY <1>2, <1>3, FS_Subset
  <2>2. Cardinality(A) \in Nat /\ Cardinality(B) \in Nat
    BY <1>2, <1>3, FS_Subset, FS_CardinalityType
  <2> QED  BY <1>2, <2>1, <2>2
<1> QED  BY <1>4 DEF kept_to, A, B

(* Every number up to the count is the number of one that stays.           *)
LEMMA KeptReached ==
  ASSUME NEW S, NEW s \in Seq(S), NEW gone, NEW n \in 1..Cardinality(kept(s, gone))
  PROVE  nth_kept(s, gone, n) \in kept(s, gone) /\ kept_to(s, gone, nth_kept(s, gone, n)) = n
<1> DEFINE K == kept(s, gone)
           c == Cardinality(K)
           T == (1..c) \ {n}
           f == [i \in K |-> kept_to(s, gone, i)]
<1>1. K \subseteq 1..Len(s) /\ IsFiniteSet(K) /\ c \in Nat /\ Len(s) \in Nat
      /\ \A i \in K : kept_to(s, gone, i) \in Nat /\ kept_to(s, gone, i) <= c
  BY KeptFinite
<1>2. \A i \in K : kept_to(s, gone, i) \in 1..c
  <2> SUFFICES ASSUME NEW i \in K PROVE kept_to(s, gone, i) # 0
    BY <1>1
  <2> DEFINE A == {j \in K : j <= i}
  <2>1. i \in A
    BY <1>1
  <2>2. IsFiniteSet(A)
    BY <1>1, FS_Subset
  <2>3. Cardinality(A) # 0
    <3> HIDE DEF A
    <3> QED  BY <2>1, <2>2, FS_EmptySet
  <2> QED  BY <2>3 DEF kept_to
<1>3. SUFFICES \E i \in K : kept_to(s, gone, i) = n
  BY DEF nth_kept
<1>4. SUFFICES ASSUME \A i \in K : kept_to(s, gone, i) # n PROVE FALSE
  OBVIOUS
<1>5. IsFiniteSet(T) /\ Cardinality(T) = c - 1
  <2>1. IsFiniteSet(1..c) /\ Cardinality(1..c) = c
    BY <1>1, FS_Interval
  <2>2. n \in 1..c
    OBVIOUS
  <2> HIDE DEF c
  <2> QED  BY <2>1, <2>2, FS_RemoveElement
<1>6. f \in [K -> T]
  BY <1>2, <1>4
<1>7. \E x, y \in K : x # y /\ f[x] = f[y]
  <2>1. Cardinality(T) < Cardinality(K)
    BY <1>1, <1>5
  <2> HIDE DEF T, f, K
  <2> QED  BY <1>1, <1>5, <1>6, <2>1, FS_PigeonHole
<1>8. PICK x \in K, y \in K : x # y /\ kept_to(s, gone, x) = kept_to(s, gone, y)
  BY <1>7
<1>9. CASE x < y
  BY <1>1, <1>8, <1>9, KeptRises
<1>10. CASE y < x
  BY <1>1, <1>8, <1>10, KeptRises
<1> QED  BY <1>1, <1>8, <1>9, <1>10

(* The members that stay, each from a place of its own, and no others.     *)
LEMMA WithoutLemma ==
  ASSUME NEW S, NEW s \in Seq(S), NEW gone
  PROVE  /\ without(s, gone) \in Seq(S)
         /\ \A n \in 1..Len(without(s, gone)) :
              /\ nth_kept(s, gone, n) \in 1..Len(s)
              /\ without(s, gone)[n] = s[nth_kept(s, gone, n)]
              /\ without(s, gone)[n] \notin gone
         /\ \A n, m \in 1..Len(without(s, gone)) :
              nth_kept(s, gone, n) = nth_kept(s, gone, m) => n = m
         /\ \A i \in 1..Len(s) : s[i] \notin gone =>
              \E n \in 1..Len(without(s, gone)) : without(s, gone)[n] = s[i]
<1> DEFINE K == kept(s, gone)
           c == Cardinality(K)
           w == without(s, gone)
           at(n) == nth_kept(s, gone, n)
<1>1. K \subseteq 1..Len(s) /\ c \in Nat /\ Len(s) \in Nat /\ IsFiniteSet(K)
      /\ \A i \in K : kept_to(s, gone, i) \in Nat /\ kept_to(s, gone, i) <= c
  BY KeptFinite
<1>2. \A n \in 1..c : at(n) \in K /\ kept_to(s, gone, at(n)) = n
  BY KeptReached
<1>3. \A i \in K : s[i] \in S /\ s[i] \notin gone
  BY DEF kept
<1>4. w = [n \in 1..c |-> s[at(n)]]
  BY DEF without
<1>5. w \in Seq(S) /\ Len(w) = c /\ \A n \in 1..c : w[n] = s[at(n)]
  <2> HIDE DEF K, c, at, w
  <2>1. \A n \in 1..c : s[at(n)] \in S
    BY <1>2, <1>3
  <2>2. w \in [1..c -> S]
    BY <1>4, <2>1
  <2> QED  BY <1>1, <1>4, <2>2
<1>6. ASSUME NEW i \in 1..Len(s), s[i] \notin gone
      PROVE  \E n \in 1..c : w[n] = s[i]
  <2>1. i \in K
    BY <1>6 DEF kept
  <2> DEFINE n == kept_to(s, gone, i)
             A == {j \in K : j <= i}
  <2>2. n \in 1..c
    <3>1. i \in A
      BY <1>1, <2>1
    <3>2. IsFiniteSet(A)
      BY <1>1, FS_Subset
    <3>3. Cardinality(A) # 0
      <4> HIDE DEF A
      <4> QED  BY <3>1, <3>2, FS_EmptySet
    <3>4. n # 0
      BY <3>3 DEF kept_to
    <3> QED  BY <1>1, <2>1, <3>4
  <2>3. at(n) \in K /\ kept_to(s, gone, at(n)) = n
    BY <1>2, <2>2
  <2>4. at(n) = i
    <3> HIDE DEF at
    <3>1. ~(at(n) < i)
      BY <2>1, <2>3, <1>1, KeptRises
    <3>2. ~(i < at(n))
      BY <2>1, <2>3, <1>1, KeptRises
    <3> QED  BY <1>1, <2>1, <2>3, <3>1, <3>2
  <2> QED  BY <1>5, <2>2, <2>4
<1> HIDE DEF K, c, w, at
<1>7. \A n \in 1..c : at(n) \in 1..Len(s) /\ w[n] = s[at(n)] /\ w[n] \notin gone
  BY <1>1, <1>2, <1>3, <1>5
<1>8. \A n, m \in 1..c : at(n) = at(m) => n = m
  BY <1>2
<1> QED  BY <1>5, <1>6, <1>7, <1>8 DEF w, at

-----------------------------------------------------------------------------

(* One channel's batch.                                                    *)

Has(c, e) == \E i \in 1..Len(c.entries) : c.entries[i] = e

(* BatchOK with the ids handed out so far.                                 *)
BatchAt(n, c) ==
  /\ c.cursor <= Len(c.entries)
  /\ \A i \in 1..Len(c.entries) : c.entries[i] <= n
  /\ \A i, j \in 1..Len(c.entries) : c.entries[i] = c.entries[j] => i = j
  /\ \A d \in c.decisions : \E i \in 1..Len(c.entries) : c.entries[i] = d[1]
  /\ \A e \in c.aside : \E i \in 1..Len(c.entries) : c.entries[i] = e

LEMMA BatchIsAt ==
  ASSUME NEW r, NEW c
  PROVE  BatchOK(r, c) <=> BatchAt(r.next_entry, c)
  BY DEF BatchOK, BatchAt

LEMMA ChannelFields ==
  ASSUME NEW c \in Channel
  PROVE  /\ c.named \in BOOLEAN /\ c.tab \in Tab /\ c.policy \in Policy
         /\ c.entries \in Seq(EntryId) /\ Len(c.entries) \in Nat
         /\ c.cursor \in Nat /\ c.gen \in Nat
         /\ c.replaying \in BOOLEAN /\ c.muted \in BOOLEAN /\ c.growing \in BOOLEAN
         /\ c.decisions \in Decisions /\ c.agent \in BOOLEAN /\ c.aside \in SUBSET EntryId
  BY DEF Channel

LEMMA NewChannel ==
  ASSUME NEW named \in BOOLEAN, NEW tab \in Tab, NEW policy \in Policy, NEW muted \in BOOLEAN,
         NEW n
  PROVE  /\ new_channel(named, tab, policy, muted) \in Channel
         /\ BatchAt(n, new_channel(named, tab, policy, muted))
         /\ new_channel(named, tab, policy, muted).muted = muted
<1> DEFINE c == new_channel(named, tab, policy, muted)
<1>1. <<>> \in Seq(EntryId) /\ {} \in Decisions /\ {} \in SUBSET EntryId /\ 0 \in Nat
  BY DEF Decisions
<1>2. c \in Channel
  BY <1>1 DEF new_channel, Channel
<1>3. c.entries = <<>> /\ c.cursor = 0 /\ c.decisions = {} /\ c.aside = {} /\ c.muted = muted
  BY DEF new_channel
<1>4. BatchAt(n, c)
  <2> HIDE DEF c
  <2> QED  BY <1>3 DEF BatchAt
<1> QED  BY <1>2, <1>3, <1>4

LEMMA NotOpenLemma ==
  ASSUME NEW n
  PROVE  /\ NotOpen \in Channel /\ BatchAt(n, NotOpen)
         /\ NotOpen.entries = <<>> /\ NotOpen.cursor = 0 /\ NotOpen.growing = FALSE
         /\ NotOpen.decisions = {} /\ NotOpen.aside = {} /\ NotOpen.muted = FALSE
<1>1. None \in Tab /\ "Latest" \in Policy /\ FALSE \in BOOLEAN
  BY DEF Tab, Policy
<1>2. NotOpen \in Channel /\ BatchAt(n, NotOpen)
  BY <1>1, NewChannel DEF NotOpen
<1> QED  BY <1>2 DEF NotOpen, new_channel

(* A batch with another cursor inside it.                                  *)
LEMMA CursorLemma ==
  ASSUME NEW c \in Channel, NEW d \in Channel, NEW n, BatchAt(n, c),
         d.entries = c.entries, d.decisions = c.decisions, d.aside = c.aside,
         d.cursor <= Len(c.entries)
  PROVE  BatchAt(n, d)
  BY DEF BatchAt

LEMMA ConcatLemma ==
  ASSUME NEW S, NEW s \in Seq(S), NEW t \in Seq(S)
  PROVE  /\ s \o t \in Seq(S) /\ Len(s \o t) = Len(s) + Len(t)
         /\ \A i \in 1..Len(s) : (s \o t)[i] = s[i]
         /\ \A i \in 1..Len(t) : (s \o t)[Len(s) + i] = t[i]
  OBVIOUS

LEMMA InsertLemma ==
  ASSUME NEW S, NEW s \in Seq(S), NEW at \in 0..Len(s), NEW e \in S
  PROVE  /\ insert(s, at, e) \in Seq(S) /\ Len(insert(s, at, e)) = Len(s) + 1
         /\ \A i \in 1..at : insert(s, at, e)[i] = s[i]
         /\ insert(s, at, e)[at + 1] = e
         /\ \A i \in (at + 1)..Len(s) : insert(s, at, e)[i + 1] = s[i]
<1> DEFINE a == SubSeq(s, 1, at)
           b == SubSeq(s, at + 1, Len(s))
           t == a \o <<e>>
<1>1. a \in Seq(S) /\ Len(a) = at /\ \A i \in 1..at : a[i] = s[i]
  OBVIOUS
<1>2. b \in Seq(S) /\ Len(b) = Len(s) - at /\ \A i \in 1..(Len(s) - at) : b[i] = s[at + i]
  OBVIOUS
<1> HIDE DEF a, b
<1>3. t \in Seq(S) /\ Len(t) = at + 1 /\ t[at + 1] = e /\ \A i \in 1..at : t[i] = s[i]
  BY <1>1
<1> DEFINE u == t \o b
<1> HIDE DEF t
<1>4. u \in Seq(S) /\ Len(u) = at + 1 + (Len(s) - at)
      /\ (\A i \in 1..(at + 1) : u[i] = t[i])
      /\ \A i \in 1..(Len(s) - at) : u[at + 1 + i] = b[i]
  <2>1. t \in Seq(S) /\ b \in Seq(S)
    BY <1>2, <1>3
  <2>2. u \in Seq(S) /\ Len(u) = Len(t) + Len(b)
    BY <2>1, ConcatLemma
  <2>3. \A i \in 1..Len(t) : u[i] = t[i]
    BY <2>1, ConcatLemma
  <2>4. \A i \in 1..Len(b) : u[Len(t) + i] = b[i]
    BY <2>1, ConcatLemma
  <2> HIDE DEF u
  <2> QED  BY <1>2, <1>3, <2>2, <2>3, <2>4
<1>5. insert(s, at, e) = u
  BY DEF insert, u, t, a, b
<1> HIDE DEF u
<1>6. \A i \in (at + 1)..Len(s) : u[i + 1] = s[i]
  <2> SUFFICES ASSUME NEW i \in (at + 1)..Len(s) PROVE u[i + 1] = s[i]
    OBVIOUS
  <2> DEFINE k == i - at
  <2>1. k \in 1..(Len(s) - at) /\ at + 1 + k = i + 1 /\ at + k = i
    OBVIOUS
  <2> HIDE DEF k
  <2>2. u[at + 1 + k] = s[at + k]
    BY <1>2, <1>4, <2>1
  <2> QED  BY <2>1, <2>2
<1> QED  BY <1>3, <1>4, <1>5, <1>6

LEMMA PushChannelLemma ==
  ASSUME NEW c \in Channel, NEW n \in Nat, BatchAt(n, c),
         NEW replace \in BOOLEAN, NEW front \in BOOLEAN, NEW reading \in BOOLEAN,
         NEW pushed, pushed = push_channel(c, n + 1, replace, front, reading)
  PROVE  /\ pushed \in Channel /\ BatchAt(n + 1, pushed) /\ pushed.muted = c.muted
         /\ Has(pushed, n + 1)
<1> DEFINE e == n + 1
           b == IF replace \/ (caught_up(c) /\ ~reading /\ ~c.growing)
                THEN [c EXCEPT !.entries = <<>>, !.decisions = {}, !.aside = {}, !.cursor = 0]
                ELSE c
           at == IF front THEN b.cursor ELSE Len(b.entries)
           t == insert(b.entries, at, e)
           p == [b EXCEPT !.entries = t, !.gen = @ + 1, !.replaying = FALSE]
<1>1. b \in Channel /\ BatchAt(n, b) /\ b.muted = c.muted
  <2>1. CASE b = c
    BY <2>1
  <2>2. CASE b # c
    <3>1. b = [c EXCEPT !.entries = <<>>, !.decisions = {}, !.aside = {}, !.cursor = 0]
      BY <2>2
    <3>2. <<>> \in Seq(EntryId) /\ {} \in Decisions /\ {} \in SUBSET EntryId /\ 0 \in Nat
      BY DEF Decisions
    <3> HIDE DEF b
    <3>3. b \in Channel
      BY <3>1, <3>2 DEF Channel
    <3>4. b.entries = <<>> /\ b.decisions = {} /\ b.aside = {} /\ b.cursor = 0 /\ b.muted = c.muted
      BY <3>1 DEF Channel
    <3> QED  BY <3>3, <3>4 DEF BatchAt
  <2> QED  BY <2>1, <2>2
<1>2. push_channel(c, e, replace, front, reading) = p
  BY Zenon DEF push_channel
<1> HIDE DEF b
<1>3. /\ b.entries \in Seq(EntryId) /\ Len(b.entries) \in Nat /\ b.cursor \in Nat /\ b.gen \in Nat
      /\ b.cursor <= Len(b.entries)
      /\ b.decisions \in Decisions /\ b.aside \in SUBSET EntryId
  BY <1>1, ChannelFields DEF BatchAt
<1>4. at \in 0..Len(b.entries) /\ e \in EntryId /\ e \in Nat /\ n < e
  BY <1>3 DEF EntryId
<1> HIDE DEF at, e
<1>5. /\ t \in Seq(EntryId) /\ Len(t) = Len(b.entries) + 1
      /\ \A i \in 1..at : t[i] = b.entries[i]
      /\ t[at + 1] = e
      /\ \A i \in (at + 1)..Len(b.entries) : t[i + 1] = b.entries[i]
  <2> DEFINE x == b.entries
  <2>1. x \in Seq(EntryId) /\ at \in 0..Len(x) /\ e \in EntryId
    BY <1>3, <1>4
  <2> HIDE DEF x
  <2>2. /\ insert(x, at, e) \in Seq(EntryId) /\ Len(insert(x, at, e)) = Len(x) + 1
        /\ insert(x, at, e)[at + 1] = e
    BY <2>1, InsertLemma
  <2>3. \A i \in 1..at : insert(x, at, e)[i] = x[i]
    BY <2>1, InsertLemma
  <2>4. \A i \in (at + 1)..Len(x) : insert(x, at, e)[i + 1] = x[i]
    BY <2>1, InsertLemma
  <2> QED  BY <2>2, <2>3, <2>4 DEF x
<1> HIDE DEF t
<1>6. p \in Channel
  <2>1. b.gen + 1 \in Nat /\ FALSE \in BOOLEAN
    BY <1>3
  <2> QED  BY <1>1, <1>5, <2>1 DEF Channel
<1>7. /\ p.entries = t /\ p.cursor = b.cursor /\ p.muted = b.muted
      /\ p.decisions = b.decisions /\ p.aside = b.aside
  BY <1>1 DEF Channel
<1> HIDE DEF p
<1>8. ASSUME NEW i \in 1..Len(t)
      PROVE  \/ i = at + 1 /\ t[i] = e
             \/ i <= at /\ i \in 1..Len(b.entries) /\ t[i] = b.entries[i]
             \/ i > at + 1 /\ i - 1 \in 1..Len(b.entries) /\ t[i] = b.entries[i - 1]
  <2>1. CASE i <= at
    BY <1>3, <1>4, <1>5, <2>1, SMTT(30)
  <2>2. CASE i > at + 1
    <3>1. i - 1 \in (at + 1)..Len(b.entries) /\ (i - 1) + 1 = i
      BY <1>3, <1>4, <1>5, <2>2
    <3> QED  BY <1>3, <1>4, <1>5, <2>2, <3>1
  <2> QED  BY <1>4, <1>5, <2>1, <2>2
<1>9. \A i \in 1..Len(b.entries) : \E k \in 1..Len(t) : t[k] = b.entries[i]
  <2> SUFFICES ASSUME NEW i \in 1..Len(b.entries)
               PROVE  \E k \in 1..Len(t) : t[k] = b.entries[i]
    OBVIOUS
  <2>1. CASE i <= at
    <3>1. i \in 1..at /\ i \in 1..Len(t)
      BY <1>3, <1>4, <1>5, <2>1
    <3> QED  BY <1>5, <3>1
  <2>2. CASE i > at
    <3>1. i \in (at + 1)..Len(b.entries) /\ i + 1 \in 1..Len(t)
      BY <1>3, <1>4, <1>5, <2>2
    <3> QED  BY <1>5, <3>1
  <2> QED  BY <1>4, <2>1, <2>2
<1>10. \A i \in 1..Len(b.entries) : b.entries[i] \in Nat /\ b.entries[i] <= n
  BY <1>1, <1>3 DEF BatchAt, EntryId
<1>11. ASSUME NEW i \in 1..Len(t) PROVE t[i] <= e
  <2>1. t[i] = e \/ \E k \in 1..Len(b.entries) : t[i] = b.entries[k]
    BY <1>8
  <2> QED  BY <1>4, <1>10, <2>1
<1>12. \A i, j \in 1..Len(b.entries) : b.entries[i] = b.entries[j] => i = j
  BY <1>1 DEF BatchAt
<1>13. \A i, j \in 1..Len(t) : t[i] = t[j] => i = j
  <2> SUFFICES ASSUME NEW i \in 1..Len(t), NEW j \in 1..Len(t), t[i] = t[j] PROVE i = j
    OBVIOUS
  <2>0. i \in Int /\ j \in Int
    BY <1>5
  <2>1. CASE i = at + 1 \/ j = at + 1
    <3>1. \A k \in 1..Len(b.entries) : b.entries[k] # e
      BY <1>4, <1>10
    <3>2. \A k \in 1..Len(t) : k = at + 1 \/ t[k] # e
      <4> SUFFICES ASSUME NEW k \in 1..Len(t), k # at + 1 PROVE t[k] # e
        OBVIOUS
      <4>1. \E l \in 1..Len(b.entries) : t[k] = b.entries[l]
        BY <1>8
      <4> QED  BY <3>1, <4>1
    <3>3. t[at + 1] = e
      BY <1>5
    <3> QED  BY <2>1, <3>2, <3>3
  <2>2. CASE i # at + 1 /\ j # at + 1
    <3>1. CASE i <= at /\ j <= at
      BY <1>4, <1>8, <1>12, <2>0, <3>1
    <3>2. CASE i <= at /\ j > at + 1
      <4>1. i = j - 1
        BY <1>8, <1>12, <1>4, <2>0, <3>2
      <4> QED  BY <1>4, <2>0, <3>2, <4>1
    <3>3. CASE i > at + 1 /\ j <= at
      <4>1. j = i - 1
        BY <1>8, <1>12, <1>4, <2>0, <3>3
      <4> QED  BY <1>4, <2>0, <3>3, <4>1
    <3>4. CASE i > at + 1 /\ j > at + 1
      <4>0. /\ i - 1 \in 1..Len(b.entries) /\ j - 1 \in 1..Len(b.entries)
            /\ t[i] = b.entries[i - 1] /\ t[j] = b.entries[j - 1]
        BY <1>8, <1>4, <2>0, <3>4
      <4>1. i - 1 = j - 1
        BY <1>12, <4>0
      <4> QED  BY <2>0, <4>1
    <3> QED  BY <1>4, <2>0, <2>2, <3>1, <3>2, <3>3, <3>4
  <2> QED  BY <2>1, <2>2
<1>14. (\A d \in b.decisions : \E i \in 1..Len(t) : t[i] = d[1])
       /\ \A x \in b.aside : \E i \in 1..Len(t) : t[i] = x
  <2>1. /\ \A d \in b.decisions : \E i \in 1..Len(b.entries) : b.entries[i] = d[1]
        /\ \A x \in b.aside : \E i \in 1..Len(b.entries) : b.entries[i] = x
    BY <1>1 DEF BatchAt
  <2>2. ASSUME NEW d \in b.decisions PROVE \E i \in 1..Len(t) : t[i] = d[1]
    <3>1. PICK k \in 1..Len(b.entries) : b.entries[k] = d[1]
      BY <2>1
    <3> QED  BY <1>9, <3>1
  <2>3. ASSUME NEW x \in b.aside PROVE \E i \in 1..Len(t) : t[i] = x
    <3>1. PICK k \in 1..Len(b.entries) : b.entries[k] = x
      BY <2>1
    <3> QED  BY <1>9, <3>1
  <2> QED  BY <2>2, <2>3
<1>15. b.cursor <= Len(t)
  BY <1>3, <1>5
<1>16. BatchAt(e, p)
  BY <1>7, <1>11, <1>13, <1>14, <1>15 DEF BatchAt
<1>17. \E i \in 1..Len(t) : t[i] = e
  <2>1. at + 1 \in 1..Len(t)
    BY <1>4, <1>5
  <2> QED  BY <1>5, <2>1
<1> QED  BY <1>1, <1>2, <1>6, <1>7, <1>16, <1>17 DEF e, Has

LEMMA TakenLemma ==
  ASSUME NEW c \in Channel, ~caught_up(c)
  PROVE  /\ taken(c) \in 1..Len(c.entries) /\ taken(c) \in unread(c)
         /\ c.entries[taken(c)] \in EntryId
<1>1. c.cursor \in Nat /\ c.entries \in Seq(EntryId) /\ Len(c.entries) \in Nat
  BY ChannelFields
<1>2. unread(c) \in SUBSET Nat /\ unread(c) \subseteq 1..Len(c.entries) /\ unread(c) # {}
  BY <1>1 DEF unread, caught_up
<1>3. \E i \in unread(c) : \A j \in unread(c) : i <= j
  BY <1>2, LeastNatural
<1>4. taken(c) \in unread(c)
  BY <1>3 DEF taken
<1> QED  BY <1>1, <1>2, <1>4

LEMMA TakeLemma ==
  ASSUME NEW c \in Channel, NEW n, BatchAt(n, c)
  PROVE  take(c) \in Channel /\ BatchAt(n, take(c)) /\ take(c).muted = c.muted
<1> DEFINE k == IF caught_up(c) THEN Len(c.entries) ELSE taken(c)
           d == [c EXCEPT !.cursor = k]
<1>1. k \in Nat /\ k <= Len(c.entries)
  BY TakenLemma, ChannelFields
<1>2. take(c) = d
  BY DEF take
<1> HIDE DEF k
<1>3. d \in Channel /\ d.cursor = k /\ d.entries = c.entries /\ d.muted = c.muted
      /\ d.decisions = c.decisions /\ d.aside = c.aside
  BY <1>1 DEF Channel
<1> HIDE DEF d
<1>4. BatchAt(n, d)
  BY <1>1, <1>3, CursorLemma
<1> QED  BY <1>2, <1>3, <1>4

LEMMA RewindChannelLemma ==
  ASSUME NEW c \in Channel, NEW n, BatchAt(n, c), NEW e
  PROVE  /\ rewind_channel(c, e) \in Channel /\ BatchAt(n, rewind_channel(c, e))
         /\ rewind_channel(c, e).muted = c.muted
         /\ c.cursor = 0 => rewind_channel(c, e) = c
<1>1. CASE c.cursor > 0 /\ c.entries[c.cursor] = e
  <2> DEFINE d == [c EXCEPT !.cursor = @ - 1]
  <2>1. c.cursor - 1 \in Nat /\ c.cursor - 1 <= Len(c.entries) /\ c.cursor # 0
    BY <1>1, ChannelFields DEF BatchAt
  <2>2. d \in Channel /\ d.cursor = c.cursor - 1 /\ d.entries = c.entries /\ d.muted = c.muted
        /\ d.decisions = c.decisions /\ d.aside = c.aside
    BY <2>1 DEF Channel
  <2>3. rewind_channel(c, e) = d
    BY <1>1 DEF rewind_channel
  <2> HIDE DEF d
  <2>4. BatchAt(n, d)
    BY <2>1, <2>2, CursorLemma
  <2> QED  BY <2>1, <2>2, <2>3, <2>4
<1>2. CASE ~(c.cursor > 0 /\ c.entries[c.cursor] = e)
  BY <1>2 DEF rewind_channel
<1> QED  BY <1>1, <1>2

LEMMA DropChannelLemma ==
  ASSUME NEW c \in Channel, NEW n, BatchAt(n, c), NEW which
  PROVE  /\ drop_channel_decisions(c, which) \in Channel
         /\ BatchAt(n, drop_channel_decisions(c, which))
         /\ drop_channel_decisions(c, which).muted = c.muted
<1> DEFINE gone == dropped_decisions(c, which)
           es == c.entries
           k == c.cursor
           a == SubSeq(es, 1, k)
           b == SubSeq(es, k + 1, Len(es))
           read == without(a, gone)
           rest == without(b, gone)
           t == read \o rest
           d == [c EXCEPT !.entries = t, !.cursor = Len(read),
                          !.aside = @ \ gone, !.decisions = {x \in @ : x[1] \notin gone}]
           from(i) == IF i <= Len(read) THEN nth_kept(a, gone, i)
                      ELSE k + nth_kept(b, gone, i - Len(read))
<1>1. es \in Seq(EntryId) /\ Len(es) \in Nat /\ k \in Nat /\ k <= Len(es)
      /\ c.aside \in SUBSET EntryId /\ c.decisions \in Decisions
  BY ChannelFields DEF BatchAt
<1>2. drop_channel_decisions(c, which) = d
  BY Zenon DEF drop_channel_decisions
<1> HIDE DEF gone, es, k
<1>3. a \in Seq(EntryId) /\ Len(a) = k /\ \A i \in 1..k : a[i] = es[i]
  BY <1>1
<1>4. b \in Seq(EntryId) /\ Len(b) = Len(es) - k /\ \A i \in 1..(Len(es) - k) : b[i] = es[k + i]
  BY <1>1
<1> HIDE DEF a, b
<1>5. /\ read \in Seq(EntryId)
      /\ \A i \in 1..Len(read) : /\ nth_kept(a, gone, i) \in 1..Len(a)
                                 /\ read[i] = a[nth_kept(a, gone, i)] /\ read[i] \notin gone
      /\ \A i, j \in 1..Len(read) : nth_kept(a, gone, i) = nth_kept(a, gone, j) => i = j
      /\ \A i \in 1..Len(a) : a[i] \notin gone => \E m \in 1..Len(read) : read[m] = a[i]
  <2>1. a \in Seq(EntryId)
    BY <1>3
  <2>2. read \in Seq(EntryId)
    BY <2>1, WithoutLemma
  <2>3. \A i \in 1..Len(read) : /\ nth_kept(a, gone, i) \in 1..Len(a)
                                 /\ read[i] = a[nth_kept(a, gone, i)] /\ read[i] \notin gone
    BY <2>1, WithoutLemma
  <2>4. \A i, j \in 1..Len(read) : nth_kept(a, gone, i) = nth_kept(a, gone, j) => i = j
    BY <2>1, WithoutLemma
  <2>5. \A i \in 1..Len(a) : a[i] \notin gone => \E m \in 1..Len(read) : read[m] = a[i]
    BY <2>1, WithoutLemma
  <2> HIDE DEF read
  <2> QED  BY <2>2, <2>3, <2>4, <2>5
<1>6. /\ rest \in Seq(EntryId)
      /\ \A i \in 1..Len(rest) : /\ nth_kept(b, gone, i) \in 1..Len(b)
                                 /\ rest[i] = b[nth_kept(b, gone, i)] /\ rest[i] \notin gone
      /\ \A i, j \in 1..Len(rest) : nth_kept(b, gone, i) = nth_kept(b, gone, j) => i = j
      /\ \A i \in 1..Len(b) : b[i] \notin gone => \E m \in 1..Len(rest) : rest[m] = b[i]
  <2>1. b \in Seq(EntryId)
    BY <1>4
  <2>2. rest \in Seq(EntryId)
    BY <2>1, WithoutLemma
  <2>3. \A i \in 1..Len(rest) : /\ nth_kept(b, gone, i) \in 1..Len(b)
                                 /\ rest[i] = b[nth_kept(b, gone, i)] /\ rest[i] \notin gone
    BY <2>1, WithoutLemma
  <2>4. \A i, j \in 1..Len(rest) : nth_kept(b, gone, i) = nth_kept(b, gone, j) => i = j
    BY <2>1, WithoutLemma
  <2>5. \A i \in 1..Len(b) : b[i] \notin gone => \E m \in 1..Len(rest) : rest[m] = b[i]
    BY <2>1, WithoutLemma
  <2> HIDE DEF rest
  <2> QED  BY <2>2, <2>3, <2>4, <2>5
<1> HIDE DEF read, rest
<1>7. t \in Seq(EntryId) /\ Len(t) = Len(read) + Len(rest) /\ Len(read) \in Nat /\ Len(rest) \in Nat
  BY <1>5, <1>6
<1>8. \A i \in 1..Len(read) : t[i] = read[i]
  BY <1>5, <1>6, ConcatLemma
<1>9. \A i \in 1..Len(rest) : t[Len(read) + i] = rest[i]
  BY <1>5, <1>6, ConcatLemma
<1>10. d \in Channel
  <2>1. c.aside \ gone \in SUBSET EntryId /\ {x \in c.decisions : x[1] \notin gone} \in Decisions
    BY <1>1 DEF Decisions
  <2> HIDE DEF t
  <2> QED  BY <1>7, <2>1 DEF Channel
<1>11. /\ d.entries = t /\ d.cursor = Len(read) /\ d.aside = c.aside \ gone /\ d.muted = c.muted
       /\ d.decisions = {x \in c.decisions : x[1] \notin gone}
  BY DEF Channel
<1> HIDE DEF d, t
<1>12. ASSUME NEW i \in 1..Len(t)
       PROVE  /\ from(i) \in 1..Len(es) /\ t[i] = es[from(i)]
              /\ (i <= Len(read) <=> from(i) <= k)
  <2>1. CASE i <= Len(read)
    <3>1. i \in 1..Len(read) /\ from(i) = nth_kept(a, gone, i)
      BY <1>7, <2>1
    <3>2. from(i) \in 1..k /\ read[i] = a[from(i)]
      BY <1>3, <1>5, <3>1
    <3> HIDE DEF from
    <3>3. read[i] = es[from(i)] /\ t[i] = read[i]
      BY <1>3, <1>8, <3>1, <3>2
    <3> QED  BY <1>1, <2>1, <3>2, <3>3
  <2>2. CASE ~(i <= Len(read))
    <3> DEFINE j == i - Len(read)
               q == nth_kept(b, gone, j)
    <3>1. j \in 1..Len(rest) /\ Len(read) + j = i
      BY <1>7, <2>2
    <3>2. from(i) = k + q
      BY <2>2
    <3> HIDE DEF from, j
    <3>3. q \in 1..(Len(es) - k) /\ rest[j] = b[q]
      BY <1>4, <1>6, <3>1
    <3> HIDE DEF q
    <3>4. t[i] = rest[j] /\ b[q] = es[k + q]
      BY <1>4, <1>9, <3>1, <3>3
    <3> QED  BY <1>1, <2>2, <3>2, <3>3, <3>4
  <2> QED  BY <2>1, <2>2
<1>13. ASSUME NEW i \in 1..Len(t), NEW j \in 1..Len(t), from(i) = from(j) PROVE i = j
  <2>1. i <= Len(read) <=> j <= Len(read)
    <3>1. (i <= Len(read) <=> from(i) <= k) /\ (j <= Len(read) <=> from(j) <= k)
      BY <1>12
    <3> HIDE DEF from
    <3> QED  BY <1>13, <3>1
  <2>2. CASE i <= Len(read)
    <3>1. i \in 1..Len(read) /\ j \in 1..Len(read)
      BY <1>7, <2>1, <2>2
    <3>2. nth_kept(a, gone, i) = nth_kept(a, gone, j)
      BY <1>13, <2>1, <2>2
    <3> QED  BY <1>5, <3>1, <3>2
  <2>3. CASE ~(i <= Len(read))
    <3> DEFINE p == i - Len(read)
               q == j - Len(read)
    <3>1. p \in 1..Len(rest) /\ q \in 1..Len(rest)
      BY <1>7, <2>1, <2>3
    <3>2. k + nth_kept(b, gone, p) = k + nth_kept(b, gone, q)
      BY <1>13, <2>1, <2>3
    <3>3. nth_kept(b, gone, p) \in Int /\ nth_kept(b, gone, q) \in Int
      BY <1>4, <1>1, <1>6, <3>1
    <3>4. nth_kept(b, gone, p) = nth_kept(b, gone, q)
      BY <1>1, <3>2, <3>3
    <3>5. p = q
      <4> HIDE DEF p, q
      <4> QED  BY <1>6, <3>1, <3>4
    <3> QED  BY <1>7, <3>5
  <2> QED  BY <2>2, <2>3
<1>14. ASSUME NEW i \in 1..Len(es), es[i] \notin gone PROVE \E m \in 1..Len(t) : t[m] = es[i]
  <2>1. CASE i <= k
    <3>1. i \in 1..Len(a) /\ a[i] = es[i]
      BY <1>1, <1>3, <2>1
    <3>2. PICK m \in 1..Len(read) : read[m] = a[i]
      BY <1>5, <1>14, <3>1
    <3>3. m \in 1..Len(t) /\ t[m] = read[m]
      BY <1>7, <1>8, <3>2
    <3> QED  BY <3>1, <3>2, <3>3
  <2>2. CASE i > k
    <3> DEFINE j == i - k
    <3>1. j \in 1..(Len(es) - k) /\ k + j = i
      BY <1>1, <2>2
    <3> HIDE DEF j
    <3>2. b[j] = es[i] /\ j \in 1..Len(b)
      BY <1>4, <3>1
    <3>3. PICK m \in 1..Len(rest) : rest[m] = b[j]
      BY <1>6, <1>14, <3>2
    <3>4. Len(read) + m \in 1..Len(t) /\ t[Len(read) + m] = rest[m]
      BY <1>7, <1>9, <3>3
    <3> QED  BY <3>2, <3>3, <3>4
  <2> QED  BY <1>1, <2>1, <2>2
<1>15. /\ \A i \in 1..Len(es) : es[i] <= n
       /\ \A i, j \in 1..Len(es) : es[i] = es[j] => i = j
       /\ \A x \in c.decisions : \E i \in 1..Len(es) : es[i] = x[1]
       /\ \A e \in c.aside : \E i \in 1..Len(es) : es[i] = e
  BY DEF BatchAt, es
<1>16. \A i \in 1..Len(t) : t[i] <= n
  <2> HIDE DEF from
  <2> QED  BY <1>12, <1>15
<1>17. \A i, j \in 1..Len(t) : t[i] = t[j] => i = j
  <2> HIDE DEF from
  <2> SUFFICES ASSUME NEW i \in 1..Len(t), NEW j \in 1..Len(t), t[i] = t[j] PROVE i = j
    OBVIOUS
  <2>1. from(i) = from(j)
    <3>1. from(i) \in 1..Len(es) /\ from(j) \in 1..Len(es) /\ t[i] = es[from(i)] /\ t[j] = es[from(j)]
      BY <1>12
    <3>2. \A x, y \in 1..Len(es) : es[x] = es[y] => x = y
      BY <1>15
    <3> HIDE DEF from
    <3> QED  BY <3>1, <3>2
  <2> QED  BY <1>13, <2>1
<1>18. \A x \in d.decisions : \E i \in 1..Len(t) : t[i] = x[1]
  <2> SUFFICES ASSUME NEW x \in c.decisions, x[1] \notin gone
               PROVE  \E i \in 1..Len(t) : t[i] = x[1]
    BY <1>11
  <2>1. PICK i \in 1..Len(es) : es[i] = x[1]
    BY <1>15
  <2> QED  BY <1>14, <2>1
<1>19. \A e \in d.aside : \E i \in 1..Len(t) : t[i] = e
  <2> SUFFICES ASSUME NEW e \in c.aside, e \notin gone
               PROVE  \E i \in 1..Len(t) : t[i] = e
    BY <1>11
  <2>1. PICK i \in 1..Len(es) : es[i] = e
    BY <1>15
  <2> QED  BY <1>14, <2>1
<1>20. Len(read) <= Len(t)
  BY <1>7
<1>21. BatchAt(n, d)
  BY <1>11, <1>16, <1>17, <1>18, <1>19, <1>20 DEF BatchAt
<1> QED  BY <1>2, <1>10, <1>11, <1>21

-----------------------------------------------------------------------------
(* The router's record.                                                    *)

LEMMA RouterFields ==
  ASSUME NEW r \in RouterType
  PROVE  /\ r.order \in Seq(Ids) /\ Len(r.order) \in Nat /\ r.ch \in [Ids -> Channel]
         /\ r.next_entry \in Nat /\ r.active \in Ids \cup {None}
         /\ r.last_active \in Ids \cup {None} /\ r.last_reader \in Ids \cup {None}
         /\ r.closed_reader_tab \in Tab /\ r.focus \in Ids \cup {None}
         /\ r.announce \in Switch \cup {None} /\ r.reading \in (Ids \X EntryId) \cup {None}
         /\ r.suppressed \in SUBSET (Ids \X Nat) /\ r.priority \in Seq(Ids)
         /\ r.hold \in (Ids \X Nat) \cup {None} /\ r.muted \in SUBSET Ids
         /\ r.focus_only \in BOOLEAN /\ r.authorized \in SUBSET Ids /\ r.fed \in Feed \cup {None}
  BY DEF RouterType

(* The record's type with its fields' sets left open, and the record with  *)
(* the same fields.                                                        *)
Fields(Q, Ch, Ref, Tb, Sw, Rd, Su, Ho, Mu, Fe) ==
  [order : Q, ch : Ch, next_entry : Nat, active : Ref, last_active : Ref,
   last_reader : Ref, closed_reader_tab : Tb, focus : Ref, announce : Sw,
   reading : Rd, suppressed : Su, priority : Q, hold : Ho, muted : Mu,
   focus_only : BOOLEAN, authorized : Mu, fed : Fe]

Shaped(s) ==
  s = [order |-> s.order, ch |-> s.ch, next_entry |-> s.next_entry, active |-> s.active,
       last_active |-> s.last_active, last_reader |-> s.last_reader,
       closed_reader_tab |-> s.closed_reader_tab, focus |-> s.focus,
       announce |-> s.announce, reading |-> s.reading, suppressed |-> s.suppressed,
       priority |-> s.priority, hold |-> s.hold, muted |-> s.muted,
       focus_only |-> s.focus_only, authorized |-> s.authorized, fed |-> s.fed]

LEMMA RouterMade ==
  ASSUME NEW s, Shaped(s),
         s.order \in Seq(Ids), s.ch \in [Ids -> Channel], s.next_entry \in Nat,
         s.active \in Ids \cup {None}, s.last_active \in Ids \cup {None},
         s.last_reader \in Ids \cup {None}, s.closed_reader_tab \in Tab,
         s.focus \in Ids \cup {None}, s.announce \in Switch \cup {None},
         s.reading \in (Ids \X EntryId) \cup {None},
         s.suppressed \in SUBSET (Ids \X Nat), s.priority \in Seq(Ids),
         s.hold \in (Ids \X Nat) \cup {None}, s.muted \in SUBSET Ids,
         s.focus_only \in BOOLEAN, s.authorized \in SUBSET Ids, s.fed \in Feed \cup {None}
  PROVE  s \in RouterType
<1> DEFINE Q == Seq(Ids)
           Ch == [Ids -> Channel]
           Ref == Ids \cup {None}
           Sw == Switch \cup {None}
           Rd == (Ids \X EntryId) \cup {None}
           Su == SUBSET (Ids \X Nat)
           Ho == (Ids \X Nat) \cup {None}
           Mu == SUBSET Ids
           Fe == Feed \cup {None}
<1>1. RouterType = Fields(Q, Ch, Ref, Tab, Sw, Rd, Su, Ho, Mu, Fe)
  BY DEF RouterType, Fields
<1>2. /\ s.order \in Q /\ s.ch \in Ch /\ s.active \in Ref /\ s.last_active \in Ref
      /\ s.last_reader \in Ref /\ s.focus \in Ref /\ s.announce \in Sw /\ s.reading \in Rd
      /\ s.suppressed \in Su /\ s.priority \in Q /\ s.authorized \in Mu /\ s.hold \in Ho
      /\ s.muted \in Mu /\ s.fed \in Fe
  OBVIOUS
<1> HIDE DEF Q, Ch, Ref, Sw, Rd, Su, Ho, Mu, Fe
<1>3. s \in Fields(Q, Ch, Ref, Tab, Sw, Rd, Su, Ho, Mu, Fe)
  BY <1>2 DEF Fields, Shaped
<1> QED  BY <1>1, <1>3

(* The fields that say who has the floor, and the others that name         *)
(* channels.                                                               *)
SameFloor(r, s) ==
  /\ s.active = r.active /\ s.last_active = r.last_active /\ s.last_reader = r.last_reader
  /\ s.closed_reader_tab = r.closed_reader_tab /\ s.announce = r.announce /\ s.hold = r.hold

SameRefs(r, s) ==
  /\ s.focus = r.focus /\ s.reading = r.reading /\ s.suppressed = r.suppressed
  /\ s.priority = r.priority /\ s.authorized = r.authorized

(* What is said of channels and batches.                                   *)
SameBody(r, s) ==
  /\ s.order = r.order /\ s.ch = r.ch /\ s.muted = r.muted /\ s.next_entry = r.next_entry

LEMMA RefsFrame ==
  ASSUME NEW r, NEW s, RefsOK(r), s.order = r.order, SameFloor(r, s), SameRefs(r, s)
  PROVE  RefsOK(s)
  BY DEF RefsOK, Refers, is_open, SameFloor, SameRefs

LEMMA FloorFrame ==
  ASSUME NEW r, NEW s, FloorOK(r), SameFloor(r, s)
  PROVE  FloorOK(s)
  BY DEF FloorOK, SameFloor

LEMMA BodyFrame ==
  ASSUME NEW r, NEW s, OpenOK(r), BatchesOK(r), SameBody(r, s)
  PROVE  OpenOK(s) /\ BatchesOK(s)
  BY DEF OpenOK, BatchesOK, BatchOK, is_open, SameBody

(* A call that changes references only.                                    *)
LEMMA RefsSet ==
  ASSUME NEW r, RouterOK(r), NEW s, s \in RouterType, SameBody(r, s), RefsOK(s), FloorOK(s)
  PROVE  RouterOK(s)
  BY BodyFrame DEF RouterOK

(* A call that changes one channel, and may hand out ids.                  *)
LEMMA ChannelSet ==
  ASSUME NEW r, RouterOK(r), NEW s, s \in RouterType, NEW id \in Ids, NEW c \in Channel,
         s.order = r.order, s.muted = r.muted, SameFloor(r, s), SameRefs(r, s),
         s.ch = [r.ch EXCEPT ![id] = c], r.next_entry <= s.next_entry,
         BatchAt(s.next_entry, c), c.muted = r.ch[id].muted, is_open(r, id) \/ c = r.ch[id]
  PROVE  RouterOK(s)
<1>1. r \in RouterType /\ RefsOK(r) /\ FloorOK(r) /\ OpenOK(r) /\ BatchesOK(r)
  BY DEF RouterOK
<1>2. RefsOK(s) /\ FloorOK(s)
  BY <1>1, RefsFrame, FloorFrame
<1>3. r.ch \in [Ids -> Channel] /\ r.next_entry \in Nat /\ s.next_entry \in Nat
  BY <1>1, RouterFields
<1>4. \A x \in Ids : is_open(s, x) <=> is_open(r, x)
  BY DEF is_open
<1>5. s.ch[id] = c /\ \A x \in Ids : x # id => s.ch[x] = r.ch[x]
  BY <1>3
<1>6. OpenOK(s)
  <2>1. \A i, j \in 1..Len(s.order) : s.order[i] = s.order[j] => i = j
    BY <1>1 DEF OpenOK
  <2>2. ASSUME NEW x \in Ids
        PROVE  IF is_open(s, x) THEN s.ch[x].muted = (x \in s.muted) ELSE s.ch[x] = NotOpen
    <3>1. IF is_open(r, x) THEN r.ch[x].muted = (x \in r.muted) ELSE r.ch[x] = NotOpen
      BY <1>1 DEF OpenOK
    <3>2. s.ch[x].muted = r.ch[x].muted /\ (is_open(r, x) \/ s.ch[x] = r.ch[x])
      BY <1>5
    <3> QED  BY <1>4, <3>1, <3>2
  <2> QED  BY <2>1, <2>2 DEF OpenOK
<1>7. BatchesOK(s)
  <2> SUFFICES ASSUME NEW x \in Ids PROVE BatchAt(s.next_entry, s.ch[x])
    BY BatchIsAt DEF BatchesOK
  <2>1. CASE x = id
    BY <1>5, <2>1
  <2>2. CASE x # id
    <3>1. BatchAt(r.next_entry, r.ch[x])
      BY <1>1, BatchIsAt DEF BatchesOK
    <3>2. r.ch[x].entries \in Seq(EntryId) /\ s.ch[x] = r.ch[x]
      BY <1>3, <1>5, <2>2, ChannelFields
    <3>3. \A i \in 1..Len(r.ch[x].entries) : r.ch[x].entries[i] \in Nat
      BY <3>2 DEF EntryId
    <3>4. \A i \in 1..Len(r.ch[x].entries) : r.ch[x].entries[i] <= s.next_entry
      BY <1>3, <3>1, <3>3 DEF BatchAt
    <3> QED  BY <3>1, <3>2, <3>4 DEF BatchAt
  <2> QED  BY <2>1, <2>2
<1> QED  BY <1>2, <1>6, <1>7 DEF RouterOK

LEMMA SetChannel ==
  ASSUME NEW r, RouterOK(r), NEW id \in Ids, NEW c \in Channel,
         BatchAt(r.next_entry, c), c.muted = r.ch[id].muted, is_open(r, id) \/ c = r.ch[id]
  PROVE  RouterOK([r EXCEPT !.ch[id] = c])
<1> DEFINE s == [r EXCEPT !.ch[id] = c]
<1>1. r \in RouterType /\ r.ch \in [Ids -> Channel] /\ r.next_entry \in Nat
  BY RouterFields DEF RouterOK
<1>2. s \in RouterType
  <2> DEFINE f == [r.ch EXCEPT ![id] = c]
  <2>1. f \in [Ids -> Channel]
    BY <1>1
  <2>2. s = [r EXCEPT !.ch = f]
    BY <1>1 DEF RouterType
  <2> HIDE DEF f, s
  <2> QED  BY <1>1, <2>1, <2>2, ZenonT(60) DEF RouterType
<1>3. /\ s.order = r.order /\ s.muted = r.muted /\ s.next_entry = r.next_entry
      /\ s.ch = [r.ch EXCEPT ![id] = c]
  BY <1>1 DEF RouterType
<1>4. SameFloor(r, s) /\ SameRefs(r, s)
  BY <1>1 DEF RouterType, SameFloor, SameRefs
<1> HIDE DEF s
<1>5. RouterOK(s)
  BY <1>1, <1>2, <1>3, <1>4, ChannelSet
<1> QED  BY <1>5 DEF s

LEMMA ChannelAt ==
  ASSUME NEW r, RouterOK(r), NEW id \in Ids
  PROVE  /\ r \in RouterType /\ r.ch \in [Ids -> Channel] /\ r.ch[id] \in Channel
         /\ r.next_entry \in Nat /\ BatchAt(r.next_entry, r.ch[id])
         /\ ~is_open(r, id) => r.ch[id] = NotOpen
         /\ is_open(r, id) => r.ch[id].muted = (id \in r.muted)
<1>1. r \in RouterType /\ OpenOK(r) /\ BatchesOK(r)
  BY DEF RouterOK
<1>2. r.ch \in [Ids -> Channel] /\ r.next_entry \in Nat
  BY <1>1, RouterFields
<1> QED  BY <1>1, <1>2, BatchIsAt DEF OpenOK, BatchesOK

-----------------------------------------------------------------------------
(* Calls that change one channel.                                          *)

LEMMA LabelLemma ==
  ASSUME NEW r, RouterOK(r), NEW id \in Ids
  PROVE  RouterOK(label_if_missing(r, id))
<1>1. CASE ~is_open(r, id)
  BY <1>1 DEF label_if_missing
<1>2. CASE is_open(r, id)
  <2> DEFINE c == [r.ch[id] EXCEPT !.named = TRUE]
  <2>1. r.ch[id] \in Channel /\ BatchAt(r.next_entry, r.ch[id]) /\ r \in RouterType
        /\ r.ch \in [Ids -> Channel]
    BY ChannelAt
  <2>2. /\ c \in Channel /\ c.entries = r.ch[id].entries /\ c.cursor = r.ch[id].cursor
        /\ c.decisions = r.ch[id].decisions /\ c.aside = r.ch[id].aside
        /\ c.muted = r.ch[id].muted
    BY <2>1 DEF Channel
  <2>3. label_if_missing(r, id) = [r EXCEPT !.ch[id] = c]
    BY <1>2, <2>1 DEF label_if_missing
  <2> HIDE DEF c
  <2>4. BatchAt(r.next_entry, c)
    BY <2>1, <2>2 DEF BatchAt
  <2> QED  BY <1>2, <2>2, <2>3, <2>4, SetChannel
<1> QED  BY <1>1, <1>2

LEMMA EndBatchLemma ==
  ASSUME NEW r, RouterOK(r), NEW id \in Ids
  PROVE  RouterOK(end_batch(r, id))
<1> DEFINE c == [r.ch[id] EXCEPT !.growing = FALSE]
<1>1. r.ch[id] \in Channel /\ BatchAt(r.next_entry, r.ch[id]) /\ r \in RouterType
      /\ r.ch \in [Ids -> Channel]
  BY ChannelAt
<1>2. /\ c \in Channel /\ c.entries = r.ch[id].entries /\ c.cursor = r.ch[id].cursor
      /\ c.decisions = r.ch[id].decisions /\ c.aside = r.ch[id].aside
      /\ c.muted = r.ch[id].muted /\ (r.ch[id].growing = FALSE => c = r.ch[id])
  BY <1>1 DEF Channel
<1>3. end_batch(r, id) = [r EXCEPT !.ch[id] = c]
  BY <1>1 DEF end_batch
<1>4. is_open(r, id) \/ r.ch[id].growing = FALSE
  BY ChannelAt, NotOpenLemma
<1> HIDE DEF c
<1>5. BatchAt(r.next_entry, c)
  BY <1>1, <1>2 DEF BatchAt
<1> QED  BY <1>2, <1>3, <1>4, <1>5, SetChannel

LEMMA RewindLemma ==
  ASSUME NEW r, RouterOK(r), NEW id \in Ids, NEW e
  PROVE  RouterOK(rewind(r, id, e))
<1> DEFINE c == rewind_channel(r.ch[id], e)
<1>1. r.ch[id] \in Channel /\ BatchAt(r.next_entry, r.ch[id]) /\ r \in RouterType
      /\ r.ch \in [Ids -> Channel]
  BY ChannelAt
<1>2. c \in Channel /\ BatchAt(r.next_entry, c) /\ c.muted = r.ch[id].muted
      /\ (r.ch[id].cursor = 0 => c = r.ch[id])
  BY <1>1, RewindChannelLemma
<1>3. is_open(r, id) \/ r.ch[id].cursor = 0
  BY ChannelAt, NotOpenLemma
<1> HIDE DEF c
<1>4. RouterOK([r EXCEPT !.ch[id] = c])
  BY <1>2, <1>3, SetChannel
<1> QED  BY <1>4 DEF rewind, c

LEMMA DropLemma ==
  ASSUME NEW r, RouterOK(r), NEW id \in Ids, NEW which
  PROVE  RouterOK(drop_decisions(r, id, which))
<1>1. CASE ~is_open(r, id)
  BY <1>1 DEF drop_decisions
<1>2. CASE is_open(r, id)
  <2> DEFINE c == drop_channel_decisions(r.ch[id], which)
  <2>1. r.ch[id] \in Channel /\ BatchAt(r.next_entry, r.ch[id])
    BY ChannelAt
  <2>2. c \in Channel /\ BatchAt(r.next_entry, c) /\ c.muted = r.ch[id].muted
    BY <2>1, DropChannelLemma
  <2> HIDE DEF c
  <2>3. RouterOK([r EXCEPT !.ch[id] = c])
    BY <1>2, <2>2, SetChannel
  <2> QED  BY <1>2, <2>3 DEF drop_decisions, c
<1> QED  BY <1>1, <1>2

LEMMA AsideLemma ==
  ASSUME NEW r, RouterOK(r), NEW id \in Ids, NEW e, NEW aside \in BOOLEAN
  PROVE  RouterOK(set_aside(r, id, e, aside))
<1>1. CASE ~has_entry(r, id, e)
  BY <1>1 DEF set_aside
<1>2. CASE has_entry(r, id, e)
  <2> DEFINE a == IF aside THEN r.ch[id].aside \cup {e} ELSE r.ch[id].aside \ {e}
             c == [r.ch[id] EXCEPT !.aside = a]
  <2>1. r.ch[id] \in Channel /\ BatchAt(r.next_entry, r.ch[id]) /\ r \in RouterType
        /\ r.ch \in [Ids -> Channel] /\ r.ch[id].entries \in Seq(EntryId)
        /\ r.ch[id].aside \in SUBSET EntryId
    BY ChannelAt, ChannelFields
  <2>2. PICK i \in 1..Len(r.ch[id].entries) : r.ch[id].entries[i] = e
    BY <1>2 DEF has_entry
  <2>3. e \in EntryId /\ a \in SUBSET EntryId
    BY <2>1, <2>2
  <2>4. set_aside(r, id, e, aside) = [r EXCEPT !.ch[id] = c]
    BY <1>2, <2>1 DEF set_aside
  <2>5. \A x \in a : \E k \in 1..Len(r.ch[id].entries) : r.ch[id].entries[k] = x
    BY <2>1, <2>2 DEF BatchAt
  <2> HIDE DEF a
  <2>6. /\ c \in Channel /\ c.entries = r.ch[id].entries /\ c.cursor = r.ch[id].cursor
        /\ c.decisions = r.ch[id].decisions /\ c.aside = a
        /\ c.muted = r.ch[id].muted
    BY <2>1, <2>3 DEF Channel
  <2> HIDE DEF c
  <2>7. BatchAt(r.next_entry, c)
    BY <2>1, <2>5, <2>6 DEF BatchAt
  <2>8. is_open(r, id)
    <3>1. ~is_open(r, id) => r.ch[id].entries = <<>>
      BY ChannelAt, NotOpenLemma
    <3> QED  BY <2>2, <3>1
  <2> QED  BY <2>4, <2>6, <2>7, <2>8, SetChannel
<1> QED  BY <1>1, <1>2

WithNext(r, id, c, n) == [r EXCEPT !.ch[id] = c, !.next_entry = n]

LEMMA SetChannelNext ==
  ASSUME NEW r, RouterOK(r), NEW id \in Ids, NEW c \in Channel, NEW n \in Nat, r.next_entry <= n,
         BatchAt(n, c), c.muted = r.ch[id].muted, is_open(r, id)
  PROVE  /\ RouterOK(WithNext(r, id, c, n)) /\ is_open(WithNext(r, id, c, n), id)
         /\ WithNext(r, id, c, n).ch[id] = c /\ WithNext(r, id, c, n).next_entry = n
<1> DEFINE f == [r.ch EXCEPT ![id] = c]
           s == WithNext(r, id, c, n)
<1>1. r \in RouterType /\ r.ch \in [Ids -> Channel] /\ r.next_entry \in Nat
  BY RouterFields DEF RouterOK
<1>2. f \in [Ids -> Channel] /\ f[id] = c
  BY <1>1
<1>3. s = [r EXCEPT !.ch = f, !.next_entry = n]
  BY <1>1 DEF RouterType, WithNext
<1> HIDE DEF f, s
<1>4. s \in RouterType
  BY <1>1, <1>2, <1>3, ZenonT(60) DEF RouterType
<1>5. s.order = r.order /\ s.muted = r.muted /\ s.next_entry = n /\ s.ch = f
  BY <1>1, <1>3 DEF RouterType
<1>6. SameFloor(r, s) /\ SameRefs(r, s)
  BY <1>1, <1>3 DEF RouterType, SameFloor, SameRefs
<1>7. s.ch = [r.ch EXCEPT ![id] = c] /\ s.ch[id] = c
  BY <1>2, <1>5 DEF f
<1>8. RouterOK(s)
  BY <1>1, <1>4, <1>5, <1>6, <1>7, ChannelSet
<1>9. is_open(s, id)
  BY <1>5 DEF is_open
<1> QED  BY <1>5, <1>7, <1>8, <1>9 DEF s

LEMMA PushLemma ==
  ASSUME NEW r, RouterOK(r), NEW id \in Ids, NEW replace \in BOOLEAN, NEW front \in BOOLEAN
  PROVE  /\ RouterOK(push_with(r, id, replace, front))
         /\ is_open(r, id) =>
              /\ is_open(push_with(r, id, replace, front), id)
              /\ push_with(r, id, replace, front).next_entry = r.next_entry + 1
              /\ has_entry(push_with(r, id, replace, front), id, r.next_entry + 1)
<1>1. CASE ~is_open(r, id)
  BY <1>1 DEF push_with
<1>2. CASE is_open(r, id)
  <2> DEFINE m == r.next_entry
             n == m + 1
             b == r.ch[id]
             reading == is_reading(r, id)
             c == push_channel(b, n, replace, front, reading)
  <2>1. r.ch[id] \in Channel /\ BatchAt(r.next_entry, r.ch[id]) /\ r.next_entry \in Nat
        /\ r \in RouterType /\ r.ch \in [Ids -> Channel]
    BY ChannelAt
  <2>2. reading \in BOOLEAN
    BY Zenon DEF is_reading
  <2> HIDE DEF reading
  <2>3. /\ c \in Channel /\ BatchAt(n, c) /\ c.muted = r.ch[id].muted
        /\ \E i \in 1..Len(c.entries) : c.entries[i] = n
    <3>1. c = push_channel(b, m + 1, replace, front, reading) /\ b \in Channel /\ m \in Nat
          /\ BatchAt(m, b)
      BY <2>1
    <3> HIDE DEF c, b, m
    <3>2. c \in Channel /\ BatchAt(m + 1, c) /\ c.muted = b.muted /\ Has(c, m + 1)
      BY <2>2, <3>1, PushChannelLemma
    <3> QED  BY <3>2 DEF b, Has
  <2>4. n \in Nat /\ r.next_entry <= n
    BY <2>1
  <2>5. push_with(r, id, replace, front) = WithNext(r, id, c, n)
    BY <1>2, <2>1 DEF push_with, reading, RouterType, WithNext
  <2> HIDE DEF c, n, b, m
  <2> DEFINE s == WithNext(r, id, c, n)
  <2>6. RouterOK(s) /\ s.ch[id] = c /\ s.next_entry = n /\ is_open(s, id)
    BY <1>2, <2>3, <2>4, SetChannelNext
  <2> HIDE DEF s
  <2>7. has_entry(s, id, n)
    BY <2>3, <2>6 DEF has_entry
  <2> QED  BY <2>5, <2>6, <2>7 DEF s, n, m
<1> QED  BY <1>1, <1>2

LEMMA AppendLemma ==
  ASSUME NEW r, RouterOK(r), NEW id \in Ids, NEW decision \in BOOLEAN, NEW heard \in BOOLEAN
  PROVE  RouterOK(append(r, id, decision, heard))
<1>1. CASE ~is_open(r, id)
  BY <1>1 DEF append
<1>2. CASE is_open(r, id)
  <2> DEFINE passed == heard /\ ~(~caught_up(r.ch[id]) \/ is_reading(r, id))
             s == push_with(r, id, FALSE, FALSE)
             b == s.ch[id]
             e == s.next_entry
             ds == IF decision THEN b.decisions \cup {<<e, heard>>} ELSE b.decisions
             k == IF passed THEN Len(b.entries) ELSE b.cursor
             c == grown(b, e, decision, heard, passed)
  <2>1. RouterOK(s) /\ is_open(s, id) /\ e = r.next_entry + 1 /\ has_entry(s, id, r.next_entry + 1)
    BY <1>2, PushLemma
  <2>2. append(r, id, decision, heard) = [s EXCEPT !.ch[id] = c]
    BY <1>2 DEF append
  <2> HIDE DEF s, passed
  <2>3. /\ b \in Channel /\ BatchAt(e, b) /\ s \in RouterType /\ s.ch \in [Ids -> Channel]
        /\ e \in Nat
    BY <2>1, ChannelAt
  <2>4. /\ b.entries \in Seq(EntryId) /\ Len(b.entries) \in Nat /\ b.cursor \in Nat
        /\ b.decisions \in Decisions
    BY <2>3, ChannelFields
  <2>5. PICK i \in 1..Len(b.entries) : b.entries[i] = e
    BY <2>1 DEF has_entry
  <2>6. e \in EntryId
    BY <2>4, <2>5
  <2>7. ds \in Decisions /\ k \in Nat /\ k <= Len(b.entries)
    BY <2>3, <2>4, <2>6 DEF Decisions, BatchAt
  <2>8. \A d \in ds : \E j \in 1..Len(b.entries) : b.entries[j] = d[1]
    <3>1. \A d \in b.decisions : \E j \in 1..Len(b.entries) : b.entries[j] = d[1]
      BY <2>3 DEF BatchAt
    <3> QED  BY <2>5, <3>1
  <2> HIDE DEF b, e
  <2>9. /\ c.entries = b.entries /\ c.cursor = k /\ c.decisions = ds
        /\ c.aside = b.aside /\ c.muted = b.muted
    BY <2>3 DEF Channel, grown
  <2>10. c \in Channel
    <3>1. c = [b EXCEPT !.growing = TRUE, !.agent = TRUE, !.decisions = ds, !.cursor = k]
      BY <2>3 DEF Channel, grown
    <3> HIDE DEF c, ds, k
    <3> QED  BY <2>3, <2>7, <3>1, TRUE \in BOOLEAN DEF Channel
  <2> HIDE DEF c, ds, k
  <2>11. BatchAt(e, c)
    BY <2>3, <2>7, <2>8, <2>9 DEF BatchAt
  <2>12. RouterOK([s EXCEPT !.ch[id] = c])
    BY <2>1, <2>9, <2>10, <2>11, SetChannel DEF b, e
  <2> QED  BY <2>2, <2>12
<1> QED  BY <1>1, <1>2

LEMMA OpenAgainLemma ==
  ASSUME NEW r, RouterOK(r), NEW id \in Ids, is_open(r, id),
         NEW named \in BOOLEAN, NEW tab \in Tab, NEW policy \in Policy \cup {None}
  PROVE  RouterOK(open(r, id, named, tab, policy))
<1> DEFINE b == r.ch[id]
           p == IF policy = None THEN b.policy ELSE policy
           c == relabel(b, named, tab, policy)
<1>1. b \in Channel /\ BatchAt(r.next_entry, b) /\ r \in RouterType /\ r.ch \in [Ids -> Channel]
  BY ChannelAt
<1>2. p \in Policy
  BY <1>1, ChannelFields
<1>3. open(r, id, named, tab, policy) = [r EXCEPT !.ch[id] = c]
  BY Zenon DEF open
<1> HIDE DEF b
<1>4. /\ c \in Channel /\ c.entries = b.entries /\ c.cursor = b.cursor
      /\ c.decisions = b.decisions /\ c.aside = b.aside /\ c.muted = b.muted
  <2>1. c = [b EXCEPT !.named = named, !.tab = tab, !.policy = p]
    BY <1>1 DEF Channel, relabel
  <2> HIDE DEF c, p
  <2> QED  BY <1>1, <1>2, <2>1 DEF Channel
<1> HIDE DEF c
<1>5. BatchAt(r.next_entry, c)
  BY <1>1, <1>4 DEF BatchAt
<1> QED  BY <1>3, <1>4, <1>5, SetChannel DEF b

LEMMA OpenNewLemma ==
  ASSUME NEW r, RouterOK(r), NEW id \in Ids, ~is_open(r, id),
         NEW named \in BOOLEAN, NEW tab \in Tab, NEW policy \in Policy \cup {None}
  PROVE  RouterOK(open(r, id, named, tab, policy))
<1> DEFINE p == IF policy = None THEN "Latest" ELSE policy
           c == new_channel(named, tab, p, id \in r.muted)
           o == Append(r.order, id)
           f == [r.ch EXCEPT ![id] = c]
           s == open(r, id, named, tab, policy)
<1>1. /\ r \in RouterType /\ RefsOK(r) /\ FloorOK(r) /\ OpenOK(r) /\ BatchesOK(r)
      /\ r.order \in Seq(Ids) /\ Len(r.order) \in Nat
      /\ r.ch \in [Ids -> Channel] /\ r.next_entry \in Nat
  BY RouterFields DEF RouterOK
<1>2. p \in Policy
  BY DEF Policy
<1>3. (id \in r.muted) \in BOOLEAN
  OBVIOUS
<1>4. c \in Channel /\ BatchAt(r.next_entry, c) /\ c.muted = (id \in r.muted)
  BY <1>2, <1>3, NewChannel
<1>5. s = [r EXCEPT !.order = o, !.ch = f]
  BY <1>1 DEF open, RouterType
<1> HIDE DEF c, p
<1>6. /\ o \in Seq(Ids) /\ Len(o) = Len(r.order) + 1 /\ o[Len(r.order) + 1] = id
      /\ \A i \in 1..Len(r.order) : o[i] = r.order[i]
  BY <1>1
<1>7. f \in [Ids -> Channel] /\ f[id] = c /\ \A x \in Ids : x # id => f[x] = r.ch[x]
  BY <1>1, <1>4
<1> HIDE DEF o, f, s
<1>8. s \in RouterType
  BY <1>1, <1>5, <1>6, <1>7, ZenonT(60) DEF RouterType
<1>9. s.order = o /\ s.ch = f /\ s.muted = r.muted /\ s.next_entry = r.next_entry
  BY <1>1, <1>5 DEF RouterType
<1>10. SameFloor(r, s) /\ SameRefs(r, s)
  BY <1>1, <1>5 DEF RouterType, SameFloor, SameRefs
<1>11. ASSUME NEW x PROVE is_open(s, x) <=> (is_open(r, x) \/ x = id)
  <2>1. is_open(r, x) => is_open(s, x)
    BY <1>1, <1>6, <1>9 DEF is_open
  <2>2. is_open(s, id)
    <3>1. Len(r.order) + 1 \in 1..Len(o)
      BY <1>1, <1>6
    <3> QED  BY <1>6, <1>9, <3>1 DEF is_open
  <2>3. ASSUME is_open(s, x) PROVE is_open(r, x) \/ x = id
    <3>1. PICK i \in 1..Len(o) : o[i] = x
      BY <1>9, <2>3 DEF is_open
    <3>2. CASE i = Len(r.order) + 1
      BY <1>6, <3>1, <3>2
    <3>3. CASE i # Len(r.order) + 1
      <4>1. i \in 1..Len(r.order)
        BY <1>1, <1>6, <3>3
      <4> QED  BY <1>6, <3>1, <4>1 DEF is_open
    <3> QED  BY <3>2, <3>3
  <2> QED  BY <2>1, <2>2, <2>3
<1>12. RefsOK(s)
  BY <1>1, <1>10, <1>11 DEF RefsOK, Refers, SameFloor, SameRefs
<1>13. FloorOK(s)
  BY <1>1, <1>10, FloorFrame
<1>14. \A i, j \in 1..Len(o) : o[i] = o[j] => i = j
  <2> SUFFICES ASSUME NEW i \in 1..Len(o), NEW j \in 1..Len(o), o[i] = o[j] PROVE i = j
    OBVIOUS
  <2>1. \A k \in 1..Len(r.order) : r.order[k] # id
    BY DEF is_open
  <2>2. \A x, y \in 1..Len(r.order) : r.order[x] = r.order[y] => x = y
    BY <1>1 DEF OpenOK
  <2>3. \A k \in 1..Len(o) : k = Len(r.order) + 1 \/ k \in 1..Len(r.order)
    BY <1>1, <1>6
  <2> QED  BY <1>6, <2>1, <2>2, <2>3
<1>15. OpenOK(s)
  <2>1. ASSUME NEW x \in Ids
        PROVE  IF is_open(s, x) THEN s.ch[x].muted = (x \in s.muted) ELSE s.ch[x] = NotOpen
    <3>1. IF is_open(r, x) THEN r.ch[x].muted = (x \in r.muted) ELSE r.ch[x] = NotOpen
      BY <1>1 DEF OpenOK
    <3>2. CASE x = id
      BY <1>4, <1>7, <1>9, <1>11, <3>2
    <3>3. CASE x # id
      BY <1>7, <1>9, <1>11, <3>1, <3>3
    <3> QED  BY <3>2, <3>3
  <2> QED  BY <1>9, <1>14, <2>1 DEF OpenOK
<1>16. BatchesOK(s)
  <2> SUFFICES ASSUME NEW x \in Ids PROVE BatchAt(r.next_entry, f[x])
    BY <1>9, BatchIsAt DEF BatchesOK
  <2>1. BatchAt(r.next_entry, r.ch[x])
    BY <1>1, BatchIsAt DEF BatchesOK
  <2> QED  BY <1>4, <1>7, <2>1
<1>17. RouterOK(s)
  BY <1>8, <1>12, <1>13, <1>15, <1>16 DEF RouterOK
<1> QED  BY <1>17 DEF s

LEMMA OpenLemma ==
  ASSUME NEW r, RouterOK(r), NEW id \in Ids,
         NEW named \in BOOLEAN, NEW tab \in Tab, NEW policy \in Policy \cup {None}
  PROVE  RouterOK(open(r, id, named, tab, policy))
  BY OpenAgainLemma, OpenNewLemma

-----------------------------------------------------------------------------
(* Calls that change references, and closing.                              *)

LEMMA NoHold ==
  ASSUME NEW r, RouterOK(r)
  PROVE  RouterOK([r EXCEPT !.hold = None])
<1> DEFINE s == [r EXCEPT !.hold = None]
<1>1. r \in RouterType /\ RefsOK(r) /\ FloorOK(r)
  BY DEF RouterOK
<1>2. s \in RouterType /\ s.hold = None
  BY <1>1, ZenonT(60) DEF RouterType
<1>3. SameBody(r, s) /\ SameRefs(r, s)
  BY <1>1 DEF RouterType, SameBody, SameRefs
<1>4. /\ s.active = r.active /\ s.last_active = r.last_active /\ s.last_reader = r.last_reader
      /\ s.closed_reader_tab = r.closed_reader_tab /\ s.announce = r.announce
  BY <1>1 DEF RouterType
<1> HIDE DEF s
<1>5. RefsOK(s)
  BY <1>1, <1>2, <1>3, <1>4 DEF RefsOK, Refers, is_open, SameBody, SameRefs
<1>6. FloorOK(s)
  BY <1>1, <1>2, <1>4 DEF FloorOK
<1>7. RouterOK(s)
  BY <1>2, <1>3, <1>5, <1>6, RefsSet
<1> QED  BY <1>7 DEF s

LEMMA EndHoldLemma ==
  ASSUME NEW r, RouterOK(r), NEW id
  PROVE  RouterOK(end_hold(r, id))
  BY NoHold DEF end_hold

LEMMA NoAnnounce ==
  ASSUME NEW r, RouterOK(r)
  PROVE  RouterOK([r EXCEPT !.announce = None])
<1> DEFINE s == [r EXCEPT !.announce = None]
<1>1. r \in RouterType /\ RefsOK(r) /\ FloorOK(r)
  BY DEF RouterOK
<1>2. s \in RouterType /\ s.announce = None
  BY <1>1, ZenonT(60) DEF RouterType
<1>3. SameBody(r, s) /\ SameRefs(r, s)
  BY <1>1 DEF RouterType, SameBody, SameRefs
<1>4. /\ s.active = r.active /\ s.last_active = r.last_active /\ s.last_reader = r.last_reader
      /\ s.closed_reader_tab = r.closed_reader_tab /\ s.hold = r.hold
  BY <1>1 DEF RouterType
<1> HIDE DEF s
<1>5. RefsOK(s)
  BY <1>1, <1>2, <1>3, <1>4 DEF RefsOK, Refers, is_open, SameBody, SameRefs
<1>6. FloorOK(s)
  BY <1>1, <1>2, <1>4 DEF FloorOK
<1>7. RouterOK(s)
  BY <1>2, <1>3, <1>5, <1>6, RefsSet
<1> QED  BY <1>7 DEF s

(* Results, the item read and the gates say nothing of the floor.          *)
LEMMA OtherRefs ==
  ASSUME NEW r, RouterOK(r), NEW s, s \in RouterType, SameBody(r, s), SameFloor(r, s), RefsOK(s)
  PROVE  RouterOK(s)
  BY FloorFrame, RefsSet DEF RouterOK

LEMMA DoneLemma ==
  ASSUME NEW r, RouterOK(r)
  PROVE  RouterOK(done(r)) /\ SameBody(r, done(r)) /\ SameFloor(r, done(r))
<1> DEFINE s == done(r)
<1>1. r \in RouterType /\ RefsOK(r)
  BY DEF RouterOK
<1>2. s \in RouterType /\ s.reading = None
  BY <1>1, ZenonT(60) DEF RouterType, done
<1>3. SameBody(r, s) /\ SameFloor(r, s)
  BY <1>1 DEF RouterType, SameBody, SameFloor, done
<1>4. /\ s.focus = r.focus /\ s.suppressed = r.suppressed
      /\ s.priority = r.priority /\ s.authorized = r.authorized
  BY <1>1 DEF RouterType, done
<1> HIDE DEF s
<1>5. RefsOK(s)
  BY <1>1, <1>2, <1>3, <1>4 DEF RefsOK, Refers, is_open, SameBody, SameFloor
<1>6. RouterOK(s)
  BY <1>2, <1>3, <1>5, OtherRefs
<1> QED  BY <1>3, <1>6 DEF s

LEMMA FedLemma ==
  ASSUME NEW r, RouterOK(r), NEW f \in Feed \cup {None}
  PROVE  RouterOK([r EXCEPT !.fed = f])
<1> DEFINE s == [r EXCEPT !.fed = f]
<1>1. r \in RouterType /\ RefsOK(r)
  BY DEF RouterOK
<1>2. s \in RouterType /\ s.fed = f
  BY <1>1, ZenonT(60) DEF RouterType
<1>3. SameBody(r, s) /\ SameFloor(r, s) /\ SameRefs(r, s)
  BY <1>1 DEF RouterType, SameBody, SameFloor, SameRefs
<1> HIDE DEF s
<1>4. RefsOK(s)
  BY <1>1, <1>3, RefsFrame DEF SameBody
<1>5. RouterOK(s)
  BY <1>2, <1>3, <1>4, OtherRefs
<1> QED  BY <1>5 DEF s

LEMMA FocusOnlyLemma ==
  ASSUME NEW r, RouterOK(r), NEW on \in BOOLEAN
  PROVE  RouterOK(set_focus_only(r, on))
<1> DEFINE s == set_focus_only(r, on)
<1>1. r \in RouterType /\ RefsOK(r)
  BY DEF RouterOK
<1>2. s \in RouterType
  BY <1>1 DEF RouterType, set_focus_only
<1>3. SameBody(r, s) /\ SameFloor(r, s) /\ SameRefs(r, s)
  BY <1>1 DEF RouterType, SameBody, SameFloor, SameRefs, set_focus_only
<1> HIDE DEF s
<1>4. RefsOK(s)
  BY <1>1, <1>3, RefsFrame DEF SameBody
<1>5. RouterOK(s)
  BY <1>2, <1>3, <1>4, OtherRefs
<1> QED  BY <1>5 DEF s

LEMMA FocusLemma ==
  ASSUME NEW r, RouterOK(r), NEW id \in Ids
  PROVE  RouterOK(focus(r, id))
<1>1. CASE ~is_open(r, id)
  BY <1>1 DEF focus
<1>2. CASE is_open(r, id)
  <2> DEFINE a == IF r.focus # None /\ r.focus # id /\ ready(r, r.focus)
                  THEN r.authorized \cup {r.focus} ELSE r.authorized
             s == [r EXCEPT !.focus = id, !.authorized = a]
  <2>1. r \in RouterType /\ RefsOK(r) /\ r.focus \in Ids \cup {None} /\ r.authorized \in SUBSET Ids
    BY RouterFields DEF RouterOK
  <2>2. focus(r, id) = s
    BY <1>2, <2>1 DEF focus, RouterType
  <2>3. a \in SUBSET Ids /\ \A x \in a : is_open(r, x)
    BY <2>1 DEF ready, RefsOK
  <2> HIDE DEF a
  <2>4. s \in RouterType /\ s.focus = id /\ s.authorized = a
    BY <2>1, <2>3, ZenonT(60) DEF RouterType
  <2>5. SameBody(r, s) /\ SameFloor(r, s)
    BY <2>1 DEF RouterType, SameBody, SameFloor
  <2>6. s.reading = r.reading /\ s.suppressed = r.suppressed /\ s.priority = r.priority
    BY <2>1 DEF RouterType
  <2> HIDE DEF s
  <2>7. \A x : is_open(s, x) <=> is_open(r, x)
    BY <2>5 DEF is_open, SameBody
  <2>8. RefsOK(s)
    BY <1>2, <2>1, <2>3, <2>4, <2>5, <2>6, <2>7 DEF RefsOK, Refers, SameFloor
  <2> QED  BY <2>2, <2>4, <2>5, <2>8, OtherRefs
<1> QED  BY <1>1, <1>2

LEMMA AuthorizeLemma ==
  ASSUME NEW r, RouterOK(r), NEW id \in Ids
  PROVE  RouterOK(authorize(r, id))
<1>1. CASE ~is_open(r, id)
  BY <1>1 DEF authorize
<1>2. CASE is_open(r, id)
  <2> DEFINE a == r.authorized \cup {id}
             s == [r EXCEPT !.authorized = a]
  <2>1. r \in RouterType /\ RefsOK(r) /\ r.authorized \in SUBSET Ids
    BY RouterFields DEF RouterOK
  <2>2. authorize(r, id) = s
    BY <1>2, <2>1 DEF authorize, RouterType
  <2>3. a \in SUBSET Ids /\ \A x \in a : is_open(r, x)
    BY <1>2, <2>1 DEF RefsOK
  <2> HIDE DEF a
  <2>4. s \in RouterType /\ s.authorized = a
    BY <2>1, <2>3, ZenonT(60) DEF RouterType
  <2>5. SameBody(r, s) /\ SameFloor(r, s)
    BY <2>1 DEF RouterType, SameBody, SameFloor
  <2>6. /\ s.reading = r.reading /\ s.suppressed = r.suppressed /\ s.priority = r.priority
        /\ s.focus = r.focus
    BY <2>1 DEF RouterType
  <2> HIDE DEF s
  <2>7. \A x : is_open(s, x) <=> is_open(r, x)
    BY <2>5 DEF is_open, SameBody
  <2>8. RefsOK(s)
    BY <1>2, <2>1, <2>3, <2>4, <2>5, <2>6, <2>7 DEF RefsOK, Refers, SameFloor
  <2> QED  BY <2>2, <2>4, <2>5, <2>8, OtherRefs
<1> QED  BY <1>1, <1>2

LEMMA PrioritizeLemma ==
  ASSUME NEW r, RouterOK(r), NEW id \in Ids
  PROVE  RouterOK(prioritize(r, id))
<1>1. CASE ~(is_open(r, id) /\ \A i \in 1..Len(r.priority) : r.priority[i] # id)
  BY <1>1 DEF prioritize
<1>2. CASE is_open(r, id) /\ \A i \in 1..Len(r.priority) : r.priority[i] # id
  <2> DEFINE p == Append(r.priority, id)
             s == [r EXCEPT !.priority = p]
  <2>1. r \in RouterType /\ RefsOK(r) /\ r.priority \in Seq(Ids)
    BY RouterFields DEF RouterOK
  <2>2. prioritize(r, id) = s
    BY <1>2, <2>1 DEF prioritize, RouterType
  <2>3. p \in Seq(Ids) /\ \A i \in 1..Len(p) : is_open(r, p[i])
    <3>1. \A i \in 1..Len(r.priority) : is_open(r, r.priority[i])
      BY <2>1 DEF RefsOK
    <3>2. p \in Seq(Ids) /\ \A i \in 1..Len(p) : p[i] = id \/ \E j \in 1..Len(r.priority) : p[i] = r.priority[j]
      BY <2>1
    <3> QED  BY <1>2, <3>1, <3>2
  <2> HIDE DEF p
  <2>4. s \in RouterType /\ s.priority = p
    BY <2>1, <2>3, ZenonT(60) DEF RouterType
  <2>5. SameBody(r, s) /\ SameFloor(r, s)
    BY <2>1 DEF RouterType, SameBody, SameFloor
  <2>6. /\ s.reading = r.reading /\ s.suppressed = r.suppressed /\ s.authorized = r.authorized
        /\ s.focus = r.focus
    BY <2>1 DEF RouterType
  <2> HIDE DEF s
  <2>7. \A x : is_open(s, x) <=> is_open(r, x)
    BY <2>5 DEF is_open, SameBody
  <2>8. RefsOK(s)
    BY <1>2, <2>1, <2>3, <2>4, <2>5, <2>6, <2>7 DEF RefsOK, Refers, SameFloor
  <2> QED  BY <2>2, <2>4, <2>5, <2>8, OtherRefs
<1> QED  BY <1>1, <1>2

LEMMA MutedLemma ==
  ASSUME NEW r, RouterOK(r), NEW id \in Ids, NEW muted \in BOOLEAN
  PROVE  RouterOK(set_muted(r, id, muted))
<1> DEFINE b == r.ch[id]
           v == is_open(r, id) /\ muted
           c == [b EXCEPT !.muted = v]
           f == [r.ch EXCEPT ![id] = c]
           m == IF muted THEN r.muted \cup {id} ELSE r.muted \ {id}
           s == [r EXCEPT !.muted = m, !.ch = f]
<1>1. /\ r \in RouterType /\ r.ch \in [Ids -> Channel] /\ b \in Channel
      /\ BatchAt(r.next_entry, b) /\ r.muted \in SUBSET Ids
      /\ RefsOK(r) /\ FloorOK(r) /\ OpenOK(r) /\ BatchesOK(r)
  BY ChannelAt, RouterFields DEF RouterOK
<1>2. set_muted(r, id, muted) = IF muted THEN end_hold(s, id) ELSE s
  BY <1>1 DEF set_muted, RouterType
<1>3. v \in BOOLEAN /\ m \in SUBSET Ids /\ (id \in m <=> muted) /\ \A x \in Ids : x # id => (x \in m <=> x \in r.muted)
  BY <1>1
<1> HIDE DEF b, v, m
<1>4. /\ c \in Channel /\ c.entries = b.entries /\ c.cursor = b.cursor
      /\ c.decisions = b.decisions /\ c.aside = b.aside /\ c.muted = v
      /\ (b.muted = v => c = b)
  BY <1>1, <1>3 DEF Channel
<1> HIDE DEF c
<1>5. f \in [Ids -> Channel] /\ f[id] = c /\ \A x \in Ids : x # id => f[x] = r.ch[x]
  BY <1>1, <1>4
<1> HIDE DEF f
<1>6. s \in RouterType /\ s.ch = f /\ s.muted = m
  <2>1. s = [r EXCEPT !.muted = m, !.ch = f]
    OBVIOUS
  <2>2. s.ch = f /\ s.muted = m
    BY <1>1 DEF RouterType
  <2>3. r \in RouterType /\ m \in SUBSET Ids /\ f \in [Ids -> Channel]
    BY <1>1, <1>3, <1>5
  <2>4. /\ SameFloor(r, s) /\ SameRefs(r, s) /\ s.order = r.order
        /\ s.next_entry = r.next_entry /\ s.focus_only = r.focus_only /\ s.fed = r.fed
    BY <1>1 DEF RouterType, SameFloor, SameRefs
  <2> HIDE DEF s
  <2>5. Shaped(s)
    BY <2>1, <2>3 DEF Shaped, RouterType
  <2>6. s \in RouterType
    BY <2>2, <2>3, <2>4, <2>5, RouterFields, RouterMade DEF SameFloor, SameRefs
  <2> QED  BY <2>2, <2>6
<1>7. s.order = r.order /\ s.next_entry = r.next_entry /\ SameFloor(r, s) /\ SameRefs(r, s)
  BY <1>1 DEF RouterType, SameFloor, SameRefs
<1> HIDE DEF s
<1>8. RefsOK(s) /\ FloorOK(s)
  BY <1>1, <1>7, RefsFrame, FloorFrame
<1>9. BatchesOK(s)
  <2> SUFFICES ASSUME NEW x \in Ids PROVE BatchAt(r.next_entry, f[x])
    BY <1>6, <1>7, BatchIsAt DEF BatchesOK
  <2>1. BatchAt(r.next_entry, r.ch[x])
    BY <1>1, BatchIsAt DEF BatchesOK
  <2>2. BatchAt(r.next_entry, c)
    BY <1>1, <1>4 DEF BatchAt
  <2> QED  BY <1>5, <2>1, <2>2
<1>10. OpenOK(s)
  <2>1. \A x : is_open(s, x) <=> is_open(r, x)
    BY <1>7 DEF is_open
  <2>2. ASSUME NEW x \in Ids
        PROVE  IF is_open(s, x) THEN s.ch[x].muted = (x \in s.muted) ELSE s.ch[x] = NotOpen
    <3>1. IF is_open(r, x) THEN r.ch[x].muted = (x \in r.muted) ELSE r.ch[x] = NotOpen
      BY <1>1 DEF OpenOK
    <3>2. CASE x # id
      <4>1. s.ch[x] = r.ch[x] /\ (x \in m) = (x \in r.muted)
        BY <1>3, <1>5, <1>6, <3>2
      <4> QED  BY <1>6, <2>1, <3>1, <4>1
    <3>3. CASE x = id /\ is_open(r, id)
      <4>1. v = muted /\ (id \in m) = muted
        BY <1>3, <3>3 DEF v
      <4> QED  BY <1>4, <1>5, <1>6, <2>1, <3>3, <4>1
    <3>4. CASE x = id /\ ~is_open(r, id)
      <4>1. b = NotOpen /\ b.muted = FALSE /\ v = FALSE
        BY <3>1, <3>4, NotOpenLemma DEF b, v
      <4> QED  BY <1>4, <1>5, <1>6, <2>1, <3>4, <4>1
    <3> QED  BY <3>2, <3>3, <3>4
  <2> QED  BY <1>1, <1>7, <2>2 DEF OpenOK
<1>11. RouterOK(s)
  BY <1>6, <1>8, <1>9, <1>10 DEF RouterOK
<1> QED  BY <1>2, <1>11, EndHoldLemma

LEMMA CloseLemma ==
  ASSUME NEW r, RouterOK(r), NEW id \in Ids
  PROVE  RouterOK(close(r, id))
<1>1. CASE ~is_open(r, id)
  BY <1>1 DEF close
<1>2. CASE is_open(r, id)
  <2> DEFINE o == without(r.order, {id})
             f == [r.ch EXCEPT ![id] = NotOpen]
             q == without(r.priority, {id})
             ct == IF r.last_reader = id THEN r.ch[id].tab ELSE r.closed_reader_tab
             an == IF r.announce # None /\ r.announce.channel = id THEN None ELSE r.announce
             rd == IF r.reading # None /\ r.reading[1] = id THEN None ELSE r.reading
             su == {x \in r.suppressed : x[1] # id}
             au == r.authorized \ {id}
             ho == IF r.hold # None /\ r.hold[1] = id THEN None ELSE r.hold
             act == drop_ref(r.active, id)
             la == drop_ref(r.last_active, id)
             fo == drop_ref(r.focus, id)
             g == [r EXCEPT !.order = o, !.ch = f, !.closed_reader_tab = ct,
                      !.active = act, !.last_active = la, !.focus = fo,
                      !.announce = an, !.reading = rd, !.suppressed = su,
                      !.priority = q, !.authorized = au]
             s == [r EXCEPT !.order = o, !.ch = f, !.closed_reader_tab = ct,
                      !.active = act, !.last_active = la, !.focus = fo,
                      !.announce = an, !.reading = rd, !.suppressed = su,
                      !.priority = q, !.authorized = au, !.hold = ho]
  <2>1. /\ r \in RouterType /\ RefsOK(r) /\ FloorOK(r) /\ OpenOK(r) /\ BatchesOK(r)
        /\ r.order \in Seq(Ids) /\ r.priority \in Seq(Ids) /\ r.ch \in [Ids -> Channel]
        /\ r.ch[id] \in Channel /\ id # None
    BY RouterFields, RouterConstants DEF RouterOK
  <2>2. close(r, id) = s
    <3>1. forget_channel(r, id) = g
      BY <2>1 DEF forget_channel, RouterType
    <3> HIDE DEF o, f, q, ct, an, rd, su, au, act, la, fo
    <3>2. g.hold = r.hold
      BY <2>1 DEF RouterType
    <3>3. g = [g EXCEPT !.hold = r.hold]
      BY <2>1, ZenonT(60) DEF RouterType
    <3>5. s = [g EXCEPT !.hold = ho]
      BY <2>1 DEF RouterType
    <3> HIDE DEF g, s
    <3>4. end_hold(g, id) = s
      BY <2>1, <3>2, <3>3, <3>5 DEF end_hold, ho
    <3> QED  BY <1>2, <3>1, <3>4 DEF close
  <2>3. /\ o \in Seq(Ids)
        /\ \A x : (\E i \in 1..Len(o) : o[i] = x) <=> (is_open(r, x) /\ x # id)
        /\ \A i, j \in 1..Len(o) : o[i] = o[j] => i = j
    <3>1. o \in Seq(Ids)
      BY <2>1, WithoutLemma
    <3>2. \A n \in 1..Len(o) :
              /\ nth_kept(r.order, {id}, n) \in 1..Len(r.order)
              /\ o[n] = r.order[nth_kept(r.order, {id}, n)]
              /\ o[n] \notin {id}
      BY <2>1, WithoutLemma
    <3>3. \A n, m \in 1..Len(o) :
              nth_kept(r.order, {id}, n) = nth_kept(r.order, {id}, m) => n = m
      BY <2>1, WithoutLemma
    <3>4. \A i \in 1..Len(r.order) : r.order[i] \notin {id} =>
              \E n \in 1..Len(o) : o[n] = r.order[i]
      BY <2>1, WithoutLemma, SMTT(30)
    <3>5. \A i, j \in 1..Len(r.order) : r.order[i] = r.order[j] => i = j
      BY <2>1 DEF OpenOK
    <3> HIDE DEF o
    <3>6. \A i, j \in 1..Len(o) : o[i] = o[j] => i = j
      BY <3>2, <3>3, <3>5
    <3>7. \A x : (\E i \in 1..Len(o) : o[i] = x) <=> (is_open(r, x) /\ x # id)
      BY <3>2, <3>4 DEF is_open
    <3> QED  BY <3>1, <3>6, <3>7
  <2>4. /\ q \in Seq(Ids)
        /\ \A n \in 1..Len(q) : is_open(r, q[n]) /\ q[n] # id
    <3>1. q \in Seq(Ids)
      BY <2>1, WithoutLemma
    <3>2. \A n \in 1..Len(q) :
              /\ nth_kept(r.priority, {id}, n) \in 1..Len(r.priority)
              /\ q[n] = r.priority[nth_kept(r.priority, {id}, n)]
              /\ q[n] \notin {id}
      BY <2>1, WithoutLemma
    <3> HIDE DEF q
    <3> QED  BY <2>1, <3>1, <3>2 DEF RefsOK
  <2>5. f \in [Ids -> Channel] /\ f[id] = NotOpen /\ \A x \in Ids : x # id => f[x] = r.ch[x]
    BY <2>1, NotOpenLemma
  <2>6. /\ ct \in Tab /\ an \in Switch \cup {None} /\ rd \in (Ids \X EntryId) \cup {None}
        /\ su \in SUBSET (Ids \X Nat) /\ au \in SUBSET Ids /\ ho \in (Ids \X Nat) \cup {None}
        /\ act \in Ids \cup {None} /\ la \in Ids \cup {None} /\ fo \in Ids \cup {None}
    BY <2>1, RouterFields, ChannelFields DEF drop_ref
  <2> HIDE DEF o, f, q, ct, an, rd, su, au, ho, act, la, fo
  <2>7. /\ s.ch = f /\ s.closed_reader_tab = ct /\ s.active = act /\ s.last_active = la
        /\ s.focus = fo /\ s.announce = an /\ s.reading = rd /\ s.suppressed = su
        /\ s.priority = q /\ s.authorized = au /\ s.hold = ho /\ s.order = o
        /\ s.last_reader = r.last_reader /\ s.muted = r.muted /\ s.next_entry = r.next_entry
        /\ s.focus_only = r.focus_only /\ s.fed = r.fed
    BY <2>1 DEF RouterType
  <2>8. s \in RouterType
    <3>1. s = [r EXCEPT !.order = o, !.ch = f, !.closed_reader_tab = ct,
                 !.active = act, !.last_active = la, !.focus = fo,
                 !.announce = an, !.reading = rd, !.suppressed = su,
                 !.priority = q, !.authorized = au, !.hold = ho]
      OBVIOUS
    <3>2. r \in RouterType
      BY <2>1
    <3> HIDE DEF s
    <3>3. Shaped(s)
      BY <3>1, <3>2 DEF Shaped, RouterType
    <3>4. /\ o \in Seq(Ids) /\ q \in Seq(Ids) /\ f \in [Ids -> Channel]
          /\ r.last_reader \in Ids \cup {None} /\ r.muted \in SUBSET Ids /\ r.next_entry \in Nat
          /\ r.focus_only \in BOOLEAN /\ r.fed \in Feed \cup {None}
      BY <2>3, <2>4, <2>5, <3>2, RouterFields
    <3> QED  BY <2>6, <2>7, <3>3, <3>4, RouterMade
  <2> HIDE DEF s
  <2>9. \A x : is_open(s, x) <=> (is_open(r, x) /\ x # id)
    BY <2>3, <2>7 DEF is_open
  <2>10. RefsOK(s)
    <3>1. Refers(s, s.active) /\ Refers(s, s.last_active) /\ Refers(s, s.focus)
      BY <2>1, <2>7, <2>9 DEF RefsOK, Refers, drop_ref, act, la, fo
    <3>2. /\ s.announce # None => is_open(s, s.announce.channel)
          /\ s.reading # None => is_open(s, s.reading[1])
          /\ s.hold # None => is_open(s, s.hold[1])
      BY <2>1, <2>7, <2>9 DEF RefsOK, an, rd, ho
    <3>3. /\ \A i \in 1..Len(s.priority) : is_open(s, s.priority[i])
          /\ \A a \in s.authorized : is_open(s, a)
          /\ \A x \in s.suppressed : is_open(s, x[1])
      BY <2>1, <2>4, <2>7, <2>9 DEF RefsOK, au, su
    <3> QED  BY <3>1, <3>2, <3>3 DEF RefsOK
  <2>11. FloorOK(s)
    <3>1. /\ r.active # None => r.last_active = r.active /\ r.last_reader = r.active
          /\ r.last_active # None => r.last_reader = r.last_active
          /\ r.closed_reader_tab # None => r.active = None
          /\ r.hold # None => r.hold[1] = r.active
          /\ r.announce # None => r.announce.channel = r.active
      BY <2>1 DEF FloorOK
    <3> QED  BY <2>1, <2>7, <3>1 DEF FloorOK, act, la, ct, ho, an, drop_ref
  <2>12. OpenOK(s)
    <3>1. ASSUME NEW x \in Ids
          PROVE  IF is_open(s, x) THEN s.ch[x].muted = (x \in s.muted) ELSE s.ch[x] = NotOpen
      <4>1. IF is_open(r, x) THEN r.ch[x].muted = (x \in r.muted) ELSE r.ch[x] = NotOpen
        BY <2>1 DEF OpenOK
      <4> QED  BY <2>5, <2>7, <2>9, <4>1
    <3> QED  BY <2>3, <2>7, <3>1 DEF OpenOK
  <2>13. BatchesOK(s)
    <3> SUFFICES ASSUME NEW x \in Ids PROVE BatchAt(r.next_entry, f[x])
      BY <2>7, BatchIsAt DEF BatchesOK
    <3>1. BatchAt(r.next_entry, r.ch[x])
      BY <2>1, BatchIsAt DEF BatchesOK
    <3> QED  BY <2>5, <3>1, NotOpenLemma
  <2>14. RouterOK(s)
    BY <2>8, <2>10, <2>11, <2>12, <2>13 DEF RouterOK
  <2> QED  BY <2>2, <2>14
<1> QED  BY <1>1, <1>2

(* skip_to_end, with or without the end of the batch.                      *)
Skipped(c, d) == \/ d = [c EXCEPT !.cursor = Len(c.entries)]
                 \/ d = [c EXCEPT !.growing = FALSE, !.cursor = Len(c.entries)]

LEMMA SkipLemma ==
  ASSUME NEW c \in Channel, NEW n, BatchAt(n, c), NEW d, Skipped(c, d)
  PROVE  /\ d \in Channel /\ BatchAt(n, d) /\ d.muted = c.muted
         /\ c = NotOpen => d = c
<1>1. Len(c.entries) \in Nat /\ FALSE \in BOOLEAN
  BY ChannelFields
<1>2. d \in Channel
  BY <1>1 DEF Channel, Skipped
<1>3. /\ d.entries = c.entries /\ d.decisions = c.decisions /\ d.aside = c.aside
      /\ d.muted = c.muted /\ d.cursor = Len(c.entries)
  BY DEF Channel, Skipped
<1>4. BatchAt(n, d)
  BY <1>1, <1>3 DEF BatchAt
<1>5. ASSUME c = NotOpen PROVE d = c
  <2>1. c.entries = <<>> /\ c.cursor = 0 /\ c.growing = FALSE
    BY <1>5, NotOpenLemma
  <2>2. Len(c.entries) = 0
    BY <2>1
  <2>3. CASE d = [c EXCEPT !.cursor = Len(c.entries)]
    <3>1. [c EXCEPT !.cursor = c.cursor] = c
      BY DEF Channel
    <3> QED  BY <2>1, <2>2, <2>3, <3>1
  <2>4. CASE d = [c EXCEPT !.growing = FALSE, !.cursor = Len(c.entries)]
    <3>1. [c EXCEPT !.growing = c.growing, !.cursor = c.cursor] = c
      BY DEF Channel
    <3>2. d = [c EXCEPT !.growing = c.growing, !.cursor = c.cursor]
      BY <2>1, <2>2, <2>4, Zenon
    <3> QED  BY <3>1, <3>2
  <2> QED  BY <2>3, <2>4 DEF Skipped
<1> QED  BY <1>2, <1>3, <1>4, <1>5

LEMMA FlushOneLemma ==
  ASSUME NEW r, RouterOK(r), NEW id \in Ids
  PROVE  RouterOK(flush_one(r, id))
<1> DEFINE t == end_hold(r, id)
           an == IF t.announce # None /\ t.announce.channel = id THEN None ELSE t.announce
           u == [t EXCEPT !.announce = an]
           b == u.ch[id]
           c == [b EXCEPT !.growing = FALSE, !.cursor = Len(b.entries)]
<1>1. RouterOK(t) /\ t \in RouterType
  BY EndHoldLemma DEF RouterOK
<1> HIDE DEF t
<1>2. RouterOK(u)
  <2>1. CASE an = None
    BY <1>1, <2>1, NoAnnounce
  <2>2. CASE an = t.announce
    <3>1. [t EXCEPT !.announce = t.announce] = t
      BY <1>1 DEF RouterType
    <3> HIDE DEF an
    <3> QED  BY <1>1, <2>2, <3>1
  <2> QED  BY <2>1, <2>2
<1>3. u.ch = t.ch
  BY <1>1 DEF RouterType
<1>4. flush_one(r, id) = [u EXCEPT !.ch[id] = c]
  <2>1. t.ch \in [Ids -> Channel] /\ t.ch[id] \in Channel
    BY <1>1, RouterFields
  <2>2. c = skip_to_end([t.ch[id] EXCEPT !.growing = FALSE])
    <3> DEFINE x == t.ch[id]
    <3>1. b = x /\ x \in Channel
      BY <1>3, <2>1
    <3> HIDE DEF b, x
    <3>2. [x EXCEPT !.growing = FALSE].entries = x.entries
      BY <3>1 DEF Channel
    <3> QED  BY <3>1, <3>2 DEF skip_to_end, x, Channel
  <2> HIDE DEF c
  <2>3. flush_one(r, id) = [t EXCEPT !.announce = an, !.ch[id] = c]
    BY <2>2 DEF flush_one, t
  <2> HIDE DEF an
  <2> QED  BY <1>1, <2>1, <2>3 DEF RouterType
<1> HIDE DEF u
<1>5. b \in Channel /\ BatchAt(u.next_entry, b) /\ (~is_open(u, id) => b = NotOpen)
  BY <1>2, ChannelAt
<1> HIDE DEF b
<1>6. c = [b EXCEPT !.growing = FALSE, !.cursor = Len(b.entries)]
  OBVIOUS
<1> HIDE DEF c
<1>7. c \in Channel /\ BatchAt(u.next_entry, c) /\ c.muted = b.muted /\ (b = NotOpen => c = b)
  <2>1. Skipped(b, c)
    BY <1>6 DEF Skipped
  <2> QED  BY <1>5, <2>1, SkipLemma
<1>8. RouterOK([u EXCEPT !.ch[id] = c])
  BY <1>2, <1>5, <1>7, SetChannel DEF b
<1> QED  BY <1>4, <1>8

LEMMA FlushAllLemma ==
  ASSUME NEW r, RouterOK(r)
  PROVE  RouterOK(flush_all(r))
<1> DEFINE t == [r EXCEPT !.announce = None]
           u == [t EXCEPT !.hold = None]
           f == [id \in Ids |-> skip_to_end(u.ch[id])]
           s == [u EXCEPT !.ch = f]
<1>1. RouterOK(t)
  BY NoAnnounce
<1>2. RouterOK(u)
  <2> HIDE DEF t
  <2> QED  BY <1>1, NoHold
<1>3. flush_all(r) = s
  <2>1. r \in RouterType
    BY DEF RouterOK
  <2>2. u.ch = r.ch
    BY <2>1 DEF RouterType
  <2>3. flush_all(r) = [r EXCEPT !.announce = None, !.hold = None, !.ch = f]
    BY <2>2 DEF flush_all
  <2> HIDE DEF f
  <2> QED  BY <2>1, <2>3 DEF RouterType
<1> HIDE DEF u
<1>4. /\ u \in RouterType /\ RefsOK(u) /\ FloorOK(u) /\ OpenOK(u) /\ BatchesOK(u)
      /\ u.ch \in [Ids -> Channel] /\ u.next_entry \in Nat
  BY <1>2, RouterFields DEF RouterOK
<1>5. ASSUME NEW x \in Ids
      PROVE  /\ f[x] \in Channel /\ BatchAt(u.next_entry, f[x]) /\ f[x].muted = u.ch[x].muted
             /\ ~is_open(u, x) => f[x] = NotOpen
  <2> DEFINE b == u.ch[x]
  <2>1. b \in Channel /\ BatchAt(u.next_entry, b) /\ (~is_open(u, x) => b = NotOpen)
    BY <1>2, ChannelAt
  <2>2. f[x] = [b EXCEPT !.cursor = Len(b.entries)]
    BY DEF skip_to_end
  <2> HIDE DEF b, f
  <2>5. f[x] \in Channel /\ BatchAt(u.next_entry, f[x]) /\ f[x].muted = b.muted /\ (b = NotOpen => f[x] = b)
    <3>1. Skipped(b, f[x])
      BY <2>2 DEF Skipped
    <3> QED  BY <2>1, <3>1, SkipLemma
  <2> QED  BY <2>1, <2>5 DEF b
<1>6. f \in [Ids -> Channel]
  <2>1. f = [x \in Ids |-> f[x]]
    OBVIOUS
  <2> HIDE DEF f
  <2> QED  BY <1>5, <2>1
<1> HIDE DEF f
<1>7. s.ch = f /\ s.order = u.order /\ s.muted = u.muted /\ s.next_entry = u.next_entry
  BY <1>4 DEF RouterType
<1>8. SameFloor(u, s) /\ SameRefs(u, s)
  BY <1>4 DEF RouterType, SameFloor, SameRefs
<1>9. s \in RouterType
  <2>1. s = [u EXCEPT !.ch = f] /\ u \in RouterType
    BY <1>4
  <2>2. s.focus_only = u.focus_only /\ s.fed = u.fed
    BY <1>4 DEF RouterType
  <2> HIDE DEF s
  <2>3. Shaped(s)
    BY <2>1 DEF Shaped, RouterType
  <2> QED  BY <1>4, <1>6, <1>7, <1>8, <2>2, <2>3, RouterFields, RouterMade DEF SameFloor, SameRefs
<1> HIDE DEF s
<1>10. RefsOK(s) /\ FloorOK(s)
  BY <1>4, <1>7, <1>8, RefsFrame, FloorFrame
<1>11. OpenOK(s)
  <2>1. \A x : is_open(s, x) <=> is_open(u, x)
    BY <1>7 DEF is_open
  <2>2. ASSUME NEW x \in Ids
        PROVE  IF is_open(s, x) THEN s.ch[x].muted = (x \in s.muted) ELSE s.ch[x] = NotOpen
    <3>1. IF is_open(u, x) THEN u.ch[x].muted = (x \in u.muted) ELSE u.ch[x] = NotOpen
      BY <1>4 DEF OpenOK
    <3> QED  BY <1>5, <1>7, <2>1, <3>1
  <2> QED  BY <1>4, <1>7, <2>2 DEF OpenOK
<1>12. BatchesOK(s)
  BY <1>5, <1>7, BatchIsAt DEF BatchesOK
<1>13. RouterOK(s)
  BY <1>9, <1>10, <1>11, <1>12 DEF RouterOK
<1> QED  BY <1>3, <1>13

-----------------------------------------------------------------------------
(* The floor: who reads next.                                              *)

(* A call that gives the floor to an open channel.                         *)
LEMMA FloorGiven ==
  ASSUME NEW r, RouterOK(r), NEW s, s \in RouterType, SameBody(r, s),
         NEW id \in Ids, is_open(r, id),
         s.active = id, s.last_active = id, s.last_reader = id, s.closed_reader_tab = None,
         s.hold # None => s.hold[1] = id, s.announce # None => s.announce.channel = id,
         s.focus = r.focus, s.reading = r.reading, s.priority = r.priority,
         \A a \in s.authorized : is_open(r, a), \A x \in s.suppressed : is_open(r, x[1])
  PROVE  RouterOK(s)
<1>1. RefsOK(r) /\ id # None
  BY RouterConstants DEF RouterOK
<1>2. \A x : is_open(s, x) <=> is_open(r, x)
  BY DEF is_open, SameBody
<1>3. FloorOK(s)
  BY <1>1 DEF FloorOK
<1>4. RefsOK(s)
  BY <1>1, <1>2 DEF RefsOK, Refers
<1> QED  BY <1>3, <1>4, RefsSet

LEMMA SetReaderFields ==
  ASSUME NEW r \in RouterType, NEW id \in Ids, NEW s, s = set_reader(r, id)
  PROVE  /\ s \in RouterType /\ SameBody(r, s) /\ SameRefs(r, s)
         /\ s.active = id /\ s.last_active = id /\ s.last_reader = id
         /\ s.closed_reader_tab = None /\ s.hold = r.hold /\ s.announce = r.announce
         /\ s.focus_only = r.focus_only /\ s.fed = r.fed
<1>1. None \in Tab
  BY DEF Tab
<1>2. /\ SameBody(r, s) /\ SameRefs(r, s)
      /\ s.active = id /\ s.last_active = id /\ s.last_reader = id
      /\ s.closed_reader_tab = None /\ s.hold = r.hold /\ s.announce = r.announce
      /\ s.focus_only = r.focus_only /\ s.fed = r.fed
  BY DEF RouterType, SameBody, SameRefs, set_reader
<1>3. Shaped(s)
  BY DEF RouterType, Shaped, set_reader
<1>4. s \in RouterType
  BY <1>1, <1>2, <1>3, RouterFields, RouterMade DEF SameBody, SameRefs
<1> QED  BY <1>2, <1>4

Armed(r, id, s) == \E replay, manual \in BOOLEAN : s = arm(r, id, replay, manual)

LEMMA ArmFields ==
  ASSUME NEW r \in RouterType, NEW id \in Ids, NEW s, Armed(r, id, s)
  PROVE  /\ s \in RouterType /\ SameBody(r, s) /\ SameRefs(r, s)
         /\ s.active = r.active /\ s.last_active = r.last_active
         /\ s.last_reader = r.last_reader /\ s.closed_reader_tab = r.closed_reader_tab
         /\ s.hold = r.hold /\ s.announce \in Switch /\ s.announce.channel = id
<1> PICK replay \in BOOLEAN, manual \in BOOLEAN : s = arm(r, id, replay, manual)
  BY Zenon DEF Armed
<1> DEFINE a == [channel |-> id, replay |-> replay, manual |-> manual]
<1>1. a \in Switch /\ a.channel = id
  BY DEF Switch
<1>2. s = [r EXCEPT !.announce = a]
  BY DEF arm
<1> HIDE DEF a
<1>3. a \in Switch \cup {None}
  BY <1>1
<1>4. s \in RouterType /\ s.announce = a
  BY <1>2, <1>3, ZenonT(60) DEF RouterType
<1>5. /\ SameBody(r, s) /\ SameRefs(r, s)
      /\ s.active = r.active /\ s.last_active = r.last_active
      /\ s.last_reader = r.last_reader /\ s.closed_reader_tab = r.closed_reader_tab
      /\ s.hold = r.hold
  BY <1>2 DEF RouterType, SameBody, SameRefs
<1> QED  BY <1>1, <1>4, <1>5

LEMMA HoldFields ==
  ASSUME NEW r \in RouterType, NEW id \in Ids, NEW s, s = start_hold(r, id)
  PROVE  /\ s \in RouterType /\ SameBody(r, s) /\ SameRefs(r, s)
         /\ s.active = r.active /\ s.last_active = r.last_active
         /\ s.last_reader = r.last_reader /\ s.closed_reader_tab = r.closed_reader_tab
         /\ s.announce = r.announce /\ s.hold[1] = id
<1> DEFINE h == <<id, r.next_entry>>
<1>1. h \in (Ids \X Nat) \cup {None} /\ h[1] = id
  BY RouterFields
<1>2. s = [r EXCEPT !.hold = h]
  BY DEF start_hold
<1> HIDE DEF h
<1>3. s \in RouterType /\ s.hold = h
  BY <1>1, <1>2, ZenonT(60) DEF RouterType
<1>4. /\ SameBody(r, s) /\ SameRefs(r, s)
      /\ s.active = r.active /\ s.last_active = r.last_active
      /\ s.last_reader = r.last_reader /\ s.closed_reader_tab = r.closed_reader_tab
      /\ s.announce = r.announce
  BY <1>2 DEF RouterType, SameBody, SameRefs
<1> QED  BY <1>1, <1>3, <1>4

LEMMA UnsuppressFields ==
  ASSUME NEW r \in RouterType, NEW id, NEW s, s = unsuppress(r, id)
  PROVE  /\ s \in RouterType /\ SameBody(r, s) /\ SameFloor(r, s)
         /\ s.focus = r.focus /\ s.reading = r.reading /\ s.priority = r.priority
         /\ s.authorized = r.authorized /\ s.suppressed \subseteq r.suppressed
<1> DEFINE x == {y \in r.suppressed : y[1] # id}
<1>1. x \in SUBSET (Ids \X Nat) /\ x \subseteq r.suppressed
  BY RouterFields
<1>2. s = [r EXCEPT !.suppressed = x]
  BY DEF unsuppress
<1> HIDE DEF x
<1>3. s \in RouterType /\ s.suppressed = x
  BY <1>1, <1>2 DEF RouterType
<1>4. /\ SameBody(r, s) /\ SameFloor(r, s)
      /\ s.focus = r.focus /\ s.reading = r.reading /\ s.priority = r.priority
      /\ s.authorized = r.authorized
  BY <1>2 DEF RouterType, SameBody, SameFloor
<1> QED  BY <1>1, <1>3, <1>4

(* The first of s among `ids` is one of both, and found when there is one. *)
LEMMA FirstInLemma ==
  ASSUME NEW S, NEW s \in Seq(S), NEW ids
  PROVE  /\ first_in(s, ids) = None \/ first_in(s, ids) \in ids
         /\ (\E i \in 1..Len(s) : s[i] \in ids) => first_in(s, ids) \in ids
<1> DEFINE good == {i \in 1..Len(s) : s[i] \in ids}
<1>1. CASE good = {}
  BY <1>1 DEF first_in
<1>2. CASE good # {}
  <2>1. good \in SUBSET Nat
    OBVIOUS
  <2>2. \E i \in good : \A j \in good : i <= j
    <3> HIDE DEF good
    <3> QED  BY <1>2, <2>1, LeastNatural
  <2> DEFINE k == CHOOSE i \in good : \A j \in good : i <= j
  <2>3. k \in good
    BY <2>2
  <2>4. first_in(s, ids) = s[k]
    BY <1>2 DEF first_in
  <2> HIDE DEF k
  <2> QED  BY <2>3, <2>4
<1> QED  BY <1>1, <1>2

LEMMA TidyLemma ==
  ASSUME NEW r, RouterOK(r), NEW s, s = tidy(r)
  PROVE  /\ RouterOK(s) /\ SameBody(r, s) /\ s.announce = r.announce /\ s.reading = r.reading
         /\ s.hold # None => holds(r) /\ s.hold = r.hold
<1> DEFINE q == without(r.priority, {p \in Ids : ~ready(r, p)})
           au == {a \in r.authorized : ready(r, a)}
           ho == IF holds(r) THEN r.hold ELSE None
           su == {x \in r.suppressed : r.ch[x[1]].gen = x[2]}
<1>1. r \in RouterType /\ RefsOK(r) /\ FloorOK(r) /\ r.priority \in Seq(Ids)
  BY RouterFields DEF RouterOK
<1>2. q \in Seq(Ids) /\ \A n \in 1..Len(q) : is_open(r, q[n])
  <2> DEFINE gone == {p \in Ids : ~ready(r, p)}
  <2> HIDE DEF gone
  <2> DEFINE w == without(r.priority, gone)
  <2>1. w \in Seq(Ids)
    BY <1>1, WithoutLemma
  <2>2. \A n \in 1..Len(w) :
            /\ nth_kept(r.priority, gone, n) \in 1..Len(r.priority)
            /\ w[n] = r.priority[nth_kept(r.priority, gone, n)]
    BY <1>1, WithoutLemma
  <2> HIDE DEF w
  <2>3. \A n \in 1..Len(w) : is_open(r, w[n])
    BY <1>1, <2>2 DEF RefsOK
  <2> QED  BY <2>1, <2>3 DEF w, gone
<1>3. /\ au \in SUBSET Ids /\ su \in SUBSET (Ids \X Nat) /\ ho \in (Ids \X Nat) \cup {None}
      /\ au \subseteq r.authorized /\ su \subseteq r.suppressed
      /\ (ho # None => holds(r) /\ ho = r.hold)
  BY <1>1, RouterFields
<1>4. s = [r EXCEPT !.priority = q, !.authorized = au, !.hold = ho, !.suppressed = su]
  BY DEF tidy
<1> HIDE DEF q, au, ho, su
<1>5. /\ s.priority = q /\ s.authorized = au /\ s.hold = ho /\ s.suppressed = su
      /\ SameBody(r, s) /\ s.active = r.active /\ s.last_active = r.last_active
      /\ s.last_reader = r.last_reader /\ s.closed_reader_tab = r.closed_reader_tab
      /\ s.announce = r.announce /\ s.reading = r.reading /\ s.focus = r.focus
      /\ s.focus_only = r.focus_only /\ s.fed = r.fed
  BY <1>1, <1>4 DEF RouterType, SameBody
<1>6. Shaped(s)
  BY <1>1, <1>4 DEF RouterType, Shaped
<1>7. s \in RouterType
  <2>1. q \in Seq(Ids)
    BY <1>2
  <2> QED  BY <1>1, <1>3, <1>5, <1>6, <2>1, RouterFields, RouterMade DEF SameBody
<1>8. \A x : is_open(s, x) <=> is_open(r, x)
  BY <1>5 DEF is_open, SameBody
<1>9. FloorOK(s)
  BY <1>1, <1>3, <1>5 DEF FloorOK
<1>10. RefsOK(s)
  BY <1>1, <1>2, <1>3, <1>5, <1>8 DEF RefsOK, Refers
<1> QED  BY <1>3, <1>5, <1>7, <1>9, <1>10, RefsSet

LEMMA AudibleFrame ==
  ASSUME NEW r, NEW s, SameBody(r, s), NEW id, audible(r, id)
  PROVE  audible(s, id)
  BY DEF SameBody, audible, ready, is_open

(* What pick finds can be heard, and is the channel a replay holds for.    *)
LEMMA PickLemma ==
  ASSUME NEW r, RouterOK(r), r.hold # None => audible(r, r.hold[1]), pick(r) # None
  PROVE  /\ pick(r) \in Ids /\ audible(r, pick(r))
         /\ r.hold # None => pick(r) = r.active
<1> DEFINE heard == {p \in Ids : pickable(r, p)}
           urgent == first_in(r.priority, heard)
           next == first_in(r.order, heard)
<1>1. /\ r \in RouterType /\ FloorOK(r) /\ r.priority \in Seq(Ids) /\ r.order \in Seq(Ids)
      /\ r.active \in Ids \cup {None} /\ r.focus \in Ids \cup {None}
      /\ r.hold \in (Ids \X Nat) \cup {None}
  BY RouterFields DEF RouterOK
<1>2. \A x \in heard : x \in Ids /\ audible(r, x)
  BY DEF pickable
<1> HIDE DEF heard
<1>3. (urgent = None \/ urgent \in heard) /\ (next = None \/ next \in heard)
  BY <1>1, FirstInLemma
<1>4. pick(r) = IF r.hold # None THEN r.hold[1]
                ELSE IF r.active # None /\ audible(r, r.active) THEN r.active
                ELSE IF urgent # None THEN urgent
                ELSE IF r.focus # None /\ audible(r, r.focus) /\ ~is_suppressed(r, r.focus)
                THEN r.focus ELSE next
  BY Zenon DEF pick, heard
<1> HIDE DEF urgent, next
<1>5. CASE r.hold # None
  <2>1. r.hold[1] \in Ids /\ r.hold[1] = r.active
    BY <1>1, <1>5 DEF FloorOK
  <2> QED  BY <1>4, <1>5, <2>1
<1>6. CASE r.hold = None
  BY <1>1, <1>2, <1>3, <1>4, <1>6
<1> QED  BY <1>5, <1>6

LEMMA FeedEntryLemma ==
  ASSUME NEW r, RouterOK(r), NEW id \in Ids, ready(r, id)
  PROVE  RouterOK(feed_entry(r, id))
<1> DEFINE b == r.ch[id]
           c == take(b)
           e == b.entries[taken(b)]
           v == [r EXCEPT !.ch[id] = c]
           au == IF caught_up(c) THEN v.authorized \ {id} ELSE v.authorized
           rd == <<id, e>>
           fd == [op |-> "Entry", channel |-> id, entry |-> e]
           s == [v EXCEPT !.reading = rd, !.authorized = au, !.fed = fd]
<1>1. b \in Channel /\ BatchAt(r.next_entry, b) /\ is_open(r, id) /\ ~caught_up(b) /\ r \in RouterType
      /\ r.ch \in [Ids -> Channel]
  BY ChannelAt DEF ready
<1>2. e \in EntryId
  BY <1>1, TakenLemma
<1>3. c \in Channel /\ BatchAt(r.next_entry, c) /\ c.muted = b.muted
  BY <1>1, TakeLemma
<1>4. feed_entry(r, id) = s
  <2>1. feed_entry(r, id) = [r EXCEPT !.ch[id] = c, !.reading = rd,
           !.authorized = IF caught_up(c) THEN r.authorized \ {id} ELSE r.authorized, !.fed = fd]
    BY DEF feed_entry
  <2>2. v.authorized = r.authorized
    BY <1>1 DEF RouterType
  <2> HIDE DEF c, rd, fd
  <2> QED  BY <1>1, <2>1, <2>2 DEF RouterType
<1> HIDE DEF c, e
<1>5. RouterOK(v)
  BY <1>1, <1>3, SetChannel
<1>6. is_open(v, id)
  BY <1>1 DEF is_open, RouterType
<1> HIDE DEF v, b
<1>7. v \in RouterType /\ RefsOK(v) /\ v.authorized \in SUBSET Ids
  BY <1>5, RouterFields DEF RouterOK
<1>8. /\ au \in SUBSET Ids /\ au \subseteq v.authorized
      /\ rd \in (Ids \X EntryId) \cup {None} /\ rd[1] = id
  BY <1>2, <1>7
<1>9. fd \in Feed \cup {None}
  BY <1>2 DEF Feed
<1> HIDE DEF au, rd, fd
<1>10. /\ s.reading = rd /\ s.authorized = au /\ s.fed = fd /\ SameBody(v, s) /\ SameFloor(v, s)
       /\ s.focus = v.focus /\ s.suppressed = v.suppressed /\ s.priority = v.priority
       /\ s.focus_only = v.focus_only
  BY <1>7 DEF RouterType, SameBody, SameFloor
<1>11. s \in RouterType
  <2>1. s = [v EXCEPT !.reading = rd, !.authorized = au, !.fed = fd]
    OBVIOUS
  <2> HIDE DEF s
  <2>2. Shaped(s)
    BY <1>7, <2>1 DEF RouterType, Shaped
  <2> QED  BY <1>7, <1>8, <1>9, <1>10, <2>2, RouterFields, RouterMade DEF SameBody, SameFloor
<1> HIDE DEF s
<1>12. \A x : is_open(s, x) <=> is_open(v, x)
  BY <1>10 DEF is_open, SameBody
<1>13. RefsOK(s)
  BY <1>6, <1>7, <1>8, <1>10, <1>12 DEF RefsOK, Refers, SameFloor
<1>14. RouterOK(s)
  BY <1>5, <1>10, <1>11, <1>13, OtherRefs
<1> QED  BY <1>4, <1>14

LEMMA FeedAnnounceLemma ==
  ASSUME NEW r, RouterOK(r), r.announce \in Switch
  PROVE  RouterOK(feed_announce(r))
<1> DEFINE a == r.announce
           fd == [op |-> "Announce", channel |-> a.channel, named |-> r.ch[a.channel].named,
                  replay |-> a.replay, manual |-> a.manual]
           v == [r EXCEPT !.announce = None]
<1>1. r \in RouterType /\ r.ch \in [Ids -> Channel]
  BY RouterFields DEF RouterOK
<1>2. a.channel \in Ids /\ a.replay \in BOOLEAN /\ a.manual \in BOOLEAN
  BY DEF Switch
<1>3. r.ch[a.channel].named \in BOOLEAN
  BY <1>1, <1>2, ChannelFields
<1>4. fd \in Feed \cup {None}
  BY <1>2, <1>3 DEF Feed
<1>5. feed_announce(r) = [r EXCEPT !.announce = None, !.fed = fd]
  BY DEF feed_announce
<1> HIDE DEF fd
<1>6. [r EXCEPT !.announce = None, !.fed = fd] = [v EXCEPT !.fed = fd]
  BY <1>1 DEF RouterType
<1>7. RouterOK(v)
  BY NoAnnounce
<1> HIDE DEF v
<1> QED  BY <1>4, <1>5, <1>6, <1>7, FedLemma

Nobody(r) == [r EXCEPT !.active = None, !.fed = None]

LEMMA NobodyLemma ==
  ASSUME NEW r, RouterOK(r), r.hold = None, r.announce = None
  PROVE  RouterOK(Nobody(r))
<1> DEFINE s == [r EXCEPT !.active = None, !.fed = None]
<1>1. r \in RouterType /\ RefsOK(r) /\ FloorOK(r)
  BY DEF RouterOK
<1>2. /\ s.active = None /\ s.fed = None /\ SameBody(r, s) /\ SameRefs(r, s)
      /\ s.last_active = r.last_active /\ s.last_reader = r.last_reader
      /\ s.closed_reader_tab = r.closed_reader_tab /\ s.announce = None /\ s.hold = None
      /\ s.focus_only = r.focus_only
  BY <1>1 DEF RouterType, SameBody, SameRefs
<1>3. s \in RouterType
  <2>1. s = [r EXCEPT !.active = None, !.fed = None]
    OBVIOUS
  <2> HIDE DEF s
  <2>2. Shaped(s)
    BY <1>1, <2>1 DEF RouterType, Shaped
  <2> QED  BY <1>1, <1>2, <2>2, RouterFields, RouterMade DEF SameBody, SameRefs
<1> HIDE DEF s
<1>4. \A x : is_open(s, x) <=> is_open(r, x)
  BY <1>2 DEF is_open, SameBody
<1>5. FloorOK(s)
  BY <1>1, <1>2 DEF FloorOK
<1>6. RefsOK(s)
  BY <1>1, <1>2, <1>4 DEF RefsOK, Refers, SameRefs
<1>7. RouterOK(s)
  BY <1>2, <1>3, <1>5, <1>6, RefsSet
<1> QED  BY <1>7 DEF s, Nobody

LEMMA NextFeedLemma ==
  ASSUME NEW r, RouterOK(r)
  PROVE  RouterOK(next_feed(r))
<1> DEFINE s == done(r)
           t == tidy(s)
           target == pick(t)
           u == set_reader(t, target)
           a == arm(u, target, FALSE, FALSE)
<1>1. next_feed(r) = IF s.announce # None THEN feed_announce(s)
                     ELSE IF target = None THEN [t EXCEPT !.active = None, !.fed = None]
                     ELSE IF t.active = target THEN feed_entry(t, target)
                     ELSE IF is_handoff(t, target) THEN feed_announce(a)
                     ELSE feed_entry(u, target)
  BY Zenon DEF next_feed, done
<1>2. RouterOK(s) /\ s \in RouterType /\ s.announce \in Switch \cup {None}
  BY DoneLemma, RouterFields DEF RouterOK
<1> HIDE DEF s
<1>3. /\ RouterOK(t) /\ SameBody(s, t) /\ t.announce = s.announce
      /\ (t.hold # None => holds(s) /\ t.hold = s.hold)
  BY <1>2, TidyLemma
<1> HIDE DEF t
<1>4. t.hold # None => audible(t, t.hold[1])
  BY <1>3, AudibleFrame DEF holds
<1>5. target # None => /\ target \in Ids /\ audible(t, target)
                       /\ (t.hold # None => target = t.active)
  BY <1>3, <1>4, PickLemma
<1>6. /\ t \in RouterType /\ RefsOK(t) /\ t.hold \in (Ids \X Nat) \cup {None} /\ FloorOK(t)
  BY <1>3, RouterFields DEF RouterOK
<1>7. target = None => t.hold = None
  <2>1. t.hold # None => target = t.hold[1]
    BY DEF pick
  <2> HIDE DEF target
  <2> QED  BY <1>6, <2>1, RouterConstants
<1> HIDE DEF target
<1>8. CASE s.announce # None
  <2>1. s.announce \in Switch
    BY <1>2, <1>8
  <2> QED  BY <1>1, <1>2, <1>8, <2>1, FeedAnnounceLemma
<1>9. CASE s.announce = None /\ target = None
  <2>1. RouterOK(Nobody(t))
    BY <1>3, <1>7, <1>9, NobodyLemma
  <2> QED  BY <1>1, <1>9, <2>1 DEF Nobody
<1>10. CASE s.announce = None /\ target # None /\ t.active = target
  <2>1. RouterOK(feed_entry(t, target))
    BY <1>3, <1>5, <1>10, FeedEntryLemma DEF audible
  <2> QED  BY <1>1, <1>10, <2>1
<1>11. CASE s.announce = None /\ target # None /\ t.active # target
  <2>1. target \in Ids /\ ready(t, target) /\ is_open(t, target) /\ t.hold = None /\ t.announce = None
    BY <1>3, <1>5, <1>11 DEF audible, ready
  <2>2. /\ u \in RouterType /\ SameBody(t, u) /\ SameRefs(t, u)
        /\ u.active = target /\ u.last_active = target /\ u.last_reader = target
        /\ u.closed_reader_tab = None /\ u.hold = None /\ u.announce = None
    BY <1>6, <2>1, SetReaderFields
  <2>3. /\ \A x \in t.authorized : is_open(t, x)
        /\ \A x \in t.suppressed : is_open(t, x[1])
    BY <1>6 DEF RefsOK
  <2> HIDE DEF u
  <2>4. RouterOK(u)
    BY <1>3, <2>1, <2>2, <2>3, FloorGiven DEF SameRefs
  <2>5. RouterOK(feed_entry(u, target))
    <3>1. ready(u, target)
      BY <2>1, <2>2 DEF ready, is_open, SameBody
    <3> QED  BY <2>1, <2>4, <3>1, FeedEntryLemma
  <2>6. /\ a \in RouterType /\ SameBody(u, a) /\ SameRefs(u, a)
        /\ a.active = u.active /\ a.last_active = u.last_active
        /\ a.last_reader = u.last_reader /\ a.closed_reader_tab = u.closed_reader_tab
        /\ a.hold = u.hold /\ a.announce \in Switch /\ a.announce.channel = target
    <3>1. Armed(u, target, a)
      BY Zenon DEF Armed
    <3> QED  BY <2>1, <2>2, <3>1, ArmFields
  <2> HIDE DEF a
  <2>7. RouterOK(a)
    <3>1. SameBody(t, a) /\ SameRefs(t, a)
      BY <2>2, <2>6 DEF SameBody, SameRefs
    <3> QED  BY <1>3, <2>1, <2>2, <2>3, <2>6, <3>1, FloorGiven DEF SameRefs
  <2>8. RouterOK(feed_announce(a))
    BY <2>6, <2>7, FeedAnnounceLemma
  <2> QED  BY <1>1, <1>11, <2>5, <2>8
<1> QED  BY <1>8, <1>9, <1>10, <1>11

LEMMA HoldSet ==
  ASSUME NEW r \in RouterType, NEW h \in (Ids \X Nat) \cup {None}
  PROVE  [r EXCEPT !.hold = h] \in RouterType /\ [r EXCEPT !.hold = h].hold = h
<1> DEFINE s == [r EXCEPT !.hold = h]
<1>1. /\ s.hold = h /\ SameBody(r, s) /\ SameRefs(r, s) /\ s.active = r.active
      /\ s.last_active = r.last_active /\ s.last_reader = r.last_reader
      /\ s.closed_reader_tab = r.closed_reader_tab /\ s.announce = r.announce
      /\ s.focus_only = r.focus_only /\ s.fed = r.fed
  BY DEF RouterType, SameBody, SameRefs
<1>2. s = [r EXCEPT !.hold = h]
  OBVIOUS
<1> HIDE DEF s
<1>3. Shaped(s)
  BY <1>2 DEF RouterType, Shaped
<1>4. s \in RouterType
  BY <1>1, <1>3, RouterFields, RouterMade DEF SameBody, SameRefs
<1> QED  BY <1>1, <1>4 DEF s

LEMMA AnnounceSet ==
  ASSUME NEW r \in RouterType, NEW a \in Switch \cup {None}
  PROVE  [r EXCEPT !.announce = a] \in RouterType /\ [r EXCEPT !.announce = a].announce = a
<1> DEFINE s == [r EXCEPT !.announce = a]
<1>1. /\ s.announce = a /\ SameBody(r, s) /\ SameRefs(r, s) /\ s.active = r.active
      /\ s.last_active = r.last_active /\ s.last_reader = r.last_reader
      /\ s.closed_reader_tab = r.closed_reader_tab /\ s.hold = r.hold
      /\ s.focus_only = r.focus_only /\ s.fed = r.fed
  BY DEF RouterType, SameBody, SameRefs
<1>2. s = [r EXCEPT !.announce = a]
  OBVIOUS
<1> HIDE DEF s
<1>3. Shaped(s)
  BY <1>2 DEF RouterType, Shaped
<1>4. s \in RouterType
  BY <1>1, <1>3, RouterFields, RouterMade DEF SameBody, SameRefs
<1> QED  BY <1>1, <1>4 DEF s

LEMMA TakeFloorLemma ==
  ASSUME NEW r, RouterOK(r), NEW id \in Ids
  PROVE  RouterOK(take_floor(r, id))
<1>1. CASE ~is_open(r, id)
  BY <1>1 DEF take_floor
<1>2. CASE is_open(r, id)
  <2> DEFINE q == set_reader(r, id)
             s == unsuppress(q, id)
             ho == IF s.hold # None /\ s.hold[1] # id THEN None ELSE s.hold
             t == [s EXCEPT !.hold = ho]
             a == arm(t, id, FALSE, FALSE)
             an == IF t.announce # None /\ t.announce.channel # id THEN None ELSE t.announce
             u == [t EXCEPT !.announce = an]
  <2>1. r \in RouterType /\ RefsOK(r)
    BY DEF RouterOK
  <2>2. /\ q \in RouterType /\ SameBody(r, q) /\ SameRefs(r, q)
        /\ q.active = id /\ q.last_active = id /\ q.last_reader = id /\ q.closed_reader_tab = None
    BY <2>1, SetReaderFields
  <2> HIDE DEF q
  <2>3. /\ s \in RouterType /\ SameBody(q, s) /\ SameFloor(q, s)
        /\ s.focus = q.focus /\ s.reading = q.reading /\ s.priority = q.priority
        /\ s.authorized = q.authorized /\ s.suppressed \subseteq q.suppressed
    BY <2>2, UnsuppressFields
  <2> HIDE DEF s
  <2>4. ho \in (Ids \X Nat) \cup {None} /\ (ho # None => ho[1] = id)
    BY <2>3, RouterFields
  <2>5. take_floor(r, id) = IF is_handoff(r, id) THEN a ELSE u
    <3>1. [s EXCEPT !.hold = s.hold] = s
      BY <2>3 DEF RouterType
    <3>2. t = IF s.hold # None /\ s.hold[1] # id THEN [s EXCEPT !.hold = None] ELSE s
      BY <3>1
    <3>3. t \in RouterType
      BY <2>3, <2>4, HoldSet
    <3> HIDE DEF t
    <3>4. [t EXCEPT !.announce = t.announce] = t
      BY <3>3 DEF RouterType
    <3>5. u = IF t.announce # None /\ t.announce.channel # id
              THEN [t EXCEPT !.announce = None] ELSE t
      BY <3>4
    <3> HIDE DEF u, a
    <3>6. take_floor(r, id) = IF is_handoff(r, id) THEN arm(t, id, FALSE, FALSE)
                              ELSE IF t.announce # None /\ t.announce.channel # id
                              THEN [t EXCEPT !.announce = None] ELSE t
      BY <1>2, <3>2 DEF take_floor, s, q
    <3> QED  BY <3>5, <3>6 DEF a
  <2> HIDE DEF ho
  <2>6. t \in RouterType /\ t.hold = ho
    BY <2>3, <2>4, HoldSet
  <2>7. SameBody(s, t) /\ SameRefs(s, t)
        /\ t.active = s.active /\ t.last_active = s.last_active
        /\ t.last_reader = s.last_reader /\ t.closed_reader_tab = s.closed_reader_tab
    BY <2>3 DEF RouterType, SameBody, SameRefs
  <2> HIDE DEF t
  <2>8. /\ SameBody(r, t) /\ t.active = id /\ t.last_active = id /\ t.last_reader = id
        /\ t.closed_reader_tab = None /\ t.focus = r.focus /\ t.reading = r.reading
        /\ t.priority = r.priority /\ t.authorized = r.authorized
        /\ t.suppressed \subseteq r.suppressed
    BY <2>2, <2>3, <2>7 DEF SameBody, SameRefs, SameFloor
  <2>9. /\ \A x \in r.authorized : is_open(r, x)
        /\ \A x \in r.suppressed : is_open(r, x[1])
    BY <2>1 DEF RefsOK
  <2>10. RouterOK(a)
    <3>1. Armed(t, id, a)
      BY Zenon DEF Armed
    <3>2. /\ a \in RouterType /\ SameBody(t, a) /\ SameRefs(t, a)
          /\ a.active = t.active /\ a.last_active = t.last_active
          /\ a.last_reader = t.last_reader /\ a.closed_reader_tab = t.closed_reader_tab
          /\ a.hold = t.hold /\ a.announce \in Switch /\ a.announce.channel = id
      BY <2>6, <3>1, ArmFields
    <3> HIDE DEF a
    <3>3. /\ SameBody(r, a) /\ a.focus = r.focus /\ a.reading = r.reading
          /\ a.priority = r.priority
      BY <2>8, <3>2 DEF SameBody, SameRefs
    <3>4. /\ \A x \in a.authorized : is_open(r, x)
          /\ \A x \in a.suppressed : is_open(r, x[1])
      BY <2>8, <2>9, <3>2 DEF SameRefs
    <3> QED  BY <1>2, <2>4, <2>6, <2>8, <3>2, <3>3, <3>4, FloorGiven
  <2>11. RouterOK(u)
    <3>1. an \in Switch \cup {None} /\ (an # None => an.channel = id)
      BY <2>6, RouterFields
    <3> HIDE DEF an
    <3>2. u \in RouterType /\ u.announce = an
      BY <2>6, <3>1, AnnounceSet
    <3>3. /\ SameBody(t, u) /\ SameRefs(t, u) /\ u.hold = t.hold
          /\ u.active = t.active /\ u.last_active = t.last_active
          /\ u.last_reader = t.last_reader /\ u.closed_reader_tab = t.closed_reader_tab
      BY <2>6 DEF RouterType, SameBody, SameRefs
    <3> HIDE DEF u
    <3>4. /\ SameBody(r, u) /\ u.focus = r.focus /\ u.reading = r.reading
          /\ u.priority = r.priority
      BY <2>8, <3>3 DEF SameBody, SameRefs
    <3>5. /\ \A x \in u.authorized : is_open(r, x)
          /\ \A x \in u.suppressed : is_open(r, x[1])
      BY <2>8, <2>9, <3>3 DEF SameRefs
    <3> QED  BY <1>2, <2>4, <2>6, <2>8, <3>1, <3>2, <3>3, <3>4, <3>5, FloorGiven
  <2> QED  BY <2>5, <2>10, <2>11
<1> QED  BY <1>1, <1>2

LEMMA RingLemma ==
  ASSUME NEW r, RouterOK(r), r.order # <<>>
  PROVE  ring_target(r) \in Ids /\ is_open(r, ring_target(r))
<1> DEFINE all == {id \in Ids : is_open(r, id)}
           b == behind(r, engaged(r))
           X == IF b = {} THEN ring(r) ELSE b
<1>1. r.order \in Seq(Ids) /\ Len(r.order) \in Nat
  BY RouterFields DEF RouterOK
<1>2. all # {}
  <2>1. 1 \in 1..Len(r.order) /\ r.order[1] \in Ids
    BY <1>1
  <2> QED  BY <2>1 DEF is_open
<1>3. ring(r) \subseteq all /\ ring(r) # {}
  <2> DEFINE loud == {id \in all : ~r.ch[id].muted}
             base == IF loud = {} THEN all ELSE loud
             full == {id \in base : r.ch[id].entries # <<>>}
  <2>1. ring(r) = IF full = {} THEN base ELSE full
    BY DEF ring
  <2> HIDE DEF all
  <2>2. base \subseteq all /\ base # {}
    BY <1>2
  <2> HIDE DEF base
  <2>3. full \subseteq base
    OBVIOUS
  <2> QED  BY <2>1, <2>2, <2>3
<1>4. b \subseteq ring(r)
  BY DEF behind
<1> HIDE DEF b
<1>5. X \subseteq all /\ X # {}
  BY <1>3, <1>4
<1> HIDE DEF X
<1>6. \E i \in 1..Len(r.order) : r.order[i] \in X
  <2>1. PICK x \in X : TRUE
    BY <1>5
  <2> QED  BY <1>5, <2>1 DEF is_open
<1>7. first_in(r.order, X) \in X
  BY <1>1, <1>6, FirstInLemma
<1>8. ring_target(r) = first_in(r.order, X)
  BY DEF ring_target, X, b
<1> QED  BY <1>5, <1>7, <1>8

LEMMA ReadAfterLemma ==
  ASSUME NEW c \in Channel, NEW n, BatchAt(n, c), NEW at \in Nat, at <= Len(c.entries),
         NEW replay \in BOOLEAN
  PROVE  /\ read_after(c, at, replay) \in Channel /\ BatchAt(n, read_after(c, at, replay))
         /\ read_after(c, at, replay).muted = c.muted
<1> DEFINE v == c.replaying \/ replay
           d == read_after(c, at, replay)
<1>1. v \in BOOLEAN
  OBVIOUS
<1>2. d = [c EXCEPT !.cursor = at, !.replaying = v]
  BY DEF read_after
<1> HIDE DEF v, d
<1>3. d \in Channel
  BY <1>1, <1>2 DEF Channel
<1>4. /\ d.entries = c.entries /\ d.decisions = c.decisions /\ d.aside = c.aside
      /\ d.muted = c.muted /\ d.cursor = at
  BY <1>2 DEF Channel
<1>5. BatchAt(n, d)
  BY <1>4 DEF BatchAt
<1> QED  BY <1>3, <1>4, <1>5 DEF d

LEMMA UnsuppressLemma ==
  ASSUME NEW r, RouterOK(r), NEW id
  PROVE  RouterOK(unsuppress(r, id))
<1> DEFINE s == unsuppress(r, id)
<1>1. r \in RouterType /\ RefsOK(r)
  BY DEF RouterOK
<1>2. /\ s \in RouterType /\ SameBody(r, s) /\ SameFloor(r, s)
      /\ s.focus = r.focus /\ s.reading = r.reading /\ s.priority = r.priority
      /\ s.authorized = r.authorized /\ s.suppressed \subseteq r.suppressed
  BY <1>1, UnsuppressFields
<1> HIDE DEF s
<1>3. \A x : is_open(s, x) <=> is_open(r, x)
  BY <1>2 DEF is_open, SameBody
<1>4. RefsOK(s)
  BY <1>1, <1>2, <1>3 DEF RefsOK, Refers, SameFloor
<1>5. RouterOK(s)
  BY <1>2, <1>4, OtherRefs
<1> QED  BY <1>5 DEF s

(* A channel put off until its batch changes.                              *)
PutOff(r, id) == [r EXCEPT !.suppressed = @ \cup {<<id, r.ch[id].gen>>}]

LEMMA PutOffLemma ==
  ASSUME NEW r, RouterOK(r), NEW id \in Ids, is_open(r, id)
  PROVE  RouterOK(PutOff(r, id)) /\ SameBody(r, PutOff(r, id))
<1> DEFINE g == <<id, r.ch[id].gen>>
           x == r.suppressed \cup {g}
           s == [r EXCEPT !.suppressed = x]
<1>1. r \in RouterType /\ RefsOK(r) /\ r.suppressed \in SUBSET (Ids \X Nat) /\ r.ch[id].gen \in Nat
  BY RouterFields, ChannelFields, ChannelAt DEF RouterOK
<1>2. g \in Ids \X Nat /\ g[1] = id
  BY <1>1
<1> HIDE DEF g
<1>3. x \in SUBSET (Ids \X Nat) /\ \A y \in x : y \in r.suppressed \/ y = g
  BY <1>1, <1>2
<1>4. PutOff(r, id) = s
  BY DEF PutOff, g
<1> HIDE DEF x
<1>5. /\ s.suppressed = x /\ SameBody(r, s) /\ SameFloor(r, s)
      /\ s.focus = r.focus /\ s.reading = r.reading /\ s.priority = r.priority
      /\ s.authorized = r.authorized /\ s.focus_only = r.focus_only /\ s.fed = r.fed
  BY <1>1 DEF RouterType, SameBody, SameFloor
<1>6. s = [r EXCEPT !.suppressed = x]
  OBVIOUS
<1> HIDE DEF s
<1>7. Shaped(s)
  BY <1>1, <1>6 DEF RouterType, Shaped
<1>8. s \in RouterType
  BY <1>1, <1>3, <1>5, <1>7, RouterFields, RouterMade DEF SameBody, SameFloor
<1>9. \A y : is_open(s, y) <=> is_open(r, y)
  BY <1>5 DEF is_open, SameBody
<1>10. RefsOK(s)
  BY <1>1, <1>2, <1>3, <1>5, <1>9 DEF RefsOK, Refers, SameFloor
<1>11. RouterOK(s)
  BY <1>5, <1>8, <1>10, OtherRefs
<1> QED  BY <1>4, <1>5, <1>11

(* The floor goes to a channel by hand: an announcement, maybe a replay.   *)
LEMMA ByHand ==
  ASSUME NEW r, RouterOK(r), NEW id \in Ids, is_open(r, id), r.hold = None,
         NEW u, Armed(set_reader(r, id), id, u)
  PROVE  RouterOK(u) /\ RouterOK(start_hold(u, id))
<1> DEFINE q == set_reader(r, id)
           w == start_hold(u, id)
<1>1. r \in RouterType /\ RefsOK(r)
  BY DEF RouterOK
<1>2. /\ q \in RouterType /\ SameBody(r, q) /\ SameRefs(r, q)
      /\ q.active = id /\ q.last_active = id /\ q.last_reader = id
      /\ q.closed_reader_tab = None /\ q.hold = None
  BY <1>1, SetReaderFields
<1>3. Armed(q, id, u)
  OBVIOUS
<1> HIDE DEF q
<1>4. /\ u \in RouterType /\ SameBody(q, u) /\ SameRefs(q, u)
      /\ u.active = q.active /\ u.last_active = q.last_active
      /\ u.last_reader = q.last_reader /\ u.closed_reader_tab = q.closed_reader_tab
      /\ u.hold = q.hold /\ u.announce.channel = id
  BY <1>2, <1>3, ArmFields
<1>5. SameBody(r, u) /\ SameRefs(r, u)
  BY <1>2, <1>4 DEF SameBody, SameRefs
<1>6. /\ \A x \in r.authorized : is_open(r, x)
      /\ \A x \in r.suppressed : is_open(r, x[1])
  BY <1>1 DEF RefsOK
<1>7. RouterOK(u)
  BY <1>2, <1>4, <1>5, <1>6, FloorGiven DEF SameRefs
<1>8. /\ w \in RouterType /\ SameBody(u, w) /\ SameRefs(u, w)
      /\ w.active = u.active /\ w.last_active = u.last_active
      /\ w.last_reader = u.last_reader /\ w.closed_reader_tab = u.closed_reader_tab
      /\ w.announce = u.announce /\ w.hold[1] = id
  BY <1>4, HoldFields
<1> HIDE DEF w
<1>9. SameBody(r, w) /\ SameRefs(r, w)
  BY <1>5, <1>8 DEF SameBody, SameRefs
<1>10. RouterOK(w)
  BY <1>2, <1>4, <1>6, <1>8, <1>9, FloorGiven DEF SameRefs
<1> QED  BY <1>7, <1>10 DEF w

LEMMA NextChannelLemma ==
  ASSUME NEW r, RouterOK(r)
  PROVE  RouterOK(next_channel(r))
<1>1. CASE r.order = <<>>
  BY <1>1 DEF next_channel
<1>2. CASE r.order # <<>>
  <2> DEFINE target == ring_target(r)
             c == r.ch[target]
             replay == caught_up(c) \/ engaged(r) = target \/ c.replaying
             x == unsuppress(r, r.active)
             s == IF r.active # None /\ r.active # target
                  THEN [x EXCEPT !.suppressed = @ \cup {<<r.active, r.ch[r.active].gen>>}] ELSE r
             v == unsuppress(s, target)
             k == IF replay THEN 0 ELSE c.cursor
             d == read_after(v.ch[target], k, replay)
             y == [v EXCEPT !.ch[target] = d]
             t == [y EXCEPT !.hold = None]
             z == [v EXCEPT !.ch[target] = d, !.hold = None]
             u == arm(set_reader(t, target), target, replay, TRUE)
  <2>1. target \in Ids /\ is_open(r, target)
    BY <1>2, RingLemma
  <2>2. next_channel(r) = IF replay THEN start_hold(arm(set_reader(z, target), target, replay, TRUE), target)
                          ELSE arm(set_reader(z, target), target, replay, TRUE)
    BY <1>2, Zenon DEF next_channel
  <2> HIDE DEF target
  <2>3. /\ r \in RouterType /\ r.active \in Ids \cup {None} /\ RefsOK(r)
        /\ c \in Channel /\ BatchAt(r.next_entry, c) /\ c.cursor \in Nat /\ c.replaying \in BOOLEAN
        /\ Len(c.entries) \in Nat
    BY <2>1, RouterFields, ChannelAt, ChannelFields DEF RouterOK
  <2>4. replay \in BOOLEAN
    OBVIOUS
  <2> HIDE DEF replay
  <2>5. k \in Nat /\ k <= Len(c.entries)
    BY <2>3 DEF BatchAt
  <2> HIDE DEF k
  <2>6. RouterOK(x) /\ SameBody(r, x)
    BY <2>3, UnsuppressLemma, UnsuppressFields
  <2> HIDE DEF x
  <2>7. RouterOK(s) /\ SameBody(r, s)
    <3>1. CASE r.active # None /\ r.active # target
      <4>1. r.active \in Ids /\ is_open(x, r.active)
        BY <2>3, <2>6, <3>1 DEF RefsOK, Refers, is_open, SameBody
      <4>2. s = PutOff(x, r.active)
        BY <2>6, <3>1 DEF PutOff, SameBody
      <4>3. RouterOK(PutOff(x, r.active)) /\ SameBody(x, PutOff(x, r.active))
        BY <2>6, <4>1, PutOffLemma
      <4> HIDE DEF s
      <4> QED  BY <2>6, <4>2, <4>3 DEF SameBody
    <3>2. CASE ~(r.active # None /\ r.active # target)
      BY <3>2 DEF SameBody
    <3> QED  BY <3>1, <3>2
  <2> HIDE DEF s
  <2>8. RouterOK(v) /\ SameBody(s, v)
    <3>1. s \in RouterType
      BY <2>7 DEF RouterOK
    <3> QED  BY <2>7, <3>1, UnsuppressLemma, UnsuppressFields
  <2> HIDE DEF v
  <2>9. v.ch[target] = c /\ v.next_entry = r.next_entry /\ is_open(v, target)
    BY <2>1, <2>7, <2>8 DEF SameBody, is_open
  <2>10. d \in Channel /\ BatchAt(v.next_entry, d) /\ d.muted = v.ch[target].muted
    <3> HIDE DEF c
    <3> QED  BY <2>3, <2>4, <2>5, <2>9, ReadAfterLemma
  <2> HIDE DEF d
  <2>11. RouterOK(y)
    BY <2>1, <2>8, <2>9, <2>10, SetChannel
  <2>12. v \in RouterType
    BY <2>8 DEF RouterOK
  <2>13. y.order = v.order
    BY <2>12 DEF RouterType
  <2>14. z = t
    BY <2>12 DEF RouterType
  <2> HIDE DEF y, z
  <2>15. y \in RouterType
    BY <2>11 DEF RouterOK
  <2>16. RouterOK(t)
    BY <2>11, NoHold
  <2>17. t.hold = None /\ is_open(t, target)
    BY <2>9, <2>13, <2>15 DEF is_open, RouterType
  <2> HIDE DEF t
  <2>18. Armed(set_reader(t, target), target, u)
    BY <2>4, Zenon DEF Armed
  <2> HIDE DEF u
  <2>19. RouterOK(u) /\ RouterOK(start_hold(u, target))
    BY <2>1, <2>16, <2>17, <2>18, ByHand
  <2>20. next_channel(r) = IF replay THEN start_hold(u, target) ELSE u
    BY <2>2, <2>14, Zenon DEF u
  <2> QED  BY <2>19, <2>20
<1> QED  BY <1>1, <1>2

LEMMA ReadAtLemma ==
  ASSUME NEW r, RouterOK(r), NEW id \in Ids, NEW e, NEW replay \in BOOLEAN
  PROVE  RouterOK(read_at(r, id, e, replay))
<1>1. CASE ~readable(r, id, e)
  BY <1>1 DEF read_at
<1>2. CASE readable(r, id, e)
  <2> DEFINE b == r.ch[id]
             at == CHOOSE i \in 1..Len(b.entries) : b.entries[i] = e
             k == IF e = None THEN 0 ELSE at - 1
             d == read_after(b, k, replay)
             s == [r EXCEPT !.ch[id] = d]
             q == set_reader(s, id)
             t == unsuppress(q, id)
             au == t.authorized \cup {id}
             w == [t EXCEPT !.authorized = au]
             u == start_hold(w, id)
             a == arm(u, id, replay, TRUE)
  <2>1. /\ r \in RouterType /\ FloorOK(r) /\ is_open(r, id) /\ b \in Channel
        /\ BatchAt(r.next_entry, b) /\ Len(b.entries) \in Nat /\ id # None
    BY <1>2, ChannelAt, ChannelFields, RouterConstants DEF RouterOK, readable
  <2>2. k \in Nat /\ k <= Len(b.entries)
    <3>1. e # None => at \in 1..Len(b.entries)
      BY <1>2 DEF readable, has_entry
    <3> HIDE DEF at
    <3> QED  BY <2>1, <3>1
  <2>3. read_at(r, id, e, replay) = IF is_handoff(r, id) THEN a ELSE u
    BY <1>2, Zenon DEF read_at
  <2> HIDE DEF k
  <2>4. d \in Channel /\ BatchAt(r.next_entry, d) /\ d.muted = b.muted
    <3> HIDE DEF b
    <3> QED  BY <2>1, <2>2, ReadAfterLemma
  <2> HIDE DEF d
  <2>5. RouterOK(s)
    BY <2>1, <2>4, SetChannel
  <2>6. is_open(s, id) /\ SameFloor(r, s)
    BY <2>1 DEF is_open, RouterType, SameFloor
  <2> HIDE DEF s
  <2>7. s \in RouterType /\ RefsOK(s)
    BY <2>5 DEF RouterOK
  <2>8. /\ q \in RouterType /\ SameBody(s, q) /\ SameRefs(s, q)
        /\ q.active = id /\ q.last_active = id /\ q.last_reader = id
        /\ q.closed_reader_tab = None /\ q.announce = s.announce
    BY <2>7, SetReaderFields
  <2> HIDE DEF q
  <2>9. /\ t \in RouterType /\ SameBody(q, t) /\ SameFloor(q, t)
        /\ t.focus = q.focus /\ t.reading = q.reading /\ t.priority = q.priority
        /\ t.authorized = q.authorized /\ t.suppressed \subseteq q.suppressed
    BY <2>8, UnsuppressFields
  <2> HIDE DEF t
  <2>10. au \in SUBSET Ids /\ \A y \in au : y = id \/ y \in t.authorized
    BY <2>9, RouterFields
  <2> HIDE DEF au
  <2>11. /\ w.authorized = au /\ SameBody(t, w) /\ SameFloor(t, w) /\ w.focus = t.focus
         /\ w.reading = t.reading /\ w.priority = t.priority /\ w.suppressed = t.suppressed
         /\ w.focus_only = t.focus_only /\ w.fed = t.fed
    BY <2>9 DEF RouterType, SameBody, SameFloor
  <2>12. w \in RouterType
    <3>1. w = [t EXCEPT !.authorized = au]
      OBVIOUS
    <3> HIDE DEF w
    <3>2. Shaped(w)
      BY <2>9, <3>1 DEF RouterType, Shaped
    <3> QED  BY <2>9, <2>10, <2>11, <3>2, RouterFields, RouterMade DEF SameBody, SameFloor
  <2> HIDE DEF w
  <2>13. /\ u \in RouterType /\ SameBody(w, u) /\ SameRefs(w, u)
         /\ u.active = w.active /\ u.last_active = w.last_active
         /\ u.last_reader = w.last_reader /\ u.closed_reader_tab = w.closed_reader_tab
         /\ u.announce = w.announce /\ u.hold[1] = id
    BY <2>12, HoldFields
  <2> HIDE DEF u
  <2>14. /\ SameBody(s, u) /\ u.focus = s.focus /\ u.reading = s.reading /\ u.priority = s.priority
         /\ u.active = id /\ u.last_active = id /\ u.last_reader = id
         /\ u.closed_reader_tab = None /\ u.announce = r.announce
    BY <2>6, <2>8, <2>9, <2>11, <2>13 DEF SameBody, SameRefs, SameFloor
  <2>15. /\ \A y \in u.authorized : is_open(s, y)
         /\ \A y \in u.suppressed : is_open(s, y[1])
    <3>1. /\ \A y \in s.authorized : is_open(s, y)
          /\ \A y \in s.suppressed : is_open(s, y[1])
      BY <2>7 DEF RefsOK
    <3>2. u.authorized = au /\ u.suppressed \subseteq s.suppressed /\ t.authorized = s.authorized
      BY <2>8, <2>9, <2>11, <2>13 DEF SameRefs
    <3> QED  BY <2>6, <2>10, <3>1, <3>2
  <2>16. CASE is_handoff(r, id)
    <3>1. Armed(u, id, a)
      BY Zenon DEF Armed
    <3> HIDE DEF a
    <3>2. /\ a \in RouterType /\ SameBody(u, a) /\ SameRefs(u, a)
          /\ a.active = u.active /\ a.last_active = u.last_active
          /\ a.last_reader = u.last_reader /\ a.closed_reader_tab = u.closed_reader_tab
          /\ a.hold = u.hold /\ a.announce.channel = id
      BY <2>13, <3>1, ArmFields
    <3>3. SameBody(s, a)
      BY <2>14, <3>2 DEF SameBody
    <3>4. RouterOK(a)
      BY <2>5, <2>6, <2>13, <2>14, <2>15, <3>2, <3>3, FloorGiven DEF SameRefs
    <3> QED  BY <2>3, <2>16, <3>4
  <2>17. CASE ~is_handoff(r, id)
    <3>1. r.announce # None => r.announce.channel = id
      <4> SUFFICES ASSUME r.announce # None PROVE r.announce.channel = id
        OBVIOUS
      <4>1. r.announce \in Switch
        BY <2>1, RouterFields
      <4>2. r.announce.channel \in Ids /\ r.announce.channel = r.active
        BY <2>1, <4>1 DEF Switch, FloorOK
      <4>3. r.active # None /\ r.last_reader = r.active /\ r.closed_reader_tab = None
        BY <2>1, <4>2, RouterConstants DEF FloorOK
      <4> QED  BY <2>17, <4>2, <4>3 DEF is_handoff
    <3>2. RouterOK(u)
      BY <2>5, <2>6, <2>13, <2>14, <2>15, <3>1, FloorGiven
    <3> QED  BY <2>3, <2>17, <3>2
  <2> QED  BY <2>16, <2>17
<1> QED  BY <1>1, <1>2

-----------------------------------------------------------------------------
(* The specification.                                                      *)

LEMMA NewRouterOK == RouterOK(new_router)
<1> DEFINE s == new_router
<1>1. NotOpen \in Channel
  BY NotOpenLemma
<1>10. <<>> \in Seq(Ids) /\ Len(<<>>) = 0 /\ None \in Tab
  BY DEF Tab
<1>2. /\ s.order = <<>> /\ s.ch = [id \in Ids |-> NotOpen] /\ s.next_entry = 0
      /\ s.active = None /\ s.last_active = None /\ s.last_reader = None
      /\ s.closed_reader_tab = None /\ s.focus = None /\ s.announce = None
      /\ s.reading = None /\ s.suppressed = {} /\ s.priority = <<>> /\ s.hold = None
      /\ s.muted = {} /\ s.focus_only = FALSE /\ s.authorized = {} /\ s.fed = None
  BY DEF new_router
<1>3. Shaped(s)
  BY Zenon DEF new_router, Shaped
<1> HIDE DEF s
<1>4. s \in RouterType
  <2>1. [id \in Ids |-> NotOpen] \in [Ids -> Channel]
    BY <1>1
  <2>2. 0 \in Nat /\ FALSE \in BOOLEAN
    OBVIOUS
  <2> QED  BY <1>2, <1>3, <1>10, <2>1, <2>2, RouterMade
<1>5. \A x : ~is_open(s, x)
  BY <1>2, <1>10 DEF is_open
<1>6. RefsOK(s) /\ FloorOK(s)
  BY <1>2, <1>10 DEF RefsOK, Refers, FloorOK
<1>7. OpenOK(s)
  BY <1>2, <1>5, <1>10 DEF OpenOK
<1>8. BatchesOK(s)
  BY <1>2, NotOpenLemma, BatchIsAt DEF BatchesOK
<1>9. RouterOK(s)
  BY <1>4, <1>6, <1>7, <1>8 DEF RouterOK
<1> QED  BY <1>9 DEF s

LEMMA OKImplies ==
  ASSUME RouterOK(router)
  PROVE  RouterInv
  BY DEF RouterOK, RouterInv, BatchesOK

LEMMA RouterSteps ==
  ASSUME RouterOK(router), RouterNext
  PROVE  RouterOK(router')
<1> DEFINE r == RouterCalled
<1>1. RouterOK(r)
  BY FedLemma DEF RouterCalled
<1> HIDE DEF r
<1>2. ASSUME NEW x, RouterOK(x), Returns(x) PROVE RouterOK(router')
  BY <1>2 DEF Returns
<1>3. CASE Opens
  BY <1>1, <1>2, <1>3, OpenLemma DEF Opens, r
<1>4. CASE Labels
  BY <1>1, <1>2, <1>4, LabelLemma DEF Labels, r
<1>5. CASE Closes
  BY <1>1, <1>2, <1>5, CloseLemma DEF Closes, r
<1>6. CASE Gates
  <2>1. ASSUME NEW id \in Ids, \/ Returns(focus(r, id)) \/ Returns(authorize(r, id))
                               \/ Returns(prioritize(r, id))
        PROVE  RouterOK(router')
    BY <1>1, <1>2, <2>1, FocusLemma, AuthorizeLemma, PrioritizeLemma
  <2>2. ASSUME NEW on \in BOOLEAN, Returns(set_focus_only(r, on)) PROVE RouterOK(router')
    BY <1>1, <1>2, <2>2, FocusOnlyLemma
  <2> QED  BY <1>6, <2>1, <2>2 DEF Gates, r
<1>7. CASE Mutes
  BY <1>1, <1>2, <1>7, MutedLemma DEF Mutes, r
<1>8. CASE Pushes
  BY <1>1, <1>2, <1>8, PushLemma DEF Pushes, r
<1>9. CASE Appends
  BY <1>1, <1>2, <1>9, AppendLemma DEF Appends, r
<1>10. CASE Resolves
  BY <1>1, <1>2, <1>10, DropLemma DEF Resolves, r
<1>11. CASE Asides
  BY <1>1, <1>2, <1>11, AsideLemma DEF Asides, r
<1>12. CASE Flushes
  BY <1>1, <1>2, <1>12, FlushAllLemma, FlushOneLemma, EndBatchLemma DEF Flushes, r
<1>13. CASE Feeds
  BY <1>1, <1>2, <1>13, NextFeedLemma, DoneLemma DEF Feeds, r
<1>14. CASE Rewinds
  BY <1>1, <1>2, <1>14, RewindLemma DEF Rewinds, r
<1>15. CASE Switches
  BY <1>1, <1>2, <1>15, NextChannelLemma, TakeFloorLemma, TidyLemma DEF Switches, r
<1>16. CASE Replays
  BY <1>1, <1>2, <1>16, ReadAtLemma DEF Replays, r
<1> QED  BY <1>3, <1>4, <1>5, <1>6, <1>7, <1>8, <1>9, <1>10, <1>11, <1>12, <1>13, <1>14,
            <1>15, <1>16 DEF RouterNext

(* Whatever methods of router.rs are called, in whatever order, the        *)
(* references name open channels, the three memories of who reads agree,   *)
(* a mute is the one remembered, and every batch's cursor and marks are    *)
(* about its own entries.                                                  *)
THEOREM RouterCorrect == RouterSpec => []RouterInv
<1> DEFINE I == RouterOK(router)
<1>1. RouterInit => I
  BY NewRouterOK DEF RouterInit
<1>2. I /\ [RouterNext]_router => I'
  <2>1. CASE RouterNext
    BY <2>1, RouterSteps
  <2>2. CASE UNCHANGED router
    BY <2>2
  <2> QED  BY <2>1, <2>2
<1>3. I => RouterInv
  BY OKImplies
<1> QED  BY <1>1, <1>2, <1>3, PTL DEF RouterSpec

-----------------------------------------------------------------------------
(* The driver.                                                             *)

(* The reader calls that feed nothing, and what is left to do: a call that *)
(* speaks is the next one, and then there is something to speak.           *)
Mute == {"Pump", "CutOther", "CutPlaying", "Unpause"} \cup P!Control

TodoOK(todo, r) ==
  \/ todo \in Seq(Mute)
  \/ r.fed # None /\ \E c \in {"Speak", "SpeakNow"}, q \in Seq(Mute) : todo = <<c>> \o q

DriverOK ==
  /\ driver = [in_flight |-> in_flight, todo |-> driver.todo]
  /\ in_flight # None => in_flight.channel \in Ids
  /\ TodoOK(driver.todo, router)

ChannelsOK == RouterOK(router) /\ DriverOK

LEMMA MuteCalls ==
  /\ <<>> \in Seq(Mute) /\ <<"Pump">> \in Seq(Mute) /\ <<"Skip">> \in Seq(Mute)
  /\ <<"CutPlaying">> \in Seq(Mute) /\ <<"Restart">> \in Seq(Mute) /\ <<"Stop">> \in Seq(Mute)
  /\ <<"CutOther">> \in Seq(Mute) /\ <<"Play">> \in Seq(Mute)
  /\ <<"Previous">> \in Seq(Mute) /\ <<"Next">> \in Seq(Mute)
  /\ <<"Skip", "Unpause", "Pump">> \in Seq(Mute)
  /\ \A c \in P!Control : <<c>> \in Seq(Mute)
  BY DEF Mute, P!Control

LEMMA TodoTail ==
  ASSUME NEW r, NEW todo, TodoOK(todo, r), todo # <<>>
  PROVE  /\ Tail(todo) \in Seq(Mute)
         /\ Head(todo) \in Mute \cup {"Speak", "SpeakNow"}
         /\ Head(todo) \in {"Speak", "SpeakNow"} => r.fed # None
<1>1. CASE todo \in Seq(Mute)
  <2>1. Tail(todo) \in Seq(Mute) /\ Head(todo) \in Mute
    BY <1>1
  <2>2. Head(todo) \notin {"Speak", "SpeakNow"}
    BY <2>1 DEF Mute, P!Control
  <2> QED  BY <2>1, <2>2
<1>2. CASE todo \notin Seq(Mute)
  <2>1. PICK c \in {"Speak", "SpeakNow"}, q \in Seq(Mute) : todo = <<c>> \o q
    BY <1>2 DEF TodoOK
  <2>2. r.fed # None
    BY <1>2 DEF TodoOK
  <2>3. Head(todo) = c /\ Tail(todo) = q
    BY <2>1
  <2> QED  BY <2>1, <2>2, <2>3
<1> QED  BY <1>1, <1>2

LEMMA NextSpokenLemma ==
  ASSUME NEW r, RouterOK(r)
  PROVE  RouterOK(next_spoken(r))
  BY NextFeedLemma DEF next_spoken, past_silent

LEMMA LeavesLemma ==
  ASSUME NEW r, RouterOK(r), NEW f, f # None => f.channel \in Ids,
         NEW todo, TodoOK(todo, r), Leaves(r, f, todo)
  PROVE  ChannelsOK'
<1>1. router' = r /\ driver' = [in_flight |-> f, todo |-> todo]
  BY DEF Leaves
<1>2. in_flight' = f /\ driver'.todo = todo
  BY <1>1 DEF in_flight
<1>3. DriverOK'
  BY <1>1, <1>2 DEF DriverOK
<1> QED  BY <1>1, <1>3 DEF ChannelsOK

LEMMA DoesLemma ==
  ASSUME ChannelsOK, NEW r, RouterOK(r), NEW todo \in Seq(Mute), Does(r, todo)
  PROVE  ChannelsOK'
  BY LeavesLemma DEF Does, ChannelsOK, DriverOK, TodoOK

LEMMA CutIfLemma ==
  ASSUME ChannelsOK, NEW r, RouterOK(r), NEW id, NEW todo \in Seq(Mute), cut_if(r, id, todo)
  PROVE  ChannelsOK'
<1>1. <<"Skip">> \o todo \in Seq(Mute)
  BY MuteCalls, ConcatLemma
<1>2. TodoOK(<<"Skip">> \o todo, done(r))
  BY <1>1 DEF TodoOK
<1>3. RouterOK(done(r))
  BY DoneLemma
<1> HIDE DEF TodoOK
<1> QED  BY <1>2, <1>3, LeavesLemma, DoesLemma DEF cut_if

LEMMA FeedNowLemma ==
  ASSUME ChannelsOK, NEW r, RouterOK(r), NEW id, NEW cut \in Seq(Mute), feed_now(r, id, cut)
  PROVE  ChannelsOK'
<1> DEFINE v == rewound(r, id)
           s == next_spoken(v)
           todo == IF s.fed = None THEN cut ELSE <<"SpeakNow">>
<1>1. RouterOK(v)
  BY RewindLemma DEF rewound, ChannelsOK, DriverOK
<1> HIDE DEF v
<1>2. RouterOK(s)
  BY <1>1, NextSpokenLemma
<1>3. Leaves(s, None, todo)
  BY DEF feed_now, v
<1> HIDE DEF s
<1>4. TodoOK(todo, s)
  <2>1. <<>> \in Seq(Mute) /\ <<"SpeakNow">> = <<"SpeakNow">> \o <<>>
    BY MuteCalls
  <2> QED  BY <2>1 DEF TodoOK
<1> HIDE DEF todo
<1> QED  BY <1>2, <1>3, <1>4, LeavesLemma

(* What flush_one leaves alone.                                            *)
LEMMA FlushOneSame ==
  ASSUME NEW r, RouterOK(r), NEW id
  PROVE  /\ flush_one(r, id).order = r.order /\ flush_one(r, id).muted = r.muted
         /\ flush_one(r, id).next_entry = r.next_entry
<1> DEFINE t == end_hold(r, id)
           an == IF t.announce # None /\ t.announce.channel = id THEN None ELSE t.announce
           c == skip_to_end([t.ch[id] EXCEPT !.growing = FALSE])
<1>1. r \in RouterType
  BY DEF RouterOK
<1>2. t \in RouterType /\ t.order = r.order /\ t.muted = r.muted /\ t.next_entry = r.next_entry
  <2>1. t \in RouterType
    BY EndHoldLemma DEF RouterOK
  <2>2. t.order = r.order /\ t.muted = r.muted /\ t.next_entry = r.next_entry
    BY <1>1 DEF end_hold, RouterType
  <2> QED  BY <2>1, <2>2
<1>3. flush_one(r, id) = [t EXCEPT !.announce = an, !.ch[id] = c]
  BY DEF flush_one
<1> HIDE DEF t, an, c
<1> QED  BY <1>2, <1>3 DEF RouterType

LEMMA FlushSetLemma ==
  ASSUME NEW r, RouterOK(r), NEW ids
  PROVE  RouterOK(flush_set(r, ids))
<1> DEFINE f == [id \in Ids |-> IF id \in ids THEN flush_one(r, id).ch[id] ELSE r.ch[id]]
           ho == IF r.hold # None /\ r.hold[1] \in ids THEN None ELSE r.hold
           an == IF r.announce # None /\ r.announce.channel \in ids THEN None ELSE r.announce
           s == [r EXCEPT !.ch = f, !.hold = ho, !.announce = an]
<1>1. /\ r \in RouterType /\ RefsOK(r) /\ FloorOK(r) /\ OpenOK(r) /\ BatchesOK(r)
      /\ r.ch \in [Ids -> Channel]
  BY RouterFields DEF RouterOK
<1>2. flush_set(r, ids) = s
  BY DEF flush_set
<1>3. ASSUME NEW x \in Ids
      PROVE  /\ f[x] \in Channel /\ BatchAt(r.next_entry, f[x])
             /\ IF is_open(r, x) THEN f[x].muted = (x \in r.muted) ELSE f[x] = NotOpen
  <2>1. CASE x \notin ids
    BY <2>1, ChannelAt
  <2>2. CASE x \in ids
    <3> DEFINE q == flush_one(r, x)
    <3>1. f[x] = q.ch[x]
      BY <2>2
    <3>2. RouterOK(q) /\ q.order = r.order /\ q.muted = r.muted /\ q.next_entry = r.next_entry
      BY FlushOneLemma, FlushOneSame
    <3> HIDE DEF f, q
    <3>3. /\ q.ch[x] \in Channel /\ BatchAt(q.next_entry, q.ch[x])
          /\ (~is_open(q, x) => q.ch[x] = NotOpen)
          /\ (is_open(q, x) => q.ch[x].muted = (x \in q.muted))
      BY <3>2, ChannelAt
    <3>4. is_open(q, x) <=> is_open(r, x)
      BY <3>2 DEF is_open
    <3> QED  BY <3>1, <3>2, <3>3, <3>4
  <2> QED  BY <2>1, <2>2
<1>4. f \in [Ids -> Channel]
  <2>1. f = [x \in Ids |-> f[x]]
    OBVIOUS
  <2> HIDE DEF f
  <2> QED  BY <1>3, <2>1
<1>5. /\ ho \in (Ids \X Nat) \cup {None} /\ an \in Switch \cup {None}
      /\ (ho # None => ho = r.hold) /\ (an # None => an = r.announce)
  BY <1>1, RouterFields
<1> HIDE DEF f, ho, an
<1>6. /\ s.ch = f /\ s.hold = ho /\ s.announce = an /\ s.order = r.order /\ s.muted = r.muted
      /\ s.next_entry = r.next_entry /\ SameRefs(r, s) /\ s.active = r.active
      /\ s.last_active = r.last_active /\ s.last_reader = r.last_reader
      /\ s.closed_reader_tab = r.closed_reader_tab /\ s.focus_only = r.focus_only
      /\ s.fed = r.fed
  BY <1>1 DEF RouterType, SameRefs
<1>7. s \in RouterType
  <2>1. s = [r EXCEPT !.ch = f, !.hold = ho, !.announce = an]
    OBVIOUS
  <2> HIDE DEF s
  <2>2. Shaped(s)
    BY <1>1, <2>1 DEF RouterType, Shaped
  <2> QED  BY <1>1, <1>4, <1>5, <1>6, <2>2, RouterFields, RouterMade DEF SameRefs
<1> HIDE DEF s
<1>8. \A x : is_open(s, x) <=> is_open(r, x)
  BY <1>6 DEF is_open
<1>9. FloorOK(s)
  BY <1>1, <1>5, <1>6 DEF FloorOK
<1>10. RefsOK(s)
  BY <1>1, <1>5, <1>6, <1>8 DEF RefsOK, Refers, SameRefs
<1>11. OpenOK(s)
  <2>1. ASSUME NEW x \in Ids
        PROVE  IF is_open(s, x) THEN s.ch[x].muted = (x \in s.muted) ELSE s.ch[x] = NotOpen
    BY <1>3, <1>6, <1>8
  <2> QED  BY <1>1, <1>6, <2>1 DEF OpenOK
<1>12. BatchesOK(s)
  BY <1>3, <1>6, BatchIsAt DEF BatchesOK
<1>13. RouterOK(s)
  BY <1>7, <1>9, <1>10, <1>11, <1>12 DEF RouterOK
<1> QED  BY <1>2, <1>13

LEMMA OpenedLemma ==
  ASSUME RouterOK(router), NEW id \in Ids
  PROVE  RouterOK(opened(id))
<1>1. None \in Tab /\ None \in Policy \cup {None} /\ FALSE \in BOOLEAN
  BY DEF Tab
<1> QED  BY <1>1, OpenLemma DEF opened

LEMMA SpeakLemma ==
  ASSUME ChannelsOK, NEW id \in Ids, NEW mode, NEW interrupt \in BOOLEAN, Speak(id, mode, interrupt)
  PROVE  ChannelsOK'
<1> DEFINE r == opened(id)
           replace == mode = "Replace" \/ (mode = None /\ r.ch[id].policy = "Latest")
           p == push_with(r, id, replace, interrupt)
           s == authorize(p, id)
           cut == IF in_flight = None THEN <<>> ELSE <<"Skip">>
<1>1. RouterOK(r)
  BY OpenedLemma DEF ChannelsOK
<1>2. replace \in BOOLEAN
  OBVIOUS
<1>3. IF interrupt /\ id \notin router.muted THEN feed_now(take_floor(s, id), id, cut)
      ELSE Does(s, <<"Pump">>)
  BY Zenon DEF Speak
<1> HIDE DEF r, replace
<1>4. RouterOK(p)
  BY <1>1, <1>2, PushLemma
<1> HIDE DEF p
<1>5. RouterOK(s)
  BY <1>4, AuthorizeLemma
<1> HIDE DEF s
<1>6. RouterOK(take_floor(s, id))
  BY <1>5, TakeFloorLemma
<1>7. cut \in Seq(Mute)
  BY MuteCalls
<1> HIDE DEF cut
<1>8. <<"Pump">> \in Seq(Mute)
  BY MuteCalls
<1> QED  BY <1>3, <1>5, <1>6, <1>7, <1>8, FeedNowLemma, DoesLemma

LEMMA ReadLemma ==
  ASSUME ChannelsOK, NEW id \in Ids, NEW e, ReadFrom(id, e) \/ StepTo(id, e)
  PROVE  ChannelsOK'
<1>1. <<"CutPlaying">> \in Seq(Mute)
  BY MuteCalls
<1>2. RouterOK(read_at(router, id, e, TRUE)) /\ RouterOK(read_at(router, id, e, FALSE))
  BY ReadAtLemma DEF ChannelsOK
<1> QED  BY <1>1, <1>2, FeedNowLemma DEF ReadFrom, StepTo, cut_and_feed

LEMMA ChannelOpsLemma ==
  ASSUME ChannelsOK, ChannelOps
  PROVE  ChannelsOK'
<1>1. RouterOK(router)
  BY DEF ChannelsOK
<1> PICK id \in Ids :
    \/ \E named \in BOOLEAN, tab \in Tab, p \in Policy \cup {None} : Open(id, named, tab, p)
    \/ Close(id) \/ LabelIfMissing(id) \/ Focus(id) \/ Prioritize(id) \/ Authorize(id)
    \/ \E mode \in {"Append", "Replace", None}, interrupt \in BOOLEAN :
         Speak(id, mode, interrupt)
    \/ \E decision, heard \in BOOLEAN : Add(id, decision, heard)
    \/ EndBatch(id) \/ \E which \in Resolved : DropDecisions(id, which)
    \/ \E e \in 1..MaxEntries, aside \in BOOLEAN : SetAside(id, e, aside)
    \/ \E on \in BOOLEAN : SetMuted(id, on)
    \/ \E e \in 1..MaxEntries \cup {None} : ReadFrom(id, e)
    \/ \E c \in P!Control : ControlOne(c, id)
  BY Zenon DEF ChannelOps
<1>2. /\ <<>> \in Seq(Mute) /\ <<"Pump">> \in Seq(Mute)
      /\ \A c \in P!Control : <<c>> \in Seq(Mute)
  BY MuteCalls
<1>3. ASSUME NEW named \in BOOLEAN, NEW tab \in Tab, NEW p \in Policy \cup {None},
             Open(id, named, tab, p)
      PROVE  ChannelsOK'
  BY <1>1, <1>2, <1>3, OpenLemma, DoesLemma DEF Open
<1>4. CASE Close(id)
  BY <1>1, <1>2, <1>4, CloseLemma, CutIfLemma DEF Close
<1>5. CASE LabelIfMissing(id)
  BY <1>1, <1>2, <1>5, LabelLemma, DoesLemma DEF LabelIfMissing
<1>6. CASE Focus(id) \/ Prioritize(id) \/ Authorize(id)
  BY <1>1, <1>2, <1>6, FocusLemma, PrioritizeLemma, AuthorizeLemma, DoesLemma
     DEF Focus, Prioritize, Authorize
<1>7. ASSUME NEW mode, NEW interrupt \in BOOLEAN, Speak(id, mode, interrupt)
      PROVE  ChannelsOK'
  BY <1>7, SpeakLemma
<1>8. ASSUME NEW decision \in BOOLEAN, NEW heard \in BOOLEAN, Add(id, decision, heard)
      PROVE  ChannelsOK'
  <2>1. RouterOK(append(opened(id), id, decision, heard))
    BY <1>1, OpenedLemma, AppendLemma
  <2> QED  BY <1>2, <1>8, <2>1, DoesLemma DEF Add
<1>9. CASE EndBatch(id)
  BY <1>1, <1>2, <1>9, EndBatchLemma, DoesLemma DEF EndBatch
<1>10. ASSUME NEW which \in Resolved, DropDecisions(id, which) PROVE ChannelsOK'
  BY <1>1, <1>2, <1>10, DropLemma, DoesLemma DEF DropDecisions
<1>11. ASSUME NEW e, NEW aside \in BOOLEAN, SetAside(id, e, aside) PROVE ChannelsOK'
  BY <1>1, <1>2, <1>11, AsideLemma, DoesLemma DEF SetAside
<1>12. ASSUME NEW on \in BOOLEAN, SetMuted(id, on) PROVE ChannelsOK'
  <2>1. RouterOK(set_muted(router, id, TRUE)) /\ RouterOK(set_muted(router, id, FALSE))
    BY <1>1, MutedLemma
  <2> QED  BY <1>2, <1>12, <2>1, CutIfLemma, DoesLemma DEF SetMuted
<1>13. ASSUME NEW e, ReadFrom(id, e) PROVE ChannelsOK'
  BY <1>13, ReadLemma
<1>14. ASSUME NEW c \in P!Control, ControlOne(c, id) PROVE ChannelsOK'
  <2>1. RouterOK(flush_one(router, id))
    BY <1>1, FlushOneLemma
  <2>2. CASE cut_if(flush_one(router, id), id, <<"Pump">>)
    BY <1>2, <2>1, <2>2, CutIfLemma
  <2>3. CASE ReadFrom(id, None)
    BY <2>3, ReadLemma
  <2>4. CASE Does(router, <<c>>)
    BY <1>1, <1>2, <2>4, DoesLemma
  <2> QED  BY <1>14, <2>2, <2>3, <2>4 DEF ControlOne
<1> QED  BY <1>3, <1>4, <1>5, <1>6, <1>7, <1>8, <1>9, <1>10, <1>11, <1>12, <1>13, <1>14

LEMMA RestartLemma ==
  ASSUME ChannelsOK, RestartIdle
  PROVE  ChannelsOK'
<1> DEFINE first == IF engaged(router) # None THEN engaged(router) ELSE router.focus
           id == IF first # None THEN first ELSE written_last(router)
<1>1. RouterOK(router) /\ router.order \in Seq(Ids)
  BY RouterFields DEF ChannelsOK, RouterOK
<1>2. /\ <<>> \in Seq(Mute) /\ <<"Pump">> \in Seq(Mute) /\ <<"Restart">> \in Seq(Mute)
  BY MuteCalls
<1>3. \/ Does(router, <<"Restart">>) \/ Does(router, <<>>)
      \/ readable(router, id, None) /\ Does(read_at(router, id, None, TRUE), <<"Pump">>)
  BY Zenon DEF RestartIdle
<1> HIDE DEF id
<1>4. CASE readable(router, id, None) /\ Does(read_at(router, id, None, TRUE), <<"Pump">>)
  <2>1. id \in Ids
    BY <1>1, <1>4 DEF readable, is_open
  <2>2. RouterOK(read_at(router, id, None, TRUE))
    BY <1>1, <2>1, ReadAtLemma
  <2> QED  BY <1>2, <1>4, <2>2, DoesLemma
<1> QED  BY <1>1, <1>2, <1>3, <1>4, DoesLemma

LEMMA ControlAllLemma ==
  ASSUME ChannelsOK, NEW c \in P!Control, ControlAll(c)
  PROVE  ChannelsOK'
<1>1. RouterOK(router) /\ RouterOK(done(flush_all(router)))
  BY FlushAllLemma, DoneLemma DEF ChannelsOK
<1>2. <<c>> \in Seq(Mute) /\ <<"Stop">> \in Seq(Mute)
  BY MuteCalls
<1>3. CASE Leaves(done(flush_all(router)), None, <<"Stop">>)
  <2>1. TodoOK(<<"Stop">>, done(flush_all(router)))
    BY <1>2 DEF TodoOK
  <2> QED  BY <1>1, <1>3, <2>1, LeavesLemma
<1>4. CASE in_flight # None /\ ReadFrom(in_flight.channel, None)
  BY <1>4, ReadLemma DEF ChannelsOK, DriverOK
<1>5. CASE RestartIdle
  BY <1>5, RestartLemma
<1>6. CASE Does(router, <<c>>)
  BY <1>1, <1>2, <1>6, DoesLemma
<1> QED  BY <1>3, <1>4, <1>5, <1>6 DEF ControlAll

LEMMA BackLemma ==
  ASSUME ChannelsOK, Back
  PROVE  ChannelsOK'
<1>1. RouterOK(router) /\ in_flight # None /\ in_flight.channel \in Ids
  BY DEF ChannelsOK, DriverOK, Back
<1>2. <<"Previous">> \in Seq(Mute) /\ <<"Restart">> \in Seq(Mute) /\ "Restart" \in P!Control
  BY MuteCalls DEF P!Control
<1>3. CASE ControlAll("Restart")
  BY <1>2, <1>3, ControlAllLemma
<1>4. CASE Does(router, <<"Previous">>) \/ Does(router, <<"Restart">>)
  BY <1>1, <1>2, <1>4, DoesLemma
<1>5. CASE ReadFrom(in_flight.channel, None)
  BY <1>1, <1>5, ReadLemma
<1>6. CASE StepTo(in_flight.channel, EntryAt(IF place > 1 THEN place - 1 ELSE 1))
  BY <1>1, <1>6, ReadLemma
<1> QED  BY <1>3, <1>4, <1>5, <1>6 DEF Back

LEMMA ForwardLemma ==
  ASSUME ChannelsOK, Forward
  PROVE  ChannelsOK'
<1>1. RouterOK(router) /\ in_flight # None /\ in_flight.channel \in Ids
  BY DEF ChannelsOK, DriverOK, Forward
<1>2. <<"Next">> \in Seq(Mute)
  BY MuteCalls
<1>3. CASE Does(router, <<"Next">>)
  BY <1>1, <1>2, <1>3, DoesLemma
<1>4. ASSUME NEW e, StepTo(in_flight.channel, e) PROVE ChannelsOK'
  BY <1>1, <1>4, ReadLemma
<1> QED  BY <1>3, <1>4 DEF Forward

LEMMA FlushWithLemma ==
  ASSUME ChannelsOK, NEW also, FlushWith(also)
  PROVE  ChannelsOK'
<1> DEFINE others == {id \in also : ready(router, id) /\ ~InFlightOf(id)}
           r == flush_set(router, others)
           todo == <<"Skip", "Unpause", "Pump">>
           s == done(flush_one(r, in_flight.channel))
<1>1. RouterOK(r)
  BY FlushSetLemma DEF ChannelsOK
<1>2. todo \in Seq(Mute) /\ <<>> \in Seq(Mute)
  BY MuteCalls
<1>3. IF in_flight # None THEN Leaves(s, None, todo)
      ELSE Does(r, IF player.current = None THEN <<>> ELSE todo)
  BY Zenon DEF FlushWith
<1> HIDE DEF r, todo
<1>4. CASE in_flight # None
  <2>1. RouterOK(s)
    BY <1>1, <1>4, FlushOneLemma, DoneLemma DEF ChannelsOK, DriverOK
  <2>2. TodoOK(todo, s)
    BY <1>2 DEF TodoOK
  <2> HIDE DEF s
  <2> QED  BY <1>3, <1>4, <2>1, <2>2, LeavesLemma
<1>5. CASE in_flight = None
  BY <1>1, <1>2, <1>3, <1>5, DoesLemma
<1> QED  BY <1>4, <1>5

LEMMA SameDriver ==
  ASSUME ChannelsOK, router' = router, driver' = driver
  PROVE  ChannelsOK'
  BY DEF ChannelsOK, DriverOK, in_flight

LEMMA FloorOpsLemma ==
  ASSUME ChannelsOK, FloorOps
  PROVE  ChannelsOK'
<1>1. RouterOK(router)
  BY DEF ChannelsOK
<1>2. <<"Pump">> \in Seq(Mute) /\ <<>> \in Seq(Mute) /\ <<"Skip">> \in Seq(Mute)
  BY MuteCalls
<1>3. ASSUME NEW on \in BOOLEAN, SetFocusOnly(on) PROVE ChannelsOK'
  BY <1>1, <1>2, <1>3, FocusOnlyLemma, DoesLemma DEF SetFocusOnly
<1>4. ASSUME NEW c \in P!Control, ControlAll(c) PROVE ChannelsOK'
  BY <1>4, ControlAllLemma
<1>5. CASE NextChannel
  <2> DEFINE r == next_channel(router)
             cut == IF in_flight = None THEN <<>> ELSE <<"Skip">>
  <2>1. RouterOK(r) /\ cut \in Seq(Mute)
    BY <1>1, <1>2, NextChannelLemma
  <2>2. feed_now(r, r.active, cut)
    BY <1>5, Zenon DEF NextChannel
  <2> HIDE DEF r, cut
  <2> QED  BY <2>1, <2>2, FeedNowLemma
<1>6. CASE Back
  BY <1>6, BackLemma
<1>7. CASE Forward
  BY <1>7, ForwardLemma
<1>8. ASSUME NEW also, FlushWith(also) PROVE ChannelsOK'
  BY <1>8, FlushWithLemma
<1>9. ASSUME NEW interrupt, CoreSpeak(interrupt) PROVE ChannelsOK'
  BY <1>9, SameDriver DEF CoreSpeak
<1> QED  BY <1>3, <1>4, <1>5, <1>6, <1>7, <1>8, <1>9 DEF FloorOps

LEMMA ThenLemma ==
  ASSUME ChannelsOK, ~Free, NEW x \in Seq(Mute), Then(x), router' = router
  PROVE  ChannelsOK'
<1> DEFINE todo == x \o Tail(driver.todo)
<1>1. driver = [in_flight |-> in_flight, todo |-> driver.todo]
  BY DEF ChannelsOK, DriverOK
<1>2. Tail(driver.todo) \in Seq(Mute)
  BY TodoTail DEF ChannelsOK, DriverOK, Free
<1>3. todo \in Seq(Mute)
  BY <1>2, ConcatLemma
<1>4. driver' = [driver EXCEPT !.todo = todo]
  BY DEF Then
<1> HIDE DEF todo
<1>5. driver' = [in_flight |-> in_flight, todo |-> todo]
  BY <1>1, <1>4
<1>6. in_flight' = in_flight /\ driver'.todo = todo
  BY <1>5 DEF in_flight
<1> QED  BY <1>3, <1>5, <1>6 DEF ChannelsOK, DriverOK, TodoOK

LEMMA PumpLemma ==
  ASSUME ChannelsOK, ~Free, pump_fed
  PROVE  ChannelsOK'
<1>1. CASE Then(<<>>) /\ UNCHANGED router
  BY <1>1, MuteCalls, ThenLemma
<1>2. CASE router' = next_spoken(router) /\ Then(IF router'.fed = None THEN <<>> ELSE <<"Speak">>)
  <2> DEFINE x == IF router'.fed = None THEN <<>> ELSE <<"Speak">>
             q == Tail(driver.todo)
             todo == x \o q
  <2>1. RouterOK(router')
    BY <1>2, NextSpokenLemma DEF ChannelsOK
  <2>2. q \in Seq(Mute)
    BY TodoTail DEF ChannelsOK, DriverOK, Free
  <2>3. driver = [in_flight |-> in_flight, todo |-> driver.todo]
    BY DEF ChannelsOK, DriverOK
  <2>4. driver' = [driver EXCEPT !.todo = todo]
    BY <1>2 DEF Then
  <2> HIDE DEF q
  <2>5. TodoOK(todo, router')
    <3>1. CASE router'.fed = None
      <4>1. todo \in Seq(Mute)
        BY <2>2, <3>1, MuteCalls, ConcatLemma
      <4> QED  BY <4>1 DEF TodoOK
    <3>2. CASE router'.fed # None
      <4>1. todo = <<"Speak">> \o q
        BY <3>2
      <4> HIDE DEF todo
      <4> QED  BY <2>2, <3>2, <4>1 DEF TodoOK
    <3> QED  BY <3>1, <3>2
  <2> HIDE DEF todo
  <2>6. driver' = [in_flight |-> in_flight, todo |-> todo]
    BY <2>3, <2>4
  <2>7. in_flight' = in_flight /\ driver'.todo = todo
    BY <2>6 DEF in_flight
  <2> QED  BY <2>1, <2>5, <2>6, <2>7 DEF ChannelsOK, DriverOK
<1> QED  BY <1>1, <1>2 DEF pump_fed

LEMMA FeedSpeakLemma ==
  ASSUME ChannelsOK, ~Free, Head(driver.todo) \in {"Speak", "SpeakNow"},
         NEW interrupt \in BOOLEAN, feed_speak(interrupt)
  PROVE  ChannelsOK'
<1> DEFINE f == [id |-> player.next_id, channel |-> router.fed.channel,
                 entry |-> IF router.fed.op = "Entry" THEN router.fed.entry ELSE None]
           x == IF interrupt THEN <<"CutOther">> ELSE <<>>
           todo == x \o Tail(driver.todo)
<1>1. Tail(driver.todo) \in Seq(Mute) /\ router.fed # None
  BY TodoTail DEF ChannelsOK, DriverOK, Free
<1>2. router.fed \in Feed
  BY <1>1, RouterFields DEF ChannelsOK, RouterOK
<1>3. f.channel \in Ids
  BY <1>2 DEF Feed
<1>4. todo \in Seq(Mute)
  BY <1>1, MuteCalls, ConcatLemma
<1>5. driver' = [in_flight |-> f, todo |-> todo] /\ router' = router
  BY Zenon DEF feed_speak
<1> HIDE DEF f, todo
<1>6. in_flight' = f /\ driver'.todo = todo
  BY <1>5 DEF in_flight
<1> QED  BY <1>3, <1>4, <1>5, <1>6 DEF ChannelsOK, DriverOK, TodoOK

LEMMA LookLemma ==
  ASSUME ChannelsOK, ~Free, NEW holds_now, NEW call \in {"Skip", "Play"}, Look(holds_now, call)
  PROVE  ChannelsOK'
<1> DEFINE x == IF holds_now THEN <<call>> ELSE <<>>
<1>1. x \in Seq(Mute)
  BY MuteCalls
<1>2. Then(x) /\ router' = router
  BY DEF Look
<1> HIDE DEF x
<1> QED  BY <1>1, <1>2, ThenLemma

LEMMA CallReaderLemma ==
  ASSUME ChannelsOK, CallReader
  PROVE  ChannelsOK'
<1> DEFINE call == Head(driver.todo)
<1>1. ~Free
  BY DEF CallReader
<1>2. call \in Mute \cup {"Speak", "SpeakNow"}
  BY <1>1, TodoTail DEF ChannelsOK, DriverOK, Free
<1>3. CASE call = "Pump"
  <2>1. pump_fed
    BY <1>3 DEF CallReader, P!Control
  <2> QED  BY <1>1, <2>1, PumpLemma
<1>4. CASE call = "Speak"
  <2>1. feed_speak(FALSE)
    BY <1>4 DEF CallReader, P!Control
  <2> QED  BY <1>1, <1>4, <2>1, FeedSpeakLemma
<1>5. CASE call = "SpeakNow"
  <2>1. feed_speak(TRUE)
    BY <1>5 DEF CallReader, P!Control
  <2> QED  BY <1>1, <1>5, <2>1, FeedSpeakLemma
<1>6. CASE call = "CutOther"
  <2>1. Look(player.current # None /\ player.current.id # in_flight.id, "Skip")
    BY <1>6 DEF CallReader, P!Control
  <2> QED  BY <1>1, <2>1, LookLemma
<1>7. CASE call = "CutPlaying"
  <2>1. Look(player.current # None, "Skip")
    BY <1>7 DEF CallReader, P!Control
  <2> QED  BY <1>1, <2>1, LookLemma
<1>8. CASE call = "Unpause"
  <2>1. Look(player.pause # "No", "Play")
    BY <1>8 DEF CallReader, P!Control
  <2> QED  BY <1>1, <2>1, LookLemma
<1>9. CASE call \in P!Control
  <2>1. Then(<<>>) /\ UNCHANGED router
    BY <1>9 DEF CallReader, P!Control
  <2> QED  BY <1>1, <2>1, MuteCalls, ThenLemma
<1> QED  BY <1>2, <1>3, <1>4, <1>5, <1>6, <1>7, <1>8, <1>9 DEF Mute

LEMMA ItemEndedLemma ==
  ASSUME ChannelsOK, ItemEnded
  PROVE  ChannelsOK'
<1> DEFINE ours == in_flight # None /\ in_flight.id = Head(events)
           f == IF ours THEN None ELSE in_flight
<1>1. /\ router' = IF ours THEN done(router) ELSE router
      /\ driver' = [in_flight |-> f, todo |-> <<"Pump">>]
  BY Zenon DEF ItemEnded
<1>2. RouterOK(router')
  BY <1>1, DoneLemma DEF ChannelsOK
<1>3. f # None => f.channel \in Ids
  BY DEF ChannelsOK, DriverOK
<1> HIDE DEF f
<1>4. in_flight' = f /\ driver'.todo = <<"Pump">> /\ <<"Pump">> \in Seq(Mute)
  BY <1>1, MuteCalls DEF in_flight
<1> QED  BY <1>1, <1>2, <1>3, <1>4 DEF ChannelsOK, DriverOK, TodoOK

(* The driver keeps the router in order: between any two of its reader     *)
(* calls, with the reader playing, ending items and serving other clients, *)
(* the router is as RouterCorrect says, and what is in flight belongs to a *)
(* channel id it was given.                                                *)
THEOREM DriverCorrect == ChannelsSpec => []RouterInv
<1>1. ChannelsInit(new_router) => ChannelsOK
  <2> SUFFICES ASSUME ChannelsInit(new_router) PROVE ChannelsOK
    OBVIOUS
  <2>1. router = new_router /\ driver = [in_flight |-> None, todo |-> <<>>]
    BY DEF ChannelsInit, DriverInit
  <2>2. in_flight = None /\ driver.todo = <<>>
    BY <2>1 DEF in_flight
  <2> QED  BY <2>1, <2>2, NewRouterOK, MuteCalls DEF ChannelsOK, DriverOK, TodoOK
<1>2. ChannelsOK /\ [ChannelsNext]_vars => ChannelsOK'
  <2> SUFFICES ASSUME ChannelsOK, [ChannelsNext]_vars PROVE ChannelsOK'
    OBVIOUS
  <2>1. CASE ChannelOps
    BY <2>1, ChannelOpsLemma
  <2>2. CASE FloorOps
    BY <2>2, FloorOpsLemma
  <2>3. CASE CallReader
    BY <2>3, CallReaderLemma
  <2>4. CASE ItemEnded
    BY <2>4, ItemEndedLemma
  <2>5. CASE Plays
    BY <2>5, SameDriver DEF Plays
  <2>6. CASE UNCHANGED vars
    BY <2>6, SameDriver DEF vars
  <2> QED  BY <2>1, <2>2, <2>3, <2>4, <2>5, <2>6 DEF ChannelsNext
<1>3. ChannelsOK => RouterInv
  BY OKImplies DEF ChannelsOK
<1> QED  BY <1>1, <1>2, <1>3, PTL DEF ChannelsSpec
=============================================================================
