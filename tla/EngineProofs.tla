---------------------------- MODULE EngineProofs ----------------------------
(***************************************************************************)
(* Proofs about the engines, for every text, rate, list of files, profile, *)
(* thread and number of events.  External: what the engine keeps is whole, *)
(* and nothing of a message is dropped when its answer is cut.  Kokoro: a  *)
(* model is loaded only from the pinned files, and the engine says that it *)
(* prepares exactly while a thread does.  Engines: a key from the          *)
(* environment goes to no address that the user did not confirm.           *)
(*                                                                         *)
(* None is inductive as it stands.  External's needs arithmetic: each      *)
(* second of audio holds at least the characters the estimate counts for   *)
(* it, so that the place estimated is never ahead of the audio (Heard),    *)
(* and a sentence starts no later than the places in it.  Kokoro's need    *)
(* what the thread knows at each of its steps: what it takes for verified  *)
(* is right, the files it has passed are among those, and a file it        *)
(* downloads is not (so that the rename cannot take back what was passed). *)
(* Engines' needs the file the CLI would put back, beside the file and the *)
(* table.                                                                  *)
(***************************************************************************)
EXTENDS External, Kokoro, Engines, TLAPS, WellFoundedInduction, FiniteSetTheorems

(***************************************************************************)
(* External engines: what is kept and what is heard.                       *)
(***************************************************************************)

States == {"idle", "called", "marked", "asking", "skip", "key", "ready", "fallback", "sent", "waiting",
           "sleeping", "playing", "read_on"}
AnswerType == [lasts : 1..Length, early : BOOLEAN]
CallType == [at : States, voice : ProviderVoices \cup {"any"}, text : {"short", "message"},
             rate : Nat \ {0}, scope : {"normal", "local", "explicit"}, epoch : Nat, gen : Nat,
             gone : BOOLEAN, parts : Nat, retried : BOOLEAN, adapted : Nat, asks : BOOLEAN, key : Nat,
             secs : Nat, spoken : 0..Length, answer : AnswerType, from : 0..Length]
Mark == [epoch : Nat, gen : Nat, set : BOOLEAN]
EngineType == [held : BOOLEAN, epoch : Nat, gen : Nat, begun : Mark, key : Nat,
               wire : {"sse", "raw", "whole", "command"}, message : BOOLEAN, streams : BOOLEAN,
               param : BOOLEAN]
ListType == [at : {"none", "fetching"}, got : Nat, of : Nat, known : [got : Nat, of : Nat],
             empty_on_error : BOOLEAN]
ListOK == list \in ListType /\ (list.known = NoPages \/ list.known.got = Min({list.known.of, VOICES_MAX_PAGES}))

(* The characters the estimate counts for a second, rounded up.            *)
Slowed(rate) == IF rate <= Normal THEN rate ELSE Normal
Need(rate) == (CHARS_PER_SECOND * Slowed(rate) + Normal - 1) \div Normal

(* The audio is never behind the estimate, and what is read on starts no   *)
(* later than it ended.                                                    *)
Heard(r) == r.spoken = Length \/ r.secs * Need(r.rate) <= r.spoken
CallOK(r) == /\ r \in CallType /\ Heard(r)
             /\ r.at = "read_on" /\ engine.message => r.from <= r.spoken
CallsOK == /\ call = [c \in Callers |-> call[c]]
           /\ \A c \in Callers : CallOK(call[c])

(* Audio that may be kept.                                                 *)
AllSent(a) == ~a.answer.early /\ (a.ends = "text" \/ (a.ends = "answer" /\ a.answer.lasts < Length))
CacheOK == \A k \in DOMAIN cache : AllSent(cache[k])

ExternalIInv == engine \in EngineType /\ CallsOK /\ CacheOK /\ ListOK

-----------------------------------------------------------------------------
(* Arithmetic.                                                             *)

LEMMA MinOfTwo ==
  ASSUME NEW a \in Int, NEW b \in Int
  PROVE  Min({a, b}) = IF a <= b THEN a ELSE b
<1> DEFINE m == IF a <= b THEN a ELSE b
<1>1. m \in {a, b} /\ \A y \in {a, b} : m <= y
  OBVIOUS
<1>2. \A x \in {a, b} : (\A y \in {a, b} : x <= y) => x = m
  OBVIOUS
<1> QED
  BY <1>1, <1>2 DEF Min

(* A set of natural numbers has a least one.                               *)
LEMMA LeastNatural ==
  ASSUME NEW D \in SUBSET Nat, D # {}
  PROVE  \E n \in D : \A m \in D : n <= m
<1>1. PICK x \in D : \A y \in D : ~ (<<y, x>> \in OpToRel(<, Nat))
  BY NatLessThanWellFounded, WFMin
<1>2. \A y \in D : <<y, x>> \in OpToRel(<, Nat) <=> y < x
  BY DEF OpToRel
<1>3. \A y \in D : ~(y < x)
  BY <1>1, <1>2, Zenon
<1>4. \A y \in D : x <= y
  BY <1>3
<1> QED
  BY <1>4

(* A set of places in the text has a greatest one.                         *)
LEMMA MaxOfPlaces ==
  ASSUME NEW S \in SUBSET (0..Length), S # {}
  PROVE  Max(S) \in S /\ \A s \in S : s <= Max(S)
<1>1. Length \in Nat
  BY ExternalAssumption
<1> DEFINE D == {Length - s : s \in S}
<1>2. D \in SUBSET Nat /\ D # {}
  <2>1. \A s \in S : Length - s \in Nat
    BY <1>1
  <2> QED
    BY <2>1
<1>3. PICK n \in D : \A m \in D : n <= m
  BY <1>2, LeastNatural
<1>4. PICK x \in S : n = Length - x
  BY <1>3
<1>5. \A y \in S : x >= y
  BY <1>1, <1>3, <1>4
<1>6. \E z \in S : \A y \in S : z >= y
  BY <1>5
<1>7. Max(S) \in S /\ \A y \in S : Max(S) >= y
  BY <1>6 DEF Max
<1> QED
  BY <1>1, <1>7

LEMMA Distributes ==
  ASSUME NEW a \in Nat, NEW b \in Nat
  PROVE  (a + 1) * b = a * b + b /\ a * b \in Nat
  OBVIOUS

(* A product grows with its factors.                                       *)
LEMMA Grows ==
  ASSUME NEW a \in Nat, NEW b \in Nat, NEW c \in Nat, b <= c
  PROVE  a * b <= a * c /\ a * b \in Nat /\ a * c \in Nat
<1>1. PICK d \in Nat : c = b + d
  BY c - b \in Nat
<1>2. a * c = a * b + a * d /\ a * d \in Nat /\ a * b \in Nat
  BY <1>1
<1> QED
  BY <1>2

LEMMA SlowedTyped ==
  ASSUME NEW rate \in Nat \ {0}
  PROVE  /\ Slowed(rate) \in Nat \ {0} /\ Min({rate, Normal}) = Slowed(rate)
         /\ Need(rate) \in Nat \ {0}
         /\ CHARS_PER_SECOND * Slowed(rate) \in Nat
         /\ CHARS_PER_SECOND * Slowed(rate) <= 2 * Need(rate)
<1>1. Slowed(rate) \in Nat \ {0} /\ Min({rate, Normal}) = Slowed(rate)
  BY MinOfTwo DEF Slowed, Normal
<1>2. CHARS_PER_SECOND * Slowed(rate) \in Nat \ {0}
  <2>1. \A a \in Nat \ {0}, b \in Nat \ {0} : a * b \in Nat \ {0}
    OBVIOUS
  <2> QED
    BY <1>1, <2>1, ExternalAssumption
<1>3. \A n \in Nat \ {0} : (n + 2 - 1) \div 2 \in Nat \ {0} /\ n <= 2 * ((n + 2 - 1) \div 2)
  OBVIOUS
<1> QED
  BY <1>1, <1>2, <1>3 DEF Need, Normal

(* A second of audio holds what the estimate counts for it.                *)
LEMMA PaceEnough ==
  ASSUME NEW rate \in Nat \ {0}, NEW p \in Pace(rate)
  PROVE  p \in Nat /\ Need(rate) <= p
<1>1. PICK more \in {0, 1} : p = ((CHARS_PER_SECOND + more) * Min({rate, Normal}) + Normal - 1) \div Normal
  BY DEF Pace
<1>2. /\ Slowed(rate) \in Nat \ {0} /\ Min({rate, Normal}) = Slowed(rate)
      /\ CHARS_PER_SECOND * Slowed(rate) \in Nat
  BY SlowedTyped
<1>3. /\ (CHARS_PER_SECOND + more) * Slowed(rate) \in Nat
      /\ CHARS_PER_SECOND * Slowed(rate) <= (CHARS_PER_SECOND + more) * Slowed(rate)
  BY <1>2, Distributes, ExternalAssumption
<1>4. \A m \in Nat, n \in Nat : m <= n => (m + 2 - 1) \div 2 <= (n + 2 - 1) \div 2 /\ (n + 2 - 1) \div 2 \in Nat
  OBVIOUS
<1> QED
  BY <1>1, <1>2, <1>3, <1>4 DEF Need, Normal

(* What is read on starts no later than the audio ended.                   *)
LEMMA RestHeard ==
  ASSUME NEW secs \in Nat, NEW rate \in Nat \ {0}, NEW spoken \in 0..Length,
         spoken = Length \/ secs * Need(rate) <= spoken
  PROVE  rest_of(secs, rate) \in 0..spoken
<1> DEFINE n == CHARS_PER_SECOND * Slowed(rate)
           at == (secs * CHARS_PER_SECOND * Slowed(rate)) \div 2
<1>1. /\ Slowed(rate) \in Nat \ {0} /\ Min({rate, Normal}) = Slowed(rate)
      /\ Need(rate) \in Nat /\ n \in Nat /\ n <= 2 * Need(rate)
  BY SlowedTyped
<1>2. Length \in Nat \ {0} /\ CHARS_PER_SECOND \in Nat /\ 0 \in Sentences /\ Sentences \subseteq 0..(Length - 1)
  BY ExternalAssumption
<1>3. secs * CHARS_PER_SECOND * Slowed(rate) = secs * n
  BY <1>1, <1>2
<1>4. secs * n <= secs * (2 * Need(rate)) /\ secs * n \in Nat
  BY <1>1, Grows
<1>5. secs * (2 * Need(rate)) = 2 * (secs * Need(rate)) /\ secs * Need(rate) \in Nat
  BY <1>1
<1>6. at \in Nat /\ at <= secs * Need(rate)
  <2> HIDE DEF n
  <2>1. \A x \in Nat, y \in Nat : x <= 2 * y => x \div 2 \in Nat /\ x \div 2 <= y
    OBVIOUS
  <2> QED
    BY <1>3, <1>4, <1>5, <2>1
<1> HIDE DEF n, at
<1>7. rest_of(secs, rate) = Start(at)
  BY <1>1 DEF rest_of, at, Normal
<1>8. CASE at >= Length
  <2>1. spoken = Length
    BY <1>2, <1>5, <1>6, <1>8
  <2> QED
    BY <1>2, <1>7, <1>8, <2>1 DEF Start
<1>9. CASE at < Length
  <2> DEFINE S == {s \in Sentences : s <= at}
  <2>1. S \in SUBSET (0..Length) /\ 0 \in S
    <3>1. \A s \in Sentences : s \in 0..Length
      BY <1>2
    <3>2. 0 \in S
      BY <1>2, <1>6
    <3> QED
      BY <3>1, <3>2
  <2>2. Max(S) \in S
    BY <2>1, MaxOfPlaces
  <2>3. Start(at) = Max(S)
    BY <1>2, <1>6, <1>9 DEF Start
  <2>4. Start(at) <= at /\ Start(at) \in Nat
    BY <1>2, <2>1, <2>2, <2>3
  <2>5. at <= spoken
    BY <1>2, <1>5, <1>6, <1>9
  <2> QED
    BY <1>2, <1>6, <1>7, <2>4, <2>5
<1> QED
  BY <1>2, <1>6, <1>8, <1>9

-----------------------------------------------------------------------------
(* The parts of the state.                                                 *)

LEMMA NormalNeed == Normal \in Nat \ {0} /\ Need(Normal) \in Nat
<1>1. Normal \in Nat \ {0}
  BY DEF Normal
<1> QED
  BY <1>1, SlowedTyped

LEMMA IdleOK == CallOK(Idle)
<1>1. Length \in Nat \ {0} /\ Need(Normal) \in Nat
  BY ExternalAssumption, NormalNeed
<1>2. Full \in AnswerType
  BY <1>1 DEF Full, AnswerType
<1>3. Idle \in CallType
  BY <1>1, <1>2 DEF Idle, CallType, States, Normal
<1>4. Idle.at = "idle" /\ Idle.secs = 0 /\ Idle.spoken = 0 /\ Idle.rate = Normal
  BY DEF Idle
<1> QED
  BY <1>1, <1>3, <1>4 DEF CallOK, Heard

(* One call is written, and the others stay.                               *)
LEMMA CallWritten ==
  ASSUME CallsOK, NEW c \in Callers, NEW r, CallOK(r), call' = [call EXCEPT ![c] = r],
         engine'.message = engine.message
  PROVE  CallsOK'
<1>1. \A d \in Callers : call'[d] = IF d = c THEN r ELSE call[d]
  BY DEF CallsOK
<1>2. \A d \in Callers : CallOK(call'[d])
  BY <1>1 DEF CallsOK
<1>3. call' = [d \in Callers |-> call'[d]]
  BY DEF CallsOK
<1> QED
  BY <1>2, <1>3 DEF CallsOK, CallOK, Heard

LEMMA CallsStay ==
  ASSUME CallsOK, UNCHANGED call, engine'.message = engine.message
  PROVE  CallsOK'
  BY DEF CallsOK, CallOK, Heard

(* What was heard stays with the call, whatever else of it changes.        *)
LEMMA HeardStays ==
  ASSUME NEW r, CallOK(r), NEW t \in CallType, t.at # "read_on",
         t.secs = r.secs, t.spoken = r.spoken, t.rate = r.rate
  PROVE  CallOK(t)
  BY DEF CallOK, Heard

LEMMA CallMoved ==
  ASSUME CallsOK, NEW c \in Callers, NEW at \in States \ {"read_on"}, Moves(c, at),
         engine'.message = engine.message
  PROVE  CallsOK'
<1> DEFINE t == [call[c] EXCEPT !.at = at]
<1>1. CallOK(call[c]) /\ call[c] \in CallType
  BY DEF CallsOK, CallOK
<1>2. /\ t \in CallType /\ t.at = at /\ t.secs = call[c].secs /\ t.spoken = call[c].spoken
      /\ t.rate = call[c].rate
  BY <1>1 DEF CallType
<1>3. CallOK(t)
  BY <1>1, <1>2, HeardStays
<1>4. call' = [call EXCEPT ![c] = t]
  BY DEF Moves
<1> HIDE DEF t
<1> QED
  BY <1>3, <1>4, CallWritten

LEMMA CallOver ==
  ASSUME CallsOK, NEW c \in Callers, Over(c), engine'.message = engine.message
  PROVE  CallsOK'
  BY IdleOK, CallWritten DEF Over

(* A call moves or ends, and nothing else matters.                         *)
LEMMA MovesKeep ==
  ASSUME ExternalIInv, NEW c \in Callers, UNCHANGED <<engine, cache, list>>,
         \/ \E at \in States \ {"read_on"} : Moves(c, at)
         \/ Over(c)
         \/ UNCHANGED call
  PROVE  ExternalIInv'
<1>1. CallsOK'
  BY CallMoved, CallOver, CallsStay DEF ExternalIInv
<1> QED
  BY <1>1 DEF ExternalIInv, CacheOK, AllSent, ListOK

(* What is kept beside the rest is all that was sent.                      *)
LEMMA KeptKeeps ==
  ASSUME CacheOK, NEW c, NEW a, AllSent(a), cache' = Kept(c, a)
  PROVE  CacheOK'
<1> SUFFICES ASSUME NEW k \in DOMAIN cache' PROVE AllSent(cache'[k])
  BY DEF CacheOK, AllSent
<1>1. cache'[k] = a \/ (k \in DOMAIN cache /\ cache'[k] = cache[k])
  BY DEF Kept
<1> QED
  BY <1>1 DEF CacheOK

(* What a provider answers with.                                           *)
LEMMA SentTyped == Sent \subseteq AnswerType /\ Full \in AnswerType /\ ~Full.early
<1>1. Length \in Nat \ {0} /\ ShortAnswers \subseteq 1..Length
  BY ExternalAssumption
<1>2. Full \in AnswerType /\ ~Full.early
  BY <1>1 DEF Full, AnswerType
<1>3. ShortAnswers \cup {Length} \subseteq 1..Length
  BY <1>1
<1> QED
  BY <1>2, <1>3 DEF Sent, AnswerType

LEMMA ExternalStarts == ExternalInit => ExternalIInv
<1> SUFFICES ASSUME ExternalInit PROVE ExternalIInv
  OBVIOUS
<1>1. engine \in EngineType
  <2>1. NoMark \in Mark
    BY DEF Mark, NoMark
  <2> QED
    <3>1. engine = [held |-> engine.held, epoch |-> engine.epoch, gen |-> engine.gen,
                    begun |-> engine.begun, key |-> engine.key, wire |-> engine.wire,
                    message |-> engine.message, streams |-> engine.streams, param |-> engine.param]
      BY DEF ExternalInit
    <3>2. engine.held \in BOOLEAN /\ engine.message \in BOOLEAN /\ engine.streams \in BOOLEAN
          /\ engine.param \in BOOLEAN
      BY DEF ExternalInit
    <3>3. engine.epoch \in Nat /\ engine.gen \in Nat /\ engine.key \in Nat /\ engine.begun \in Mark
          /\ engine.wire \in {"sse", "raw", "whole", "command"}
      BY <2>1 DEF ExternalInit
    <3> QED
      BY <3>1, <3>2, <3>3 DEF EngineType
<1>2. CallsOK
  BY IdleOK DEF ExternalInit, CallsOK
<1>3. CacheOK
  BY DEF ExternalInit, CacheOK
<1>4. ListOK
  <2>1. NoPages \in [got : Nat, of : Nat]
    BY DEF NoPages
  <2> QED
    BY <2>1 DEF ExternalInit, ListType, ListOK
<1> QED
  BY <1>1, <1>2, <1>3, <1>4 DEF ExternalIInv

-----------------------------------------------------------------------------
(* The steps of a call.                                                    *)

LEMMA CallKeeps ==
  ASSUME ExternalIInv, NEW c \in Callers, Calls(c, Asked)
  PROVE  ExternalIInv'
<1>1. PICK a \in Asked, s \in Scopes(c) : Call(c, a[1], a[2], a[3], s)
  BY DEF Calls
<1>2. a[1] \in ProviderVoices /\ a[2] \in {"short", "message"} /\ a[3] \in Nat \ {0}
  BY ExternalAssumption DEF Asked
<1>3. s \in {"normal", "local", "explicit"}
  BY DEF Scopes
<1> DEFINE t == [Idle EXCEPT !.at = "called", !.voice = a[1], !.text = a[2], !.rate = a[3],
                   !.parts = IF a[2] = "message" /\ engine.wire = "whole" THEN 2 ELSE 1, !.scope = s]
<1>4. t \in CallType /\ t.at = "called" /\ t.secs = 0 /\ t.spoken = 0 /\ t.rate = a[3]
  <2>1. Idle \in CallType /\ Idle.secs = 0 /\ Idle.spoken = 0
    BY IdleOK DEF CallOK, Idle
  <2> QED
    BY <1>2, <1>3, <2>1, ZenonT(60) DEF CallType, States
<1>5. CallOK(t)
  <2> HIDE DEF t
  <2>1. Need(a[3]) \in Nat
    BY <1>2, SlowedTyped
  <2> QED
    BY <1>4, <2>1 DEF CallOK, Heard
<1>6. engine' \in EngineType /\ engine'.message = engine.message
  BY <1>1 DEF Call, mark, ExternalIInv, EngineType, Mark
<1>7. call' = [call EXCEPT ![c] = t]
  BY <1>1 DEF Call
<1> HIDE DEF t
<1>8. CallsOK'
  BY <1>5, <1>6, <1>7, CallWritten DEF ExternalIInv
<1> QED
  BY <1>1, <1>6, <1>8 DEF Call, ExternalIInv, CacheOK, AllSent, ListOK

LEMMA TakeMarksKeeps ==
  ASSUME ExternalIInv, NEW c \in Callers, TakeMarks(c)
  PROVE  ExternalIInv'
<1> DEFINE m == IF engine.begun.set /\ c # Test THEN engine.begun ELSE mark
           at == IF c # Test THEN "marked" ELSE IF call[c].voice = "none" THEN "idle" ELSE "key"
           t == [call[c] EXCEPT !.at = at, !.epoch = m.epoch, !.gen = m.gen]
<1>1. CallOK(call[c]) /\ call[c] \in CallType /\ engine \in EngineType
  BY DEF ExternalIInv, CallsOK, CallOK
<1>2. m.epoch \in Nat /\ m.gen \in Nat
  BY <1>1 DEF EngineType, Mark, mark
<1>3. /\ t \in CallType /\ t.at # "read_on" /\ t.secs = call[c].secs /\ t.spoken = call[c].spoken
      /\ t.rate = call[c].rate
  BY <1>1, <1>2, ZenonT(60) DEF CallType, States
<1>4. CallOK(t)
  BY <1>1, <1>3, HeardStays
<1>5. call' = [call EXCEPT ![c] = t]
  BY DEF TakeMarks
<1>6. engine' \in EngineType /\ engine'.message = engine.message
  BY <1>1 DEF TakeMarks, NoMark, EngineType, Mark
<1> HIDE DEF t
<1>7. CallsOK'
  BY <1>4, <1>5, <1>6, CallWritten DEF ExternalIInv
<1> QED
  BY <1>6, <1>7 DEF TakeMarks, ExternalIInv, CacheOK, AllSent, ListOK

LEMMA ResolveKeyKeeps ==
  ASSUME ExternalIInv, NEW c \in Callers, ResolveKey(c)
  PROVE  ExternalIInv'
<1>1. CASE engine.key # 0
  <2> DEFINE t == [call[c] EXCEPT !.at = "ready", !.key = engine.key]
  <2>1. CallOK(call[c]) /\ call[c] \in CallType /\ engine \in EngineType
    BY DEF ExternalIInv, CallsOK, CallOK
  <2>2. /\ t \in CallType /\ t.at # "read_on" /\ t.secs = call[c].secs /\ t.spoken = call[c].spoken
        /\ t.rate = call[c].rate
    BY <2>1 DEF CallType, States, EngineType
  <2>3. CallOK(t)
    BY <2>1, <2>2, HeardStays
  <2>4. call' = [call EXCEPT ![c] = t]
    BY <1>1 DEF ResolveKey
  <2> HIDE DEF t
  <2>5. CallsOK'
    BY <2>3, <2>4, CallWritten DEF ResolveKey, ExternalIInv
  <2> QED
    BY <2>5 DEF ResolveKey, ExternalIInv, CacheOK, AllSent, ListOK
<1>2. CASE engine.key = 0
  BY <1>2, MovesKeep DEF ResolveKey, GiveUp, States
<1> QED
  BY <1>1, <1>2

LEMMA SendKeeps ==
  ASSUME ExternalIInv, NEW c \in Callers, Send(c)
  PROVE  ExternalIInv'
<1>1. CASE ~cancelled(c)
  <2> DEFINE t == [call[c] EXCEPT !.at = IF streamed(c) THEN "waiting" ELSE "sent", !.asks = engine.param]
  <2>1. CallOK(call[c]) /\ call[c] \in CallType /\ engine \in EngineType
    BY DEF ExternalIInv, CallsOK, CallOK
  <2>2. /\ t \in CallType /\ t.at # "read_on" /\ t.secs = call[c].secs /\ t.spoken = call[c].spoken
        /\ t.rate = call[c].rate
    BY <2>1 DEF CallType, States, EngineType
  <2>3. CallOK(t)
    BY <2>1, <2>2, HeardStays
  <2>4. call' = [call EXCEPT ![c] = t]
    BY <1>1 DEF Send
  <2> HIDE DEF t
  <2>5. CallsOK'
    BY <2>3, <2>4, CallWritten DEF Send, ExternalIInv
  <2> QED
    BY <2>5 DEF Send, ExternalIInv, CacheOK, AllSent, ListOK
<1>2. CASE cancelled(c)
  BY <1>2, MovesKeep DEF Send, GiveUp
<1> QED
  BY <1>1, <1>2

(* A failure has the call sleep, ask again with less, or end.              *)
LEMMA FailsKeeps ==
  ASSUME ExternalIInv, NEW c \in Callers, NEW e, Fails(c, e)
  PROVE  ExternalIInv'
<1>0. CallOK(call[c]) /\ call[c] \in CallType /\ engine \in EngineType
  BY DEF ExternalIInv, CallsOK, CallOK
<1>1. CASE Retries(c, e)
  <2> DEFINE t == [call[c] EXCEPT !.at = "sleeping", !.retried = TRUE]
  <2>1. /\ t \in CallType /\ t.at # "read_on" /\ t.secs = call[c].secs /\ t.spoken = call[c].spoken
        /\ t.rate = call[c].rate
    BY <1>0 DEF CallType, States
  <2>2. CallOK(t)
    BY <1>0, <2>1, HeardStays
  <2>3. call' = [call EXCEPT ![c] = t] /\ engine' = engine
    BY <1>1 DEF Fails
  <2> HIDE DEF t
  <2>4. CallsOK'
    BY <2>2, <2>3, CallWritten DEF ExternalIInv
  <2> QED
    BY <2>3, <2>4 DEF Fails, ExternalIInv, CacheOK, AllSent, ListOK
<1>2. CASE ~Retries(c, e) /\ adapt(c, e)
  <2> DEFINE t == [call[c] EXCEPT !.at = "ready", !.adapted = call[c].adapted + 1]
  <2>1. /\ t \in CallType /\ t.at # "read_on" /\ t.secs = call[c].secs /\ t.spoken = call[c].spoken
        /\ t.rate = call[c].rate
    <3>1. call[c].adapted + 1 \in Nat
      BY <1>0 DEF CallType
    <3> QED
      BY <1>0, <3>1 DEF CallType, States
  <2>2. CallOK(t)
    BY <1>0, <2>1, HeardStays
  <2>3. call' = [call EXCEPT ![c] = t] /\ engine' = [engine EXCEPT !.param = FALSE]
    BY <1>2 DEF Fails
  <2>4. engine' \in EngineType /\ engine'.message = engine.message
    BY <1>0, <2>3 DEF EngineType
  <2> HIDE DEF t
  <2>5. CallsOK'
    BY <2>2, <2>3, <2>4, CallWritten DEF ExternalIInv
  <2> QED
    BY <2>4, <2>5 DEF Fails, ExternalIInv, CacheOK, AllSent, ListOK
<1>3. CASE ~Retries(c, e) /\ ~adapt(c, e)
  BY <1>3, MovesKeep DEF Fails, GiveUp, States
<1> QED
  BY <1>1, <1>2, <1>3

(* A whole answer: the next part of it, or its audio is kept.              *)
LEMMA AnswerKeeps ==
  ASSUME ExternalIInv, NEW c \in Callers, Answer(c)
  PROVE  ExternalIInv'
<1>0. CallOK(call[c]) /\ call[c] \in CallType /\ engine \in EngineType
  BY DEF ExternalIInv, CallsOK, CallOK
<1>1. CASE call[c].parts > 1
  <2> DEFINE t == [call[c] EXCEPT !.at = "ready", !.parts = call[c].parts - 1, !.retried = FALSE, !.adapted = 0]
  <2>1. /\ t \in CallType /\ t.at # "read_on" /\ t.secs = call[c].secs /\ t.spoken = call[c].spoken
        /\ t.rate = call[c].rate
    <3>1. call[c].parts - 1 \in Nat
      BY <1>0, <1>1 DEF CallType
    <3> QED
      BY <1>0, <3>1 DEF CallType, States
  <2>2. CallOK(t)
    BY <1>0, <2>1, HeardStays
  <2>3. call' = [call EXCEPT ![c] = t]
    BY <1>1 DEF Answer
  <2> HIDE DEF t
  <2>4. CallsOK'
    BY <2>2, <2>3, CallWritten DEF Answer, ExternalIInv
  <2> QED
    BY <1>1, <2>4 DEF Answer, ExternalIInv, CacheOK, AllSent, ListOK
<1>2. CASE ~(call[c].parts > 1)
  <2>1. /\ Over(c) /\ UNCHANGED <<engine, list>>
        /\ cache' = cache \/ \E a \in WholeAnswers : cache' = Kept(c, a)
    BY <1>2 DEF Answer
  <2>2. CallsOK'
    BY <2>1, CallOver DEF ExternalIInv
  <2>3. \A a \in WholeAnswers : AllSent(a)
    <3> SUFFICES ASSUME NEW x \in Sent, ~x.early
                 PROVE  AllSent([ends |-> IF x = Full THEN "text" ELSE "answer", answer |-> x])
      BY DEF WholeAnswers
    <3>1. x \in AnswerType /\ Length \in Nat
      BY SentTyped, ExternalAssumption
    <3>2. x # Full => x.lasts # Length
      BY <3>1 DEF Full, AnswerType
    <3> QED
      BY <3>1, <3>2 DEF AllSent, AnswerType
  <2>4. CacheOK'
    BY <2>1, <2>3, KeptKeeps DEF ExternalIInv, CacheOK, AllSent, ListOK
  <2> QED
    BY <2>1, <2>2, <2>4 DEF ExternalIInv, ListOK
<1> QED
  BY <1>1, <1>2

LEMMA StreamRefusedKeeps ==
  ASSUME ExternalIInv, NEW c \in Callers, StreamRefused(c)
  PROVE  ExternalIInv'
<1> DEFINE t == [call[c] EXCEPT !.at = "ready", !.retried = FALSE, !.adapted = 0]
<1>1. CallOK(call[c]) /\ call[c] \in CallType /\ engine \in EngineType
  BY DEF ExternalIInv, CallsOK, CallOK
<1>2. /\ t \in CallType /\ t.at # "read_on" /\ t.secs = call[c].secs /\ t.spoken = call[c].spoken
      /\ t.rate = call[c].rate
  BY <1>1 DEF CallType, States
<1>3. CallOK(t)
  BY <1>1, <1>2, HeardStays
<1>4. call' = [call EXCEPT ![c] = t]
  BY DEF StreamRefused
<1>5. engine' \in EngineType /\ engine'.message = engine.message
  BY <1>1 DEF StreamRefused, EngineType
<1> HIDE DEF t
<1>6. CallsOK'
  BY <1>3, <1>4, <1>5, CallWritten DEF ExternalIInv
<1> QED
  BY <1>5, <1>6 DEF StreamRefused, ExternalIInv, CacheOK, AllSent, ListOK

-----------------------------------------------------------------------------
(* The stream.                                                             *)

(* A second of audio: the estimate grows by no more than the audio.        *)
LEMMA AudioKeeps ==
  ASSUME ExternalIInv, NEW c \in Callers, NEW a \in AnswerType, Audio(c, a), UNCHANGED <<engine, cache, list>>
  PROVE  ExternalIInv'
<1>1. CallOK(call[c]) /\ call[c] \in CallType /\ Length \in Nat
  BY ExternalAssumption DEF ExternalIInv, CallsOK, CallOK
<1> DEFINE r == call[c]
<1>2. PICK p \in Pace(r.rate) :
        call' = [call EXCEPT ![c] = [r EXCEPT !.at = "playing", !.secs = r.secs + 1,
                                              !.spoken = Min({r.spoken + p, Length}), !.answer = a]]
  BY DEF Audio
<1> DEFINE heard == IF r.spoken + p <= Length THEN r.spoken + p ELSE Length
           t == [r EXCEPT !.at = "playing", !.secs = r.secs + 1, !.spoken = heard, !.answer = a]
<1>3. r.rate \in Nat \ {0} /\ r.secs \in Nat /\ r.spoken \in 0..Length
  BY <1>1 DEF CallType
<1>4. p \in Nat /\ Need(r.rate) <= p /\ Need(r.rate) \in Nat
  BY <1>3, PaceEnough, SlowedTyped
<1>5. Min({r.spoken + p, Length}) = heard /\ heard \in 0..Length
  BY <1>1, <1>3, <1>4, MinOfTwo
<1>6. /\ t \in CallType /\ t.at = "playing" /\ t.secs = r.secs + 1 /\ t.spoken = heard /\ t.rate = r.rate
  <2> HIDE DEF heard
  <2>1. r.secs + 1 \in Nat
    BY <1>3
  <2> QED
    BY <1>1, <1>5, <2>1 DEF CallType, States
<1>7. (r.secs + 1) * Need(r.rate) = r.secs * Need(r.rate) + Need(r.rate) /\ r.secs * Need(r.rate) \in Nat
  BY <1>3, <1>4, Distributes
<1>8. heard = Length \/ (r.secs + 1) * Need(r.rate) <= heard
  <2>1. r.spoken = Length \/ r.secs * Need(r.rate) <= r.spoken
    BY <1>1 DEF CallOK, Heard
  <2> QED
    BY <1>1, <1>3, <1>4, <1>7, <2>1
<1>9. CallOK(t)
  BY <1>6, <1>8 DEF CallOK, Heard
<1>10. call' = [call EXCEPT ![c] = t]
  <2> HIDE DEF heard
  <2> QED
    BY <1>2, <1>5
<1> HIDE DEF t
<1>11. CallsOK'
  BY <1>9, <1>10, CallWritten DEF ExternalIInv
<1> QED
  BY <1>11 DEF ExternalIInv, CacheOK, AllSent, ListOK

(* A cut message is read on from a place the audio had reached.            *)
LEMMA ReadsOnKeeps ==
  ASSUME ExternalIInv, NEW c \in Callers, ReadsOn(c), UNCHANGED <<engine, cache, list>>
  PROVE  ExternalIInv'
<1> DEFINE r == call[c]
           t == [Idle EXCEPT !.at = "read_on", !.spoken = r.spoken, !.from = Rest(c)]
<1>1. CallOK(r) /\ r \in CallType /\ Length \in Nat \ {0} /\ Idle \in CallType
  BY ExternalAssumption, IdleOK DEF ExternalIInv, CallsOK, CallOK
<1>2. r.rate \in Nat \ {0} /\ r.secs \in Nat /\ r.spoken \in 0..Length
  BY <1>1 DEF CallType
<1>3. rest_of(r.secs, r.rate) \in 0..r.spoken
  BY <1>1, <1>2, RestHeard DEF CallOK, Heard
<1>4. Rest(c) \in 0..Length /\ (engine.message => Rest(c) <= r.spoken)
  BY <1>1, <1>2, <1>3 DEF Rest
<1>5. /\ t \in CallType /\ t.secs = Idle.secs /\ t.rate = Idle.rate
      /\ t.spoken = r.spoken /\ t.from = Rest(c)
  BY <1>1, <1>2, <1>4, ZenonT(60) DEF CallType, States
<1>6. Idle.secs = 0 /\ Need(Idle.rate) \in Nat
  BY NormalNeed DEF Idle
<1>7. CallOK(t)
  BY <1>2, <1>4, <1>5, <1>6 DEF CallOK, Heard
<1>8. call' = [call EXCEPT ![c] = t]
  BY DEF ReadsOn
<1> HIDE DEF t
<1>9. CallsOK'
  BY <1>7, <1>8, CallWritten DEF ExternalIInv
<1> QED
  BY <1>9 DEF ExternalIInv, CacheOK, AllSent, ListOK

(* An answer meant to be whole has reached the end of its text once it has *)
(* lasted as many seconds as the text has characters.                      *)
LEMMA WholeReached ==
  ASSUME NEW r, CallOK(r), r.secs = r.answer.lasts, r.spoken # Length
  PROVE  r.answer.lasts < Length
<1>1. /\ r.secs \in Nat /\ r.rate \in Nat \ {0} /\ r.spoken \in 0..Length
      /\ r.answer.lasts \in 1..Length /\ Length \in Nat
  BY ExternalAssumption DEF CallOK, CallType, AnswerType
<1>2. Need(r.rate) \in Nat \ {0}
  BY <1>1, SlowedTyped
<1>3. r.secs * Need(r.rate) <= r.spoken
  BY DEF CallOK, Heard
<1>4. r.secs * 1 <= r.secs * Need(r.rate) /\ r.secs * Need(r.rate) \in Nat
  BY <1>1, <1>2, Grows
<1> QED
  BY <1>1, <1>3, <1>4

(* Only audio that reaches the end of its text, or of an answer that does  *)
(* not say it stopped early, is kept.                                      *)
LEMMA StreamEndsKeeps ==
  ASSUME ExternalIInv, NEW c \in Callers, StreamEnds(c)
  PROVE  ExternalIInv'
<1>0. CallOK(call[c])
  BY DEF ExternalIInv, CallsOK
<1>1. CASE call[c].answer.early
  BY <1>1, ReadsOnKeeps DEF StreamEnds, finish_stream, cut
<1>2. CASE ~call[c].answer.early
  <2> DEFINE a == [ends |-> Reached(c), answer |-> call[c].answer]
  <2>1. Over(c) /\ UNCHANGED <<engine, list>> /\ cache' = Kept(c, a)
    BY <1>2 DEF StreamEnds, finish_stream, Finishes
  <2>2. CASE call[c].spoken = Length
    <3>1. AllSent(a)
      BY <1>2, <2>2 DEF AllSent, Reached
    <3> QED
      BY <2>1, <3>1, CallOver, KeptKeeps DEF ExternalIInv, ListOK
  <2>3. CASE call[c].spoken # Length
    <3>1. call[c].secs = call[c].answer.lasts /\ Reached(c) = "answer"
      BY <2>3 DEF StreamEnds, AtEnd, Reached
    <3>2. AllSent(a)
      BY <1>0, <1>2, <2>3, <3>1, WholeReached DEF AllSent
    <3> QED
      BY <2>1, <3>2, CallOver, KeptKeeps DEF ExternalIInv, ListOK
  <2> QED
    BY <2>2, <2>3
<1> QED
  BY <1>1, <1>2

-----------------------------------------------------------------------------
(* What happens around the engine.                                         *)

LEMMA AroundKeeps == ExternalIInv /\ (Around \/ fetch_voices) => ExternalIInv'
<1> SUFFICES ASSUME ExternalIInv, Around \/ fetch_voices PROVE ExternalIInv'
  OBVIOUS
<1>0. engine \in EngineType /\ ListOK /\ list \in ListType
  BY DEF ExternalIInv, ListOK
<1>1. CASE CancelReader
  <2> DEFINE t == [call[Reader] EXCEPT !.gone = TRUE]
  <2>1. CallOK(call[Reader]) /\ call[Reader] \in CallType /\ Reader \in Callers
    BY DEF ExternalIInv, CallsOK, CallOK, Callers
  <2>2. /\ t \in CallType /\ t.at = call[Reader].at /\ t.secs = call[Reader].secs
        /\ t.spoken = call[Reader].spoken /\ t.rate = call[Reader].rate
    BY <2>1 DEF CallType
  <2>3. CallOK(t)
    BY <1>1, <2>1, <2>2, HeardStays DEF CancelReader, Ended
  <2>4. call' = [call EXCEPT ![Reader] = t]
    BY <1>1 DEF CancelReader
  <2>5. engine' \in EngineType /\ engine'.message = engine.message
    <3>1. engine.gen + 1 \in Nat
      BY <1>0 DEF EngineType
    <3> QED
      BY <1>0, <1>1, <3>1 DEF CancelReader, EngineType
  <2> HIDE DEF t
  <2>6. CallsOK'
    BY <2>1, <2>3, <2>4, <2>5, CallWritten DEF ExternalIInv
  <2> QED
    BY <1>1, <2>5, <2>6 DEF CancelReader, ExternalIInv, CacheOK, AllSent, ListOK
<1>2. CASE \E on \in BOOLEAN : SetHold(on)
  <2>1. PICK on \in BOOLEAN : SetHold(on)
    BY <1>2
  <2>2. engine.gen + 1 \in Nat /\ engine.epoch + 1 \in Nat
    BY <1>0 DEF EngineType
  <2>3. engine' \in EngineType /\ engine'.message = engine.message
    BY <1>0, <2>1, <2>2 DEF SetHold, EngineType
  <2> QED
    BY <2>1, <2>3, CallsStay DEF SetHold, ExternalIInv, CacheOK, AllSent, ListOK
<1>3. CASE \E k \in 0..2 : KeyChanged(k)
  <2>1. PICK k \in 0..2 : KeyChanged(k)
    BY <1>3
  <2>2. engine' \in EngineType /\ engine'.message = engine.message
    BY <1>0, <2>1 DEF KeyChanged, EngineType
  <2> QED
    BY <2>1, <2>2, CallsStay DEF KeyChanged, ExternalIInv, CacheOK, AllSent, ListOK
<1>4. CASE Reset
  BY <1>4, CallsStay DEF Reset, ExternalIInv, CacheOK, AllSent, ListOK
<1>5. CASE Refresh \/ fetch_voices
  <2>1. ListOK'
    <3> DEFINE got == [got |-> list.got, of |-> list.of]
    <3>1. NoPages \in [got : Nat, of : Nat] /\ list.known \in [got : Nat, of : Nat]
          /\ got \in [got : Nat, of : Nat]
      BY <1>0 DEF NoPages, ListType
    <3>2. ASSUME NEW k \in [got : Nat, of : Nat], Lists(k),
                 k = NoPages \/ k.got = Min({k.of, VOICES_MAX_PAGES})
          PROVE  ListOK'
      <4>1. list' \in ListType /\ list'.known = k
        BY <1>0, <3>2 DEF Lists, ListType
      <4> QED
        BY <3>2, <4>1 DEF ListOK
    <3>3. Lists(list.known) => ListOK'
      BY <1>0, <3>1, <3>2 DEF ListOK
    <3>4. Lists(NoPages) => ListOK'
      BY <3>1, <3>2
    <3>5. LastPage /\ Lists(got) => ListOK'
      <4>1. LastPage => got.got = Min({got.of, VOICES_MAX_PAGES})
        BY DEF LastPage
      <4> HIDE DEF got
      <4> QED
        BY <3>1, <3>2, <4>1
    <3>6. CASE Refresh
      <4>1. PICK n \in Pages : list' = [list EXCEPT !.at = "fetching", !.got = 0, !.of = n]
        BY <3>6 DEF Refresh
      <4>2. n \in Nat
        BY ExternalAssumption
      <4>3. list' \in ListType /\ list'.known = list.known
        BY <1>0, <4>1, <4>2 DEF ListType
      <4> QED
        BY <1>0, <4>3 DEF ListOK
    <3>7. CASE list' = [list EXCEPT !.got = list.got + 1]
      <4>1. list.got + 1 \in Nat
        BY <1>0 DEF ListType
      <4>2. list' \in ListType /\ list'.known = list.known
        BY <1>0, <3>7, <4>1 DEF ListType
      <4> QED
        BY <1>0, <4>2 DEF ListOK
    <3>8. CASE fetch_voices
      <4>1. CASE engine.held
        BY <3>3, <3>8, <4>1 DEF fetch_voices
      <4>2. CASE ~engine.held /\ LastPage
        BY <3>5, <3>8, <4>2 DEF fetch_voices
      <4>3. CASE ~engine.held /\ ~LastPage
        <5>1. list' = [list EXCEPT !.got = @ + 1] \/ Lists(IF list.empty_on_error THEN NoPages ELSE list.known)
          BY <3>8, <4>3 DEF fetch_voices
        <5> QED
          BY <3>3, <3>4, <3>7, <5>1
      <4> QED
        BY <4>1, <4>2, <4>3
    <3> QED
      BY <1>5, <3>6, <3>8
  <2>2. UNCHANGED <<engine, call, cache>>
    BY <1>5 DEF Refresh, fetch_voices
  <2> QED
    BY <2>1, <2>2, CallsStay DEF ExternalIInv, CacheOK, AllSent
<1> QED
  BY <1>1, <1>2, <1>3, <1>4, <1>5 DEF Around

LEMMA ExternalInductive == ExternalIInv /\ [ExternalNext]_extVars => ExternalIInv'
<1> SUFFICES ASSUME ExternalIInv, [ExternalNext]_extVars PROVE ExternalIInv'
  OBVIOUS
<1>1. ASSUME NEW c \in Callers, EngineStep(c) PROVE ExternalIInv'
  <2>1. CASE Check(c) \/ Recheck(c) \/ Skip(c) \/ Fallback(c) \/ Cut(c) \/ Wake(c)
    BY <2>1, MovesKeep DEF Check, Recheck, Skip, Fallback, Cut, Wake, GiveUp, States
  <2>2. CASE StreamCancelled(c)
    BY <2>2, MovesKeep, ReadsOnKeeps DEF StreamCancelled
  <2> QED
    BY <1>1, <2>1, <2>2, TakeMarksKeeps, ResolveKeyKeeps, SendKeeps DEF EngineStep
<1>2. ASSUME NEW c \in Callers, Replies(c, RetryAfters) PROVE ExternalIInv'
  <2>1. CASE RequestFails(c, RetryAfters) \/ VoiceRefused(c)
    BY <2>1, FailsKeeps DEF RequestFails, VoiceRefused
  <2>2. CASE FirstAudio(c) \/ MoreAudio(c)
    <3>1. call[c].answer \in AnswerType
      BY DEF ExternalIInv, CallsOK, CallOK, CallType
    <3> QED
      BY <2>2, <3>1, SentTyped, AudioKeeps DEF FirstAudio, MoreAudio
  <2>3. CASE StreamBreaks(c)
    BY <2>3, ReadsOnKeeps DEF StreamBreaks, cut
  <2> QED
    BY <1>2, <2>1, <2>2, <2>3, AnswerKeeps, StreamRefusedKeeps, StreamEndsKeeps DEF Replies
<1>3. CASE Tick \/ OutageEnds \/ Warm \/ UNCHANGED extVars \/ \E overdue \in BOOLEAN : ProgramStops(overdue)
  <2>1. UNCHANGED <<engine, call, cache, list>>
    BY <1>3 DEF Tick, OutageEnds, Warm, extVars, ProgramStops
  <2> QED
    BY <2>1, CallsStay DEF ExternalIInv, CacheOK, AllSent, ListOK
<1> QED
  BY <1>1, <1>2, <1>3, CallKeeps, AroundKeeps DEF ExternalNext

LEMMA ExternalAlways == ExternalSpec => []ExternalIInv
  BY ExternalStarts, ExternalInductive, PTL DEF ExternalSpec

-----------------------------------------------------------------------------
(* Nothing of a message is dropped when its answer is cut, whatever its    *)
(* length and sentences, the speed of the speech, the rate and the place   *)
(* (rest_of, Rest::cut and Rest::cut_quietly of streaming.rs).             *)
THEOREM ExternalMessageHeard == ExternalSpec => []MessageHeard
<1>1. ExternalIInv => MessageHeard
  BY DEF ExternalIInv, CallsOK, CallOK, MessageHeard
<1> QED
  BY <1>1, ExternalAlways, PTL

(* Cached audio ends where its text or the provider's answer does, in no   *)
(* answer that said it stopped early, whatever ends the answers; and a     *)
(* voice list has all its pages or VOICES_MAX_PAGES of them, or is empty   *)
(* (Rest::finish of streaming.rs, CueCache::keep and fetch_voices).        *)
THEOREM ExternalKeptWhole == ExternalSpec => []KeptWhole
<1>1. ExternalIInv => KeptWhole
  BY DEF ExternalIInv, CacheOK, AllSent, ListOK, KeptWhole
<1> QED
  BY <1>1, ExternalAlways, PTL

-----------------------------------------------------------------------------
(***************************************************************************)
(* Kokoro: the files and the model's preparation.                          *)
(***************************************************************************)

Contents == {"none", "good", "bad", "short"}
Part == [len : Nat, good : BOOLEAN]
Folder == [file : [Names -> Contents], part : [Names -> Part], mark : [Names -> BOOLEAN]]
Asleep == {"none", "spawn", "over"}
Fetches == {"file", "next"}
Loads == {"fetched", "load"}
Downloads == {"download", "request", "body", "hash"}
Task == [at : Asleep \cup Fetches \cup Loads \cup Downloads \cup {"renamed"}, file : 1..Len(Files),
         known : SUBSET Names, restarted : BOOLEAN, pos : Nat, fresh : BOOLEAN]

(* The types, but for the counters and the delays, of which only the shape *)
(* of their record is needed.                                              *)
ManagerShape(m) ==
  m = [phase |-> m.phase, failures |-> m.failures, running |-> m.running, wait |-> m.wait]
ProgressShape(p) ==
  p = [stage |-> p.stage, loaded |-> p.loaded, unavailable |-> p.unavailable, failed |-> p.failed,
       wait |-> p.wait, generation |-> p.generation, fallback_ok |-> p.fallback_ok]
Shapes == /\ ManagerShape(manager) /\ ProgressShape(progress)
          /\ manager.running \in BOOLEAN /\ progress.loaded \in BOOLEAN
Types == folder \in Folder /\ task \in Task /\ Shapes

(* What verified.json and the thread take for verified is.                 *)
MarksRight == \A n \in Names : folder.mark[n] => folder.file[n] = "good"
KnownRight == task.at # "none" => \A n \in task.known : folder.file[n] = "good"

(* The files before the current one have been passed; so has the current   *)
(* one between two files; while it is downloaded it is none of them.       *)
Passed ==
  /\ task.at \in Fetches \cup Downloads \cup {"renamed"} =>
       \A i \in 1..(task.file - 1) : Files[i] \in task.known
  /\ task.at = "next" => File \in task.known
  /\ task.at \in Downloads => File \notin task.known
  /\ task.at = "renamed" => folder.file[File] = "good"
  /\ task.at = "spawn" => task.file = 1

(* A load, and a loaded model, found every file right.                     *)
LoadsRight ==
  task.at \in Loads \/ progress.loaded => \A n \in Names : folder.file[n] = "good"
LoadedRests == progress.loaded => task.at \in {"none", "over"}

Claimed ==
  /\ (progress.stage # "Idle") = (task.at # "none")
  /\ manager.running = (task.at \notin {"none", "fetched", "load", "over"})
  /\ manager.phase = "Downloading" => manager.running

KokoroIInv == Types /\ MarksRight /\ KnownRight /\ Passed /\ LoadsRight /\ LoadedRests /\ Claimed

-----------------------------------------------------------------------------
(* The list of files, and the one a thread is at.                          *)
LEMMA FileNamed ==
  ASSUME task \in Task
  PROVE  /\ Len(Files) \in Nat \ {0} /\ task.file \in 1..Len(Files) /\ File \in Names
         /\ \A i \in 1..Len(Files) : Files[i] \in Names
  BY KokoroAssumption DEF Task, File, Names

(* A part that is written or dropped leaves the files and what is known.   *)
LEMMA PartWritten ==
  ASSUME folder \in Folder, NEW n \in Names, NEW p \in Part
  PROVE  LET f == [folder EXCEPT !.part[n] = p]
         IN  f \in Folder /\ f.file = folder.file /\ f.mark = folder.mark
  BY DEF Folder

LEMMA NothingIsPart == Nothing \in Part
  BY DEF Nothing, Part

LEMMA NoTaskTyped == NoTask \in Task /\ NoTask.at = "none" /\ NoTask.file = 1 /\ NoTask.known = {}
<1>1. 1 \in 1..Len(Files)
  BY KokoroAssumption
<1> QED
  BY <1>1 DEF NoTask, Task, Asleep, Fetches, Loads, Downloads

(* Nothing has been claimed when the runtime starts.                       *)
LEMMA KokoroStarts == KokoroInit => KokoroIInv
<1> SUFFICES ASSUME KokoroInit PROVE KokoroIInv
  OBVIOUS
<1>1. Len(Files) \in Nat \ {0} /\ Size \in Nat
  BY KokoroAssumption
<1>2. folder \in Folder /\ MarksRight
  <2>1. folder.mark = [n \in Names |-> FALSE] /\ folder.file \in [Names -> Contents]
    BY DEF KokoroInit, Contents
  <2>2. [len |-> 1, good |-> FALSE] \in Part /\ [len |-> Size + 1, good |-> TRUE] \in Part
    BY <1>1 DEF Part
  <2>3. folder.part \in [Names -> Part]
    BY <2>2, NothingIsPart DEF KokoroInit
  <2> QED
    BY <2>1, <2>3 DEF KokoroInit, Folder, MarksRight
<1>3. task \in Task
  BY <1>1 DEF KokoroInit, NoTask, Task, Asleep, Fetches, Loads, Downloads
<1>4. Shapes
  BY DEF KokoroInit, NewManager, NewProgress, Shapes, ManagerShape, ProgressShape
<1> QED
  BY <1>2, <1>3, <1>4 DEF KokoroInit, NewManager, NewProgress, NoTask, KokoroIInv, Types, KnownRight, Passed,
     LoadsRight, LoadedRests, Claimed, Fetches, Downloads, Loads

-----------------------------------------------------------------------------
(* The steps, one lemma each: first the types, then the conjuncts of the   *)
(* invariant.                                                              *)

(* A fetch that fails leaves the files and gives its claim back.           *)
LEMMA FetchFailsKeeps ==
  ASSUME KokoroIInv, FetchFails, task.at \in Fetches \cup Downloads \cup {"renamed", "spawn"}
  PROVE  KokoroIInv'
<1>1. /\ Len(Files) \in Nat \ {0} /\ task.file \in 1..Len(Files) /\ File \in Names
      /\ \A i \in 1..Len(Files) : Files[i] \in Names
      /\ Size \in Nat \ {0} /\ folder \in Folder /\ task \in Task /\ Shapes
  BY FileNamed, KokoroAssumption DEF KokoroIInv, Types
<1>2. folder' \in Folder
  BY <1>1 DEF FetchFails, Finish, finish_fetch, Folder, Part, Contents
<1>3. task' \in Task
  BY <1>1 DEF FetchFails, Finish, finish_fetch, Folder, Part, Contents, Task, Asleep, Fetches, Loads,
     Downloads
<1>4. Shapes'
  BY <1>1 DEF FetchFails, Finish, finish_fetch, Shapes, ManagerShape, ProgressShape
<1>5. MarksRight' /\ KnownRight'
  BY <1>1, <1>2, <1>3 DEF KokoroIInv, MarksRight, KnownRight, Passed, File, FetchFails, Finish,
     finish_fetch, Folder, Part, Contents, Task, Asleep, Fetches, Loads, Downloads
<1>6. Passed'
  BY <1>1, <1>2, <1>3 DEF KokoroIInv, KnownRight, Passed, File, FetchFails, Finish, finish_fetch, Folder,
     Part, Contents, Task, Asleep, Fetches, Loads, Downloads
<1>7. LoadsRight' /\ LoadedRests'
  BY <1>1, <1>2, <1>3, <1>4 DEF KokoroIInv, KnownRight, Passed, LoadsRight, LoadedRests, Claimed, File,
     Names, FetchFails, Finish, finish_fetch, Folder, Part, Contents, Task, Asleep, Fetches, Loads,
     Downloads, Shapes, ManagerShape, ProgressShape
<1>8. Claimed'
  BY <1>1, <1>3, <1>4 DEF KokoroIInv, Claimed, FetchFails, Finish, finish_fetch, Task, Asleep, Fetches,
     Loads, Downloads, Shapes, ManagerShape, ProgressShape
<1> QED
  BY <1>2, <1>3, <1>4, <1>5, <1>6, <1>7, <1>8 DEF KokoroIInv, Types

(* What is remembered is known to be right, or has just been hashed.       *)
LEMMA RemembersKeeps ==
  ASSUME KokoroIInv, Remembers(File), folder.file[File] = "good", task.at \in {"file", "renamed"},
         manager' = manager \/ manager' = [manager EXCEPT !.phase = "Verifying"],
         UNCHANGED progress
  PROVE  KokoroIInv'
<1>1. /\ Len(Files) \in Nat \ {0} /\ task.file \in 1..Len(Files) /\ File \in Names
      /\ \A i \in 1..Len(Files) : Files[i] \in Names
      /\ Size \in Nat \ {0} /\ folder \in Folder /\ task \in Task /\ Shapes
  BY FileNamed, KokoroAssumption DEF KokoroIInv, Types
<1>0. [m \in Names |-> m \in task.known \cup {File}] \in [Names -> BOOLEAN]
  OBVIOUS
<1>2. /\ folder' \in Folder /\ folder'.file = folder.file
      /\ \A n \in Names : folder'.mark[n] => folder.mark[n] \/ n \in task.known \cup {File}
  BY <1>0, <1>1 DEF Remembers, Folder
<1>3. task' \in Task
  BY <1>1 DEF Remembers, Folder, Part, Contents, Task, Asleep, Fetches, Loads, Downloads
<1>4. Shapes'
  BY <1>1 DEF Remembers, Shapes, ManagerShape, ProgressShape
<1>5. MarksRight' /\ KnownRight'
  BY <1>1, <1>2 DEF KokoroIInv, MarksRight, KnownRight, Remembers, Task
<1>6. Passed'
  BY <1>1, <1>2, <1>3 DEF KokoroIInv, KnownRight, Passed, File, Remembers, Folder, Part, Contents, Task,
     Asleep, Fetches, Loads, Downloads
<1>7. LoadsRight' /\ LoadedRests'
  BY <1>1, <1>2, <1>3, <1>4 DEF KokoroIInv, KnownRight, Passed, LoadsRight, LoadedRests, Claimed, File,
     Names, Remembers, Folder, Part, Contents, Task, Asleep, Fetches, Loads, Downloads, Shapes,
     ManagerShape, ProgressShape
<1>8. Claimed'
  BY <1>1, <1>3, <1>4 DEF KokoroIInv, Claimed, Remembers, Task, Asleep, Fetches, Loads, Downloads, Shapes,
     ManagerShape, ProgressShape
<1> QED
  BY <1>2, <1>3, <1>4, <1>5, <1>6, <1>7, <1>8 DEF KokoroIInv, Types

(* A file of the marked size and time is passed; another is hashed, and    *)
(* taken away unless it is right.                                          *)
LEMMA VerifyKeeps == KokoroIInv /\ Verify => KokoroIInv'
<1> SUFFICES ASSUME KokoroIInv, Verify PROVE KokoroIInv'
  OBVIOUS
<1>0. CASE ~verified(File, task.known) /\ folder.file[File] = "good"
  <2>1. /\ Remembers(File) /\ UNCHANGED progress
        /\ task.at = "file" /\ manager' = [manager EXCEPT !.phase = "Verifying"]
    BY <1>0 DEF Verify
  <2> QED
    BY <1>0, <2>1, RemembersKeeps
<1>1. File \in Names /\ folder \in Folder /\ task \in Task /\ Shapes
  BY FileNamed DEF KokoroIInv, Types
<1>2. CASE verified(File, task.known)
  <2>1. UNCHANGED <<folder, manager, progress>> /\ task' = [task EXCEPT !.at = "next"] /\ task.at = "file"
    BY <1>2 DEF Verify
  <2>2. task' \in Task
    BY <1>1, <2>1 DEF Task, Fetches
  <2> QED
    BY <1>1, <1>2, <2>1, <2>2 DEF KokoroIInv, Types, Shapes, ManagerShape, ProgressShape, MarksRight,
       KnownRight,
       Passed, LoadsRight, LoadedRests, Claimed, verified, File, Task, Fetches, Loads, Downloads
<1>3. CASE ~verified(File, task.known) /\ folder.file[File] # "good"
  <2>1. /\ task' = [task EXCEPT !.at = "download", !.restarted = FALSE] /\ task.at = "file"
        /\ manager' = manager \/ manager' = [manager EXCEPT !.phase = "Verifying"]
        /\ UNCHANGED progress
        /\ folder' = folder \/ folder' = [folder EXCEPT !.file[File] = "none", !.mark[File] = FALSE]
    BY <1>3 DEF Verify
  <2>2. task' \in Task
    BY <1>1, <2>1 DEF Task, Downloads
  <2>3. [folder EXCEPT !.file[File] = "none", !.mark[File] = FALSE] \in Folder
    BY <1>1 DEF Folder, Contents
  <2>4. /\ folder' \in Folder
        /\ \A n \in Names : folder'.mark[n] => folder.mark[n] /\ folder'.file[n] = folder.file[n]
        /\ \A n \in Names : n # File => folder'.file[n] = folder.file[n]
    <3>1. ~folder.mark[File]
      BY <1>1, <1>3 DEF KokoroIInv, MarksRight
    <3>2. CASE folder' = folder
      BY <1>1, <3>2
    <3>3. CASE folder' = [folder EXCEPT !.file[File] = "none", !.mark[File] = FALSE]
      <4>1. \A n \in Names : n # File => folder'.file[n] = folder.file[n] /\ folder'.mark[n] = folder.mark[n]
        BY <1>1, <3>3 DEF Folder
      <4>2. folder'.mark[File] = FALSE
        BY <1>1, <3>3 DEF Folder
      <4> QED
        BY <3>3, <2>3, <4>1, <4>2
    <3> QED
      BY <2>1, <3>2, <3>3
  <2>5. File \notin task.known
    BY <1>3, <2>1 DEF KokoroIInv, KnownRight
  <2>6. Shapes' /\ Claimed'
    BY <1>1, <2>1 DEF KokoroIInv, Shapes, ManagerShape, ProgressShape, Claimed, Task
  <2>7. MarksRight'
    BY <2>4 DEF KokoroIInv, MarksRight
  <2>8. KnownRight' /\ Passed'
    BY <1>1, <2>1, <2>4, <2>5 DEF KokoroIInv, KnownRight, Passed, File, Task, Fetches, Downloads
  <2>9. LoadsRight' /\ LoadedRests'
    BY <1>1, <2>1 DEF KokoroIInv, LoadsRight, LoadedRests, Task, Loads
  <2> QED
    BY <2>2, <2>4, <2>6, <2>7, <2>8, <2>9 DEF KokoroIInv, Types
<1> QED
  BY <1>0, <1>2, <1>3


LEMMA NextFileKeeps == KokoroIInv /\ NextFile => KokoroIInv'
<1> SUFFICES ASSUME KokoroIInv, NextFile PROVE KokoroIInv'
  OBVIOUS
<1>1. /\ Len(Files) \in Nat \ {0} /\ task.file \in 1..Len(Files) /\ File \in Names
      /\ \A i \in 1..Len(Files) : Files[i] \in Names
      /\ Size \in Nat \ {0} /\ folder \in Folder /\ task \in Task /\ Shapes
  BY FileNamed, KokoroAssumption DEF KokoroIInv, Types
<1>2. folder' \in Folder
  BY <1>1 DEF NextFile, Folder, Part, Contents
<1>3. task' \in Task
  <2>1. task.file + 1 \in 1..Len(Files)
    BY <1>1 DEF NextFile
  <2> QED
    BY <1>1, <2>1 DEF NextFile, Task, Fetches
<1>4. Shapes'
  BY <1>1 DEF NextFile, Shapes, ManagerShape, ProgressShape
<1>5. MarksRight' /\ KnownRight'
  BY <1>1, <1>2, <1>3 DEF KokoroIInv, MarksRight, KnownRight, Passed, File, NextFile, Folder, Part,
     Contents, Task, Asleep, Fetches, Loads, Downloads
<1>6. Passed'
  BY <1>1, <1>2, <1>3 DEF KokoroIInv, KnownRight, Passed, File, NextFile, Folder, Part, Contents, Task,
     Asleep, Fetches, Loads, Downloads
<1>7. LoadsRight' /\ LoadedRests'
  BY <1>1, <1>2, <1>3, <1>4 DEF KokoroIInv, KnownRight, Passed, LoadsRight, LoadedRests, Claimed, File,
     Names, NextFile, Folder, Part, Contents, Task, Asleep, Fetches, Loads, Downloads, Shapes, ManagerShape,
     ProgressShape
<1>8. Claimed'
  BY <1>1, <1>3, <1>4 DEF KokoroIInv, Claimed, NextFile, Task, Asleep, Fetches, Loads, Downloads, Shapes,
     ManagerShape, ProgressShape
<1> QED
  BY <1>2, <1>3, <1>4, <1>5, <1>6, <1>7, <1>8 DEF KokoroIInv, Types

LEMMA FetchedKeeps == KokoroIInv /\ Fetched => KokoroIInv'
<1> SUFFICES ASSUME KokoroIInv, Fetched PROVE KokoroIInv'
  OBVIOUS
<1>1. /\ Len(Files) \in Nat \ {0} /\ task.file \in 1..Len(Files) /\ File \in Names
      /\ \A i \in 1..Len(Files) : Files[i] \in Names
      /\ Size \in Nat \ {0} /\ folder \in Folder /\ task \in Task /\ Shapes
  BY FileNamed, KokoroAssumption DEF KokoroIInv, Types
<1>2. folder' \in Folder
  BY <1>1 DEF Fetched, Finish, finish_fetch, Folder, Part, Contents
<1>3. task' \in Task
  BY <1>1 DEF Fetched, Finish, finish_fetch, Folder, Part, Contents, Task, Asleep, Fetches, Loads, Downloads
<1>4. Shapes'
  BY <1>1 DEF Fetched, Finish, finish_fetch, Shapes, ManagerShape, ProgressShape
<1>5. MarksRight' /\ KnownRight'
  BY <1>1, <1>2, <1>3 DEF KokoroIInv, MarksRight, KnownRight, Passed, File, Fetched, Finish, finish_fetch,
     Folder, Part, Contents, Task, Asleep, Fetches, Loads, Downloads
<1>6. Passed'
  BY <1>1, <1>2, <1>3 DEF KokoroIInv, KnownRight, Passed, File, Fetched, Finish, finish_fetch, Folder, Part,
     Contents, Task, Asleep, Fetches, Loads, Downloads
<1>7. LoadsRight' /\ LoadedRests'
  BY <1>1, <1>2, <1>3, <1>4 DEF KokoroIInv, KnownRight, Passed, LoadsRight, LoadedRests, Claimed, File,
     Names, Fetched, Finish, finish_fetch, Folder, Part, Contents, Task, Asleep, Fetches, Loads, Downloads,
     Shapes, ManagerShape, ProgressShape
<1>8. Claimed'
  BY <1>1, <1>3, <1>4 DEF KokoroIInv, Claimed, Fetched, Finish, finish_fetch, Task, Asleep, Fetches, Loads,
     Downloads, Shapes, ManagerShape, ProgressShape
<1> QED
  BY <1>2, <1>3, <1>4, <1>5, <1>6, <1>7, <1>8 DEF KokoroIInv, Types

LEMMA DownloadKeeps == KokoroIInv /\ Download => KokoroIInv'
<1> SUFFICES ASSUME KokoroIInv, Download PROVE KokoroIInv'
  OBVIOUS
<1>1. /\ Len(Files) \in Nat \ {0} /\ task.file \in 1..Len(Files) /\ File \in Names
      /\ \A i \in 1..Len(Files) : Files[i] \in Names
      /\ Size \in Nat \ {0} /\ folder \in Folder /\ task \in Task /\ Shapes
  BY FileNamed, KokoroAssumption DEF KokoroIInv, Types
<1>2. folder' \in Folder /\ folder'.file = folder.file /\ folder'.mark = folder.mark
  BY <1>1, PartWritten, NothingIsPart, ZenonT(60) DEF Download
<1>3. task' \in Task
  BY <1>1, ZenonT(60) DEF Download, Nothing, Folder, Part, Contents, Task, Asleep, Fetches, Loads, Downloads
<1>4. Shapes'
  BY <1>1 DEF Download, Nothing, Shapes, ManagerShape, ProgressShape
<1>5. MarksRight' /\ KnownRight'
  BY <1>1, <1>2 DEF KokoroIInv, MarksRight, KnownRight, Download, Task
<1>6. Passed'
  BY <1>1, <1>2 DEF KokoroIInv, Passed, File, Download, Task, Fetches, Downloads
<1>7. LoadsRight' /\ LoadedRests'
  BY <1>1, <1>2 DEF KokoroIInv, LoadsRight, LoadedRests, Download, Task, Loads
<1>8. Claimed'
  BY <1>1, <1>3, <1>4 DEF KokoroIInv, Claimed, Download, Nothing, Task, Asleep, Fetches, Loads, Downloads,
     Shapes, ManagerShape, ProgressShape
<1> QED
  BY <1>2, <1>3, <1>4, <1>5, <1>6, <1>7, <1>8 DEF KokoroIInv, Types

LEMMA Answered206Keeps == KokoroIInv /\ Answered206 => KokoroIInv'
<1> SUFFICES ASSUME KokoroIInv, Answered206 PROVE KokoroIInv'
  OBVIOUS
<1>1. /\ Len(Files) \in Nat \ {0} /\ task.file \in 1..Len(Files) /\ File \in Names
      /\ \A i \in 1..Len(Files) : Files[i] \in Names
      /\ Size \in Nat \ {0} /\ folder \in Folder /\ task \in Task /\ Shapes
  BY FileNamed, KokoroAssumption DEF KokoroIInv, Types
<1>2. folder' \in Folder
  BY <1>1 DEF Answered206, Folder, Part, Contents
<1>3. task' \in Task
  BY <1>1 DEF Answered206, Folder, Part, Contents, Task, Asleep, Fetches, Loads, Downloads
<1>4. Shapes'
  BY <1>1 DEF Answered206, Shapes, ManagerShape, ProgressShape
<1>5. MarksRight' /\ KnownRight'
  BY <1>1, <1>2, <1>3 DEF KokoroIInv, MarksRight, KnownRight, Passed, File, Answered206, Folder, Part,
     Contents, Task, Asleep, Fetches, Loads, Downloads
<1>6. Passed'
  BY <1>1, <1>2, <1>3 DEF KokoroIInv, KnownRight, Passed, File, Answered206, Folder, Part, Contents, Task,
     Asleep, Fetches, Loads, Downloads
<1>7. LoadsRight' /\ LoadedRests'
  BY <1>1, <1>2, <1>3, <1>4 DEF KokoroIInv, KnownRight, Passed, LoadsRight, LoadedRests, Claimed, File,
     Names, Answered206, Folder, Part, Contents, Task, Asleep, Fetches, Loads, Downloads, Shapes,
     ManagerShape, ProgressShape
<1>8. Claimed'
  BY <1>1, <1>3, <1>4 DEF KokoroIInv, Claimed, Answered206, Task, Asleep, Fetches, Loads, Downloads, Shapes,
     ManagerShape, ProgressShape
<1> QED
  BY <1>2, <1>3, <1>4, <1>5, <1>6, <1>7, <1>8 DEF KokoroIInv, Types

LEMMA Answered200Keeps == KokoroIInv /\ Answered200 => KokoroIInv'
<1> SUFFICES ASSUME KokoroIInv, Answered200 PROVE KokoroIInv'
  OBVIOUS
<1>1. /\ Len(Files) \in Nat \ {0} /\ task.file \in 1..Len(Files) /\ File \in Names
      /\ \A i \in 1..Len(Files) : Files[i] \in Names
      /\ Size \in Nat \ {0} /\ folder \in Folder /\ task \in Task /\ Shapes
  BY FileNamed, KokoroAssumption DEF KokoroIInv, Types
<1>2. folder' \in Folder /\ folder'.file = folder.file /\ folder'.mark = folder.mark
  BY <1>1, PartWritten, NothingIsPart DEF Answered200
<1>3. task' \in Task
  BY <1>1 DEF Answered200, Nothing, Folder, Part, Contents, Task, Asleep, Fetches, Loads, Downloads
<1>4. Shapes'
  BY <1>1 DEF Answered200, Nothing, Shapes, ManagerShape, ProgressShape
<1>5. MarksRight' /\ KnownRight'
  BY <1>1, <1>2 DEF KokoroIInv, MarksRight, KnownRight, Answered200, Task
<1>6. Passed'
  BY <1>1, <1>2 DEF KokoroIInv, Passed, File, Answered200, Task, Fetches, Downloads
<1>7. LoadsRight' /\ LoadedRests'
  BY <1>1, <1>2 DEF KokoroIInv, LoadsRight, LoadedRests, Answered200, Task, Loads
<1>8. Claimed'
  BY <1>1, <1>3, <1>4 DEF KokoroIInv, Claimed, Answered200, Nothing, Task, Asleep, Fetches, Loads,
     Downloads, Shapes, ManagerShape, ProgressShape
<1> QED
  BY <1>2, <1>3, <1>4, <1>5, <1>6, <1>7, <1>8 DEF KokoroIInv, Types

LEMMA StartOverKeeps == KokoroIInv /\ StartOver => KokoroIInv'
<1> SUFFICES ASSUME KokoroIInv, StartOver PROVE KokoroIInv'
  OBVIOUS
<1>1. /\ Len(Files) \in Nat \ {0} /\ task.file \in 1..Len(Files) /\ File \in Names
      /\ \A i \in 1..Len(Files) : Files[i] \in Names
      /\ Size \in Nat \ {0} /\ folder \in Folder /\ task \in Task /\ Shapes
  BY FileNamed, KokoroAssumption DEF KokoroIInv, Types
<1>2. folder' \in Folder /\ folder'.file = folder.file /\ folder'.mark = folder.mark
  BY <1>1, PartWritten, NothingIsPart DEF StartOver
<1>3. task' \in Task
  BY <1>1 DEF StartOver, Nothing, Folder, Part, Contents, Task, Asleep, Fetches, Loads, Downloads
<1>4. Shapes'
  BY <1>1 DEF StartOver, Nothing, Shapes, ManagerShape, ProgressShape
<1>5. MarksRight' /\ KnownRight'
  BY <1>1, <1>2 DEF KokoroIInv, MarksRight, KnownRight, StartOver, Task
<1>6. Passed'
  BY <1>1, <1>2 DEF KokoroIInv, Passed, File, StartOver, Task, Fetches, Downloads
<1>7. LoadsRight' /\ LoadedRests'
  BY <1>1, <1>2 DEF KokoroIInv, LoadsRight, LoadedRests, StartOver, Task, Loads
<1>8. Claimed'
  BY <1>1, <1>3, <1>4 DEF KokoroIInv, Claimed, StartOver, Nothing, Task, Asleep, Fetches, Loads, Downloads,
     Shapes, ManagerShape, ProgressShape
<1> QED
  BY <1>2, <1>3, <1>4, <1>5, <1>6, <1>7, <1>8 DEF KokoroIInv, Types

LEMMA BlockKeeps == KokoroIInv /\ Block => KokoroIInv'
<1> SUFFICES ASSUME KokoroIInv, Block PROVE KokoroIInv'
  OBVIOUS
<1>1. /\ Len(Files) \in Nat \ {0} /\ task.file \in 1..Len(Files) /\ File \in Names
      /\ \A i \in 1..Len(Files) : Files[i] \in Names
      /\ Size \in Nat \ {0} /\ folder \in Folder /\ task \in Task /\ Shapes
  BY FileNamed, KokoroAssumption DEF KokoroIInv, Types
<1>2. folder' \in Folder /\ folder'.file = folder.file /\ folder'.mark = folder.mark
  <2>1. PICK good \in BOOLEAN :
          folder' = [folder EXCEPT !.part[File] = [len |-> task.pos + 1, good |-> folder.part[File].good /\ good]]
    BY <1>1 DEF Block
  <2>2. folder.part[File].good \in BOOLEAN /\ task.pos + 1 \in Nat
    BY <1>1 DEF Folder, Part, Task
  <2>3. [len |-> task.pos + 1, good |-> folder.part[File].good /\ good] \in Part
    BY <2>2 DEF Part
  <2> QED
    BY <1>1, <2>1, <2>3, PartWritten
<1>3. task' \in Task
  <2>1. task' = [task EXCEPT !.pos = task.pos + 1] /\ task.pos + 1 \in Nat
    BY <1>1 DEF Block, Task
  <2> QED
    BY <1>1, <2>1 DEF Task
<1>4. Shapes'
  BY <1>1 DEF Block, Shapes, ManagerShape, ProgressShape
<1>5. MarksRight' /\ KnownRight'
  BY <1>1, <1>2, <1>3 DEF KokoroIInv, MarksRight, KnownRight, Passed, File, Block, Folder, Part, Contents,
     Task, Asleep, Fetches, Loads, Downloads
<1>6. Passed'
  BY <1>1, <1>2, <1>3 DEF KokoroIInv, KnownRight, Passed, File, Block, Folder, Part, Contents, Task, Asleep,
     Fetches, Loads, Downloads
<1>7. LoadsRight' /\ LoadedRests'
  BY <1>1, <1>2, <1>3, <1>4 DEF KokoroIInv, KnownRight, Passed, LoadsRight, LoadedRests, Claimed, File,
     Names, Block, Folder, Part, Contents, Task, Asleep, Fetches, Loads, Downloads, Shapes, ManagerShape,
     ProgressShape
<1>8. Claimed'
  BY <1>1, <1>3, <1>4 DEF KokoroIInv, Claimed, Block, Task, Asleep, Fetches, Loads, Downloads, Shapes,
     ManagerShape, ProgressShape
<1> QED
  BY <1>2, <1>3, <1>4, <1>5, <1>6, <1>7, <1>8 DEF KokoroIInv, Types

LEMMA BodyEndsKeeps == KokoroIInv /\ BodyEnds => KokoroIInv'
<1> SUFFICES ASSUME KokoroIInv, BodyEnds PROVE KokoroIInv'
  OBVIOUS
<1>1. /\ Len(Files) \in Nat \ {0} /\ task.file \in 1..Len(Files) /\ File \in Names
      /\ \A i \in 1..Len(Files) : Files[i] \in Names
      /\ Size \in Nat \ {0} /\ folder \in Folder /\ task \in Task /\ Shapes
  BY FileNamed, KokoroAssumption DEF KokoroIInv, Types
<1>2. folder' \in Folder
  BY <1>1 DEF BodyEnds, Folder, Part, Contents
<1>3. task' \in Task
  BY <1>1 DEF BodyEnds, Folder, Part, Contents, Task, Asleep, Fetches, Loads, Downloads
<1>4. Shapes'
  BY <1>1 DEF BodyEnds, Shapes, ManagerShape, ProgressShape
<1>5. MarksRight' /\ KnownRight'
  BY <1>1, <1>2, <1>3 DEF KokoroIInv, MarksRight, KnownRight, Passed, File, BodyEnds, Folder, Part,
     Contents, Task, Asleep, Fetches, Loads, Downloads
<1>6. Passed'
  BY <1>1, <1>2, <1>3 DEF KokoroIInv, KnownRight, Passed, File, BodyEnds, Folder, Part, Contents, Task,
     Asleep, Fetches, Loads, Downloads
<1>7. LoadsRight' /\ LoadedRests'
  BY <1>1, <1>2, <1>3, <1>4 DEF KokoroIInv, KnownRight, Passed, LoadsRight, LoadedRests, Claimed, File,
     Names, BodyEnds, Folder, Part, Contents, Task, Asleep, Fetches, Loads, Downloads, Shapes, ManagerShape,
     ProgressShape
<1>8. Claimed'
  BY <1>1, <1>3, <1>4 DEF KokoroIInv, Claimed, BodyEnds, Task, Asleep, Fetches, Loads, Downloads, Shapes,
     ManagerShape, ProgressShape
<1> QED
  BY <1>2, <1>3, <1>4, <1>5, <1>6, <1>7, <1>8 DEF KokoroIInv, Types

LEMMA RenameKeeps == KokoroIInv /\ Rename => KokoroIInv'
<1> SUFFICES ASSUME KokoroIInv, Rename PROVE KokoroIInv'
  OBVIOUS
<1>1. /\ Len(Files) \in Nat \ {0} /\ task.file \in 1..Len(Files) /\ File \in Names
      /\ \A i \in 1..Len(Files) : Files[i] \in Names
      /\ Size \in Nat \ {0} /\ folder \in Folder /\ task \in Task /\ Shapes
  BY FileNamed, KokoroAssumption DEF KokoroIInv, Types
<1>2. folder' \in Folder
  BY <1>1 DEF Rename, hashed, Complete, Nothing, Folder, Part, Contents
<1>3. task' \in Task
  BY <1>1 DEF Rename, hashed, Complete, Nothing, Folder, Part, Contents, Task, Asleep, Fetches, Loads,
     Downloads
<1>4. Shapes'
  BY <1>1 DEF Rename, hashed, Complete, Nothing, Shapes, ManagerShape, ProgressShape
<1>5. MarksRight' /\ KnownRight'
  BY <1>1, <1>2, <1>3 DEF KokoroIInv, MarksRight, KnownRight, Passed, File, Rename, hashed, Complete,
     Nothing, Folder, Part, Contents, Task, Asleep, Fetches, Loads, Downloads
<1>6. Passed'
  BY <1>1, <1>2, <1>3 DEF KokoroIInv, KnownRight, Passed, File, Rename, hashed, Complete, Nothing, Folder,
     Part, Contents, Task, Asleep, Fetches, Loads, Downloads
<1>7. LoadsRight' /\ LoadedRests'
  BY <1>1, <1>2, <1>3, <1>4 DEF KokoroIInv, KnownRight, Passed, LoadsRight, LoadedRests, Claimed, File,
     Names, Rename, hashed, Complete, Nothing, Folder, Part, Contents, Task, Asleep, Fetches, Loads,
     Downloads, Shapes, ManagerShape, ProgressShape
<1>8. Claimed'
  BY <1>1, <1>3, <1>4 DEF KokoroIInv, Claimed, Rename, hashed, Complete, Nothing, Task, Asleep, Fetches,
     Loads, Downloads, Shapes, ManagerShape, ProgressShape
<1> QED
  BY <1>2, <1>3, <1>4, <1>5, <1>6, <1>7, <1>8 DEF KokoroIInv, Types

LEMMA MismatchKeeps == KokoroIInv /\ Mismatch => KokoroIInv'
<1> SUFFICES ASSUME KokoroIInv, Mismatch PROVE KokoroIInv'
  OBVIOUS
<1>1. /\ Len(Files) \in Nat \ {0} /\ task.file \in 1..Len(Files) /\ File \in Names
      /\ \A i \in 1..Len(Files) : Files[i] \in Names
      /\ Size \in Nat \ {0} /\ folder \in Folder /\ task \in Task /\ Shapes
  BY FileNamed, KokoroAssumption DEF KokoroIInv, Types
<1>2. folder' \in Folder
  BY <1>1 DEF Mismatch, mismatch, Nothing, Finish, finish_fetch, Folder, Part, Contents
<1>3. task' \in Task
  BY <1>1 DEF Mismatch, mismatch, Nothing, Finish, finish_fetch, Folder, Part, Contents, Task, Asleep,
     Fetches, Loads, Downloads
<1>4. Shapes'
  BY <1>1 DEF Mismatch, mismatch, Nothing, Finish, finish_fetch, Shapes, ManagerShape, ProgressShape
<1>5. MarksRight' /\ KnownRight'
  BY <1>1, <1>2, <1>3 DEF KokoroIInv, MarksRight, KnownRight, Passed, File, Mismatch, mismatch, Nothing,
     Finish, finish_fetch, Folder, Part, Contents, Task, Asleep, Fetches, Loads, Downloads
<1>6. Passed'
  BY <1>1, <1>2, <1>3 DEF KokoroIInv, KnownRight, Passed, File, Mismatch, mismatch, Nothing, Finish,
     finish_fetch, Folder, Part, Contents, Task, Asleep, Fetches, Loads, Downloads
<1>7. LoadsRight' /\ LoadedRests'
  BY <1>1, <1>2, <1>3, <1>4 DEF KokoroIInv, KnownRight, Passed, LoadsRight, LoadedRests, Claimed, File,
     Names, Mismatch, mismatch, Nothing, Finish, finish_fetch, Folder, Part, Contents, Task, Asleep,
     Fetches, Loads, Downloads, Shapes, ManagerShape, ProgressShape
<1>8. Claimed'
  BY <1>1, <1>3, <1>4 DEF KokoroIInv, Claimed, Mismatch, mismatch, Nothing, Finish, finish_fetch, Task,
     Asleep, Fetches, Loads, Downloads, Shapes, ManagerShape, ProgressShape
<1> QED
  BY <1>2, <1>3, <1>4, <1>5, <1>6, <1>7, <1>8 DEF KokoroIInv, Types

LEMMA SpawnedKeeps == KokoroIInv /\ Spawned => KokoroIInv'
<1> SUFFICES ASSUME KokoroIInv, Spawned PROVE KokoroIInv'
  OBVIOUS
<1>1. /\ Len(Files) \in Nat \ {0} /\ task.file \in 1..Len(Files) /\ File \in Names
      /\ \A i \in 1..Len(Files) : Files[i] \in Names
      /\ Size \in Nat \ {0} /\ folder \in Folder /\ task \in Task /\ Shapes
  BY FileNamed, KokoroAssumption DEF KokoroIInv, Types
<1>2. folder' \in Folder
  BY <1>1 DEF Spawned, read_verified, Folder, Part, Contents
<1>3. task' \in Task
  BY <1>1 DEF Spawned, read_verified, Folder, Part, Contents, Task, Asleep, Fetches, Loads, Downloads
<1>4. Shapes'
  BY <1>1 DEF Spawned, read_verified, Shapes, ManagerShape, ProgressShape
<1>5. MarksRight' /\ KnownRight'
  BY <1>1, <1>2, <1>3 DEF KokoroIInv, MarksRight, KnownRight, Passed, File, Spawned, read_verified, Folder,
     Part, Contents, Task, Asleep, Fetches, Loads, Downloads
<1>6. Passed'
  <2>1. task.file = 1 /\ task'.file = 1 /\ task'.at = "file"
    BY <1>1 DEF KokoroIInv, Passed, Spawned, Task
  <2> QED
    BY <2>1 DEF Passed, Fetches, Downloads
<1>7. LoadsRight' /\ LoadedRests'
  BY <1>1, <1>2, <1>3, <1>4 DEF KokoroIInv, KnownRight, Passed, LoadsRight, LoadedRests, Claimed, File,
     Names, Spawned, read_verified, Folder, Part, Contents, Task, Asleep, Fetches, Loads, Downloads, Shapes,
     ManagerShape, ProgressShape
<1>8. Claimed'
  BY <1>1, <1>3, <1>4 DEF KokoroIInv, Claimed, Spawned, read_verified, Task, Asleep, Fetches, Loads,
     Downloads, Shapes, ManagerShape, ProgressShape
<1> QED
  BY <1>2, <1>3, <1>4, <1>5, <1>6, <1>7, <1>8 DEF KokoroIInv, Types

LEMMA TaskEndsKeeps == KokoroIInv /\ TaskEnds => KokoroIInv'
<1> SUFFICES ASSUME KokoroIInv, TaskEnds PROVE KokoroIInv'
  OBVIOUS
<1>1. /\ Len(Files) \in Nat \ {0} /\ task.file \in 1..Len(Files) /\ File \in Names
      /\ \A i \in 1..Len(Files) : Files[i] \in Names
      /\ Size \in Nat \ {0} /\ folder \in Folder /\ task \in Task /\ Shapes
  BY FileNamed, KokoroAssumption DEF KokoroIInv, Types
<1>2. folder' \in Folder
  BY <1>1 DEF TaskEnds, GivesBack, NoTask, Folder, Part, Contents
<1>3. task' \in Task
  BY <1>1 DEF TaskEnds, GivesBack, NoTask, Folder, Part, Contents, Task, Asleep, Fetches, Loads, Downloads
<1>4. Shapes'
  BY <1>1 DEF TaskEnds, GivesBack, NoTask, Shapes, ManagerShape, ProgressShape
<1>5. MarksRight' /\ KnownRight'
  BY <1>1, <1>2, <1>3 DEF KokoroIInv, MarksRight, KnownRight, Passed, File, TaskEnds, GivesBack, NoTask,
     Folder, Part, Contents, Task, Asleep, Fetches, Loads, Downloads
<1>6. Passed'
  BY <1>1, <1>2, <1>3 DEF KokoroIInv, KnownRight, Passed, File, TaskEnds, GivesBack, NoTask, Folder, Part,
     Contents, Task, Asleep, Fetches, Loads, Downloads
<1>7. LoadsRight' /\ LoadedRests'
  BY <1>1, <1>2, <1>3, <1>4 DEF KokoroIInv, KnownRight, Passed, LoadsRight, LoadedRests, Claimed, File,
     Names, TaskEnds, GivesBack, NoTask, Folder, Part, Contents, Task, Asleep, Fetches, Loads, Downloads,
     Shapes, ManagerShape, ProgressShape
<1>8. Claimed'
  BY <1>1, <1>3, <1>4 DEF KokoroIInv, Claimed, TaskEnds, GivesBack, NoTask, Task, Asleep, Fetches, Loads,
     Downloads, Shapes, ManagerShape, ProgressShape
<1> QED
  BY <1>2, <1>3, <1>4, <1>5, <1>6, <1>7, <1>8 DEF KokoroIInv, Types

LEMMA LoadKeeps == KokoroIInv /\ Load => KokoroIInv'
<1> SUFFICES ASSUME KokoroIInv, Load PROVE KokoroIInv'
  OBVIOUS
<1>1. /\ Len(Files) \in Nat \ {0} /\ task.file \in 1..Len(Files) /\ File \in Names
      /\ \A i \in 1..Len(Files) : Files[i] \in Names
      /\ Size \in Nat \ {0} /\ folder \in Folder /\ task \in Task /\ Shapes
  BY FileNamed, KokoroAssumption DEF KokoroIInv, Types
<1>2. folder' \in Folder
  BY <1>1 DEF Load, Folder, Part, Contents
<1>3. task' \in Task
  BY <1>1 DEF Load, Folder, Part, Contents, Task, Asleep, Fetches, Loads, Downloads
<1>4. Shapes'
  BY <1>1 DEF Load, Shapes, ManagerShape, ProgressShape
<1>5. MarksRight' /\ KnownRight'
  BY <1>1, <1>2, <1>3 DEF KokoroIInv, MarksRight, KnownRight, Passed, File, Load, Folder, Part, Contents,
     Task, Asleep, Fetches, Loads, Downloads
<1>6. Passed'
  BY <1>1, <1>2, <1>3 DEF KokoroIInv, KnownRight, Passed, File, Load, Folder, Part, Contents, Task, Asleep,
     Fetches, Loads, Downloads
<1>7. LoadsRight' /\ LoadedRests'
  BY <1>1, <1>2, <1>3, <1>4 DEF KokoroIInv, KnownRight, Passed, LoadsRight, LoadedRests, Claimed, File,
     Names, Load, Folder, Part, Contents, Task, Asleep, Fetches, Loads, Downloads, Shapes, ManagerShape,
     ProgressShape
<1>8. Claimed'
  BY <1>1, <1>3, <1>4 DEF KokoroIInv, Claimed, Load, Task, Asleep, Fetches, Loads, Downloads, Shapes,
     ManagerShape, ProgressShape
<1> QED
  BY <1>2, <1>3, <1>4, <1>5, <1>6, <1>7, <1>8 DEF KokoroIInv, Types

LEMMA LoadedKeeps == KokoroIInv /\ Loaded => KokoroIInv'
<1> SUFFICES ASSUME KokoroIInv, Loaded PROVE KokoroIInv'
  OBVIOUS
<1>1. /\ Len(Files) \in Nat \ {0} /\ task.file \in 1..Len(Files) /\ File \in Names
      /\ \A i \in 1..Len(Files) : Files[i] \in Names
      /\ Size \in Nat \ {0} /\ folder \in Folder /\ task \in Task /\ Shapes
  BY FileNamed, KokoroAssumption DEF KokoroIInv, Types
<1>2. folder' \in Folder
  BY <1>1 DEF Loaded, Folder, Part, Contents
<1>3. task' \in Task
  BY <1>1 DEF Loaded, Folder, Part, Contents, Task, Asleep, Fetches, Loads, Downloads
<1>4. Shapes'
  BY <1>1 DEF Loaded, Shapes, ManagerShape, ProgressShape
<1>5. MarksRight' /\ KnownRight'
  BY <1>1, <1>2, <1>3 DEF KokoroIInv, MarksRight, KnownRight, Passed, File, Loaded, Folder, Part, Contents,
     Task, Asleep, Fetches, Loads, Downloads
<1>6. Passed'
  BY <1>1, <1>2, <1>3 DEF KokoroIInv, KnownRight, Passed, File, Loaded, Folder, Part, Contents, Task,
     Asleep, Fetches, Loads, Downloads
<1>7. LoadsRight' /\ LoadedRests'
  BY <1>1, <1>2, <1>3, <1>4 DEF KokoroIInv, KnownRight, Passed, LoadsRight, LoadedRests, Claimed, File,
     Names, Loaded, Folder, Part, Contents, Task, Asleep, Fetches, Loads, Downloads, Shapes, ManagerShape,
     ProgressShape
<1>8. Claimed'
  BY <1>1, <1>3, <1>4 DEF KokoroIInv, Claimed, Loaded, Task, Asleep, Fetches, Loads, Downloads, Shapes,
     ManagerShape, ProgressShape
<1> QED
  BY <1>2, <1>3, <1>4, <1>5, <1>6, <1>7, <1>8 DEF KokoroIInv, Types

(* A claim is taken only where none is, by a call of prepare or a chunk.   *)
LEMMA StartedKeeps == KokoroIInv /\ Started /\ UNCHANGED folder => KokoroIInv'
<1> SUFFICES ASSUME KokoroIInv, Started, UNCHANGED folder PROVE KokoroIInv'
  OBVIOUS
<1>1. /\ Len(Files) \in Nat \ {0} /\ folder \in Folder /\ task \in Task /\ Shapes
  BY FileNamed DEF KokoroIInv, Types
<1>2. CASE UNCHANGED <<progress, manager, task>>
  BY <1>2 DEF KokoroIInv, Types, Shapes, MarksRight, KnownRight, Passed, File, LoadsRight, LoadedRests,
     Claimed
<1>3. CASE progress' = [progress EXCEPT !.unavailable = TRUE] /\ UNCHANGED <<manager, task>>
  <2>1. /\ ProgressShape(progress)'
        /\ progress'.stage = progress.stage /\ progress'.loaded = progress.loaded
    BY <1>1, <1>3 DEF Shapes, ProgressShape
  <2> QED
    BY <1>3, <2>1 DEF KokoroIInv, Types, Shapes, MarksRight, KnownRight, Passed, File, LoadsRight,
       LoadedRests, Claimed
<1>4. CASE ~start_refused /\ ~begin_refused
           /\ progress' = [progress EXCEPT !.stage = IF on_disk THEN "Loading" ELSE "Fetching"]
           /\ manager' = [manager EXCEPT !.running = TRUE]
           /\ task' = [NoTask EXCEPT !.at = "spawn", !.fresh = ~on_disk]
  <2>1. /\ task'.at = "spawn" /\ task'.file = 1 /\ task'.known = {} /\ task' \in Task
    <3>1. (~on_disk) \in BOOLEAN
      BY DEF on_disk
    <3> QED
      BY <1>4, <3>1, NoTaskTyped DEF Task, Asleep
  <2>2. /\ Shapes' /\ progress'.stage # "Idle" /\ ~progress.loaded /\ ~progress'.loaded
        /\ manager'.running = TRUE
    BY <1>1, <1>4 DEF Shapes, ManagerShape, ProgressShape, start_refused
  <2>3. KnownRight' /\ Passed' /\ LoadsRight' /\ LoadedRests'
    BY <2>1, <2>2 DEF KnownRight, Passed, LoadsRight, LoadedRests, Fetches, Downloads, Loads
  <2>4. Claimed'
    BY <2>1, <2>2 DEF Claimed
  <2> QED
    BY <1>1, <2>1, <2>2, <2>3, <2>4 DEF KokoroIInv, Types, MarksRight
<1> QED
  BY <1>2, <1>3, <1>4 DEF Started

(* What only a chunk, a wait or the surroundings change.                   *)
LEMMA RestKeeps ==
  ASSUME KokoroIInv, UNCHANGED <<folder, task>>, Shapes',
         progress'.stage = progress.stage, progress'.loaded = progress.loaded,
         manager'.running = manager.running, manager'.phase = manager.phase
  PROVE  KokoroIInv'
  BY DEF KokoroIInv, Types, Shapes, MarksRight, KnownRight, Passed, File, LoadsRight, LoadedRests, Claimed

LEMMA ChunkingKeeps == KokoroIInv /\ Chunking => KokoroIInv'
<1> SUFFICES ASSUME KokoroIInv, Chunking PROVE KokoroIInv'
  OBVIOUS
<1>1. CASE Synthesize
  BY <1>1, StartedKeeps DEF Synthesize
<1>2. CASE ~Synthesize
  <2>1. Shapes
    BY DEF KokoroIInv, Types
  <2>2. \/ UNCHANGED <<folder, manager, progress, task>>
        \/ /\ UNCHANGED <<folder, manager, task>>
           /\ \/ progress' = [progress EXCEPT !.generation = @ + 1]
              \/ \E f : progress' = [progress EXCEPT !.fallback_ok = f]
    BY <1>2 DEF Chunking, usable_fallback, StreamNext, infer, cancel, wait_loading, wait_kokoro
  <2>3. Shapes' /\ progress'.stage = progress.stage /\ progress'.loaded = progress.loaded
    BY <2>1, <2>2 DEF Shapes, ManagerShape, ProgressShape
  <2> QED
    BY <2>2, <2>3, RestKeeps
<1> QED
  BY <1>1, <1>2

LEMMA WaitKeeps == KokoroIInv /\ Wait => KokoroIInv'
<1> SUFFICES ASSUME KokoroIInv, Wait PROVE KokoroIInv'
  OBVIOUS
<1>1. Shapes
  BY DEF KokoroIInv, Types
<1>2. /\ Shapes' /\ progress'.stage = progress.stage /\ progress'.loaded = progress.loaded
      /\ manager'.running = manager.running /\ manager'.phase = manager.phase
  BY <1>1 DEF Wait, Shapes, ManagerShape, ProgressShape
<1> QED
  BY <1>2, RestKeeps DEF Wait

(* After a crash nothing is claimed, and a file a host has put there       *)
(* meanwhile has lost its mark.                                            *)
LEMMA CrashKeeps == KokoroIInv /\ Crash => KokoroIInv'
<1> SUFFICES ASSUME KokoroIInv, Crash PROVE KokoroIInv'
  OBVIOUS
<1>1. Len(Files) \in Nat \ {0} /\ folder \in Folder
  BY FileNamed, SMTT(30) DEF KokoroIInv, Types
<1>2. folder' \in Folder /\ MarksRight'
  <2>1. CASE UNCHANGED folder
    BY <1>1, <2>1 DEF KokoroIInv, MarksRight
  <2>2. CASE \E n \in Names, c \in {"good", "bad", "short"} :
               folder' = [folder EXCEPT !.file[n] = c, !.mark[n] = FALSE]
    <3>1. PICK n \in Names, c \in {"good", "bad", "short"} :
            folder' = [folder EXCEPT !.file[n] = c, !.mark[n] = FALSE]
      BY <2>2
    <3>2. folder' \in Folder
      BY <1>1, <3>1 DEF Folder, Contents
    <3>3. \A m \in Names : folder'.mark[m] => m # n /\ folder.mark[m] /\ folder'.file[m] = folder.file[m]
      <4>1. \A m \in Names : m # n => folder'.mark[m] = folder.mark[m] /\ folder'.file[m] = folder.file[m]
        BY <1>1, <3>1 DEF Folder
      <4>2. folder'.mark[n] = FALSE
        BY <1>1, <3>1 DEF Folder
      <4> QED
        BY <4>1, <4>2
    <3> QED
      BY <3>2, <3>3 DEF KokoroIInv, MarksRight
  <2> QED
    BY <2>1, <2>2 DEF Crash
<1>3. task' = NoTask /\ NoTask \in Task /\ NoTask.at = "none"
  BY NoTaskTyped DEF Crash
<1>4. Shapes' /\ progress'.stage = "Idle" /\ ~progress'.loaded /\ ~manager'.running /\ manager'.phase = "Idle"
  BY DEF Crash, NewManager, NewProgress, Shapes, ManagerShape, ProgressShape
<1>5. KnownRight' /\ Passed' /\ LoadsRight' /\ LoadedRests'
  BY <1>3, <1>4 DEF KnownRight, Passed, LoadsRight, LoadedRests, Fetches, Downloads, Loads
<1>6. Claimed'
  BY <1>3, <1>4 DEF Claimed, Shapes
<1> QED
  BY <1>2, <1>3, <1>4, <1>5, <1>6 DEF KokoroIInv, Types

(* Every step keeps the invariant.                                         *)
LEMMA KokoroInductive == KokoroIInv /\ [KokoroNext]_kokoroVars => KokoroIInv'
<1> SUFFICES ASSUME KokoroIInv, [KokoroNext]_kokoroVars PROVE KokoroIInv'
  OBVIOUS
<1>1. CASE Prepare
  BY <1>1, StartedKeeps DEF Prepare
<1>2. CASE Preparing /\ ~Renamed
  BY <1>2, VerifyKeeps, NextFileKeeps, FetchedKeeps, DownloadKeeps, Answered206Keeps, Answered200Keeps,
     StartOverKeeps, BlockKeeps, BodyEndsKeeps, RenameKeeps, MismatchKeeps, SpawnedKeeps, TaskEndsKeeps,
     LoadKeeps, LoadedKeeps DEF Preparing
<1>3. CASE Renamed
  <2>1. folder.file[File] = "good"
    BY <1>3 DEF KokoroIInv, Passed, Renamed
  <2> QED
    BY <1>3, <2>1, RemembersKeeps DEF Renamed
<1>4. CASE Troubles
  BY <1>4, FetchFailsKeeps DEF Troubles, DiskFails, AnswerFails, BodyFails, SpawnFails, Fetches, Downloads
<1>5. CASE Chunking
  BY <1>5, ChunkingKeeps
<1>6. CASE Crash
  BY <1>6, CrashKeeps
<1>7. CASE TroubleEnds \/ UNCHANGED kokoroVars
  <2>1. UNCHANGED <<folder, manager, progress, task>>
    BY <1>7 DEF TroubleEnds, kokoroVars
  <2> QED
    BY <2>1, RestKeeps DEF KokoroIInv, Types, Shapes
<1>8. CASE Wait
  BY <1>8, WaitKeeps
<1> QED
  BY <1>1, <1>2, <1>3, <1>4, <1>5, <1>6, <1>7, <1>8 DEF KokoroNext

LEMMA KokoroAlways == KokoroSpec => []KokoroIInv
  BY KokoroStarts, KokoroInductive, PTL DEF KokoroSpec

-----------------------------------------------------------------------------
(* A model is loaded only from the pinned files, and verified.json names   *)
(* no other, whatever breaks, crashes and changes under the runtime        *)
(* (fetch_all, download and remember of download.rs, load of mod.rs).      *)
THEOREM KokoroFilesWhole == KokoroSpec => []FilesWhole
<1>1. KokoroIInv => FilesWhole
  BY DEF KokoroIInv, MarksRight, LoadsRight, FilesWhole
<1> QED
  BY <1>1, KokoroAlways, PTL

(* The engine says that it prepares exactly while a thread does, the claim *)
(* of a fetch is given back on every path, and no download is shown that   *)
(* is over (start, prepare and is_preparing of mod.rs, begin and finish of *)
(* download.rs).                                                           *)
THEOREM KokoroPreparationTold == KokoroSpec => []PreparationTold
<1>1. KokoroIInv => PreparationTold
  <2> SUFFICES ASSUME KokoroIInv PROVE PreparationTold
    OBVIOUS
  <2>1. status = "downloading" => manager.phase = "Downloading"
    BY DEF status, KokoroIInv, Types, Shapes
  <2> QED
    BY <2>1 DEF KokoroIInv, Claimed, PreparationTold
<1> QED
  BY <1>1, KokoroAlways, PTL

-----------------------------------------------------------------------------
(***************************************************************************)
(* Engines: the profiles and their keys.                                   *)
(***************************************************************************)

Raw == [kind : {"http", "command", "other"}, address : Address, env : BOOLEAN,
        confirmed : Address \cup {"none"}]

(* The address a list entry's env key is confirmed for, in a file of that  *)
(* format: a file of format 1 confirms the address it has.                 *)
Effective(raw, format) == IF format = 1 /\ raw.confirmed = "none" THEN raw.address ELSE raw.confirmed
Home(id, a, given) == a = "none" \/ <<id, a>> \in given

(* What is confirmed in the entry of id is what the user confirmed.        *)
EntryHome(id, raw, format, given) == raw \in Raw /\ (raw.env => Home(id, Effective(raw, format), given))
ListHome(raws, format, given) == \A i \in DOMAIN raws : EntryHome(i, raws[i], format, given)
TextTyped(text) ==
  /\ text.format \in {1, 2} /\ IsFiniteSet(DOMAIN text.list)
  /\ text.last.raw \in Raw /\ \A i \in DOMAIN text.list : text.list[i] \in Raw
TextHome(text, given) == TextTyped(text) /\ ListHome(Read(text), text.format, given)
TableHome(t, given) == IsFiniteSet(DOMAIN t) /\ \A i \in DOMAIN t : EntryHome(i, t[i].raw, FORMAT, given)

Fields == /\ {"text", "bad"} \subseteq DOMAIN disk /\ "before" \in DOMAIN cli
          /\ {"wrote", "confirmed", "raced", "text"} \subseteq DOMAIN user
OpsRaw == DOMAIN op = Thread /\ \A t \in Thread : "raw" \in DOMAIN op[t] /\ op[t].raw \in Raw

(* The inductive invariant: the file, the file the CLI would put back, and *)
(* the entries in memory say no more than the user confirmed.              *)
EnginesIInv ==
  /\ Fields /\ OpsRaw
  /\ TextHome(disk.text, user.confirmed) /\ TextHome(cli.before, user.confirmed)
  /\ TableHome(table, user.confirmed)

-----------------------------------------------------------------------------
(* Entries and lists.                                                      *)

LEMMA RawsTyped ==
  /\ \A a \in Address, env \in BOOLEAN, c \in Address \cup {"none"} : Web(a, env, c) \in Raw
  /\ \A a \in Address : Program(a) \in Raw
  /\ Other \in Raw /\ ~Other.env
BY EnginesAssumption DEF Web, Program, Other, Raw

LEMMA TextFields ==
  ASSUME NEW kind, NEW format, NEW raws, NEW last
  PROVE  /\ FileText(kind, format, raws, last).kind = kind /\ FileText(kind, format, raws, last).format = format
         /\ FileText(kind, format, raws, last).list = raws /\ FileText(kind, format, raws, last).last = last
BY DEF FileText

(* What is read of a text: its list, and at most what is behind it.        *)
LEMMA ReadOf ==
  ASSUME NEW text
  PROVE  /\ \A i \in DOMAIN text.list : i \in DOMAIN Read(text) /\ Read(text)[i] = text.list[i]
         /\ \A i \in DOMAIN Read(text) \ DOMAIN text.list : i = text.last.id /\ Read(text)[i] = text.last.raw
         /\ DOMAIN Read(text) \in {DOMAIN text.list, DOMAIN text.list \cup {text.last.id}}
<1>1. CASE Read(text) = text.list
  BY <1>1
<1>2. CASE Read(text) = Put(text.list, text.last.id, text.last.raw) /\ text.last.id \notin DOMAIN text.list
  BY <1>2 DEF Put
<1> QED  BY <1>1, <1>2 DEF Read, AllEntries

(* A text with nothing behind its list is read whole.                      *)
LEMMA ReadWhole ==
  ASSUME NEW kind, NEW format, NEW raws
  PROVE  /\ Text(kind, format, raws).format = format /\ Text(kind, format, raws).list = raws
         /\ Text(kind, format, raws).last = NoEntry /\ Read(Text(kind, format, raws)) = raws
<1> DEFINE text == Text(kind, format, raws)
<1>1. text.format = format /\ text.list = raws /\ text.last = NoEntry
  BY TextFields DEF Text
<1>2. text.last.id \notin Profile
  BY <1>1, EnginesAssumption DEF NoEntry
<1> HIDE DEF text
<1>3. Read(text) = raws
  BY <1>1, <1>2 DEF Read, AllEntries
<1> QED  BY <1>1, <1>3 DEF text

LEMMA NoList ==
  ASSUME NEW given
  PROVE  /\ \A format : ListHome(NoEngines, format, given)
         /\ TableHome(NoEngines, given) /\ IsFiniteSet(DOMAIN NoEngines)
<1>1. DOMAIN NoEngines = {}
  BY DEF NoEngines
<1> QED  BY <1>1, FS_EmptySet DEF ListHome, TableHome

(* A text whose list is all it has.                                        *)
LEMMA TextIsHome ==
  ASSUME NEW kind, NEW format \in {1, 2}, NEW raws, NEW given,
         IsFiniteSet(DOMAIN raws), ListHome(raws, format, given)
  PROVE  TextHome(Text(kind, format, raws), given)
<1> DEFINE text == Text(kind, format, raws)
<1>1. text.format = format /\ text.list = raws /\ text.last = NoEntry /\ Read(text) = raws
  BY ReadWhole
<1>2. text.last.raw \in Raw
  BY <1>1, RawsTyped DEF NoEntry
<1>3. \A i \in DOMAIN raws : raws[i] \in Raw
  BY DEF ListHome, EntryHome
<1> HIDE DEF text
<1>4. TextHome(text, given)
  BY <1>1, <1>2, <1>3 DEF TextHome, TextTyped
<1> QED  BY <1>4 DEF text

LEMMA EmptyIsHome ==
  ASSUME NEW kind, NEW format \in {1, 2}, NEW given
  PROVE  TextHome(Text(kind, format, NoEngines), given)
BY NoList, TextIsHome

LEMMA ReadFinite ==
  ASSUME NEW text, TextTyped(text)
  PROVE  IsFiniteSet(DOMAIN Read(text)) /\ \A i \in DOMAIN Read(text) : Read(text)[i] \in Raw
<1>1. IsFiniteSet(DOMAIN text.list) /\ IsFiniteSet(DOMAIN text.list \cup {text.last.id})
  BY FS_AddElement DEF TextTyped
<1> QED  BY <1>1, ReadOf DEF TextTyped

(* A list or a table with one entry more, or one less.                     *)
LEMMA Finite ==
  ASSUME NEW f, NEW k, NEW v, IsFiniteSet(DOMAIN f)
  PROVE  IsFiniteSet(DOMAIN Put(f, k, v)) /\ IsFiniteSet(DOMAIN Drop(f, k))
<1>1. DOMAIN Put(f, k, v) = DOMAIN f \cup {k} /\ DOMAIN Drop(f, k) \subseteq DOMAIN f
  BY DEF Put, Drop
<1> QED  BY <1>1, FS_AddElement, FS_Subset

LEMMA Less ==
  ASSUME NEW f, NEW k, NEW given, TableHome(f, given)
  PROVE  TableHome(Drop(f, k), given)
<1>1. IsFiniteSet(DOMAIN Drop(f, k))
  BY Finite DEF TableHome
<1> QED  BY <1>1 DEF TableHome, Drop

LEMMA More ==
  ASSUME NEW f, NEW k, NEW v, NEW given, TableHome(f, given), EntryHome(k, v.raw, FORMAT, given)
  PROVE  TableHome(Put(f, k, v), given)
<1>1. IsFiniteSet(DOMAIN Put(f, k, v))
  BY Finite DEF TableHome
<1> QED  BY <1>1 DEF TableHome, Put

(* A file's text with one entry more or less, or another behind.           *)
LEMMA TypedTexts ==
  ASSUME NEW text, TextTyped(text), NEW kind, NEW format \in {1, 2}
  PROVE  /\ \A k : \A v \in Raw : TextTyped(FileText(kind, format, Put(text.list, k, v), text.last))
         /\ \A k : TextTyped(FileText(kind, format, Drop(text.list, k), text.last))
         /\ \A last : last.raw \in Raw => TextTyped(FileText(kind, format, text.list, last))
<1>1. ASSUME NEW raws, NEW behind, behind.raw \in Raw, IsFiniteSet(DOMAIN raws), \A i \in DOMAIN raws : raws[i] \in Raw
      PROVE  TextTyped(FileText(kind, format, raws, behind))
  BY <1>1, TextFields DEF TextTyped
<1>2. IsFiniteSet(DOMAIN text.list) /\ text.last.raw \in Raw /\ \A i \in DOMAIN text.list : text.list[i] \in Raw
  BY DEF TextTyped
<1>3. ASSUME NEW k, NEW v \in Raw
      PROVE  IsFiniteSet(DOMAIN Put(text.list, k, v)) /\ \A i \in DOMAIN Put(text.list, k, v) : Put(text.list, k, v)[i] \in Raw
  BY <1>2, Finite DEF Put
<1>4. ASSUME NEW k
      PROVE  IsFiniteSet(DOMAIN Drop(text.list, k)) /\ \A i \in DOMAIN Drop(text.list, k) : Drop(text.list, k)[i] \in Raw
  BY <1>2, Finite DEF Drop
<1> QED  BY <1>1, <1>2, <1>3, <1>4

(* What is confirmed stays so.                                             *)
LEMMA HomeGrows ==
  ASSUME NEW given, NEW more, given \subseteq more
  PROVE  /\ \A raws, format : ListHome(raws, format, given) => ListHome(raws, format, more)
         /\ \A text : TextHome(text, given) => TextHome(text, more)
         /\ \A t : TableHome(t, given) => TableHome(t, more)
BY DEF TextHome, ListHome, TableHome, EntryHome, Home

(* The engines built from a list say what the list says, and a file that   *)
(* is saved what the entries say.                                          *)
LEMMA EntriesHome ==
  ASSUME NEW raws, NEW format, NEW old, NEW given, ListHome(raws, format, given), IsFiniteSet(DOMAIN raws)
  PROVE  TableHome(entries_from(raws, old), given)
<1> SUFFICES ASSUME NEW i \in DOMAIN raws
             PROVE  EntryHome(i, entries_from(raws, old)[i].raw, FORMAT, given)
  BY DEF TableHome, entries_from
<1>1. entries_from(raws, old)[i].raw = raws[i]
  BY DEF entries_from
<1>2. EntryHome(i, raws[i], format, given)
  BY DEF ListHome
<1>3. Effective(raws[i], FORMAT) = raws[i].confirmed
  BY DEF Effective, FORMAT
<1>4. raws[i].confirmed # "none" => Effective(raws[i], format) = raws[i].confirmed
  BY DEF Effective
<1> QED  BY <1>1, <1>2, <1>3, <1>4 DEF EntryHome, Home

LEMMA SavedHome ==
  ASSUME NEW t, NEW given, TableHome(t, given)
  PROVE  TextHome(Saved(t), given)
<1>1. ListHome(Raws(t), FORMAT, given) /\ DOMAIN Raws(t) = DOMAIN t
  BY DEF Raws, ListHome, TableHome
<1> QED  BY <1>1, TextIsHome DEF Saved, FORMAT, TableHome

(* Migration confirms what a file of format 1 stands for.                  *)
LEMMA MigratedHome ==
  ASSUME NEW raws, NEW given, ListHome(raws, 1, given)
  PROVE  ListHome(Migrated(raws), FORMAT, given)
<1> SUFFICES ASSUME NEW i \in DOMAIN raws
             PROVE  EntryHome(i, Migrated(raws)[i], FORMAT, given)
  BY DEF ListHome, Migrated
<1>1. EntryHome(i, raws[i], 1, given) /\ raws[i] \in Raw
  BY DEF ListHome, EntryHome
<1>2. CASE raws[i].env /\ raws[i].confirmed = "none"
  <2>1. Migrated(raws)[i] = [raws[i] EXCEPT !.confirmed = raws[i].address]
    BY <1>2 DEF Migrated
  <2>2. Home(i, raws[i].address, given)
    BY <1>1, <1>2 DEF EntryHome, Effective
  <2>3. /\ Migrated(raws)[i] \in Raw
        /\ Migrated(raws)[i].confirmed = raws[i].address
    BY <1>1, <2>1 DEF Raw
  <2>4. raws[i].address # "none"
    BY <1>1, EnginesAssumption DEF Raw
  <2> QED  BY <2>2, <2>3, <2>4 DEF EntryHome, Effective
<1>3. CASE ~(raws[i].env /\ raws[i].confirmed = "none")
  <2>1. Migrated(raws)[i] = raws[i]
    BY <1>3 DEF Migrated
  <2> QED  BY <1>1, <1>3, <2>1 DEF EntryHome, Effective, FORMAT
<1> QED  BY <1>2, <1>3

(* engine_add keeps a confirmed address only of the same profile.          *)
LEMMA ConfirmedHome ==
  ASSUME NEW id, NEW old, NEW raw \in Raw, NEW given, EntryHome(id, old, FORMAT, given)
  PROVE  EntryHome(id, Confirmed(old, raw), FORMAT, given)
<1> DEFINE c == IF raw.env /\ old.env /\ old.confirmed = raw.address THEN raw.address ELSE "none"
<1>1. c \in Address \cup {"none"}
  BY DEF Raw
<1>2. Home(id, c, given)
  BY DEF EntryHome, Effective, Home, FORMAT
<1>3. Confirmed(old, raw) = [raw EXCEPT !.confirmed = c]
  BY DEF Confirmed
<1> HIDE DEF c
<1>4. Confirmed(old, raw) \in Raw /\ Confirmed(old, raw).confirmed = c
  BY <1>1, <1>3 DEF Raw
<1> QED  BY <1>2, <1>4 DEF EntryHome, Effective, FORMAT

-----------------------------------------------------------------------------
(* The steps.                                                              *)

(* A step that leaves the file, the CLI and the entries alone, and what    *)
(* the user confirmed.                                                     *)
LEMMA EnginesStay ==
  ASSUME EnginesIInv, UNCHANGED <<disk, cli, table, user>>, OpsRaw'
  PROVE  EnginesIInv'
BY DEF EnginesIInv, Fields

(* A request that goes on, or is answered.                                 *)
LEMMA QuietRaw == "raw" \in DOMAIN Quiet /\ Quiet.raw \in Raw
BY RawsTyped DEF Quiet

LEMMA OpsMove ==
  ASSUME OpsRaw, NEW t \in Thread, NEW r, op' = [op EXCEPT ![t] = r],
         "raw" \in DOMAIN r, r.raw \in Raw
  PROVE  OpsRaw'
BY DEF OpsRaw

LEMMA OpAnswers ==
  ASSUME OpsRaw, NEW t \in Thread, Answers(t)
  PROVE  OpsRaw'
BY QuietRaw, OpsMove DEF Answers

LEMMA OpSteps ==
  ASSUME OpsRaw, NEW t \in Thread, NEW at, Steps(t, at)
  PROVE  OpsRaw'
<1>1. op' = [op EXCEPT ![t] = [op[t] EXCEPT !.at = at]]
  BY DEF Steps, OpsRaw
<1>2. "raw" \in DOMAIN [op[t] EXCEPT !.at = at] /\ [op[t] EXCEPT !.at = at].raw = op[t].raw
  BY DEF OpsRaw
<1> QED  BY <1>1, <1>2, OpsMove DEF OpsRaw

(* A request that begins.                                                  *)
LEMMA AsksKeep ==
  ASSUME EnginesIInv, NEW t \in Thread, Adds(t, ClientRaws, BOOLEAN) \/ Requested(t)
  PROVE  EnginesIInv'
<1>1. UNCHANGED <<disk, cli, table, user>>
  BY DEF Adds, Requested, AskAdd, AskRemove, AskKey, AskReload
<1>2. PICK r : Asks(t, r) /\ "raw" \in DOMAIN r /\ r.raw \in Raw
  <2>1. CASE Adds(t, ClientRaws, BOOLEAN)
    <3>1. PICK id \in Profile, raw \in ClientRaws, secret \in BOOLEAN, replace \in BOOLEAN :
            AskAdd(t, id, raw, secret, replace)
      BY <2>1 DEF Adds
    <3>2. raw \in Raw
      BY RawsTyped DEF ClientRaws
    <3> DEFINE r == [Quiet EXCEPT !.at = "take_in", !.what = "add", !.id = id, !.raw = raw,
                           !.secret = secret, !.replace = replace, !.current = reading.engine]
    <3>3. Asks(t, r)
      BY <3>1 DEF AskAdd
    <3>4. "raw" \in DOMAIN r /\ r.raw = raw
      BY DEF Quiet
    <3> QED  BY <3>2, <3>3, <3>4
  <2>2. CASE \E id \in Profile : AskRemove(t, id)
    <3>1. PICK id \in Profile : AskRemove(t, id)
      BY <2>2
    <3>2. Asks(t, [Quiet EXCEPT !.at = "take_in", !.what = "remove", !.id = id])
      BY <3>1 DEF AskRemove
    <3>3. /\ "raw" \in DOMAIN [Quiet EXCEPT !.at = "take_in", !.what = "remove", !.id = id]
          /\ [Quiet EXCEPT !.at = "take_in", !.what = "remove", !.id = id].raw = Quiet.raw
      BY DEF Quiet
    <3> QED  BY <3>2, <3>3, QuietRaw
  <2>3. CASE \E id \in Profile : AskKey(t, id)
    <3>1. PICK id \in Profile : AskKey(t, id)
      BY <2>3
    <3> DEFINE r == [Quiet EXCEPT !.at = "key", !.what = "key", !.id = id, !.address = table[id].raw.address]
    <3>2. Asks(t, r)
      BY <3>1 DEF AskKey
    <3>3. "raw" \in DOMAIN r /\ r.raw = Quiet.raw
      BY DEF Quiet
    <3> QED  BY <3>2, <3>3, QuietRaw
  <2>4. CASE AskReload(t)
    <3> DEFINE r == [Quiet EXCEPT !.at = "read", !.what = "reload", !.current = reading.engine]
    <3>1. Asks(t, r)
      BY <2>4 DEF AskReload
    <3>2. "raw" \in DOMAIN r /\ r.raw = Quiet.raw
      BY DEF Quiet
    <3> QED  BY <3>1, <3>2, QuietRaw
  <2> QED  BY <2>1, <2>2, <2>3, <2>4 DEF Requested
<1>3. OpsRaw'
  BY <1>2, OpsMove DEF Asks, EnginesIInv
<1> QED  BY <1>1, <1>3, EnginesStay

(* The requests' steps that neither save nor read the file.                *)
LEMMA GoesOnHome ==
  ASSUME EnginesIInv, NEW t \in Thread,
         \/ take_in_file_changes(t) \/ RegistryFollows(t) \/ ReadBack(t) \/ Register(t)
         \/ \E given \in BOOLEAN : StoreKey(t, given)
  PROVE  EnginesIInv'
<1>1. UNCHANGED <<disk, cli, table, user>>
  BY DEF take_in_file_changes, RegistryFollows, ReadBack, Register, StoreKey
<1>2. Answers(t) \/ \E at : Steps(t, at)
  BY DEF take_in_file_changes, RegistryFollows, ReadBack, Register, StoreKey
<1>3. OpsRaw'
  BY <1>2, OpAnswers, OpSteps DEF EnginesIInv
<1> QED  BY <1>1, <1>3, EnginesStay

(* reload.                                                                 *)
LEMMA ReloadHome ==
  ASSUME EnginesIInv, NEW t \in Thread, reload(t)
  PROVE  EnginesIInv'
<1>1. UNCHANGED <<disk, cli, user>>
  BY DEF reload
<1>2. CASE disk.text \in Broken
  BY <1>1, <1>2, OpAnswers, EnginesStay DEF reload, EnginesIInv
<1>3. CASE disk.text \notin Broken
  <2>1. /\ table' = entries_from(Read(disk.text), table)
        /\ op' = [op EXCEPT ![t].at = "follow", ![t].before = Instances(table), ![t].now = Instances(table')]
    BY <1>3 DEF reload
  <2>2. TableHome(table', user.confirmed)
    BY <2>1, EntriesHome, ReadFinite DEF EnginesIInv, TextHome
  <2>3. OpsRaw'
    <3> DEFINE r == [op[t] EXCEPT !.at = "follow", !.before = Instances(table), !.now = Instances(table')]
    <3>1. op' = [op EXCEPT ![t] = r]
      BY <2>1 DEF EnginesIInv, OpsRaw
    <3>2. "raw" \in DOMAIN r /\ r.raw = op[t].raw
      BY DEF EnginesIInv, OpsRaw
    <3> HIDE DEF r
    <3> QED  BY <3>1, <3>2, OpsMove DEF EnginesIInv, OpsRaw
  <2> QED  BY <1>1, <2>2, <2>3 DEF EnginesIInv, Fields
<1> QED  BY <1>2, <1>3
(* save: what is written, and kept in memory, is the next entries.         *)
LEMMA SaveHome ==
  ASSUME EnginesIInv, NEW t \in Thread, NEW next, NEW had, save(t, next, had),
         TableHome(next, user.confirmed)
  PROVE  EnginesIInv'
<1>1. table' = next /\ cli' = cli
  BY DEF save
<1>2. user'.confirmed = user.confirmed /\ DOMAIN user' = DOMAIN user
  BY DEF save, EnginesIInv, Fields
<1>3. CASE disk' = disk /\ op' = [op EXCEPT ![t] = IF @.what = "add" THEN Quiet
                                                   ELSE [@ EXCEPT !.at = "register", !.had = had]]
  <2>1. op' = [op EXCEPT ![t] = Quiet] \/ op' = [op EXCEPT ![t] = [op[t] EXCEPT !.at = "register", !.had = had]]
    BY <1>3 DEF EnginesIInv, OpsRaw
  <2>2. /\ "raw" \in DOMAIN [op[t] EXCEPT !.at = "register", !.had = had]
        /\ [op[t] EXCEPT !.at = "register", !.had = had].raw = op[t].raw
    BY DEF EnginesIInv, OpsRaw
  <2>3. OpsRaw'
    BY <2>1, <2>2, QuietRaw, OpsMove DEF EnginesIInv, OpsRaw
  <2> QED  BY <1>1, <1>2, <1>3, <2>3 DEF EnginesIInv, Fields
<1>4. CASE /\ disk' = [disk EXCEPT !.text = Saved(next)]
           /\ op' = [op EXCEPT ![t].at = "saved", ![t].had = had, ![t].inst = count.built + 1]
  <2> DEFINE r == [op[t] EXCEPT !.at = "saved", !.had = had, !.inst = count.built + 1]
  <2>1. op' = [op EXCEPT ![t] = r]
    BY <1>4 DEF EnginesIInv, OpsRaw
  <2>2. "raw" \in DOMAIN r /\ r.raw = op[t].raw
    BY DEF EnginesIInv, OpsRaw
  <2> HIDE DEF r
  <2>3. OpsRaw'
    BY <2>1, <2>2, OpsMove DEF EnginesIInv, OpsRaw
  <2>4. disk'.text = Saved(next) /\ DOMAIN disk' = DOMAIN disk
    BY <1>4 DEF EnginesIInv, Fields
  <2>5. TextHome(disk'.text, user.confirmed)
    BY <2>4, SavedHome
  <2> QED  BY <1>1, <1>2, <2>3, <2>4, <2>5 DEF EnginesIInv, Fields
<1> QED  BY <1>3, <1>4 DEF save

(* engine_add and engine_remove.                                           *)
LEMMA AddHome ==
  ASSUME EnginesIInv, NEW t \in Thread, add(t) \/ remove(t)
  PROVE  EnginesIInv'
<1> DEFINE id == op[t].id
           old == IF id \in DOMAIN table THEN table[id].raw ELSE Other
           entry == [raw |-> Confirmed(old, op[t].raw), inst |-> count.built + 1]
<1>1. CASE Answers(t) /\ UNCHANGED <<disk, cli, table, user>>
  BY <1>1, OpAnswers, EnginesStay DEF EnginesIInv
<1>2. CASE save(t, Put(table, id, entry), was_registered(id))
  <2>1. EntryHome(id, old, FORMAT, user.confirmed)
    BY RawsTyped DEF EnginesIInv, TableHome, EntryHome
  <2>2. op[t].raw \in Raw
    BY DEF EnginesIInv, OpsRaw
  <2> HIDE DEF old, id
  <2>3. EntryHome(id, entry.raw, FORMAT, user.confirmed)
    BY <2>1, <2>2, ConfirmedHome
  <2> HIDE DEF entry
  <2>4. TableHome(Put(table, id, entry), user.confirmed)
    BY <2>3, More DEF EnginesIInv
  <2> QED  BY <1>2, <2>4, SaveHome
<1>3. CASE save(t, Drop(table, id), was_registered(id))
  <2>1. TableHome(Drop(table, id), user.confirmed)
    BY Less DEF EnginesIInv
  <2> QED  BY <1>3, <2>1, SaveHome
<1> QED  BY <1>1, <1>2, <1>3 DEF add, remove

(* The runtime starts, and migrates a file of format 1; it ends.           *)
LEMMA StartsHome ==
  ASSUME EnginesIInv, Starts \/ Ends
  PROVE  EnginesIInv'
<1>1. CASE Starts
  <2> DEFINE legacy == disk.text.kind = "json" /\ disk.text.format < FORMAT
             raws == IF legacy THEN Migrated(Read(disk.text)) ELSE Read(disk.text)
  <2>1. /\ table' = entries_from(raws, NoEngines) /\ cli' = cli /\ op' = op
        /\ disk' = [text |-> IF legacy THEN Text("json", FORMAT, raws) ELSE disk.text,
                    bad |-> IF disk.text \in Broken THEN disk.text ELSE disk.bad]
    BY <1>1 DEF Starts
  <2>2. user'.confirmed = user.confirmed /\ DOMAIN user' = DOMAIN user
    BY <1>1 DEF Starts, EnginesIInv, Fields
  <2>3. /\ disk.text.format \in {1, 2} /\ ListHome(Read(disk.text), disk.text.format, user.confirmed)
        /\ IsFiniteSet(DOMAIN Read(disk.text))
    BY ReadFinite DEF EnginesIInv, TextHome, TextTyped
  <2>4. CASE legacy
    <3>1. disk.text.format = 1
      BY <2>3, <2>4 DEF FORMAT
    <3>2. ListHome(raws, FORMAT, user.confirmed) /\ IsFiniteSet(DOMAIN raws)
      BY <2>3, <2>4, <3>1, MigratedHome DEF Migrated
    <3>3. DOMAIN disk' = {"text", "bad"} /\ disk'.text = Text("json", FORMAT, raws)
      BY <2>1, <2>4
    <3> HIDE DEF raws, legacy
    <3>4. TextHome(disk'.text, user.confirmed)
      BY <3>2, <3>3, TextIsHome DEF FORMAT
    <3>5. TableHome(table', user.confirmed)
      BY <2>1, <3>2, EntriesHome
    <3> QED  BY <2>1, <2>2, <3>3, <3>4, <3>5 DEF EnginesIInv, Fields, OpsRaw
  <2>5. CASE ~legacy
    <3>1. DOMAIN disk' = {"text", "bad"} /\ disk'.text = disk.text /\ raws = Read(disk.text)
      BY <2>1, <2>5
    <3> HIDE DEF raws, legacy
    <3>2. TableHome(table', user.confirmed)
      BY <2>1, <2>3, <3>1, EntriesHome
    <3> QED  BY <2>1, <2>2, <3>1, <3>2 DEF EnginesIInv, Fields, OpsRaw
  <2> QED  BY <2>4, <2>5
<1>2. CASE Ends
  <2>1. table' = NoEngines /\ op' = [t \in Thread |-> Quiet] /\ UNCHANGED <<disk, cli, user>>
    BY <1>2 DEF Ends
  <2>2. OpsRaw'
    BY <2>1, QuietRaw DEF OpsRaw
  <2> QED  BY <2>1, <2>2, NoList DEF EnginesIInv, Fields
<1> QED  BY <1>1, <1>2

-----------------------------------------------------------------------------
(* A text in the file that says no more than is confirmed.                 *)
LEMMA WrittenHome ==
  ASSUME EnginesIInv, UNCHANGED <<table, op>>, disk' = [disk EXCEPT !.text = disk'.text],
         {"wrote", "confirmed", "raced", "text"} \subseteq DOMAIN user',
         user.confirmed \subseteq user'.confirmed,
         "before" \in DOMAIN cli', TextHome(disk'.text, user'.confirmed),
         TextHome(cli'.before, user'.confirmed)
  PROVE  EnginesIInv'
<1>1. DOMAIN disk' = DOMAIN disk
  OBVIOUS
<1>2. TableHome(table', user'.confirmed)
  BY HomeGrows DEF EnginesIInv
<1> QED  BY <1>1, <1>2 DEF EnginesIInv, Fields, OpsRaw

(* The user's edits.                                                       *)
LEMMA UserHome ==
  ASSUME EnginesIInv, UserEdits(UserRaws, UserLasts)
  PROVE  EnginesIInv'
<1>0. /\ TextTyped(disk.text) /\ disk.text.format \in {1, 2}
      /\ ListHome(Read(disk.text), disk.text.format, user.confirmed)
  BY DEF EnginesIInv, TextHome, TextTyped
<1>1. ASSUME NEW text, NEW wrote, NEW given, NEW unread, Edits(text, wrote, given, unread),
             user.confirmed \subseteq given, TextHome(text, given)
      PROVE  EnginesIInv'
  <2>1. disk' = [disk EXCEPT !.text = text] /\ UNCHANGED <<table, op, cli>>
    BY <1>1 DEF Edits, Writes
  <2>2. user'.confirmed = given /\ {"wrote", "confirmed", "raced", "text"} \subseteq DOMAIN user'
    BY <1>1 DEF Edits, Writes
  <2>3. disk'.text = text
    BY <2>1 DEF EnginesIInv, Fields
  <2>4. TextHome(cli'.before, user'.confirmed)
    BY <1>1, <2>1, <2>2, HomeGrows DEF EnginesIInv
  <2> QED  BY <1>1, <2>1, <2>2, <2>3, <2>4, WrittenHome DEF EnginesIInv, Fields
<1>2. ASSUME NEW text, EditTo(text), TextTyped(text), text.format = disk.text.format
      PROVE  EnginesIInv'
  <2> DEFINE given == user.confirmed \cup {c \in Confirms(text) : c[1] \in Changes(text)}
  <2>1. Edits(text, Wish(text), given, user.text)
    BY <1>2 DEF EditTo
  <2>2. ASSUME NEW i \in DOMAIN Read(text)
        PROVE  EntryHome(i, Read(text)[i], text.format, given)
    <3>1. Read(text)[i] \in Raw
      BY <1>2, ReadFinite
    <3>2. CASE i \in Changes(text)
      <4>1. Read(text)[i].env => <<i, Effective(Read(text)[i], text.format)>> \in Confirms(text)
        BY DEF Confirms, Effective
      <4>2. Read(text)[i].env => <<i, Effective(Read(text)[i], text.format)>> \in given
        BY <3>2, <4>1
      <4> QED  BY <3>1, <4>2 DEF EntryHome, Home
    <3>3. CASE i \notin Changes(text)
      <4>1. i \in DOMAIN Read(disk.text) /\ Read(text)[i] = Read(disk.text)[i]
        BY <3>3 DEF Changes
      <4>2. EntryHome(i, Read(text)[i], text.format, user.confirmed)
        BY <1>0, <1>2, <4>1 DEF ListHome
      <4> QED  BY <4>2 DEF EntryHome, Home
    <3> QED  BY <3>2, <3>3
  <2>3. user.confirmed \subseteq given
    OBVIOUS
  <2> HIDE DEF given
  <2>4. TextHome(text, given)
    BY <1>2, <2>2 DEF TextHome, ListHome
  <2> QED  BY <1>1, <2>1, <2>3, <2>4
<1>3. CASE \E id \in Profile, raw \in UserRaws : EditEntry(id, raw)
  <2>1. PICK id \in Profile, raw \in UserRaws : EditEntry(id, raw)
    BY <1>3
  <2> DEFINE text == FileText("json", disk.text.format, Put(disk.text.list, id, raw), disk.text.last)
  <2>2. EditTo(text)
    BY <2>1 DEF EditEntry
  <2>3. raw \in Raw
    BY RawsTyped DEF UserRaws
  <2>4. TextTyped(text) /\ text.format = disk.text.format
    <3>1. TextTyped(text)
      BY <1>0, <2>3, TypedTexts
    <3> QED  BY <3>1, TextFields
  <2> HIDE DEF text
  <2> QED  BY <1>2, <2>2, <2>4
<1>4. CASE \E id \in Profile : EditOut(id)
  <2>1. PICK id \in Profile : EditOut(id)
    BY <1>4
  <2> DEFINE text == FileText("json", disk.text.format, Drop(disk.text.list, id), disk.text.last)
  <2>2. EditTo(text)
    BY <2>1 DEF EditOut
  <2>3. TextTyped(text)
    BY <1>0, TypedTexts
  <2>4. text.format = disk.text.format
    BY TextFields
  <2> HIDE DEF text
  <2> QED  BY <1>2, <2>2, <2>3, <2>4
<1>5. CASE \E last \in UserLasts : EditLast(last)
  <2>1. PICK last \in UserLasts : EditLast(last)
    BY <1>5
  <2> DEFINE text == FileText("json", disk.text.format, disk.text.list, last)
  <2>2. EditTo(text)
    BY <2>1 DEF EditLast
  <2>3. last.raw \in Raw
    <3>1. CASE last = NoEntry
      BY <3>1, RawsTyped DEF NoEntry
    <3>2. CASE last \in [id : Profile \cup {"unnamed"}, raw : UserRaws]
      <4>1. last.raw \in UserRaws
        BY <3>2
      <4> QED  BY <4>1, RawsTyped DEF UserRaws
    <3> QED  BY <3>1, <3>2 DEF UserLasts
  <2>4. TextTyped(text) /\ text.format = disk.text.format
    <3>1. TextTyped(text)
      BY <1>0, <2>3, TypedTexts
    <3> QED  BY <3>1, TextFields
  <2> HIDE DEF text
  <2> QED  BY <1>2, <2>2, <2>4
<1>6. CASE \E text \in Broken : EditBreaks(text)
  <2>1. PICK text \in Broken : EditBreaks(text)
    BY <1>6
  <2>2. PICK unread : Edits(text, NoEngines, user.confirmed, unread)
    BY <2>1 DEF EditBreaks
  <2>3. TextHome(text, user.confirmed)
    <3>1. text = Text("garbage_1", 2, NoEngines) \/ text = Text("garbage_2", 2, NoEngines)
      BY DEF Broken
    <3> QED  BY <3>1, EmptyIsHome
  <2> QED  BY <1>1, <2>2, <2>3
<1>7. CASE EditMends
  <2> DEFINE text == Text("json", FORMAT, NoEngines)
  <2>1. Edits(text, user.wrote, user.confirmed, Missing)
    BY <1>7 DEF EditMends
  <2>2. TextHome(text, user.confirmed)
    BY EmptyIsHome DEF FORMAT
  <2> HIDE DEF text
  <2> QED  BY <1>1, <2>1, <2>2
<1> QED  BY <1>3, <1>4, <1>5, <1>6, <1>7 DEF UserEdits

(* The text the CLI writes: but for its own entry, what is read of it was  *)
(* read before, and all that was, if there is room.                        *)
LEMMA CliTexts ==
  ASSUME NEW text, TextTyped(text), NEW id, NEW raw
  PROVE  LET new == CliText(text, id, raw)
         IN  /\ \A i \in DOMAIN Read(new) \ {id} : i \in DOMAIN Read(text) /\ Read(new)[i] = Read(text)[i]
             /\ Room(text, id) => \A i \in DOMAIN Read(text) \ {id} :
                                    i \in DOMAIN Read(new) /\ Read(new)[i] = Read(text)[i]
             /\ id \in DOMAIN Read(new) => Read(new)[id] = raw
<1> DEFINE new == CliText(text, id, raw)
           format == FormatOf(text)
<1>1. CASE id = text.last.id /\ id \notin DOMAIN text.list
  <2>1. new.list = text.list /\ new.last = [id |-> id, raw |-> raw]
    BY <1>1, TextFields DEF CliText
  <2>2. new.last.id = id /\ new.last.raw = raw
    BY <2>1
  <2> HIDE DEF new
  <2>3. DOMAIN Read(new) \ {id} = DOMAIN text.list /\ DOMAIN Read(text) \ {id} = DOMAIN text.list
    BY <1>1, <2>1, <2>2, ReadOf
  <2>4. \A i \in DOMAIN text.list : Read(new)[i] = text.list[i] /\ Read(text)[i] = text.list[i]
    <3>1. \A i \in DOMAIN new.list : Read(new)[i] = new.list[i]
      BY ReadOf
    <3>2. \A i \in DOMAIN text.list : Read(text)[i] = text.list[i]
      BY ReadOf
    <3> QED  BY <2>1, <3>1, <3>2
  <2>5. id \in DOMAIN Read(new) => Read(new)[id] = raw
    BY <1>1, <2>1, <2>2, ReadOf
  <2>6. \A i \in DOMAIN text.list : i \in DOMAIN Read(new) /\ i \in DOMAIN Read(text)
    BY <2>1, ReadOf
  <2> QED  BY <2>3, <2>4, <2>5, <2>6 DEF new
<1>2. CASE ~(id = text.last.id /\ id \notin DOMAIN text.list)
  <2>1. new.list = Put(text.list, id, raw) /\ new.last = text.last
    BY <1>2, TextFields DEF CliText
  <2> HIDE DEF new
  <2>2. /\ DOMAIN new.list = DOMAIN text.list \cup {id} /\ new.list[id] = raw
        /\ \A i \in DOMAIN text.list \ {id} : new.list[i] = text.list[i]
    BY <2>1 DEF Put
  <2>3. id \in DOMAIN Read(new) /\ Read(new)[id] = raw
    BY <2>2, ReadOf
  <2>4. Cardinality(DOMAIN text.list) \in Nat /\ Cardinality(DOMAIN new.list) \in Nat
        /\ Cardinality(DOMAIN text.list) <= Cardinality(DOMAIN new.list)
        /\ Cardinality(DOMAIN new.list) <= Cardinality(DOMAIN text.list) + 1
    <3> DEFINE d == DOMAIN text.list
    <3>1. IsFiniteSet(d)
      BY DEF TextTyped
    <3> HIDE DEF d
    <3>2. Cardinality(d) \in Nat /\ Cardinality(d \cup {id}) \in {Cardinality(d), Cardinality(d) + 1}
      BY <3>1, FS_AddElement, FS_CardinalityType
    <3>3. Cardinality(DOMAIN new.list) = Cardinality(d \cup {id}) /\ Cardinality(DOMAIN text.list) = Cardinality(d)
      BY <2>2 DEF d
    <3> QED  BY <3>2, <3>3
  <2>5. ASSUME NEW i \in DOMAIN Read(new) \ {id}
        PROVE  i \in DOMAIN Read(text) /\ Read(new)[i] = Read(text)[i]
    <3>1. CASE i \in DOMAIN text.list
      BY <2>2, <2>5, <3>1, ReadOf
    <3>2. CASE i \notin DOMAIN text.list
      <4>1. i \notin DOMAIN new.list
        BY <2>2, <2>5, <3>2
      <4>2. i = text.last.id /\ Read(new)[i] = text.last.raw
        <5>1. i = new.last.id /\ Read(new)[i] = new.last.raw
          BY <2>5, <4>1, ReadOf
        <5> QED  BY <2>1, <5>1
      <4>3. Cardinality(DOMAIN new.list) < MAX_PROFILES /\ new.last.id \in Profile
        BY <2>5, <4>1 DEF Read, AllEntries
      <4>4. Cardinality(DOMAIN text.list) < MAX_PROFILES /\ text.last.id \in Profile \ DOMAIN text.list
        BY <2>1, <2>4, <3>2, <4>2, <4>3, EnginesAssumption
      <4>5. Read(text) = Put(text.list, text.last.id, text.last.raw)
        BY <4>4 DEF Read, AllEntries
      <4> QED  BY <4>2, <4>5 DEF Put
    <3> QED  BY <3>1, <3>2
  <2>6. ASSUME Room(text, id), NEW i \in DOMAIN Read(text) \ {id}
        PROVE  i \in DOMAIN Read(new) /\ Read(new)[i] = Read(text)[i]
    <3>1. CASE i \in DOMAIN text.list
      BY <2>2, <2>6, <3>1, ReadOf
    <3>2. CASE i \notin DOMAIN text.list
      <4>1. i = text.last.id /\ Read(text)[i] = text.last.raw
        BY <2>6, <3>2, ReadOf
      <4>2. Cardinality(DOMAIN text.list) < MAX_PROFILES /\ text.last.id \in Profile
        BY <2>6, <3>2 DEF Read, AllEntries
      <4>3. Cardinality(DOMAIN new.list) < MAX_PROFILES
        <5>1. CASE id \in DOMAIN text.list
          <6>1. DOMAIN new.list = DOMAIN text.list
            BY <2>2, <5>1
          <6> QED  BY <4>2, <6>1
        <5>2. CASE id \notin DOMAIN text.list
          <6>1. text.last # NoEntry
            BY <4>2, EnginesAssumption DEF NoEntry
          <6>2. id # text.last.id
            BY <1>2, <5>2
          <6>3. Cardinality(DOMAIN text.list) + 1 < MAX_PROFILES
            BY <2>6, <5>2, <6>1, <6>2 DEF Room
          <6> QED  BY <2>4, <6>3, EnginesAssumption
        <5> QED  BY <5>1, <5>2
      <4>4. Read(new) = Put(new.list, text.last.id, text.last.raw)
        BY <2>1, <2>2, <2>6, <3>2, <4>1, <4>2, <4>3 DEF Read, AllEntries
      <4> QED  BY <4>1, <4>4 DEF Put
    <3> QED  BY <3>1, <3>2
  <2> QED  BY <2>3, <2>5, <2>6 DEF new
<1> QED  BY <1>1, <1>2

(* The CLI's steps.                                                        *)
LEMMA CliHome ==
  ASSUME EnginesIInv, Cli
  PROVE  EnginesIInv'
<1>1. CASE \E id \in Profile : CliReads(id)
  <2>0. PICK id \in Profile : CliReads(id)
    BY <1>1
  <2>1. /\ cli' = [NoCli EXCEPT !.at = "write", !.id = id, !.before = disk.text]
        /\ UNCHANGED <<disk, table, op, user>>
    BY <2>0 DEF CliReads
  <2>2. "before" \in DOMAIN cli' /\ cli'.before = disk.text
    BY <2>1 DEF NoCli
  <2> QED  BY <2>1, <2>2 DEF EnginesIInv, Fields, OpsRaw
<1>2. CASE CliWrites(Other) \/ \E a \in Address : CliWrites(Program(a))
  <2>1. PICK raw \in Raw : CliWrites(raw) /\ ~raw.env
    BY <1>2, RawsTyped DEF Program
  <2> DEFINE text == CliText(cli.before, cli.id, raw)
  <2>2. /\ cli' = [cli EXCEPT !.at = "reload"] /\ UNCHANGED <<table, op>>
        /\ Writes(text, Drop(user.wrote, cli.id), user.confirmed, Missing)
    BY <2>1 DEF CliWrites
  <2>3. /\ user'.confirmed = user.confirmed
        /\ {"wrote", "confirmed", "raced", "text"} \subseteq DOMAIN user'
        /\ disk' = [disk EXCEPT !.text = text]
    BY <2>2 DEF Writes
  <2>4. "before" \in DOMAIN cli' /\ cli'.before = cli.before
    BY <2>2 DEF EnginesIInv, Fields
  <2>5. /\ TextTyped(cli.before) /\ ListHome(Read(cli.before), cli.before.format, user.confirmed)
        /\ cli.before.format \in {1, 2} /\ FormatOf(cli.before) = cli.before.format
    BY ReadWhole DEF EnginesIInv, TextHome, TextTyped, FormatOf, Missing
  <2>6. TextTyped(text) /\ text.format = cli.before.format
    <3>1. CASE text = FileText("json", FormatOf(cli.before), cli.before.list, [id |-> cli.id, raw |-> raw])
      <4> DEFINE last == [id |-> cli.id, raw |-> raw]
      <4>1. last.raw \in Raw /\ text = FileText("json", cli.before.format, cli.before.list, last)
        BY <2>5, <3>1
      <4> HIDE DEF last, text
      <4>2. TextTyped(text)
        BY <2>5, <4>1, TypedTexts
      <4> QED  BY <4>1, <4>2, TextFields
    <3>2. CASE text = FileText("json", FormatOf(cli.before), Put(cli.before.list, cli.id, raw), cli.before.last)
      <4>1. text = FileText("json", cli.before.format, Put(cli.before.list, cli.id, raw), cli.before.last)
        BY <2>5, <3>2
      <4> HIDE DEF text
      <4>2. TextTyped(text)
        BY <2>1, <2>5, <4>1, TypedTexts
      <4> QED  BY <4>1, <4>2, TextFields
    <3> QED  BY <3>1, <3>2 DEF CliText
  <2>7. ListHome(Read(text), text.format, user.confirmed)
    <3> SUFFICES ASSUME NEW i \in DOMAIN Read(text)
                 PROVE  EntryHome(i, Read(text)[i], text.format, user.confirmed)
      BY DEF ListHome
    <3>1. CASE i = cli.id
      <4>1. Read(text)[i] = raw
        BY <2>5, <3>1, CliTexts
      <4> HIDE DEF text
      <4> QED  BY <2>1, <4>1 DEF EntryHome
    <3>2. CASE i # cli.id
      <4>1. i \in DOMAIN Read(cli.before) /\ Read(text)[i] = Read(cli.before)[i]
        BY <2>5, <3>2, CliTexts
      <4> HIDE DEF text
      <4> QED  BY <2>5, <2>6, <4>1 DEF ListHome
    <3> QED  BY <3>1, <3>2
  <2> HIDE DEF text
  <2>8. disk'.text = text /\ DOMAIN disk' = DOMAIN disk
    BY <2>3 DEF EnginesIInv, Fields
  <2>9. TextHome(disk'.text, user.confirmed)
    BY <2>6, <2>7, <2>8 DEF TextHome
  <2> QED  BY <2>2, <2>3, <2>4, <2>8, <2>9, WrittenHome DEF EnginesIInv
<1>3. CASE \E t \in Thread : CliReloads(t)
  <2>1. PICK t \in Thread : CliReloads(t)
    BY <1>3
  <2> DEFINE r == [Quiet EXCEPT !.at = "read", !.what = "reload", !.current = reading.engine]
  <2>2. /\ op' = [op EXCEPT ![t] = r] /\ cli' = [cli EXCEPT !.at = "wait", !.thread = t]
        /\ UNCHANGED <<disk, table, user>>
    BY <2>1 DEF CliReloads, AskReload, Asks
  <2>3. "raw" \in DOMAIN r /\ r.raw = Quiet.raw
    BY DEF Quiet
  <2> HIDE DEF r
  <2>4. OpsRaw'
    BY <2>2, <2>3, QuietRaw, OpsMove DEF EnginesIInv
  <2>5. "before" \in DOMAIN cli' /\ cli'.before = cli.before
    BY <2>2 DEF EnginesIInv, Fields
  <2> QED  BY <2>2, <2>4, <2>5 DEF EnginesIInv, Fields
<1>4. CASE CliDone
  <2>1. cli' = NoCli /\ UNCHANGED <<table, op>>
    BY <1>4 DEF CliDone
  <2>2. /\ disk' = disk \/ disk' = [disk EXCEPT !.text = cli.before]
        /\ user'.confirmed = user.confirmed /\ DOMAIN user' = DOMAIN user
    BY <1>4 DEF CliDone, EnginesIInv, Fields
  <2>3. "before" \in DOMAIN cli' /\ TextHome(cli'.before, user.confirmed)
    BY <2>1, EmptyIsHome DEF NoCli, Missing
  <2>4. /\ disk'.text \in {disk.text, cli.before} /\ DOMAIN disk' = DOMAIN disk
    BY <2>2 DEF EnginesIInv, Fields
  <2> QED  BY <2>1, <2>2, <2>3, <2>4 DEF EnginesIInv, Fields, OpsRaw
<1>5. CASE CliRefuses
  <2>1. cli' = NoCli /\ UNCHANGED <<disk, table, op, user>>
    BY <1>5 DEF CliRefuses
  <2>2. "before" \in DOMAIN cli' /\ TextHome(cli'.before, user.confirmed)
    BY <2>1, EmptyIsHome DEF NoCli, Missing
  <2> QED  BY <2>1, <2>2 DEF EnginesIInv, Fields, OpsRaw
<1> QED  BY <1>1, <1>2, <1>3, <1>4, <1>5 DEF Cli

-----------------------------------------------------------------------------
LEMMA EnginesInitially == EnginesInit => EnginesIInv
<1> SUFFICES ASSUME EnginesInit
             PROVE  EnginesIInv
  OBVIOUS
<1>1. PICK f \in Left :
        /\ disk = [text |-> f, bad |-> Missing]
        /\ user = [wrote |-> Read(f), text |-> IF f \in Broken THEN f ELSE Missing,
                   confirmed |-> Confirms(f), raced |-> FALSE]
  BY DEF EnginesInit
<1>2. table = NoEngines /\ cli = NoCli /\ op = [t \in Thread |-> Quiet]
  BY DEF EnginesInit
<1>3. TextTyped(f)
  <2>1. ASSUME NEW kind, NEW n \in {1, 2}, f = Text(kind, n, NoEngines)
        PROVE  TextTyped(f)
    BY <2>1, EmptyIsHome DEF TextHome
  <2>2. ASSUME NEW n \in {1, 2}, NEW raws, NEW last, f = FileText("json", n, raws, last), IsFiniteSet(DOMAIN raws),
               \A i \in DOMAIN raws : raws[i] \in Raw, last.raw \in Raw
        PROVE  TextTyped(f)
    BY <2>2, TextFields DEF TextTyped
  <2>3. CASE f \in {Missing, Text("json", 1, NoEngines), Text("garbage_1", 2, NoEngines)}
    BY <2>1, <2>3 DEF Missing
  <2>4. CASE f \in {FileText("json", format, OneEntry(a), last) :
                      format \in {1, 2}, a \in Address, last \in {NoEntry, Again(ProviderAddress)}}
    <3>1. PICK n \in {1, 2}, a \in Address, last \in {NoEntry, Again(ProviderAddress)} :
            f = FileText("json", n, OneEntry(a), last)
      BY <2>4
    <3>2. DOMAIN OneEntry(a) = {One} /\ \A i \in DOMAIN OneEntry(a) : OneEntry(a)[i] = Web(a, TRUE, "none")
      BY Zenon DEF OneEntry
    <3>3. last.raw \in Raw
      BY RawsTyped, EnginesAssumption DEF NoEntry, Again
    <3>4. IsFiniteSet(DOMAIN OneEntry(a)) /\ \A i \in DOMAIN OneEntry(a) : OneEntry(a)[i] \in Raw
      <4>1. IsFiniteSet({One})
        BY FS_Singleton
      <4>2. Web(a, TRUE, "none") \in Raw
        BY RawsTyped
      <4> QED  BY <3>2, <4>1, <4>2
    <3> QED  BY <2>2, <3>1, <3>3, <3>4
  <2>5. CASE f \in TooMany
    <3>1. PICK ids, id : IsFiniteSet(ids) /\ f = OneMore(ids, id)
      BY <2>5 DEF TooMany
    <3> DEFINE raws == [i \in ids |-> Web(ProviderAddress, FALSE, "none")]
               last == [id |-> id, raw |-> Program(ProviderAddress)]
    <3>2. f = FileText("json", 2, raws, last)
      BY <3>1 DEF OneMore
    <3>3. IsFiniteSet(DOMAIN raws) /\ last.raw \in Raw /\ \A i \in DOMAIN raws : raws[i] \in Raw
      BY <3>1, RawsTyped, EnginesAssumption
    <3> HIDE DEF raws, last
    <3> QED  BY <2>2, <3>2, <3>3
  <2> QED  BY <2>3, <2>4, <2>5 DEF Left
<1>4. TextHome(f, Confirms(f))
  <2>1. \A i \in DOMAIN Read(f) : Read(f)[i] \in Raw
    BY <1>3, ReadFinite
  <2> QED  BY <1>3, <2>1 DEF TextHome, ListHome, EntryHome, Home, Effective, Confirms
<1>5. TextHome(cli.before, user.confirmed) /\ "before" \in DOMAIN cli
  BY <1>2, EmptyIsHome DEF NoCli, Missing
<1>6. Fields /\ disk.text = f /\ user.confirmed = Confirms(f)
  BY <1>1, <1>5 DEF Fields
<1>7. OpsRaw
  BY <1>2, QuietRaw DEF OpsRaw
<1> QED  BY <1>2, <1>4, <1>5, <1>6, <1>7, NoList DEF EnginesIInv

LEMMA EnginesInductive == EnginesIInv /\ [EnginesNext]_enginesVars => EnginesIInv'
<1> SUFFICES ASSUME EnginesIInv, [EnginesNext]_enginesVars
             PROVE  EnginesIInv'
  OBVIOUS
<1>1. CASE UNCHANGED enginesVars
  BY <1>1, EnginesStay DEF enginesVars, EnginesIInv, OpsRaw
<1>2. CASE \E t \in Thread : Handles(t) \/ Adds(t, ClientRaws, BOOLEAN) \/ Requested(t)
  <2>1. PICK t \in Thread : Handles(t) \/ Adds(t, ClientRaws, BOOLEAN) \/ Requested(t)
    BY <1>2
  <2> QED  BY <2>1, AsksKeep, GoesOnHome, ReloadHome, AddHome DEF Handles
<1>3. CASE \E id \in Profile : UseEngine(id)
  BY <1>3, EnginesStay DEF UseEngine, EnginesIInv, OpsRaw
<1>4. CASE Starts \/ Ends \/ UserEdits(UserRaws, UserLasts) \/ Cli
  BY <1>4, StartsHome, UserHome, CliHome
<1> QED  BY <1>1, <1>2, <1>3, <1>4 DEF EnginesNext

(* For any profiles, addresses, threads and bounds: a key from the         *)
(* environment goes only to the provider or where the user confirmed it    *)
(* for that profile, whatever requests, edits, the CLI and its undo, and   *)
(* migrations follow each other (Confirmed of engines/registry.rs, migrate *)
(* of engines/file.rs, write of engines_file.rs).                          *)
THEOREM EnginesKeysGoHome == EnginesSpec => []KeysGoHome
<1>1. EnginesIInv => KeysGoHome
  <2> SUFFICES ASSUME EnginesIInv, NEW id \in Usable(table), table[id].raw.env,
                      table[id].raw.confirmed = table[id].raw.address
               PROVE  <<id, table[id].raw.address>> \in user.confirmed
    BY DEF KeysGoHome
  <2>1. EntryHome(id, table[id].raw, FORMAT, user.confirmed)
    BY DEF EnginesIInv, TableHome, Usable
  <2>2. table[id].raw.address # "none"
    BY <2>1, EnginesAssumption DEF EntryHome, Raw
  <2> QED  BY <2>1, <2>2 DEF EntryHome, Home, Effective, FORMAT
<1> QED  BY <1>1, EnginesInductive, EnginesInitially, PTL DEF EnginesSpec

-----------------------------------------------------------------------------
(* What the user wrote is kept.                                            *)

Holds(wrote, raws) == \A i \in DOMAIN wrote : i \in DOMAIN raws /\ raws[i] = wrote[i]
InTable == Holds(user.wrote, Raws(table))

(* It is read in the file, in the entries whenever the file may be written *)
(* from them without being read before, and in the file that the CLI would *)
(* put back; a text that is no JSON is in its copy before it is written    *)
(* over.                                                                   *)
InFile == Holds(user.wrote, Read(disk.text))
AsRead == disk.text = seen => InTable
AsSaved == /\ Locked => disk.text = Saved(table)
           /\ Saving => InTable
PutBack == cli.at # "idle" => /\ Holds(user.wrote, Read(cli.before))
                              /\ cli.before = seen => InTable
Copied == /\ user.text \in Broken => /\ user.text \in {disk.text, disk.bad}
                                     /\ disk.text \in Broken => user.text = disk.text
                                     /\ Saving => user.text = disk.bad
          /\ seen \in Broken => seen = disk.bad

EditShape ==
  /\ user = [wrote |-> user.wrote, text |-> user.text, confirmed |-> user.confirmed,
             raced |-> user.raced]
  /\ user.raced \in BOOLEAN
  /\ disk = [text |-> disk.text, bad |-> disk.bad]
  /\ cli = [at |-> cli.at, id |-> cli.id, before |-> cli.before, thread |-> cli.thread]
  /\ cli.at # "idle" => cli.before \notin Broken
  /\ "up" \in DOMAIN count
  /\ DOMAIN op = Thread /\ \A t \in Thread : {"at", "what", "id"} \subseteq DOMAIN op[t]
Down == ~count.up => seen = Missing /\ \A t \in Thread : op[t].at = "idle"
KeptIInv ==
  /\ EditShape /\ Down
  /\ ~user.raced => InFile /\ AsRead /\ AsSaved /\ PutBack /\ Copied

LEMMA HoldsLists ==
  ASSUME NEW w, NEW raws, NEW k, NEW v
  PROVE  /\ Holds(NoEngines, raws)
         /\ Holds(w, raws) => Holds(Drop(w, k), raws) /\ Holds(Drop(w, k), Drop(raws, k))
         /\ Holds(w, raws) => Holds(Drop(w, k), Put(raws, k, v)) /\ Holds(Put(w, k, v), Put(raws, k, v))
         /\ Holds(w, raws) /\ k \in DOMAIN raws /\ raws[k] = v => Holds(Put(w, k, v), raws)
         /\ Holds(w, raws) /\ k \notin DOMAIN w => Holds(w, Put(raws, k, v)) /\ Holds(w, Drop(raws, k))
BY DEF Holds, NoEngines, Drop, Put

LEMMA HoldsNoticed ==
  ASSUME NEW w, NEW text
  PROVE  /\ \A raws : Holds(w, raws) => Holds(Noticed(w, text), raws)
         /\ text = seen => Holds(Noticed(w, text), Raws(table))
BY DEF Holds, Noticed, InEntries, Raws

LEMMA RawsLists ==
  ASSUME NEW raws, NEW t, NEW k, NEW e
  PROVE  /\ \A old : Raws(entries_from(raws, old)) = [i \in DOMAIN raws |-> raws[i]]
         /\ Raws(Put(t, k, e)) = Put(Raws(t), k, e.raw)
         /\ Raws(Drop(t, k)) = Drop(Raws(t), k)
<1>1. ASSUME NEW old PROVE Raws(entries_from(raws, old)) = [i \in DOMAIN raws |-> raws[i]]
  BY DEF Raws, entries_from
<1>2. Raws(Put(t, k, e)) = Put(Raws(t), k, e.raw)
  BY DEF Raws, Put
<1>3. Raws(Drop(t, k)) = Drop(Raws(t), k)
  BY DEF Raws, Drop
<1>. QED BY <1>1, <1>2, <1>3

LEMMA EntriesHold ==
  ASSUME NEW w, NEW raws, NEW old, Holds(w, raws)
  PROVE  Holds(w, Raws(entries_from(raws, old)))
BY RawsLists DEF Holds

LEMMA Texts ==
  /\ Missing \notin Broken /\ Read(Missing) = NoEngines
  /\ \A format, raws, last : FileText("json", format, raws, last) \notin Broken
                             /\ FileText("json", format, raws, last) # Missing
  /\ \A format, raws : Text("json", format, raws) \notin Broken /\ Text("json", format, raws) # Missing
                       /\ Read(Text("json", format, raws)) = raws
  /\ \A f \in Broken : f.kind # "json" /\ Read(f) = NoEngines
<1>1. ASSUME NEW f \in Broken
      PROVE  f.kind \in {"garbage_1", "garbage_2"} /\ Read(f) = NoEngines
  <2>1. f = Text("garbage_1", 2, NoEngines) \/ f = Text("garbage_2", 2, NoEngines)
    BY DEF Broken
  <2>2. f.kind \in {"garbage_1", "garbage_2"}
    BY <2>1, TextFields DEF Text
  <2>. QED BY <2>1, <2>2, ReadWhole
<1>2. Missing.kind = "none" /\ Read(Missing) = NoEngines
  BY TextFields, ReadWhole DEF Missing, Text
<1>3. ASSUME NEW format, NEW raws, NEW last
      PROVE  FileText("json", format, raws, last) \notin Broken /\ FileText("json", format, raws, last) # Missing
  <2>1. FileText("json", format, raws, last).kind = "json"
    BY TextFields
  <2>2. CASE FileText("json", format, raws, last) \in Broken
    BY <1>1, <2>1, <2>2
  <2>3. CASE FileText("json", format, raws, last) = Missing
    BY <1>2, <2>1, <2>3
  <2>. QED BY <2>2, <2>3
<1>4. \A format, raws : Text("json", format, raws) \notin Broken /\ Text("json", format, raws) # Missing
                        /\ Read(Text("json", format, raws)) = raws
  BY <1>3, ReadWhole DEF Text
<1>5. Missing \notin Broken  BY <1>1, <1>2
<1>. QED BY <1>1, <1>2, <1>3, <1>4, <1>5

(* A request that begins, goes on or is answered.                          *)
LEMMA OpsKeep ==
  ASSUME KeptIInv, UNCHANGED <<disk, table, seen, user>>, EditShape', Down',
         Locked' => Locked,
         cli'.at # "idle" => cli.at # "idle" /\ cli'.before = cli.before,
         Saving' => Saving \/ (~user.raced => InTable /\ (user.text \in Broken => user.text = disk.bad))
  PROVE  KeptIInv'
<1>1. (InFile' <=> InFile) /\ (InTable' <=> InTable) /\ (AsRead' <=> AsRead) /\ user'.raced = user.raced
  BY DEF InFile, InTable, AsRead, Raws, Holds
<1>2. CASE user.raced  BY <1>1, <1>2 DEF KeptIInv
<1>3. CASE ~user.raced
  <2>1. AsSaved'
    BY <1>1, <1>3 DEF KeptIInv, AsSaved, Saved, Raws
  <2>2. PutBack'
    BY <1>1, <1>3 DEF KeptIInv, PutBack
  <2>3. Copied'
    BY <1>1, <1>3 DEF KeptIInv, Copied
  <2>. QED BY <1>1, <1>3, <2>1, <2>2, <2>3 DEF KeptIInv
<1>. QED BY <1>2, <1>3

SavesAt(r) == r.at = "saving" \/ (r.at = "follow" /\ r.what # "reload")

LEMMA OpMoves ==
  ASSUME EditShape, NEW t \in Thread, NEW r, op' = [op EXCEPT ![t] = r],
         {"at", "what", "id"} \subseteq DOMAIN r
  PROVE  /\ op'[t] = r /\ \A u \in Thread \ {t} : op'[u] = op[u]
         /\ DOMAIN op' = Thread /\ \A u \in Thread : {"at", "what", "id"} \subseteq DOMAIN op'[u]
         /\ r.at # "saved" => (Locked' => Locked)
         /\ Saving' => Saving \/ SavesAt(r)
<1>1. /\ op'[t] = r /\ \A u \in Thread \ {t} : op'[u] = op[u]
      /\ DOMAIN op' = Thread /\ \A u \in Thread : {"at", "what", "id"} \subseteq DOMAIN op'[u]
  BY DEF EditShape
<1>2. r.at # "saved" => (Locked' => Locked)  BY <1>1 DEF Locked
<1>3. Saving' => Saving \/ SavesAt(r)  BY <1>1 DEF Saving, SavesAt
<1>. QED BY <1>1, <1>2, <1>3

LEMMA OpsGo ==
  ASSUME KeptIInv, UNCHANGED <<disk, table, seen, user>>,
         cli' = [at |-> cli'.at, id |-> cli'.id, before |-> cli'.before, thread |-> cli'.thread],
         cli'.at # "idle" => cli.at # "idle" /\ cli'.before = cli.before,
         NEW t \in Thread, NEW r, op' = [op EXCEPT ![t] = r],
         {"at", "what", "id"} \subseteq DOMAIN r, r.at # "saved",
         SavesAt(r) => SavesAt(op[t])
                       \/ (~user.raced => InTable /\ (user.text \in Broken => user.text = disk.bad)),
         count.up, count'.up = count.up, "up" \in DOMAIN count'
  PROVE  KeptIInv'
<1>1. EditShape  BY DEF KeptIInv
<1>2. Down'  BY DEF Down
<1>4. EditShape'
  <2>1. DOMAIN op' = Thread /\ \A u \in Thread : {"at", "what", "id"} \subseteq DOMAIN op'[u]
    BY <1>1, OpMoves
  <2>. QED BY <1>1, <2>1 DEF EditShape
<1>5. Locked' => Locked  BY <1>1, OpMoves
<1>6. Saving' => Saving \/ (~user.raced => InTable /\ (user.text \in Broken => user.text = disk.bad))
  <2>1. Saving' => Saving \/ SavesAt(r)  BY <1>1, OpMoves
  <2>2. SavesAt(op[t]) => Saving  BY DEF SavesAt, Saving
  <2>. QED BY <2>1, <2>2
<1>. QED BY <1>2, <1>4, <1>5, <1>6, OpsKeep

LEMMA OpUp == ASSUME KeptIInv, NEW t \in Thread, op[t].at # "idle" PROVE count.up /\ "up" \in DOMAIN count
BY DEF KeptIInv, Down, EditShape

LEMMA QuietOp == {"at", "what", "id"} \subseteq DOMAIN Quiet /\ Quiet.at = "idle" /\ ~SavesAt(Quiet)
BY DEF Quiet, SavesAt

LEMMA AnswersKeep ==
  ASSUME KeptIInv, NEW t \in Thread, op[t].at # "idle", Answers(t),
         UNCHANGED <<disk, table, seen, cli, user, count>>
  PROVE  KeptIInv'
<1>1. count.up /\ "up" \in DOMAIN count  BY OpUp
<1>2. cli = [at |-> cli.at, id |-> cli.id, before |-> cli.before, thread |-> cli.thread]
  BY DEF KeptIInv, EditShape
<1>. QED BY <1>1, <1>2, OpsGo, QuietOp DEF Answers

LEMMA StepsMoves ==
  ASSUME EditShape, NEW t \in Thread, NEW at, Steps(t, at)
  PROVE  \E r : /\ op' = [op EXCEPT ![t] = r] /\ {"at", "what", "id"} \subseteq DOMAIN r
                /\ r.at = at /\ r.what = op[t].what /\ r.id = op[t].id
<1>. DEFINE r == [op[t] EXCEPT !.at = at]
<1>1. op' = [op EXCEPT ![t] = r]  BY DEF Steps, EditShape
<1>2. {"at", "what", "id"} \subseteq DOMAIN r /\ r.at = at /\ r.what = op[t].what /\ r.id = op[t].id
  BY DEF EditShape
<1>. HIDE DEF r
<1>. QED BY <1>1, <1>2

LEMMA AskGoes ==
  ASSUME KeptIInv, NEW t \in Thread, NEW r, Asks(t, r), {"at", "what", "id"} \subseteq DOMAIN r,
         r.at \in {"take_in", "read", "key"}, UNCHANGED <<disk, table, seen, user>>,
         cli' = [at |-> cli'.at, id |-> cli'.id, before |-> cli'.before, thread |-> cli'.thread],
         cli'.at # "idle" => cli.at # "idle" /\ cli'.before = cli.before
  PROVE  KeptIInv'
<1>1. count.up /\ count' = [count EXCEPT !.requests = @ + 1] /\ op' = [op EXCEPT ![t] = r]
  BY DEF Asks
<1>2. count'.up = count.up /\ "up" \in DOMAIN count'
  BY <1>1 DEF KeptIInv, EditShape
<1>3. r.at # "saved" /\ ~SavesAt(r)  BY DEF SavesAt
<1>. QED BY <1>1, <1>2, <1>3, OpsGo

LEMMA ReloadAsked ==
  ASSUME NEW t \in Thread, AskReload(t)
  PROVE  \E r : Asks(t, r) /\ {"at", "what", "id"} \subseteq DOMAIN r /\ r.at \in {"take_in", "read", "key"}
<1> DEFINE r == [Quiet EXCEPT !.at = "read", !.what = "reload", !.current = reading.engine]
<1>1. Asks(t, r)
  BY DEF AskReload
<1>2. {"at", "what", "id"} \subseteq DOMAIN r /\ r.at = "read"
  BY DEF Quiet
<1> QED  BY <1>1, <1>2

LEMMA AsksKept ==
  ASSUME KeptIInv, NEW t \in Thread, Adds(t, ClientRaws, BOOLEAN) \/ Requested(t)
  PROVE  KeptIInv'
<1>1. PICK r : Asks(t, r) /\ {"at", "what", "id"} \subseteq DOMAIN r /\ r.at \in {"take_in", "read", "key"}
  <2>1. CASE Adds(t, ClientRaws, BOOLEAN)
    <3>1. PICK id \in Profile, raw \in ClientRaws, secret \in BOOLEAN, replace \in BOOLEAN :
            AskAdd(t, id, raw, secret, replace)
      BY <2>1 DEF Adds
    <3> DEFINE r == [Quiet EXCEPT !.at = "take_in", !.what = "add", !.id = id, !.raw = raw,
                           !.secret = secret, !.replace = replace, !.current = reading.engine]
    <3>2. Asks(t, r)
      BY <3>1 DEF AskAdd
    <3>3. {"at", "what", "id"} \subseteq DOMAIN r /\ r.at = "take_in"
      BY DEF Quiet
    <3> QED  BY <3>2, <3>3
  <2>2. CASE \E id \in Profile : AskRemove(t, id)
    <3>1. PICK id \in Profile : AskRemove(t, id)
      BY <2>2
    <3> DEFINE r == [Quiet EXCEPT !.at = "take_in", !.what = "remove", !.id = id]
    <3>2. Asks(t, r)
      BY <3>1 DEF AskRemove
    <3>3. {"at", "what", "id"} \subseteq DOMAIN r /\ r.at = "take_in"
      BY DEF Quiet
    <3> QED  BY <3>2, <3>3
  <2>3. CASE \E id \in Profile : AskKey(t, id)
    <3>1. PICK id \in Profile : AskKey(t, id)
      BY <2>3
    <3> DEFINE r == [Quiet EXCEPT !.at = "key", !.what = "key", !.id = id, !.address = table[id].raw.address]
    <3>2. Asks(t, r)
      BY <3>1 DEF AskKey
    <3>3. {"at", "what", "id"} \subseteq DOMAIN r /\ r.at = "key"
      BY DEF Quiet
    <3> QED  BY <3>2, <3>3
  <2>4. CASE AskReload(t)
    <3> QED  BY <2>4, ReloadAsked
  <2> QED  BY <2>1, <2>2, <2>3, <2>4 DEF Requested
<1>2. UNCHANGED <<disk, table, seen, cli, user>>
  <2>1. CASE Adds(t, ClientRaws, BOOLEAN)
    <3>1. PICK id \in Profile, raw \in ClientRaws, secret \in BOOLEAN, replace \in BOOLEAN :
            AskAdd(t, id, raw, secret, replace)
      BY <2>1 DEF Adds
    <3>. QED BY <3>1 DEF AskAdd
  <2>2. CASE \E id \in Profile : AskRemove(t, id)  BY <2>2 DEF AskRemove
  <2>3. CASE \E id \in Profile : AskKey(t, id)  BY <2>3 DEF AskKey
  <2>4. CASE AskReload(t) /\ UNCHANGED cli  BY <2>4 DEF AskReload
  <2>. QED BY <2>1, <2>2, <2>3, <2>4 DEF Requested
<1>3. cli = [at |-> cli.at, id |-> cli.id, before |-> cli.before, thread |-> cli.thread]
  BY DEF KeptIInv, EditShape
<1>. QED BY <1>1, <1>2, <1>3, AskGoes

(* The steps that neither read nor save the file, and those that refuse.   *)
LEMMA GoesOnKept ==
  ASSUME KeptIInv, NEW t \in Thread,
         \/ take_in_file_changes(t) \/ RegistryFollows(t) \/ Register(t)
         \/ \E given \in BOOLEAN : StoreKey(t, given)
  PROVE  KeptIInv'
<1>. EditShape  BY DEF KeptIInv
<1>1. cli = [at |-> cli.at, id |-> cli.id, before |-> cli.before, thread |-> cli.thread]
  BY DEF EditShape
<1>2. CASE take_in_file_changes(t)
  <2>1. /\ op[t].at = "take_in" /\ Steps(t, IF Unseen THEN "read" ELSE "saving")
        /\ UNCHANGED <<disk, table, seen, cli, user, count>>
    BY <1>2 DEF take_in_file_changes
  <2>. DEFINE at == IF Unseen THEN "read" ELSE "saving"
  <2>2. Steps(t, at) /\ at \in {"read", "saving"} /\ (at = "saving" => seen = disk.text)
    BY <2>1 DEF Unseen
  <2>. HIDE DEF at
  <2>3. PICK r : /\ op' = [op EXCEPT ![t] = r] /\ {"at", "what", "id"} \subseteq DOMAIN r
                 /\ r.at = at /\ r.what = op[t].what /\ r.id = op[t].id
    BY <2>2, StepsMoves
  <2>4. SavesAt(r) => (~user.raced => InTable /\ (user.text \in Broken => user.text = disk.bad))
    <3>. SUFFICES ASSUME SavesAt(r), ~user.raced
                  PROVE  InTable /\ (user.text \in Broken => user.text = disk.bad)
      OBVIOUS
    <3>1. seen = disk.text  BY <2>2, <2>3 DEF SavesAt
    <3>2. AsRead /\ Copied  BY DEF KeptIInv
    <3>. QED BY <3>1, <3>2 DEF AsRead, Copied
  <2>5. count.up /\ "up" \in DOMAIN count  BY <2>1, OpUp
  <2>. QED BY <1>1, <2>1, <2>2, <2>3, <2>4, <2>5, OpsGo
<1>3. CASE RegistryFollows(t)
  <2>1. op[t].at = "follow" /\ UNCHANGED <<disk, table, seen, cli, user, count>>
    BY <1>3 DEF RegistryFollows
  <2>2. CASE op[t].what = "reload"
    <3>1. Answers(t)  BY <1>3, <2>2 DEF RegistryFollows
    <3>. QED BY <2>1, <3>1, AnswersKeep
  <2>3. CASE op[t].what # "reload"
    <3>1. Steps(t, "saving")  BY <1>3, <2>3 DEF RegistryFollows
    <3>2. PICK r : /\ op' = [op EXCEPT ![t] = r] /\ {"at", "what", "id"} \subseteq DOMAIN r
                   /\ r.at = "saving"
      BY <3>1, StepsMoves
    <3>3. SavesAt(op[t])  BY <2>1, <2>3 DEF SavesAt
    <3>4. count.up /\ "up" \in DOMAIN count  BY <2>1, OpUp
    <3>. QED BY <1>1, <2>1, <3>2, <3>3, <3>4, OpsGo
  <2>. QED BY <2>2, <2>3
<1>4. CASE Register(t)
  <2>1. op[t].at = "register" /\ Answers(t) /\ UNCHANGED <<disk, table, seen, cli, user, count>>
    BY <1>4 DEF Register
  <2>. QED BY <2>1, AnswersKeep
<1>5. CASE \E given \in BOOLEAN : StoreKey(t, given)
  <2>1. op[t].at = "key" /\ Answers(t) /\ UNCHANGED <<disk, table, seen, cli, user, count>>
    BY <1>5 DEF StoreKey
  <2>. QED BY <2>1, AnswersKeep
<1>. QED BY <1>2, <1>3, <1>4, <1>5

(* The file is read again.                                                 *)
LEMMA ReloadKept ==
  ASSUME KeptIInv, NEW t \in Thread, reload(t)
  PROVE  KeptIInv'
<1>. EditShape /\ Down  BY DEF KeptIInv
<1>1. op[t].at = "read" /\ ~Locked /\ UNCHANGED <<disk, cli, user>>  BY DEF reload
<1>2. CASE disk.text \in Broken
  <2>1. Answers(t) /\ UNCHANGED <<table, seen, count>>  BY <1>2 DEF reload
  <2>. QED BY <1>1, <2>1, AnswersKeep
<1>3. CASE disk.text \notin Broken
  <2>. DEFINE r == [op[t] EXCEPT !.at = "follow", !.before = Instances(table),
                                 !.now = Instances(table')]
  <2>1. /\ table' = entries_from(Read(disk.text), table) /\ seen' = disk.text /\ count' = Built
    BY <1>3 DEF reload
  <2>2. op' = [op EXCEPT ![t] = r]  BY <1>3 DEF reload, EditShape
  <2>3. {"at", "what", "id"} \subseteq DOMAIN r /\ r.at = "follow"  BY DEF EditShape
  <2>. HIDE DEF r
  <2>4. count'.up = count.up /\ "up" \in DOMAIN count' /\ count.up
    BY <1>1, <2>1, OpUp DEF Built
  <2>5. ~Locked' /\ DOMAIN op' = Thread /\ \A u \in Thread : {"at", "what", "id"} \subseteq DOMAIN op'[u]
    BY <1>1, <2>2, <2>3, OpMoves
  <2>6. EditShape' /\ Down'  BY <1>1, <2>4, <2>5 DEF EditShape, Down
  <2>7. ASSUME ~user.raced PROVE InFile' /\ AsRead' /\ AsSaved' /\ PutBack' /\ Copied'
    <3>1. InFile /\ PutBack /\ Copied  BY <2>7 DEF KeptIInv
    <3>2. InTable'  BY <1>1, <2>1, <3>1, EntriesHold DEF InFile, InTable
    <3>3. InFile'  BY <1>1, <3>1 DEF InFile
    <3>4. PutBack'  BY <1>1, <3>1, <3>2 DEF PutBack
    <3>5. Copied'  BY <1>1, <1>3, <2>1, <3>1 DEF Copied
    <3>. QED BY <2>5, <3>2, <3>3, <3>4, <3>5 DEF AsRead, AsSaved
  <2>. QED BY <1>1, <2>6, <2>7 DEF KeptIInv
<1>. QED BY <1>2, <1>3

(* What was saved is read back.                                            *)
LEMMA ReadBackKept ==
  ASSUME KeptIInv, NEW t \in Thread, ReadBack(t)
  PROVE  KeptIInv'
<1>. EditShape /\ Down  BY DEF KeptIInv
<1>1. /\ op[t].at = "saved" /\ Steps(t, "register") /\ seen' = disk.text
      /\ UNCHANGED <<disk, table, cli, user, count>>
  BY DEF ReadBack
<1>2. PICK r : /\ op' = [op EXCEPT ![t] = r] /\ {"at", "what", "id"} \subseteq DOMAIN r
               /\ r.at = "register"
  BY <1>1, StepsMoves
<1>3. count.up /\ ~SavesAt(r)  BY <1>1, <1>2, OpUp DEF SavesAt
<1>4. (Locked' => Locked) /\ (Saving' => Saving)
      /\ DOMAIN op' = Thread /\ \A u \in Thread : {"at", "what", "id"} \subseteq DOMAIN op'[u]
  BY <1>2, <1>3, OpMoves
<1>5. EditShape' /\ Down'  BY <1>1, <1>3, <1>4 DEF EditShape, Down
<1>6. ASSUME ~user.raced PROVE InFile' /\ AsRead' /\ AsSaved' /\ PutBack' /\ Copied'
  <2>1. InFile /\ AsSaved /\ PutBack /\ Copied  BY <1>6 DEF KeptIInv
  <2>2. disk.text = Saved(table)  BY <1>1, <2>1 DEF AsSaved, Locked
  <2>3. InTable' /\ InFile'
    <3>1. Read(disk.text) = Raws(table)  BY <2>2, ReadWhole DEF Saved
    <3>2. InTable /\ InFile  BY <2>1, <3>1 DEF InFile, InTable
    <3>. QED BY <1>1, <3>2 DEF InFile, InTable, Raws
  <2>4. disk.text \notin Broken  BY <2>2, Texts DEF Saved
  <2>5. PutBack'  BY <1>1, <2>1, <2>3 DEF PutBack
  <2>6. Copied'  BY <1>1, <1>4, <2>1, <2>4 DEF Copied
  <2>7. AsSaved'  BY <1>1, <1>4, <2>2, <2>3 DEF AsSaved, Saved, Raws
  <2>. QED BY <2>3, <2>5, <2>6, <2>7 DEF AsRead
<1>. QED BY <1>1, <1>5, <1>6 DEF KeptIInv

(* The entries are saved, or are not.                                      *)
LEMMA SaveKept ==
  ASSUME KeptIInv, NEW t \in Thread, op[t].at = "saving", ~Locked, cli' = cli,
         NEW next, NEW had, save(t, next, had),
         ~user.raced => Holds(IF Superseded(t) THEN Drop(user.wrote, op[t].id) ELSE user.wrote,
                              Raws(next))
  PROVE  KeptIInv'
<1>. EditShape /\ Down  BY DEF KeptIInv
<1>1. table' = next /\ seen' = seen  BY DEF save
<1>2. /\ user' = [wrote |-> user'.wrote, text |-> user'.text, confirmed |-> user'.confirmed,
                  raced |-> user'.raced]
      /\ user'.wrote = IF Superseded(t) THEN Drop(user.wrote, op[t].id) ELSE user.wrote
      /\ user'.text = user.text /\ user'.raced = user.raced
  <2>1. user' = IF Superseded(t) THEN [user EXCEPT !.wrote = Drop(user.wrote, op[t].id)] ELSE user
    BY DEF save, EditShape
  <2>2. user = [wrote |-> user.wrote, text |-> user.text, confirmed |-> user.confirmed,
                raced |-> user.raced]
    BY DEF EditShape
  <2>3. CASE Superseded(t)  BY <2>1, <2>2, <2>3
  <2>4. CASE ~Superseded(t)  BY <2>1, <2>2, <2>4
  <2>. QED BY <2>3, <2>4
<1>3. \A raws : Holds(user.wrote, raws) => Holds(user'.wrote, raws)
  <2>. SUFFICES ASSUME NEW raws, Holds(user.wrote, raws) PROVE Holds(user'.wrote, raws)
    OBVIOUS
  <2>1. Holds(Drop(user.wrote, op[t].id), raws)  BY HoldsLists
  <2>. QED BY <1>2, <2>1
<1>4. ~user.raced => InTable'  BY <1>1, <1>2 DEF InTable, Raws
<1>5. PICK r : /\ op' = [op EXCEPT ![t] = r] /\ {"at", "what", "id"} \subseteq DOMAIN r /\ ~SavesAt(r)
               /\ \/ r.at = "saved" /\ disk' = [disk EXCEPT !.text = Saved(next)]
                  \/ r.at # "saved" /\ disk' = disk
               /\ count'.up = count.up /\ "up" \in DOMAIN count'
  <2>. DEFINE saved == [op[t] EXCEPT !.at = "saved", !.had = had, !.inst = count.built + 1]
              quiet == IF op[t].what = "add" THEN Quiet ELSE [op[t] EXCEPT !.at = "register", !.had = had]
  <2>1. \/ /\ disk' = [disk EXCEPT !.text = Saved(next)] /\ count' = Built
           /\ op' = [op EXCEPT ![t] = saved]
        \/ /\ count' = [Built EXCEPT !.fails = @ + 1] /\ op' = [op EXCEPT ![t] = quiet] /\ disk' = disk
    BY DEF save, EditShape
  <2>2. {"at", "what", "id"} \subseteq DOMAIN saved /\ saved.at = "saved"  BY DEF EditShape
  <2>3. {"at", "what", "id"} \subseteq DOMAIN quiet /\ quiet.at \in {"idle", "register"}
    BY QuietOp DEF EditShape
  <2>. HIDE DEF saved, quiet
  <2>4. Built.up = count.up /\ "up" \in DOMAIN Built  BY DEF Built, EditShape
  <2>5. count'.up = count.up /\ "up" \in DOMAIN count'  BY <2>1, <2>4
  <2>. QED BY <2>1, <2>2, <2>3, <2>5 DEF SavesAt
<1>6. /\ DOMAIN op' = Thread /\ \A u \in Thread : {"at", "what", "id"} \subseteq DOMAIN op'[u]
      /\ (Saving' => Saving) /\ (r.at # "saved" => ~Locked')
  BY <1>5, OpMoves
<1>7. disk' = [text |-> disk'.text, bad |-> disk.bad] /\ disk'.text \in {disk.text, Saved(next)}
      /\ (r.at = "saved" => disk'.text = Saved(next)) /\ (r.at # "saved" => disk'.text = disk.text)
  BY <1>5 DEF EditShape
<1>8. EditShape' /\ Down'
  <2>1. count.up  BY OpUp
  <2>. QED BY <1>2, <1>5, <1>6, <1>7, <2>1 DEF EditShape, Down
<1>9. ASSUME ~user.raced PROVE InFile' /\ AsRead' /\ AsSaved' /\ PutBack' /\ Copied'
  <2>1. InFile /\ PutBack /\ Copied /\ InTable'  BY <1>4, <1>9 DEF KeptIInv
  <2>2. Saving  BY DEF Saving
  <2>3. Read(Saved(next)) = Raws(next) /\ Saved(next) \notin Broken
    BY Texts DEF Saved
  <2>4. InFile'
    <3>1. CASE disk'.text = disk.text  BY <1>3, <2>1, <3>1 DEF InFile
    <3>2. CASE disk'.text = Saved(next)  BY <1>1, <2>1, <2>3, <3>2 DEF InFile, InTable, Raws
    <3>. QED BY <1>7, <3>1, <3>2
  <2>5. AsSaved'  BY <1>1, <1>6, <1>7, <2>1 DEF AsSaved, Saved, Raws
  <2>6. PutBack'  BY <1>1, <1>3, <2>1 DEF PutBack
  <2>7. disk'.bad = disk.bad  BY <1>7
  <2>8. Copied'  BY <1>1, <1>2, <1>6, <1>7, <2>1, <2>2, <2>3, <2>7 DEF Copied
  <2>. QED BY <2>1, <2>4, <2>5, <2>6, <2>8 DEF AsRead
<1>. QED BY <1>2, <1>8, <1>9 DEF KeptIInv

LEMMA AddKept ==
  ASSUME KeptIInv, NEW t \in Thread, add(t) \/ remove(t)
  PROVE  KeptIInv'
<1>. EditShape /\ Down  BY DEF KeptIInv
<1>1. op[t].at = "saving" /\ ~Locked  BY DEF add, remove
<1>2. ~user.raced => InTable  BY <1>1 DEF KeptIInv, AsSaved, Saving
<1>3. CASE Answers(t) /\ UNCHANGED <<disk, table, seen, cli, user, count>>
  BY <1>1, <1>3, AnswersKeep
<1>4. CASE add(t) /\ Addable(op[t].id, op[t].replace)
  <2>. DEFINE old == IF op[t].id \in DOMAIN table THEN table[op[t].id].raw ELSE Other
              entry == [raw |-> Confirmed(old, op[t].raw), inst |-> count.built + 1]
              next == Put(table, op[t].id, entry)
  <2>1. save(t, next, was_registered(op[t].id)) /\ op[t].what = "add"  BY <1>4 DEF add
  <2>2. Raws(next) = Put(Raws(table), op[t].id, entry.raw)  BY RawsLists
  <2>. HIDE DEF entry, next
  <2>3. ASSUME ~user.raced PROVE Superseded(t)
    <3>. SUFFICES ASSUME op[t].id \in DOMAIN user.wrote, is_command(user.wrote[op[t].id])
                  PROVE  FALSE
      BY DEF Superseded
    <3>1. op[t].id \in DOMAIN table /\ table[op[t].id].raw = user.wrote[op[t].id]
      BY <1>2, <2>3 DEF InTable, Holds, Raws
    <3>. QED BY <1>4, <3>1 DEF Addable
  <2>4. ~user.raced => Holds(IF Superseded(t) THEN Drop(user.wrote, op[t].id) ELSE user.wrote, Raws(next))
    BY <1>2, <2>2, <2>3, HoldsLists DEF InTable
  <2>5. cli' = cli  BY <2>1 DEF save
  <2>. QED BY <1>1, <2>1, <2>4, <2>5, SaveKept
<1>5. CASE remove(t) /\ op[t].id \in DOMAIN table
  <2>. DEFINE next == Drop(table, op[t].id)
  <2>1. save(t, next, was_registered(op[t].id)) /\ op[t].what = "remove"  BY <1>5 DEF remove
  <2>2. Raws(next) = Drop(Raws(table), op[t].id)  BY RawsLists
  <2>. HIDE DEF next
  <2>3. ~user.raced => Holds(IF Superseded(t) THEN Drop(user.wrote, op[t].id) ELSE user.wrote, Raws(next))
    <3>1. Superseded(t)  BY <2>1 DEF Superseded
    <3>2. InTable => Holds(Drop(user.wrote, op[t].id), Drop(Raws(table), op[t].id))
      BY HoldsLists DEF InTable
    <3>. QED BY <1>2, <2>2, <3>1, <3>2
  <2>4. cli' = cli  BY <2>1 DEF save
  <2>. QED BY <1>1, <2>1, <2>3, <2>4, SaveKept
<1>6. CASE add(t) /\ ~Addable(op[t].id, op[t].replace)
  BY <1>3, <1>6 DEF add
<1>7. CASE remove(t) /\ op[t].id \notin DOMAIN table
  BY <1>3, <1>7 DEF remove
<1>. QED BY <1>4, <1>5, <1>6, <1>7

(* The runtime ends.                                                       *)
LEMMA EndsKept == ASSUME KeptIInv, Ends PROVE KeptIInv'
<1>. EditShape /\ Down  BY DEF KeptIInv
<1>1. /\ count' = [count EXCEPT !.up = FALSE] /\ table' = NoEngines /\ seen' = Missing
      /\ op' = [t \in Thread |-> Quiet] /\ UNCHANGED <<disk, cli, user>>
  BY DEF Ends
<1>2. ~Locked' /\ ~Saving' /\ \A t \in Thread : op'[t].at = "idle"
  BY <1>1, QuietOp DEF Locked, Saving
<1>3. EditShape' /\ Down'
  BY <1>1, <1>2, QuietOp DEF EditShape, Down
<1>4. Missing \notin Broken /\ \A w, t : Holds(w, Read(Missing)) => Holds(w, Raws(t))
  <2>1. Missing \notin Broken /\ Read(Missing) = NoEngines  BY Texts
  <2>2. DOMAIN NoEngines = {}  BY DEF NoEngines
  <2>. QED BY <2>1, <2>2 DEF Holds
<1>5. ASSUME ~user.raced PROVE InFile' /\ AsRead' /\ AsSaved' /\ PutBack' /\ Copied'
  <2>1. InFile /\ PutBack /\ Copied  BY <1>5 DEF KeptIInv
  <2>2. InFile'  BY <1>1, <2>1 DEF InFile
  <2>3. AsRead'  BY <1>1, <1>4, <2>1 DEF InFile, AsRead, InTable
  <2>4. PutBack'  BY <1>1, <1>4, <2>1 DEF PutBack, InTable
  <2>5. Copied'  BY <1>1, <1>2, <1>4, <2>1 DEF Copied
  <2>. QED BY <1>2, <2>2, <2>3, <2>4, <2>5 DEF AsSaved
<1>. QED BY <1>1, <1>3, <1>5 DEF KeptIInv

(* The runtime starts, and takes over a file of the first format.          *)
LEMMA StartsKept == ASSUME KeptIInv, Starts PROVE KeptIInv'
<1>. EditShape /\ Down  BY DEF KeptIInv
<1>. DEFINE broken == disk.text \in Broken
            legacy == disk.text.kind = "json" /\ disk.text.format < FORMAT
            raws == IF legacy THEN Migrated(Read(disk.text)) ELSE Read(disk.text)
<1>1. /\ ~count.up /\ table' = entries_from(raws, NoEngines) /\ seen' = disk'.text
      /\ disk' = [text |-> IF legacy THEN Text("json", FORMAT, raws) ELSE disk.text,
                  bad |-> IF broken THEN disk.text ELSE disk.bad]
      /\ UNCHANGED <<op, cli>>
  BY DEF Starts
<1>2. user' = [user EXCEPT !.wrote = IF user.raced \/ (legacy /\ Writing) THEN NoEngines
                                     ELSE IF legacy THEN Migrated(@) ELSE @,
                           !.text = IF user.raced THEN Missing ELSE @, !.raced = FALSE]
  BY DEF Starts
<1>3. count' = [Built EXCEPT !.up = TRUE, !.starts = @ + 1, !.fails = 0]  BY DEF Starts
<1>4. legacy => ~broken
  <2>1. \A text \in Broken : text.kind # "json"
    BY Texts
  <2>. QED BY <2>1
<1>. HIDE DEF broken, legacy
<1>5. /\ user' = [wrote |-> user'.wrote, text |-> user'.text, confirmed |-> user'.confirmed,
                  raced |-> user'.raced]
      /\ user'.wrote = IF user.raced \/ (legacy /\ Writing) THEN NoEngines
                       ELSE IF legacy THEN Migrated(user.wrote) ELSE user.wrote
      /\ user'.text = (IF user.raced THEN Missing ELSE user.text) /\ user'.raced = FALSE
  BY <1>2 DEF EditShape
<1>6. count'.up = TRUE /\ "up" \in DOMAIN count'
  <2>1. "up" \in DOMAIN Built  BY DEF Built, EditShape
  <2>. QED BY <1>3, <2>1
<1>7. ~Saving /\ ~Locked /\ ~Saving' /\ ~Locked'
  BY <1>1 DEF Down, Saving, Locked
<1>8. EditShape' /\ Down'  BY <1>1, <1>5, <1>6 DEF EditShape, Down
<1>9. Read(disk'.text) = raws
  BY <1>1, ReadWhole DEF legacy
<1>10. Holds(user'.wrote, raws)
  <2>1. CASE user.raced \/ (legacy /\ Writing)
    <3>. HIDE DEF raws
    <3>1. Holds(NoEngines, raws)  BY HoldsLists
    <3>. QED BY <1>5, <2>1, <3>1
  <2>2. CASE ~user.raced /\ ~legacy  BY <1>5, <2>2 DEF KeptIInv, InFile
  <2>3. CASE ~user.raced /\ legacy /\ ~Writing
    <3>1. user'.wrote = Migrated(user.wrote) /\ Holds(user.wrote, Read(disk.text))
      BY <1>5, <2>3 DEF KeptIInv, InFile
    <3>. QED BY <2>3, <3>1 DEF Holds, Migrated
  <2>. QED BY <2>1, <2>2, <2>3
<1>. HIDE DEF raws
<1>11. InTable'
  <2>1. Holds(user'.wrote, Raws(entries_from(raws, NoEngines)))  BY <1>10, EntriesHold
  <2>. QED BY <1>1, <2>1 DEF InTable, Raws
<1>12. InFile' /\ AsRead' /\ AsSaved'
  BY <1>7, <1>9, <1>10, <1>11 DEF InFile, AsRead, AsSaved
<1>13. user.raced \/ PutBack  BY DEF KeptIInv
<1>14. PutBack'
  <2>. SUFFICES ASSUME cli.at # "idle" PROVE Holds(user'.wrote, Read(cli.before))
    BY <1>1, <1>11 DEF PutBack
  <2>1. CASE user'.wrote = NoEngines  BY <2>1, HoldsLists
  <2>2. CASE user'.wrote # NoEngines
    <3>1. ~user.raced /\ user'.wrote = user.wrote  BY <1>5, <2>2 DEF Writing
    <3>. QED BY <1>13, <3>1 DEF PutBack
  <2>. QED BY <2>1, <2>2
<1>15. Copied'
  <2>1. disk'.text \in Broken => disk'.text = disk.text /\ broken /\ disk'.bad = disk.text
    <3>1. Text("json", FORMAT, raws) \notin Broken  BY Texts
    <3>. QED BY <1>1, <1>4, <3>1 DEF broken
  <2>2. user'.text \in Broken => ~user.raced /\ user'.text = user.text
    BY <1>5, Texts
  <2>3. ~user.raced => Copied  BY DEF KeptIInv
  <2>4. broken <=> disk.text \in Broken  BY DEF broken
  <2>. QED BY <1>1, <1>4, <1>7, <2>1, <2>2, <2>3, <2>4 DEF Copied
<1>. QED BY <1>8, <1>12, <1>14, <1>15 DEF KeptIInv

(* The user, or the CLI, writes the file.                                  *)
Allowed(text, wrote, unread) ==
  /\ ~user.raced => Holds(wrote, Read(text))
  /\ Writing => \A raws : Holds(user.wrote, raws) => Holds(wrote, raws)
  /\ ~user.raced /\ unread \in Broken => /\ unread \in {text, disk.bad}
                                         /\ text \in Broken => unread = text
                                         /\ Saving => unread = disk.bad
OthersKept ==
  /\ UNCHANGED <<table, seen, op>> /\ count'.up = count.up /\ "up" \in DOMAIN count'
  /\ cli' = [at |-> cli'.at, id |-> cli'.id, before |-> cli'.before, thread |-> cli'.thread]
  /\ cli'.at # "idle" => cli.at # "idle" /\ cli'.before = cli.before

LEMMA WrittenKept ==
  ASSUME KeptIInv, OthersKept, NEW text, NEW wrote, NEW confirmed, NEW unread,
         Writes(text, wrote, confirmed, unread), Allowed(text, wrote, unread)
  PROVE  KeptIInv'
<1>. EditShape /\ Down  BY DEF KeptIInv
<1>. USE DEF OthersKept
<1>1. /\ user' = [wrote |-> user'.wrote, text |-> user'.text, confirmed |-> user'.confirmed,
                  raced |-> user'.raced]
      /\ user'.wrote = Noticed(wrote, text) /\ user'.text = unread
      /\ user'.raced \in BOOLEAN /\ (~user'.raced => ~user.raced /\ ~Locked)
  <2>1. user.raced \in BOOLEAN  BY DEF EditShape
  <2>2. Locked \in BOOLEAN  BY DEF Locked
  <2>3. user' = [wrote |-> Noticed(wrote, text), text |-> unread, confirmed |-> confirmed,
                 raced |-> user.raced \/ Locked]
    BY DEF Writes
  <2>. QED BY <2>1, <2>2, <2>3
<1>2. disk' = [text |-> text, bad |-> disk.bad]  BY DEF Writes, EditShape
<1>3. EditShape' /\ Down'  BY <1>1, <1>2 DEF EditShape, Down
<1>4. (Saving' <=> Saving) /\ (Locked' <=> Locked)  BY DEF Saving, Locked
<1>5. ASSUME ~user'.raced PROVE InFile' /\ AsRead' /\ AsSaved' /\ PutBack' /\ Copied'
  <2>1. /\ ~user.raced /\ ~Locked /\ AsSaved /\ PutBack /\ Copied
    BY <1>1, <1>5 DEF KeptIInv
  <2>2. \A raws : Holds(wrote, raws) => Holds(user'.wrote, raws)
    BY <1>1, HoldsNoticed
  <2>3. Holds(wrote, Read(text))  BY <2>1 DEF Allowed
  <2>4. InFile'  BY <1>2, <2>2, <2>3 DEF InFile
  <2>5. AsRead'
    <3>1. text = seen => Holds(user'.wrote, Raws(table))  BY <1>1, HoldsNoticed
    <3>. QED BY <1>2, <3>1 DEF AsRead, InTable, Raws
  <2>6. Writing => \A raws : Holds(user.wrote, raws) => Holds(user'.wrote, raws)
    BY <2>2 DEF Allowed
  <2>7. Writing /\ InTable => InTable'  BY <2>6 DEF InTable, Raws
  <2>8. AsSaved'  BY <1>4, <2>1, <2>7 DEF AsSaved, Writing
  <2>9. PutBack'  BY <2>1, <2>6, <2>7 DEF PutBack, Writing
  <2>10. Copied'
    <3>1. unread \in Broken => /\ unread \in {text, disk.bad}
                               /\ text \in Broken => unread = text
                               /\ Saving => unread = disk.bad
      BY <2>1 DEF Allowed
    <3>. QED BY <1>1, <1>2, <1>4, <2>1, <3>1 DEF Copied
  <2>. QED BY <2>4, <2>5, <2>8, <2>9, <2>10
<1>. QED BY <1>3, <1>5 DEF KeptIInv

LEMMA EditedKept ==
  ASSUME KeptIInv, NEW text, NEW wrote, NEW confirmed, NEW unread,
         Edits(text, wrote, confirmed, unread), Allowed(text, wrote, unread)
  PROVE  KeptIInv'
<1>1. /\ count' = [count EXCEPT !.edits = @ + 1] /\ UNCHANGED <<table, seen, op, cli>>
      /\ Writes(text, wrote, confirmed, unread)
  BY DEF Edits
<1>2. count'.up = count.up /\ "up" \in DOMAIN count'
  BY <1>1 DEF KeptIInv, EditShape
<1>3. OthersKept  BY <1>1, <1>2 DEF OthersKept, KeptIInv, EditShape
<1>. QED BY <1>1, <1>3, WrittenKept

LEMMA UserKept == ASSUME KeptIInv, UserEdits(UserRaws, UserLasts) PROVE KeptIInv'
<1>1. ~user.raced => InFile /\ Copied  BY DEF KeptIInv
<1>2. ASSUME NEW text, EditTo(text), text \notin Broken PROVE KeptIInv'
  <2>. DEFINE wrote == Wish(text)
              confirmed == user.confirmed \cup {c \in Confirms(text) : c[1] \in Changes(text)}
  <2>1. disk.text \notin Broken /\ Edits(text, wrote, confirmed, user.text)
    BY <1>2 DEF EditTo
  <2>2. Holds(wrote, Read(text))
    BY DEF Holds, Wish, Changes
  <2>3. ASSUME Writing, NEW other, Holds(user.wrote, other) PROVE Holds(wrote, other)
    <3>. SUFFICES ASSUME NEW i \in DOMAIN wrote PROVE i \in DOMAIN other /\ other[i] = wrote[i]
      BY DEF Holds
    <3>1. i \in DOMAIN user.wrote /\ Read(text)[i] = user.wrote[i] /\ wrote[i] = Read(text)[i]
      BY <2>3 DEF Wish
    <3>. QED BY <2>3, <3>1 DEF Holds
  <2>. HIDE DEF wrote, confirmed
  <2>4. ~user.raced /\ user.text \in Broken => user.text = disk.bad
    BY <1>1, <2>1 DEF Copied
  <2>5. Allowed(text, wrote, user.text)  BY <1>2, <2>2, <2>3, <2>4 DEF Allowed
  <2>. QED BY <2>1, <2>5, EditedKept
<1>3. CASE \/ \E id \in Profile, raw \in UserRaws : EditEntry(id, raw)
           \/ \E id \in Profile : EditOut(id)
           \/ \E last \in UserLasts : EditLast(last)
  <2>1. PICK raws, last : EditTo(FileText("json", disk.text.format, raws, last))
    BY <1>3 DEF EditEntry, EditOut, EditLast
  <2>2. FileText("json", disk.text.format, raws, last) \notin Broken
    BY Texts
  <2>. QED BY <1>2, <2>1, <2>2
<1>4. CASE \E text \in Broken : EditBreaks(text)
  <2>1. PICK text \in Broken : EditBreaks(text)  BY <1>4
  <2>. DEFINE unread == IF Writing THEN Missing ELSE text
  <2>2. Edits(text, NoEngines, user.confirmed, unread)  BY <2>1 DEF EditBreaks
  <2>3. \A raws : Holds(NoEngines, raws)  BY HoldsLists
  <2>4. unread \in Broken => unread = text /\ ~Saving  BY Texts DEF Writing
  <2>. HIDE DEF unread
  <2>5. Allowed(text, NoEngines, unread)  BY <2>3, <2>4 DEF Allowed
  <2>. QED BY <2>2, <2>5, EditedKept
<1>5. CASE EditMends
  <2>. DEFINE text == Text("json", FORMAT, NoEngines)
  <2>1. disk.text \in Broken /\ Edits(text, user.wrote, user.confirmed, Missing)
    BY <1>5 DEF EditMends
  <2>2. Read(text) = Read(disk.text)  BY <2>1, Texts
  <2>. HIDE DEF text
  <2>3. ~user.raced => Holds(user.wrote, Read(text))  BY <1>1, <2>2 DEF InFile
  <2>4. Allowed(text, user.wrote, Missing)  BY <2>3, Texts DEF Allowed
  <2>. QED BY <2>1, <2>4, EditedKept
<1>. QED BY <1>3, <1>4, <1>5 DEF UserEdits

(* The CLI's steps.                                                        *)
LEMMA CliReadsKept ==
  ASSUME KeptIInv, NEW id \in Profile, CliReads(id)
  PROVE  KeptIInv'
<1>. EditShape /\ Down  BY DEF KeptIInv
<1>1. /\ cli' = [NoCli EXCEPT !.at = "write", !.id = id, !.before = disk.text]
      /\ disk.text \notin Broken /\ count' = [count EXCEPT !.edits = @ + 1]
      /\ UNCHANGED <<disk, table, seen, op, user>>
  BY DEF CliReads
<1>2. cli' = [at |-> "write", id |-> id, before |-> disk.text, thread |-> "none"]
  BY <1>1 DEF NoCli
<1>3. count'.up = count.up /\ "up" \in DOMAIN count'  BY <1>1 DEF EditShape
<1>4. EditShape' /\ Down'
  <2>1. /\ cli' = [at |-> cli'.at, id |-> cli'.id, before |-> cli'.before, thread |-> cli'.thread]
        /\ cli'.before = disk.text
    BY <1>2
  <2>. QED BY <1>1, <1>3, <2>1 DEF EditShape, Down
<1>5. /\ (Saving' <=> Saving) /\ (Locked' <=> Locked) /\ (InFile' <=> InFile) /\ (InTable' <=> InTable)
  BY <1>1 DEF Saving, Locked, InFile, InTable, Raws, Holds
<1>6. ASSUME ~user'.raced PROVE InFile' /\ AsRead' /\ AsSaved' /\ PutBack' /\ Copied'
  <2>1. ~user.raced /\ InFile /\ AsRead /\ AsSaved /\ Copied  BY <1>1, <1>6 DEF KeptIInv
  <2>2. InFile' /\ AsRead' /\ AsSaved' /\ Copied'
    BY <1>1, <1>5, <2>1 DEF AsRead, AsSaved, Copied, Saved, Raws
  <2>3. PutBack'  BY <1>1, <1>2, <1>5, <2>1 DEF PutBack, InFile, AsRead
  <2>. QED BY <2>2, <2>3
<1>. QED BY <1>4, <1>6 DEF KeptIInv

LEMMA CliWritesKept == ASSUME KeptIInv, TextTyped(cli.before), NEW raw, CliWrites(raw) PROVE KeptIInv'
<1>. DEFINE text == CliText(cli.before, cli.id, raw)
            wrote == Drop(user.wrote, cli.id)
<1>1. /\ cli.at = "write" /\ cli' = [cli EXCEPT !.at = "reload"] /\ Room(cli.before, cli.id)
      /\ Writes(text, wrote, user.confirmed, Missing) /\ UNCHANGED <<table, seen, op, count>>
  BY DEF CliWrites
<1>2. cli' = [at |-> "reload", id |-> cli.id, before |-> cli.before, thread |-> cli.thread]
  BY <1>1 DEF KeptIInv, EditShape
<1>3. OthersKept  BY <1>1, <1>2 DEF OthersKept, KeptIInv, EditShape
<1>4. \A i \in DOMAIN Read(cli.before) \ {cli.id} :
        i \in DOMAIN Read(text) /\ Read(text)[i] = Read(cli.before)[i]
  BY <1>1, CliTexts
<1>. HIDE DEF text
<1>5. Holds(user.wrote, Read(cli.before)) => Holds(wrote, Read(text))
  BY <1>4 DEF Holds, Drop
<1>6. \A other : Holds(user.wrote, other) => Holds(wrote, other)  BY HoldsLists
<1>. HIDE DEF wrote
<1>7. ~user.raced => Holds(wrote, Read(text))  BY <1>1, <1>5 DEF KeptIInv, PutBack
<1>8. Allowed(text, wrote, Missing)  BY <1>6, <1>7, Texts DEF Allowed
<1>. QED BY <1>1, <1>3, <1>8, WrittenKept

(* It is refused.                                                          *)
LEMMA CliRefusesKept == ASSUME KeptIInv, CliRefuses PROVE KeptIInv'
<1>. EditShape /\ Down  BY DEF KeptIInv
<1>1. cli' = NoCli /\ UNCHANGED <<disk, table, seen, op, user, count>>  BY DEF CliRefuses
<1>2. /\ cli'.at = "idle"
      /\ cli' = [at |-> cli'.at, id |-> cli'.id, before |-> cli'.before, thread |-> cli'.thread]
  BY <1>1 DEF NoCli
<1>3. EditShape' /\ Down'  BY <1>1, <1>2 DEF EditShape, Down
<1>4. (Saving' <=> Saving) /\ (Locked' <=> Locked)  BY <1>1 DEF Saving, Locked
<1>. QED BY <1>1, <1>2, <1>3, <1>4, OpsKeep

(* The command is done: what it leaves is the user's.                      *)
LEMMA CliUsedKept ==
  ASSUME KeptIInv, cli' = NoCli, UNCHANGED <<disk, table, seen, op, count>>, NEW wrote,
         user' = [user EXCEPT !.wrote = wrote],
         ~user.raced => \/ wrote = user.wrote
                        \/ /\ ~Saving /\ Holds(wrote, Read(disk.text))
                           /\ disk.text = seen => Holds(wrote, Raws(table))
  PROVE  KeptIInv'
<1>. EditShape /\ Down  BY DEF KeptIInv
<1>1. user' = [wrote |-> wrote, text |-> user.text, confirmed |-> user.confirmed, raced |-> user.raced]
  BY DEF EditShape
<1>2. /\ cli'.at = "idle"
      /\ cli' = [at |-> cli'.at, id |-> cli'.id, before |-> cli'.before, thread |-> cli'.thread]
  BY DEF NoCli
<1>3. EditShape' /\ Down'
  <2>1. /\ user' = [wrote |-> user'.wrote, text |-> user'.text, confirmed |-> user'.confirmed,
                    raced |-> user'.raced]
        /\ user'.raced = user.raced
    BY <1>1
  <2>. QED BY <1>2, <2>1 DEF EditShape, Down
<1>4. (Saving' <=> Saving) /\ (Locked' <=> Locked)  BY DEF Saving, Locked
<1>5. user'.wrote = wrote /\ user'.text = user.text /\ user'.raced = user.raced  BY <1>1
<1>6. ASSUME ~user'.raced PROVE InFile' /\ AsRead' /\ AsSaved' /\ PutBack' /\ Copied'
  <2>1. ~user.raced /\ InFile /\ AsRead /\ AsSaved /\ Copied  BY <1>5, <1>6 DEF KeptIInv
  <2>2. InFile'  BY <1>5, <2>1 DEF InFile
  <2>3. AsRead'  BY <1>5, <2>1 DEF AsRead, InTable, Raws
  <2>4. Saving => InTable'  BY <1>5, <2>1 DEF AsSaved, InTable, Raws
  <2>5. AsSaved'  BY <1>4, <2>1, <2>4 DEF AsSaved, Saved, Raws
  <2>6. PutBack'  BY <1>2 DEF PutBack
  <2>7. Copied'  BY <1>4, <1>5, <2>1 DEF Copied
  <2>. QED BY <2>2, <2>3, <2>5, <2>6, <2>7
<1>. QED BY <1>3, <1>6 DEF KeptIInv

LEMMA CliDoneKept == ASSUME KeptIInv, CliDone PROVE KeptIInv'
<1>. EditShape /\ Down  BY DEF KeptIInv
<1>. DEFINE used == cli.id \in Usable(table) \/ ~count.up
            kept == /\ cli.id \in DOMAIN Read(disk.text) /\ ~Saving
                    /\ count.up => InEntries(cli.id, Read(disk.text)[cli.id])
            wrote == IF kept THEN Put(user.wrote, cli.id, Read(disk.text)[cli.id]) ELSE user.wrote
<1>1. /\ cli.at # "idle" /\ cli' = NoCli /\ UNCHANGED <<table, seen, op, count>>
      /\ disk' = IF used THEN disk ELSE [disk EXCEPT !.text = cli.before]
      /\ user' = IF used THEN [user EXCEPT !.wrote = wrote]
                 ELSE [user EXCEPT !.raced = user.raced \/ Locked, !.text = Missing]
  <2>1. user.raced \in BOOLEAN  BY DEF EditShape
  <2>2. cli.at # "idle" /\ cli' = NoCli /\ UNCHANGED <<table, seen, op, count>>  BY DEF CliDone
  <2>. QED BY <2>1, <2>2 DEF CliDone
<1>2. CASE used
  <2>1. disk' = disk /\ user' = [user EXCEPT !.wrote = wrote]  BY <1>1, <1>2
  <2>2. ASSUME ~user.raced, kept
        PROVE  /\ ~Saving /\ Holds(wrote, Read(disk.text))
               /\ disk.text = seen => Holds(wrote, Raws(table))
    <3>1. InFile /\ AsRead  BY <2>2 DEF KeptIInv
    <3>2. wrote = Put(user.wrote, cli.id, Read(disk.text)[cli.id])  BY <2>2
    <3>3. Holds(wrote, Read(disk.text))
      <4>1. cli.id \in DOMAIN Read(disk.text)  BY <2>2
      <4>2. Holds(user.wrote, Read(disk.text))  BY <3>1 DEF InFile
      <4>. HIDE DEF wrote, kept
      <4>3. Holds(Put(user.wrote, cli.id, Read(disk.text)[cli.id]), Read(disk.text))
        BY <4>1, <4>2 DEF Holds, Put
      <4>. QED BY <3>2, <4>3
    <3>4. ASSUME disk.text = seen PROVE Holds(wrote, Raws(table))
      <4>1. count.up
        <5>1. DOMAIN NoEngines = {}  BY DEF NoEngines
        <5>. QED BY <2>2, <3>4, <5>1, Texts DEF Down
      <4>2. cli.id \in DOMAIN Raws(table) /\ Raws(table)[cli.id] = Read(disk.text)[cli.id]
        BY <2>2, <4>1 DEF InEntries, Raws
      <4>3. Holds(user.wrote, Raws(table))  BY <3>1, <3>4 DEF AsRead, InTable
      <4>. QED BY <3>2, <4>2, <4>3, HoldsLists
    <3>. QED BY <2>2, <3>3, <3>4
  <2>3. ~kept => wrote = user.wrote  OBVIOUS
  <2>. HIDE DEF kept, wrote
  <2>. QED BY <1>1, <2>1, <2>2, <2>3, CliUsedKept
<1>3. CASE ~used
  <2>1. /\ disk' = [text |-> cli.before, bad |-> disk.bad]
        /\ user' = [user EXCEPT !.raced = user.raced \/ Locked, !.text = Missing]
    BY <1>1, <1>3 DEF EditShape
  <2>. HIDE DEF used, wrote, kept
  <2>2. user' = [wrote |-> user.wrote, text |-> Missing, confirmed |-> user.confirmed,
                 raced |-> user.raced \/ Locked]
    <3>. DEFINE s == [user EXCEPT !.raced = user.raced \/ Locked]
    <3>1. s = [wrote |-> user.wrote, text |-> user.text, confirmed |-> user.confirmed,
               raced |-> user.raced \/ Locked]
      BY DEF EditShape
    <3>2. user' = [s EXCEPT !.text = Missing]  BY <2>1
    <3>. HIDE DEF s
    <3>. QED BY <3>1, <3>2
  <2>3. user'.raced \in BOOLEAN /\ (~user'.raced => ~user.raced /\ ~Locked)
    <3>1. user.raced \in BOOLEAN /\ Locked \in BOOLEAN  BY DEF EditShape, Locked
    <3>. QED BY <2>2, <3>1
  <2>4. /\ cli'.at = "idle"
        /\ cli' = [at |-> cli'.at, id |-> cli'.id, before |-> cli'.before, thread |-> cli'.thread]
    BY <1>1 DEF NoCli
  <2>5. user'.wrote = user.wrote /\ user'.text = Missing  BY <2>2
  <2>6. EditShape' /\ Down'
    <3>1. user' = [wrote |-> user'.wrote, text |-> user'.text, confirmed |-> user'.confirmed,
                   raced |-> user'.raced]
      BY <2>2
    <3>2. disk' = [text |-> disk'.text, bad |-> disk'.bad]  BY <2>1
    <3>. QED BY <1>1, <2>3, <2>4, <3>1, <3>2 DEF EditShape, Down
  <2>7. (Saving' <=> Saving) /\ (Locked' <=> Locked)  BY <1>1 DEF Saving, Locked
  <2>8. ASSUME ~user'.raced PROVE InFile' /\ AsRead' /\ AsSaved' /\ PutBack' /\ Copied'
    <3>1. ~user.raced /\ ~Locked /\ AsSaved /\ PutBack /\ Copied  BY <2>3, <2>8 DEF KeptIInv
    <3>2. Holds(user.wrote, Read(cli.before)) /\ (cli.before = seen => InTable)
      BY <1>1, <3>1 DEF PutBack
    <3>3. InTable' <=> InTable  BY <1>1, <2>5 DEF InTable, Raws, Holds
    <3>4. InFile' /\ AsRead'  BY <1>1, <2>1, <2>5, <3>2, <3>3 DEF InFile, AsRead
    <3>5. AsSaved'  BY <2>7, <3>1, <3>3 DEF AsSaved
    <3>6. PutBack'  BY <2>4 DEF PutBack
    <3>7. Copied'  BY <1>1, <2>1, <2>5, <3>1, Texts DEF Copied
    <3>. QED BY <3>4, <3>5, <3>6, <3>7
  <2>. QED BY <2>6, <2>8 DEF KeptIInv
<1>. QED BY <1>2, <1>3

LEMMA CliKept == ASSUME KeptIInv, TextTyped(cli.before), Cli PROVE KeptIInv'
<1>1. CASE \E t \in Thread : CliReloads(t)
  <2>1. PICK t \in Thread : CliReloads(t)  BY <1>1
  <2>2. cli.at = "reload" /\ AskReload(t) /\ cli' = [cli EXCEPT !.at = "wait", !.thread = t]
    BY <2>1 DEF CliReloads
  <2>3. UNCHANGED <<disk, table, seen, user>>  BY <2>2 DEF AskReload, Asks
  <2>4. PICK r : Asks(t, r) /\ {"at", "what", "id"} \subseteq DOMAIN r /\ r.at \in {"take_in", "read", "key"}
    BY <2>2, ReloadAsked
  <2>5. /\ cli' = [at |-> cli'.at, id |-> cli'.id, before |-> cli'.before, thread |-> cli'.thread]
        /\ cli'.before = cli.before
    <3>. DEFINE s == [cli EXCEPT !.at = "wait"]
    <3>1. s = [at |-> "wait", id |-> cli.id, before |-> cli.before, thread |-> cli.thread]
      BY DEF KeptIInv, EditShape
    <3>2. cli' = [s EXCEPT !.thread = t]  BY <2>2
    <3>. HIDE DEF s
    <3>3. cli' = [at |-> "wait", id |-> cli.id, before |-> cli.before, thread |-> t]
      BY <3>1, <3>2
    <3>. QED BY <3>3
  <2>. QED BY <2>2, <2>3, <2>4, <2>5, AskGoes
<1>2. CASE ~\E t \in Thread : CliReloads(t)
  BY <1>2, CliReadsKept, CliRefusesKept, CliWritesKept, CliDoneKept DEF Cli
<1>. QED BY <1>1, <1>2

LEMMA KeptInitially == EnginesInit => KeptIInv
<1>. SUFFICES ASSUME EnginesInit PROVE KeptIInv
  OBVIOUS
<1>1. PICK f :
        /\ disk = [text |-> f, bad |-> Missing]
        /\ user = [wrote |-> Read(f), text |-> IF f \in Broken THEN f ELSE Missing,
                   confirmed |-> Confirms(f), raced |-> FALSE]
  BY DEF EnginesInit
<1>2. /\ table = NoEngines /\ seen = Missing /\ cli = NoCli /\ op = [t \in Thread |-> Quiet]
      /\ count = [up |-> FALSE, built |-> 0, requests |-> 0, edits |-> 0, starts |-> 0, fails |-> 0]
  BY DEF EnginesInit
<1>3. \A t \in Thread : op[t] = Quiet  BY <1>2
<1>4. /\ cli.at = "idle"
      /\ cli = [at |-> cli.at, id |-> cli.id, before |-> cli.before, thread |-> cli.thread]
  BY <1>2 DEF NoCli
<1>5. disk.text = f /\ user.wrote = Read(f) /\ user.text = (IF f \in Broken THEN f ELSE Missing)
  BY <1>1
<1>6. EditShape
  <2>1. /\ user = [wrote |-> user.wrote, text |-> user.text, confirmed |-> user.confirmed,
                   raced |-> user.raced]
        /\ user.raced \in BOOLEAN
    BY <1>1
  <2>2. disk = [text |-> disk.text, bad |-> disk.bad] /\ "up" \in DOMAIN count  BY <1>1, <1>2
  <2>3. DOMAIN op = Thread /\ \A t \in Thread : {"at", "what", "id"} \subseteq DOMAIN op[t]
    BY <1>2, <1>3, QuietOp
  <2>. QED BY <1>4, <2>1, <2>2, <2>3 DEF EditShape
<1>7. Down  BY <1>2, <1>3, QuietOp DEF Down
<1>8. ~Saving /\ ~Locked
  <2>1. \A t \in Thread : op[t].at = "idle"  BY <1>3, QuietOp
  <2>. QED BY <2>1 DEF Saving, Locked
<1>9. InFile  BY <1>5 DEF InFile, Holds
<1>10. AsRead
  <2>. SUFFICES ASSUME disk.text = seen PROVE Holds(user.wrote, Raws(table))
    BY DEF AsRead, InTable
  <2>1. user.wrote = NoEngines  BY <1>2, <1>5, Texts
  <2>. QED BY <2>1, HoldsLists
<1>11. Copied  BY <1>2, <1>5, <1>8, Texts DEF Copied
<1>. QED BY <1>4, <1>6, <1>7, <1>8, <1>9, <1>10, <1>11 DEF KeptIInv, AsSaved, PutBack

LEMMA KeptStep == KeptIInv /\ EnginesIInv /\ [EnginesNext]_enginesVars => KeptIInv'
<1>. SUFFICES ASSUME KeptIInv, EnginesIInv, [EnginesNext]_enginesVars PROVE KeptIInv'
  OBVIOUS
<1>1. CASE UNCHANGED enginesVars \/ \E id \in Profile : UseEngine(id)
  <2>1. UNCHANGED <<disk, table, seen, op, cli, user, count>>
    BY <1>1 DEF UseEngine, enginesVars
  <2>2. EditShape' /\ Down'  BY <2>1 DEF KeptIInv, EditShape, Down
  <2>3. (Locked' <=> Locked) /\ (Saving' <=> Saving)  BY <2>1 DEF Locked, Saving
  <2>. QED BY <2>1, <2>2, <2>3, OpsKeep
<1>2. CASE \E t \in Thread : Handles(t) \/ Adds(t, ClientRaws, BOOLEAN) \/ Requested(t)
  <2>1. PICK t \in Thread : Handles(t) \/ Adds(t, ClientRaws, BOOLEAN) \/ Requested(t)
    BY <1>2
  <2>. QED BY <2>1, AsksKept, GoesOnKept, ReloadKept, ReadBackKept, AddKept DEF Handles
<1>3. CASE Starts \/ Ends \/ UserEdits(UserRaws, UserLasts) \/ Cli
  BY <1>3, StartsKept, EndsKept, UserKept, CliKept DEF EnginesIInv, TextHome
<1>. QED BY <1>1, <1>2, <1>3 DEF EnginesNext

(* For any profiles, addresses, threads and bounds: what the user wrote in *)
(* engines.json, of the entries that are read, stays there until a request *)
(* about that profile is saved,                                            *)
(* whatever requests, failed saves, the CLI and its undo, crashes and      *)
(* migrations come in between, unless an edit fell between a save and the  *)
(* reading back of what it saved (take_in_file_changes of engines/file.rs, *)
(* add and remove of engines/registry.rs, load of engines/mod.rs).         *)
THEOREM EnginesEditsKept == EnginesSpec => []EditsKept
<1>1. KeptIInv => EditsKept
  BY DEF KeptIInv, InFile, Holds, Copied, EditsKept
<1>. QED BY <1>1, KeptInitially, KeptStep, EnginesInitially, EnginesInductive, PTL DEF EnginesSpec
=============================================================================
