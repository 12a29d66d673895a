----------------------------- MODULE ReaderView -----------------------------
(***************************************************************************)
(* What Player keeps of the reader's state: how many chunks an item has    *)
(* and not their kinds, one field for the pause and the step mode wait,    *)
(* and of the effects the items that ended.                                *)
(***************************************************************************)
EXTENDS Reader, FiniteSets

ItemView(item) == [id |-> item.id, chunks |-> Len(item.chunks)]

QueueView(queue) == [k \in 1..Len(queue) |-> ItemView(queue[k])]

PauseView(step_wait, paused) == IF step_wait THEN "Step" ELSE IF paused THEN "User" ELSE "No"

(* The ids of the items that ended, in the order of their effects: the     *)
(* n-th is that of the effect at which n have ended.                       *)
IsEnd(e) == e.op = "Item" /\ e.phase # "Started"
Ends(fx) == {k \in 1..Len(fx) : IsEnd(fx[k])}
EndedAt(fx, k) == Cardinality({j \in Ends(fx) : j <= k})
NthEnded(fx, n) == {fx[k].item : k \in {j \in Ends(fx) : EndedAt(fx, j) = n}}
The(S) == CHOOSE x \in S : TRUE
EndedBy(fx) == [n \in 1..Cardinality(Ends(fx)) |-> The(NthEnded(fx, n))]

View(r) ==
  [current |-> IF r.current = None THEN None ELSE ItemView(r.current.item),
   chunk   |-> IF r.current = None THEN 0 ELSE r.current.chunk,
   queue   |-> QueueView(r.queue),
   last    |-> IF r.last = None THEN None ELSE ItemView(r.last),
   pause   |-> PauseView(r.step_wait, r.paused),
   next_id |-> r.next_id,
   ended   |-> EndedBy(r.fx)]

PlayerView == View(reader)

(* Option::None is no item.                                                *)
ASSUME ReaderViewConstants == None \notin [id : Nat, chunks : Nat]

(* The reader as its clients see it is Player: every call of the reader is *)
(* a step of that specification.                                           *)
Seen == INSTANCE Player WITH player <- PlayerView,
                             Lengths <- {Len(text[c]) : text \in Texts, c \in Chunking}
ImplementsPlayer == Seen!PlayerSpec
=============================================================================
