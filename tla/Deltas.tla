------------------------------- MODULE Deltas -------------------------------
(***************************************************************************)
(* Streamed prose on its way into chunks: the deltas of a block in index   *)
(* order (DeltaOrder of sonara-agent) and the streaming assembler of       *)
(* sonara-core, which cuts what it is fed into chunks.                     *)
(*                                                                         *)
(* A delta has the pieces of text in it, its index, whether it ends its    *)
(* block (fin) and what its text ends: nothing ("part"), a sentence, a     *)
(* paragraph, or a code block it is all of.  A chunk is a sequence of      *)
(* pieces.  Where sentences are cut and how text is spoken is left out.    *)
(***************************************************************************)
EXTENDS Integers, Sequences, FiniteSets, SequencesExt

CONSTANT None   \* an absent value

Whole(text) == [text |-> text, index |-> 0, fin |-> TRUE, shape |-> "sentence"]

-----------------------------------------------------------------------------
(* DeltaOrder.                                                             *)

NewOrder == [next |-> 0, ahead |-> {}, gen |-> 0, skipped |-> {}]

indices(o) == {d.index : d \in o.ahead}
missing(o) == {i \in o.next..(Max(indices(o) \cup {0}) - 1) : i \notin indices(o)}

advance(d) == IF d.fin THEN 0 ELSE d.index + 1

in_index_order(deltas) == SetToSortSeq(deltas, LAMBDA d, e : d.index < e.index)

(* What is held, in index order without the missing ones.                  *)
held_deltas(o) == in_index_order(o.ahead)
release_held(o) ==
  IF o.ahead = {} THEN o
  ELSE [next |-> advance(Last(held_deltas(o))), ahead |-> {}, gen |-> o.gen + 1,
        skipped |-> o.skipped \cup missing(o)]

(* Fault: the delta waited for lets go all that is held.                   *)
unblocked_all(o, d) == IF d.fin THEN {} ELSE o.ahead
(* The held deltas that follow d without a gap, up to the block's end.     *)
unblocked(o, d) ==
  {e \in o.ahead : /\ ~d.fin /\ d.index < e.index
                   /\ (d.index + 1)..e.index \subseteq indices(o)
                   /\ \A f \in o.ahead : d.index < f.index /\ f.index < e.index => ~f.fin}

(* Take a delta: the deltas ready now, and whether a gap began.  A block's *)
(* first delta lets go what the last block held.  One that is behind, that *)
(* is held already or that was given up goes at once, after what is held.  *)
accept(order, d) ==
  LET a    == IF d.index = 0 /\ order.next > 0
              THEN [release_held(order) EXCEPT !.next = 0] ELSE order
      old  == IF d.index = 0 /\ order.next > 0 THEN held_deltas(order) ELSE <<>>
      o    == IF d.index = 0 THEN [a EXCEPT !.skipped = {}] ELSE a
      late == d.index # o.next /\ d.index \in o.skipped
      b    == IF late THEN [o EXCEPT !.skipped = @ \ {d.index}] ELSE o
      run  == unblocked(o, d)
      rest == o.ahead \ run
      next == IF run = {} THEN advance(d) ELSE advance(Last(in_index_order(run)))
  IN IF d.index < o.next \/ d.index \in indices(o) \/ late
     THEN [order |-> release_held(b), ready |-> old \o held_deltas(b) \o <<d>>, gap |-> FALSE]
     ELSE IF d.index > o.next
     THEN [order |-> [o EXCEPT !.ahead = @ \cup {d}], ready |-> old, gap |-> o.ahead = {}]
     ELSE [order |-> [next |-> next, ahead |-> rest, skipped |-> o.skipped \ {d.index},
                      gen |-> IF rest = {} THEN o.gen + 1 ELSE o.gen],
           ready |-> old \o <<d>> \o in_index_order(run), gap |-> FALSE]

-----------------------------------------------------------------------------
(* ProseAssembler.  `buf` is the text read to no end yet, `done` the last  *)
(* block's final index and the indices it had.                             *)

NewAssembler == [seen |-> {}, buf |-> <<>>, done |-> None]

prose_chunk(text) == IF text = <<>> THEN <<>> ELSE <<[text |-> text, code |-> FALSE]>>
flush_buf(a) == prose_chunk(a.buf)

(* The chunks that d's text ends, with what waits before it.               *)
consume(a, d) ==
  CASE d.shape = "part" -> <<>>
    [] d.shape = "code" -> flush_buf(a) \o <<[text |-> d.text, code |-> TRUE]>>
    [] OTHER -> prose_chunk(a.buf \o d.text)

finish(a, d) == [seen |-> {}, buf |-> <<>>, done |-> [at |-> d.index, had |-> a.seen]]

(* Fed a delta: the assembler and the chunks that came out.                *)
feed(a, d) ==
  LET missed == /\ a.done # None /\ 0 < d.index /\ d.index < a.done.at
                /\ d.index \notin a.done.had
      fresh == d.index = 0 /\ a.seen # {}
      b     == IF fresh THEN NewAssembler ELSE [a EXCEPT !.done = None]
      old   == IF fresh THEN flush_buf(a) ELSE <<>>
      c     == [b EXCEPT !.seen = @ \cup {d.index},
                         !.buf = IF d.shape = "part" THEN @ \o d.text ELSE <<>>]
  IN IF missed
     THEN [asm |-> [a EXCEPT !.done.had = @ \cup {d.index}],
           chunks |-> prose_chunk(a.buf \o d.text)]
     ELSE IF d.index \in b.seen
     THEN [asm |-> IF d.fin THEN finish(b, d) ELSE b,
           chunks |-> IF d.fin THEN flush_buf(b) ELSE <<>>]
     ELSE [asm |-> IF d.fin THEN finish(c, d) ELSE c,
           chunks |-> old \o consume(b, d) \o IF d.fin THEN flush_buf(c) ELSE <<>>]
=============================================================================
