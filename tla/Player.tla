------------------------------- MODULE Player -------------------------------
(***************************************************************************)
(* What the layers above see of the reader: the item read now and its      *)
(* chunk, the items queued, the pause and the items that ended.  Reader    *)
(* implements this specification (ReaderView, ReaderProofs); the channels  *)
(* driver is composed with it instead of with Reader.                      *)
(*                                                                         *)
(* `pause` tells the user's pause from a step mode wait, which ends with   *)
(* the chunk it waits at.  `ended` are the items the last call ended, in   *)
(* order.  How far playback has come and when step mode waits is left      *)
(* open.                                                                   *)
(***************************************************************************)
EXTENDS Integers, Sequences

CONSTANTS None, Lengths   \* how many chunks a text may have

VARIABLE player

Pause == {"No", "User", "Step"}
Quiet == [player EXCEPT !.ended = <<>>]

idle(p) == p.current = None /\ p.queue = <<>>

end_wait(p) == [p EXCEPT !.pause = IF @ = "Step" THEN "No" ELSE @]

start_next(p) ==
  LET s == end_wait(p)
  IN IF s.queue = <<>> THEN [s EXCEPT !.pause = "No"]
     ELSE [s EXCEPT !.current = Head(s.queue), !.chunk = 1, !.queue = Tail(@)]

end_current(p) ==
  IF p.current = None THEN p
  ELSE [p EXCEPT !.current = None, !.chunk = 0, !.last = p.current,
                 !.ended = Append(@, p.current.id)]

drop_queue(p) ==
  [p EXCEPT !.queue = <<>>,
            !.ended = @ \o [k \in 1..Len(p.queue) |-> p.queue[k].id]]

skip(p) == IF p.current = None THEN p ELSE start_next(end_current(p))

(* A text with n chunks; one with nothing to say ends at once and cuts     *)
(* nothing.                                                                *)
speak(p, n, replace, interrupt) ==
  LET item == [id |-> p.next_id, chunks |-> n]
      s == [p EXCEPT !.next_id = @ + 1]
      t == IF replace THEN drop_queue(s) ELSE s
  IN IF n = 0 THEN [s EXCEPT !.ended = Append(@, item.id)]
     ELSE IF interrupt /\ t.current # None
     THEN start_next([end_current(t) EXCEPT !.queue = <<item>> \o @])
     ELSE IF t.current = None THEN start_next([t EXCEPT !.queue = Append(@, item)])
     ELSE [t EXCEPT !.queue = Append(@, item)]

move_to(p, to) == IF p.current = None THEN p ELSE [end_wait(p) EXCEPT !.chunk = to]

resume(p) == [p EXCEPT !.pause = "No"]
pause(p)  == IF p.current = None THEN p ELSE [p EXCEPT !.pause = "User"]

stop(p) == [drop_queue(end_current(p)) EXCEPT !.last = None, !.pause = "No"]

restart(p) ==
  IF p.current # None THEN move_to(p, 1)
  ELSE IF p.last = None THEN p
  ELSE start_next([p EXCEPT !.queue = <<[p.last EXCEPT !.id = p.next_id]>> \o @,
                            !.next_id = @ + 1, !.last = None])

next_chunk(p) ==
  IF p.current # None /\ p.chunk < p.current.chunks THEN move_to(p, p.chunk + 1)
  ELSE skip(p)
previous_chunk(p) == move_to(p, IF p.chunk > 1 THEN p.chunk - 1 ELSE 1)

Control == {"Play", "Pause", "Toggle", "Stop", "Skip", "Previous", "Next", "Restart"}

control(p, c) ==
  CASE c = "Play"     -> resume(p)
    [] c = "Pause"    -> pause(p)
    [] c = "Toggle"   -> IF p.pause = "No" THEN pause(p) ELSE resume(p)
    [] c = "Stop"     -> stop(p)
    [] c = "Skip"     -> skip(p)
    [] c = "Previous" -> previous_chunk(p)
    [] c = "Next"     -> next_chunk(p)
    [] c = "Restart"  -> restart(p)

(* The end of a chunk: the next one, perhaps after a step wait, or the end *)
(* of the item.                                                            *)
advance(p, wait) ==
  IF p.current # None /\ p.chunk < p.current.chunks
  THEN [p EXCEPT !.chunk = @ + 1, !.pause = IF wait /\ @ = "No" THEN "Step" ELSE @]
  ELSE skip(p)

-----------------------------------------------------------------------------
PlayerInit == player = [current |-> None, chunk |-> 0, queue |-> <<>>, last |-> None,
                        pause |-> "No", next_id |-> 1, ended |-> <<>>]

Returns(p) == player' = p

Advance == player.current # None /\ \E wait \in BOOLEAN : Returns(advance(Quiet, wait))

(* A line step inside the item, or past its last line.                     *)
LineStep == /\ player.current # None
            /\ \/ \E to \in 1..player.current.chunks : Returns(move_to(resume(Quiet), to))
               \/ Returns(skip(resume(Quiet)))

(* The other calls: settings (turning step mode off ends a wait), mute and *)
(* audio events that are late.                                             *)
Other == Returns(Quiet) \/ Returns(end_wait(Quiet))

PlayerNext ==
  \/ Other \/ Advance \/ LineStep
  \/ \E c \in Control : Returns(control(Quiet, c))
  \/ \E n \in Lengths, replace, interrupt \in BOOLEAN :
       Returns(speak(Quiet, n, replace, interrupt))

PlayerSpec == PlayerInit /\ [][PlayerNext]_player
=============================================================================
