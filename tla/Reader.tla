------------------------------- MODULE Reader -------------------------------
(***************************************************************************)
(* The layer 1 reader state machine of sonara-core (reader/mod.rs): one    *)
(* queue of items, playback controls, the step mode for code, prefetch and *)
(* the effects every call hands to the host.                               *)
(*                                                                         *)
(* The Rust type is pure: each public method changes the struct and        *)
(* returns a list of effects.  Here the struct is one record `r`, each     *)
(* method (and each private helper) is an operator of the same name that   *)
(* maps a record to a record, and the field `fx` collects the effects of   *)
(* the call under way, in order.  A step of the specification is one call  *)
(* of a public method.                                                     *)
(*                                                                         *)
(* Data: a chunk of text is its CodeKind, the only thing the reader asks   *)
(* about it; label and text follow from the item's id, so they are left    *)
(* out, and so is `seq`, which counts the State effects.  Chunks are       *)
(* numbered from 1 here and from 0 in the code.                            *)
(***************************************************************************)
EXTENDS Integers, Sequences

CONSTANTS
  None,        \* Option::None
  Texts,       \* the texts clients send: for each way of chunking, the kinds
  Volumes, Rates, Voices,
  MaxItems,    \* bound: ids handed out
  MaxGen       \* bound: PlayChunk effects

-----------------------------------------------------------------------------
Kind     == {"Prose", "Start", "Line"}
Chunking == {"Sentences", "Message"}
Phase    == {"Started", "Finished", "Skipped", "Failed"}
MAX_LOOKAHEAD == 4

ItemId  == Nat \ {0}
Item    == [id : ItemId, chunks : Seq(Kind) \ {<<>>}]
ChunkRef == ItemId \X (Nat \ {0})   \* an item and one of its chunks
Current == [item : Item, chunk : Nat \ {0}, played_any : BOOLEAN]

(* What a State event shows.  `now` is the item, the chunk and the code    *)
(* flag of NowPlaying.                                                     *)
State == [now : [id : ItemId, chunk : Nat \ {0}, code : BOOLEAN] \cup {None},
          queued : Nat, paused : BOOLEAN, stepping : BOOLEAN,
          muted : BOOLEAN, volume : Volumes, rate : Rates, voice : Voices]

Effect ==
       [op : {"Synthesize"}, item : ItemId, chunk : Nat \ {0}]
  \cup [op : {"PlayChunk"}, item : ItemId, chunk : Nat \ {0}, gen : Nat \ {0}]
  \cup [op : {"PauseOutput", "ResumeOutput", "StopOutput", "Mute", "Unmute"}]
  \cup [op : {"SetVolume"}, volume : Volumes]
  \cup [op : {"Item"}, item : ItemId, phase : Phase]
  \cup [op : {"State"}, state : State]

Control == {"Play", "Pause", "Toggle", "Stop", "Skip", "Previous", "Next",
            "Restart", "Mute", "Unmute", "NextLine", "PreviousLine"}

AudioEvent == {"ChunkStarted", "ChunkFinished", "Failed"}

ASSUME ReaderConstants ==
  /\ Texts \subseteq [Chunking -> Seq(Kind)]
  /\ MaxItems \in Nat /\ MaxGen \in Nat
  /\ None \notin Current /\ None \notin Item /\ None \notin Nat

VARIABLE reader

Queue    == Seq(Item)
Effects  == Seq(Effect)
Requests == SUBSET ChunkRef
Depth    == 1..MAX_LOOKAHEAD

ReaderType ==
  [next_id : ItemId, gen : Nat,
   current : Current \cup {None}, queue : Queue, last : Item \cup {None},
   paused : BOOLEAN, loaded : (Nat \ {0}) \cup {None}, muted : BOOLEAN,
   volume : Volumes, rate : Rates, voice : Voices, requested : Requests,
   lookahead : Depth, chunking : Chunking, code_step : BOOLEAN,
   released : BOOLEAN, step_wait : BOOLEAN, shown : State, fx : Effects]

-----------------------------------------------------------------------------
(* State shown to clients.                                                 *)

emit(r, e) == [r EXCEPT !.fx = Append(@, e)]
emit_item(r, id, phase) == emit(r, [op |-> "Item", item |-> id, phase |-> phase])

kind_at(r, i) ==
  IF r.current # None /\ i \in 1..Len(r.current.item.chunks)
  THEN r.current.item.chunks[i] ELSE "Prose"

in_code(r) ==
  \/ r.step_wait
  \/ r.current # None /\ r.current.item.chunks[r.current.chunk] # "Prose"

snapshot(r) ==
  [now |-> IF r.current = None THEN None
           ELSE [id |-> r.current.item.id, chunk |-> r.current.chunk,
                 code |-> in_code(r)],
   queued |-> Len(r.queue), paused |-> r.paused, stepping |-> r.step_wait,
   muted |-> r.muted, volume |-> r.volume, rate |-> r.rate, voice |-> r.voice]

-----------------------------------------------------------------------------
(* Requests for synthesis.                                                 *)

request(r, item, chunk) ==
  IF <<item, chunk>> \in r.requested THEN r
  ELSE emit([r EXCEPT !.requested = @ \cup {<<item, chunk>>}],
            [op |-> "Synthesize", item |-> item, chunk |-> chunk])

(* A position in play order: queue place q (0 is the current item), chunk. *)
ItemAt(r, q) == IF q = 0 THEN r.current.item ELSE r.queue[q]

After(r, p) ==
  IF p[1] > Len(r.queue) THEN p
  ELSE IF p[2] < Len(ItemAt(r, p[1]).chunks) THEN <<p[1], p[2] + 1>>
  ELSE <<p[1] + 1, 1>>

(* The n-th of the `lookahead` chunks after the playing one.               *)
request_ahead(r, n, p) ==
  IF n <= r.lookahead /\ p[1] <= Len(r.queue)
  THEN request(r, ItemAt(r, p[1]).id, p[2]) ELSE r

prefetch(r) ==
  IF r.loaded = None \/ r.current = None THEN r
  ELSE LET p1 == After(r, <<0, r.current.chunk>>)
           p2 == After(r, p1)
           p3 == After(r, p2)
           p4 == After(r, p3)
       IN request_ahead(request_ahead(request_ahead(request_ahead(
            r, 1, p1), 2, p2), 3, p3), 4, p4)

finish(r) ==
  LET s == prefetch(r)
      next == snapshot(s)
  IN IF next = s.shown THEN s
     ELSE emit([s EXCEPT !.shown = next], [op |-> "State", state |-> next])

-----------------------------------------------------------------------------
(* Transitions of the playing item.                                        *)

begin_chunk(r) ==
  IF r.current = None THEN r
  ELSE LET id == r.current.item.id
           s  == request(r, id, r.current.chunk)
       IN IF s.paused THEN s
          ELSE emit([s EXCEPT !.gen = @ + 1, !.loaded = s.gen + 1],
                    [op |-> "PlayChunk", item |-> id,
                     chunk |-> r.current.chunk, gen |-> s.gen + 1])

stop_output(r) ==
  IF r.loaded = None THEN r
  ELSE emit([r EXCEPT !.loaded = None], [op |-> "StopOutput"])

(* Fault: an item ends and its chunks stay requested.                      *)
forget_requests(r, id, phase) == emit_item(r, id, phase)

forget(r, id, phase) ==
  emit_item([r EXCEPT !.requested = {p \in @ : p[1] # id}], id, phase)

(* `while let Some(dropped) = queue.pop_front() { forget(Skipped) }`       *)
drop_queue(r) ==
  [r EXCEPT
     !.queue = <<>>,
     !.requested = {p \in @ : \A k \in 1..Len(r.queue) : r.queue[k].id # p[1]},
     !.fx = @ \o [k \in 1..Len(r.queue) |->
                    [op |-> "Item", item |-> r.queue[k].id, phase |-> "Skipped"]]]

end_current(r, phase) ==
  LET s == stop_output(r)
  IN IF s.current = None THEN s
     ELSE forget([s EXCEPT !.current = None, !.last = s.current.item],
                 s.current.item.id, phase)

(* Fault: a step wait outlives the chunk it waits at.                      *)
end_wait_never(r) == r

end_wait(r) ==
  IF r.step_wait THEN [r EXCEPT !.step_wait = FALSE, !.paused = FALSE] ELSE r

start_next(r) ==
  LET s == end_wait(r)
  IN IF s.queue = <<>> THEN [s EXCEPT !.paused = FALSE]
     ELSE LET item == Head(s.queue)
              t == emit_item([s EXCEPT !.queue = Tail(@), !.released = FALSE],
                             item.id, "Started")
          IN begin_chunk([t EXCEPT !.current =
               [item |-> item, chunk |-> 1, played_any |-> FALSE]])

skip(r) == start_next(end_current(r, "Skipped"))

move_to(r, to) ==
  LET s == stop_output(end_wait(r))
      t == IF s.current = None THEN s ELSE [s EXCEPT !.current.chunk = to]
  IN begin_chunk([t EXCEPT !.released = @ /\ kind_at(t, to) = "Line"])

(* Step mode waits at the next line after a block's announcement, and      *)
(* after every line.                                                       *)
waits(done, next) == \/ done = "Start" /\ next = "Line"
                     \/ done = "Line"

advance(r) ==
  IF r.current = None THEN r
  ELSE LET at == r.current.chunk
       IN IF at < Len(r.current.item.chunks)
          THEN LET done == kind_at(r, at)
                   next == kind_at(r, at + 1)
                   wait == r.code_step /\ ~r.released /\ waits(done, next)
                             /\ ~r.paused
               IN begin_chunk(
                    [r EXCEPT !.current.chunk = at + 1,
                              !.released = @ /\ next = "Line",
                              !.paused = @ \/ wait,
                              !.step_wait = @ \/ wait])
          ELSE start_next(end_current(r,
                 IF r.current.played_any THEN "Finished" ELSE "Failed"))

-----------------------------------------------------------------------------
(* Controls.                                                               *)

pause(r) ==
  LET s == [r EXCEPT !.step_wait = FALSE]
  IN IF s.current = None \/ s.paused THEN s
     ELSE LET t == [s EXCEPT !.paused = TRUE]
          IN IF t.loaded # None THEN emit(t, [op |-> "PauseOutput"]) ELSE t

resume(r) ==
  LET s == [r EXCEPT !.paused = FALSE, !.step_wait = FALSE]
  IN IF s.loaded # None THEN emit(s, [op |-> "ResumeOutput"])
     ELSE begin_chunk(s)

release_code(r) == IF r.step_wait THEN [r EXCEPT !.released = TRUE] ELSE r

stop(r) ==
  IF r.current = None /\ r.queue = <<>> THEN [r EXCEPT !.last = None]
  ELSE LET s == drop_queue(end_current(r, "Skipped"))
       IN [s EXCEPT !.last = None, !.paused = FALSE, !.step_wait = FALSE]

(* The chunk a line step goes to, possibly one past the end of the item.   *)
line_target(r, next) ==
  LET at == r.current.chunk
      waiting == r.paused /\ r.loaded = None
  IN IF next THEN (IF waiting THEN at ELSE at + 1)
     ELSE IF at > 1 /\ kind_at(r, at - 1) = "Line" THEN at - 1
     ELSE at

line_step(r, next) ==
  IF r.current = None \/ ~in_code(r) THEN r
  ELSE LET to == line_target(r, next)
           s == [r EXCEPT !.paused = FALSE, !.step_wait = FALSE,
                          !.released = FALSE]
       IN IF to > Len(r.current.item.chunks) THEN skip(s) ELSE move_to(s, to)

restart(r) ==
  CASE r.current # None -> move_to(r, 1)
    [] r.current = None /\ r.last # None ->
         start_next([r EXCEPT
           !.queue = <<[r.last EXCEPT !.id = r.next_id]>> \o @,
           !.next_id = @ + 1, !.last = None])
    [] OTHER -> r

next_chunk(r) ==
  IF r.current = None THEN r
  ELSE IF r.current.chunk < Len(r.current.item.chunks)
       THEN move_to(r, r.current.chunk + 1) ELSE skip(r)

previous_chunk(r) ==
  IF r.current = None THEN r
  ELSE move_to(r, IF r.current.chunk > 1 THEN r.current.chunk - 1 ELSE 1)

play(r) == IF r.paused THEN resume(release_code(r)) ELSE r

mute(r)   == IF r.muted THEN r
             ELSE emit([r EXCEPT !.muted = TRUE], [op |-> "Mute"])
unmute(r) == IF ~r.muted THEN r
             ELSE emit([r EXCEPT !.muted = FALSE], [op |-> "Unmute"])

control(r, c) == finish(
  CASE c = "Play"         -> play(r)
    [] c = "Pause"        -> pause(r)
    [] c = "Toggle"       -> IF r.paused THEN play(r) ELSE pause(r)
    [] c = "Stop"         -> stop(r)
    [] c = "Skip"         -> IF r.current # None THEN skip(r) ELSE r
    [] c = "Previous"     -> previous_chunk(r)
    [] c = "Next"         -> next_chunk(r)
    [] c = "Restart"      -> restart(r)
    [] c = "Mute"         -> mute(r)
    [] c = "Unmute"       -> unmute(r)
    [] c = "NextLine"     -> line_step(r, TRUE)
    [] c = "PreviousLine" -> line_step(r, FALSE))

-----------------------------------------------------------------------------
(* The other public methods.                                               *)

speak(r, text, replace, interrupt) ==
  LET id == r.next_id
      chunks == text[r.chunking]
      item == [id |-> id, chunks |-> chunks]
      s == [r EXCEPT !.next_id = @ + 1]
      t == IF replace THEN drop_queue(s) ELSE s
      cut == end_current(t, "Skipped")
      queued == [t EXCEPT !.queue = Append(@, item)]
  IN CASE chunks = <<>> -> emit_item(s, id, "Skipped")
       [] chunks # <<>> /\ interrupt /\ t.current # None ->
            finish(start_next([cut EXCEPT !.queue = <<item>> \o @]))
       [] OTHER ->
            finish(IF t.current = None THEN start_next(queued) ELSE queued)

on_audio(r, e, gen) ==
  IF r.loaded # gen THEN r
  ELSE LET s == IF e # "Failed" /\ r.current # None
                THEN [r EXCEPT !.current.played_any = TRUE] ELSE r
       IN finish(IF e = "ChunkStarted" THEN s
                 ELSE advance([s EXCEPT !.loaded = None]))

set_code_step(r, on) ==
  LET s == [r EXCEPT !.code_step = on]
  IN finish(IF ~on /\ s.step_wait THEN resume(s) ELSE s)

(* Fault: a new volume is not shown.                                       *)
set_volume_unseen(r, v) ==
  IF v = r.volume THEN r
  ELSE emit([r EXCEPT !.volume = v], [op |-> "SetVolume", volume |-> v])

set_volume(r, v) ==
  finish(IF v = r.volume THEN r
         ELSE emit([r EXCEPT !.volume = v], [op |-> "SetVolume", volume |-> v]))

set_rate(r, x)      == finish([r EXCEPT !.rate = x])
set_voice(r, v)     == finish([r EXCEPT !.voice = v])

(* Fault: the engine's wish is taken as it comes.                          *)
set_lookahead_any(r, n) == finish([r EXCEPT !.lookahead = n])

set_lookahead(r, n) == finish([r EXCEPT !.lookahead =
                         IF n < 1 THEN 1
                         ELSE IF n > MAX_LOOKAHEAD THEN MAX_LOOKAHEAD ELSE n])
set_chunking(r, c)  == finish([r EXCEPT !.chunking = c])

-----------------------------------------------------------------------------
(* The specification: any sequence of calls, and any audio event about any *)
(* gen ever handed out, once or several times.                             *)

new(volume, rate, voice) ==
           [next_id |-> 1, gen |-> 0, current |-> None, queue |-> <<>>,
            last |-> None, paused |-> FALSE, loaded |-> None,
            muted |-> FALSE, volume |-> volume, rate |-> rate, voice |-> voice,
            requested |-> {}, lookahead |-> 1, chunking |-> "Sentences",
            code_step |-> FALSE, released |-> FALSE, step_wait |-> FALSE,
            fx |-> <<>>,
            shown |-> [now |-> None, queued |-> 0, paused |-> FALSE,
                       stepping |-> FALSE, muted |-> FALSE, volume |-> volume,
                       rate |-> rate, voice |-> voice]]

Init == \E volume \in Volumes, rate \in Rates, voice \in Voices :
          reader = new(volume, rate, voice)

(* A call starts with no effects; the bounds cap the two counters.         *)
Called == [reader EXCEPT !.fx = <<>>]
Within(r) == r.gen <= MaxGen /\ r.next_id <= MaxItems + 1
Returns(r) == Within(r) /\ reader' = r

Speak(text, replace, interrupt) == Returns(speak(Called, text, replace, interrupt))
DoControl(c)      == Returns(control(Called, c))
OnAudio(e, gen)   == Returns(on_audio(Called, e, gen))
SetCodeStep(on)   == Returns(set_code_step(Called, on))
SetVolume(v)      == Returns(set_volume(Called, v))
SetRate(x)        == Returns(set_rate(Called, x))
SetVoice(v)       == Returns(set_voice(Called, v))
SetLookahead(n)   == Returns(set_lookahead(Called, n))
SetChunking(c)    == Returns(set_chunking(Called, c))

Settings ==
  \/ \E on \in BOOLEAN : SetCodeStep(on)
  \/ \E v \in Volumes : SetVolume(v)
  \/ \E x \in Rates : SetRate(x)
  \/ \E v \in Voices : SetVoice(v)
  \/ \E n \in 0..(MAX_LOOKAHEAD + 1) : SetLookahead(n)
  \/ \E c \in Chunking : SetChunking(c)

Next ==
  \/ \E text \in Texts, replace, interrupt \in BOOLEAN :
       Speak(text, replace, interrupt)
  \/ \E c \in Control : DoControl(c)
  \/ \E e \in AudioEvent, gen \in 1..MaxGen : gen <= reader.gen /\ OnAudio(e, gen)
  \/ Settings

Spec == Init /\ [][Next]_reader

-----------------------------------------------------------------------------
(* Properties of every state between two calls.                            *)

(* p is an item and chunk pair of an item alive: current or queued.        *)
IsAlive(r, p) ==
  \/ /\ r.current # None
     /\ p[1] = r.current.item.id
     /\ p[2] \in 1..Len(r.current.item.chunks)
  \/ \E k \in 1..Len(r.queue) : /\ p[1] = r.queue[k].id
                                /\ p[2] \in 1..Len(r.queue[k].chunks)

(* The current chunk is one of the item's.                                 *)
InRange(r) == r.current # None => r.current.chunk <= Len(r.current.item.chunks)

(* "The reader is never paused with nothing to read", and an idle reader   *)
(* has nothing queued and nothing in the output.                           *)
IdleOK(r) == r.current = None => /\ ~r.paused /\ ~r.step_wait
                                 /\ r.loaded = None /\ r.queue = <<>>

(* No silent stall: an item that is not paused has a chunk in the output.  *)
PlayingOK(r) == r.current # None /\ ~r.paused => r.loaded # None

(* A step wait is a pause at a line that is not in the output.             *)
StepWaitOK(r) == r.step_wait => r.current # None /\ r.paused /\ r.loaded = None

(* What is loaded is the newest play, so an event with any older gen is    *)
(* stale, and it was requested from the engine.                            *)
LoadedOK(r) == r.loaded # None =>
                 /\ r.loaded = r.gen
                 /\ r.current # None
                 /\ <<r.current.item.id, r.current.chunk>> \in r.requested

(* Only chunks of live items stay requested: no audio is kept for an item  *)
(* that ended, and an id is never reused by a later item.                  *)
RequestedOK(r) == \A p \in r.requested : IsAlive(r, p)

IdsOK(r) ==
  /\ r.current # None => r.current.item.id < r.next_id
  /\ \A k \in 1..Len(r.queue) :
       /\ r.queue[k].id < r.next_id
       /\ r.current # None => r.queue[k].id # r.current.item.id
       /\ \A j \in 1..Len(r.queue) : j # k => r.queue[j].id # r.queue[k].id

(* What clients were last shown is what the reader is.                     *)
ShownOK(r) == r.shown = snapshot(r)

ReaderOK(r) == /\ InRange(r) /\ IdleOK(r) /\ PlayingOK(r) /\ StepWaitOK(r)
               /\ LoadedOK(r) /\ RequestedOK(r) /\ IdsOK(r)

(* The record has its type.                                                *)
TypeOK    == reader \in ReaderType

(* The conjunction above: what every call relies on when it starts.        *)
ReaderInv == ReaderOK(reader)

(* Clients are never left with a stale view of the reader.                 *)
ShownInv  == ShownOK(reader)
=============================================================================
