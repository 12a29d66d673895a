---------------------------- MODULE ReaderWorker ----------------------------
(***************************************************************************)
(* The reader facade of sonara-reader: the worker thread that owns the     *)
(* reader (worker.rs), the synthesis thread (synth.rs) and the audio       *)
(* output's thread (sonara-audio), which meet in queues.                   *)
(*                                                                         *)
(* The worker takes one message at a time.  A message becomes a call of    *)
(* Reader; the effects the call leaves in reader.fx are then carried out   *)
(* one per step, so that the other threads run between any two of them.    *)
(* Failures found on the way wait in `pending` and are fed to the reader   *)
(* after the batch (`drain`).  The worker's inbox carries three streams    *)
(* that keep their own order but not each other's: the clients' requests   *)
(* (any request, at any time), the synthesizer's results (`done`) and the  *)
(* output's events (`events`, through the forwarder thread).               *)
(*                                                                         *)
(* Commands to the output are carried out as they are sent: the output     *)
(* answers only through `events`, so a command it reads late cannot be     *)
(* told from an event it sent early.  Audio is counted in pieces.  Voices, *)
(* the silence after code lines and the engine's status are left out.      *)
(***************************************************************************)
EXTENDS Reader, FiniteSets

CONSTANTS
  Controls,     \* the controls clients use in a model, a subset of Control
  Lookahead,    \* Engine::lookahead of the engine
  Streams,      \* Engine::streams of the engines a reader may have
  MaxParts,     \* bound: pieces of one chunk
  MaxCalls,     \* bound: controls and holds that clients send
  Shuts         \* whether the host shuts the reader down

ASSUME WorkerConstants ==
  /\ Controls \subseteq Control /\ Lookahead \in Depth
  /\ Streams \subseteq BOOLEAN /\ MaxParts \in Nat \ {0} /\ MaxCalls \in Nat

(* Option::None is no chunk, no wait and no open chunk, no hold, no result. *)
ASSUME WorkerNone ==
  /\ None \notin ChunkRef /\ None \notin {"on", "over", "Ok", "Err", "Cancelled"}
  /\ None \notin [p : ChunkRef, gen : Nat, paused : BOOLEAN]
  /\ None \notin [p : ChunkRef, gen : Nat]

VARIABLES
  worker,    \* the fields of Loop
  synth,     \* the synthesis thread and its queue
  output,    \* the output thread's Worker
  done,      \* Msg::Synthesized not yet handled
  events,    \* Msg::Audio not yet handled
  calls      \* how many controls and holds clients have sent

vars == <<reader, worker, synth, output, done, events, calls>>

-----------------------------------------------------------------------------
(* The audio slot of a chunk: Pending, Streaming or Ready(Ok or Err), and  *)
(* how many pieces it holds.                                               *)
Slot(st, n) == [st |-> st, n |-> n]
NoSlot == Slot("None", 0)

SlotOf(m, p) == IF p \in DOMAIN m.w.audio THEN m.w.audio[p] ELSE NoSlot
WithSlot(m, p, slot) ==
  [m EXCEPT !.w.audio = [q \in DOMAIN @ \cup {p} |->
                           IF q = p THEN slot ELSE @[q]]]
Loadable(m, p) == SlotOf(m, p).st \in {"Ok", "Err", "Streaming"}

Wait(p, gen, paused) == [p |-> p, gen |-> gen, paused |-> paused]

EmptyOutput == [gen |-> None, p |-> None, n |-> 0, open |-> FALSE,
                paused |-> FALSE, started |-> FALSE, ended |-> FALSE,
                volume |-> None]

(* The three threads' records, as one call of the worker changes them.     *)
Threads == [w |-> worker, s |-> synth, o |-> output]
Becomes(m) == worker' = m.w /\ synth' = m.s /\ output' = m.o

-----------------------------------------------------------------------------
(* Calls into the synthesis queue (synth.rs).                              *)

push_job(m, p) == [m EXCEPT !.s.tasks = Append(@, p)]

promote(m, p) ==
  LET t == m.s.tasks
      at == {k \in 1..Len(t) : t[k] = p}
      position == CHOOSE k \in at : \A j \in at : k <= j
  IN IF at = {} THEN m
     ELSE [m EXCEPT !.s.tasks = [k \in 1..Len(t) |->
                                   IF k = 1 THEN p ELSE IF k <= position THEN t[k - 1] ELSE t[k]]]

(* The entries of a queue at the places in K, in their order.              *)
retain(t, K) ==
  [i \in 1..Cardinality(K) |-> t[CHOOSE k \in K : Cardinality({j \in K : j <= k}) = i]]

drop_item(m, item) ==
  [m EXCEPT !.s.tasks = retain(@, {k \in 1..Len(@) : @[k][1] # item}),
            !.s.cancelled = @ \/ (m.s.job # None /\ m.s.job[1] = item)]

-----------------------------------------------------------------------------
(* Calls into the output (rodio_output.rs).                                *)

(* Fault: a streamed chunk is played as if it were whole.                  *)
output_play_closed(m, p, gen, n, open) ==
  [m EXCEPT !.o = [EmptyOutput EXCEPT !.gen = gen, !.p = p, !.n = n,
                                      !.volume = m.o.volume]]
(* Fault: the end of a streamed chunk is not passed on.                    *)
output_never_finish(m, gen) == m

output_play(m, p, gen, n, open) ==
  [m EXCEPT !.o = [EmptyOutput EXCEPT !.gen = gen, !.p = p, !.n = n,
                                      !.open = open, !.volume = m.o.volume]]
output_append(m, gen) == IF m.o.gen = gen THEN [m EXCEPT !.o.n = @ + 1] ELSE m
output_finish(m, gen) == IF m.o.gen = gen THEN [m EXCEPT !.o.open = FALSE] ELSE m
output_pause(m)  == IF m.o.gen # None THEN [m EXCEPT !.o.paused = TRUE] ELSE m
output_resume(m) == IF m.o.gen # None THEN [m EXCEPT !.o.paused = FALSE] ELSE m
output_stop(m)   == [m EXCEPT !.o = [EmptyOutput EXCEPT !.volume = m.o.volume]]
output_volume(m, v) == [m EXCEPT !.o.volume = v]

-----------------------------------------------------------------------------
(* The worker (worker.rs).  A hold is on, over (its time has passed, and   *)
(* nobody has looked yet), or None.                                        *)

load(m, p, gen) ==
  LET slot == SlotOf(m, p)
      kept == [m EXCEPT !.w.open = None, !.w.waiting = Wait(p, gen, FALSE)]
      m1 == [m EXCEPT !.w.open = None,
                      !.w.hold = IF p[2] = 1 THEN None ELSE @]
  IN CASE p[2] = 1 /\ m.w.hold = "on" ->
            IF slot.st = "Pending" THEN promote(kept, p) ELSE kept
       [] ~(p[2] = 1 /\ m.w.hold = "on") /\ slot.st = "Ok" ->
            output_play(m1, p, gen, slot.n, FALSE)
       [] ~(p[2] = 1 /\ m.w.hold = "on") /\ slot.st = "Streaming" ->
            output_play([m1 EXCEPT !.w.open = [p |-> p, gen |-> gen]],
                        p, gen, slot.n, TRUE)
       [] ~(p[2] = 1 /\ m.w.hold = "on") /\ slot.st = "Pending" ->
            promote([m1 EXCEPT !.w.waiting = Wait(p, gen, FALSE)], p)
       [] OTHER -> [m1 EXCEPT !.w.pending = Append(@, gen)]

(* `waiting.take()` followed by `load`.                                    *)
load_waiting(m) ==
  load([m EXCEPT !.w.waiting = None], m.w.waiting.p, m.w.waiting.gen)

(* The final phase of an item: its audio, its jobs and its open chunk go.  *)
item_ended(m, item) ==
  drop_item([m EXCEPT
    !.w.open = IF @ # None /\ @.p[1] = item THEN None ELSE @,
    !.w.audio = [p \in {q \in DOMAIN @ : q[1] # item} |-> @[p]]], item)

(* A new volume reaches the output unless it is muted.                     *)
set_level(m, v) ==
  LET s == [m EXCEPT !.w.volume = v]
  IN IF m.w.muted THEN s ELSE output_volume(s, v)

apply(m, f) ==
  CASE f.op = "Synthesize" ->
         push_job(WithSlot(m, <<f.item, f.chunk>>, Slot("Pending", 0)),
                  <<f.item, f.chunk>>)
    [] f.op = "PlayChunk" ->
         load([m EXCEPT !.w.waiting = None], <<f.item, f.chunk>>, f.gen)
    [] f.op = "PauseOutput" ->
         IF m.w.waiting # None THEN [m EXCEPT !.w.waiting.paused = TRUE]
         ELSE output_pause(m)
    [] f.op = "ResumeOutput" ->
         IF m.w.waiting = None THEN output_resume(m)
         ELSE IF Loadable(m, m.w.waiting.p) THEN load_waiting(m)
         ELSE [m EXCEPT !.w.waiting.paused = FALSE]
    [] f.op = "StopOutput" ->
         LET s == [m EXCEPT !.w.open = None, !.w.waiting = None]
         IN IF m.w.waiting = None THEN output_stop(s) ELSE s
    [] f.op = "Mute" -> output_volume([m EXCEPT !.w.muted = TRUE], 0)
    [] f.op = "Unmute" -> output_volume([m EXCEPT !.w.muted = FALSE], m.w.volume)
    [] f.op = "SetVolume" -> set_level(m, f.volume)
    [] f.op = "Item" /\ f.phase # "Started" -> item_ended(m, f.item)
    [] OTHER -> m

(* A piece of a chunk still being made.                                    *)
part(m, p) ==
  LET s == WithSlot(m, p, Slot("Streaming", SlotOf(m, p).n + 1))
      w == s.w.waiting
  IN CASE SlotOf(m, p).st \notin {"Pending", "Streaming"} -> m
       [] SlotOf(m, p).st \in {"Pending", "Streaming"} ->
            IF s.w.open # None /\ s.w.open.p = p THEN output_append(s, s.w.open.gen)
            ELSE IF w # None /\ w.p = p /\ ~w.paused THEN load_waiting(s)
            ELSE s

(* The whole chunk, or why there is none.                                  *)
synthesized(m, p, ok, n) ==
  LET s == WithSlot(m, p, Slot(IF ok THEN "Ok" ELSE "Err", n))
      w == s.w.waiting
      open == s.w.open # None /\ s.w.open.p = p
  IN IF SlotOf(m, p).st \notin {"Pending", "Streaming"} THEN m
     ELSE IF open THEN output_finish([s EXCEPT !.w.open = None], s.w.open.gen)
     ELSE IF w # None /\ w.p = p /\ ~(w.paused /\ ok) THEN load_waiting(s)
     ELSE s

(* Fault: the hold ends and the chunk it kept stays where it is.           *)
release_hold_only(m) == [m EXCEPT !.w.hold = None]

release_hold(m) ==
  LET s == [m EXCEPT !.w.hold = None]
      w == s.w.waiting
  IN IF w # None /\ ~w.paused /\ Loadable(s, w.p) THEN load_waiting(s) ELSE s

-----------------------------------------------------------------------------
WorkerInit ==
  /\ \E v \in Volumes, x \in Rates, voice \in Voices :
       /\ reader = [new(v, x, voice) EXCEPT !.lookahead = Lookahead]
       /\ output = [EmptyOutput EXCEPT !.volume = v]
       /\ worker = [audio |-> <<>>, waiting |-> None, open |-> None,
                    pending |-> <<>>, hold |-> None, volume |-> v,
                    muted |-> FALSE, phase |-> "running"]
  /\ \E streams \in Streams :
       synth = [tasks |-> <<>>, job |-> None, cancelled |-> FALSE, made |-> 0,
                result |-> None, closed |-> FALSE, exited |-> FALSE,
                streams |-> streams]
  /\ done = <<>> /\ events = <<>> /\ calls = 0

(* Between two messages.                                                   *)
Quiet == reader.fx = <<>> /\ worker.pending = <<>>
Ready == Quiet /\ worker.phase = "running"

Asks(r) == /\ Ready
           /\ reader' = r
           /\ UNCHANGED <<worker, synth, output, done, events>>
Spends == calls < MaxCalls /\ calls' = calls + 1

ClientSpeak(text, replace, interrupt) ==
  /\ reader.next_id <= MaxItems
  /\ Asks(speak(reader, text, replace, interrupt))
  /\ UNCHANGED calls

ClientControl(c) ==
  /\ c = "Restart" => reader.next_id <= MaxItems
  /\ Asks(control(reader, c))
  /\ Spends

ClientVolume(v) == Asks(set_volume(reader, v)) /\ Spends

ClientCodeStep(on) == Asks(set_code_step(reader, on)) /\ Spends

(* `HoldStart`: no item's first chunk starts before a time.                *)
ClientHold == /\ Ready
              /\ worker' = [worker EXCEPT !.hold = "on"]
              /\ Spends
              /\ UNCHANGED <<reader, synth, output, done, events>>

-----------------------------------------------------------------------------
(* The worker thread.                                                      *)

Apply ==
  /\ reader.fx # <<>>
  /\ Becomes(apply(Threads, Head(reader.fx)))
  /\ reader' = [reader EXCEPT !.fx = Tail(@)]
  /\ UNCHANGED <<done, events, calls>>

Drain ==
  /\ reader.fx = <<>> /\ worker.pending # <<>>
  /\ reader' = on_audio(reader, "Failed", Head(worker.pending))
  /\ worker' = [worker EXCEPT !.pending = Tail(@)]
  /\ UNCHANGED <<synth, output, done, events, calls>>

HandleAudio ==
  /\ Ready /\ events # <<>>
  /\ reader' = on_audio(reader, Head(events).e, Head(events).gen)
  /\ events' = Tail(events)
  /\ UNCHANGED <<worker, synth, output, done, calls>>

HandleDone ==
  /\ Ready /\ done # <<>>
  /\ LET d == Head(done)
     IN Becomes(IF d.result = "Part" THEN part(Threads, d.p)
                ELSE synthesized(Threads, d.p, d.result = "Ok", d.n))
  /\ done' = Tail(done)
  /\ UNCHANGED <<reader, events, calls>>

(* After a message or a timeout: a hold whose time has passed is lifted.   *)
ReleaseHold ==
  /\ Ready /\ worker.hold = "over"
  /\ Becomes(release_hold(Threads))
  /\ UNCHANGED <<reader, done, events, calls>>

(* Shutdown: Stop, then the synthesizer is closed and joined.              *)
Shutdown ==
  /\ Shuts /\ Ready
  /\ reader' = control(reader, "Stop")
  /\ worker' = [worker EXCEPT !.phase = "closing"]
  /\ UNCHANGED <<synth, output, done, events, calls>>

(* Fault: shutdown cancels the job in flight and does not close the queue. *)
CancelSynth ==
  /\ Quiet /\ worker.phase = "closing"
  /\ worker' = [worker EXCEPT !.phase = "joining"]
  /\ synth' = [synth EXCEPT !.tasks = <<>>, !.cancelled = @ \/ synth.job # None]
  /\ UNCHANGED <<reader, output, done, events, calls>>

CloseSynth ==
  /\ Quiet /\ worker.phase = "closing"
  /\ worker' = [worker EXCEPT !.phase = "joining"]
  /\ synth' = [synth EXCEPT !.closed = TRUE, !.tasks = <<>>,
                            !.cancelled = @ \/ synth.job # None]
  /\ UNCHANGED <<reader, output, done, events, calls>>

(* The output is dropped with the worker: its thread ends.                 *)
Joined ==
  /\ worker.phase = "joining" /\ synth.exited
  /\ worker' = [worker EXCEPT !.phase = "closed"]
  /\ output' = [EmptyOutput EXCEPT !.volume = output.volume]
  /\ UNCHANGED <<reader, synth, done, events, calls>>

Closed == worker.phase = "closed" /\ UNCHANGED vars

-----------------------------------------------------------------------------
(* The synthesis thread.                                                   *)

(* Pop a job and begin it, under the queue's lock: `begin` makes the       *)
(* engine forget any earlier cancel.                                       *)
begin(s, p) == [s EXCEPT !.job = p, !.cancelled = FALSE]

SynthBegin ==
  /\ synth.job = None /\ ~synth.closed /\ synth.tasks # <<>>
  /\ synth' = [begin(synth, Head(synth.tasks)) EXCEPT
                 !.tasks = Tail(@), !.made = 0, !.result = None]
  /\ UNCHANGED <<reader, worker, output, done, events, calls>>

(* The thread's loop returns once the queue is closed.                     *)
SynthExit ==
  /\ synth.job = None /\ synth.closed /\ ~synth.exited
  /\ synth' = [synth EXCEPT !.exited = TRUE]
  /\ UNCHANGED <<reader, worker, output, done, events, calls>>

SynthPart ==
  /\ synth.streams
  /\ synth.job # None /\ synth.result = None /\ synth.made < MaxParts
  /\ synth' = [synth EXCEPT !.made = @ + 1]
  /\ done' = Append(done, [p |-> synth.job, result |-> "Part", n |-> 1])
  /\ UNCHANGED <<reader, worker, output, events, calls>>

(* The engine returns: the audio (also after a failure that followed some  *)
(* of it), an error or a panic, or Cancelled once a cancel came.           *)
SynthReturn == \E result \in {"Ok", "Err", "Cancelled"} :
  /\ synth.job # None /\ synth.result = None
  /\ result = "Cancelled" => synth.cancelled
  /\ synth' = [synth EXCEPT !.result = result,
                            !.made = IF result # "Ok" THEN 0
                                     ELSE IF synth.streams THEN @ ELSE 1]
  /\ UNCHANGED <<reader, worker, output, done, events, calls>>

(* in_flight is cleared, and the result goes to the inbox.                 *)
SynthDeliver ==
  /\ synth.job # None /\ synth.result # None
  /\ done' = Append(done, [p |-> synth.job, result |-> synth.result,
                           n |-> synth.made])
  /\ synth' = [synth EXCEPT !.job = None, !.result = None, !.made = 0]
  /\ UNCHANGED <<reader, worker, output, events, calls>>

-----------------------------------------------------------------------------
(* The output thread and its device.                                       *)

Reports(e) == events' = Append(events, [e |-> e, gen |-> output.gen])

OutputStarted ==
  /\ output.gen # None /\ ~output.paused /\ ~output.started
  /\ output' = [output EXCEPT !.started = TRUE]
  /\ Reports("ChunkStarted")
  /\ UNCHANGED <<reader, worker, synth, done, calls>>

(* An open chunk finishes only after its Finish.                           *)
OutputFinished ==
  /\ output.gen # None /\ ~output.paused /\ output.started /\ ~output.ended
  /\ ~output.open
  /\ output' = [output EXCEPT !.ended = TRUE]
  /\ Reports("ChunkFinished")
  /\ UNCHANGED <<reader, worker, synth, done, calls>>

(* The device could not be opened, or was lost.                            *)
DeviceLost ==
  /\ output.gen # None
  /\ output' = [EmptyOutput EXCEPT !.volume = output.volume]
  /\ Reports("Failed")
  /\ UNCHANGED <<reader, worker, synth, done, calls>>

(* The clock passes the time of the hold.                                  *)
HoldOver ==
  /\ worker.hold = "on"
  /\ worker' = [worker EXCEPT !.hold = "over"]
  /\ UNCHANGED <<reader, synth, output, done, events, calls>>

-----------------------------------------------------------------------------
Clients ==
  \/ \E text \in Texts, replace, interrupt \in BOOLEAN :
       ClientSpeak(text, replace, interrupt)
  \/ \E c \in Controls : ClientControl(c)
  \/ \E v \in Volumes : ClientVolume(v)
  \/ \E on \in BOOLEAN : ClientCodeStep(on)
  \/ ClientHold
Worker  == Apply \/ Drain \/ HandleAudio \/ HandleDone \/ ReleaseHold \/ CloseSynth \/ Joined
Synth   == SynthBegin \/ SynthExit \/ SynthPart \/ SynthReturn \/ SynthDeliver
Device  == OutputStarted \/ OutputFinished

WorkerNext ==
  Clients \/ Worker \/ Shutdown \/ Closed \/ Synth \/ Device \/ DeviceLost \/ HoldOver

(* Each thread keeps running: the worker takes what its inbox holds, the   *)
(* engine returns, the device plays and time passes.  Nothing is assumed   *)
(* of clients or of device loss.  Each condition is WF_vars of the action, *)
(* with ENABLED spelled out as the thread's reason to run.                 *)
WorkerBusy == \/ ~Quiet
              \/ /\ worker.phase = "running"
                 /\ events # <<>> \/ done # <<>> \/ worker.hold = "over"
              \/ worker.phase = "closing"
              \/ worker.phase = "joining" /\ synth.exited
SynthBusy  == \/ synth.job # None
              \/ ~synth.closed /\ synth.tasks # <<>>
              \/ synth.closed /\ ~synth.exited
DeviceBusy == /\ output.gen # None /\ ~output.paused
              /\ ~output.started \/ (~output.ended /\ ~output.open)

Fairness ==
  /\ <>[]WorkerBusy => []<><<Worker>>_vars
  /\ <>[]SynthBusy  => []<><<Synth>>_vars
  /\ <>[]DeviceBusy => []<><<Device>>_vars
  /\ <>[](worker.hold = "on") => []<><<HoldOver>>_vars

WorkerSpec == WorkerInit /\ [][WorkerNext]_vars /\ Fairness

-----------------------------------------------------------------------------
(* Properties.                                                             *)

Coming(p) == \/ \E k \in 1..Len(synth.tasks) : synth.tasks[k] = p
             \/ synth.job = p
             \/ \E k \in 1..Len(done) : done[k].p = p /\ done[k].result # "Part"

Ending(g) == \E k \in 1..Len(events) : events[k].gen = g /\ events[k].e # "ChunkStarted"

(* Between two messages, a chunk the reader believes loaded is on its way: *)
(* its end is in the inbox, or the output holds it (and will be told when  *)
(* a streamed chunk is complete), or it waits for audio that is being made *)
(* or for a hold to end.  Otherwise the reader would wait for ever.        *)
NoLostPlay ==
  Ready /\ reader.loaded # None =>
    LET g == reader.loaded
        p == <<reader.current.item.id, reader.current.chunk>>
        w == worker.waiting
    IN \/ Ending(g)
       \/ /\ output.gen = g /\ output.p = p /\ ~output.ended
          /\ output.open => worker.open = [p |-> p, gen |-> g] /\ Coming(p)
       \/ /\ w # None /\ w.gen = g /\ w.p = p /\ (w.paused => reader.paused)
          /\ IF Loadable(Threads, p) THEN worker.hold # None \/ reader.paused
             ELSE Coming(p)

(* While the reader is paused or idle nothing sounds, whatever was on its  *)
(* way when it paused; while it plays, the output is never left paused.    *)
PauseIsSilent ==
  Ready /\ output.gen # None /\ ~output.ended =>
    /\ reader.loaded = output.gen \/ Ending(output.gen)
    /\ output.paused = reader.paused \/ Ending(output.gen)

(* The worker keeps audio of exactly the chunks that the reader asked for  *)
(* and still wants, and what is not there yet is being made: no result of  *)
(* an ended item comes back to life, no wanted one is dropped.             *)
AudioFollows ==
  /\ Quiet => DOMAIN worker.audio = reader.requested
  /\ Ready => \A p \in DOMAIN worker.audio :
               worker.audio[p].st \in {"Pending", "Streaming"} => Coming(p)

(* A chunk that has ended on its own played every piece that was made.     *)
NothingCutShort ==
  Ready /\ output.ended /\ reader.loaded = output.gen =>
    SlotOf(Threads, output.p).st \in {"Ok", "Err"}
      /\ output.n >= SlotOf(Threads, output.p).n

(* No chunk of a live item is lost to a cancel meant for another: a        *)
(* Cancelled result belongs to an item that ended.                         *)
CancelHitsEndedItems ==
  Ready => \A k \in 1..Len(done) :
    done[k].result = "Cancelled" => done[k].p \notin DOMAIN worker.audio

(* The audio follows the reader through pauses, late parts, cancels and    *)
(* ends, on three threads (worker.rs load, part and item_ended, synth.rs   *)
(* drop_item, output.rs).                                                  *)
AudioInStep == PauseIsSilent /\ AudioFollows /\ NothingCutShort /\ CancelHitsEndedItems

(* Every item that was accepted ends, read or skipped, however its audio   *)
(* arrives or fails, unless someone leaves the reader paused.              *)
Unended(id) == \/ reader.current # None /\ reader.current.item.id = id
               \/ \E k \in 1..Len(reader.queue) : reader.queue[k].id = id
ItemEnds == \A id \in 1..MaxItems : Unended(id) ~> ~Unended(id) \/ reader.paused

(* Shutdown ends: the worker stops speech and joins the synthesizer.       *)
ShutdownEnds == worker.phase = "closing" ~> worker.phase = "closed"

(* The reader's threads end what they begin: every item, unless someone    *)
(* leaves the reader paused, and a shutdown (worker.rs, synth.rs).         *)
WorkEnds == ItemEnds /\ ShutdownEnds
=============================================================================
