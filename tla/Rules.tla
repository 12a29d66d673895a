------------------------------- MODULE Rules --------------------------------
(***************************************************************************)
(* The rules of the agent layer (sonara-agent rules.rs): turns, streamed   *)
(* prose, decisions, question sets, mute and summaries.                    *)
(*                                                                         *)
(* The rules are pure.  Every input takes the state `r` to the next one,   *)
(* with the actions for the driver (Agent) in `r.out`: text to speak or    *)
(* to store, wipes, summarizer jobs and timers.  Earcons, notes, hints and *)
(* the wording are left out; texts are sequences of pieces.                *)
(***************************************************************************)
EXTENDS Deltas

CONSTANTS
  Sessions,            \* the channels, one per agent session
  RETIRED_TURNS,       \* turn ids a channel remembers
  SUMMARY_MIN_CHARS,   \* pieces of text that make a summary worth while
  Minqueue             \* settings.minqueue

ASSUME RulesConstants ==
  /\ RETIRED_TURNS \in Nat /\ SUMMARY_MIN_CHARS \in Nat /\ Minqueue \in Nat
  /\ None \notin Sessions

(* Settings are [mode, everything, code, step, mute, summaries].           *)
ReadMode == {"immediate", "queue", "done", "final"}

(* Turn::new.  `kept` is the prose not yet voiced by a summary.            *)
new_turn(gen) ==
  [assembler |-> NewAssembler, t |-> None, current |-> None, retired |-> <<>>,
   awaiting |-> FALSE, questions |-> None, read_set |-> None,
   lead_in |-> None, lead_in_wait |-> None, reply |-> None, replied |-> None,
   held_prose |-> <<>>, order |-> NewOrder,
   released |-> FALSE, ended |-> FALSE, batch_cut |-> FALSE, skip_reply |-> FALSE,
   kept |-> <<>>, gen |-> gen, settle_gen |-> 0, settle_armed |-> FALSE,
   pending |-> <<>>, held |-> None, inflight |-> 0, last_token |-> 0]

new_rules(settings, whole) ==
  [settings |-> settings, whole |-> whole, turns |-> [ch \in Sessions |-> None],
   next_gen |-> 0, next_decision |-> 0, next_token |-> 0, next_seq |-> 0, serve_seq |-> 0,
   parked |-> {}, watched |-> {}, out |-> <<>>]

tracks(r, ch) == r.turns[ch] # None
moved_gen(r)  == [r EXCEPT !.next_gen = @ + 1]
turn(r, ch) == IF tracks(r, ch) THEN r
               ELSE [moved_gen(r) EXCEPT !.turns[ch] = new_turn(r.next_gen + 1)]

stale(r, ch, m) ==
  /\ tracks(r, ch)
  /\ \/ m.t # None /\ r.turns[ch].t # None /\ m.t < r.turns[ch].t
     \/ m.turn # None /\ Contains(r.turns[ch].retired, m.turn)

writing(r, ch) == tracks(r, ch) /\ ~r.turns[ch].ended

-----------------------------------------------------------------------------
(* What goes to the driver.                                                *)

Emit(r, action) == [r EXCEPT !.out = Append(@, action)]

ArmTimer(r, kind, ch, key) ==
  Emit(r, [act |-> "Timer", timer |-> [kind |-> kind, channel |-> ch, key |-> key]])

say(r, ch, text, decision, release, kind) ==
  IF text = <<>> THEN r
  ELSE Emit(r, [act |-> IF r.settings.mute = 0 THEN "Speak" ELSE "Store", channel |-> ch,
                text |-> text, decision |-> decision, release |-> release, kind |-> kind])

speak(r, ch, text, decision, kind) == say(r, ch, text, decision, FALSE, kind)
speak_decision(r, ch, d) == speak(r, ch, d.text, TRUE, d.kind)
speak_decisions(r, ch, items) ==
  FoldLeft(LAMBDA s, d : speak_decision(s, ch, d), r, items)

joined(chunks) == FoldLeft(LAMBDA text, c : text \o c.text, <<>>, chunks)

(* Chunks as one text for an engine that takes whole messages.             *)
speak_chunks(r, ch, chunks) ==
  IF r.whole THEN speak(r, ch, joined(chunks), FALSE, "prose")
  ELSE FoldLeft(LAMBDA s, c : speak(s, ch, c.text, FALSE, "prose"), r, chunks)

flush_prose_upto(r, ch, n) ==
  LET held == r.turns[ch].held_prose
  IN speak_chunks([r EXCEPT !.turns[ch].held_prose = SubSeq(held, n + 1, Len(held))],
                  ch, SubSeq(held, 1, n))
flush_prose(r, ch) == flush_prose_upto(r, ch, Len(r.turns[ch].held_prose))

drop_held(r, ch) ==
  [r EXCEPT !.turns[ch].held_prose = <<>>, !.turns[ch].order = release_held(@)]

(* Summaries were turned off: what was kept for one is read as it is.      *)
hold_kept(r, ch) ==
  [r EXCEPT !.turns[ch].held_prose = r.turns[ch].kept \o @, !.turns[ch].kept = <<>>]

arm_settle(r, ch) ==
  LET s == moved_gen(r)
  IN ArmTimer([s EXCEPT !.turns[ch].settle_gen = s.next_gen,
                        !.turns[ch].settle_armed = TRUE], "Settle", ch, s.next_gen)

-----------------------------------------------------------------------------
(* Prose.                                                                  *)

(* The chunks of deltas: all of them, the spoken ones, and how many of     *)
(* those come before the last paragraph end.                               *)
assembled(r, ch, deltas) ==
  LET add(acc, d) ==
        LET f     == feed(acc.asm, d)
            texts == acc.texts \o SelectSeq(f.chunks, LAMBDA c : c.code => r.settings.code)
            ends  == d.fin \/ (f.chunks # <<>> /\ d.shape \in {"paragraph", "code"})
        IN [asm |-> f.asm, prose |-> acc.prose \o f.chunks, texts |-> texts,
            breaks |-> IF ends THEN Len(texts) ELSE acc.breaks]
      none == [asm |-> r.turns[ch].assembler, prose |-> <<>>, breaks |-> None,
               texts |-> IF r.settings.summaries THEN <<>> ELSE r.turns[ch].kept]
  IN FoldLeft(add, none, deltas)

(* Held prose is read as the read mode says.                               *)
prose_ready(r, ch) ==
  \/ r.turns[ch].released
  \/ r.settings.mode = "immediate" /\ ~r.whole
  \/ r.settings.mode = "queue" /\ Len(r.turns[ch].held_prose) >= Minqueue

(* What was assembled goes where summaries and the read mode want it.      *)
deliver(r, ch, a) ==
  LET s == [r EXCEPT !.turns[ch].assembler = a.asm,
                     !.turns[ch].kept = IF r.settings.summaries THEN @ \o a.prose ELSE <<>>,
                     !.turns[ch].held_prose = IF r.settings.summaries THEN @ ELSE @ \o a.texts]
      para == r.whole /\ r.settings.mode = "immediate" /\ a.breaks # None
  IN IF r.settings.summaries
     THEN IF s.turns[ch].settle_armed THEN arm_settle(s, ch) ELSE s
     ELSE IF a.texts = <<>> /\ ~para THEN s
     ELSE IF prose_ready(s, ch) THEN flush_prose(s, ch)
     ELSE IF para THEN flush_prose_upto(s, ch, Len(r.turns[ch].held_prose) + a.breaks)
     ELSE s

assemble(r, ch, deltas) ==
  IF deltas = <<>> THEN r ELSE deliver(r, ch, assembled(r, ch, deltas))

(* Fault: the gap is closed and what it held is forgotten.                 *)
forget_gap(r, ch) == [r EXCEPT !.turns[ch].order = release_held(@)]
release_gap(r, ch) ==
  LET o == r.turns[ch].order
  IN assemble([r EXCEPT !.turns[ch].order = release_held(o)], ch, held_deltas(o))

gap_began(r, ch) ==
  LET s == moved_gen(r)
  IN ArmTimer([s EXCEPT !.turns[ch].order.gen = s.next_gen], "Gap", ch, s.next_gen)

(* The deltas that are ready after one was accepted.                       *)
assemble_ready(r, ch, a) ==
  LET s == [r EXCEPT !.turns[ch].order = a.order]
  IN assemble(IF a.gap THEN gap_began(s, ch) ELSE s, ch, a.ready)
in_order(r, ch, d) == assemble_ready(r, ch, accept(r.turns[ch].order, d))

(* A delta that is not stale.                                              *)
take_delta(r, ch, d) ==
  LET whole == d.index = 0 /\ d.fin
      s  == [turn(r, ch) EXCEPT !.turns[ch].lead_in_wait =
               IF whole /\ @ # None THEN [@ EXCEPT !.seen = @ \cup {d.text}] ELSE @]
      c  == s.turns[ch]
  IN IF whole /\ c.lead_in = d.text THEN [s EXCEPT !.turns[ch].lead_in = None]
     ELSE IF c.ended /\ c.replied # None /\ ToSet(d.text) \subseteq ToSet(c.replied) THEN s
     ELSE IF c.skip_reply THEN [s EXCEPT !.turns[ch].assembler = feed(@, d).asm]
     ELSE in_order(IF d.index = 0 /\ c.order.next > 0 THEN release_gap(s, ch) ELSE s, ch, d)

-----------------------------------------------------------------------------
(* Summaries: the summarizer's jobs, the buffer that puts turn-end         *)
(* summaries in dispatch order, and the decisions that wait.               *)

summary(ch, gen, text, leadin, seq) ==
  [channel |-> ch, gen |-> gen, text |-> text, leadin |-> leadin, seq |-> seq]

(* `apply`: a release is spoken unless its channel moved on.  `ok`: the    *)
(* summarizer gave a summary.                                              *)
apply(r, x) ==
  IF ~tracks(r, x.of.channel) \/ r.turns[x.of.channel].gen # x.of.gen THEN r
  ELSE IF x.ok THEN say(r, x.of.channel, x.of.text, FALSE, TRUE, "summary")
  ELSE IF x.of.leadin THEN r
  ELSE say(r, x.of.channel, x.of.text, FALSE, TRUE, "prose")

is_parked(r, seq) == \E x \in r.parked : x.of.seq = seq

(* Every consecutive slot that is ready goes, from the one to serve.       *)
serve(r) ==
  LET ready == {x \in r.parked : \A q \in r.serve_seq..x.of.seq : is_parked(r, q)}
      line  == SetToSortSeq(ready, LAMBDA x, y : x.of.seq < y.of.seq)
  IN FoldLeft(apply, [r EXCEPT !.parked = @ \ ready,
                               !.serve_seq = @ + Cardinality(ready)], line)

(* Fault: an answer is taken though its slot was served.                   *)
land_late(r, x) ==
  IF x.of.seq = None \/ x.of.seq < r.serve_seq THEN apply(r, x)
  ELSE serve([r EXCEPT !.watched = {w \in @ : w.seq # x.of.seq}, !.parked = @ \cup {x}])
land(r, x) ==
  IF x.of.seq = None THEN apply(r, x)
  ELSE IF x.of.seq < r.serve_seq \/ is_parked(r, x.of.seq) THEN r
  ELSE serve([r EXCEPT !.watched = {w \in @ : w.seq # x.of.seq}, !.parked = @ \cup {x}])

(* A job goes out; a turn-end one has a slot and a watchdog.               *)
dispatch(r, ch, text, leadin) ==
  LET seq == IF leadin THEN None ELSE r.next_seq
      of  == summary(ch, r.turns[ch].gen, text, leadin, seq)
      s   == [r EXCEPT !.next_token = @ + 1, !.turns[ch].last_token = r.next_token + 1,
                       !.turns[ch].inflight = @ + 1,
                       !.next_seq = IF leadin THEN @ ELSE @ + 1,
                       !.watched = IF leadin THEN @ ELSE @ \cup {of}]
      u   == IF leadin THEN s ELSE ArmTimer(s, "Watchdog", None, seq)
  IN Emit(u, [act |-> "Summarize", job |-> [token |-> s.next_token, of |-> of]])

summarizes(r, ch, leadin) ==
  LET n == Len(joined(r.turns[ch].kept))
  IN r.settings.summaries /\ r.settings.mute = 0 /\ n > 0 /\ (leadin \/ n >= SUMMARY_MIN_CHARS)

(* The channel's prose not voiced yet is summarized, or spoken as it is.   *)
maybe_summarize(r, ch, leadin, focused) ==
  LET kept == r.turns[ch].kept
      s    == [r EXCEPT !.turns[ch].kept = <<>>]
      x    == [of |-> summary(ch, r.turns[ch].gen, joined(kept), FALSE, r.next_seq), ok |-> FALSE]
  IN IF kept = <<>> THEN r
     ELSE IF ~r.settings.summaries THEN flush_prose(hold_kept(r, ch), ch)
     ELSE IF summarizes(r, ch, leadin) THEN dispatch(s, ch, joined(kept), leadin)
     ELSE IF r.settings.mute > 0 \/ focused = ch THEN speak_chunks(s, ch, kept)
     ELSE land([s EXCEPT !.next_seq = @ + 1], x)

(* Fault: a decision goes before the prose held.                           *)
enqueue_first(r, ch, d, digesting) ==
  LET c == r.turns[ch]
      items == IF c.held = None THEN <<>> ELSE c.held.items
  IN IF digesting \/ c.inflight > 0
     THEN ArmTimer([r EXCEPT !.turns[ch].held = [owner |-> c.last_token,
                                                 items |-> Append(items, d)]],
                   "HoldCap", ch, d.id)
     ELSE speak_decision(r, ch, d)

(* A decision is spoken after the prose held, or waits for the summary.    *)
enqueue_or_hold(r, ch, d, digesting) ==
  LET c == r.turns[ch]
      items == IF c.held = None THEN <<>> ELSE c.held.items
  IN IF digesting \/ c.inflight > 0
     THEN ArmTimer([r EXCEPT !.turns[ch].held = [owner |-> c.last_token,
                                                 items |-> Append(items, d)]],
                   "HoldCap", ch, d.id)
     ELSE speak_decision(flush_prose(r, ch), ch, d)

enqueue_all(r, ch, items, digesting) ==
  FoldLeft(LAMBDA s, d : enqueue_or_hold(s, ch, d, digesting), r, items)

(* The summarizer answered: the summary, then the decisions that waited    *)
(* for it.                                                                 *)
digest_done(r, job, ok) ==
  LET ch   == job.of.channel
      c    == r.turns[ch]
      mine == tracks(r, ch) /\ c.held # None /\ c.held.owner = job.token
      live == tracks(r, ch) /\ c.gen = job.of.gen /\ c.inflight > 0
      s    == IF ~tracks(r, ch) THEN r
              ELSE [r EXCEPT !.turns[ch].held = IF mine THEN None ELSE @,
                             !.turns[ch].inflight = IF live THEN @ - 1 ELSE @]
      u    == land(s, [of |-> job.of, ok |-> ok])
  IN IF mine THEN speak_decisions(u, ch, c.held.items) ELSE u

(* The decisions that waited for a late lead-in go.                        *)
release_lead_in_wait(r, ch) ==
  LET s == [r EXCEPT !.turns[ch].lead_in_wait = None]
  IN IF r.settings.summaries THEN arm_settle(s, ch)
     ELSE enqueue_all([s EXCEPT !.turns[ch].pending = <<>>], ch, s.turns[ch].pending, FALSE)

-----------------------------------------------------------------------------
(* Timers.                                                                 *)

fire_settle(r, ch, focused) ==
  LET items == r.turns[ch].pending
      s     == [r EXCEPT !.turns[ch].settle_armed = FALSE]
      u     == [s EXCEPT !.turns[ch].pending = <<>>]
      lead  == items # <<>>
  IN IF s.turns[ch].lead_in_wait # None THEN s
     ELSE enqueue_all(maybe_summarize(u, ch, lead, focused), ch, items, summarizes(u, ch, lead))

fire_cap(r, ch) ==
  speak_decisions([r EXCEPT !.turns[ch].held = None], ch, r.turns[ch].held.items)

fire_watchdog(r, w) ==
  LET s == [r EXCEPT !.watched = @ \ {w}]
  IN IF w.seq >= r.serve_seq /\ ~is_parked(r, w.seq) THEN land(s, [of |-> w, ok |-> FALSE]) ELSE s

(* The timer still stands: what it was armed for is as it was.             *)
stands(r, tm) ==
  IF tm.kind = "Watchdog" THEN \E w \in r.watched : w.seq = tm.key
  ELSE /\ tracks(r, tm.channel)
       /\ LET c == r.turns[tm.channel]
          IN CASE tm.kind = "Settle"  -> c.settle_gen = tm.key /\ c.settle_armed
               [] tm.kind = "HoldCap" -> c.held # None /\ \E i \in 1..Len(c.held.items) :
                                                            c.held.items[i].id = tm.key
               [] tm.kind = "LeadIn"  -> c.lead_in_wait # None /\ c.lead_in_wait.gen = tm.key
               [] tm.kind = "Gap"     -> c.order.gen = tm.key

fire(r, tm, focused) ==
  CASE ~stands(r, tm) -> r
    [] stands(r, tm) /\ tm.kind = "Settle"   -> fire_settle(r, tm.channel, focused)
    [] stands(r, tm) /\ tm.kind = "HoldCap"  -> fire_cap(r, tm.channel)
    [] stands(r, tm) /\ tm.kind = "Watchdog" ->
         fire_watchdog(r, CHOOSE w \in r.watched : w.seq = tm.key)
    [] stands(r, tm) /\ tm.kind = "LeadIn"   -> release_lead_in_wait(r, tm.channel)
    [] stands(r, tm) /\ tm.kind = "Gap"      -> release_gap(r, tm.channel)

-----------------------------------------------------------------------------
(* Messages of a session.  m.turn and m.t say which turn they are of.      *)

(* The channel's summary work lands dead and its decisions are dropped.    *)
cancel(r, ch) ==
  [r EXCEPT !.next_gen = @ + 2,
            !.turns[ch].gen = r.next_gen + 1, !.turns[ch].settle_gen = r.next_gen + 2,
            !.turns[ch].settle_armed = FALSE, !.turns[ch].pending = <<>>,
            !.turns[ch].lead_in_wait = None, !.turns[ch].held = None,
            !.turns[ch].inflight = 0, !.turns[ch].last_token = 0]

retire(c, id) ==
  IF c.current = None \/ c.current = id THEN c.retired
  ELSE LET s == Append(c.retired, c.current)
       IN IF Len(s) > RETIRED_TURNS THEN Tail(s) ELSE s

wipe(r, ch, resume) == Emit(r, [act |-> "Wipe", channel |-> ch, resume |-> resume])

turn_start(r, ch, m) ==
  LET s == drop_held(turn(r, ch), ch)
      c == s.turns[ch]
      u == [s EXCEPT !.turns[ch] =
              [c EXCEPT !.assembler = NewAssembler, !.t = IF m.t = None THEN @ ELSE m.t,
                        !.retired = retire(c, m.turn), !.current = m.turn,
                        !.awaiting = FALSE, !.questions = None, !.read_set = None,
                        !.lead_in = None, !.reply = None, !.replied = None,
                        !.released = FALSE, !.ended = FALSE, !.skip_reply = FALSE,
                        !.order.next = 0, !.order.skipped = {}, !.kept = <<>>]]
  IN IF stale(r, ch, m) THEN r ELSE wipe(cancel(u, ch), ch, TRUE)

stream(r, ch, m, d) == IF stale(r, ch, m) THEN r ELSE take_delta(r, ch, d)

(* A question's lead-in, sent with it (id None) or after it.               *)
read_lead_in(r, ch, text) ==
  LET s == IF r.settings.mode = "final" THEN drop_held(turn(r, ch), ch) ELSE turn(r, ch)
  IN [take_delta([s EXCEPT !.turns[ch].skip_reply = FALSE], ch, Whole(text)) EXCEPT
        !.turns[ch].skip_reply = s.turns[ch].skip_reply, !.turns[ch].lead_in = text]
take_lead_in(r, ch, m, text, id) ==
  LET wait    == IF tracks(r, ch) THEN r.turns[ch].lead_in_wait ELSE None
      waiting == wait # None /\ (id = None \/ wait.id = id)
      seen    == wait # None /\ text \in wait.seen
      read(s) == IF waiting THEN release_lead_in_wait(s, ch) ELSE s
  IN IF stale(r, ch, m) \/ (id # None /\ ~waiting) THEN r
     ELSE read(IF text = <<>> \/ seen THEN r ELSE read_lead_in(r, ch, text))

(* The final reply, for the turn's end; `before` is the long report it is  *)
(* too short without.                                                      *)
reply(r, ch, m, text, before) ==
  IF stale(r, ch, m) THEN r
  ELSE [turn(r, ch) EXCEPT !.turns[ch].reply = IF text = <<>> THEN None ELSE before \o text]

take_reply(r, ch) ==
  LET text == r.turns[ch].reply
      s    == [r EXCEPT !.turns[ch].reply = None]
      u    == drop_held(s, ch)
      v    == [u EXCEPT !.turns[ch].assembler = NewAssembler, !.turns[ch].order.next = 0,
                        !.turns[ch].order.skipped = {}, !.turns[ch].kept = <<>>,
                        !.turns[ch].replied = text, !.turns[ch].released = TRUE]
  IN IF text = None \/ r.settings.mode # "final" \/ r.turns[ch].skip_reply THEN s
     ELSE [assemble(v, ch, <<Whole(text)>>) EXCEPT !.turns[ch].assembler = NewAssembler]

release_turn(r, ch) ==
  LET s == [r EXCEPT !.turns[ch].released = TRUE, !.turns[ch].ended = TRUE,
                     !.turns[ch].batch_cut = FALSE]
  IN IF r.settings.summaries THEN arm_settle(flush_prose(s, ch), ch)
     ELSE flush_prose(hold_kept(s, ch), ch)
turn_end(r, ch, m) ==
  IF stale(r, ch, m) THEN r
  ELSE release_turn(take_reply(release_gap(turn(r, ch), ch), ch), ch)

(* A tool or a decision after the turn's end: a new turn without a start.  *)
new_turn_due(r, ch) == tracks(r, ch) /\ r.turns[ch].ended /\ ~r.turns[ch].batch_cut
take_new_turn(r, ch) ==
  IF ~new_turn_due(r, ch) THEN r
  ELSE [r EXCEPT !.turns[ch] = [@ EXCEPT !.batch_cut = TRUE, !.released = FALSE,
                                         !.ended = FALSE, !.skip_reply = FALSE,
                                         !.reply = None, !.replied = None]]

tool(r, ch, text) ==
  LET s == [turn(r, ch) EXCEPT !.turns[ch] =
              [@ EXCEPT !.awaiting = FALSE, !.questions = None, !.read_set = None]]
      u == [s EXCEPT !.turns[ch].released = @ \/ ~s.whole]
  IN IF s.turns[ch].skip_reply \/ ~s.settings.everything THEN s
     ELSE IF s.settings.mode \in {"done", "final"} THEN speak(s, ch, text, FALSE, "tool")
     ELSE speak(flush_prose(release_gap(u, ch), ch), ch, text, FALSE, "tool")

-----------------------------------------------------------------------------
(* Decisions.                                                              *)

wait_lead_in(r, ch, a) ==
  LET s == moved_gen(r)
      wait == [gen |-> s.next_gen, id |-> a.lead_in, seen |-> {}]
  IN IF r.turns[ch].lead_in_wait # None THEN r
     ELSE ArmTimer([s EXCEPT !.turns[ch].lead_in_wait = wait], "LeadIn", ch, s.next_gen)

(* Question sets.  A stepping set has one entry that shows a question of   *)
(* it, a set read in order an entry for each.                              *)
new_set(size, text) ==
  [size |-> size, texts |-> [i \in 0..(size - 1) |-> IF i = 0 THEN text ELSE None],
   entry |-> None, heard |-> FALSE]
new_read_set(size) ==
  [size |-> size, texts |-> [i \in 0..(size - 1) |-> None],
   entries |-> [i \in 0..(size - 1) |-> None]]

in_set(a) == a.kind = "question" /\ a.size >= 2

question_asked(r, ch, a) ==
  LET c    == r.turns[ch]
      size == IF in_set(a) THEN IF a.index = 0 /\ r.settings.step THEN a.size ELSE 0 ELSE 1
      set  == IF a.index = 0 \/ c.read_set = None \/ c.read_set.size # a.size
              THEN new_read_set(a.size) ELSE c.read_set
  IN [r EXCEPT !.turns[ch].awaiting = TRUE,
               !.turns[ch].questions = IF size = 0 THEN None ELSE new_set(size, a.text),
               !.turns[ch].read_set = IF in_set(a) /\ ~r.settings.step
                                      THEN [set EXCEPT !.texts[a.index] = a.text] ELSE @]

(* Read mode final: what was held before the decision is not read.         *)
drop_before(r, ch, a) ==
  IF /\ r.settings.mode = "final"
     /\ \/ a.kind = "plan"
        \/ a.kind = "question" /\ r.turns[ch].lead_in = None
  THEN drop_held(r, ch) ELSE r

decide(r, ch, a) ==
  LET s == [r EXCEPT !.next_decision = @ + 1]
      d == [id |-> s.next_decision, text |-> a.text, kind |-> a.kind]
      waits == [s EXCEPT !.turns[ch].pending = Append(@, d)]
      alone == [s EXCEPT !.turns[ch].held_prose = <<>>]
  IN IF r.settings.summaries
     THEN arm_settle(IF a.lead_in # None THEN wait_lead_in(waits, ch, a) ELSE waits, ch)
     ELSE IF a.lead_in # None \/ r.turns[ch].lead_in_wait # None THEN wait_lead_in(waits, ch, a)
     ELSE IF a.kind = "permission" /\ r.settings.mode = "final"
     THEN [enqueue_or_hold(alone, ch, d, FALSE) EXCEPT
             !.turns[ch].held_prose = r.turns[ch].held_prose]
     ELSE enqueue_or_hold(s, ch, d, FALSE)

(* A later question of the set being stepped through: no decision yet.     *)
later_question(r, ch, a) ==
  LET set == r.turns[ch].questions
  IN in_set(a) /\ a.index > 0 /\ r.settings.step /\ set # None /\ set.size = a.size

take_ask(r, ch, a) ==
  IF later_question(r, ch, a) THEN [r EXCEPT !.turns[ch].questions.texts[a.index] = a.text]
  ELSE IF a.kind = "permission" /\ r.turns[ch].awaiting THEN [r EXCEPT !.turns[ch].awaiting = FALSE]
  ELSE decide(drop_before(IF a.kind = "question" THEN question_asked(r, ch, a) ELSE r, ch, a), ch, a)
ask(r, ch, a) == take_ask(release_gap(turn(r, ch), ch), ch, a)

-----------------------------------------------------------------------------
(* Catching up: an answer, a stop, a flush.                                *)

(* The decisions that waited, in the order the rules give them back.       *)
waiting_decisions(c) == c.pending \o IF c.held = None THEN <<>> ELSE c.held.items

catch_up(r, ch) == [cancel(drop_held(r, ch), ch) EXCEPT !.turns[ch].kept = <<>>]

(* There was something to drop or to release.                              *)
any_ready(r, ch) ==
  LET c == r.turns[ch]
  IN \/ c.held_prose # <<>> \/ c.order.ahead # {}
     \/ r.settings.summaries /\ c.kept # <<>>
     \/ c.inflight > 0 \/ c.settle_armed \/ waiting_decisions(c) # <<>>
     \/ \E x \in r.parked : x.of.channel = ch /\ x.of.gen = c.gen

answered(r, ch) ==
  LET s == [turn(r, ch) EXCEPT !.turns[ch] =
              [@ EXCEPT !.awaiting = FALSE, !.questions = None, !.read_set = None]]
  IN wipe(catch_up(s, ch), ch, FALSE)

stop_all(r) ==
  LET tracked == SetToSeq({ch \in Sessions : tracks(r, ch)})
      stop(s, ch) == catch_up([s EXCEPT !.turns[ch].awaiting = FALSE], ch)
  IN FoldLeft(stop, r, tracked)

flush(r, ch) ==
  IF ~tracks(r, ch) THEN r
  ELSE speak_decisions(catch_up([r EXCEPT !.turns[ch].skip_reply = TRUE], ch), ch,
                       waiting_decisions(r.turns[ch]))

(* Flush scope `all`: a session whose turn ended.  `queued`: text of it    *)
(* was dropped from its channel.                                           *)
flush_ready(r, ch, queued) ==
  IF ~tracks(r, ch) \/ writing(r, ch) THEN r
  ELSE IF any_ready(r, ch) \/ queued THEN flush(r, ch) ELSE catch_up(r, ch)

close(r, ch) == [r EXCEPT !.turns[ch] = None]

set_mute_level(r, level) ==
  LET s == [r EXCEPT !.settings.mute = level]
  IN IF level >= 1 THEN Emit(s, [act |-> "Silence"]) ELSE s

-----------------------------------------------------------------------------
(* A question was spoken as `entry`: the entry of its set, or in a set     *)
(* read in order of its first question without one.                        *)

bind_question(r, ch, entry, stored) ==
  LET c    == r.turns[ch]
      free == IF c.read_set = None THEN {}
              ELSE {i \in DOMAIN c.read_set.entries :
                      c.read_set.entries[i] = None /\ c.read_set.texts[i] # None}
      s    == IF free = {} THEN r ELSE [r EXCEPT !.turns[ch].read_set.entries[Min(free)] = entry]
  IN IF ~tracks(r, ch) THEN r
     ELSE IF c.questions = None \/ c.questions.entry # None THEN s
     ELSE [s EXCEPT !.turns[ch].questions.entry = entry, !.turns[ch].questions.heard = ~stored]
=============================================================================
