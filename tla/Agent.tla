------------------------------- MODULE Agent --------------------------------
(***************************************************************************)
(* The agent layer's driver (sonara-agent lib.rs) over Rules.  A message   *)
(* runs under one lock: the rules decide, the driver carries out.  Timers  *)
(* and summarizer jobs run on threads of their own and come back when      *)
(* they come back, a job perhaps never.                                    *)
(*                                                                         *)
(* Each message of a session comes from a hook process of its own.  The    *)
(* deltas of a block race each other and one may never come; the turn's    *)
(* end, tools and decisions race the deltas before them, and messages of   *)
(* a turn may come after the next one began.                               *)
(*                                                                         *)
(* A channel of L2 is the entries handed to it since its last wipe and how *)
(* many of them were read (Router has the rest).                           *)
(***************************************************************************)
EXTENDS Rules

CONSTANTS
  Scripts,    \* what a session may write in a turn: sequences of deltas
  MaxTurn,    \* bound: turns of a session
  MaxCalls    \* bound: messages that are not prose

VARIABLES
  rules,      \* Inner::rules
  timers,     \* the timer threads
  jobs,       \* the summarizer threads
  said,       \* per session: the entries in its L2 channel
  next_entry, \* L2's entry counter
  client,     \* per session: the turn it is in, what of it came, the lead-in it owes
  script,     \* what the sessions write
  calls,      \* messages that were not prose so far
  owed,       \* history: the pieces a session got and still owes the user
  given_up,   \* history: the pieces a block went on without
  context     \* history: <<decision, piece>>, prose that was whole when it was asked

agentVars == <<rules, timers, jobs, said, next_entry, client, script, calls,
               owed, given_up, context>>

ASSUME AgentConstants == MaxTurn \in Nat /\ MaxCalls \in Nat

-----------------------------------------------------------------------------
(* Carrying out the rules' actions.                                        *)

(* The driver's state while it carries out.                                *)
Driver(r) == [rules |-> [r EXCEPT !.out = <<>>], timers |-> timers, jobs |-> jobs,
              said |-> said, next |-> next_entry]

Entry(id, a, source) ==
  [id |-> id, kind |-> a.kind, text |-> a.text, decision |-> a.decision,
   stored |-> a.act = "Store", forced |-> source \in {"HoldCap", "flush"}]

carry_out(d, a, source) ==
  CASE a.act \in {"Speak", "Store"} ->
         LET r == IF a.kind = "question"
                  THEN bind_question(d.rules, a.channel, d.next, a.act = "Store") ELSE d.rules
         IN [d EXCEPT !.rules = r, !.next = @ + 1,
                      !.said[a.channel] = Append(@, Entry(d.next, a, source))]
    [] a.act = "Wipe" -> [d EXCEPT !.said[a.channel] = <<>>]
    [] a.act = "Silence" -> d
    [] a.act = "Summarize" -> [d EXCEPT !.jobs = @ \cup {a.job}]
    [] a.act = "Timer" -> [d EXCEPT !.timers = @ \cup {a.timer}]

Become(d) ==
  /\ rules' = d.rules /\ timers' = d.timers /\ jobs' = d.jobs
  /\ said' = d.said /\ next_entry' = d.next
(* The thread of a timer or a job that came back, or None, is over.        *)
execute_of(r, source, thread) ==
  LET d == [Driver(r) EXCEPT !.timers = @ \ {thread}, !.jobs = @ \ {thread}]
  IN Become(FoldLeft(LAMBDA e, a : carry_out(e, a, source), d, r.out))
execute(r, source) == execute_of(r, source, None)

-----------------------------------------------------------------------------
(* The sessions' side.                                                     *)

Turns == 1..MaxTurn
Piece(k, n) == <<k, n>>
Text(k, n) == <<Piece(k, n)>>
Delta(k, n) == [text |-> Text(k, n), index |-> script[n].index, fin |-> script[n].fin,
                shape |-> script[n].shape]
Stamp(k) == [turn |-> k, t |-> k]

Came(ch, k) == client[ch].came[k]
Block(n) == Cardinality({m \in 1..(n - 1) : script[m].fin})
(* The first deltas of the blocks before b came.                           *)
Begins(ch, k, b) ==
  \A m \in 1..Len(script) : script[m].index = 0 /\ Block(m) < b => m \in Came(ch, k)

(* The rules go on without what did not come of the turn before delta n,   *)
(* or before the newest one that came of each of the channels `chs`.       *)
Absent(ch, n) ==
  LET k == client[ch].turn IN {Piece(k, x) : x \in (1..(n - 1)) \ Came(ch, k)}
Newest(ch) == Max(Came(ch, client[ch].turn) \cup {0})
GivesUp(ch, n) == given_up' = [given_up EXCEPT ![ch] = @ \cup Absent(ch, n)]
MovesOn(chs) ==
  given_up' = [ch \in Sessions |-> given_up[ch] \cup
                 IF ch \in chs THEN Absent(ch, Newest(ch)) ELSE {}]

Pieces(text) == ToSet(text)
ChunkPieces(chunks) == Pieces(joined(chunks))

Message == calls < MaxCalls /\ calls' = calls + 1
Quiet == UNCHANGED <<client, script, context>>
Owes(ch, pieces) == owed' = [owed EXCEPT ![ch] = pieces]

(* What the rules have of a session that was not read yet.                 *)
Waiting(r, ch) ==
  LET c == r.turns[ch]
      live(of) == of.channel = ch /\ of.gen = c.gen
  IN IF ~tracks(r, ch) THEN {}
     ELSE ChunkPieces(c.held_prose \o c.kept) \cup Pieces(c.assembler.buf)
          \cup UNION {Pieces(d.text) : d \in c.order.ahead}
          \cup UNION {Pieces(x.of.text) : x \in {y \in r.parked : live(y.of)}}
          \cup UNION {Pieces(w.text) : w \in {y \in r.watched : live(y)}}
          \cup UNION {Pieces(j.of.text) : j \in {y \in jobs : live(y.of) /\ y.of.leadin}}
(* The beginning of a sentence, which is read with its end.                *)
Begun(r, ch) == IF tracks(r, ch) THEN Pieces(r.turns[ch].assembler.buf) ELSE {}
Read(ch) == UNION {Pieces(said[ch][i].text) : i \in 1..Len(said[ch])}

-----------------------------------------------------------------------------
(* Messages.                                                               *)

AgentInit ==
  /\ script \in Scripts
  /\ timers = {} /\ jobs = {} /\ next_entry = 1 /\ calls = 0 /\ context = {}
  /\ said = [ch \in Sessions |-> <<>>]
  /\ client = [ch \in Sessions |-> 
                [turn |-> 1, came |-> [k \in Turns |-> {}], block |-> [k \in Turns |-> 0],
                 ended |-> FALSE, lead |-> "none"]]
  /\ owed = [ch \in Sessions |-> {}] /\ given_up = [ch \in Sessions |-> {}]

(* A delta of the turn, or late of the last one.  The next block starts    *)
(* when the hooks of the last one came or died, its first one came: the    *)
(* code cannot tell a lost first delta from the next block's.              *)
Stream(ch, k, n) ==
  LET c == client[ch]
      fresh == ~tracks(rules, ch) \/ rules.turns[ch].t = None \/ k >= rules.turns[ch].t
      skipped == tracks(rules, ch) /\ rules.turns[ch].skip_reply
      again == tracks(rules, ch) /\ rules.turns[ch].lead_in = Text(k, n)
      told == tracks(rules, ch) /\ rules.turns[ch].ended /\ rules.turns[ch].replied # None
              /\ Piece(k, n) \in Pieces(rules.turns[ch].replied)
      unread == script[n].shape = "code" /\ ~rules.settings.code /\ ~rules.settings.summaries
  IN /\ k \in {c.turn - 1, c.turn} \ {0} /\ n \in (1..Len(script)) \ Came(ch, k)
     /\ c.block[k] <= Block(n) /\ Begins(ch, k, Block(n))
     /\ execute(stream(rules, ch, Stamp(k), Delta(k, n)), "stream")
     /\ client' = [client EXCEPT ![ch].came[k] = @ \cup {n}, ![ch].block[k] = Block(n)]
     /\ Owes(ch, IF fresh /\ ~skipped /\ ~again /\ ~told /\ ~unread
                 THEN owed[ch] \cup {Piece(k, n)} ELSE owed[ch])
     /\ GivesUp(ch, IF script[n].index = 0 THEN n ELSE 0)
     /\ UNCHANGED <<script, calls, context>>

TurnStart(ch) ==
  /\ Message /\ client[ch].turn < MaxTurn
  /\ execute(turn_start(rules, ch, Stamp(client[ch].turn + 1)), "turn_start")
  /\ client' = [client EXCEPT ![ch].turn = @ + 1, ![ch].ended = FALSE,
                               ![ch].lead = "none"]
  /\ Owes(ch, {}) /\ UNCHANGED <<script, given_up, context>>

TurnEnd(ch) ==
  LET r == rules.turns[ch]
      final == tracks(rules, ch) /\ r.reply # None /\ rules.settings.mode = "final" /\ ~r.skip_reply
  IN /\ Message /\ ~client[ch].ended
     /\ execute(turn_end(rules, ch, Stamp(client[ch].turn)), "turn_end")
     /\ client' = [client EXCEPT ![ch].ended = TRUE]
     /\ Owes(ch, IF final THEN Pieces(r.reply) ELSE owed[ch])
     /\ MovesOn({ch}) /\ UNCHANGED <<script, context>>

(* The turn's last block, as the hook sends it with the end of the turn.   *)
LastBlock == LET b == Block(Len(script))
             IN SelectSeq([n \in 1..Len(script) |-> n], LAMBDA n : Block(n) = b)
Reply(ch) ==
  LET k == client[ch].turn
      text == FoldLeft(LAMBDA s, n : s \o Text(k, n), <<>>, LastBlock)
  IN /\ Message /\ ~client[ch].ended
     /\ client[ch].block[k] <= Block(Len(script)) /\ Begins(ch, k, Block(Len(script)))
     /\ execute(reply(rules, ch, Stamp(k), text, <<>>), "turn_end")
     /\ client' = [client EXCEPT ![ch].block[k] = Block(Len(script))]
     /\ UNCHANGED <<owed, given_up, script, context>>

(* A tool or a decision after the turn's end is of an agent that was woken *)
(* when the hooks of the turn had come or died.                            *)
Woken(c) == IF c.ended THEN [c EXCEPT !.ended = FALSE, !.block[c.turn] = Len(script)] ELSE c

(* A tool runs.  Its announcement, and the text of a decision, is a piece  *)
(* of no turn.                                                             *)
Tool(ch) ==
  /\ Message
  /\ execute(tool(take_new_turn(rules, ch), ch, Text(0, calls)), "tool")
  /\ MovesOn(IF rules.settings.everything /\ rules.settings.mode \in {"immediate", "queue"}
             THEN {ch} ELSE {})
  /\ client' = [client EXCEPT ![ch] = Woken(@)] /\ UNCHANGED <<owed, script, context>>

AskOf(kind, index, size, lead_in) ==
  [kind |-> kind, text |-> Text(0, calls), index |-> index, size |-> size, lead_in |-> lead_in]
Ask(ch, a) ==
  LET r    == take_new_turn(rules, ch)
      c    == IF tracks(rules, ch) THEN rules.turns[ch] ELSE new_turn(0)
      before == IF r.settings.mode = "final" THEN {} ELSE ChunkPieces(c.held_prose \o c.kept)
      drops  == /\ r.settings.mode = "final" /\ ~r.settings.summaries
                /\ \/ a.kind = "plan"
                   \/ /\ a.kind = "question" /\ c.lead_in = None
                      /\ ~later_question(turn(r, ch), ch, a)
  IN /\ Message /\ (a.lead_in # None => client[ch].lead = "none")
     /\ execute(ask(r, ch, a), "ask")
     /\ context' = context \cup {<<a.text, p>> : p \in before \cap owed[ch]}
     /\ Owes(ch, IF drops THEN owed[ch] \cap (Read(ch) \cup Begun(rules', ch)) ELSE owed[ch])
     /\ client' = [client EXCEPT ![ch] =
                     [Woken(@) EXCEPT !.lead = IF a.lead_in # None THEN "owed" ELSE @]]
     /\ MovesOn({ch}) /\ UNCHANGED script

(* A question's lead-in, before it or (with its id) after a question that  *)
(* announced it: the text of a block of one delta, whose own stream comes  *)
(* after the question, or nothing (n = 0).                                 *)
LeadIn(ch, n, id) ==
  LET k == client[ch].turn
      text  == IF n = 0 THEN <<>> ELSE Text(k, n)
      wait  == IF tracks(rules, ch) THEN rules.turns[ch].lead_in_wait ELSE None
      taken == id = None \/ (wait # None /\ wait.id = id)
      drops == rules.settings.mode = "final" /\ ~rules.settings.summaries
      base  == IF drops THEN owed[ch] \cap Read(ch) ELSE owed[ch]
  IN /\ Message /\ client[ch].lead = IF id = None THEN "none" ELSE "owed"
     /\ n # 0 => /\ script[n].index = 0 /\ script[n].fin
                 /\ client[ch].block[k] <= Block(n) /\ Begins(ch, k, Block(n))
     /\ execute(take_lead_in(rules, ch, Stamp(k), text, id), "lead_in")
     /\ client' = [client EXCEPT ![ch].lead = "sent",
                                 ![ch].block[k] = IF n = 0 THEN @ ELSE Block(n)]
     /\ Owes(ch, IF n # 0 /\ taken /\ ~(wait # None /\ text \in wait.seen)
                 THEN base \cup Pieces(text) ELSE owed[ch])
     /\ GivesUp(ch, n) /\ UNCHANGED <<script, context>>

Answered(ch) ==
  /\ Message /\ execute(answered(rules, ch), "answered")
  /\ Owes(ch, owed[ch] \cap Begun(rules, ch)) /\ MovesOn({ch}) /\ Quiet

-----------------------------------------------------------------------------
(* The user's side.                                                        *)

(* The flush key on the session being read, and with scope `all` on every  *)
(* other session whose turn ended.                                         *)
Flush(ch, all) ==
  LET ready  == {o \in Sessions \ {ch} : all /\ tracks(rules, o) /\ ~writing(rules, o)}
      others(r) == FoldLeft(LAMBDA s, o : flush_ready(s, o, FALSE), r, SetToSeq(ready))
  IN /\ Message /\ execute(others(flush(rules, ch)), "flush")
     /\ owed' = [o \in Sessions |-> IF o = ch \/ o \in ready THEN {} ELSE owed[o]]
     /\ MovesOn({ch} \cup ready) /\ Quiet

Stop ==
  /\ Message /\ execute(stop_all(rules), "stop")
  /\ owed' = [ch \in Sessions |-> owed[ch] \cap Begun(rules, ch)]
  /\ MovesOn(Sessions) /\ Quiet

Close(ch) ==
  /\ Message /\ rules' = close(rules, ch) /\ said' = [said EXCEPT ![ch] = <<>>]
  /\ UNCHANGED <<timers, jobs, next_entry>>
  /\ Owes(ch, {}) /\ UNCHANGED given_up /\ Quiet

SetMuteLevel(level) ==
  /\ Message /\ level # rules.settings.mute
  /\ execute(set_mute_level(rules, level), "mute_level")
  /\ UNCHANGED <<owed, given_up, client, script, context>>

SetSummaries(on) ==
  /\ Message /\ on # rules.settings.summaries
  /\ rules' = [rules EXCEPT !.settings.summaries = on]
  /\ UNCHANGED <<timers, jobs, said, next_entry, owed, given_up, client, script, context>>

-----------------------------------------------------------------------------
(* Threads.                                                                *)

(* `focused`: the channel the user works in.                               *)
Fire(tm, focused) ==
  /\ execute_of(fire(rules, tm, focused), tm.kind, tm)
  /\ MovesOn(IF tm.kind = "Gap" /\ stands(rules, tm) THEN {tm.channel} ELSE {})
  /\ UNCHANGED <<owed, client, script, calls, context>>

(* A lead-in the summarizer gave nothing for is not read.                  *)
DigestDone(job, ok) ==
  LET ch == job.of.channel
  IN /\ execute_of(digest_done(rules, job, ok), "summary", job)
     /\ Owes(ch, IF job.of.leadin /\ ~ok THEN owed[ch] \ Pieces(job.of.text) ELSE owed[ch])
     /\ UNCHANGED <<given_up, client, script, calls, context>>
=============================================================================
