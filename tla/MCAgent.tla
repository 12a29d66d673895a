------------------------------ MODULE MCAgent -------------------------------
(***************************************************************************)
(* Model checking of Agent in four scenes, each a part of its messages:    *)
(*   Order    the deltas of two blocks out of order, lost or late          *)
(*   Modes    the read modes, for both kinds of engine, with tools, the    *)
(*            decisions and the final reply                                *)
(*   Summary  the summaries of two sessions, one of which asks             *)
(*   LeadIn   question sets whose lead-in comes before or after them       *)
(***************************************************************************)
EXTENDS Agent

CONSTANTS s1, s2

VARIABLE scene
mcVars == <<agentVars, scene>>

D(index, fin, shape) == [index |-> index, fin |-> fin, shape |-> shape]
Script ==
  [Order   |-> <<D(0, FALSE, "part"), D(1, FALSE, "paragraph"), D(2, TRUE, "sentence"),
                 D(0, TRUE, "sentence")>>,
   Modes   |-> <<D(0, FALSE, "paragraph"), D(1, TRUE, "part"), D(0, TRUE, "code")>>,
   Summary |-> <<D(0, FALSE, "sentence"), D(1, TRUE, "sentence")>>,
   LeadIn  |-> <<D(0, TRUE, "sentence"), D(0, TRUE, "sentence")>>]
MCScripts == {Script[x] : x \in DOMAIN Script}

(* The settings of a scene: the read mode, the engine takes whole messages *)
(* (code blocks are read by such an engine only), summaries on.            *)
Set(mode, everything, code, step, summaries) ==
  [mode |-> mode, everything |-> everything, code |-> code, step |-> step,
   mute |-> 0, summaries |-> summaries]
SceneRules ==
  [Order   |-> {new_rules(Set(m, TRUE, TRUE, TRUE, FALSE), FALSE) : m \in {"immediate", "done"}},
   Modes   |-> {new_rules(Set(m, TRUE, w, TRUE, FALSE), w) : m \in ReadMode, w \in BOOLEAN},
   Summary |-> {new_rules(Set("immediate", FALSE, TRUE, TRUE, TRUE), FALSE)},
   LeadIn  |-> {new_rules(Set("immediate", FALSE, TRUE, b, b), FALSE) : b \in BOOLEAN}
               \cup {new_rules(Set("final", FALSE, TRUE, TRUE, FALSE), FALSE)}]

MCInit == /\ scene \in DOMAIN Script /\ script = Script[scene]
          /\ rules \in SceneRules[scene] /\ AgentInit

-----------------------------------------------------------------------------
Delta1(n) == Stream(s1, 1, n)
Plan(ch) == Ask(ch, AskOf("plan", 0, 1, None))

OrderNext ==
  \/ \E n \in 1..Len(script) : Delta1(n)
  \/ \E tm \in timers : Fire(tm, None)
  \/ TurnStart(s1) \/ TurnEnd(s1) \/ Tool(s1) \/ Plan(s1)
  \/ Flush(s1, FALSE) \/ Answered(s1)

(* A timer that does not stand does nothing and never stands again: only   *)
(* Order fires it.                                                         *)
Standing == {tm \in timers : stands(rules, tm)}

ModesNext ==
  \/ \E n \in 1..Len(script) : Delta1(n)
  \/ \E tm \in Standing : Fire(tm, None)
  \/ TurnStart(s1) \/ TurnEnd(s1) \/ Reply(s1) \/ Tool(s1)
  \/ \E kind \in {"question", "plan", "permission"} : Ask(s1, AskOf(kind, 0, 1, None))
  \/ Flush(s1, FALSE)

(* The deltas come in order, and s2 writes one.                            *)
SummaryNext ==
  \/ \E ch \in Sessions : LET n == Cardinality(Came(ch, 1)) + 1
                          IN n <= (IF ch = s1 THEN 2 ELSE 1) /\ Stream(ch, 1, n)
  \/ \E tm \in Standing, focused \in {None, s1} : Fire(tm, focused)
  \/ \E job \in jobs, ok \in BOOLEAN : DigestDone(job, ok)
  \/ \E ch \in Sessions : TurnEnd(ch)
  \/ Plan(s2) \/ TurnStart(s1) \/ Close(s1) \/ Flush(s1, TRUE) \/ Stop
  \/ \E level \in 0..1 : SetMuteLevel(level)
  \/ SetSummaries(FALSE)

(* The second block is the lead-in of a set of two questions.              *)
LeadInNext ==
  \/ Delta1(1)
  \/ client[s1].lead # "none" /\ Delta1(2)
  \/ \E tm \in Standing : Fire(tm, None)
  \/ \E job \in jobs, ok \in BOOLEAN : DigestDone(job, ok)
  \/ \E id \in {None, 1} : Ask(s1, AskOf("question", 0, 2, id))
  \/ rules.next_decision > 0 /\ Ask(s1, AskOf("question", 1, 2, None))
  \/ rules.next_decision = 0 /\ LeadIn(s1, 2, None)
  \/ \E n \in {0, 2} : LeadIn(s1, n, 1)
  \/ TurnEnd(s1) \/ Flush(s1, FALSE)

MCNext ==
  /\ \/ scene = "Order" /\ OrderNext
     \/ scene = "Modes" /\ ModesNext
     \/ scene = "Summary" /\ SummaryNext
     \/ scene = "LeadIn" /\ LeadInNext
  /\ UNCHANGED scene

Spec == MCInit /\ [][MCNext]_mcVars

-----------------------------------------------------------------------------
(* Text that reached the rules and that neither a new turn, an answer, a   *)
(* stop or a flush dropped, nor read mode final passed over, was handed to *)
(* the channel or is somewhere it will be read from: held behind a gap,    *)
(* half a sentence, held by the read mode, kept for a summary, in a job or *)
(* a parked slot.                                                          *)
Accounted == \A ch \in Sessions : owed[ch] \subseteq Read(ch) \cup Waiting(rules, ch)

(* What is read of a session's prose, and what is added in a step.         *)
ProseOf(entries) ==
  FoldLeft(LAMBDA t, e : IF e.kind \in {"prose", "summary"} THEN t \o e.text ELSE t,
           <<>>, entries)
Added(ch) == SelectSeq(said'[ch], LAMBDA e : e.id >= next_entry)

(* No text is read twice, whichever of its ways (its stream, the lead-in   *)
(* of a question, the final reply, a summary, the watchdog's fallback for  *)
(* a summary that came late) gets there first, and text the user skipped   *)
(* or that is of an older turn is never read.                              *)
ReadOnce ==
  [][\A ch \in Sessions :
       LET new == ProseOf(Added(ch))
       IN /\ IsInjective(new)
          /\ \A i \in 1..Len(new) : new[i] \in owed'[ch] \ Read(ch)]_mcVars

(* A turn's deltas are read in the order the agent wrote them, however     *)
(* their hooks raced.  The one exception is a delta the session had given  *)
(* up waiting for (a gap timed out, or the turn, a tool or the next block  *)
(* went on without it).                                                    *)
Line(ch) == ProseOf(said[ch]) \o
  IF tracks(rules, ch)
  THEN joined(rules.turns[ch].held_prose) \o rules.turns[ch].assembler.buf ELSE <<>>
InOrder ==
  ~rules.settings.summaries /\ rules.next_token = 0 =>
    \A ch \in Sessions :
      LET line == Line(ch)
      IN \A i, j \in 1..Len(line) :
           i < j /\ line[i][1] = line[j][1] /\ line[i][2] > line[j][2]
             => line[j] \in given_up[ch]

(* The prose before a decision that is not read before its entry i.        *)
Overtaken(ch, i) ==
  {p \in owed[ch] : /\ <<said[ch][i].text, p>> \in context
                    /\ ~\E j \in 1..(i - 1) : p \in Pieces(said[ch][j].text)}
Decides(e) == e.decision /\ ~e.forced

(* A decision is read after the prose that was whole when it was asked:    *)
(* what the read mode holds goes first, and what is to be summarized holds *)
(* the decision.  It may only pass text that is out at a summarizer or was *)
(* kept for one when summaries were turned off.  The hold's cap and the    *)
(* flush key give decisions up to the user at once.                        *)
AtSummarizer(ch) ==
  UNION {Pieces(x.of.text) : x \in {y \in jobs \cup rules.parked : y.of.channel = ch}}
  \cup (IF ~rules.settings.summaries /\ tracks(rules, ch)
        THEN ChunkPieces(rules.turns[ch].kept) ELSE {})
DecisionAfterProse ==
  [][\A ch \in Sessions : \A i \in 1..Len(said'[ch]) :
       said'[ch][i].id >= next_entry /\ Decides(said'[ch][i])
         => Overtaken(ch, i)' \subseteq AtSummarizer(ch)']_mcVars

(* While summaries are on, a decision is read after its context with no    *)
(* exception.  The rules say so of the decisions held behind a summary     *)
(* ("Decisions after their context"), but these go when the last job       *)
(* dispatched answers, be its summary parked or an earlier one still out.  *)
ContextFirst ==
  rules.settings.summaries => \A ch \in Sessions : \A i \in 1..Len(said[ch]) :
    Decides(said[ch][i]) => Overtaken(ch, i) = {}

(* What waits is waited on: a timer stands that will let go decisions      *)
(* waiting for the settle or a lead-in, decisions held behind a summary,   *)
(* deltas held behind a gap, and the summary slot every later summary of   *)
(* every session queues behind, though a summarizer never answers.         *)
Armed(kind, ch) == \E tm \in Standing : tm.kind = kind /\ tm.channel = ch
Watched ==
  /\ \A ch \in Sessions : tracks(rules, ch) =>
       LET c == rules.turns[ch]
       IN /\ c.pending # <<>> => Armed("Settle", ch) \/ Armed("LeadIn", ch)
          /\ c.held # None => Armed("HoldCap", ch)
          /\ c.order.ahead # {} => Armed("Gap", ch)
  /\ \A q \in rules.serve_seq..(rules.next_seq - 1) :
       is_parked(rules, q) \/ \E tm \in Standing : tm.kind = "Watchdog" /\ tm.key = q

(* No path through the order, the assembler, the modes, late lead-ins,     *)
(* summaries and their timers loses a word or leaves it waiting for ever.  *)
NothingLost == Accounted /\ Watched
=============================================================================
