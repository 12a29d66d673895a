------------------------------ MODULE MCEngine ------------------------------
(***************************************************************************)
(* The engines for TLC, in sessions of one part each: an external engine   *)
(* whose answers are streamed, whose key changes, which is a program, and  *)
(* whose voice list is fetched; what its adapter makes of refusals; the    *)
(* files of Kokoro and the chunks that wait for them; the profiles under   *)
(* overlapping requests and over restarts.                                 *)
(***************************************************************************)
EXTENDS External, Providers, Kokoro, Engines

VARIABLE session

ExternalSessions == {"Stream", "Keys", "Program", "Lists"}
KokoroSessions == {"Files", "Chunks"}
ProfileSessions == {"Overlap", "Restarts"}
Sessions == ExternalSessions \cup KokoroSessions \cup ProfileSessions \cup {"Refusals"}

PinnedFiles == <<"model", "voices">>

-----------------------------------------------------------------------------
(* The external engine: the provider's wire, who calls and what for.       *)
Wires == [Stream |-> {"sse", "raw"}, Keys |-> {"whole", "sse"}, Program |-> {"command"}, Lists |-> {"whole"}]
Who == [Stream |-> {Reader}, Keys |-> {Reader, Test}, Program |-> {Reader}, Lists |-> {}]
TheVoice == CHOOSE v \in ProviderVoices : v # "none"
AskedFor == [Stream  |-> {TheVoice} \X {"message"} \X Paces,
         Keys    |-> {TheVoice, "none"} \X {"short"} \X {Normal},
         Program |-> {<<TheVoice, "short", Normal>>}, Lists |-> {}]

(* A provider in trouble does what one that works does, and more: it stays *)
(* so.                                                                     *)
ExternalStart ==
  /\ ExternalInit
  /\ IF session \in ExternalSessions THEN engine.wire \in Wires[session]
     ELSE engine.wire = "whole" /\ ~engine.message /\ ~engine.param /\ provider = [outage |-> FALSE, nostream |-> FALSE]
  /\ session = "Keys" => ~engine.param /\ engine.message /\ ~provider.nostream
  /\ session # "Keys" => engine.key = 1
  /\ session = "Stream" => (provider.nostream => engine.streams)
  /\ session \in ExternalSessions => provider.outage
  /\ session # "Lists" => list.empty_on_error

(* While keys change, a streamed answer holds its text.                    *)
ExternalSteps ==
  /\ \/ \E c \in Who[session] : Calls(c, AskedFor[session]) \/ EngineStep(c) \/ Replies(c, IF session = "Keys" THEN {0, 1} ELSE {0})
     \/ session \in {"Stream", "Lists"} /\ \E on \in BOOLEAN : SetHold(on)
     \/ session = "Lists" /\ (Refresh \/ fetch_voices)
     \/ session = "Keys" /\ ((\E k \in 0..2 : KeyChanged(k)) \/ Reset \/ Warm)
     \/ session \in {"Stream", "Program"} /\ CancelReader
     \/ \E overdue \in BOOLEAN : ProgramStops(overdue)
     \/ Tick
  /\ session = "Keys" => \A c \in Callers : call'[c].answer = Full

-----------------------------------------------------------------------------
(* Kokoro: two files over a crash, or one file and the chunks.             *)
KokoroStart ==
  /\ KokoroInit
  /\ session = "Files" => host.dll /\ host.fallback
  /\ session = "Chunks" => folder.file["voices"] = "good" /\ folder.part["voices"] = Nothing
  /\ session \notin KokoroSessions =>
       /\ \A n \in Names : folder.file[n] = "none" /\ folder.part[n] = Nothing
       /\ host.download /\ host.dll /\ host.fallback

KokoroSteps ==
  \/ Prepare \/ Preparing \/ Troubles \/ TroubleEnds \/ Wait
  \/ session = "Files" /\ Crash
  \/ session = "Chunks" /\ Chunking

-----------------------------------------------------------------------------
(* The profiles: two threads at once, or one over restarts with the CLI.   *)
OneThread == {CHOOSE t \in Thread : TRUE}
ProfilesStart ==
  /\ EnginesInit
  /\ session = "Overlap" => disk.text \in {Missing, Text("json", 1, NoEngines)} /\ keys = NoEngines
  /\ session \notin ProfileSessions => disk.text = Missing /\ keys = NoEngines
  /\ "c" \notin DOMAIN disk.text.list
  /\ disk.text \in TooMany => disk.text.last.id = "c" /\ keys = NoEngines

Added == {Web(ProviderAddress, FALSE, "none"), Web("y", TRUE, "none")}
Edited == Added \cup {Other, Program("y"), Web("y", TRUE, "y")}
Behind == {NoEntry, [id |-> "unnamed", raw |-> Other]} \cup [id : Profile \ {"c"}, raw : {Web("y", TRUE, "y")}]

(* The third profile is only where a full file has it at the start.        *)
TwoAsked ==
  /\ \A t \in Thread : op'[t].id # "c"
  /\ cli'.id # "c" /\ ("c" \in DOMAIN disk'.text.list => "c" \in DOMAIN table \cup DOMAIN cli.before.list)
ProfileSteps ==
  \/ (session = "Overlap" => count.starts = 0) /\ Starts
  \/ session = "Restarts" /\ Ends
  \/ \E t \in IF session = "Overlap" THEN Thread ELSE OneThread : Handles(t)
  \/ /\ session = "Overlap"
     /\ \/ UserEdits({Program("x"), Other}, {})
        \/ \E id \in Profile : UseEngine(id)
        \/ \E t \in Thread : Adds(t, {Web(a, FALSE, "none") : a \in Address}, {FALSE}) \/ Requested(t)
  \/ /\ session = "Restarts"
     /\ \/ UserEdits(Edited, Behind) \/ Cli
        \/ \E t \in OneThread : count.requests = 0 /\ (Adds(t, Added, BOOLEAN) \/ Requested(t))

-----------------------------------------------------------------------------
MCInit ==
  /\ session \in Sessions
  /\ ExternalStart /\ KokoroStart /\ ProfilesStart
  /\ IF session = "Refusals" THEN ProvidersInit ELSE refusal = OneRefusal

MCNext ==
  \/ session \in ExternalSessions /\ ExternalSteps /\ UNCHANGED <<kokoroVars, enginesVars, refusal, session>>
  \/ session \in KokoroSessions /\ KokoroSteps /\ UNCHANGED <<extVars, enginesVars, refusal, session>>
  \/ session \in ProfileSessions /\ ProfileSteps /\ TwoAsked /\ UNCHANGED <<extVars, kokoroVars, refusal, session>>

MCSpec == MCInit /\ [][MCNext]_<<extVars, kokoroVars, enginesVars, refusal, session>>
=============================================================================
