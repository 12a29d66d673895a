------------------------------- MODULE MCLive -------------------------------
(***************************************************************************)
(* What must eventually happen, for TLC, in scenes of one part each: an    *)
(* item in the reader's threads, with the host's shutdown; the channels    *)
(* driver over its reader; one external engine that the reader and a cue   *)
(* share.                                                                  *)
(***************************************************************************)
EXTENDS ReaderWorker, External

CONSTANTS ch1, ch2

VARIABLES router, player, driver, endings, operations, scene

(* An item of two chunks, and for the channels texts of two, none and one. *)
Spoken == {[Sentences |-> <<"Prose", "Prose">>, Message |-> <<"Prose">>]}
TextChunks == <<2, 0, 1>>

Ch == INSTANCE Channels WITH
        events <- endings, calls <- operations, Ids <- {ch1, ch2}, Tabs <- {},
        Announces <- TRUE, Unnamed <- FALSE, Chunks <- TextChunks,
        MaxEntries <- 3, MaxItems <- 20, MaxCalls <- 4

chVars == <<router, player, driver, endings, operations>>

Sharing == {Reader, Cue}

(* The reader's texts are not kept by the engine, a cue's are.             *)
TextOf(c) == IF c = Reader THEN "message" ELSE "short"
TheVoice == CHOOSE v \in ProviderVoices : TRUE

MCInit ==
  /\ scene \in {"Reader", "Channels", "Engine"}
  /\ WorkerInit
  /\ Ch!ChannelsInit(Ch!open(Ch!open(Ch!new_router, ch1, TRUE, None, "Queue"),
                             ch2, TRUE, None, "Latest"))
  /\ ExternalInit /\ engine.wire = "whole" /\ engine.key = 1
  /\ ~engine.message /\ ~engine.param /\ ~provider.nostream /\ list.empty_on_error
  /\ scene # "Engine" => ~provider.outage

ChannelCalls == operations < 4 /\ (Ch!FloorCalls \/ \E interrupt \in BOOLEAN : Ch!CoreSpeak(interrupt))
ChannelRuns == Ch!CallReader \/ Ch!ItemEnded \/ Ch!Plays

AskedBy(c) == Call(c, TheVoice, TextOf(c), Normal, "normal")
Runs(c) == EngineStep(c) \/ Replies(c, RetryAfters)

OfReader == scene = "Reader" /\ UNCHANGED <<chVars, extVars, scene>>
OfChannels == scene = "Channels" /\ UNCHANGED <<vars, extVars, scene>>
OfEngine == scene = "Engine" /\ UNCHANGED <<vars, chVars, scene>>
MCNext ==
  \/ OfReader /\ WorkerNext
  \/ OfChannels /\ (ChannelCalls \/ ChannelRuns)
  \/ OfEngine /\ ((\E c \in Sharing : AskedBy(c) \/ Runs(c)) \/ Tick \/ OutageEnds)

(* The threads of an external engine run on and its provider answers or    *)
(* times out; the user reads on, and time passes.  Nothing is assumed of   *)
(* cues, of cancels or of the provider's health.  As in the other parts    *)
(* this is WF_extVars of each action, with ENABLED spelled out.            *)
ReadsOnAndOn == AskedBy(Reader) \/ Runs(Reader)
EngineFair ==
  /\ <>[](scene = "Engine") => []<><<ReadsOnAndOn>>_extVars
  /\ <>[](call[Cue].at # "idle") => []<><<Runs(Cue)>>_extVars
  /\ <>[](health.open > 0 \/ health.blocked.left > 0) => []<><<Tick>>_extVars

MCSpec == MCInit /\ [][MCNext]_<<vars, chVars, extVars, scene>>
            /\ Fairness /\ Ch!ChannelsFair /\ EngineFair

-----------------------------------------------------------------------------
(* Once clients stop calling, every entry that may be heard is read: the   *)
(* driver neither waits for ever nor feeds for ever (pump and drain).      *)
Drains == <>[](Ch!Free /\ endings = <<>> /\ Ch!P!idle(player) /\ ~Ch!has_work(router))
=============================================================================
