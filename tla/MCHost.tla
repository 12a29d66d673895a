------------------------------- MODULE MCHost -------------------------------
(***************************************************************************)
(* The host for TLC, in sessions: mute changes while a chunk is in an      *)
(* external engine (with the agent, without it, and refused ones), every   *)
(* call that takes the host's locks, the runtime's end, and the protocol:  *)
(* clients that come and enable extensions, the names of channels, and the *)
(* summaries' settings over restarts.                                      *)
(***************************************************************************)
EXTENDS Muting, Lifetime, Protocol

CONSTANTS Chosen   \* the sessions of the run

VARIABLE session
(* The calls of each session.                                              *)
Most == [Agent |-> 2, Core |-> 2, Locks |-> 3, Refused |-> 1, Life |-> 0, Hello |-> 3, Names |-> 6, Sums |-> 4]
hostVars == <<muteVars, lifeVars, protoVars, session>>

NothingStored == [enabled |-> FALSE, style |-> Default, prompts |-> [s \in Styles |-> NoName],
                  now |-> NoSums]

(* With the agent the mute key changes its level, without it the reader's  *)
(* mute.  Only the session about locks starts with a level stored, and     *)
(* only the one about the runtime's end has it still to come.  Channels    *)
(* are named once a client has turned the agent on.                        *)
AgentServed ==
  /\ host = [FreshHost EXCEPT !.on = Needs("agent"), !.told = Needs("agent"),
                              !.built = [e \in Exts |-> IF e \in Needs("agent") THEN 1 ELSE 0]]
  /\ conn = [c \in Callers |-> [Connected[c] EXCEPT !.authed = TRUE]]
MCInit ==
  /\ session \in Chosen
  /\ MutingInit /\ IF session = "Life" THEN LifetimeInit ELSE Fresh /\ main = "down"
  /\ mute.agent = (session = "Agent")
  /\ session # "Locks" => mute.stored = 0
  /\ FreshRest /\ (session # "Sums" => sums = NothingStored)
  /\ IF session = "Names" THEN AgentServed ELSE host = FreshHost /\ conn = Connected

In(kinds) == session \in kinds /\ UNCHANGED <<lifeVars, protoVars, session>>
Serves(kinds) ==
  session \in kinds /\ UNCHANGED <<muteVars, lifeVars, session>>
Few == asked' <= Most[session]

(* Requests come on threads that are alike: one that is free takes it.     *)
FreeClient == {t \in Clients : thread[t].todo = <<>>}
Takes(Calls(_)) == FreeClient # {} /\ calls < Most[session] /\ Calls(CHOOSE t \in FreeClient : TRUE)

CoreCall(t)  == ControlMute(t) \/ ControlUnmute(t)
LevelCall(t) == SetMuteLevel(t) \/ (session = "Agent" /\ CoreCall(t))
LockCall(t)  == SetMuteLevel(t) \/ ControlMute(t) \/ SetKeymap(t) \/ EnableAgent(t)
Press == calls < Most[session] /\ PressMute

MCNext ==
  \/ In({"Agent", "Refused"}) /\ Takes(LevelCall)
  \/ In({"Core"}) /\ Takes(CoreCall)
  \/ In({"Agent", "Core", "Locks"}) /\ Press
  \/ In({"Locks"}) /\ (Takes(LockCall) \/ PressRate)
  \/ In({"Agent", "Core", "Locks", "Refused"}) /\ HostSteps
  \/ In({"Agent", "Core", "Refused"}) /\ Synthesis
  \/ session = "Life" /\ LifetimeNext /\ UNCHANGED <<muteVars, protoVars, session>>
  \/ Serves({"Hello", "Sums"}) /\ Restarts /\ Few
  \/ \E c \in Callers : Serves({"Hello"}) /\ (Hellos(c) \/ Others(c)) /\ Few
  \/ \E c \in Callers : Serves({"Names"}) /\ Namings(c) /\ Few
  \/ \E c \in Posts : Serves({"Sums"}) /\ (Hellos(c) \/ set_summaries(c)) /\ Few

MCSpec == MCInit /\ [][MCNext]_hostVars /\ MutingFair /\ LifetimeFair
=============================================================================
