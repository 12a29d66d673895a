------------------------------- MODULE Muting -------------------------------
(***************************************************************************)
(* Muting while an external engine may be sending (sonarad quiet.rs,       *)
(* protocol/messages.rs and system_ext.rs; sonara-engine external/hold.rs, *)
(* worker.rs and External::synthesize).                                    *)
(*                                                                         *)
(* Calls of clients and hotkey presses run on threads of their own under   *)
(* three locks: the `set` lock, the mute change and the admission lock.    *)
(* A mute change raises the Hold that keeps external engines from sending, *)
(* applies, and makes the hold follow what came of it.  The synthesis      *)
(* thread meanwhile takes a chunk through the engine: it marks where the   *)
(* hold and the cancel generation are, checks them, sends requests and     *)
(* waits.  The atomics of the hold and the token are read and written one  *)
(* at a time.  Providers, the engine's health and its cache are an answer  *)
(* or none; one engine is built with the hold.                             *)
(***************************************************************************)
EXTENDS Naturals, Sequences, FiniteSets

CONSTANTS Clients,     \* threads with a client's request
          Hotkeys,     \* the hotkey action thread
          Levels,      \* the mute levels clients ask for; above 2 is refused
          MaxCalls,    \* bound: calls and presses
          MaxJobs,     \* bound: chunks
          MaxRequests  \* bound: requests for one chunk (parts, retries)

VARIABLES
  hold,    \* Hold: held, epoch; the engine's cancel generation
  mute,    \* the reader's mute; the agent and its level; the level stored
  locks,   \* who has the `set` lock, the mute change, the admission lock
  thread,  \* each thread: its call, the steps to go, the value it sets
  job,     \* the chunk in the engine
  calls    \* calls made so far

muteVars == <<hold, mute, locks, thread, job, calls>>

Threads == Clients \cup {Hotkeys}
Free == "free"       \* who has a lock that nobody has
MUTE_LEVEL_MAX == 2

ASSUME MutingAssumption ==
  /\ Hotkeys \notin Clients /\ Free \notin Threads
  /\ Levels \subseteq Nat
  /\ MaxCalls \in Nat /\ MaxJobs \in Nat /\ MaxRequests \in Nat

-----------------------------------------------------------------------------
(* `set hotkeys`: the new keymap is registered once the `set` lock is let  *)
(* go.  The fault: under it.                                               *)
set_hotkeys_locked == <<"lock_set", "join_hotkeys", "unlock_set">>
set_hotkeys == <<"lock_set", "unlock_set", "join_hotkeys">>

(* The calls, as the steps each one takes.  A value for "hold_now" other   *)
(* than 0 raises the hold before the change.                               *)
Script(call) ==
  CASE call = "set_mute_level" ->
         <<"lock_set", "lock_change", "hold_now", "apply", "follow", "end_change",
           "record", "unlock_set">>
    [] call = "mute" \/ call = "unmute" ->
         <<"lock_change", "hold_now", "admit", "apply", "end_admit", "follow", "end_change">>
    [] call = "mute_press" ->
         <<"lock_change", "admit", "choose", "hold_now", "apply", "follow", "end_change",
           "end_admit", "record_mute">>
    [] call = "rate_press" ->
         <<"lock_set", "admit", "end_admit", "unlock_set">>
    [] call = "set_hotkeys" ->
         set_hotkeys
    [] call = "enable_agent" ->
         <<"agent_set", "lock_change", "follow", "end_change">>

Idle == [call |-> "none", todo |-> <<>>, value |-> 0, done |-> TRUE]

(* What Hold::set(on) does, one atomic at a time.  Only a raise moves the  *)
(* epoch, and it moves before the hold changes.                            *)
set(on) == IF on THEN <<"move_epoch", "swap_held">> ELSE <<"swap_free">>

MutingInit ==
  /\ mute \in [reader : {FALSE}, agent : BOOLEAN, level : 0..MUTE_LEVEL_MAX,
               stored : 0..MUTE_LEVEL_MAX]
  /\ mute.level = IF mute.agent THEN mute.stored ELSE 0
  /\ hold = [held |-> mute.level >= 1, epoch |-> 0, gen |-> 0]
  /\ locks = [set |-> Free, change |-> Free, admit |-> Free]
  /\ thread = [t \in Threads |-> Idle]
  /\ job = [at |-> "none", epoch |-> 0, gen |-> 0, sent |-> 0, gone |-> FALSE, n |-> 0]
  /\ calls = 0

muted == mute.reader \/ (mute.agent /\ mute.level >= 1)

-----------------------------------------------------------------------------
(* The host's threads.                                                     *)

(* The hotkey thread is joined: no press is handed to it until the new     *)
(* keymap is registered.                                                   *)
joining == \E t \in Clients : thread[t].todo # <<>> /\ Head(thread[t].todo) = "join_hotkeys"

Call(t, call, value) ==
  /\ calls < MaxCalls /\ thread[t].todo = <<>>
  /\ thread' = [thread EXCEPT ![t] = [call |-> call, todo |-> Script(call),
                                      value |-> value, done |-> TRUE]]
  /\ calls' = calls + 1
  /\ UNCHANGED <<hold, mute, locks, job>>

SetMuteLevel(t) == \E l \in Levels : Call(t, "set_mute_level", l)
ControlMute(t)  == Call(t, "mute", 1)
ControlUnmute(t) == Call(t, "unmute", 0)
SetKeymap(t)   == Call(t, "set_hotkeys", 0)
EnableAgent(t) ==
  /\ ~mute.agent /\ \A u \in Clients : thread[u].call # "enable_agent"
  /\ Call(t, "enable_agent", 0)

(* A press of the mute key, tapped or held, or of a rate key.              *)
PressMute == \E press \in {1, 2} : ~joining /\ Call(Hotkeys, "mute_press", press)
PressRate == ~joining /\ Call(Hotkeys, "rate_press", 0)

(* Thread t is at a step; it takes `steps` before the others it has to do. *)
At(t, name) == thread[t].todo # <<>> /\ Head(thread[t].todo) = name
Then(t, steps) ==
  LET todo == steps \o Tail(thread[t].todo)
  IN  thread' = [thread EXCEPT ![t] = IF todo = <<>> THEN Idle ELSE [@ EXCEPT !.todo = todo]]

Lock(t, name, lock) ==
  /\ At(t, name) /\ locks[lock] = Free
  /\ locks' = [locks EXCEPT ![lock] = t]
  /\ Then(t, <<>>) /\ UNCHANGED <<hold, mute, job, calls>>

Unlock(t, name, lock) ==
  /\ At(t, name)
  /\ locks' = [locks EXCEPT ![lock] = Free]
  /\ Then(t, <<>>) /\ UNCHANGED <<hold, mute, job, calls>>

(* Quiet::change keeps mute changes apart.  The fault: it does not.        *)
change_unlocked(t) ==
  /\ At(t, "lock_change") /\ Then(t, <<>>) /\ UNCHANGED <<hold, mute, locks, job, calls>>
change(t) == Lock(t, "lock_change", "change")

Locks(t) == \/ Lock(t, "lock_set", "set") \/ Unlock(t, "unlock_set", "set")
            \/ change(t) \/ Unlock(t, "end_change", "change")
            \/ Lock(t, "admit", "admit") \/ Unlock(t, "end_admit", "admit")

(* Change::hold_now, when the change mutes.                                *)
HoldNow(t) ==
  /\ At(t, "hold_now")
  /\ Then(t, IF thread[t].value >= 1 THEN set(TRUE) ELSE <<>>)
  /\ UNCHANGED <<hold, mute, locks, job, calls>>

(* Quiet::follow, as the change ends.                                      *)
follow(t) ==
  /\ At(t, "follow") /\ Then(t, set(muted))
  /\ UNCHANGED <<hold, mute, locks, job, calls>>

MoveEpoch(t) ==
  /\ At(t, "move_epoch") /\ hold' = [hold EXCEPT !.epoch = @ + 1]
  /\ Then(t, <<>>) /\ UNCHANGED <<mute, locks, job, calls>>

(* The hold is swapped; one newly up cancels what the engines have out.    *)
SwapHeld(t) ==
  /\ At(t, "swap_held") /\ hold' = [hold EXCEPT !.held = TRUE]
  /\ Then(t, IF hold.held THEN <<>> ELSE <<"cancel">>)
  /\ UNCHANGED <<mute, locks, job, calls>>

SwapFree(t) ==
  /\ At(t, "swap_free") /\ hold' = [hold EXCEPT !.held = FALSE]
  /\ Then(t, <<>>) /\ UNCHANGED <<mute, locks, job, calls>>

CancelTokens(t) ==
  /\ At(t, "cancel") /\ hold' = [hold EXCEPT !.gen = @ + 1]
  /\ Then(t, <<>>) /\ UNCHANGED <<mute, locks, job, calls>>

(* The level a press goes to; without the agent it toggles the reader's.   *)
next_mute_level(level, press) ==
  CASE level = 2 \/ (level = 1 /\ press = 1) -> 0
    [] level = 0 /\ press = 1 -> 1
    [] OTHER -> 2

Choose(t) ==
  /\ At(t, "choose")
  /\ thread' = [thread EXCEPT
       ![t].todo = Tail(@),
       ![t].call = IF mute.agent THEN "level_press" ELSE @,
       ![t].value = IF mute.agent THEN next_mute_level(mute.level, @)
                    ELSE IF mute.reader THEN 0 ELSE 1]
  /\ UNCHANGED <<hold, mute, locks, job, calls>>

(* The change itself: the agent's level, refused when there is no agent or *)
(* no such level, or the reader's mute.                                    *)
Apply(t) ==
  LET th == thread[t]
      level == th.call \in {"set_mute_level", "level_press"}
      ok == level => mute.agent /\ th.value <= MUTE_LEVEL_MAX
  IN  /\ At(t, "apply")
      /\ mute' = IF ~ok THEN mute
                 ELSE IF level THEN [mute EXCEPT !.level = th.value]
                 ELSE [mute EXCEPT !.reader = th.value = 1]
      /\ thread' = [thread EXCEPT ![t].todo = Tail(@), ![t].done = ok]
      /\ UNCHANGED <<hold, locks, job, calls>>

(* `set` stores the value it applied; a press stores the level in force.   *)
Record(t) ==
  LET th == thread[t]
      keep == IF th.call = "set_mute_level" THEN th.value ELSE mute.level
  IN  /\ At(t, "record")
      /\ mute' = IF th.done /\ mute.agent THEN [mute EXCEPT !.stored = keep] ELSE mute
      /\ Then(t, <<>>) /\ UNCHANGED <<hold, locks, job, calls>>

(* The press of an agent's user that took effect is stored under the `set` *)
(* lock, taken once the others are let go.                                 *)
record_mute(t) ==
  /\ At(t, "record_mute")
  /\ Then(t, IF thread[t].done /\ mute.agent THEN <<"lock_set", "record", "unlock_set">> ELSE <<>>)
  /\ UNCHANGED <<hold, mute, locks, job, calls>>

(* The agent starts with the level stored.                                 *)
AgentSet(t) ==
  /\ At(t, "agent_set")
  /\ mute' = [mute EXCEPT !.agent = TRUE, !.level = mute.stored]
  /\ Then(t, <<>>) /\ UNCHANGED <<hold, locks, job, calls>>

(* Stopping the old hotkeys waits for the press being carried out.         *)
JoinHotkeys(t) ==
  /\ At(t, "join_hotkeys") /\ thread[Hotkeys].todo = <<>>
  /\ Then(t, <<>>) /\ UNCHANGED <<hold, mute, locks, job, calls>>

Step(t) == \/ Locks(t) \/ HoldNow(t) \/ follow(t) \/ MoveEpoch(t) \/ SwapHeld(t)
           \/ SwapFree(t) \/ CancelTokens(t) \/ Choose(t) \/ Apply(t) \/ Record(t)
           \/ record_mute(t) \/ AgentSet(t) \/ JoinHotkeys(t)

-----------------------------------------------------------------------------
(* The synthesis thread and the engine.                                    *)

Goes(at) == job' = [job EXCEPT !.at = at]
Engine == UNCHANGED <<hold, mute, locks, thread, calls>>

(* External::begin, under the synthesis queue's lock: the epoch is read    *)
(* before the generation (`mark`).                                         *)
MarkEpoch ==
  /\ job.at \in {"none", "local", "provider", "dropped"} /\ job.n < MaxJobs
  /\ job' = [at |-> "marking", epoch |-> hold.epoch, gen |-> 0, sent |-> 0,
             gone |-> FALSE, n |-> job.n + 1]
  /\ Engine

MarkGeneration ==
  /\ job.at = "marking" /\ job' = [job EXCEPT !.at = "begun", !.gen = hold.gen]
  /\ Engine

(* External::synthesize: muted, the chunk is read with the fallback.       *)
CheckHeld ==
  /\ job.at = "begun" /\ Goes(IF hold.held THEN "local" ELSE "checking")
  /\ Engine

CheckGeneration ==
  /\ job.at = "checking" /\ Goes(IF job.gen = hold.gen THEN "ready" ELSE "cancelled")
  /\ Engine

(* Cached, blocked, without a key or a voice: no request.                  *)
NoRequest == job.at = "ready" /\ Goes("local") /\ Engine

(* CancelToken::run: nothing is sent under an older generation, and an     *)
(* answer that comes after a cancel is dropped.                            *)
Send ==
  /\ job.at = "ready" /\ job.sent < MaxRequests
  /\ job' = IF job.gen = hold.gen THEN [job EXCEPT !.at = "sent", !.sent = @ + 1]
            ELSE [job EXCEPT !.at = "cancelled"]
  /\ Engine

(* The answer is audio, a failure (read with the fallback), or the next    *)
(* part or a retry is sent.                                                *)
Answer ==
  /\ job.at = "sent"
  /\ IF job.gen = hold.gen THEN \E at \in {"provider", "local", "ready"} : Goes(at)
     ELSE Goes("cancelled")
  /\ Engine

(* A cancel that came from the hold, now up or up and down again since the *)
(* mark: the chunk is read locally.  The fault: a mute that was lifted     *)
(* again is taken for the reader's cancel.                                 *)
cut_by_hold_now(epoch) == hold.held
cut_by_hold(epoch) == hold.held \/ hold.epoch # epoch

Cancelled ==
  /\ job.at = "cancelled" /\ Goes(IF cut_by_hold(job.epoch) THEN "local" ELSE "dropped")
  /\ Engine

(* The item ended: the reader cancels the engine that has its chunk.       *)
Working == {"begun", "checking", "ready", "sent", "cancelled"}
ReaderCancel ==
  /\ job.at \in Working /\ ~job.gone
  /\ job' = [job EXCEPT !.gone = TRUE]
  /\ hold' = [hold EXCEPT !.gen = @ + 1]
  /\ UNCHANGED <<mute, locks, thread, calls>>

Synthesis == MarkEpoch \/ MarkGeneration \/ CheckHeld \/ CheckGeneration \/ NoRequest
             \/ Send \/ Answer \/ Cancelled \/ ReaderCancel

ClientCalls == \E t \in Clients : SetMuteLevel(t) \/ ControlMute(t) \/ ControlUnmute(t)
                                  \/ SetKeymap(t) \/ EnableAgent(t)
Presses == PressMute \/ PressRate
HostSteps == \E t \in Threads : Step(t)

MutingNext == ClientCalls \/ Presses \/ HostSteps \/ Synthesis
MutingSpec == MutingInit /\ [][MutingNext]_muteVars
MutingFair == \A t \in Threads : WF_muteVars(Step(t))

-----------------------------------------------------------------------------
(* Properties.                                                             *)

(* A mute never costs a chunk: one that the engine gives up was cancelled  *)
(* by the reader, however quickly a mute came and went (External's         *)
(* cut_by_hold, with the epoch of the mark).                               *)
NotDropped == job.at = "dropped" => job.gone

(* Once the hold is up, the chunk in the engine is under an old cancel     *)
(* generation: it sends no further request, and the answer of one that is  *)
(* out is not used (Hold::set against External::mark).                     *)
RequestCut ==
  /\ hold.held
  /\ \A t \in Threads : ~At(t, "cancel")
  /\ job.at \in {"checking", "ready", "sent"}
  => job.gen # hold.gen

(* At rest, external engines are held exactly while Sonara is muted, and   *)
(* the level stored is the one in force, whatever changes overlapped       *)
(* (Quiet::change, record_mute).                                           *)
AtRest ==
  (\A t \in Threads : thread[t].todo = <<>>)
  => /\ hold.held = muted
     /\ mute.agent => mute.stored = mute.level

(* A mute holds external engines: from the moment it is up, and whatever   *)
(* changes of clients and of the mute key overlapped.                      *)
HoldFollows == RequestCut /\ AtRest

(* Every call returns, so that after the last one the host is at rest: the *)
(* `set` lock, the mute change, the admission lock and the join of the     *)
(* hotkey thread are never waited for in a circle (system_ext.rs perform,  *)
(* messages.rs set).                                                       *)
CallsReturn == []<>(\A t \in Threads : thread[t].todo = <<>>)
=============================================================================
