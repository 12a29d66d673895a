---------------------------- MODULE AudioControl ----------------------------
(***************************************************************************)
(* When other apps are ducked or paused: the audio worker of sonara-system *)
(* (audio.rs), the thread that follows the reader's events, and the arming *)
(* of the system extension by its clients (sonarad system_ext.rs).         *)
(*                                                                         *)
(* Callers change the shared status and then send a command; the worker    *)
(* takes one command at a time and brings the platform in line with the    *)
(* status.  What ducking and pausing do to the apps is in Ducker and       *)
(* MediaPauser; here they engage, fail to engage, or are restored.  A      *)
(* step of the worker is one turn of its loop: a change of the status      *)
(* while it works is one before its snapshot or one after the turn.        *)
(***************************************************************************)
EXTENDS Integers, Sequences

CONSTANTS
  Users,       \* TCP clients that may ask for the extension
  Levels,      \* duck levels
  MaxSays,     \* bound: changes of the reader's activity
  MaxSets      \* bound: settings, connections and departures

ASSUME ControlConstants == MaxSays \in Nat /\ MaxSets \in Nat

Modes == {"off", "duck", "pause"}
Activity == {"Idle", "Held", "Stepping", "Speaking"}

VARIABLES
  status,   \* Status: mode, duck_level, armed and activity
  queue,    \* commands sent and not yet taken
  half,     \* a setting that changed the status and is not yet sent
  platform, \* the worker: ducked, level, paused, failed, idle_since, done
  holds,    \* SystemExt: clients, sticky, armed, and whether hotkeys run
  arming,   \* arm and disarm transitions under way
  says,     \* the reader: its activity, and the events sent to the follower
  follow,   \* enable and follow: where they are, the first state, the last sent
  used      \* bounds used up

controlVars == <<status, queue, half, platform, holds, arming, says, follow, used>>

-----------------------------------------------------------------------------
(* The worker.                                                             *)

Never == -1                    \* idle_since is None
IdleGrace == 1                 \* IDLE_GRACE and STEP_GRACE, in ticks
StepGrace == 2

engaged(p) == p.ducked \/ p.paused
restore_all(p) == [p EXCEPT !.ducked = FALSE, !.paused = FALSE, !.idle_since = Never]

(* Ducking or pausing fails when the sessions cannot be listed.            *)
duck(p, level) == {[p EXCEPT !.ducked = TRUE, !.level = level, !.failed = FALSE],
                   [p EXCEPT !.ducked = FALSE, !.failed = TRUE]}
pause(p) == {[p EXCEPT !.paused = TRUE, !.failed = FALSE], [p EXCEPT !.failed = TRUE]}

want(s) == s.armed /\ s.activity = "Speaking" /\ s.mode # "off"

(* The grace of an activity; Never: restored at once.                      *)
grace_for(a) == CASE a = "Idle" -> IdleGrace
                  [] a = "Stepping" -> StepGrace
                  [] OTHER -> Never

engage(p, s) ==
  LET q == [p EXCEPT !.idle_since = Never]
      other == [q EXCEPT !.ducked = @ /\ s.mode = "duck", !.paused = @ /\ s.mode = "pause"]
  IN IF engaged(other) THEN {other}
     ELSE IF s.mode = "duck" THEN duck(other, s.duck_level) ELSE pause(other)

release(p, s) ==
  LET wait == grace_for(s.activity)
      since == IF p.idle_since = Never THEN 0 ELSE p.idle_since
  IN IF s.armed /\ s.mode # "off" /\ wait # Never /\ since < wait
     THEN [p EXCEPT !.idle_since = since]
     ELSE restore_all(p)

reconcile(p, s) ==
  IF want(s) THEN engage(p, s)
  ELSE IF engaged(p) THEN {release(p, s)}
  ELSE {[p EXCEPT !.idle_since = Never]}

(* Fault: a new level waits for the next duck.                             *)
carry_out_later(c, p) == IF c.cmd = "Mode" THEN {restore_all(p)} ELSE {p}

(* What a command does before the worker reconciles.                       *)
carry_out(c, p) ==
  CASE c.cmd = "Mode" -> {restore_all(p)}
    [] c.cmd = "Level" /\ p.ducked -> duck(p, c.level)
    [] OTHER -> {p}

Take ==
  /\ ~platform.done /\ queue # <<>>
  /\ queue' = Tail(queue)
  /\ LET c == Head(queue)
     IN IF c.cmd = "Shutdown"
        THEN /\ platform' = [restore_all(platform) EXCEPT !.done = TRUE]
             /\ UNCHANGED status
        ELSE /\ status' = IF c.cmd = "Activity" THEN [status EXCEPT !.activity = c.to] ELSE status
             /\ \E p \in carry_out(c, platform) : platform' \in reconcile(p, status')
  /\ UNCHANGED <<half, holds, arming, says, follow, used>>

(* recv_timeout: the grace ran out.                                        *)
GraceOver ==
  /\ ~platform.done /\ queue = <<>> /\ platform.idle_since # Never
  /\ platform.idle_since >= (IF grace_for(status.activity) = Never THEN IdleGrace
                             ELSE grace_for(status.activity))
  /\ platform' \in reconcile(platform, status)
  /\ UNCHANGED <<status, queue, half, holds, arming, says, follow, used>>

Later ==
  /\ platform.idle_since \in 0..StepGrace - 1
  /\ platform' = [platform EXCEPT !.idle_since = @ + 1]
  /\ UNCHANGED <<status, queue, half, holds, arming, says, follow, used>>

-----------------------------------------------------------------------------
(* The callers.                                                            *)

Uses == used.sets < MaxSets /\ used' = [used EXCEPT !.sets = @ + 1]
Closed == \E i \in 1..Len(queue) : queue[i].cmd = "Shutdown"
send(c) == queue' = IF platform.done \/ Closed THEN queue ELSE Append(queue, c)

(* set_mode and set_duck_level, one at a time (the host's set lock).       *)
SetMode(m) == /\ half = <<>> /\ Uses
              /\ status' = [status EXCEPT !.mode = m]
              /\ half' = <<[cmd |-> "Mode"]>>
              /\ UNCHANGED <<queue, platform, holds, arming, says, follow>>

SetLevel(l) == /\ half = <<>> /\ Uses
               /\ status' = [status EXCEPT !.duck_level = l]
               /\ half' = <<[cmd |-> "Level", level |-> l]>>
               /\ UNCHANGED <<queue, platform, holds, arming, says, follow>>

SendSet == /\ half # <<>> /\ send(half[1]) /\ half' = <<>>
           /\ UNCHANGED <<status, platform, holds, arming, says, follow, used>>

(* The transition lock is free.                                            *)
lock_transition == arming = {}

Transition(on, h) ==
  /\ lock_transition /\ Uses
  /\ holds' = [h EXCEPT !.armed = on]
  /\ arming' = IF on = holds.armed THEN arming ELSE arming \cup {[on |-> on, at |-> "Status"]}
  /\ UNCHANGED <<status, queue, half, platform, says, follow>>

Hold(u) == u \notin holds.clients /\ Transition(TRUE, [holds EXCEPT !.clients = @ \cup {u}])
Keep    == ~holds.sticky /\ Transition(TRUE, [holds EXCEPT !.sticky = TRUE])
Release(u) == /\ u \in holds.clients
              /\ LET left == holds.clients \ {u}
                 IN Transition(holds.armed /\ (left # {} \/ holds.sticky),
                               [holds EXCEPT !.clients = left])

(* arm: the status, the command, then the hotkeys; each may be overtaken   *)
(* by the other threads.                                                   *)
ArmStatus(t) == /\ t.at = "Status"
                /\ status' = [status EXCEPT !.armed = t.on]
                /\ arming' = (arming \ {t}) \cup {[t EXCEPT !.at = "Send"]}
                /\ UNCHANGED <<queue, half, platform, holds, says, follow, used>>
ArmSend(t) == /\ t.at = "Send" /\ send([cmd |-> "Arm"])
              /\ arming' = (arming \ {t}) \cup {[t EXCEPT !.at = "Keys"]}
              /\ UNCHANGED <<status, half, platform, holds, says, follow, used>>
ArmKeys(t) == /\ t.at = "Keys"
              /\ holds' = [holds EXCEPT !.hotkeys = t.on]
              /\ arming' = arming \ {t}
              /\ UNCHANGED <<status, queue, half, platform, says, follow, used>>

(* The runtime exits: the hotkeys stop and the worker is told.             *)
Shutdown == /\ ~Closed /\ ~platform.done /\ Uses
            /\ holds' = [holds EXCEPT !.hotkeys = FALSE]
            /\ send([cmd |-> "Shutdown"])
            /\ UNCHANGED <<status, half, platform, arming, says, follow>>

-----------------------------------------------------------------------------
(* Following the reader.                                                   *)

(* The reader's state changes; a subscriber gets the event.                *)
ReaderChanges(a) ==
  /\ a # says.activity /\ used.says < MaxSays
  /\ used' = [used EXCEPT !.says = @ + 1]
  /\ says' = [activity |-> a, events |-> IF follow.at = "Off" THEN <<>> ELSE Append(says.events, a)]
  /\ UNCHANGED <<status, queue, half, platform, holds, arming, follow>>

(* enable: subscribe, then read the state.                                 *)
Subscribe == /\ follow.at = "Off"
             /\ follow' = [follow EXCEPT !.at = "Read"]
             /\ UNCHANGED <<status, queue, half, platform, holds, arming, says, used>>

ReadState == /\ follow.at = "Read"
             /\ follow' = [follow EXCEPT !.at = "First", !.first = <<says.activity>>]
             /\ UNCHANGED <<status, queue, half, platform, holds, arming, says, used>>

(* The follower sends the first state, then each event that says more.     *)
FollowFirst == /\ follow.at = "First"
               /\ send([cmd |-> "Activity", to |-> follow.first[1]])
               /\ follow' = [at |-> "Events", first |-> follow.first, last |-> follow.first]
               /\ UNCHANGED <<status, half, platform, holds, arming, says, used>>

FollowEvent ==
  /\ follow.at = "Events" /\ says.events # <<>>
  /\ LET a == Head(says.events)
     IN IF follow.last = <<a>> THEN UNCHANGED <<queue, follow>>
        ELSE send([cmd |-> "Activity", to |-> a]) /\ follow' = [follow EXCEPT !.last = <<a>>]
  /\ says' = [says EXCEPT !.events = Tail(@)]
  /\ UNCHANGED <<status, half, platform, holds, arming, used>>

-----------------------------------------------------------------------------
ControlInit ==
  /\ status \in [mode : Modes, duck_level : Levels, armed : {FALSE}, activity : {"Idle"}]
  /\ queue = <<>> /\ half = <<>> /\ arming = {}
  /\ platform = [ducked |-> FALSE, level |-> 0, paused |-> FALSE, failed |-> FALSE,
                 idle_since |-> Never, done |-> FALSE]
  /\ holds = [clients |-> {}, sticky |-> FALSE, armed |-> FALSE, hotkeys |-> FALSE]
  /\ says = [activity |-> "Idle", events |-> <<>>]
  /\ follow = [at |-> "Off", first |-> <<>>, last |-> <<>>]
  /\ used = [sets |-> 0, says |-> 0]

WorkerTurn == Take \/ GraceOver
Calls ==
  \/ \E m \in Modes : SetMode(m)
  \/ \E l \in Levels : SetLevel(l)
  \/ \E u \in Users : Hold(u) \/ Release(u)
  \/ Keep \/ Shutdown
  \/ \E a \in Activity : ReaderChanges(a)
Arms == \E t \in arming : ArmStatus(t) \/ ArmSend(t) \/ ArmKeys(t)
Follower == ReadState \/ FollowFirst \/ FollowEvent

ControlNext == WorkerTurn \/ Later \/ Calls \/ SendSet \/ Arms \/ Subscribe \/ Follower

(* Every thread goes on, and time passes; nobody has to call.              *)
ControlFair == /\ WF_controlVars(WorkerTurn) /\ WF_controlVars(Later)
               /\ WF_controlVars(SendSet) /\ WF_controlVars(Arms) /\ WF_controlVars(Follower)

ControlSpec == ControlInit /\ [][ControlNext]_controlVars /\ ControlFair

-----------------------------------------------------------------------------
(* Nothing is on its way to the worker.                                    *)
AtRest == queue = <<>> /\ half = <<>> /\ arming = {} /\ ~platform.done

(* Whenever the worker has caught up, other apps are ducked or paused by   *)
(* the mode in force and only while an item is read, or while a grace is   *)
(* running; while an item is read they are (unless Windows failed to list  *)
(* them), at the level last set.  After a shutdown they are restored.      *)
Obeys ==
  /\ ~(platform.ducked /\ platform.paused)
  /\ platform.done => ~engaged(platform)
  /\ AtRest /\ engaged(platform) =>
       /\ status.armed /\ status.mode = IF platform.ducked THEN "duck" ELSE "pause"
       /\ want(status) \/ (grace_for(status.activity) # Never /\ platform.idle_since # Never)
       /\ platform.ducked => platform.level = status.duck_level
  /\ AtRest /\ want(status) => engaged(platform) \/ platform.failed

(* Between two transitions the extension is armed exactly while a client   *)
(* needs it, and then the worker is armed and the hotkeys run.             *)
ArmedTogether ==
  arming = {} => /\ holds.armed = (holds.clients # {} \/ holds.sticky)
                 /\ status.armed = holds.armed
                 /\ holds.hotkeys => holds.armed
                 /\ holds.armed /\ ~Closed /\ ~platform.done => holds.hotkeys

(* Once it follows the reader and has caught up, the worker acts on what   *)
(* the reader does now.                                                    *)
FollowsReader ==
  follow.at = "Events" /\ says.events = <<>> /\ AtRest => status.activity = says.activity

(* The worker ends up where settings, clients and the reader say it should *)
(* be, whatever order their commands came in and whichever grace ran out   *)
(* as the next item began (audio.rs run, system_ext.rs arm and follow).    *)
InLine == Obeys /\ ArmedTogether /\ FollowsReader
=============================================================================
