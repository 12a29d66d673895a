---------------------------- MODULE SystemProofs ----------------------------
(***************************************************************************)
(* What the runtime shares with other programs, for any number of them:    *)
(* clients find the one runtime that serves (Launch), other apps are       *)
(* ducked or paused as settings, clients and the reader say                *)
(* (AudioControl), the media Sonara paused is on record until it is        *)
(* resumed (MediaPauser), and the files keep the settings (Settings).      *)
(***************************************************************************)
EXTENDS AudioControl, Launch, MediaPauser, Settings, TLAPS, FiniteSetTheorems, WellFoundedInduction

-----------------------------------------------------------------------------
(* Launch.                                                                 *)

Owning == {"loading", "listening", "serving", "exiting", "closed"}
ProcType == [at : {"unborn", "started", "released", "removing", "gone"} \cup Owning,
             port : Port \cup {0}, old : BOOLEAN]
ToldType == [raced : BOOLEAN, crashes : Nat, commands : Nat]

(* A runtime past its start and before its end holds the mutex; one that   *)
(* looked at the file and is to remove it still finds its own there.       *)
LaunchIInv ==
  /\ proc \in [Pid -> ProcType] /\ told \in ToldType
  /\ \A p \in Pid : proc[p].at \in Owning => mutex = p
  /\ ~told.raced => \A p \in Pid : proc[p].at = "removing" => json.pid = p
  /\ Found

(* A process moves on and nothing else does: unless it begins to serve, to *)
(* hold the mutex or to remove the file, nothing is claimed of it.         *)
LEMMA ProcessMoves ==
  ASSUME LaunchIInv, NEW p \in Pid, NEW r \in ProcType, proc' = [proc EXCEPT ![p] = r],
         r.at \in Owning => mutex' = p,
         \A q \in Pid \ {p} : proc[q].at \in Owning => mutex' = mutex,
         json' = json, told' \in ToldType, told'.raced = told.raced,
         ~told.raced /\ r.at = "removing" => json.pid = p,
         r.at \in {"serving", "exiting"} => proc[p].at \in {"serving", "exiting"} /\ r.port = proc[p].port
  PROVE  LaunchIInv'
<1>1. proc' \in [Pid -> ProcType] /\ proc'[p] = r /\ \A q \in Pid \ {p} : proc'[q] = proc[q]
  BY DEF LaunchIInv
<1> QED  BY <1>1 DEF LaunchIInv, Found

LEMMA GoneType == [Unborn EXCEPT !.at = "gone"] \in ProcType
BY DEF Unborn, ProcType

(* A process that ends.                                                    *)
LEMMA ProcessEnds ==
  ASSUME LaunchIInv, NEW p \in Pid, Ends(p), \A q \in Pid \ {p} : proc[q].at \in Owning => mutex' = mutex,
         json' = json, told' \in ToldType, told'.raced = told.raced
  PROVE  LaunchIInv'
BY GoneType, ProcessMoves DEF Ends, Unborn, Owning

(* Only clients move.                                                      *)
LEMMA LaunchStays ==
  ASSUME LaunchIInv, UNCHANGED <<proc, mutex, json, told>>
  PROVE  LaunchIInv'
BY DEF LaunchIInv, Found

LEMMA SpawnKeeps ==
  ASSUME LaunchIInv, NEW old \in BOOLEAN, Spawns(old), UNCHANGED <<mutex, json, told>>
  PROVE  LaunchIInv'
<1> DEFINE r == [Unborn EXCEPT !.at = "started", !.old = old]
<1>1. r \in ProcType /\ r.at = "started"
  BY DEF Unborn, ProcType
<1>2. proc' = [proc EXCEPT ![NextPid] = r]
  BY DEF Spawns
<1> HIDE DEF r
<1>3. CASE NextPid \in Pid
  BY <1>1, <1>2, <1>3, ProcessMoves DEF Owning, LaunchIInv
<1>4. CASE NextPid \notin Pid
  BY <1>2, <1>4, LaunchStays DEF LaunchIInv
<1> QED  BY <1>3, <1>4

(* Every step of a runtime.                                                *)
LEMMA RuntimeKeeps ==
  ASSUME LaunchIInv, NEW p \in Pid, RuntimeStep(p)
  PROVE  LaunchIInv'
<1>0. proc \in [Pid -> ProcType] /\ proc[p] \in ProcType /\ 0 \notin Pid
  BY LaunchAssumption DEF LaunchIInv
<1> USE DEF Owning
<1>1. CASE acquire(p)
  <2>1. CASE mutex = 0
    <3>1. [proc[p] EXCEPT !.at = "loading"] \in ProcType
      BY <1>0 DEF ProcType
    <3>2. proc' = [proc EXCEPT ![p] = [proc[p] EXCEPT !.at = "loading"]]
      BY <1>1, <2>1 DEF acquire
    <3>3. \A q \in Pid : proc[q].at \notin Owning
      BY <1>0, <2>1 DEF LaunchIInv
    <3> QED  BY <1>0, <1>1, <2>1, <3>1, <3>2, <3>3, ProcessMoves DEF acquire, ProcType, LaunchIInv
  <2>2. CASE mutex # 0
    BY <1>1, <2>2, ProcessEnds DEF acquire, LaunchIInv
  <2> QED  BY <2>1, <2>2
<1>2. CASE write(p)
  <2>1. /\ proc[p].at = "listening" /\ json' = [pid |-> p, port |-> proc[p].port] /\ mutex' = mutex
        /\ told' = [told EXCEPT !.raced = @ \/ \E q \in Pid : proc[q].at = "removing"]
        /\ proc' = [proc EXCEPT ![p] = [proc[p] EXCEPT !.at = "serving"]]
    BY <1>2 DEF write
  <2>2. [proc[p] EXCEPT !.at = "serving"] \in ProcType
    BY <1>0 DEF ProcType
  <2>3. /\ proc' \in [Pid -> ProcType] /\ \A q \in Pid \ {p} : proc'[q] = proc[q]
        /\ proc'[p].at = "serving" /\ proc'[p].port = proc[p].port
    BY <1>0, <2>1, <2>2 DEF ProcType
  <2>4. \A q \in Pid \ {p} : proc[q].at \notin Owning
    BY <2>1 DEF LaunchIInv
  <2>5. told' \in ToldType /\ (told'.raced <=> told.raced \/ \E q \in Pid : proc[q].at = "removing")
    <3>1. told \in ToldType
      BY DEF LaunchIInv
    <3>2. PICK raced \in BOOLEAN : raced <=> (told.raced \/ \E q \in Pid : proc[q].at = "removing")
      OBVIOUS
    <3>3. told' = [told EXCEPT !.raced = raced]
      BY <2>1, <3>1, <3>2 DEF ToldType
    <3> QED  BY <3>1, <3>2, <3>3 DEF ToldType
  <2>6. ~told'.raced => \A q \in Pid : proc'[q].at # "removing"
    BY <2>3, <2>5
  <2> QED  BY <2>1, <2>3, <2>4, <2>5, <2>6 DEF LaunchIInv, Found
<1>3. CASE DecideExit(p)
  <2>1. [proc[p] EXCEPT !.at = "exiting"] \in ProcType
    BY <1>0 DEF ProcType
  <2>2. proc' = [proc EXCEPT ![p] = [proc[p] EXCEPT !.at = "exiting"]]
    BY <1>3 DEF DecideExit
  <2> QED  BY <1>0, <1>3, <2>1, <2>2, ProcessMoves, ZenonT(60) DEF DecideExit, ProcType, LaunchIInv
<1>4. CASE Close(p)
  <2>1. [proc[p] EXCEPT !.at = "closed"] \in ProcType
    BY <1>0 DEF ProcType
  <2>2. proc' = [proc EXCEPT ![p] = [proc[p] EXCEPT !.at = "closed"]]
    BY <1>4 DEF Close
  <2> QED  BY <1>0, <1>4, <2>1, <2>2, ProcessMoves, ZenonT(60) DEF Close, ProcType, LaunchIInv
<1>5. CASE ReleaseMutex(p)
  <2>1. [proc[p] EXCEPT !.at = "released"] \in ProcType
    BY <1>0 DEF ProcType
  <2>2. proc' = [proc EXCEPT ![p] = [proc[p] EXCEPT !.at = "released"]]
    BY <1>5 DEF ReleaseMutex
  <2>3. \A q \in Pid \ {p} : proc[q].at \notin Owning
    BY <1>5 DEF ReleaseMutex, LaunchIInv
  <2> QED  BY <1>0, <1>5, <2>1, <2>2, <2>3, ProcessMoves, ZenonT(60) DEF ReleaseMutex, ProcType, LaunchIInv
<1>6. CASE read_pid(p)
  <2>1. [proc[p] EXCEPT !.at = "removing"] \in ProcType
    BY <1>0 DEF ProcType
  <2>2. CASE ours(p)
    <3>1. proc' = [proc EXCEPT ![p] = [proc[p] EXCEPT !.at = "removing"]]
      BY <1>6, <2>2 DEF read_pid
    <3> QED  BY <1>0, <1>6, <2>1, <2>2, <3>1, ProcessMoves DEF read_pid, ours, ProcType, LaunchIInv
  <2>3. CASE ~ours(p)
    BY <1>6, <2>3, ProcessEnds DEF read_pid, LaunchIInv
  <2> QED  BY <2>2, <2>3
<1>7. CASE remove(p)
  <2>1. /\ proc[p].at = "removing" /\ json' = NoFile /\ mutex' = mutex /\ told' = told
        /\ proc' = [proc EXCEPT ![p] = [Unborn EXCEPT !.at = "gone"]]
    BY <1>7 DEF remove, Ends
  <2>2. /\ proc' \in [Pid -> ProcType] /\ proc'[p].at = "gone"
        /\ \A q \in Pid \ {p} : proc'[q] = proc[q]
    BY <1>0, <2>1, GoneType DEF Unborn
  <2>3. ~told.raced => \A q \in Pid \ {p} : proc[q].at \notin {"removing", "serving", "exiting"}
    BY <2>1 DEF LaunchIInv, Found
  <2> QED  BY <2>1, <2>2, <2>3 DEF LaunchIInv, Found
<1>8. CASE Die(p)
  <2>1. \A q \in Pid \ {p} : proc[q].at \in Owning => mutex' = mutex
    BY <1>0, <1>8 DEF Die, LaunchIInv
  <2>2. told' \in ToldType /\ told'.raced = told.raced
    <3>1. told \in ToldType /\ told.crashes + 1 \in Nat
      BY DEF LaunchIInv, ToldType
    <3> QED  BY <1>8, <3>1 DEF Die, ToldType
  <2> QED  BY <1>8, <2>1, <2>2, ProcessEnds DEF Die
<1>9. CASE \E o \in Port : Listen(p, o)
  <2>1. PICK o \in Port : Listen(p, o)
    BY <1>9
  <2>2. [proc[p] EXCEPT !.at = "listening", !.port = o] \in ProcType
    BY <1>0 DEF ProcType
  <2>3. proc' = [proc EXCEPT ![p] = [proc[p] EXCEPT !.at = "listening", !.port = o]]
    BY <1>0, <2>1 DEF Listen, ProcType
  <2>4. mutex = p /\ UNCHANGED <<mutex, json, told>> /\ told \in ToldType
    BY <2>1 DEF Listen, LaunchIInv
  <2>5. [proc[p] EXCEPT !.at = "listening", !.port = o].at = "listening"
    BY <1>0 DEF ProcType
  <2> QED  BY <2>2, <2>3, <2>4, <2>5, ProcessMoves
<1> QED  BY <1>1, <1>2, <1>3, <1>4, <1>5, <1>6, <1>7, <1>8, <1>9 DEF RuntimeStep

(* Clients change no runtime but by starting one, or by asking the one     *)
(* that serves to exit.                                                    *)
LEMMA ClientsKeep ==
  ASSUME LaunchIInv,
         OldStarts \/ (\E h \in Hook : HookStep(h)) \/ CliStep \/ \E o \in Port : OtherListens(o)
  PROVE  LaunchIInv'
<1>1. CASE OldStarts
  BY <1>1, SpawnKeeps DEF OldStarts
<1>2. CASE \E h \in Hook : HookStep(h)
  <2>1. PICK h \in Hook : HookStep(h)
    BY <1>2
  <2>2. CASE StartRuntime(h)
    BY <2>2, SpawnKeeps DEF StartRuntime, start_runtime
  <2>3. CASE ~StartRuntime(h)
    <3>1. UNCHANGED <<proc, mutex, json, told>>
      BY <2>1, <2>3 DEF HookStep, Deliver, HookConnects, Applies, Replied, NoReply, MayStart, Poll, Deadline
    <3> QED  BY <3>1, LaunchStays
  <2> QED  BY <2>2, <2>3
<1>3. CASE Launches
  BY <1>3, SpawnKeeps DEF Launches, start_runtime
<1>4. CASE Attach
  <2> DEFINE q == client[CLI].rt.pid
  <2>1. UNCHANGED <<mutex, json, told>>
    BY <1>4 DEF Attach
  <2>2. CASE proc' = proc
    BY <2>1, <2>2, LaunchStays
  <2>3. CASE q \in Pid /\ proc[q].at = "serving" /\ proc' = [proc EXCEPT ![q].at = "exiting"]
    <3>1. [proc[q] EXCEPT !.at = "exiting"] \in ProcType
      BY <2>3 DEF ProcType, LaunchIInv, Owning
    <3>2. proc' = [proc EXCEPT ![q] = [proc[q] EXCEPT !.at = "exiting"]]
      BY <2>3
    <3> HIDE DEF q
    <3> QED  BY <2>1, <2>3, <3>1, <3>2, ProcessMoves DEF ProcType, LaunchIInv, Owning
  <2> QED  BY <1>4, <2>2, <2>3 DEF Attach, Listens
<1>5. CASE \E cmd \in {"start", "stop"} : Command(cmd)
  <2>1. UNCHANGED <<proc, mutex, json>> /\ told' \in ToldType /\ told'.raced = told.raced
    <3>1. told \in ToldType /\ told.commands + 1 \in Nat
      BY DEF LaunchIInv, ToldType
    <3> QED  BY <1>5, <3>1 DEF Command, ToldType
  <2> QED  BY <2>1 DEF LaunchIInv, Found
<1>6. CASE wait_gone \/ AttachStarted \/ Deadline(CLI)
  BY <1>6, LaunchStays DEF wait_gone, AttachStarted, Deadline
<1>7. CASE \E o \in Port : OtherListens(o)
  BY <1>7, LaunchStays DEF OtherListens
<1> QED  BY <1>1, <1>2, <1>3, <1>4, <1>5, <1>6, <1>7 DEF CliStep

(* For any runtimes, ports and hooks: the file names the runtime that      *)
(* serves, and at most one does, wherever others die or end (instance.rs,  *)
(* runtime_file.rs remove_if_ours).                                        *)
THEOREM LaunchFound == LaunchSpec => []Found
<1>1. LaunchInit => LaunchIInv
  BY DEF LaunchInit, LaunchIInv, Found, Unborn, ProcType, Owning, ToldType
<1>2. LaunchIInv /\ [LaunchNext]_launchVars => LaunchIInv'
  <2> SUFFICES ASSUME LaunchIInv, [LaunchNext]_launchVars
               PROVE  LaunchIInv'
    OBVIOUS
  <2>1. CASE UNCHANGED launchVars
    BY <2>1, LaunchStays DEF launchVars
  <2>2. CASE LaunchNext
    BY <2>2, RuntimeKeeps, ClientsKeep DEF LaunchNext
  <2> QED  BY <2>1, <2>2
<1>3. LaunchIInv => Found
  BY DEF LaunchIInv
<1> QED  BY <1>1, <1>2, <1>3, PTL DEF LaunchSpec
-----------------------------------------------------------------------------
(* AudioControl.                                                           *)

Commands == [cmd : {"Mode", "Arm", "Shutdown"}] \cup [cmd : {"Level"}, level : Levels]
            \cup [cmd : {"Activity"}, to : Activity]

StatusType == [mode : Modes, duck_level : Levels, armed : BOOLEAN, activity : Activity]
PlatformType == [ducked : BOOLEAN, level : Levels \cup {0}, paused : BOOLEAN, failed : BOOLEAN,
                 idle_since : {-1, 0, 1, 2}, done : BOOLEAN]
HoldsType == [clients : SUBSET Users, sticky : BOOLEAN, armed : BOOLEAN, hotkeys : BOOLEAN]
SaysType == [activity : Activity, events : Seq(Activity)]
FollowType == [at : {"Off", "Read", "First", "Events"}, first : Seq(Activity), last : Seq(Activity)]

(* The state of the worker and its callers has its type.                   *)
ControlType ==
  /\ status \in StatusType /\ queue \in Seq(Commands) /\ half \in Seq(Commands) /\ Len(half) <= 1
  /\ platform \in PlatformType /\ holds \in HoldsType /\ says \in SaysType /\ follow \in FollowType
  /\ arming \in SUBSET [on : BOOLEAN, at : {"Status", "Send", "Keys"}]

(* A command is on its way, or none will be taken any more.                *)
Has(q, x) == \E i \in 1..Len(q) : q[i].cmd = x
Comes(x) == Has(half, x) \/ Has(queue, x) \/ Has(queue, "Shutdown") \/ platform.done
Arming == Comes("Arm") \/ \E t \in arming : t.at = "Send"

(* The newest command of a kind that is queued is about v.                 *)
NewestOf(q, x, i) == q[i].cmd = x /\ \A j \in i + 1..Len(q) : q[j].cmd # x
LevelsTo(q, v) == \A i \in 1..Len(q) : NewestOf(q, "Level", i) => q[i].level = v
ActsTo(q, v) == \A i \in 1..Len(q) : NewestOf(q, "Activity", i) => q[i].to = v

InForceNow == IF platform.ducked THEN "duck" ELSE "pause"
Graced == grace_for(status.activity) # Never /\ platform.idle_since # Never

(* What the worker did is what the status asks for, but for what is still  *)
(* on its way.                                                             *)
WorkerSettled ==
  /\ ~(platform.ducked /\ platform.paused)
  /\ platform.done => ~engaged(platform) /\ platform.idle_since = Never
  /\ engaged(platform) /\ ~Comes("Mode") => status.mode = InForceNow
  /\ engaged(platform) /\ ~Arming => status.armed
  /\ engaged(platform) /\ ~Comes("Mode") /\ ~Arming => want(status) \/ Graced
  /\ want(status) /\ ~Comes("Mode") /\ ~Arming => engaged(platform) \/ platform.failed
  /\ platform.ducked /\ ~Comes("Level") => platform.level = status.duck_level

(* The newest level sent is the one last set.                              *)
LevelSent ==
  /\ Has(half, "Level") => half[1].level = status.duck_level
  /\ ~Has(half, "Activity")
  /\ ~Has(half, "Level") /\ ~Has(queue, "Shutdown") /\ ~platform.done =>
       LevelsTo(queue, status.duck_level)

(* One transition at a time, to what the clients need.                     *)
OneTransition ==
  /\ \A t, u \in arming : t = u
  /\ \A t \in arming : t.on = holds.armed
  /\ (\A t \in arming : t.at # "Status") => status.armed = holds.armed
  /\ holds.armed = (holds.clients # {} \/ holds.sticky)
  /\ arming = {} /\ holds.hotkeys => holds.armed
  /\ arming = {} /\ holds.armed /\ ~Has(queue, "Shutdown") /\ ~platform.done => holds.hotkeys

(* The events that are still to come end with what the reader does now;    *)
(* what the follower sent last is the newest that the worker will know.    *)
Followed ==
  /\ says.events # <<>> => says.events[Len(says.events)] = says.activity
  /\ follow.at \in {"First", "Events"} => Len(follow.first) = 1
  /\ follow.at = "First" /\ says.events = <<>> => follow.first[1] = says.activity
  /\ follow.at = "Events" =>
       /\ Len(follow.last) = 1
       /\ says.events = <<>> => follow.last[1] = says.activity
       /\ ~Has(queue, "Shutdown") /\ ~platform.done =>
            /\ ActsTo(queue, follow.last[1])
            /\ ~Has(queue, "Activity") => status.activity = follow.last[1]

(* The inductive invariant.                                                *)
ControlIInv == ControlType /\ WorkerSettled /\ LevelSent /\ OneTransition /\ Followed
-----------------------------------------------------------------------------
(* Short sequences.                                                        *)

LEMMA AtMostOne ==
  ASSUME NEW S, NEW q \in Seq(S), q # <<>>, Len(q) <= 1
  PROVE  Len(q) = 1
<1>1. PICK n \in Nat : n = Len(q)
  OBVIOUS
<1>2. Len(q) >= 1
  OBVIOUS
<1>3. n >= 1 /\ n <= 1
  BY <1>1, <1>2
<1>4. n = 1
  BY <1>3
<1> QED  BY <1>1, <1>4

LEMMA JustOne ==
  ASSUME NEW S, NEW a \in S
  PROVE  <<a>> \in Seq(S)
OBVIOUS

LEMMA WithoutFirst ==
  ASSUME NEW S, NEW q \in Seq(S), q # <<>>
  PROVE  /\ Tail(q) \in Seq(S)
         /\ Tail(q) # <<>> => Tail(q)[Len(Tail(q))] = q[Len(q)]
         /\ Tail(q) = <<>> => Head(q) = q[Len(q)]
<1>1. /\ Tail(q) \in Seq(S) /\ Len(q) \in Nat /\ Len(q) >= 1 /\ Len(Tail(q)) = Len(q) - 1
      /\ Head(q) = q[1] /\ \A i \in 1..Len(Tail(q)) : Tail(q)[i] = q[i + 1]
  OBVIOUS
<1>2. ASSUME Tail(q) # <<>>
      PROVE  Tail(q)[Len(Tail(q))] = q[Len(q)]
  <2>1. Len(Tail(q)) >= 1
    BY <1>1, <1>2
  <2> QED  BY <1>1, <2>1
<1>3. ASSUME Tail(q) = <<>>
      PROVE  Head(q) = q[Len(q)]
  <2>1. Len(Tail(q)) < 1
    <3>1. Len(<<>>) < 1
      OBVIOUS
    <3> QED  BY <1>3, <3>1
  <2>2. Len(q) = 1
    BY <1>1, <2>1
  <2> QED  BY <1>1, <2>2
<1> QED  BY <1>1, <1>2, <1>3

-----------------------------------------------------------------------------
(* The commands on their way.                                              *)

LEMMA CommandFields ==
  ASSUME NEW c \in Commands
  PROVE  /\ c.cmd \in {"Mode", "Arm", "Shutdown", "Level", "Activity"}
         /\ c.cmd = "Level" => c.level \in Levels
         /\ c.cmd = "Activity" => c.to \in Activity
BY DEF Commands

(* Taking the first command.                                               *)
LEMMA Taken ==
  ASSUME NEW q \in Seq(Commands), q # <<>>
  PROVE  /\ Tail(q) \in Seq(Commands) /\ q[1] \in Commands /\ Head(q) = q[1]
         /\ \A x : Has(q, x) <=> q[1].cmd = x \/ Has(Tail(q), x)
         /\ \A v : LevelsTo(q, v) => /\ LevelsTo(Tail(q), v)
                                     /\ q[1].cmd = "Level" /\ ~Has(Tail(q), "Level") => q[1].level = v
         /\ \A v : ActsTo(q, v) => /\ ActsTo(Tail(q), v)
                                   /\ q[1].cmd = "Activity" /\ ~Has(Tail(q), "Activity") => q[1].to = v
<1>1. /\ Tail(q) \in Seq(Commands) /\ q[1] \in Commands /\ Head(q) = q[1] /\ Len(q) \in Nat /\ Len(q) >= 1
      /\ Len(Tail(q)) = Len(q) - 1 /\ \A i \in 1..Len(Tail(q)) : Tail(q)[i] = q[i + 1]
  OBVIOUS
<1>2. ASSUME NEW x
      PROVE  Has(q, x) <=> q[1].cmd = x \/ Has(Tail(q), x)
  <2>1. ASSUME Has(q, x), q[1].cmd # x
        PROVE  Has(Tail(q), x)
    <3>1. PICK i \in 1..Len(q) : q[i].cmd = x
      BY <2>1 DEF Has
    <3>2. i - 1 \in 1..Len(Tail(q)) /\ Tail(q)[i - 1] = q[i]
      BY <1>1, <2>1, <3>1
    <3> QED  BY <3>1, <3>2 DEF Has
  <2>2. ASSUME Has(Tail(q), x)
        PROVE  Has(q, x)
    <3>1. PICK i \in 1..Len(Tail(q)) : Tail(q)[i].cmd = x
      BY <2>2 DEF Has
    <3>2. i + 1 \in 1..Len(q) /\ Tail(q)[i] = q[i + 1]
      BY <1>1, <3>1
    <3> QED  BY <3>1, <3>2 DEF Has
  <2>3. q[1].cmd = x => Has(q, x)
    BY <1>1 DEF Has
  <2> QED  BY <2>1, <2>2, <2>3
<1>3. ASSUME NEW x, NEW i \in 1..Len(Tail(q)), NewestOf(Tail(q), x, i)
      PROVE  i + 1 \in 1..Len(q) /\ NewestOf(q, x, i + 1) /\ Tail(q)[i] = q[i + 1]
  <2>1. i + 1 \in 1..Len(q) /\ Tail(q)[i] = q[i + 1]
    BY <1>1
  <2>2. ASSUME NEW j \in (i + 1) + 1..Len(q)
        PROVE  q[j].cmd # x
    <3>1. j - 1 \in i + 1..Len(Tail(q)) /\ Tail(q)[j - 1] = q[j]
      BY <1>1
    <3> QED  BY <1>3, <3>1 DEF NewestOf
  <2> QED  BY <1>3, <2>1, <2>2 DEF NewestOf
<1>4. ASSUME NEW x, q[1].cmd = x, ~Has(Tail(q), x)
      PROVE  1 \in 1..Len(q) /\ NewestOf(q, x, 1)
  <2>1. ASSUME NEW j \in 1 + 1..Len(q)
        PROVE  q[j].cmd # x
    <3>1. j - 1 \in 1..Len(Tail(q)) /\ Tail(q)[j - 1] = q[j]
      BY <1>1
    <3> QED  BY <1>4, <3>1 DEF Has
  <2> QED  BY <1>1, <1>4, <2>1 DEF NewestOf
<1>5. ASSUME NEW v, LevelsTo(q, v)
      PROVE  LevelsTo(Tail(q), v) /\ (q[1].cmd = "Level" /\ ~Has(Tail(q), "Level") => q[1].level = v)
  BY <1>3, <1>4, <1>5 DEF LevelsTo
<1>6. ASSUME NEW v, ActsTo(q, v)
      PROVE  ActsTo(Tail(q), v) /\ (q[1].cmd = "Activity" /\ ~Has(Tail(q), "Activity") => q[1].to = v)
  BY <1>3, <1>4, <1>6 DEF ActsTo
<1> QED  BY <1>1, <1>2, <1>5, <1>6

(* Sending one more.                                                       *)
LEMMA Appended ==
  ASSUME NEW q \in Seq(Commands), NEW c \in Commands
  PROVE  /\ Append(q, c) \in Seq(Commands)
         /\ \A x : Has(Append(q, c), x) <=> Has(q, x) \/ c.cmd = x
         /\ \A v : LevelsTo(Append(q, c), v) <=> IF c.cmd = "Level" THEN c.level = v ELSE LevelsTo(q, v)
         /\ \A v : ActsTo(Append(q, c), v) <=> IF c.cmd = "Activity" THEN c.to = v ELSE ActsTo(q, v)
<1> DEFINE a == Append(q, c)
           n == Len(q)
<1>1. /\ a \in Seq(Commands) /\ n \in Nat /\ Len(a) = n + 1 /\ a[n + 1] = c
      /\ \A i \in 1..n : a[i] = q[i] /\ i \in 1..Len(a)
  OBVIOUS
<1>2. \A i \in 1..Len(a) : i = n + 1 \/ i \in 1..n
  BY <1>1
<1> HIDE DEF a, n
<1>3. n + 1 \in 1..Len(a) /\ n + 1 \notin 1..n
  BY <1>1
<1>4. \A x : Has(a, x) <=> Has(q, x) \/ c.cmd = x
  BY <1>1, <1>2, <1>3 DEF Has, n
<1>5. \A x : NewestOf(a, x, n + 1) <=> c.cmd = x
  <2>1. \A j \in (n + 1) + 1..Len(a) : FALSE
    BY <1>1
  <2> QED  BY <1>1, <2>1 DEF NewestOf
<1>6. ASSUME NEW x, NEW i \in 1..n
      PROVE  NewestOf(a, x, i) <=> NewestOf(q, x, i) /\ c.cmd # x
  <2>1. a[i] = q[i] /\ n + 1 \in i + 1..Len(a)
    BY <1>1
  <2>2. \A j \in i + 1..Len(a) : j = n + 1 \/ (j \in i + 1..n /\ a[j] = q[j])
    BY <1>1
  <2>3. \A j \in i + 1..n : j \in i + 1..Len(a) /\ a[j] = q[j]
    BY <1>1
  <2> QED  BY <1>1, <2>1, <2>2, <2>3 DEF NewestOf, n
<1>7. ASSUME NEW v
      PROVE  LevelsTo(a, v) <=> IF c.cmd = "Level" THEN c.level = v ELSE LevelsTo(q, v)
  BY <1>1, <1>2, <1>3, <1>5, <1>6 DEF LevelsTo, n
<1>8. ASSUME NEW v
      PROVE  ActsTo(a, v) <=> IF c.cmd = "Activity" THEN c.to = v ELSE ActsTo(q, v)
  BY <1>1, <1>2, <1>3, <1>5, <1>6 DEF ActsTo, n
<1> QED  BY <1>1, <1>4, <1>7, <1>8 DEF a

(* A command is queued, unless the worker ends or was told to.             *)
LEMMA Sent ==
  ASSUME NEW c \in Commands, queue \in Seq(Commands), send(c)
  PROVE  /\ queue' \in Seq(Commands)
         /\ \A x : Has(queue, x) => Has(queue', x)
         /\ \/ (platform.done \/ Has(queue, "Shutdown")) /\ queue' = queue
            \/ /\ ~platform.done /\ ~Has(queue, "Shutdown")
               /\ \A x : Has(queue', x) <=> Has(queue, x) \/ c.cmd = x
               /\ \A v : LevelsTo(queue', v) <=> IF c.cmd = "Level" THEN c.level = v ELSE LevelsTo(queue, v)
               /\ \A v : ActsTo(queue', v) <=> IF c.cmd = "Activity" THEN c.to = v ELSE ActsTo(queue, v)
<1>1. Closed <=> Has(queue, "Shutdown")
  BY DEF Closed, Has
<1>2. CASE platform.done \/ Closed
  BY <1>1, <1>2 DEF send
<1>3. CASE ~(platform.done \/ Closed)
  BY <1>1, <1>3, Appended DEF send
<1> QED  BY <1>2, <1>3

-----------------------------------------------------------------------------
(* The worker's turn.                                                      *)

Forces(p) == IF p.ducked THEN "duck" ELSE "pause"

(* reconcile: other apps are as the status says, or a grace runs; a mode   *)
(* or a level that was right stays right.                                  *)
LEMMA Reconciled ==
  ASSUME NEW p \in PlatformType, NEW s \in StatusType, NEW q \in reconcile(p, s),
         ~p.done, ~(p.ducked /\ p.paused)
  PROVE  /\ q \in PlatformType /\ ~q.done /\ ~(q.ducked /\ q.paused)
         /\ engaged(q) => s.armed /\ (want(s) \/ (grace_for(s.activity) # Never /\ q.idle_since # Never))
         /\ want(s) => engaged(q) \/ q.failed
         /\ engaged(q) /\ (engaged(p) => s.mode = Forces(p)) => s.mode = Forces(q)
         /\ q.ducked /\ (p.ducked => p.level = s.duck_level) => q.level = s.duck_level
<1> DEFINE n == [p EXCEPT !.idle_since = Never]
           o == [n EXCEPT !.ducked = n.ducked /\ s.mode = "duck", !.paused = n.paused /\ s.mode = "pause"]
<1>0. n \in PlatformType /\ n.ducked = p.ducked /\ n.paused = p.paused /\ ~n.done /\ n.level = p.level
  BY DEF PlatformType, Never
<1>1. CASE want(s)
  <2>1. (n.ducked /\ s.mode = "duck") \in BOOLEAN /\ (n.paused /\ s.mode = "pause") \in BOOLEAN
    OBVIOUS
  <2>2. /\ o \in PlatformType /\ o.ducked = (p.ducked /\ s.mode = "duck")
        /\ o.paused = (p.paused /\ s.mode = "pause") /\ ~o.done /\ o.level = p.level
    <3> HIDE DEF n
    <3> QED  BY <1>0, <2>1 DEF PlatformType
  <2>3. q \in engage(p, s)
    BY <1>1 DEF reconcile
  <2>4. q \in IF engaged(o) THEN {o} ELSE IF s.mode = "duck" THEN duck(o, s.duck_level) ELSE pause(o)
    BY <2>3 DEF engage
  <2> HIDE DEF o, n
  <2>5. s.mode \in {"duck", "pause"} /\ s.armed
    BY <1>1 DEF want, StatusType, Modes
  <2>6. CASE engaged(o)
    BY <1>1, <2>2, <2>4, <2>5, <2>6 DEF engaged, Forces
  <2>7. CASE ~engaged(o) /\ s.mode = "duck"
    <3>1. q = [o EXCEPT !.ducked = TRUE, !.level = s.duck_level, !.failed = FALSE]
          \/ q = [o EXCEPT !.ducked = FALSE, !.failed = TRUE]
      BY <2>4, <2>7 DEF duck
    <3>2. s.duck_level \in Levels
      BY DEF StatusType
    <3> QED  BY <1>1, <2>2, <2>5, <2>7, <3>1, <3>2 DEF engaged, Forces, PlatformType
  <2>8. CASE ~engaged(o) /\ s.mode = "pause"
    <3>1. q = [o EXCEPT !.paused = TRUE, !.failed = FALSE] \/ q = [o EXCEPT !.failed = TRUE]
      BY <2>4, <2>8 DEF pause
    <3> QED  BY <1>1, <2>2, <2>5, <2>8, <3>1 DEF engaged, Forces, PlatformType
  <2> QED  BY <2>5, <2>6, <2>7, <2>8
<1>2. CASE ~want(s) /\ engaged(p)
  <2> DEFINE since == IF p.idle_since = Never THEN 0 ELSE p.idle_since
             wait == grace_for(s.activity)
  <2>1. q = IF s.armed /\ s.mode # "off" /\ wait # Never /\ since < wait
            THEN [p EXCEPT !.idle_since = since] ELSE restore_all(p)
    BY <1>2 DEF reconcile, release
  <2>2. since \in {0, 1, 2}
    BY DEF PlatformType, Never
  <2>3. CASE s.armed /\ s.mode # "off" /\ wait # Never /\ since < wait
    <3>1. q = [p EXCEPT !.idle_since = since]
      BY <2>1, <2>3
    <3> HIDE DEF since, wait
    <3>2. /\ q \in PlatformType /\ q.ducked = p.ducked /\ q.paused = p.paused /\ ~q.done
          /\ q.idle_since = since /\ q.level = p.level
      BY <2>2, <3>1 DEF PlatformType
    <3> QED  BY <1>2, <2>2, <2>3, <3>2 DEF engaged, Forces, Never, wait
  <2>4. CASE ~(s.armed /\ s.mode # "off" /\ wait # Never /\ since < wait)
    <3>1. q = restore_all(p)
      BY <2>1, <2>4
    <3> HIDE DEF since, wait
    <3> QED  BY <1>2, <3>1 DEF restore_all, engaged, PlatformType, Never
  <2> QED  BY <2>3, <2>4
<1>3. CASE ~want(s) /\ ~engaged(p)
  <2>1. q = n
    BY <1>3 DEF reconcile
  <2> HIDE DEF n
  <2> QED  BY <1>0, <1>3, <2>1 DEF engaged
<1> QED  BY <1>1, <1>2, <1>3

(* What a command does first: a mode restores, a level ducks again.        *)
LEMMA CarriedOut ==
  ASSUME NEW c \in Commands, NEW p \in PlatformType, NEW r \in carry_out(c, p),
         ~p.done, ~(p.ducked /\ p.paused)
  PROVE  /\ r \in PlatformType /\ ~r.done /\ ~(r.ducked /\ r.paused)
         /\ c.cmd = "Mode" => ~engaged(r)
         /\ engaged(r) => engaged(p) /\ Forces(r) = Forces(p)
         /\ r.ducked => p.ducked /\ r.level = IF c.cmd = "Level" THEN c.level ELSE p.level
<1>1. CASE c.cmd = "Mode"
  <2>1. r = restore_all(p)
    BY <1>1 DEF carry_out
  <2> QED  BY <1>1, <2>1 DEF restore_all, engaged, PlatformType, Never
<1>2. CASE c.cmd = "Level" /\ p.ducked
  <2>1. r = [p EXCEPT !.ducked = TRUE, !.level = c.level, !.failed = FALSE]
        \/ r = [p EXCEPT !.ducked = FALSE, !.failed = TRUE]
    BY <1>2 DEF carry_out, duck
  <2>2. c.level \in Levels
    BY <1>2, CommandFields
  <2> QED  BY <1>2, <2>1, <2>2 DEF engaged, Forces, PlatformType
<1>3. CASE c.cmd # "Mode" /\ ~(c.cmd = "Level" /\ p.ducked)
  <2>1. r = p
    BY <1>3 DEF carry_out
  <2> QED  BY <1>3, <2>1
<1> QED  BY <1>1, <1>2, <1>3
(* The worker takes a command: Mode, Level, Activity, Arm or Shutdown.     *)
LEMMA TurnTakes ==
  ASSUME ControlIInv, Take
  PROVE  ControlIInv'
<1> DEFINE c == Head(queue)
<1>1. /\ ~platform.done /\ queue # <<>> /\ queue' = Tail(queue)
      /\ UNCHANGED <<half, holds, arming, says, follow>>
  BY DEF Take
<1>2. /\ status \in StatusType /\ queue \in Seq(Commands) /\ platform \in PlatformType
      /\ follow \in FollowType
  BY DEF ControlIInv, ControlType
<1>3. /\ queue' \in Seq(Commands) /\ c \in Commands
      /\ \A x : Has(queue, x) <=> c.cmd = x \/ Has(queue', x)
      /\ \A v : LevelsTo(queue, v) => /\ LevelsTo(queue', v)
                                      /\ c.cmd = "Level" /\ ~Has(queue', "Level") => c.level = v
      /\ \A v : ActsTo(queue, v) => /\ ActsTo(queue', v)
                                    /\ c.cmd = "Activity" /\ ~Has(queue', "Activity") => c.to = v
  BY <1>1, <1>2, Taken
<1>4. CASE c.cmd = "Shutdown"
  <2>1. platform' = [restore_all(platform) EXCEPT !.done = TRUE] /\ status' = status
    BY <1>4 DEF Take
  <2>2. /\ platform' \in PlatformType /\ platform'.done /\ ~engaged(platform')
        /\ ~platform'.ducked /\ platform'.idle_since = Never
    BY <1>2, <2>1 DEF restore_all, PlatformType, engaged, Never
  <2> HIDE DEF c
  <2>3. ControlType'
    BY <1>1, <1>3, <2>1, <2>2 DEF ControlIInv, ControlType
  <2>4. WorkerSettled'
    BY <2>2 DEF WorkerSettled, Comes, Arming
  <2>5. LevelSent' /\ OneTransition' /\ Followed'
    BY <1>1, <2>1, <2>2 DEF ControlIInv, LevelSent, OneTransition, Followed
  <2> QED  BY <2>3, <2>4, <2>5 DEF ControlIInv
<1>5. CASE c.cmd # "Shutdown"
  <2>1. /\ status' = IF c.cmd = "Activity" THEN [status EXCEPT !.activity = c.to] ELSE status
        /\ \E p \in carry_out(c, platform) : platform' \in reconcile(p, status')
    BY <1>5 DEF Take
  <2> HIDE DEF c
  <2>2. PICK r \in carry_out(c, platform) : platform' \in reconcile(r, status')
    BY <2>1
  <2>3. /\ status' \in StatusType /\ status'.mode = status.mode /\ status'.armed = status.armed
        /\ status'.duck_level = status.duck_level
        /\ status'.activity = IF c.cmd = "Activity" THEN c.to ELSE status.activity
    BY <1>2, <1>3, <2>1, CommandFields DEF StatusType
  <2>4. ~(platform.ducked /\ platform.paused)
    BY DEF ControlIInv, WorkerSettled
  <2>5. /\ r \in PlatformType /\ ~r.done /\ ~(r.ducked /\ r.paused)
        /\ c.cmd = "Mode" => ~engaged(r)
        /\ engaged(r) => engaged(platform) /\ Forces(r) = Forces(platform)
        /\ r.ducked => platform.ducked /\ r.level = IF c.cmd = "Level" THEN c.level ELSE platform.level
    BY <1>1, <1>2, <1>3, <2>2, <2>4, CarriedOut
  <2>6. /\ platform' \in PlatformType /\ ~platform'.done /\ ~(platform'.ducked /\ platform'.paused)
        /\ engaged(platform') => /\ status'.armed
                                 /\ want(status') \/ Graced'
        /\ want(status') => engaged(platform') \/ platform'.failed
        /\ engaged(platform') /\ (engaged(r) => status'.mode = Forces(r)) => status'.mode = Forces(platform')
        /\ platform'.ducked /\ (r.ducked => r.level = status'.duck_level) => platform'.level = status'.duck_level
    BY <2>2, <2>3, <2>5, Reconciled DEF Graced
  <2>7. ControlType'
    BY <1>1, <1>3, <2>3, <2>6 DEF ControlIInv, ControlType
  <2>8. WorkerSettled'
    <3>1. engaged(platform') /\ ~Comes("Mode")' => status'.mode = Forces(platform')
      BY <1>1, <1>3, <1>5, <2>3, <2>5, <2>6 DEF ControlIInv, WorkerSettled, Comes, InForceNow, Forces
    <3>2. platform'.ducked /\ ~Comes("Level")' => platform'.level = status'.duck_level
      BY <1>1, <1>3, <1>5, <2>3, <2>5, <2>6 DEF ControlIInv, WorkerSettled, LevelSent, Comes
    <3> QED  BY <2>6, <3>1, <3>2 DEF WorkerSettled, InForceNow, Forces
  <2>9. LevelSent'
    BY <1>1, <1>3, <1>5, <2>3 DEF ControlIInv, LevelSent
  <2>10. OneTransition'
    BY <1>1, <1>3, <1>5, <2>3, <2>6 DEF ControlIInv, OneTransition
  <2>11. Followed'
    BY <1>1, <1>3, <1>5, <2>3, <2>6 DEF ControlIInv, Followed
  <2> QED  BY <2>7, <2>8, <2>9, <2>10, <2>11 DEF ControlIInv
<1> QED  BY <1>4, <1>5

(* A grace runs, or runs out.                                              *)
LEMMA GraceKeeps ==
  ASSUME ControlIInv, GraceOver \/ Later
  PROVE  ControlIInv'
<1>1. UNCHANGED <<status, queue, half, holds, arming, says, follow>>
  BY DEF GraceOver, Later
<1>2. status \in StatusType /\ platform \in PlatformType /\ ~(platform.ducked /\ platform.paused)
  BY DEF ControlIInv, ControlType, WorkerSettled
<1>3. CASE GraceOver
  <2>1. ~platform.done /\ platform' \in reconcile(platform, status)
    BY <1>3 DEF GraceOver
  <2>2. /\ platform' \in PlatformType /\ ~platform'.done /\ ~(platform'.ducked /\ platform'.paused)
        /\ engaged(platform') => status.armed /\ (want(status) \/ Graced')
        /\ want(status) => engaged(platform') \/ platform'.failed
        /\ engaged(platform') /\ (engaged(platform) => status.mode = Forces(platform))
             => status.mode = Forces(platform')
        /\ platform'.ducked /\ (platform.ducked => platform.level = status.duck_level)
             => platform'.level = status.duck_level
    BY <1>1, <1>2, <2>1, Reconciled DEF Graced
  <2>3. ControlType'
    BY <1>1, <2>2 DEF ControlIInv, ControlType
  <2>4. WorkerSettled'
    BY <1>1, <2>1, <2>2 DEF ControlIInv, WorkerSettled, Comes, InForceNow, Forces
  <2>5. LevelSent' /\ OneTransition' /\ Followed'
    BY <1>1, <2>1, <2>2 DEF ControlIInv, LevelSent, OneTransition, Followed
  <2> QED  BY <2>3, <2>4, <2>5 DEF ControlIInv
<1>4. CASE Later
  <2>1. /\ platform.idle_since \in {0, 1} /\ platform' = [platform EXCEPT !.idle_since = @ + 1]
    BY <1>4 DEF Later, StepGrace
  <2>2. /\ platform' \in PlatformType /\ platform'.ducked = platform.ducked
        /\ platform'.paused = platform.paused /\ platform'.done = platform.done
        /\ platform'.failed = platform.failed /\ platform'.level = platform.level
        /\ platform'.idle_since # Never
    BY <1>2, <2>1 DEF PlatformType, Never
  <2>3. ~platform.done
    BY <2>1 DEF ControlIInv, WorkerSettled, Never
  <2>4. ControlType'
    BY <1>1, <2>2 DEF ControlIInv, ControlType
  <2>5. WorkerSettled'
    BY <1>1, <2>2, <2>3 DEF ControlIInv, WorkerSettled, Comes, Arming, InForceNow, Graced, engaged
  <2>6. LevelSent' /\ OneTransition' /\ Followed'
    BY <1>1, <2>2 DEF ControlIInv, LevelSent, OneTransition, Followed
  <2> QED  BY <2>4, <2>5, <2>6 DEF ControlIInv
<1> QED  BY <1>3, <1>4
-----------------------------------------------------------------------------
(* The callers and the follower: none of them touches the platform.        *)

(* What the status was changed to is on its way to the worker.             *)
LEMMA StillSettled ==
  ASSUME WorkerSettled, platform' = platform, status'.activity = status.activity,
         Comes("Mode") \/ status'.mode # status.mode => Comes("Mode")',
         Arming \/ status'.armed # status.armed => Arming',
         Comes("Level") \/ status'.duck_level # status.duck_level => Comes("Level")'
  PROVE  WorkerSettled'
<1>1. CASE Comes("Mode")' /\ Arming'
  BY <1>1 DEF WorkerSettled, engaged, Comes
<1>2. CASE ~Comes("Mode")' /\ Arming'
  BY <1>2 DEF WorkerSettled, engaged, InForceNow
<1>3. CASE Comes("Mode")' /\ ~Arming'
  BY <1>3 DEF WorkerSettled, engaged
<1>4. CASE ~Comes("Mode")' /\ ~Arming'
  BY <1>4 DEF WorkerSettled, engaged, InForceNow, want, Graced
<1> QED  BY <1>1, <1>2, <1>3, <1>4

(* set_mode and set_duck_level.                                            *)
LEMMA SetKeeps ==
  ASSUME ControlIInv, (\E m \in Modes : SetMode(m)) \/ \E l \in Levels : SetLevel(l)
  PROVE  ControlIInv'
<1>1. half = <<>> /\ UNCHANGED <<queue, platform, holds, arming, says, follow>>
  BY DEF SetMode, SetLevel
<1>2. status \in StatusType
  BY DEF ControlIInv, ControlType
<1>3. CASE \E m \in Modes : SetMode(m)
  <2>1. PICK m \in Modes : status' = [status EXCEPT !.mode = m] /\ half' = <<[cmd |-> "Mode"]>>
    BY <1>3 DEF SetMode
  <2>2. /\ status' \in StatusType /\ status'.armed = status.armed /\ status'.activity = status.activity
        /\ status'.duck_level = status.duck_level
    BY <1>2, <2>1 DEF StatusType
  <2>3. /\ half' \in Seq(Commands) /\ Len(half') = 1
        /\ Has(half', "Mode") /\ \A x : Has(half', x) => x = "Mode"
    BY <2>1 DEF Commands, Has
  <2>4. \A x : ~Has(half, x)
    BY <1>1 DEF Has
  <2>5. ControlType'
    BY <1>1, <2>2, <2>3 DEF ControlIInv, ControlType
  <2>6. /\ Comes("Mode")' /\ (Arming <=> Arming') /\ (Comes("Level") <=> Comes("Level")')
    BY <1>1, <2>3, <2>4 DEF Comes, Arming
  <2>7. WorkerSettled'
    BY <1>1, <2>2, <2>6, StillSettled DEF ControlIInv
  <2>8. LevelSent' /\ OneTransition' /\ Followed'
    BY <1>1, <2>2, <2>3, <2>4 DEF ControlIInv, LevelSent, OneTransition, Followed
  <2> QED  BY <2>5, <2>7, <2>8 DEF ControlIInv
<1>4. CASE \E l \in Levels : SetLevel(l)
  <2>1. PICK l \in Levels : /\ status' = [status EXCEPT !.duck_level = l]
                            /\ half' = <<[cmd |-> "Level", level |-> l]>>
    BY <1>4 DEF SetLevel
  <2>2. /\ status' \in StatusType /\ status'.armed = status.armed /\ status'.activity = status.activity
        /\ status'.mode = status.mode /\ status'.duck_level = l
    BY <1>2, <2>1 DEF StatusType
  <2>3. /\ half' \in Seq(Commands) /\ Len(half') = 1 /\ half'[1].level = l
        /\ Has(half', "Level") /\ \A x : Has(half', x) => x = "Level"
    BY <2>1 DEF Commands, Has
  <2>4. \A x : ~Has(half, x)
    BY <1>1 DEF Has
  <2>5. ControlType'
    BY <1>1, <2>2, <2>3 DEF ControlIInv, ControlType
  <2>6. /\ Comes("Level")' /\ (Arming <=> Arming') /\ (Comes("Mode") <=> Comes("Mode")')
    BY <1>1, <2>3, <2>4 DEF Comes, Arming
  <2>7. WorkerSettled'
    BY <1>1, <2>2, <2>6, StillSettled DEF ControlIInv
  <2>8. LevelSent' /\ OneTransition' /\ Followed'
    BY <1>1, <2>2, <2>3, <2>4 DEF ControlIInv, LevelSent, OneTransition, Followed
  <2> QED  BY <2>5, <2>7, <2>8 DEF ControlIInv
<1> QED  BY <1>3, <1>4

(* The command of a setting is sent.                                       *)
LEMMA SendSetKeeps ==
  ASSUME ControlIInv, SendSet
  PROVE  ControlIInv'
<1> DEFINE c == half[1]
<1>1. /\ half # <<>> /\ send(c) /\ half' = <<>>
      /\ UNCHANGED <<status, platform, holds, arming, says, follow>>
  BY DEF SendSet
<1>2. queue \in Seq(Commands) /\ half \in Seq(Commands) /\ Len(half) = 1 /\ c \in Commands
  <2>1. queue \in Seq(Commands) /\ half \in Seq(Commands) /\ Len(half) <= 1
    BY DEF ControlIInv, ControlType
  <2>2. half # <<>>
    BY <1>1
  <2>3. Len(half) = 1
    BY <2>1, <2>2, AtMostOne
  <2>4. half[1] \in Commands
    BY <2>1, <2>3
  <2> QED  BY <2>1, <2>3, <2>4
<1>3. (\A x : Has(half, x) <=> c.cmd = x) /\ \A x : ~Has(half', x)
  BY <1>1, <1>2 DEF Has
<1> HIDE DEF c
<1>4. /\ queue' \in Seq(Commands)
      /\ \A x : Has(queue, x) => Has(queue', x)
      /\ \/ (platform.done \/ Has(queue, "Shutdown")) /\ queue' = queue
         \/ /\ ~platform.done /\ ~Has(queue, "Shutdown")
            /\ \A x : Has(queue', x) <=> Has(queue, x) \/ c.cmd = x
            /\ \A v : LevelsTo(queue', v) <=> IF c.cmd = "Level" THEN c.level = v ELSE LevelsTo(queue, v)
            /\ \A v : ActsTo(queue', v) <=> IF c.cmd = "Activity" THEN c.to = v ELSE ActsTo(queue, v)
  BY <1>1, <1>2, Sent
<1>5. ControlType'
  BY <1>1, <1>4 DEF ControlIInv, ControlType
<1>6. \A x : Comes(x) => Comes(x)'
  BY <1>1, <1>3, <1>4 DEF Comes
<1>7. WorkerSettled'
  BY <1>1, <1>6, StillSettled DEF ControlIInv, Arming
<1>8. LevelSent'
  BY <1>1, <1>3, <1>4 DEF ControlIInv, LevelSent, c
<1>9. OneTransition'
  BY <1>1, <1>4 DEF ControlIInv, OneTransition
<1>10. Followed'
  <2>1. c.cmd # "Activity"
    BY <1>3 DEF ControlIInv, LevelSent
  <2> QED  BY <1>1, <1>4, <2>1 DEF ControlIInv, Followed
<1> QED  BY <1>5, <1>7, <1>8, <1>9, <1>10 DEF ControlIInv
(* hold, keep and release: a transition begins.                            *)
LEMMA TransitionKeeps ==
  ASSUME ControlIInv, Keep \/ \E u \in Users : Hold(u) \/ Release(u)
  PROVE  ControlIInv'
<1>1. PICK on \in BOOLEAN, h \in HoldsType :
        Transition(on, h) /\ on = (h.clients # {} \/ h.sticky) /\ h.hotkeys = holds.hotkeys
  <2>0. holds \in HoldsType /\ holds.armed = (holds.clients # {} \/ holds.sticky)
    BY DEF ControlIInv, ControlType, OneTransition
  <2>1. CASE \E u \in Users : Hold(u)
    <3> PICK u \in Users : Hold(u)
      BY <2>1
    <3>1. Transition(TRUE, [holds EXCEPT !.clients = @ \cup {u}])
      BY DEF Hold
    <3>2. /\ [holds EXCEPT !.clients = @ \cup {u}] \in HoldsType
          /\ [holds EXCEPT !.clients = @ \cup {u}].clients # {}
          /\ [holds EXCEPT !.clients = @ \cup {u}].hotkeys = holds.hotkeys
      BY <2>0 DEF HoldsType
    <3> QED  BY <3>1, <3>2
  <2>2. CASE \E u \in Users : Release(u)
    <3> PICK u \in Users : Release(u)
      BY <2>2
    <3> DEFINE left == holds.clients \ {u}
    <3>1. Transition(holds.armed /\ (left # {} \/ holds.sticky), [holds EXCEPT !.clients = left])
      BY DEF Release
    <3>2. /\ [holds EXCEPT !.clients = left] \in HoldsType
          /\ [holds EXCEPT !.clients = left].clients = left
          /\ [holds EXCEPT !.clients = left].sticky = holds.sticky
          /\ [holds EXCEPT !.clients = left].hotkeys = holds.hotkeys
      BY <2>0 DEF HoldsType
    <3>3. /\ (holds.armed /\ (left # {} \/ holds.sticky)) \in BOOLEAN
          /\ (holds.armed /\ (left # {} \/ holds.sticky)) = (left # {} \/ holds.sticky)
      BY <2>0
    <3> QED  BY <3>1, <3>2, <3>3
  <2>3. CASE Keep
    <3>1. Transition(TRUE, [holds EXCEPT !.sticky = TRUE])
      BY <2>3 DEF Keep
    <3>2. /\ [holds EXCEPT !.sticky = TRUE] \in HoldsType /\ [holds EXCEPT !.sticky = TRUE].sticky
          /\ [holds EXCEPT !.sticky = TRUE].hotkeys = holds.hotkeys
      BY <2>0 DEF HoldsType
    <3> QED  BY <3>1, <3>2
  <2> QED  BY <2>1, <2>2, <2>3
<1>2. /\ arming = {} /\ holds' = [h EXCEPT !.armed = on]
      /\ arming' = IF on = holds.armed THEN {} ELSE {[on |-> on, at |-> "Status"]}
      /\ UNCHANGED <<status, queue, half, platform, says, follow>>
  BY <1>1 DEF Transition, lock_transition
<1>3. /\ holds' \in HoldsType /\ holds'.armed = on /\ holds'.clients = h.clients
      /\ holds'.sticky = h.sticky /\ holds'.hotkeys = holds.hotkeys
  BY <1>1, <1>2 DEF HoldsType
<1>4. ControlType'
  BY <1>2, <1>3 DEF ControlIInv, ControlType
<1>5. (\A x : Comes(x) <=> Comes(x)') /\ (Arming => Arming')
  BY <1>2 DEF Comes, Arming
<1>6. WorkerSettled'
  BY <1>2, <1>5, StillSettled DEF ControlIInv
<1>7. LevelSent' /\ Followed'
  BY <1>2 DEF ControlIInv, LevelSent, Followed
<1>8. OneTransition'
  <2>1. CASE on = holds.armed
    BY <1>1, <1>2, <1>3, <2>1 DEF ControlIInv, OneTransition
  <2>2. CASE on # holds.armed
    <3>1. PICK r : r = [on |-> on, at |-> "Status"]
      OBVIOUS
    <3>2. r.on = on /\ r.at = "Status" /\ arming' = {r}
      BY <1>2, <2>2, <3>1
    <3> QED  BY <1>1, <1>3, <3>2 DEF OneTransition
  <2> QED  BY <2>1, <2>2
<1> QED  BY <1>4, <1>6, <1>7, <1>8 DEF ControlIInv

(* arm: the status, the command, the hotkeys.                              *)
LEMMA ArmsKeep ==
  ASSUME ControlIInv, NEW t \in arming, ArmStatus(t) \/ ArmSend(t) \/ ArmKeys(t)
  PROVE  ControlIInv'
<1>1. /\ t \in [on : BOOLEAN, at : {"Status", "Send", "Keys"}] /\ arming = {t} /\ t.on = holds.armed
      /\ status \in StatusType /\ holds \in HoldsType /\ queue \in Seq(Commands)
  BY DEF ControlIInv, ControlType, OneTransition
<1>2. CASE ArmStatus(t)
  <2> DEFINE n == [t EXCEPT !.at = "Send"]
  <2>1. /\ status' = [status EXCEPT !.armed = t.on] /\ arming' = {n}
        /\ UNCHANGED <<queue, half, platform, holds, says, follow>>
    BY <1>1, <1>2 DEF ArmStatus
  <2>2. n \in [on : BOOLEAN, at : {"Status", "Send", "Keys"}] /\ n.at = "Send" /\ n.on = t.on
    BY <1>1
  <2> HIDE DEF n
  <2>3. /\ status' \in StatusType /\ status'.armed = t.on /\ status'.activity = status.activity
        /\ status'.mode = status.mode /\ status'.duck_level = status.duck_level
    BY <1>1, <2>1 DEF StatusType
  <2>4. ControlType'
    BY <2>1, <2>2, <2>3 DEF ControlIInv, ControlType
  <2>5. (\A x : Comes(x) <=> Comes(x)') /\ Arming'
    BY <2>1, <2>2 DEF Comes, Arming
  <2>6. WorkerSettled'
    BY <2>1, <2>3, <2>5, StillSettled DEF ControlIInv
  <2>7. LevelSent' /\ Followed'
    BY <2>1, <2>3 DEF ControlIInv, LevelSent, Followed
  <2>8. OneTransition'
    BY <1>1, <2>1, <2>2, <2>3 DEF ControlIInv, OneTransition
  <2> QED  BY <2>4, <2>6, <2>7, <2>8 DEF ControlIInv
<1>3. CASE ArmSend(t)
  <2> DEFINE n == [t EXCEPT !.at = "Keys"]
             c == [cmd |-> "Arm"]
  <2>1. /\ t.at = "Send" /\ send(c) /\ arming' = {n}
        /\ UNCHANGED <<status, half, platform, holds, says, follow>>
    BY <1>1, <1>3 DEF ArmSend
  <2>2. n \in [on : BOOLEAN, at : {"Status", "Send", "Keys"}] /\ n.at = "Keys" /\ n.on = t.on
    BY <1>1
  <2>3. c \in Commands /\ c.cmd = "Arm"
    BY DEF Commands
  <2> HIDE DEF n, c
  <2>4. /\ queue' \in Seq(Commands)
        /\ \A x : Has(queue, x) => Has(queue', x)
        /\ \/ (platform.done \/ Has(queue, "Shutdown")) /\ queue' = queue
           \/ /\ ~platform.done /\ ~Has(queue, "Shutdown")
              /\ \A x : Has(queue', x) <=> Has(queue, x) \/ x = "Arm"
              /\ \A v : LevelsTo(queue', v) <=> LevelsTo(queue, v)
              /\ \A v : ActsTo(queue', v) <=> ActsTo(queue, v)
    <3>1. c.cmd # "Level" /\ c.cmd # "Activity"
      BY <2>3
    <3> QED  BY <1>1, <2>1, <2>3, <3>1, Sent
  <2>5. ControlType'
    BY <2>1, <2>2, <2>4 DEF ControlIInv, ControlType
  <2>6. (\A x : Comes(x) => Comes(x)') /\ Arming'
    BY <2>1, <2>4 DEF Comes, Arming
  <2>7. WorkerSettled'
    BY <2>1, <2>6, StillSettled DEF ControlIInv
  <2>8. LevelSent' /\ Followed'
    BY <2>1, <2>4 DEF ControlIInv, LevelSent, Followed
  <2>9. OneTransition'
    BY <1>1, <2>1, <2>2, <2>4 DEF ControlIInv, OneTransition
  <2> QED  BY <2>5, <2>7, <2>8, <2>9 DEF ControlIInv
<1>4. CASE ArmKeys(t)
  <2>1. /\ t.at = "Keys" /\ holds' = [holds EXCEPT !.hotkeys = t.on] /\ arming' = {}
        /\ UNCHANGED <<status, queue, half, platform, says, follow>>
    BY <1>1, <1>4 DEF ArmKeys
  <2>2. /\ holds' \in HoldsType /\ holds'.hotkeys = t.on /\ holds'.armed = holds.armed
        /\ holds'.clients = holds.clients /\ holds'.sticky = holds.sticky
    BY <1>1, <2>1 DEF HoldsType
  <2>3. ControlType'
    BY <2>1, <2>2 DEF ControlIInv, ControlType
  <2>4. (\A x : Comes(x) <=> Comes(x)') /\ (Arming => Arming')
    BY <1>1, <2>1 DEF Comes, Arming
  <2>5. WorkerSettled'
    BY <2>1, <2>4, StillSettled DEF ControlIInv
  <2>6. LevelSent' /\ Followed'
    BY <2>1 DEF ControlIInv, LevelSent, Followed
  <2>7. OneTransition'
    BY <1>1, <2>1, <2>2 DEF ControlIInv, OneTransition
  <2> QED  BY <2>3, <2>5, <2>6, <2>7 DEF ControlIInv
<1> QED  BY <1>2, <1>3, <1>4
(* The runtime exits.                                                      *)
LEMMA ShutdownKeeps ==
  ASSUME ControlIInv, Shutdown
  PROVE  ControlIInv'
<1> DEFINE c == [cmd |-> "Shutdown"]
<1>1. /\ holds' = [holds EXCEPT !.hotkeys = FALSE] /\ send(c)
      /\ ~platform.done /\ UNCHANGED <<status, half, platform, arming, says, follow>>
  BY DEF Shutdown
<1>2. c \in Commands /\ c.cmd = "Shutdown"
  BY DEF Commands
<1> HIDE DEF c
<1>3. queue \in Seq(Commands) /\ holds \in HoldsType
  BY DEF ControlIInv, ControlType
<1>4. queue' \in Seq(Commands) /\ Has(queue', "Shutdown")
  BY <1>1, <1>2, <1>3, Sent
<1>5. /\ holds' \in HoldsType /\ ~holds'.hotkeys /\ holds'.armed = holds.armed
      /\ holds'.clients = holds.clients /\ holds'.sticky = holds.sticky
  BY <1>1, <1>3 DEF HoldsType
<1>6. ControlType'
  BY <1>1, <1>4, <1>5 DEF ControlIInv, ControlType
<1>7. WorkerSettled'
  BY <1>1, <1>4, StillSettled DEF ControlIInv, Comes, Arming
<1>8. LevelSent' /\ Followed'
  BY <1>1, <1>4 DEF ControlIInv, LevelSent, Followed
<1>9. OneTransition'
  BY <1>1, <1>4, <1>5 DEF ControlIInv, OneTransition
<1> QED  BY <1>6, <1>7, <1>8, <1>9 DEF ControlIInv

(* The reader goes on, and the follower begins.                            *)
LEMMA ReaderKeeps ==
  ASSUME ControlIInv, (\E a \in Activity : ReaderChanges(a)) \/ Subscribe \/ ReadState
  PROVE  ControlIInv'
<1>1. UNCHANGED <<status, queue, half, platform, holds, arming>>
  BY DEF ReaderChanges, Subscribe, ReadState
<1>2. says \in SaysType /\ follow \in FollowType
  BY DEF ControlIInv, ControlType
<1>3. WorkerSettled'
  BY <1>1, StillSettled DEF ControlIInv, Comes, Arming
<1>4. LevelSent' /\ OneTransition'
  BY <1>1 DEF ControlIInv, LevelSent, OneTransition
<1>5. CASE \E a \in Activity : ReaderChanges(a)
  <2>1. PICK a \in Activity :
          /\ follow' = follow
          /\ says' = [activity |-> a,
                      events |-> IF follow.at = "Off" THEN <<>> ELSE Append(says.events, a)]
    BY <1>5 DEF ReaderChanges
  <2>2. /\ says'.activity = a
        /\ says'.events = IF follow.at = "Off" THEN <<>> ELSE Append(says.events, a)
    BY <2>1
  <2>3. /\ says'.events \in Seq(Activity)
        /\ says'.events # <<>> => says'.events[Len(says'.events)] = a
        /\ follow.at # "Off" => says'.events # <<>>
    <3>1. says.events \in Seq(Activity)
      BY <1>2 DEF SaysType
    <3>2. CASE follow.at = "Off"
      BY <2>2, <3>2
    <3>3. CASE follow.at # "Off"
      <4>1. says'.events = Append(says.events, a)
        BY <2>2, <3>3
      <4> QED  BY <3>1, <4>1
    <3> QED  BY <3>2, <3>3
  <2>4. says' \in SaysType
    BY <2>1, <2>2, <2>3 DEF SaysType
  <2>5. ControlType'
    BY <1>1, <2>1, <2>4 DEF ControlIInv, ControlType
  <2>6. Followed'
    BY <1>1, <2>1, <2>2, <2>3 DEF ControlIInv, Followed
  <2> QED  BY <1>3, <1>4, <2>5, <2>6 DEF ControlIInv
<1>6. CASE Subscribe
  <2>1. says' = says /\ follow' = [follow EXCEPT !.at = "Read"]
    BY <1>6 DEF Subscribe
  <2>2. follow' \in FollowType /\ follow'.at = "Read"
    BY <1>2, <2>1 DEF FollowType
  <2>3. ControlType'
    BY <1>1, <2>1, <2>2 DEF ControlIInv, ControlType
  <2>4. Followed'
    BY <1>1, <2>1, <2>2 DEF ControlIInv, Followed
  <2> QED  BY <1>3, <1>4, <2>3, <2>4 DEF ControlIInv
<1>7. CASE ReadState
  <2>1. says' = says /\ follow' = [follow EXCEPT !.at = "First", !.first = <<says.activity>>]
    BY <1>7 DEF ReadState
  <2>2. says.activity \in Activity
    BY <1>2 DEF SaysType
  <2>3. follow' \in FollowType /\ follow'.at = "First" /\ follow'.first = <<says.activity>>
    <3>1. PICK first \in Seq(Activity) : first = <<says.activity>>
      BY <2>2, JustOne
    <3>2. follow' = [follow EXCEPT !.at = "First", !.first = first]
      BY <2>1, <3>1
    <3> QED  BY <1>2, <3>1, <3>2 DEF FollowType
  <2>4. Len(follow'.first) = 1 /\ follow'.first[1] = says.activity
    BY <2>3
  <2>5. ControlType'
    BY <1>1, <2>1, <2>3 DEF ControlIInv, ControlType
  <2>6. Followed'
    BY <1>1, <2>1, <2>3, <2>4 DEF ControlIInv, Followed
  <2> QED  BY <1>3, <1>4, <2>5, <2>6 DEF ControlIInv
<1> QED  BY <1>5, <1>6, <1>7

(* The follower tells the worker of an activity.                           *)
LEMMA Tells ==
  ASSUME ControlIInv, NEW a \in Activity, send([cmd |-> "Activity", to |-> a]),
         UNCHANGED <<status, half, platform, holds, arming>>
  PROVE  /\ queue' \in Seq(Commands) /\ WorkerSettled' /\ LevelSent' /\ OneTransition'
         /\ ~Has(queue', "Shutdown") /\ ~platform'.done => ActsTo(queue', a) /\ Has(queue', "Activity")
<1>1. [cmd |-> "Activity", to |-> a] \in Commands
  BY DEF Commands
<1>2. PICK c \in Commands : send(c) /\ c.cmd = "Activity" /\ c.to = a
  BY <1>1
<1>3. queue \in Seq(Commands)
  BY DEF ControlIInv, ControlType
<1>4. /\ queue' \in Seq(Commands)
      /\ \A x : Has(queue, x) => Has(queue', x)
      /\ \/ (platform.done \/ Has(queue, "Shutdown")) /\ queue' = queue
         \/ /\ ~platform.done /\ ~Has(queue, "Shutdown") /\ ActsTo(queue', a)
            /\ \A x : Has(queue', x) <=> Has(queue, x) \/ x = "Activity"
            /\ \A v : LevelsTo(queue', v) <=> LevelsTo(queue, v)
  BY <1>2, <1>3, Sent
<1>5. WorkerSettled'
  BY <1>4, StillSettled DEF ControlIInv, Comes, Arming
<1>6. LevelSent' /\ OneTransition'
  BY <1>4 DEF ControlIInv, LevelSent, OneTransition
<1> QED  BY <1>4, <1>5, <1>6
(* The follower's first state, and each event after it.                    *)
LEMMA FollowKeeps ==
  ASSUME ControlIInv, FollowFirst \/ FollowEvent
  PROVE  ControlIInv'
<1>1. UNCHANGED <<status, half, platform, holds, arming>>
  BY DEF FollowFirst, FollowEvent
<1>2. /\ says \in SaysType /\ says.events \in Seq(Activity) /\ says.activity \in Activity
      /\ follow \in FollowType /\ follow.first \in Seq(Activity) /\ follow.last \in Seq(Activity)
  BY DEF ControlIInv, ControlType, SaysType, FollowType
<1>3. CASE FollowFirst
  <2>1. /\ follow.at = "First" /\ send([cmd |-> "Activity", to |-> follow.first[1]]) /\ says' = says
        /\ follow' = [at |-> "Events", first |-> follow.first, last |-> follow.first]
    BY <1>3 DEF FollowFirst
  <2>2. Len(follow.first) = 1 /\ (says.events = <<>> => follow.first[1] = says.activity)
    BY <2>1 DEF ControlIInv, Followed
  <2>3. PICK a \in Activity : a = follow.first[1]
    BY <1>2, <2>2
  <2>4. /\ queue' \in Seq(Commands) /\ WorkerSettled' /\ LevelSent' /\ OneTransition'
        /\ ~Has(queue', "Shutdown") /\ ~platform'.done => ActsTo(queue', a) /\ Has(queue', "Activity")
    BY <1>1, <2>1, <2>3, Tells
  <2>5. /\ follow' \in FollowType /\ follow'.at = "Events"
        /\ follow'.first = follow.first /\ follow'.last = follow.first
    BY <1>2, <2>1 DEF FollowType
  <2>6. ControlType'
    BY <1>1, <2>1, <2>4, <2>5 DEF ControlIInv, ControlType
  <2>7. Followed'
    BY <1>1, <2>1, <2>2, <2>3, <2>4, <2>5 DEF ControlIInv, Followed
  <2> QED  BY <2>4, <2>6, <2>7 DEF ControlIInv
<1>4. CASE FollowEvent
  <2>1. /\ follow.at = "Events" /\ says.events # <<>> /\ says' = [says EXCEPT !.events = Tail(@)]
        /\ \/ follow.last = <<Head(says.events)>> /\ UNCHANGED <<queue, follow>>
           \/ /\ send([cmd |-> "Activity", to |-> Head(says.events)])
              /\ follow' = [follow EXCEPT !.last = <<Head(says.events)>>]
    BY <1>4 DEF FollowEvent
  <2>2. PICK a \in Activity : a = Head(says.events)
    BY <1>2, <2>1
  <2>3. says' \in SaysType /\ says'.activity = says.activity /\ says'.events = Tail(says.events)
    <3>1. PICK e \in Seq(Activity) : e = Tail(says.events)
      BY <1>2, <2>1, WithoutFirst
    <3>2. says' = [says EXCEPT !.events = e]
      BY <1>2, <2>1, <3>1 DEF SaysType
    <3> QED  BY <1>2, <3>1, <3>2 DEF SaysType
  <2>4. /\ says'.events # <<>> => says'.events[Len(says'.events)] = says.activity
        /\ says'.events = <<>> => a = says.activity
    <3>1. PICK e \in Seq(Activity) : e = says.events
      BY <1>2
    <3>2. e # <<>> /\ e[Len(e)] = says.activity
      BY <2>1, <3>1 DEF ControlIInv, Followed
    <3>3. /\ Tail(e) # <<>> => Tail(e)[Len(Tail(e))] = e[Len(e)]
          /\ Tail(e) = <<>> => Head(e) = e[Len(e)]
      BY <3>2, WithoutFirst
    <3> QED  BY <2>2, <2>3, <3>1, <3>2, <3>3
  <2>5. CASE follow.last = <<a>> /\ UNCHANGED <<queue, follow>>
    <3>1. follow.last[1] = a
      BY <2>5
    <3>2. ControlType'
      BY <1>1, <2>3, <2>5 DEF ControlIInv, ControlType
    <3>3. WorkerSettled'
      BY <1>1, <2>5, StillSettled DEF ControlIInv, Comes, Arming
    <3>4. LevelSent' /\ OneTransition'
      BY <1>1, <2>5 DEF ControlIInv, LevelSent, OneTransition
    <3>5. Followed'
      BY <1>1, <2>1, <2>3, <2>4, <2>5, <3>1 DEF ControlIInv, Followed
    <3> QED  BY <3>2, <3>3, <3>4, <3>5 DEF ControlIInv
  <2>6. CASE send([cmd |-> "Activity", to |-> a]) /\ follow' = [follow EXCEPT !.last = <<a>>]
    <3>1. /\ queue' \in Seq(Commands) /\ WorkerSettled' /\ LevelSent' /\ OneTransition'
          /\ ~Has(queue', "Shutdown") /\ ~platform'.done => ActsTo(queue', a) /\ Has(queue', "Activity")
      BY <1>1, <2>6, Tells
    <3>2. PICK last \in Seq(Activity) : last = <<a>>
      BY JustOne
    <3>3. Len(last) = 1 /\ last[1] = a
      BY <3>2
    <3>4. /\ follow' \in FollowType /\ follow'.at = "Events"
          /\ follow'.first = follow.first /\ follow'.last = last
      <4>1. follow' = [follow EXCEPT !.last = last]
        BY <2>6, <3>2
      <4> QED  BY <1>2, <2>1, <4>1 DEF FollowType
    <3>5. ControlType'
      BY <1>1, <2>3, <3>1, <3>4 DEF ControlIInv, ControlType
    <3>6. Followed'
      BY <1>1, <2>1, <2>3, <2>4, <3>1, <3>3, <3>4 DEF ControlIInv, Followed
    <3> QED  BY <3>1, <3>5, <3>6 DEF ControlIInv
  <2> QED  BY <2>1, <2>2, <2>5, <2>6
<1> QED  BY <1>3, <1>4

-----------------------------------------------------------------------------
LEMMA ControlInitially == ControlInit => ControlIInv
<1> SUFFICES ASSUME ControlInit
             PROVE  ControlIInv
  OBVIOUS
<1>1. /\ status \in StatusType /\ ~status.armed /\ status.activity = "Idle"
  BY DEF ControlInit, StatusType, Activity
<1>2. /\ platform \in PlatformType /\ ~engaged(platform) /\ ~platform.done /\ ~platform.ducked
  BY DEF ControlInit, PlatformType, engaged, Never
<1>3. /\ holds \in HoldsType /\ ~holds.armed /\ ~holds.hotkeys /\ holds.clients = {} /\ ~holds.sticky
  BY DEF ControlInit, HoldsType
<1>4. /\ says \in SaysType /\ says.events = <<>> /\ follow \in FollowType /\ follow.at = "Off"
  BY DEF ControlInit, SaysType, FollowType, Activity
<1>5. /\ queue \in Seq(Commands) /\ half \in Seq(Commands) /\ Len(half) = 0 /\ arming = {}
      /\ (\A x : ~Has(queue, x)) /\ (\A x : ~Has(half, x)) /\ \A v : LevelsTo(queue, v)
  BY DEF ControlInit, Has, LevelsTo
<1>6. ControlType
  BY <1>1, <1>2, <1>3, <1>4, <1>5 DEF ControlType
<1>7. WorkerSettled
  BY <1>1, <1>2 DEF WorkerSettled, want
<1>8. LevelSent
  BY <1>5 DEF LevelSent
<1>9. OneTransition
  BY <1>1, <1>3, <1>5 DEF OneTransition, StatusType, HoldsType
<1>10. Followed
  BY <1>4 DEF Followed
<1> QED  BY <1>6, <1>7, <1>8, <1>9, <1>10 DEF ControlIInv

(* What the invariant says when nothing is on its way.                     *)
LEMMA ControlObeys == ControlIInv => InLine
<1> SUFFICES ASSUME ControlIInv
             PROVE  InLine
  OBVIOUS
<1>1. Closed <=> Has(queue, "Shutdown")
  BY DEF Closed, Has
<1>2. AtRest => (\A x : ~Comes(x)) /\ ~Arming
  BY DEF AtRest, Comes, Arming, Has
<1>3. Obeys
  <2>1. AtRest /\ engaged(platform) =>
          /\ status.armed /\ status.mode = InForceNow
          /\ want(status) \/ Graced
          /\ platform.ducked => platform.level = status.duck_level
    BY <1>2 DEF ControlIInv, WorkerSettled
  <2>2. AtRest /\ want(status) => engaged(platform) \/ platform.failed
    BY <1>2 DEF ControlIInv, WorkerSettled
  <2> QED  BY <2>1, <2>2 DEF Obeys, ControlIInv, WorkerSettled, InForceNow, Graced
<1>4. ArmedTogether
  BY <1>1 DEF ControlIInv, OneTransition, ArmedTogether
<1>5. FollowsReader
  <2>1. AtRest => ~platform.done /\ \A x : ~Has(queue, x)
    BY DEF AtRest, Has
  <2> QED  BY <2>1 DEF ControlIInv, Followed, FollowsReader
<1> QED  BY <1>3, <1>4, <1>5 DEF InLine

(* Whatever order settings, clients and the reader's events come in, and   *)
(* for any clients and levels and any number of changes: the worker that   *)
(* has caught up ducks or pauses other apps as they say (audio.rs run,     *)
(* system_ext.rs arm and follow).                                          *)
THEOREM ControlInLine == ControlSpec => []InLine
<1>1. ControlIInv /\ [ControlNext]_controlVars => ControlIInv'
  <2> SUFFICES ASSUME ControlIInv, [ControlNext]_controlVars
               PROVE  ControlIInv'
    OBVIOUS
  <2>1. CASE UNCHANGED controlVars
    <3>1. UNCHANGED <<status, queue, half, platform, holds, arming, says, follow>>
      BY <2>1 DEF controlVars
    <3>2. ControlType' /\ LevelSent' /\ OneTransition' /\ Followed'
      BY <3>1 DEF ControlIInv, ControlType, LevelSent, OneTransition, Followed
    <3>3. WorkerSettled'
      BY <3>1, StillSettled DEF ControlIInv, Comes, Arming
    <3> QED  BY <3>2, <3>3 DEF ControlIInv
  <2>2. CASE WorkerTurn \/ Later
    BY <2>2, TurnTakes, GraceKeeps DEF WorkerTurn
  <2>3. CASE Calls
    BY <2>3, SetKeeps, TransitionKeeps, ShutdownKeeps, ReaderKeeps DEF Calls
  <2>4. CASE SendSet
    BY <2>4, SendSetKeeps
  <2>5. CASE Arms
    BY <2>5, ArmsKeep DEF Arms
  <2>6. CASE Subscribe \/ Follower
    BY <2>6, ReaderKeeps, FollowKeeps DEF Follower
  <2> QED  BY <2>1, <2>2, <2>3, <2>4, <2>5, <2>6 DEF ControlNext
<1> QED  BY <1>1, ControlInitially, ControlObeys, PTL DEF ControlSpec

-----------------------------------------------------------------------------
(* Media pausing.                                                          *)

Apps == Range(AppId)
MediaType == [state : [Sessions -> {"playing", "paused", "gone"}],
              calls : [Sessions -> {"ok", "slow", "fails"}], late : SUBSET Sessions,
              lists : BOOLEAN, now : Nat]
Pending == [session : {{}} \cup {{s} : s \in Sessions}, app : Apps, at : Nat]
Ops == {Rest} \cup [at : {"Pausing", "Call"}, todo : Seq(Sessions), saved : SUBSET Sessions]
              \cup [at : {"Noting"}, pending : SUBSET Pending]
PauserType == [up : BOOLEAN, paused : BOOLEAN, saved : SUBSET Sessions, pending : SUBSET Pending,
               since : Nat, op : Ops]
PauserTypes ==
  /\ media \in MediaType /\ noted \in [apps : SUBSET Apps, at : Nat] /\ pauser \in PauserType
  /\ DOMAIN silenced \subseteq Sessions
  /\ \A s \in DOMAIN silenced : silenced[s] \in [at : Nat, stamp : Nat]

(* The sessions a call has paused and not yet saved.                       *)
Under == IF At("Pausing") \/ At("Call") THEN pauser.op.saved ELSE {}

(* What the steps of a call know: nothing is saved unless media is paused; *)
(* before a pause call its app is on file, under the oldest time.          *)
StepsOK ==
  /\ pauser.saved # {} => pauser.paused
  /\ pauser.paused => At("Rest") /\ pauser.up
  /\ ~pauser.up => At("Rest")
  /\ pauser.since <= media.now
  /\ At("Noting") => pauser.op.pending = pauser.pending
  /\ At("Call") => /\ pauser.op.todo # <<>> /\ AppId[Head(pauser.op.todo)] \in noted.apps
                   /\ noted.at = oldest(pauser.pending)
  /\ \A s \in pauser.saved : AppId[s] \in noted.apps
  /\ pauser.saved # {} =>
       noted.at >= (IF pauser.pending = {} THEN pauser.since ELSE oldest(pauser.pending))
  /\ \A p \in pauser.pending : \A s \in p.session : p.app = AppId[s]

(* A pause that counts is no younger than what it is recorded under.       *)
Younger(t) ==
  /\ t <= media.now
  /\ noted.apps # {} => t <= noted.at
  /\ pauser.paused => t <= pauser.since
  /\ \A p \in pauser.pending : t <= p.at

(* The runtime owes the session a resume.                                  *)
Owed(s) ==
  \/ s \in pauser.saved \cup Under
  \/ \E p \in pauser.pending : p.session = {s} \/ (p.session = {} /\ p.app = AppId[s])

SilencedOK ==
  \A s \in DOMAIN silenced :
    /\ Held(s) /\ Younger(silenced[s].stamp)
    /\ ~expired(silenced[s].stamp) => AppId[s] \in noted.apps /\ (pauser.up => Owed(s))

(* What may be played was taken.                                           *)
TakenOK == /\ pauser.saved \cup Under \subseteq taken
           /\ \A p \in pauser.pending : p.session \subseteq taken

PauserIInv == PauserTypes /\ StepsOK /\ SilencedOK /\ TakenOK

-----------------------------------------------------------------------------
(* The times owed.                                                         *)

(* A set of natural numbers has a least one.                               *)
LEMMA LeastTime ==
  ASSUME NEW D \in SUBSET Nat, D # {}
  PROVE  \E n \in D : \A m \in D : n <= m
<1>1. PICK x \in D : \A y \in D : ~ (<<y, x>> \in OpToRel(<, Nat))
  BY NatLessThanWellFounded, WFMin
<1>2. \A y \in D : <<y, x>> \in OpToRel(<, Nat) <=> y < x
  BY DEF OpToRel
<1>3. \A y \in D : ~(y < x)
  BY <1>1, <1>2, Zenon
<1>4. \A y \in D : x <= y
  BY <1>3
<1> QED  BY <1>4

LEMMA OldestLemma ==
  ASSUME NEW P \in SUBSET Pending, P # {}
  PROVE  /\ oldest(P) \in Nat /\ \A p \in P : oldest(P) <= p.at
         /\ \E p \in P : oldest(P) = p.at
<1> DEFINE D == {p.at : p \in P}
<1>1. \A p \in P : p.at \in Nat
  BY DEF Pending
<1>2. D \in SUBSET Nat /\ D # {}
  BY <1>1
<1>3. \E n \in D : \A m \in D : n <= m
  <2> HIDE DEF D
  <2> QED  BY <1>2, LeastTime
<1>4. \E n \in D : \A p \in P : n <= p.at
  BY <1>3
<1>5. oldest(P) = CHOOSE n \in D : \A p \in P : n <= p.at
  BY Zenon DEF oldest
<1>6. oldest(P) \in D /\ \A p \in P : oldest(P) <= p.at
  BY <1>4, <1>5
<1> QED  BY <1>2, <1>6

(* What is no younger than what is owed is no younger than the file.       *)
LEMMA OldestBound ==
  ASSUME NEW P \in SUBSET Pending, NEW t \in Nat, t <= media.now, media.now \in Nat,
         \A p \in P : t <= p.at
  PROVE  oldest(P) \in Nat /\ t <= oldest(P)
<1>1. CASE P = {}
  BY <1>1 DEF oldest
<1>2. CASE P # {}
  BY <1>2, OldestLemma
<1> QED  BY <1>1, <1>2

-----------------------------------------------------------------------------
(* Shapes.                                                                 *)

LEMMA OpShapes ==
  ASSUME pauser \in PauserType
  PROVE  /\ pauser.op \in Ops
         /\ At("Pausing") \/ At("Call") =>
              /\ pauser.op \in [at : {"Pausing", "Call"}, todo : Seq(Sessions), saved : SUBSET Sessions]
              /\ pauser.op.todo \in Seq(Sessions) /\ pauser.op.saved \subseteq Sessions
         /\ At("Noting") => pauser.op \in [at : {"Noting"}, pending : SUBSET Pending]
         /\ At("Rest") \/ At("Pausing") \/ At("Call") \/ At("Noting")
<1>1. pauser.op \in Ops
  BY DEF PauserType
<1>2. /\ pauser.op.at \in {"Pausing", "Call"} =>
           pauser.op \in [at : {"Pausing", "Call"}, todo : Seq(Sessions), saved : SUBSET Sessions]
      /\ pauser.op.at = "Noting" => pauser.op \in [at : {"Noting"}, pending : SUBSET Pending]
      /\ pauser.op.at \in {"Rest", "Pausing", "Call", "Noting"}
  BY <1>1 DEF Ops, Rest
<1> QED  BY <1>1, <1>2 DEF At

LEMMA PauserFields ==
  ASSUME PauserTypes
  PROVE  /\ pauser.up \in BOOLEAN /\ pauser.paused \in BOOLEAN /\ pauser.saved \subseteq Sessions
         /\ pauser.pending \in SUBSET Pending /\ pauser.since \in Nat /\ pauser.op \in Ops
         /\ media.now \in Nat /\ media.late \subseteq Sessions /\ media.lists \in BOOLEAN
         /\ noted.at \in Nat /\ noted.apps \in SUBSET Apps
         /\ \A s \in DOMAIN silenced : silenced[s].stamp \in Nat /\ silenced[s].at \in Nat
         /\ \A p \in pauser.pending : p.at \in Nat /\ p.app \in Apps
         /\ \A s \in Sessions : AppId[s] \in Apps
<1>1. \A s \in Sessions : AppId[s] \in Apps
  BY PauserConstants DEF Sessions, Apps
<1>2. \A p \in pauser.pending : p.at \in Nat /\ p.app \in Apps
  BY DEF PauserTypes, PauserType, Pending
<1> QED  BY <1>1, <1>2 DEF PauserTypes, PauserType, MediaType

(* What is on file when it is written anew.                                *)
LEMMA RecordLemma ==
  ASSUME PauserTypes, NEW apps \in SUBSET Apps
  PROVE  /\ record(apps) \in [apps : SUBSET Apps, at : Nat]
         /\ record(apps).apps = PendingApps(pauser.pending) \cup apps
         /\ record(apps).apps # {} => record(apps).at = oldest(pauser.pending)
<1>1. pauser.pending \in SUBSET Pending /\ media.now \in Nat
      /\ PendingApps(pauser.pending) \subseteq Apps
  BY PauserFields DEF PendingApps
<1>2. oldest(pauser.pending) \in Nat
  BY <1>1, OldestBound, OldestLemma DEF oldest
<1> DEFINE all == PendingApps(pauser.pending) \cup apps
<1>3. all \in SUBSET Apps
  BY <1>1
<1>4. record(apps) = IF all = {} THEN NoNote ELSE [apps |-> all, at |-> oldest(pauser.pending)]
  BY DEF record
<1> HIDE DEF all
<1>5. /\ record(apps) \in [apps : SUBSET Apps, at : Nat] /\ record(apps).apps = all
      /\ record(apps).apps # {} => record(apps).at = oldest(pauser.pending)
  BY <1>2, <1>3, <1>4 DEF NoNote
<1> QED  BY <1>5 DEF all

(* A call that goes on with its next step.                                 *)
LEMMA OpSet ==
  ASSUME pauser \in PauserType, NEW o \in Ops, pauser' = [pauser EXCEPT !.op = o]
  PROVE  /\ pauser' \in PauserType /\ pauser'.op = o /\ pauser'.up = pauser.up
         /\ pauser'.paused = pauser.paused /\ pauser'.saved = pauser.saved
         /\ pauser'.pending = pauser.pending /\ pauser'.since = pauser.since
BY DEF PauserType

LEMMA PausesOps ==
  ASSUME NEW at \in {"Pausing", "Call"}, NEW todo \in Seq(Sessions), NEW saved \in SUBSET Sessions
  PROVE  [at |-> at, todo |-> todo, saved |-> saved] \in Ops
BY DEF Ops

-----------------------------------------------------------------------------
(* The start.                                                              *)

LEMMA PauserInitLemma == PauserInit => PauserIInv
<1> SUFFICES ASSUME PauserInit PROVE PauserIInv
  OBVIOUS
<1>1. /\ media \in MediaType /\ noted = NoNote /\ pauser = Down /\ silenced = <<>> /\ taken = {}
  <2>1. PICK state \in [Sessions -> {"playing", "paused"}] :
          media = [state |-> state, calls |-> [s \in Sessions |-> "ok"], late |-> {}, lists |-> TRUE,
                   now |-> 0]
    BY DEF PauserInit
  <2>2. /\ state \in [Sessions -> {"playing", "paused", "gone"}]
        /\ [s \in Sessions |-> "ok"] \in [Sessions -> {"ok", "slow", "fails"}]
    OBVIOUS
  <2> QED  BY <2>1, <2>2 DEF PauserInit, MediaType
<1>2. /\ Down \in PauserType /\ ~Down.up /\ ~Down.paused /\ Down.saved = {} /\ Down.pending = {}
      /\ Down.since = 0 /\ Down.op = Rest /\ Rest.at = "Rest"
  BY DEF Down, PauserType, Ops, Rest
<1>3. DOMAIN silenced = {}
  BY <1>1
<1>4. noted \in [apps : SUBSET Apps, at : Nat]
  BY <1>1 DEF NoNote
<1>5. PauserTypes
  BY <1>1, <1>2, <1>3, <1>4 DEF PauserTypes
<1>6. StepsOK /\ SilencedOK /\ TakenOK
  <2>1. pauser.since <= media.now
    BY <1>1, <1>2 DEF MediaType
  <2> QED  BY <1>1, <1>2, <1>3, <2>1 DEF StepsOK, SilencedOK, TakenOK, Under, At
<1> QED  BY <1>5, <1>6 DEF PauserIInv

-----------------------------------------------------------------------------
(* Pausing.                                                                *)

LEMMA PauseMediaLemma ==
  ASSUME PauserIInv, PauseMedia
  PROVE  PauserIInv'
<1> DEFINE o == [at |-> "Pausing", todo |-> Tabs, saved |-> {}]
<1>1. /\ pauser.up /\ At("Rest") /\ ~pauser.paused /\ pauser' = [pauser EXCEPT !.op = o]
      /\ UNCHANGED <<media, noted, silenced, taken>>
  BY DEF PauseMedia
<1>2. o \in Ops /\ o.at = "Pausing" /\ o.saved = {}
  <2>1. Tabs \in Seq(Sessions)
    BY PauserConstants DEF Sessions
  <2> QED  BY <2>1, PausesOps
<1> HIDE DEF o
<1>3. pauser \in PauserType
  BY DEF PauserIInv, PauserTypes
<1>4. /\ pauser' \in PauserType /\ pauser'.op = o /\ pauser'.up = pauser.up
      /\ pauser'.paused = pauser.paused /\ pauser'.saved = pauser.saved
      /\ pauser'.pending = pauser.pending /\ pauser'.since = pauser.since
  BY <1>1, <1>2, <1>3, OpSet
<1>5. PauserTypes'
  BY <1>1, <1>4 DEF PauserIInv, PauserTypes
<1>6. Under' = {} /\ Under = {} /\ pauser.saved = {}
  BY <1>1, <1>2, <1>4 DEF PauserIInv, StepsOK, Under, At
<1>7. StepsOK'
  BY <1>1, <1>2, <1>4, <1>6 DEF PauserIInv, StepsOK, At
<1>8. SilencedOK'
  BY <1>1, <1>4, <1>6 DEF PauserIInv, SilencedOK, Held, Younger, Owed, expired
<1>9. TakenOK'
  BY <1>1, <1>4, <1>6 DEF PauserIInv, TakenOK
<1> QED  BY <1>5, <1>7, <1>8, <1>9 DEF PauserIInv

(* A file written anew has every session that is owed a resume, under a    *)
(* time that is not younger than their pauses.                             *)
LEMMA NoteRecorded ==
  ASSUME PauserIInv, NEW apps \in SUBSET Apps, pauser.up,
         \A s \in pauser.saved \cup Under : AppId[s] \in apps
  PROVE  \A s \in DOMAIN silenced :
           /\ record(apps).apps # {} => silenced[s].stamp <= record(apps).at
           /\ ~expired(silenced[s].stamp) => AppId[s] \in record(apps).apps
<1> SUFFICES ASSUME NEW s \in DOMAIN silenced
             PROVE  /\ record(apps).apps # {} => silenced[s].stamp <= record(apps).at
                    /\ ~expired(silenced[s].stamp) => AppId[s] \in record(apps).apps
  OBVIOUS
<1>1. PauserTypes
  BY DEF PauserIInv
<1>2. /\ record(apps).apps = PendingApps(pauser.pending) \cup apps
      /\ record(apps).apps # {} => record(apps).at = oldest(pauser.pending)
  BY <1>1, RecordLemma
<1>3. silenced[s].stamp \in Nat /\ media.now \in Nat /\ pauser.pending \in SUBSET Pending
  BY <1>1, PauserFields
<1>4. Younger(silenced[s].stamp)
  BY DEF PauserIInv, SilencedOK
<1>5. silenced[s].stamp <= oldest(pauser.pending)
  BY <1>3, <1>4, OldestBound DEF Younger
<1>6. ASSUME ~expired(silenced[s].stamp)
      PROVE  AppId[s] \in PendingApps(pauser.pending) \cup apps
  <2>1. Owed(s)
    BY <1>6 DEF PauserIInv, SilencedOK
  <2>2. CASE s \in pauser.saved \cup Under
    BY <2>2
  <2>3. ASSUME NEW p \in pauser.pending, p.session = {s} \/ (p.session = {} /\ p.app = AppId[s])
        PROVE  AppId[s] \in PendingApps(pauser.pending)
    <3>1. p.app = AppId[s]
      BY <2>3 DEF PauserIInv, StepsOK
    <3> QED  BY <3>1 DEF PendingApps
  <2> QED  BY <2>1, <2>2, <2>3 DEF Owed
<1> QED  BY <1>2, <1>5, <1>6

LEMMA PauseRecordLemma ==
  ASSUME PauserIInv, PauseRecord
  PROVE  PauserIInv'
<1> DEFINE s == Head(pauser.op.todo)
           apps == AppsOf(pauser.op.saved \cup {s})
<1>1. /\ At("Pausing") /\ pauser.op.todo # <<>> /\ UNCHANGED <<media, silenced, taken>>
  BY DEF PauseRecord
<1>2. PauserTypes /\ pauser \in PauserType
  BY DEF PauserIInv, PauserTypes
<1>3. /\ pauser.op \in [at : {"Pausing", "Call"}, todo : Seq(Sessions), saved : SUBSET Sessions]
      /\ pauser.op.todo \in Seq(Sessions) /\ pauser.op.saved \in SUBSET Sessions
  BY <1>1, <1>2, OpShapes
<1>4. s \in Sessions /\ Tail(pauser.op.todo) \in Seq(Sessions)
  BY <1>1, <1>3
<1>5. pauser.up /\ ~pauser.paused /\ pauser.saved = {} /\ Under = pauser.op.saved
  BY <1>1, <1>2, PauserFields DEF PauserIInv, StepsOK, At, Under
<1>6. CASE is_playing(s)
  <2> DEFINE o == [pauser.op EXCEPT !.at = "Call"]
  <2>1. noted' = record(apps) /\ pauser' = [pauser EXCEPT !.op = o]
    BY <1>6 DEF PauseRecord
  <2>2. o \in Ops /\ o.at = "Call" /\ o.saved = pauser.op.saved /\ o.todo = pauser.op.todo
    BY <1>3 DEF Ops
  <2> HIDE DEF o
  <2>3. /\ pauser' \in PauserType /\ pauser'.op = o /\ pauser'.up = pauser.up
        /\ pauser'.paused = pauser.paused /\ pauser'.saved = pauser.saved
        /\ pauser'.pending = pauser.pending /\ pauser'.since = pauser.since
    BY <1>2, <2>1, <2>2, OpSet
  <2>4. /\ apps \in SUBSET Apps /\ AppId[s] \in apps
        /\ \A x \in pauser.op.saved : AppId[x] \in apps
    BY <1>2, <1>3, <1>4, PauserFields DEF AppsOf
  <2> HIDE DEF apps, s
  <2>5. /\ record(apps) \in [apps : SUBSET Apps, at : Nat]
        /\ record(apps).apps = PendingApps(pauser.pending) \cup apps
        /\ record(apps).apps # {} => record(apps).at = oldest(pauser.pending)
    BY <1>2, <2>4, RecordLemma
  <2>6. \A x \in DOMAIN silenced :
           /\ record(apps).apps # {} => silenced[x].stamp <= record(apps).at
           /\ ~expired(silenced[x].stamp) => AppId[x] \in record(apps).apps
    BY <1>5, <2>4, NoteRecorded
  <2>7. PauserTypes'
    BY <1>1, <1>2, <2>1, <2>3, <2>5 DEF PauserTypes
  <2>8. Under' = Under
    BY <1>5, <2>2, <2>3 DEF Under, At
  <2>9. oldest(pauser.pending)' = oldest(pauser.pending)
    BY <1>1, <2>3 DEF oldest
  <2>10. StepsOK'
    <3>1. AppId[Head(pauser'.op.todo)] \in noted'.apps /\ noted'.at = oldest(pauser.pending)'
      BY <2>1, <2>2, <2>3, <2>4, <2>5, <2>9 DEF s
    <3> QED  BY <1>1, <1>5, <2>2, <2>3, <3>1 DEF PauserIInv, StepsOK, At
  <2>11. SilencedOK'
    BY <1>1, <1>5, <2>1, <2>3, <2>6, <2>8 DEF PauserIInv, SilencedOK, Held, Younger, Owed, expired
  <2>12. TakenOK'
    BY <1>1, <2>3, <2>8 DEF PauserIInv, TakenOK
  <2> QED  BY <2>7, <2>10, <2>11, <2>12 DEF PauserIInv
<1>7. CASE ~is_playing(s)
  <2> DEFINE o == [pauser.op EXCEPT !.todo = Tail(pauser.op.todo)]
  <2>1. UNCHANGED noted /\ pauser' = [pauser EXCEPT !.op = o]
    BY <1>7 DEF PauseRecord
  <2>2. o \in Ops /\ o.at = "Pausing" /\ o.saved = pauser.op.saved
    BY <1>1, <1>3, <1>4 DEF Ops, At
  <2> HIDE DEF o
  <2>3. /\ pauser' \in PauserType /\ pauser'.op = o /\ pauser'.up = pauser.up
        /\ pauser'.paused = pauser.paused /\ pauser'.saved = pauser.saved
        /\ pauser'.pending = pauser.pending /\ pauser'.since = pauser.since
    BY <1>2, <2>1, <2>2, OpSet
  <2>4. PauserTypes'
    BY <1>1, <1>2, <2>1, <2>3 DEF PauserTypes
  <2>5. Under' = Under
    BY <1>5, <2>2, <2>3 DEF Under, At
  <2>6. StepsOK'
    BY <1>1, <1>5, <2>1, <2>2, <2>3 DEF PauserIInv, StepsOK, At
  <2>7. SilencedOK'
    BY <1>1, <2>1, <2>3, <2>5 DEF PauserIInv, SilencedOK, Held, Younger, Owed, expired
  <2>8. TakenOK'
    BY <1>1, <2>3, <2>5 DEF PauserIInv, TakenOK
  <2> QED  BY <2>4, <2>6, <2>7, <2>8 DEF PauserIInv
<1> QED  BY <1>6, <1>7

LEMMA SilencingLemma ==
  ASSUME PauserTypes, NEW s \in Sessions, NEW at \in Nat
  PROVE  /\ DOMAIN Silencing(s, at) = DOMAIN silenced \cup {s}
         /\ \A x \in DOMAIN silenced : x # s => Silencing(s, at)[x] = silenced[x]
         /\ Silencing(s, at)[s] = Since(at) /\ Since(at) \in [at : Nat, stamp : Nat]
         /\ Since(at).stamp <= at /\ Since(at).stamp <= oldest(pauser.pending)
<1>1. oldest(pauser.pending) \in Nat
  <2>1. pauser.pending \in SUBSET Pending /\ media.now \in Nat
    BY PauserFields
  <2>2. CASE pauser.pending = {}
    BY <2>1, <2>2 DEF oldest
  <2>3. CASE pauser.pending # {}
    BY <2>1, <2>3, OldestLemma
  <2> QED  BY <2>2, <2>3
<1>2. /\ Since(at) \in [at : Nat, stamp : Nat]
      /\ Since(at).stamp <= at /\ Since(at).stamp <= oldest(pauser.pending)
  BY <1>1 DEF Since
<1>3. /\ DOMAIN Silencing(s, at) = DOMAIN silenced \cup {s}
      /\ \A x \in DOMAIN silenced : x # s => Silencing(s, at)[x] = silenced[x]
      /\ Silencing(s, at)[s] = Since(at)
  BY DEF Silencing
<1> QED  BY <1>2, <1>3

LEMMA PauseCallLemma ==
  ASSUME PauserIInv, PauseCall
  PROVE  PauserIInv'
<1> DEFINE s == Head(pauser.op.todo)
           done == Open(s) /\ media.calls[s] = "ok"
           quiet == done /\ is_playing(s)
           slow == Open(s) /\ media.calls[s] = "slow"
           sv == IF done \/ slow THEN pauser.op.saved \cup {s} ELSE pauser.op.saved
           o == [at |-> "Pausing", todo |-> Tail(pauser.op.todo), saved |-> sv]
           late == IF slow THEN media.late \cup {s} ELSE media.late
           now == IF done THEN "paused" ELSE media.state[s]
<1>1. /\ At("Call") /\ noted' = noted
      /\ pauser' = [pauser EXCEPT !.op = o]
      /\ media' = [media EXCEPT !.state[s] = now, !.late = late]
      /\ silenced' = IF quiet THEN Silencing(s, media.now) ELSE silenced
      /\ taken' = IF done \/ slow THEN taken \cup {s} ELSE taken
  BY DEF PauseCall
<1>2. PauserTypes /\ pauser \in PauserType /\ media \in MediaType
  BY DEF PauserIInv, PauserTypes
<1>3. /\ pauser.op \in [at : {"Pausing", "Call"}, todo : Seq(Sessions), saved : SUBSET Sessions]
      /\ pauser.op.todo \in Seq(Sessions) /\ pauser.op.saved \in SUBSET Sessions
      /\ pauser.op.todo # <<>> /\ AppId[s] \in noted.apps /\ noted.at = oldest(pauser.pending)
  BY <1>1, <1>2, OpShapes DEF PauserIInv, StepsOK
<1>4. s \in Sessions /\ Tail(pauser.op.todo) \in Seq(Sessions) /\ sv \in SUBSET Sessions
  BY <1>3
<1>5. pauser.up /\ ~pauser.paused /\ pauser.saved = {} /\ Under = pauser.op.saved
  BY <1>1, <1>2, PauserFields DEF PauserIInv, StepsOK, At, Under
<1>6. late \subseteq Sessions /\ now \in {"playing", "paused", "gone"}
  BY <1>2, <1>4, PauserFields DEF MediaType
<1>7. /\ pauser.op.saved \subseteq sv /\ sv \subseteq pauser.op.saved \cup {s}
      /\ (done => s \in sv) /\ (~done /\ ~slow => sv = pauser.op.saved)
  OBVIOUS
<1>8. done => now = "paused"
  OBVIOUS
<1>9. ~done => now = media.state[s]
  OBVIOUS
<1>10. quiet => done
  OBVIOUS
<1> HIDE DEF sv, late, now, done, slow, quiet
<1>11. o \in Ops /\ o.at = "Pausing" /\ o.saved = sv
  BY <1>3, <1>4, PausesOps
<1> HIDE DEF o
<1>12. /\ pauser' \in PauserType /\ pauser'.op = o /\ pauser'.up = pauser.up
       /\ pauser'.paused = pauser.paused /\ pauser'.saved = pauser.saved
       /\ pauser'.pending = pauser.pending /\ pauser'.since = pauser.since
  BY <1>1, <1>2, <1>11, OpSet
<1> HIDE DEF s
<1>13. media' \in MediaType /\ media'.now = media.now /\ media'.state[s] = now
       /\ \A x \in Sessions : x # s => media'.state[x] = media.state[x]
  BY <1>1, <1>2, <1>4, <1>6 DEF MediaType
<1>14. /\ DOMAIN Silencing(s, media.now) = DOMAIN silenced \cup {s}
       /\ \A x \in DOMAIN silenced : x # s => Silencing(s, media.now)[x] = silenced[x]
       /\ Silencing(s, media.now)[s] = Since(media.now) /\ Since(media.now) \in [at : Nat, stamp : Nat]
       /\ Since(media.now).stamp <= media.now /\ Since(media.now).stamp <= oldest(pauser.pending)
  <2>1. media.now \in Nat
    BY <1>2, PauserFields
  <2> QED  BY <1>2, <1>4, <2>1, SilencingLemma
<1>15. PauserTypes'
  <2>1. DOMAIN silenced' \subseteq Sessions
    BY <1>1, <1>2, <1>4, <1>14 DEF PauserTypes
  <2>2. \A x \in DOMAIN silenced' : silenced'[x] \in [at : Nat, stamp : Nat]
    <3> SUFFICES ASSUME NEW x \in DOMAIN silenced' PROVE silenced'[x] \in [at : Nat, stamp : Nat]
      OBVIOUS
    <3>1. CASE quiet /\ x = s
      BY <1>1, <1>14, <3>1
    <3>2. CASE ~quiet \/ x # s
      <4>1. x \in DOMAIN silenced /\ silenced'[x] = silenced[x]
        BY <1>1, <1>14, <3>2
      <4> QED  BY <1>2, <4>1 DEF PauserTypes
    <3> QED  BY <3>1, <3>2
  <2> QED  BY <1>1, <1>2, <1>12, <1>13, <2>1, <2>2 DEF PauserTypes
<1>16. Under' = sv
  BY <1>11, <1>12 DEF Under, At
<1>17. StepsOK'
  BY <1>1, <1>5, <1>11, <1>12 DEF PauserIInv, StepsOK, At
<1>18. SilencedOK'
  <2> SUFFICES ASSUME NEW x \in DOMAIN silenced'
               PROVE  /\ Held(x)' /\ Younger(silenced[x].stamp)'
                      /\ ~expired(silenced[x].stamp)' => AppId[x] \in noted'.apps
                                                         /\ (pauser'.up => Owed(x)')
    BY DEF SilencedOK
  <2>1. CASE quiet /\ x = s
    <3>1. silenced'[x] = Since(media.now)
      BY <1>1, <1>14, <2>1
    <3>2. Held(x)'
      BY <1>8, <1>10, <1>13, <2>1 DEF Held
    <3>3. \A p \in pauser.pending : Since(media.now).stamp <= p.at
      <4>1. pauser.pending \in SUBSET Pending
        BY <1>2, PauserFields
      <4> SUFFICES ASSUME NEW p \in pauser.pending PROVE Since(media.now).stamp <= p.at
        OBVIOUS
      <4>2. oldest(pauser.pending) \in Nat /\ oldest(pauser.pending) <= p.at /\ p.at \in Nat
        BY <1>2, <4>1, PauserFields, OldestLemma
      <4>3. Since(media.now).stamp \in Nat
        BY <1>14
      <4> QED  BY <1>14, <4>2, <4>3
    <3>4. Younger(silenced[x].stamp)'
      BY <1>1, <1>3, <1>5, <1>12, <1>13, <1>14, <3>1, <3>3 DEF Younger
    <3>5. Owed(x)'
      BY <1>7, <1>10, <1>16, <2>1 DEF Owed
    <3> QED  BY <1>1, <1>3, <2>1, <3>2, <3>4, <3>5
  <2>2. CASE ~(quiet /\ x = s)
    <3>1. x \in DOMAIN silenced /\ silenced'[x] = silenced[x]
      BY <1>1, <1>14, <2>2
    <3>2. /\ Held(x) /\ Younger(silenced[x].stamp)
          /\ ~expired(silenced[x].stamp) => AppId[x] \in noted.apps /\ (pauser.up => Owed(x))
      BY <3>1 DEF PauserIInv, SilencedOK
    <3>3. x \in Sessions
      BY <1>2, <3>1 DEF PauserTypes
    <3>4. Held(x)'
      BY <1>8, <1>9, <1>13, <3>2, <3>3 DEF Held
    <3>5. Owed(x) => Owed(x)'
      BY <1>5, <1>7, <1>12, <1>16 DEF Owed
    <3> QED  BY <1>1, <1>12, <1>13, <3>1, <3>2, <3>4, <3>5 DEF Younger, expired
  <2> QED  BY <2>1, <2>2
<1>19. TakenOK'
  <2>1. sv \subseteq taken'
    BY <1>1, <1>5, <1>7 DEF PauserIInv, TakenOK
  <2>2. taken \subseteq taken'
    BY <1>1
  <2> QED  BY <1>5, <1>12, <1>16, <2>1, <2>2 DEF PauserIInv, TakenOK
<1> QED  BY <1>15, <1>17, <1>18, <1>19 DEF PauserIInv

LEMMA PauseDoneLemma ==
  ASSUME PauserIInv, PauseDone
  PROVE  PauserIInv'
<1> DEFINE apps == AppsOf(pauser.op.saved)
           sv == pauser.op.saved
<1>1. /\ At("Pausing")
      /\ pauser' = [pauser EXCEPT !.paused = TRUE, !.since = media.now, !.saved = sv, !.op = Rest]
      /\ noted' = record(apps) /\ UNCHANGED <<media, silenced, taken>>
  BY DEF PauseDone
<1>2. PauserTypes /\ pauser \in PauserType /\ media.now \in Nat
  BY PauserFields DEF PauserIInv, PauserTypes
<1>3. sv \in SUBSET Sessions /\ Under = sv
  BY <1>1, <1>2, OpShapes DEF Under
<1>4. pauser.up /\ ~pauser.paused /\ pauser.saved = {}
  BY <1>1, <1>2, PauserFields DEF PauserIInv, StepsOK, At
<1>5. apps \in SUBSET Apps /\ \A x \in sv : AppId[x] \in apps
  BY <1>2, <1>3, PauserFields DEF AppsOf
<1>6. Rest \in Ops /\ Rest.at = "Rest"
  BY DEF Ops, Rest
<1> HIDE DEF apps, sv
<1>7. /\ pauser' \in PauserType /\ pauser'.op = Rest /\ pauser'.up = pauser.up
      /\ pauser'.paused /\ pauser'.saved = sv
      /\ pauser'.pending = pauser.pending /\ pauser'.since = media.now
  BY <1>1, <1>2, <1>3, <1>6 DEF PauserType
<1>8. /\ record(apps) \in [apps : SUBSET Apps, at : Nat]
      /\ record(apps).apps = PendingApps(pauser.pending) \cup apps
      /\ record(apps).apps # {} => record(apps).at = oldest(pauser.pending)
  BY <1>2, <1>5, RecordLemma
<1>9. \A x \in DOMAIN silenced :
        /\ record(apps).apps # {} => silenced[x].stamp <= record(apps).at
        /\ ~expired(silenced[x].stamp) => AppId[x] \in record(apps).apps
  BY <1>3, <1>4, <1>5, NoteRecorded
<1>10. PauserTypes'
  BY <1>1, <1>2, <1>7, <1>8 DEF PauserTypes
<1>11. Under' = {}
  BY <1>6, <1>7 DEF Under, At
<1>12. StepsOK'
  <2>1. At("Rest")' /\ ~At("Call")' /\ ~At("Noting")'
    BY <1>6, <1>7 DEF At
  <2>2. \A x \in sv : AppId[x] \in noted'.apps
    BY <1>1, <1>5, <1>8
  <2>3. ASSUME sv # {}
        PROVE  noted'.at >= (IF pauser'.pending = {} THEN pauser'.since ELSE oldest(pauser.pending)')
    <3>1. noted'.apps # {}
      BY <2>2, <2>3
    <3>2. noted'.at = oldest(pauser.pending) /\ noted'.at \in Nat
      BY <1>1, <1>8, <3>1
    <3>3. oldest(pauser.pending)' = oldest(pauser.pending)
      BY <1>1, <1>7 DEF oldest
    <3>4. pauser.pending = {} => oldest(pauser.pending) = media.now
      BY DEF oldest
    <3> QED  BY <1>7, <3>2, <3>3, <3>4
  <2>4. \A p \in pauser.pending : \A x \in p.session : p.app = AppId[x]
    BY DEF PauserIInv, StepsOK
  <2>5. pauser'.since <= media'.now
    BY <1>1, <1>2, <1>7
  <2> QED  BY <1>4, <1>7, <2>1, <2>2, <2>3, <2>4, <2>5 DEF StepsOK
<1>13. SilencedOK'
  BY <1>1, <1>3, <1>4, <1>7, <1>9 DEF PauserIInv, SilencedOK, Held, Younger, Owed, expired
<1>14. TakenOK'
  BY <1>1, <1>3, <1>7, <1>11 DEF PauserIInv, TakenOK
<1> QED  BY <1>10, <1>12, <1>13, <1>14 DEF PauserIInv

LEMMA NoteLeftLemma ==
  ASSUME PauserIInv, NoteLeft
  PROVE  PauserIInv'
<1>1. /\ At("Noting") /\ pauser' = [pauser EXCEPT !.op = Rest]
      /\ UNCHANGED <<media, silenced, taken>>
  BY DEF NoteLeft
<1>2. PauserTypes /\ pauser \in PauserType
  BY DEF PauserIInv, PauserTypes
<1>3. pauser.up /\ ~pauser.paused /\ pauser.saved = {} /\ Under = {}
  BY <1>1, <1>2, PauserFields DEF PauserIInv, StepsOK, At, Under
<1>4. noted' = record({})
  <2>1. pauser.op.pending = pauser.pending
    BY <1>1 DEF PauserIInv, StepsOK
  <2>2. pauser.pending = {} <=> PendingApps(pauser.pending) = {}
    BY DEF PendingApps
  <2>3. noted' = IF pauser.pending = {} THEN NoNote
                 ELSE [apps |-> PendingApps(pauser.pending), at |-> oldest(pauser.pending)]
    BY <2>1 DEF NoteLeft
  <2>4. record({}) = IF PendingApps(pauser.pending) = {} THEN NoNote
                     ELSE [apps |-> PendingApps(pauser.pending), at |-> oldest(pauser.pending)]
    <3>1. PendingApps(pauser.pending) \cup {} = PendingApps(pauser.pending)
      OBVIOUS
    <3> QED  BY <3>1 DEF record
  <2> QED  BY <2>2, <2>3, <2>4
<1>5. Rest \in Ops /\ Rest.at = "Rest"
  BY DEF Ops, Rest
<1>6. /\ pauser' \in PauserType /\ pauser'.op = Rest /\ pauser'.up = pauser.up
      /\ pauser'.paused = pauser.paused /\ pauser'.saved = pauser.saved
      /\ pauser'.pending = pauser.pending /\ pauser'.since = pauser.since
  BY <1>1, <1>2, <1>5, OpSet
<1>7. record({}) \in [apps : SUBSET Apps, at : Nat]
  BY <1>2, RecordLemma
<1>8. \A x \in DOMAIN silenced :
        /\ record({}).apps # {} => silenced[x].stamp <= record({}).at
        /\ ~expired(silenced[x].stamp) => AppId[x] \in record({}).apps
  <2>1. \A s \in pauser.saved \cup Under : AppId[s] \in {}
    BY <1>3
  <2> QED  BY <1>3, <2>1, NoteRecorded
<1>9. PauserTypes'
  BY <1>1, <1>2, <1>4, <1>6, <1>7 DEF PauserTypes
<1>10. Under' = {} /\ At("Rest")' /\ ~At("Call")' /\ ~At("Noting")'
  BY <1>5, <1>6 DEF Under, At
<1>11. StepsOK'
  BY <1>1, <1>3, <1>6, <1>10 DEF PauserIInv, StepsOK
<1>12. SilencedOK'
  BY <1>1, <1>3, <1>4, <1>6, <1>8, <1>10
  DEF PauserIInv, SilencedOK, Held, Younger, Owed, expired
<1>13. TakenOK'
  BY <1>1, <1>3, <1>6, <1>10 DEF PauserIInv, TakenOK
<1> QED  BY <1>9, <1>11, <1>12, <1>13 DEF PauserIInv

-----------------------------------------------------------------------------
(* Resuming.                                                               *)

(* Play calls play what they reach, and what they play is given back.      *)
LEMMA PlayLemma ==
  ASSUME PauserTypes, NEW S \in SUBSET Sessions, Play(S)
  PROVE  /\ media' \in MediaType /\ media'.now = media.now /\ media'.lists = media.lists
         /\ DOMAIN silenced' = DOMAIN silenced \ Started(S)
         /\ \A s \in DOMAIN silenced' : silenced'[s] = silenced[s] /\ (Held(s) => Held(s)')
         /\ DOMAIN silenced' \subseteq Sessions
         /\ \A s \in DOMAIN silenced' : silenced'[s] \in [at : Nat, stamp : Nat]
         /\ \A s \in S : Held(s) /\ s \notin Started(S) => s \in taken'
<1>1. media \in MediaType /\ DOMAIN silenced \subseteq Sessions
      /\ \A s \in DOMAIN silenced : silenced[s] \in [at : Nat, stamp : Nat]
  BY DEF PauserTypes
<1> DEFINE state == [s \in Sessions |-> IF s \in Started(S) THEN "playing" ELSE media.state[s]]
<1>2. media' = [media EXCEPT !.state = state]
  BY DEF Play
<1>3. state \in [Sessions -> {"playing", "paused", "gone"}]
  BY <1>1 DEF MediaType
<1>4. \A s \in Sessions : s \notin Started(S) => state[s] = media.state[s]
  OBVIOUS
<1> HIDE DEF state
<1>5. media' \in MediaType /\ media'.now = media.now /\ media'.lists = media.lists
      /\ media'.state = state
  BY <1>1, <1>2, <1>3 DEF MediaType
<1>6. silenced' = [s \in DOMAIN silenced \ Started(S) |-> silenced[s]]
      /\ taken' = {s \in taken \cup S : Held(s) /\ s \notin Started(S)}
  BY DEF Play
<1>7. DOMAIN silenced' = DOMAIN silenced \ Started(S)
      /\ \A s \in DOMAIN silenced' : silenced'[s] = silenced[s]
  BY <1>6
<1> QED  BY <1>1, <1>4, <1>5, <1>6, <1>7 DEF Held

LEMMA TodoLemma ==
  ASSUME PauserTypes
  PROVE  /\ Todo \in SUBSET Pending /\ AppsOnly \subseteq Todo /\ OwnPaused \subseteq Sessions
         /\ \A p \in Todo : \/ p \in pauser.pending
                            \/ \E s \in pauser.saved : p = PendingOf(s, pauser.since)
         /\ \A p \in pauser.pending : ~expired(p.at) => p \in Todo
         /\ \A s \in pauser.saved : PendingOf(s, pauser.since) \in Todo
<1>1. /\ pauser.saved \subseteq Sessions /\ pauser.pending \in SUBSET Pending /\ pauser.since \in Nat
      /\ \A s \in Sessions : AppId[s] \in Apps
  BY PauserFields
<1>2. \A s \in Sessions : PendingOf(s, pauser.since) \in Pending
  BY <1>1 DEF PendingOf, Pending
<1>3. Todo \in SUBSET Pending
  BY <1>1, <1>2 DEF Todo, Owing
<1>4. OwnPaused \subseteq Sessions
  BY <1>3 DEF OwnPaused, Pending
<1> QED  BY <1>3, <1>4 DEF Todo, Owing, AppsOnly

(* What a resume that plays S leaves is what it could not play.            *)
LEMMA LeftLemma ==
  ASSUME PauserIInv, pauser.paused, NEW S \in SUBSET Sessions, OwnPaused \subseteq S,
         media.lists => ByApp(PendingApps(AppsOnly)) \subseteq S
  PROVE  /\ Left(S) \in SUBSET Pending
         /\ \A p \in Left(S) :
              /\ \A s \in p.session : p.app = AppId[s]
              /\ \A s \in p.session : s \in S /\ Held(s) /\ s \notin Started(S)
         /\ \A s \in DOMAIN silenced : \A p \in Left(S) : silenced[s].stamp <= p.at
         /\ \A s \in DOMAIN silenced : s \notin Started(S) /\ ~expired(silenced[s].stamp) =>
              \E p \in Left(S) : p.session = {s} \/ (p.session = {} /\ p.app = AppId[s])
<1> DEFINE mine == {p \in Todo : p.session # {} /\ p.session \subseteq OwnPaused \ Started(S)}
           reached == ByApp(PendingApps(AppsOnly)) \ Started(S)
           failed == Owing(reached, oldest(AppsOnly))
           apps == IF media.lists THEN failed ELSE AppsOnly
<1>1. Left(S) = mine \cup apps
  BY DEF Left
<1>2. PauserTypes
  BY DEF PauserIInv
<1>3. /\ Todo \in SUBSET Pending /\ AppsOnly \subseteq Todo /\ OwnPaused \subseteq Sessions
      /\ \A p \in Todo : \/ p \in pauser.pending
                         \/ \E s \in pauser.saved : p = PendingOf(s, pauser.since)
      /\ \A p \in pauser.pending : ~expired(p.at) => p \in Todo
      /\ \A s \in pauser.saved : PendingOf(s, pauser.since) \in Todo
  BY <1>2, TodoLemma
<1>4. /\ pauser.saved \subseteq Sessions /\ pauser.since \in Nat /\ media.now \in Nat
      /\ pauser.pending \in SUBSET Pending /\ media.lists \in BOOLEAN
      /\ \A s \in Sessions : AppId[s] \in Apps
      /\ \A s \in DOMAIN silenced : silenced[s].stamp \in Nat
      /\ \A p \in pauser.pending : p.at \in Nat
  BY <1>2, PauserFields
<1>5. reached \subseteq Sessions
  BY DEF ByApp
<1>6. ASSUME AppsOnly # {} PROVE oldest(AppsOnly) \in Nat
  BY <1>3, <1>6, OldestLemma
<1>7. reached # {} => AppsOnly # {}
  BY DEF ByApp, PendingApps
<1>8. \A s \in reached : PendingOf(s, oldest(AppsOnly)) \in Pending
  BY <1>4, <1>5, <1>6, <1>7 DEF PendingOf, Pending
<1>9. Left(S) \in SUBSET Pending
  <2>1. failed \in SUBSET Pending
    BY <1>8 DEF Owing
  <2> HIDE DEF failed
  <2> QED  BY <1>1, <1>3, <2>1
<1>10. \A p \in Todo : \A s \in p.session : p.app = AppId[s]
  BY <1>3 DEF PauserIInv, StepsOK, PendingOf
<1>11. \A p \in failed : \E s \in reached : p = PendingOf(s, oldest(AppsOnly))
  BY DEF Owing
<1>12. \A s \in reached : PendingOf(s, oldest(AppsOnly)) \in failed
  BY DEF Owing
<1>13. /\ \A p \in mine : p \in Todo /\ p.session \subseteq OwnPaused \ Started(S)
       /\ \A p \in Todo : p.session # {} /\ p.session \subseteq OwnPaused \ Started(S) => p \in mine
  OBVIOUS
<1>14. \A s \in reached : Held(s) /\ s \notin Started(S) /\ s \in ByApp(PendingApps(AppsOnly))
  BY DEF ByApp
<1>15. \A s \in ByApp(PendingApps(AppsOnly)) : s \notin Started(S) => s \in reached
  OBVIOUS
<1>16. \A s \in OwnPaused : Held(s)
  BY DEF OwnPaused
<1>17. \A s, at : PendingOf(s, at).session = {s} /\ PendingOf(s, at).app = AppId[s]
                  /\ PendingOf(s, at).at = at
  BY DEF PendingOf
<1>18. \A p \in AppsOnly : p \in Todo /\ p.session = {}
  BY DEF AppsOnly
<1> HIDE DEF mine, reached, failed
<1>19. \A p \in Left(S) :
         /\ \A s \in p.session : p.app = AppId[s]
         /\ \A s \in p.session : s \in S /\ Held(s) /\ s \notin Started(S)
  <2> SUFFICES ASSUME NEW p \in Left(S)
               PROVE  \A s \in p.session : p.app = AppId[s] /\ s \in S /\ Held(s)
                                           /\ s \notin Started(S)
    OBVIOUS
  <2>1. CASE p \in mine
    BY <1>10, <1>13, <1>16, <2>1
  <2>2. CASE media.lists /\ p \in failed
    BY <1>11, <1>14, <1>17, <2>2
  <2>3. CASE p \in AppsOnly
    BY <1>18, <2>3
  <2> QED  BY <1>1, <2>1, <2>2, <2>3
<1>20. ASSUME NEW s \in DOMAIN silenced
       PROVE  /\ \A p \in Todo : silenced[s].stamp <= p.at
              /\ \A p \in Left(S) : silenced[s].stamp <= p.at
  <2>1. Younger(silenced[s].stamp)
    BY DEF PauserIInv, SilencedOK
  <2>2. \A p \in Todo : silenced[s].stamp <= p.at
    BY <1>3, <1>17, <2>1 DEF Younger
  <2> SUFFICES ASSUME NEW p \in Left(S) PROVE silenced[s].stamp <= p.at
    BY <2>2
  <2>3. CASE p \in mine
    BY <1>13, <2>2, <2>3
  <2>4. CASE p \in failed
    <3>1. reached # {} /\ p.at = oldest(AppsOnly)
      BY <1>11, <1>17, <2>4
    <3>2. \E q \in AppsOnly : oldest(AppsOnly) = q.at
      BY <1>3, <1>7, <3>1, OldestLemma
    <3> QED  BY <1>18, <2>2, <3>1, <3>2
  <2>5. CASE p \in AppsOnly
    BY <1>18, <2>2, <2>5
  <2> QED  BY <1>1, <2>3, <2>4, <2>5
<1>21. ASSUME NEW s \in DOMAIN silenced, s \notin Started(S), ~expired(silenced[s].stamp)
       PROVE  \E p \in Left(S) : p.session = {s} \/ (p.session = {} /\ p.app = AppId[s])
  <2>1. Held(s) /\ Owed(s) /\ pauser.up /\ Under = {} /\ s \in Sessions
    BY <1>2, <1>21 DEF PauserIInv, SilencedOK, StepsOK, PauserTypes, Under, At
  <2>2. \A p \in Todo : p.session = {s} => p \in mine
    <3>1. \A p \in Todo : p.session = {s} => s \in OwnPaused
      BY <2>1 DEF OwnPaused
    <3> QED  BY <1>13, <1>21, <3>1
  <2>3. CASE s \in pauser.saved
    BY <1>1, <1>3, <1>17, <2>2, <2>3
  <2>4. ASSUME NEW q \in pauser.pending, q.session = {s} \/ (q.session = {} /\ q.app = AppId[s])
        PROVE  \E p \in Left(S) : p.session = {s} \/ (p.session = {} /\ p.app = AppId[s])
    <3>1. silenced[s].stamp <= q.at
      BY DEF PauserIInv, SilencedOK, Younger
    <3>2. ~expired(q.at)
      BY <1>4, <1>21, <3>1, PauserConstants DEF expired
    <3>3. q \in Todo
      BY <1>3, <3>2
    <3>4. CASE q.session = {s}
      BY <1>1, <2>2, <3>3, <3>4
    <3>5. CASE q.session = {} /\ q.app = AppId[s]
      <4>1. q \in AppsOnly
        BY <3>3, <3>5 DEF AppsOnly
      <4>2. CASE media.lists
        <5>1. s \in ByApp(PendingApps(AppsOnly))
          BY <2>1, <3>5, <4>1 DEF ByApp, PendingApps
        <5>2. PendingOf(s, oldest(AppsOnly)) \in Left(S)
          BY <1>1, <1>12, <1>15, <1>21, <4>2, <5>1
        <5> QED  BY <1>17, <5>2
      <4>3. CASE ~media.lists
        BY <1>1, <3>5, <4>1, <4>3
      <4> QED  BY <4>2, <4>3
    <3> QED  BY <2>4, <3>4, <3>5
  <2> QED  BY <2>1, <2>3, <2>4 DEF Owed
<1> QED  BY <1>9, <1>19, <1>20, <1>21

LEMMA ResumeMediaLemma ==
  ASSUME PauserIInv, ResumeMedia
  PROVE  PauserIInv'
<1> DEFINE S == OwnPaused \cup (IF media.lists THEN ByApp(PendingApps(AppsOnly)) ELSE {})
           left == Left(S)
           o == [at |-> "Noting", pending |-> left]
<1>1. /\ pauser.up /\ At("Rest") /\ pauser.paused /\ Play(S) /\ noted' = noted
      /\ pauser' = [pauser EXCEPT !.paused = FALSE, !.saved = {}, !.pending = left, !.op = o]
  BY DEF ResumeMedia, ResumeBy
<1>2. PauserTypes /\ pauser \in PauserType
  BY DEF PauserIInv, PauserTypes
<1>3. S \in SUBSET Sessions /\ OwnPaused \subseteq S
      /\ (media.lists => ByApp(PendingApps(AppsOnly)) \subseteq S)
  BY <1>2, TodoLemma DEF ByApp
<1> HIDE DEF S
<1>4. /\ left \in SUBSET Pending
      /\ \A p \in left :
           /\ \A s \in p.session : p.app = AppId[s]
           /\ \A s \in p.session : s \in S /\ Held(s) /\ s \notin Started(S)
      /\ \A s \in DOMAIN silenced : \A p \in left : silenced[s].stamp <= p.at
      /\ \A s \in DOMAIN silenced : s \notin Started(S) /\ ~expired(silenced[s].stamp) =>
           \E p \in left : p.session = {s} \/ (p.session = {} /\ p.app = AppId[s])
  BY <1>1, <1>3, LeftLemma
<1> HIDE DEF left
<1>5. o \in Ops /\ o.at = "Noting" /\ o.pending = left
  BY <1>4 DEF Ops
<1> HIDE DEF o
<1>6. /\ pauser' \in PauserType /\ pauser'.op = o /\ pauser'.up = pauser.up
      /\ pauser'.paused = FALSE /\ pauser'.saved = {}
      /\ pauser'.pending = left /\ pauser'.since = pauser.since
  BY <1>1, <1>2, <1>4, <1>5 DEF PauserType
<1>7. /\ media' \in MediaType /\ media'.now = media.now /\ media'.lists = media.lists
      /\ DOMAIN silenced' = DOMAIN silenced \ Started(S)
      /\ \A s \in DOMAIN silenced' : silenced'[s] = silenced[s] /\ (Held(s) => Held(s)')
      /\ DOMAIN silenced' \subseteq Sessions
      /\ \A s \in DOMAIN silenced' : silenced'[s] \in [at : Nat, stamp : Nat]
      /\ \A s \in S : Held(s) /\ s \notin Started(S) => s \in taken'
  BY <1>1, <1>2, <1>3, PlayLemma
<1>8. PauserTypes'
  BY <1>1, <1>2, <1>6, <1>7 DEF PauserTypes
<1>9. Under' = {} /\ ~At("Call")' /\ At("Noting")'
  BY <1>5, <1>6 DEF Under, At
<1>10. StepsOK'
  BY <1>1, <1>4, <1>5, <1>6, <1>7, <1>9 DEF PauserIInv, StepsOK
<1>11. SilencedOK'
  BY <1>1, <1>4, <1>6, <1>7 DEF PauserIInv, SilencedOK, Younger, Owed, expired
<1>12. TakenOK'
  BY <1>4, <1>6, <1>7, <1>9 DEF TakenOK
<1> QED  BY <1>8, <1>10, <1>11, <1>12 DEF PauserIInv

(* What a new runtime makes pending is all that the file has, unless it is *)
(* too old.                                                                *)
LEMMA RecoverLemma ==
  ASSUME PauserIInv, Recover
  PROVE  PauserIInv'
<1> DEFINE apps == IF expired(noted.at) THEN {} ELSE noted.apps
           S == ByApp(apps)
           failed == S \ Started(S)
           mine == Owing(failed, noted.at)
           named == {[session |-> {}, app |-> x, at |-> noted.at] : x \in apps}
<1>1. PauserTypes /\ ~pauser.up /\ noted' = noted
  BY DEF PauserIInv, Recover
<1>2. /\ noted.at \in Nat /\ apps \in SUBSET Apps /\ media.now \in Nat
      /\ \A s \in Sessions : AppId[s] \in Apps
      /\ \A s \in DOMAIN silenced : silenced[s].stamp \in Nat
  BY <1>1, PauserFields
<1>3. \A s \in DOMAIN silenced :
        /\ Held(s) /\ Younger(silenced[s].stamp) /\ s \in Sessions
        /\ noted.apps # {} => silenced[s].stamp <= noted.at
        /\ ~expired(silenced[s].stamp) => AppId[s] \in noted.apps /\ AppId[s] \in apps
  <2> SUFFICES ASSUME NEW s \in DOMAIN silenced
               PROVE  /\ Held(s) /\ Younger(silenced[s].stamp) /\ s \in Sessions
                      /\ noted.apps # {} => silenced[s].stamp <= noted.at
                      /\ ~expired(silenced[s].stamp) => AppId[s] \in noted.apps /\ AppId[s] \in apps
    OBVIOUS
  <2>1. Held(s) /\ Younger(silenced[s].stamp) /\ s \in Sessions
        /\ (~expired(silenced[s].stamp) => AppId[s] \in noted.apps)
    BY <1>1 DEF PauserIInv, SilencedOK, PauserTypes
  <2>2. noted.apps # {} => silenced[s].stamp <= noted.at
    BY <2>1 DEF Younger
  <2>3. ~expired(silenced[s].stamp) => ~expired(noted.at)
    BY <1>2, <2>1, <2>2, PauserConstants DEF expired
  <2> QED  BY <2>1, <2>2, <2>3
<1>4. Down \in PauserType /\ Down.since = 0 /\ ~Down.paused /\ Down.saved = {} /\ Down.op = Rest
      /\ Rest.at = "Rest"
  BY DEF Down, PauserType, Ops, Rest
<1>5. CASE media.lists \/ apps = {}
  <2> DEFINE o == [at |-> "Noting", pending |-> mine]
  <2>1. Play(S) /\ pauser' = [Down EXCEPT !.up = TRUE, !.pending = mine, !.op = o]
    BY <1>5 DEF Recover
  <2>2. S \in SUBSET Sessions /\ (\A s \in S : Held(s) /\ AppId[s] \in apps)
        /\ \A s \in Sessions : Held(s) /\ AppId[s] \in apps => s \in S
    BY DEF ByApp
  <2>3. noted.apps = {} => apps = {}
    OBVIOUS
  <2>4. /\ \A p \in mine : \E s \in failed : p.session = {s} /\ p.app = AppId[s] /\ p.at = noted.at
        /\ \A s \in failed : \E p \in mine : p.session = {s}
    <3>1. mine = {PendingOf(s, noted.at) : s \in failed}
      BY DEF Owing
    <3>2. \A s, at : PendingOf(s, at).session = {s} /\ PendingOf(s, at).app = AppId[s]
                    /\ PendingOf(s, at).at = at
      BY DEF PendingOf
    <3> HIDE DEF mine, failed
    <3> QED  BY <3>1, <3>2
  <2>5. \A p \in mine : p \in Pending
    <3>1. failed \subseteq Sessions
      BY <2>2
    <3> QED  BY <1>2, <3>1 DEF Owing, PendingOf, Pending
  <2> HIDE DEF mine, apps, S
  <2>6. o \in Ops /\ o.at = "Noting" /\ o.pending = mine
    BY <2>5 DEF Ops
  <2> HIDE DEF o
  <2>7. /\ pauser' \in PauserType /\ pauser'.op = o /\ pauser'.up /\ ~pauser'.paused
        /\ pauser'.saved = {} /\ pauser'.pending = mine /\ pauser'.since = 0
    BY <1>4, <2>1, <2>5, <2>6 DEF PauserType
  <2>8. /\ media' \in MediaType /\ media'.now = media.now /\ media'.lists = media.lists
        /\ DOMAIN silenced' = DOMAIN silenced \ Started(S)
        /\ \A s \in DOMAIN silenced' : silenced'[s] = silenced[s] /\ (Held(s) => Held(s)')
        /\ DOMAIN silenced' \subseteq Sessions
        /\ \A s \in DOMAIN silenced' : silenced'[s] \in [at : Nat, stamp : Nat]
        /\ \A s \in S : Held(s) /\ s \notin Started(S) => s \in taken'
    BY <1>1, <2>1, <2>2, PlayLemma
  <2>9. PauserTypes'
    BY <1>1, <2>7, <2>8 DEF PauserTypes
  <2>10. Under' = {} /\ ~At("Call")' /\ At("Noting")'
    BY <2>6, <2>7 DEF Under, At
  <2>11. StepsOK'
    BY <1>2, <2>4, <2>6, <2>7, <2>8, <2>10 DEF StepsOK
  <2>12. SilencedOK'
    <3> SUFFICES ASSUME NEW s \in DOMAIN silenced'
                 PROVE  /\ Held(s)' /\ Younger(silenced[s].stamp)'
                        /\ ~expired(silenced[s].stamp)' => AppId[s] \in noted'.apps /\ Owed(s)'
      BY DEF SilencedOK
    <3>1. s \in DOMAIN silenced /\ silenced'[s] = silenced[s] /\ s \notin Started(S)
      BY <2>8
    <3>2. Held(s)'
      BY <1>3, <2>8, <3>1
    <3>3. \A p \in mine : silenced[s].stamp <= p.at
      BY <1>3, <2>2, <2>3, <2>4, <3>1
    <3>4. Younger(silenced[s].stamp)'
      BY <1>1, <1>3, <2>7, <2>8, <3>1, <3>3 DEF Younger
    <3>5. ~expired(silenced[s].stamp) => Owed(s)'
      BY <1>3, <2>2, <2>4, <2>7, <3>1 DEF Owed
    <3> QED  BY <1>1, <1>3, <2>8, <3>1, <3>2, <3>4, <3>5 DEF expired
  <2>13. TakenOK'
    BY <2>2, <2>4, <2>7, <2>8, <2>10 DEF TakenOK
  <2> QED  BY <2>9, <2>11, <2>12, <2>13 DEF PauserIInv
<1>6. CASE ~(media.lists \/ apps = {})
  <2>1. pauser' = [Down EXCEPT !.up = TRUE, !.pending = named]
        /\ UNCHANGED <<media, silenced, taken>>
    BY <1>6 DEF Recover
  <2>2. /\ \A p \in named : p \in Pending /\ p.session = {} /\ p.at = noted.at
        /\ \A x \in apps : \E p \in named : p.session = {} /\ p.app = x
    <3> DEFINE of(x) == [session |-> {}, app |-> x, at |-> noted.at]
    <3>1. \A x \in apps : of(x) \in Pending /\ of(x).session = {} /\ of(x).at = noted.at
                           /\ of(x).app = x
      BY <1>2 DEF Pending
    <3>2. named = {of(x) : x \in apps}
      OBVIOUS
    <3> HIDE DEF named, apps, of
    <3> QED  BY <3>1, <3>2
  <2>3. noted.apps # {}
    BY <1>6
  <2> HIDE DEF named, apps
  <2>4. /\ pauser' \in PauserType /\ pauser'.op = Rest /\ pauser'.up /\ ~pauser'.paused
        /\ pauser'.saved = {} /\ pauser'.pending = named /\ pauser'.since = 0
    BY <1>4, <2>1, <2>2 DEF PauserType
  <2>5. PauserTypes'
    BY <1>1, <2>1, <2>4 DEF PauserTypes
  <2>6. Under' = {} /\ At("Rest")' /\ ~At("Call")' /\ ~At("Noting")'
    BY <1>4, <2>4 DEF Under, At
  <2>7. StepsOK'
    BY <1>2, <2>1, <2>2, <2>4, <2>6 DEF StepsOK
  <2>8. SilencedOK'
    <3> SUFFICES ASSUME NEW s \in DOMAIN silenced
                 PROVE  /\ Held(s)' /\ Younger(silenced[s].stamp)'
                        /\ ~expired(silenced[s].stamp)' => AppId[s] \in noted'.apps /\ Owed(s)'
      BY <2>1 DEF SilencedOK
    <3>1. Younger(silenced[s].stamp)'
      BY <1>1, <1>3, <2>1, <2>2, <2>3, <2>4 DEF Younger
    <3>2. ~expired(silenced[s].stamp) => Owed(s)'
      BY <1>3, <2>2, <2>4 DEF Owed
    <3> QED  BY <1>1, <1>3, <2>1, <3>1, <3>2 DEF Held, expired
  <2>9. TakenOK'
    BY <2>2, <2>4, <2>6 DEF TakenOK
  <2> QED  BY <2>5, <2>7, <2>8, <2>9 DEF PauserIInv
<1> QED  BY <1>5, <1>6

LEMMA RuntimeDiesLemma ==
  ASSUME PauserIInv, RuntimeDies
  PROVE  PauserIInv'
<1>1. pauser' = Down /\ UNCHANGED <<media, noted, silenced, taken>>
  BY DEF RuntimeDies
<1>2. /\ Down \in PauserType /\ ~Down.up /\ ~Down.paused /\ Down.saved = {} /\ Down.pending = {}
      /\ Down.since = 0 /\ Down.op = Rest /\ Rest.at = "Rest"
  BY DEF Down, PauserType, Ops, Rest
<1>3. PauserTypes'
  BY <1>1, <1>2 DEF PauserIInv, PauserTypes
<1>4. Under' = {} /\ At("Rest")' /\ ~At("Call")' /\ ~At("Noting")'
  BY <1>1, <1>2 DEF Under, At
<1>5. media.now \in Nat
  BY PauserFields DEF PauserIInv
<1>6. StepsOK'
  BY <1>1, <1>2, <1>4, <1>5 DEF StepsOK
<1>7. SilencedOK'
  BY <1>1, <1>2 DEF PauserIInv, SilencedOK, Held, Younger, expired
<1>8. TakenOK'
  BY <1>1, <1>2, <1>4 DEF TakenOK
<1> QED  BY <1>3, <1>6, <1>7, <1>8 DEF PauserIInv

-----------------------------------------------------------------------------
(* Users, apps and time.                                                   *)

(* What leaves the runtime alone and gives back what it sets playing.      *)
LEMMA WorldLemma ==
  ASSUME PauserIInv, UNCHANGED <<noted, pauser, taken>>,
         media' \in MediaType, media'.now = media.now,
         DOMAIN silenced' \subseteq DOMAIN silenced,
         \A x \in DOMAIN silenced' : silenced'[x] = silenced[x] /\ media'.state[x] = media.state[x]
  PROVE  PauserIInv'
<1>1. PauserTypes'
  BY DEF PauserIInv, PauserTypes
<1>2. oldest(pauser.pending)' = oldest(pauser.pending) /\ Under' = Under
  BY DEF oldest, Under, At
<1>3. StepsOK' /\ TakenOK'
  BY <1>2 DEF PauserIInv, StepsOK, TakenOK, At
<1>4. SilencedOK'
  <2> SUFFICES ASSUME NEW x \in DOMAIN silenced'
               PROVE  /\ Held(x)' /\ Younger(silenced[x].stamp)'
                      /\ ~expired(silenced[x].stamp)' => AppId[x] \in noted'.apps
                                                         /\ (pauser'.up => Owed(x)')
    BY DEF SilencedOK
  <2>1. /\ Held(x) /\ Younger(silenced[x].stamp)
        /\ ~expired(silenced[x].stamp) => AppId[x] \in noted.apps /\ (pauser.up => Owed(x))
    BY DEF PauserIInv, SilencedOK
  <2>2. Owed(x)' <=> Owed(x)
    BY <1>2 DEF Owed
  <2> QED  BY <2>1, <2>2 DEF Held, Younger, expired
<1> QED  BY <1>1, <1>3, <1>4 DEF PauserIInv

LEMMA BecomesLemma ==
  ASSUME PauserIInv, UNCHANGED <<noted, pauser, taken>>, NEW s \in Sessions,
         NEW state \in {"playing", "paused", "gone"}, Becomes(s, state)
  PROVE  PauserIInv'
<1>1. media \in MediaType /\ DOMAIN silenced \subseteq Sessions
  BY DEF PauserIInv, PauserTypes
<1>2. /\ media' = [media EXCEPT !.state[s] = state]
      /\ silenced' = [x \in DOMAIN silenced \ {s} |-> silenced[x]]
  BY DEF Becomes
<1>3. /\ media' \in MediaType /\ media'.now = media.now
      /\ \A x \in Sessions : x # s => media'.state[x] = media.state[x]
  BY <1>1, <1>2 DEF MediaType
<1>4. /\ DOMAIN silenced' = DOMAIN silenced \ {s}
      /\ \A x \in DOMAIN silenced' : silenced'[x] = silenced[x]
  BY <1>2
<1> QED  BY <1>1, <1>3, <1>4, WorldLemma

LEMMA LatePauseLemma ==
  ASSUME PauserIInv, NEW s \in Sessions, LatePause(s)
  PROVE  PauserIInv'
<1> DEFINE state == IF is_playing(s) THEN "paused" ELSE media.state[s]
           late == media.late \ {s}
<1>1. /\ media' = [media EXCEPT !.late = late, !.state[s] = state]
      /\ silenced' = IF is_playing(s) /\ s \in pauser.saved
                     THEN Silencing(s, pauser.since) ELSE silenced
      /\ UNCHANGED <<noted, pauser, taken>>
  BY DEF LatePause
<1>2. PauserTypes /\ media \in MediaType
  BY DEF PauserIInv, PauserTypes
<1>3. state \in {"playing", "paused", "gone"} /\ late \subseteq Sessions
      /\ (is_playing(s) => state = "paused") /\ (~is_playing(s) => state = media.state[s])
  BY <1>2 DEF MediaType
<1> HIDE DEF state, late
<1>4. /\ media' \in MediaType /\ media'.now = media.now /\ media'.state[s] = state
      /\ \A x \in Sessions : x # s => media'.state[x] = media.state[x]
  BY <1>1, <1>2, <1>3 DEF MediaType
<1>5. \A x \in DOMAIN silenced : x \in Sessions /\ Held(x) /\ media'.state[x] = media.state[x]
  BY <1>2, <1>3, <1>4 DEF PauserIInv, SilencedOK, PauserTypes, Held, is_playing
<1>6. CASE ~(is_playing(s) /\ s \in pauser.saved)
  BY <1>1, <1>4, <1>5, <1>6, WorldLemma
<1>7. CASE is_playing(s) /\ s \in pauser.saved
  <2>1. /\ pauser.up /\ pauser.paused /\ pauser.since \in Nat /\ pauser.pending \in SUBSET Pending
        /\ pauser.since <= media.now /\ AppId[s] \in noted.apps
        /\ noted.at >= (IF pauser.pending = {} THEN pauser.since ELSE oldest(pauser.pending))
        /\ media.now \in Nat /\ noted.at \in Nat
    BY <1>2, <1>7, PauserFields DEF PauserIInv, StepsOK
  <2> DEFINE t == Since(pauser.since)
  <2>2. /\ DOMAIN silenced' = DOMAIN silenced \cup {s}
        /\ \A x \in DOMAIN silenced : x # s => silenced'[x] = silenced[x]
        /\ silenced'[s] = t /\ t \in [at : Nat, stamp : Nat]
        /\ t.stamp <= pauser.since /\ t.stamp <= oldest(pauser.pending)
    BY <1>1, <1>2, <1>7, <2>1, SilencingLemma
  <2> HIDE DEF t
  <2>3. \A p \in pauser.pending : t.stamp <= p.at
    <3> SUFFICES ASSUME NEW p \in pauser.pending PROVE t.stamp <= p.at
      OBVIOUS
    <3>1. oldest(pauser.pending) \in Nat /\ oldest(pauser.pending) <= p.at /\ p.at \in Nat
      BY <1>2, <2>1, PauserFields, OldestLemma
    <3>2. t.stamp \in Nat
      BY <2>2
    <3> QED  BY <2>2, <3>1, <3>2
  <2>4. t.stamp <= media.now /\ t.stamp <= noted.at
    <3>1. t.stamp \in Nat
      BY <2>2
    <3>2. CASE pauser.pending = {}
      BY <2>1, <2>2, <3>1, <3>2
    <3>3. CASE pauser.pending # {}
      <4>1. oldest(pauser.pending) \in Nat
        BY <2>1, <3>3, OldestLemma
      <4> QED  BY <2>1, <2>2, <3>1, <3>3, <4>1
    <3> QED  BY <3>2, <3>3
  <2>5. s \notin DOMAIN silenced
    BY <1>5, <1>7 DEF Held, is_playing
  <2>6. PauserTypes'
    BY <1>1, <1>2, <1>4, <2>2 DEF PauserTypes
  <2>7. oldest(pauser.pending)' = oldest(pauser.pending) /\ Under' = Under
    BY <1>1, <1>4 DEF oldest, Under, At
  <2>8. StepsOK' /\ TakenOK'
    BY <1>1, <1>4, <2>7 DEF PauserIInv, StepsOK, TakenOK, At
  <2>9. SilencedOK'
    <3> SUFFICES ASSUME NEW x \in DOMAIN silenced'
                 PROVE  /\ Held(x)' /\ Younger(silenced[x].stamp)'
                        /\ ~expired(silenced[x].stamp)' => AppId[x] \in noted'.apps
                                                           /\ (pauser'.up => Owed(x)')
      BY DEF SilencedOK
    <3>1. Owed(x)' <=> Owed(x)
      BY <1>1, <2>7 DEF Owed
    <3>2. CASE x = s
      <4>1. Held(x)' /\ Owed(x)
        BY <1>3, <1>4, <1>7, <3>2 DEF Held, Owed
      <4>2. Younger(silenced[x].stamp)'
        BY <1>1, <1>4, <2>2, <2>3, <2>4, <3>2 DEF Younger
      <4> QED  BY <1>1, <2>1, <3>1, <3>2, <4>1, <4>2
    <3>3. CASE x # s
      <4>1. x \in DOMAIN silenced /\ silenced'[x] = silenced[x]
        BY <2>2, <3>3
      <4>2. /\ Held(x) /\ Younger(silenced[x].stamp)
            /\ ~expired(silenced[x].stamp) => AppId[x] \in noted.apps /\ (pauser.up => Owed(x))
        BY <4>1 DEF PauserIInv, SilencedOK
      <4> QED  BY <1>1, <1>4, <1>5, <3>1, <4>1, <4>2 DEF Held, Younger, expired
    <3> QED  BY <3>2, <3>3
  <2> QED  BY <2>6, <2>8, <2>9 DEF PauserIInv
<1> QED  BY <1>6, <1>7

LEMMA TickLemma ==
  ASSUME PauserIInv, Tick
  PROVE  PauserIInv'
<1>1. At("Rest") /\ media' = [media EXCEPT !.now = media.now + 1]
      /\ UNCHANGED <<noted, pauser, silenced, taken>>
  BY DEF Tick
<1>2. PauserTypes /\ media \in MediaType /\ media.now \in Nat
      /\ \A s \in DOMAIN silenced : silenced[s].stamp \in Nat
  BY PauserFields DEF PauserIInv, PauserTypes
<1>3. media' \in MediaType /\ media'.now = media.now + 1 /\ media'.state = media.state
  BY <1>1, <1>2 DEF MediaType
<1>4. PauserTypes'
  BY <1>1, <1>2, <1>3 DEF PauserTypes
<1>5. Under' = Under /\ At("Rest")' /\ ~At("Call")' /\ ~At("Noting")'
  BY <1>1 DEF Under, At
<1>6. pauser.pending # {} => oldest(pauser.pending)' = oldest(pauser.pending)
  BY <1>1 DEF oldest
<1>7. StepsOK'
  <2>1. pauser'.since <= media'.now
    BY <1>1, <1>2, <1>3, PauserFields DEF PauserIInv, StepsOK
  <2> QED  BY <1>1, <1>5, <1>6, <2>1 DEF PauserIInv, StepsOK
<1>8. SilencedOK'
  <2> SUFFICES ASSUME NEW x \in DOMAIN silenced
               PROVE  /\ Held(x)' /\ Younger(silenced[x].stamp)'
                      /\ ~expired(silenced[x].stamp)' => AppId[x] \in noted'.apps
                                                         /\ (pauser'.up => Owed(x)')
    BY <1>1 DEF SilencedOK
  <2>1. /\ Held(x) /\ Younger(silenced[x].stamp)
        /\ ~expired(silenced[x].stamp) => AppId[x] \in noted.apps /\ (pauser.up => Owed(x))
    BY DEF PauserIInv, SilencedOK
  <2>2. expired(silenced[x].stamp) => expired(silenced[x].stamp)'
    BY <1>1, <1>2, <1>3, PauserConstants DEF expired
  <2>3. Younger(silenced[x].stamp)'
    BY <1>1, <1>2, <1>3, <2>1 DEF Younger
  <2>4. Owed(x)' <=> Owed(x)
    BY <1>1, <1>5 DEF Owed
  <2> QED  BY <1>1, <1>3, <2>1, <2>2, <2>3, <2>4 DEF Held
<1>9. TakenOK'
  BY <1>1, <1>5 DEF PauserIInv, TakenOK
<1> QED  BY <1>4, <1>7, <1>8, <1>9 DEF PauserIInv

-----------------------------------------------------------------------------
(* The invariant.                                                          *)

LEMMA PauserStep ==
  ASSUME PauserIInv, [PauserNext]_pauserVars
  PROVE  PauserIInv'
<1> USE DEF Occurs
<1>1. media \in MediaType /\ DOMAIN silenced \subseteq Sessions
  BY DEF PauserIInv, PauserTypes
<1>2. CASE PausingMedia
  BY <1>2, PauseMediaLemma, PauseRecordLemma, PauseCallLemma, PauseDoneLemma DEF PausingMedia
<1>3. CASE ResumingMedia
  BY <1>3, ResumeMediaLemma, NoteLeftLemma, RecoverLemma, RuntimeDiesLemma DEF ResumingMedia
<1>4. ASSUME NEW s \in Sessions, UserPresses(s) PROVE PauserIInv'
  BY <1>4, BecomesLemma DEF UserPresses
<1>5. ASSUME NEW s \in Sessions, Vanishes(s) PROVE PauserIInv'
  BY <1>5, BecomesLemma DEF Vanishes
<1>6. ASSUME NEW s \in Sessions, NEW how \in {"ok", "slow", "fails"}, CallsTurn(s, how)
      PROVE  PauserIInv'
  <2>1. media' = [media EXCEPT !.calls[s] = how] /\ UNCHANGED <<noted, pauser, taken, silenced>>
    BY <1>6 DEF CallsTurn
  <2>2. media' \in MediaType /\ media'.now = media.now /\ media'.state = media.state
    BY <1>1, <2>1 DEF MediaType
  <2> QED  BY <2>1, <2>2, WorldLemma
<1>7. ASSUME ListingTurns PROVE PauserIInv'
  <2>1. media' = [media EXCEPT !.lists = ~media.lists] /\ UNCHANGED <<noted, pauser, taken, silenced>>
    BY <1>7 DEF ListingTurns
  <2>2. media' \in MediaType /\ media'.now = media.now /\ media'.state = media.state
    BY <1>1, <2>1 DEF MediaType
  <2> QED  BY <2>1, <2>2, WorldLemma
<1>8. CASE UNCHANGED pauserVars
  BY <1>1, <1>8, WorldLemma DEF pauserVars
<1>9. CASE MediaWorld
  BY <1>4, <1>5, <1>6, <1>7, <1>9, LatePauseLemma, TickLemma DEF MediaWorld
<1> QED  BY <1>2, <1>3, <1>8, <1>9 DEF PauserNext

(* A pause of Sonara's that nobody undid stays in the file, so that a      *)
(* resume or the next runtime undoes it, until the file's time is too old: *)
(* through calls that fail or come late and a crash at any step            *)
(* (pausing.rs, note and recover).                                         *)
THEOREM PauseIsOnRecord == PauserSpec => []PauseOnRecord
<1>1. PauserInit => PauserIInv
  BY PauserInitLemma
<1>2. PauserIInv /\ [PauserNext]_pauserVars => PauserIInv'
  BY PauserStep
<1>3. PauserIInv => PauseOnRecord
  BY DEF PauserIInv, SilencedOK, PauseOnRecord
<1> QED  BY <1>1, <1>2, <1>3, PTL DEF PauserSpec

LEMMA PlaysOwnStep ==
  ASSUME PauserIInv, PauserNext, NEW s \in Sessions, pauser.up, pauser' # pauser, AppsOnly = {},
         media.state[s] = "paused", media'.state[s] = "playing"
  PROVE  s \in taken
<1>1. media \in MediaType
  BY DEF PauserIInv, PauserTypes
<1>2. CASE PausingMedia
  <2>1. CASE PauseCall
    <3> DEFINE x == Head(pauser.op.todo)
               now == IF is_playing(x) /\ media.calls[x] = "ok" THEN "paused" ELSE media.state[x]
               late == IF is_playing(x) /\ media.calls[x] = "slow" THEN media.late \cup {x}
                       ELSE media.late
    <3>1. media' = [media EXCEPT !.state[x] = now, !.late = late]
      BY <2>1 DEF PauseCall
    <3>2. now = "paused" \/ now = media.state[x]
      OBVIOUS
    <3> HIDE DEF now, late
    <3>3. media'.state[s] = IF x = s THEN now ELSE media.state[s]
      BY <1>1, <3>1 DEF MediaType
    <3> QED  BY <3>2, <3>3, SMTT(30)
  <2>2. CASE PauseMedia \/ PauseRecord \/ PauseDone
    BY <2>2 DEF PauseMedia, PauseRecord, PauseDone
  <2> QED  BY <1>2, <2>1, <2>2 DEF PausingMedia
<1>3. CASE ResumingMedia
  <2>1. CASE ResumeMedia
    <3> DEFINE S == OwnPaused \cup (IF media.lists THEN ByApp(PendingApps(AppsOnly)) ELSE {})
    <3>1. Play(S)
      BY <2>1 DEF ResumeMedia, ResumeBy
    <3>2. S = OwnPaused
      BY DEF ByApp, PendingApps
    <3>3. s \in Started(S)
      <4>1. media'.state = [x \in Sessions |-> IF x \in Started(S) THEN "playing" ELSE media.state[x]]
        BY <1>1, <3>1 DEF Play, MediaType
      <4> QED  BY <4>1
    <3>4. s \in OwnPaused
      BY <3>2, <3>3 DEF Started
    <3>5. PICK p \in Todo : s \in p.session
      BY <3>4 DEF OwnPaused
    <3>6. p \in pauser.pending \/ \E x \in pauser.saved : p = PendingOf(x, pauser.since)
      BY <3>5, TodoLemma DEF PauserIInv
    <3> QED  BY <3>5, <3>6 DEF PauserIInv, TakenOK, PendingOf
  <2>2. CASE NoteLeft \/ Recover \/ RuntimeDies
    BY <2>2, SMTT(30) DEF NoteLeft, Recover, RuntimeDies
  <2> QED  BY <1>3, <2>1, <2>2 DEF ResumingMedia
<1>4. CASE MediaWorld
  BY <1>4 DEF MediaWorld, UserPresses, Vanishes, LatePause, CallsTurn, ListingTurns, Tick, Occurs
<1> QED  BY <1>2, <1>3, <1>4 DEF PauserNext

(* A resume plays only sessions that played when a pause looked at them,   *)
(* whose pause call was accepted or timed out, and that were not playing   *)
(* at a resume since: by session, not by app (pausing.rs, pause and        *)
(* resume).  Another tab of the same browser stays as its user left it.    *)
THEOREM PauserPlaysItsOwn == PauserSpec => PlaysItsOwn
<1>1. PauserInit => PauserIInv
  BY PauserInitLemma
<1>2. PauserIInv /\ [PauserNext]_pauserVars => PauserIInv'
  BY PauserStep
<1>3. PauserIInv /\ [PauserNext]_pauserVars =>
        [ \A s \in Sessions :
            /\ pauser.up /\ pauser' # pauser /\ AppsOnly = {}
            /\ media.state[s] = "paused" /\ media'.state[s] = "playing"
            => s \in taken ]_pauserVars
  BY PlaysOwnStep
<1> QED  BY <1>1, <1>2, <1>3, PTL DEF PauserSpec, PlaysItsOwn

-----------------------------------------------------------------------------
(* Settings: the order of the preferences.                                 *)
ChannelPrefs == {"label", "muted"}
FileOK(f) ==
  /\ DOMAIN f \subseteq Channel
  /\ \A id \in DOMAIN f : f[id] \in [p : SUBSET ChannelPrefs, at : Nat]
Entry == [id : Channel, p : (SUBSET ChannelPrefs) \ {{}}, at : Nat]
Before(a, b) == a.at < b.at \/ (a.at = b.at /\ a.id < b.id)
Ordered(t) ==
  /\ t \in Seq(Entry)
  /\ \A i, j \in 1..Len(t) : i < j => t[i].id # t[j].id /\ Before(t[i], t[j])

LEMMA EntryFields ==
  ASSUME NEW e \in Entry
  PROVE  /\ e.id \in Channel /\ e.p \in (SUBSET ChannelPrefs) \ {{}} /\ e.at \in Nat
         /\ e = [id |-> e.id, p |-> e.p, at |-> e.at]
  BY DEF Entry

(* The channels of a file that have a preference.                          *)
Having(f) == {id \in DOMAIN f : f[id].p # {}}
Increasing(f, s) ==
  /\ s \in [1..Cardinality(Having(f)) -> Having(f)]
  /\ \A i, j \in 1..Cardinality(Having(f)) : i < j => Older(f, s[i], s[j])

LEMMA HavingFinite ==
  ASSUME NEW f, FileOK(f)
  PROVE  /\ IsFiniteSet(Having(f)) /\ Cardinality(Having(f)) \in Nat
         /\ \A id \in Having(f) : id \in Nat /\ id \in Channel /\ id \in DOMAIN f
                                  /\ f[id].at \in Nat /\ f[id].p \in (SUBSET ChannelPrefs) \ {{}}
<1>1. Having(f) \subseteq Channel
  BY DEF Having, FileOK
<1>2. IsFiniteSet(Having(f))
  BY <1>1, SettingsAssumption, FS_Subset
<1>3. Cardinality(Having(f)) \in Nat
  BY <1>2, FS_CardinalityType
<1>4. ASSUME NEW id \in Having(f)
      PROVE  id \in Nat /\ id \in Channel /\ id \in DOMAIN f /\ f[id].at \in Nat
             /\ f[id].p \in (SUBSET ChannelPrefs) \ {{}}
  BY <1>1, SettingsAssumption DEF Having, FileOK
<1> QED  BY <1>2, <1>3, <1>4

LEMMA OlderOrder ==
  ASSUME NEW f, FileOK(f), NEW a \in Having(f), NEW b \in Having(f)
  PROVE  /\ Older(f, a, b) \/ Older(f, b, a) \/ a = b
         /\ ~(Older(f, a, b) /\ Older(f, b, a))
         /\ ~Older(f, a, a)
         /\ \A c \in Having(f) : Older(f, a, b) /\ Older(f, b, c) => Older(f, a, c)
  BY HavingFinite DEF Older

(* The place of a channel: how many are not after it.                      *)
Upto(f, x) == {y \in Having(f) : Older(f, y, x) \/ y = x}
Rank(f, x) == Cardinality(Upto(f, x))

LEMMA RankLemma ==
  ASSUME NEW f, FileOK(f)
  PROVE  /\ \A x \in Having(f) : Rank(f, x) \in 1..Cardinality(Having(f))
         /\ \A x, y \in Having(f) : Older(f, x, y) => Rank(f, x) < Rank(f, y)
<1>1. IsFiniteSet(Having(f)) /\ Cardinality(Having(f)) \in Nat
  BY HavingFinite
<1>2. ASSUME NEW x \in Having(f)
      PROVE  /\ x \in Upto(f, x) /\ Upto(f, x) \subseteq Having(f) /\ IsFiniteSet(Upto(f, x))
             /\ Rank(f, x) \in 1..Cardinality(Having(f))
  <2>1. x \in Upto(f, x) /\ Upto(f, x) \in SUBSET Having(f)
    BY DEF Upto
  <2>2. /\ IsFiniteSet(Upto(f, x)) /\ Cardinality(Upto(f, x)) \in Nat
        /\ Cardinality(Upto(f, x)) <= Cardinality(Having(f))
    BY <1>1, <2>1, FS_Subset, FS_CardinalityType
  <2>3. Cardinality(Upto(f, x)) # 0
    BY <2>1, <2>2, FS_EmptySet
  <2> QED  BY <1>1, <2>1, <2>2, <2>3 DEF Rank
<1>3. ASSUME NEW x \in Having(f), NEW y \in Having(f), Older(f, x, y)
      PROVE  Rank(f, x) < Rank(f, y)
  <2>1. Upto(f, x) \in SUBSET Upto(f, y)
    BY <1>3, OlderOrder DEF Upto
  <2>2. y \in Upto(f, y) /\ y \notin Upto(f, x)
    BY <1>3, OlderOrder DEF Upto
  <2>3. /\ Cardinality(Upto(f, x)) <= Cardinality(Upto(f, y))
        /\ Cardinality(Upto(f, x)) = Cardinality(Upto(f, y)) => Upto(f, x) = Upto(f, y)
    BY <1>2, <2>1, FS_Subset
  <2> QED  BY <1>2, <2>2, <2>3 DEF Rank
<1> QED  BY <1>2, <1>3

(* There is an order from the oldest to the newest...                      *)
LEMMA SortedIsIncreasing ==
  ASSUME NEW f, FileOK(f)
  PROVE  Increasing(f, Sorted(f))
<1> DEFINE H == Having(f)
           c == Cardinality(H)
           g == [x \in H |-> Rank(f, x)]
           at == [i \in 1..c |-> CHOOSE x \in H : Rank(f, x) = i]
<1>1. IsFiniteSet(H) /\ c \in Nat
  BY HavingFinite
<1>2. /\ \A x \in H : Rank(f, x) \in 1..c
      /\ \A x, y \in H : Older(f, x, y) => Rank(f, x) < Rank(f, y)
  BY RankLemma
<1>3. \A x, y \in H : Older(f, x, y) \/ Older(f, y, x) \/ x = y
  BY OlderOrder
<1>4. Sorted(f) = CHOOSE s \in [1..c -> H] : \A i, j \in 1..c : i < j => Older(f, s[i], s[j])
  BY DEF Sorted, Having
<1> HIDE DEF H, c
<1>5. \A x, y \in H : Rank(f, x) = Rank(f, y) => x = y
  BY <1>1, <1>2, <1>3
<1>6. g \in Injection(H, 1..c)
  BY <1>2, <1>5 DEF Injection, IsInjective
<1>7. IsFiniteSet(1..c) /\ Cardinality(1..c) = c
  BY <1>1, FS_Interval
<1>8. g \in Surjection(H, 1..c)
  <2> HIDE DEF g
  <2>1. Cardinality(H) = c
    BY DEF c
  <2> QED  BY <1>6, <1>7, <2>1, FS_Injection
<1>9. \A i \in 1..c : \E x \in H : Rank(f, x) = i
  BY <1>8 DEF Surjection
<1>10. at \in [1..c -> H] /\ \A i \in 1..c : Rank(f, at[i]) = i
  BY <1>9
<1> HIDE DEF at
<1>11. ASSUME NEW i \in 1..c, NEW j \in 1..c, i < j PROVE Older(f, at[i], at[j])
  <2>1. at[i] \in H /\ at[j] \in H /\ Rank(f, at[i]) < Rank(f, at[j])
    BY <1>1, <1>10, <1>11
  <2>2. ~Older(f, at[j], at[i]) /\ at[i] # at[j]
    BY <1>1, <1>2, <1>10, <1>11, <2>1
  <2> QED  BY <1>3, <2>1, <2>2
<1>12. \E s \in [1..c -> H] : \A i, j \in 1..c : i < j => Older(f, s[i], s[j])
  BY <1>10, <1>11
<1>13. Sorted(f) \in [1..c -> H] /\ \A i, j \in 1..c : i < j => Older(f, Sorted(f)[i], Sorted(f)[j])
  BY <1>4, <1>12
<1> QED  BY <1>13 DEF Increasing, H, c

LEMMA IncreasingMeets ==
  ASSUME NEW f, FileOK(f), NEW s, Increasing(f, s)
  PROVE  /\ \A i, j \in 1..Cardinality(Having(f)) : s[i] = s[j] => i = j
         /\ \A x \in Having(f) : \E i \in 1..Cardinality(Having(f)) : s[i] = x
<1> DEFINE H == Having(f)
           c == Cardinality(H)
<1>1. IsFiniteSet(H) /\ c \in Nat
  BY HavingFinite
<1>2. s \in [1..c -> H] /\ \A i, j \in 1..c : i < j => Older(f, s[i], s[j])
  BY DEF Increasing
<1>3. \A x \in H : ~Older(f, x, x)
  BY OlderOrder
<1> SUFFICES /\ \A i, j \in 1..c : s[i] = s[j] => i = j
             /\ \A x \in H : \E i \in 1..c : s[i] = x
  OBVIOUS
<1>0. Cardinality(H) = c
  OBVIOUS
<1> HIDE DEF H, c
<1>4. \A i, j \in 1..c : s[i] = s[j] => i = j
  <2>1. \A i, j \in 1..c : i < j \/ j < i \/ i = j
    BY <1>1
  <2> QED  BY <1>2, <1>3, <2>1
<1>5. s \in Injection(1..c, H)
  BY <1>2, <1>4 DEF Injection, IsInjective
<1>6. IsFiniteSet(1..c) /\ Cardinality(1..c) = c
  BY <1>1, FS_Interval
<1>7. s \in Surjection(1..c, H)
  BY <1>0, <1>1, <1>5, <1>6, FS_Injection
<1> QED  BY <1>4, <1>7 DEF Surjection

(* ... and only one.                                                       *)
LEMMA IncreasingUnique ==
  ASSUME NEW f, FileOK(f), NEW s, Increasing(f, s), NEW t, Increasing(f, t)
  PROVE  s = t
<1> DEFINE H == Having(f)
           c == Cardinality(H)
           D == {i \in 1..c : s[i] # t[i]}
<1>1. c \in Nat
  BY HavingFinite
<1>2. /\ s \in [1..c -> H] /\ \A i, j \in 1..c : i < j => Older(f, s[i], s[j])
      /\ t \in [1..c -> H] /\ \A i, j \in 1..c : i < j => Older(f, t[i], t[j])
  BY DEF Increasing
<1>3. /\ \A i, j \in 1..c : (s[i] = s[j] => i = j) /\ (t[i] = t[j] => i = j)
      /\ \A x \in H : (\E i \in 1..c : s[i] = x) /\ (\E i \in 1..c : t[i] = x)
  BY IncreasingMeets
<1>4. \A x, y \in H : ~(Older(f, x, y) /\ Older(f, y, x))
  BY OlderOrder
<1> HIDE DEF H, c
<1>5. SUFFICES D = {}
  <2>1. ASSUME D = {} PROVE s = t
    <3>1. \A i \in 1..c : s[i] = t[i]
      BY <2>1
    <3>2. s \in [1..c -> H] /\ t \in [1..c -> H]
      BY <1>2
    <3>3. s = [i \in 1..c |-> s[i]] /\ t = [i \in 1..c |-> t[i]]
      BY <3>2
    <3> HIDE DEF D
    <3> QED  BY <3>1, <3>3, Zenon
  <2> QED  BY <2>1
<1>6. SUFFICES ASSUME D # {} PROVE FALSE
  OBVIOUS
<1>7. PICK i \in D : \A j \in D : ~(<<j, i>> \in OpToRel(<, Nat))
  <2>1. D \subseteq Nat
    BY <1>1
  <2> HIDE DEF D
  <2> QED  BY <1>6, <2>1, NatLessThanWellFounded, WFMin
<1>8. i \in 1..c /\ s[i] # t[i] /\ \A j \in 1..c : j < i => s[j] = t[j]
  <2>1. \A j \in 1..c : <<j, i>> \in OpToRel(<, Nat) <=> j < i
    BY <1>1 DEF OpToRel
  <2>2. \A j \in D : ~(j < i)
    BY <1>7, <2>1
  <2> QED  BY <2>2
<1>9. PICK j \in 1..c : s[j] = t[i]
  BY <1>2, <1>3, <1>8
<1>10. PICK k \in 1..c : t[k] = s[i]
  BY <1>2, <1>3, <1>8
<1>11. i < j
  <2>1. j # i /\ ~(j < i)
    BY <1>3, <1>8, <1>9
  <2> QED  BY <1>1, <1>8, <1>9, <2>1
<1>12. i < k
  <2>1. k # i /\ ~(k < i)
    BY <1>3, <1>8, <1>10
  <2> QED  BY <1>1, <1>8, <1>10, <2>1
<1> QED  BY <1>2, <1>4, <1>8, <1>9, <1>10, <1>11, <1>12

LEMMA NewestOrdered ==
  ASSUME NEW t, Ordered(t)
  PROVE  /\ Ordered(Newest(t)) /\ Len(Newest(t)) <= PREFS_CAP
         /\ Len(t) <= PREFS_CAP => Newest(t) = t
<1> DEFINE d == Len(t) - PREFS_CAP
           u == SubSeq(t, d + 1, Len(t))
<1>1. PREFS_CAP \in Nat \ {0} /\ t \in Seq(Entry) /\ Len(t) \in Nat
  BY SettingsAssumption DEF Ordered
<1>2. CASE ~(Len(t) > PREFS_CAP)
  BY <1>1, <1>2 DEF Newest
<1>3. CASE Len(t) > PREFS_CAP
  <2>1. Newest(t) = u
    BY <1>1, <1>3 DEF Newest
  <2>2. d \in Nat /\ d + PREFS_CAP = Len(t)
    BY <1>1, <1>3
  <2>3. u \in Seq(Entry) /\ Len(u) = PREFS_CAP /\ \A i \in 1..PREFS_CAP : u[i] = t[d + i]
    BY <1>1, <2>2
  <2> HIDE DEF d, u
  <2>4. ASSUME NEW i \in 1..PREFS_CAP, NEW j \in 1..PREFS_CAP, i < j
        PROVE  u[i].id # u[j].id /\ Before(u[i], u[j])
    <3>1. d + i \in 1..Len(t) /\ d + j \in 1..Len(t) /\ d + i < d + j
      BY <1>1, <2>2, <2>4
    <3> QED  BY <2>3, <3>1 DEF Ordered
  <2>5. Ordered(u)
    BY <2>3, <2>4 DEF Ordered
  <2> QED  BY <1>1, <1>3, <2>1, <2>3, <2>5
<1> QED  BY <1>2, <1>3

LEMMA PrefsOfOrdered ==
  ASSUME NEW f, FileOK(f)
  PROVE  Ordered(PrefsOf(f)) /\ Len(PrefsOf(f)) <= PREFS_CAP
<1> DEFINE H == Having(f)
           c == Cardinality(H)
           s == Sorted(f)
           t == [i \in 1..c |-> [id |-> s[i], p |-> f[s[i]].p, at |-> f[s[i]].at]]
<1>1. /\ c \in Nat
      /\ \A id \in H : id \in Nat /\ id \in Channel /\ f[id].at \in Nat
                       /\ f[id].p \in (SUBSET ChannelPrefs) \ {{}}
  BY HavingFinite
<1>2. s \in [1..c -> H] /\ \A i, j \in 1..c : i < j => Older(f, s[i], s[j])
  BY SortedIsIncreasing DEF Increasing
<1>3. \A i, j \in 1..c : s[i] = s[j] => i = j
  BY SortedIsIncreasing, IncreasingMeets
<1> HIDE DEF H, c
<1>4. Len(s) = c
  BY <1>1, <1>2
<1>5. PrefsOf(f) = Newest(t)
  BY <1>4 DEF PrefsOf
<1> HIDE DEF s
<1>6. \A i \in 1..c : t[i] \in Entry
  BY <1>1, <1>2 DEF Entry
<1>7. t \in Seq(Entry) /\ Len(t) = c
  BY <1>1, <1>6
<1>8. ASSUME NEW i \in 1..c, NEW j \in 1..c, i < j
      PROVE  t[i].id # t[j].id /\ Before(t[i], t[j])
  <2>1. t[i].id # t[j].id
    BY <1>1, <1>3, <1>8
  <2>2. Older(f, s[i], s[j])
    BY <1>2, <1>8
  <2> QED  BY <2>1, <2>2 DEF Before, Older
<1>9. Ordered(t)
  BY <1>7, <1>8 DEF Ordered
<1> QED  BY <1>5, <1>9, NewestOrdered

(* The file of an order of preferences gives it back.                      *)
PrefsFile(t) ==
  [id \in {t[i].id : i \in 1..Len(t)} |->
     LET e == CHOOSE e \in Range(t) : e.id = id IN [p |-> e.p, at |-> e.at]]

LEMMA SavedPrefs ==
  ASSUME NEW t, Ordered(t), Len(t) <= PREFS_CAP
  PROVE  FileOK(PrefsFile(t)) /\ PrefsOf(PrefsFile(t)) = t
<1> DEFINE f == PrefsFile(t)
           n == Len(t)
           I == {t[i].id : i \in 1..n}
           s == [i \in 1..n |-> t[i].id]
<1>1. n \in Nat /\ t \in Seq(Entry) /\ \A i \in 1..n : t[i] \in Entry
  BY DEF Ordered
<1>2. \A i, j \in 1..n : t[i].id = t[j].id => i = j
  <2>1. \A i, j \in 1..n : i < j \/ j < i \/ i = j
    BY <1>1
  <2> QED  BY <2>1 DEF Ordered
<1>3. ASSUME NEW i \in 1..n PROVE f[t[i].id] = [p |-> t[i].p, at |-> t[i].at]
  <2> DEFINE e == CHOOSE e \in Range(t) : e.id = t[i].id
  <2>1. Range(t) = {t[j] : j \in 1..n}
    BY <1>1 DEF Range
  <2>2. t[i] \in Range(t) /\ \A x \in Range(t) : x.id = t[i].id => x = t[i]
    BY <1>2, <2>1
  <2>3. e = t[i]
    BY <2>2
  <2>4. f[t[i].id] = [p |-> e.p, at |-> e.at]
    <3>1. t[i].id \in {t[j].id : j \in 1..Len(t)}
      OBVIOUS
    <3> QED  BY <3>1 DEF PrefsFile
  <2> QED  BY <2>3, <2>4
<1>4. DOMAIN f = I
  BY DEF PrefsFile
<1> HIDE DEF f
<1>5. FileOK(f)
  <2>1. ASSUME NEW i \in 1..n
        PROVE t[i].id \in Channel /\ f[t[i].id] \in [p : SUBSET ChannelPrefs, at : Nat]
    <3>1. t[i].id \in Channel /\ t[i].p \in SUBSET ChannelPrefs /\ t[i].at \in Nat
      BY <1>1, EntryFields
    <3>2. [p |-> t[i].p, at |-> t[i].at] \in [p : SUBSET ChannelPrefs, at : Nat]
      BY <3>1
    <3>3. f[t[i].id] = [p |-> t[i].p, at |-> t[i].at]
      BY <1>3
    <3> QED  BY <3>1, <3>2, <3>3
  <2> QED  BY <1>4, <2>1 DEF FileOK
<1>6. Having(f) = I
  <2>1. ASSUME NEW i \in 1..n PROVE f[t[i].id].p # {}
    <3>1. t[i].p # {}
      BY <1>1, EntryFields
    <3>2. f[t[i].id] = [p |-> t[i].p, at |-> t[i].at]
      BY <1>3
    <3> QED  BY <3>1, <3>2
  <2> QED  BY <1>4, <2>1 DEF Having
<1>7. s \in [1..n -> I] /\ s \in Seq(I) /\ Len(s) = n
  BY <1>1
<1>8. Cardinality(I) = n
  <2>1. s \in Bijection(1..n, I)
    BY <1>2, <1>7 DEF Bijection, Injection, IsInjective, Surjection
  <2>2. ExistsBijection(1..n, I)
    BY <2>1, Zenon DEF ExistsBijection
  <2>3. IsFiniteSet(1..n) /\ Cardinality(1..n) = n
    <3> HIDE DEF n
    <3> QED  BY <1>1, FS_Interval
  <2> HIDE DEF I, s
  <2> QED  BY <2>2, <2>3, FS_Bijection
<1>9. ASSUME NEW i \in 1..n, NEW j \in 1..n, i < j PROVE Older(f, s[i], s[j])
  <2>1. Before(t[i], t[j])
    BY <1>9 DEF Ordered
  <2>2. /\ s[i] = t[i].id /\ f[t[i].id] = [p |-> t[i].p, at |-> t[i].at]
        /\ s[j] = t[j].id /\ f[t[j].id] = [p |-> t[j].p, at |-> t[j].at]
    BY <1>3
  <2>3. f[t[i].id].at = t[i].at /\ f[t[j].id].at = t[j].at
    BY <2>2
  <2> QED  BY <2>1, <2>2, <2>3 DEF Before, Older
<1>10. Increasing(f, s)
  <2> HIDE DEF I, s
  <2> QED  BY <1>6, <1>7, <1>8, <1>9 DEF Increasing
<1>11. Sorted(f) = s
  <2> HIDE DEF s
  <2> QED  BY <1>5, <1>10, SortedIsIncreasing, IncreasingUnique
<1>12. PrefsOf(f) = Newest([i \in 1..n |-> [id |-> s[i], p |-> f[s[i]].p, at |-> f[s[i]].at]])
  <2> HIDE DEF s
  <2> QED  BY <1>7, <1>11 DEF PrefsOf
<1>13. [i \in 1..n |-> [id |-> s[i], p |-> f[s[i]].p, at |-> f[s[i]].at]] = t
  <2>1. ASSUME NEW i \in 1..n PROVE [id |-> s[i], p |-> f[s[i]].p, at |-> f[s[i]].at] = t[i]
    <3>1. s[i] = t[i].id /\ f[t[i].id] = [p |-> t[i].p, at |-> t[i].at]
      BY <1>3
    <3>2. f[s[i]].p = t[i].p /\ f[s[i]].at = t[i].at
      BY <3>1
    <3>3. t[i] = [id |-> t[i].id, p |-> t[i].p, at |-> t[i].at]
      BY <1>1, EntryFields
    <3> HIDE DEF s
    <3> QED  BY <3>1, <3>2, <3>3
  <2>2. t = [i \in 1..n |-> t[i]]
    BY <1>1
  <2> HIDE DEF s, n
  <2> QED  BY <2>1, <2>2, Zenon
<1> QED  BY <1>5, <1>12, <1>13, NewestOrdered DEF f

(* A change of preferences keeps their order.                              *)
LEMMA RemovedOrdered ==
  ASSUME NEW t, Ordered(t), NEW k \in 1..Len(t)
  PROVE  /\ Ordered(RemoveAt(t, k)) /\ Len(RemoveAt(t, k)) = Len(t) - 1
         /\ \A i \in 1..Len(RemoveAt(t, k)) : RemoveAt(t, k)[i].id # t[k].id
<1> DEFINE u == RemoveAt(t, k)
           old(i) == IF i < k THEN i ELSE i + 1
<1>1. t \in Seq(Entry) /\ Len(t) \in Nat /\ k \in 1..Len(t)
  BY DEF Ordered
<1>2. /\ u \in Seq(Entry) /\ Len(u) = Len(t) - 1
      /\ \A i \in 1..Len(u) : u[i] = t[old(i)]
  <2> DEFINE a == SubSeq(t, 1, k - 1)
             b == SubSeq(t, k + 1, Len(t))
  <2>1. a \in Seq(Entry) /\ Len(a) = k - 1 /\ \A i \in 1..(k - 1) : a[i] = t[i]
    BY <1>1
  <2>2. b \in Seq(Entry) /\ Len(b) = Len(t) - k /\ \A i \in 1..(Len(t) - k) : b[i] = t[k + i]
    BY <1>1
  <2>3. u = a \o b
    BY DEF RemoveAt
  <2> HIDE DEF a, b, u
  <2>4. u \in Seq(Entry) /\ Len(u) = Len(t) - 1
    BY <1>1, <2>1, <2>2, <2>3
  <2>5. ASSUME NEW i \in 1..Len(u) PROVE u[i] = t[old(i)]
    <3>1. CASE i < k
      BY <1>1, <2>1, <2>2, <2>3, <2>4, <3>1
    <3>2. CASE ~(i < k)
      <4>1. i - (k - 1) \in 1..(Len(t) - k) /\ k + (i - (k - 1)) = i + 1
        BY <1>1, <2>4, <3>2
      <4>2. u[i] = b[i - (k - 1)]
        BY <1>1, <2>1, <2>2, <2>3, <2>4, <3>2
      <4> QED  BY <2>2, <3>2, <4>1, <4>2
    <3> QED  BY <3>1, <3>2
  <2> QED  BY <2>4, <2>5
<1>3. /\ \A i \in 1..Len(u) : old(i) \in 1..Len(t) /\ old(i) # k
      /\ \A i, j \in 1..Len(u) : i < j => old(i) < old(j)
  BY <1>1, <1>2
<1> HIDE DEF u, old
<1>4. \A i, j \in 1..Len(t) : t[i].id = t[j].id => i = j
  <2>1. \A i, j \in 1..Len(t) : i < j \/ j < i \/ i = j
    BY <1>1
  <2> QED  BY <2>1 DEF Ordered
<1>5. Ordered(u)
  <2>1. ASSUME NEW i \in 1..Len(u), NEW j \in 1..Len(u), i < j
        PROVE  u[i].id # u[j].id /\ Before(u[i], u[j])
    <3>1. /\ u[i] = t[old(i)] /\ u[j] = t[old(j)]
          /\ old(i) \in 1..Len(t) /\ old(j) \in 1..Len(t) /\ old(i) < old(j)
      BY <1>2, <1>3, <2>1
    <3> QED  BY <3>1 DEF Ordered
  <2> QED  BY <1>2, <2>1 DEF Ordered
<1>6. \A i \in 1..Len(u) : u[i].id # t[k].id
  BY <1>2, <1>3, <1>4
<1> QED  BY <1>2, <1>5, <1>6 DEF u

LEMMA StampedOrdered ==
  ASSUME NEW t, Ordered(t), clock \in Nat, NEW id \in Channel,
         NEW p \in (SUBSET ChannelPrefs) \ {{}}, \A i \in 1..Len(t) : t[i].id # id
  PROVE  Ordered(Append(t, [id |-> id, p |-> p, at |-> stamp(t)]))
<1> DEFINE e == [id |-> id, p |-> p, at |-> stamp(t)]
           n == Len(t)
           u == Append(t, e)
<1>1. n \in Nat /\ t \in Seq(Entry) /\ \A i \in 1..n : t[i] \in Entry /\ t[i].at \in Nat
  <2>1. n \in Nat /\ t \in Seq(Entry) /\ \A i \in 1..n : t[i] \in Entry
    BY DEF Ordered
  <2> QED  BY <2>1, EntryFields
<1>2. LastStamp(t) \in Nat /\ \A i \in 1..n : t[i].at <= LastStamp(t)
  <2>1. CASE t = <<>>
    BY <1>1, <2>1 DEF LastStamp
  <2>2. CASE t # <<>>
    <3>1. n \in 1..n /\ LastStamp(t) = t[n].at
      BY <1>1, <2>2 DEF LastStamp, Last
    <3>2. ASSUME NEW i \in 1..n PROVE t[i].at <= t[n].at
      <4>1. i = n \/ i < n
        BY <1>1
      <4> QED  BY <1>1, <3>1, <4>1 DEF Ordered, Before
    <3> QED  BY <1>1, <3>1, <3>2
  <2> QED  BY <2>1, <2>2
<1>3. stamp(t) \in Nat /\ LastStamp(t) < stamp(t)
  <2> DEFINE a == LastStamp(t) + 1
             T == {clock, a}
             m == CHOOSE x \in T : \A y \in T : x >= y
  <2>1. a \in Nat /\ clock \in Nat
    BY <1>2
  <2> HIDE DEF a
  <2>2. \E x \in T : \A y \in T : x >= y
    BY <2>1
  <2>3. m \in T /\ \A y \in T : m >= y
    <3> HIDE DEF T
    <3> QED  BY <2>2
  <2>4. stamp(t) = m
    BY DEF stamp, Max, a
  <2> HIDE DEF m
  <2>5. m \in Nat /\ m >= a
    BY <2>1, <2>3
  <2> QED  BY <1>2, <2>4, <2>5 DEF a
<1>4. e \in Entry
  BY <1>3 DEF Entry
<1>5. u \in Seq(Entry) /\ Len(u) = n + 1 /\ u[n + 1] = e /\ \A i \in 1..n : u[i] = t[i]
  BY <1>1, <1>4
<1>6. e.id = id /\ e.at = stamp(t)
  OBVIOUS
<1> HIDE DEF u, e
<1>7. ASSUME NEW i \in 1..(n + 1), NEW j \in 1..(n + 1), i < j
      PROVE  u[i].id # u[j].id /\ Before(u[i], u[j])
  <2>1. CASE j = n + 1
    <3>1. i \in 1..n
      BY <1>1, <1>7, <2>1
    <3> QED  BY <1>1, <1>2, <1>3, <1>5, <1>6, <2>1, <3>1 DEF Before
  <2>2. CASE j # n + 1
    <3>1. i \in 1..n /\ j \in 1..n
      BY <1>1, <1>7, <2>2
    <3> QED  BY <1>5, <1>7, <3>1 DEF Ordered
  <2> QED  BY <2>1, <2>2
<1>8. Ordered(u)
  BY <1>5, <1>7 DEF Ordered
<1> QED  BY <1>8 DEF u, e

-----------------------------------------------------------------------------
(* The values of config.json.                                              *)
Lists(o, f) == \A k \in DOMAIN o : k \in DOMAIN f /\ f[k] = o[k]
Proper(u) == \A k \in DOMAIN u : k = Marker \/ validate(k, u[k]) = {u[k]}
Refused(x) == \A k \in DOMAIN x : k # Marker /\ validate(k, x[k]) = {}
Apart(u, x) == DOMAIN u \cap DOMAIN x = {}
Agree(u, w) == Lists(u, w) /\ \A k \in DOMAIN w : k \in DOMAIN u \/ k = "read_mode"

LEMMA ValidateIs ==
  ASSUME NEW k, NEW v
  PROVE  /\ k = "minqueue" => validate(k, v) = {n \in {v} : n <= MAX_QUEUE}
         /\ k \in {"read_mode", "verbosity"} => validate(k, v) = {canonical(v)} \cap Options[k]
         /\ k = "summaries" => validate(k, v) = IF "bogus" \in v THEN {} ELSE {v \cap Fields}
         /\ k \in {"engine", "voice"} => validate(k, v) = {v}
         /\ k \notin {"minqueue", "read_mode", "verbosity", "summaries", "engine", "voice"} =>
              validate(k, v) = {}
<1>1. DOMAIN Options = {"read_mode", "verbosity"}
  BY DEF Options
<1> HIDE DEF Options
<1>2. CASE k = "minqueue"
  BY <1>1, <1>2 DEF validate
<1>3. CASE k \in {"read_mode", "verbosity"}
  BY <1>1, <1>3 DEF validate
<1>4. CASE k = "summaries"
  BY <1>1, <1>4 DEF validate
<1>5. CASE k \in {"engine", "voice"}
  BY <1>1, <1>5 DEF validate
<1>6. CASE k \notin {"minqueue", "read_mode", "verbosity", "summaries", "engine", "voice"}
  BY <1>1, <1>6 DEF validate
<1> QED  BY <1>2, <1>3, <1>4, <1>5, <1>6

(* A value that was taken is taken again as it is.                         *)
LEMMA CleanLemma ==
  ASSUME NEW k, NEW v, validate(k, v) # {}
  PROVE  validate(k, Clean(k, v)) = {Clean(k, v)} /\ k # Marker
<1> DEFINE w == Clean(k, v)
<1>1. w \in validate(k, v)
  BY DEF Clean
<1> HIDE DEF w
<1>2. k # Marker
  BY ValidateIs DEF Marker
<1>3. validate(k, w) = {w}
  <2>1. CASE k = "minqueue"
    <3>1. validate(k, v) = {n \in {v} : n <= MAX_QUEUE}
      BY <2>1, ValidateIs
    <3>2. w = v /\ v <= MAX_QUEUE
      BY <1>1, <3>1
    <3>3. {n \in {v} : n <= MAX_QUEUE} = {v}
      BY <3>2
    <3> QED  BY <3>1, <3>2, <3>3
  <2>2. CASE k \in {"read_mode", "verbosity"}
    <3>1. w = canonical(v) /\ w \in Options[k]
      BY <1>1, <2>2, ValidateIs
    <3>2. canonical(w) = w
      BY <3>1 DEF canonical
    <3> QED  BY <2>2, <3>1, <3>2, ValidateIs
  <2>3. CASE k = "summaries"
    <3>1. w = v \cap Fields
      BY <1>1, <2>3, ValidateIs
    <3>2. "bogus" \notin w /\ w \cap Fields = w
      BY <3>1 DEF Fields
    <3> QED  BY <2>3, <3>2, ValidateIs
  <2>4. CASE k \in {"engine", "voice"}
    BY <2>4, ValidateIs
  <2>5. CASE k \notin {"minqueue", "read_mode", "verbosity", "summaries", "engine", "voice"}
    BY <2>5, ValidateIs
  <2> QED  BY <2>1, <2>2, <2>3, <2>4, <2>5
<1> QED  BY <1>2, <1>3 DEF w

LEMMA MappedLemma ==
  ASSUME NEW u, NEW x
  PROVE  /\ Agree(u, mapped(u, x))
         /\ Proper(u) => Proper(mapped(u, x))
         /\ Apart(u, x) => Apart(mapped(u, x), x)
<1>1. CASE mapped(u, x) = u
  BY <1>1 DEF Agree, Lists
<1>2. CASE mapped(u, x) # u
  <2> DEFINE v == IF u.minqueue <= 1 THEN "immediate" ELSE "queue"
  <2>1. "read_mode" \notin DOMAIN x /\ "read_mode" \notin DOMAIN u /\ mapped(u, x) = With(u, "read_mode", v)
    BY <1>2 DEF mapped, read_mode_from_minqueue
  <2>2. v \in {"immediate", "queue"}
    OBVIOUS
  <2> HIDE DEF v
  <2>3. validate("read_mode", v) = {v}
    BY <2>2, ValidateIs DEF canonical, Options
  <2>4. /\ DOMAIN mapped(u, x) = DOMAIN u \cup {"read_mode"}
        /\ mapped(u, x)["read_mode"] = v
        /\ \A k \in DOMAIN u : mapped(u, x)[k] = u[k]
    BY <2>1 DEF With
  <2>5. Agree(u, mapped(u, x))
    BY <2>4 DEF Agree, Lists
  <2>6. ASSUME Proper(u) PROVE Proper(mapped(u, x))
    BY <2>3, <2>4, <2>6 DEF Proper
  <2>7. ASSUME Apart(u, x) PROVE Apart(mapped(u, x), x)
    BY <2>1, <2>4, <2>7 DEF Apart
  <2> QED  BY <2>5, <2>6, <2>7
<1> QED  BY <1>1, <1>2

(* What is loaded of a file.                                               *)
LEMMA LoadSplits ==
  ASSUME NEW raw
  PROVE  /\ Proper(UserOf(raw)) /\ Refused(ExtraOf(raw)) /\ Apart(UserOf(raw), ExtraOf(raw))
         /\ Marker \in DOMAIN raw <=> Marker \in DOMAIN UserOf(raw)
         /\ \A o : Refused(o) /\ Lists(o, raw) => Lists(o, ExtraOf(raw))
<1>1. /\ DOMAIN UserOf(raw) = Used(raw)
      /\ \A k \in Used(raw) : UserOf(raw)[k] = IF k = Marker THEN raw[k] ELSE Clean(k, raw[k])
  BY DEF UserOf
<1>2. DOMAIN ExtraOf(raw) = DOMAIN raw \ Used(raw) /\ \A k \in DOMAIN raw \ Used(raw) : ExtraOf(raw)[k] = raw[k]
  BY DEF ExtraOf
<1>3. \A k : k \in Used(raw) <=> k \in DOMAIN raw /\ (k = Marker \/ validate(k, raw[k]) # {})
  BY DEF Used
<1>4. Proper(UserOf(raw))
  <2>1. ASSUME NEW k \in Used(raw), k # Marker
        PROVE  validate(k, UserOf(raw)[k]) = {UserOf(raw)[k]}
    BY <1>1, <1>3, <2>1, CleanLemma
  <2> QED  BY <1>1, <2>1 DEF Proper
<1>5. Refused(ExtraOf(raw))
  BY <1>2, <1>3 DEF Refused
<1>6. Apart(UserOf(raw), ExtraOf(raw))
  BY <1>1, <1>2 DEF Apart
<1>7. Marker \in DOMAIN raw <=> Marker \in DOMAIN UserOf(raw)
  BY <1>1, <1>3
<1>8. ASSUME NEW o, Refused(o), Lists(o, raw) PROVE Lists(o, ExtraOf(raw))
  <2>1. ASSUME NEW k \in DOMAIN o PROVE k \in DOMAIN raw /\ raw[k] = o[k] /\ k # Marker /\ validate(k, o[k]) = {}
    BY <1>8 DEF Refused, Lists
  <2>2. ASSUME NEW k \in DOMAIN o PROVE k \in DOMAIN raw \ Used(raw) /\ raw[k] = o[k]
    BY <1>3, <2>1
  <2> QED  BY <1>2, <2>2 DEF Lists
<1> QED  BY <1>4, <1>5, <1>6, <1>7, <1>8

(* What is saved is loaded again.                                          *)
LEMMA SavedAgain ==
  ASSUME NEW u, NEW x, Proper(u), Refused(x), Apart(u, x)
  PROVE  /\ Agree(u, mapped(UserOf(Over(x, u)), ExtraOf(Over(x, u))))
         /\ \A o : Lists(o, x) => Lists(o, Over(x, u))
         /\ Marker \in DOMAIN Over(x, u) => Marker \in DOMAIN u
<1> DEFINE m == Over(x, u)
<1>1. /\ DOMAIN m = DOMAIN x \cup DOMAIN u
      /\ \A k \in DOMAIN u : m[k] = u[k]
      /\ \A k \in DOMAIN x : m[k] = x[k]
  BY DEF Over, Apart
<1> HIDE DEF m
<1>2. \A k : k \in Used(m) <=> k \in DOMAIN u
  <2>1. \A k : k \in Used(m) <=> k \in DOMAIN m /\ (k = Marker \/ validate(k, m[k]) # {})
    BY DEF Used
  <2>2. ASSUME NEW k \in DOMAIN u PROVE k = Marker \/ validate(k, m[k]) # {}
    BY <1>1 DEF Proper
  <2>3. ASSUME NEW k \in DOMAIN x PROVE k # Marker /\ validate(k, m[k]) = {}
    BY <1>1 DEF Refused
  <2> QED  BY <1>1, <2>1, <2>2, <2>3
<1>3. DOMAIN UserOf(m) = DOMAIN u
  BY <1>2 DEF UserOf
<1>4. ASSUME NEW k \in DOMAIN u PROVE UserOf(m)[k] = u[k]
  <2>1. UserOf(m)[k] = IF k = Marker THEN m[k] ELSE Clean(k, m[k])
    BY <1>2 DEF UserOf
  <2>2. ASSUME k # Marker PROVE Clean(k, m[k]) = u[k]
    BY <1>1, <2>2 DEF Proper, Clean
  <2> QED  BY <1>1, <2>1, <2>2
<1>5. ASSUME NEW w, Agree(UserOf(m), w) PROVE Agree(u, w)
  BY <1>3, <1>4, <1>5 DEF Agree, Lists
<1>6. Agree(u, mapped(UserOf(m), ExtraOf(m)))
  BY <1>5, MappedLemma
<1>7. \A o : Lists(o, x) => Lists(o, m)
  BY <1>1 DEF Lists
<1>8. Marker \in DOMAIN m => Marker \in DOMAIN u
  BY <1>1 DEF Refused
<1> QED  BY <1>6, <1>7, <1>8 DEF m

-----------------------------------------------------------------------------
(* The invariant.                                                          *)
Whole(s) == s = [user |-> s.user, extra |-> s.extra, prefs |-> s.prefs]
Good(s) == Proper(s.user) /\ Refused(s.extra) /\ Apart(s.user, s.extra)

SettingsShape ==
  /\ home = [config |-> home.config, bad |-> home.bad, prefs |-> home.prefs,
             keymap |-> home.keymap, earcons |-> home.earcons]
  /\ home.bad \in BOOLEAN /\ home.keymap \in {"none", "imported"}
  /\ home.config \in {Missing, Garbage} \/ home.config = Json(home.config.json)
  /\ home.prefs = Missing \/ home.prefs = Json(home.prefs.json)
  /\ Whole(store)
  /\ own = [keys |-> own.keys, text |-> own.text] /\ own.text \in BOOLEAN
  /\ did = [sets |-> did.sets, edits |-> did.edits, starts |-> did.starts, fails |-> did.fails,
            behind |-> did.behind]
  /\ did.sets \in Nat /\ did.edits \in Nat /\ did.fails \in Nat
  /\ clock \in Nat
  /\ legacy.config \in BOOLEAN /\ legacy.keymap \in BOOLEAN /\ legacy.prefs \in BOOLEAN

(* What the user wrote and the runtime refuses is in the file, and among   *)
(* what the Store loaded and saves with the rest.                          *)
OwnOK ==
  /\ Refused(own.keys) /\ Lists(own.keys, home.config.json)
  /\ own.text => home.config = Garbage \/ home.bad
  /\ stage \in {"keymap", "prefs", "earcons", "copying", "config"} => home.config = Missing
  /\ stage = "up" => Lists(own.keys, store.extra) /\ (own.text => home.bad)

StoreOK == stage = "up" => Good(store)

(* The import has taken a file over once it is past its step.              *)
KeymapIn == did.fails = 0 /\ legacy.keymap => home.keymap = "imported"
PrefsIn == did.fails = 0 /\ legacy.prefs => home.prefs # Missing
MarkerSeen == Marker \in DOMAIN home.config.json \/ (stage = "up" /\ Marker \in DOMAIN store.user)
ImportOK ==
  /\ stage \in {"prefs", "earcons", "copying", "config"} => KeymapIn
  /\ stage \in {"earcons", "copying", "config"} => PrefsIn
  /\ MarkerSeen => KeymapIn /\ PrefsIn
  /\ Marker \in DOMAIN home.config.json /\ did.fails = 0 /\ did.sets = 0 /\ did.edits = 0 =>
       Lists(convert_config, home.config.json)

(* The reader speaks with what the Store says, and so it will again.       *)
VoiceOK ==
  stage = "up" => speech = [engine |-> EngineOf(store), voice |-> speech.voice]
                  /\ (Waits \/ speech.voice = VoiceOf(store))
AgainOK == stage = "up" /\ "config" \notin did.behind => Agree(store.user, load(home).user)

PrefsOK ==
  /\ FileOK(home.prefs.json)
  /\ stage = "up" => Ordered(store.prefs) /\ Len(store.prefs) <= PREFS_CAP
  /\ stage = "up" /\ "prefs" \notin did.behind => PrefsOf(home.prefs.json) = store.prefs

FilesOK == SettingsShape /\ OwnOK /\ StoreOK /\ ImportOK /\ AgainOK /\ PrefsOK
SettingsIInv == FilesOK /\ VoiceOK

LEMMA SettingsKeptFollows == SettingsIInv => SettingsKept
<1> SUFFICES ASSUME SettingsIInv PROVE SettingsKept
  OBVIOUS
<1> USE DEF SettingsIInv, FilesOK
<1>1. NothingErased
  <2>1. Lists(own.keys, home.config.json)
    BY DEF OwnOK
  <2>2. own.text => home.config = Garbage \/ home.bad
    BY DEF OwnOK
  <2>3. ASSUME Marker \in DOMAIN home.config.json, did.fails = 0
        PROVE  /\ legacy.keymap => home.keymap = "imported"
               /\ legacy.prefs => home.prefs # Missing
               /\ did.sets = 0 /\ did.edits = 0 => Lists(convert_config, home.config.json)
    BY <2>3 DEF ImportOK, MarkerSeen, KeymapIn, PrefsIn
  <2> QED  BY <2>1, <2>2, <2>3 DEF NothingErased, Lists
<1>2. SurvivesRestart
  <2> DEFINE again == load(home)
  <2> SUFFICES ASSUME stage = "up"
               PROVE /\ "config" \notin did.behind =>
                           /\ \A k \in DOMAIN store.user : k \in DOMAIN again.user /\ again.user[k] = store.user[k]
                           /\ Waits \/ apply_reader(again) = speech
                     /\ "prefs" \notin did.behind => again.prefs = store.prefs
    BY DEF SurvivesRestart
  <2>1. again.prefs = PrefsOf(home.prefs.json)
    BY DEF load, read_object
  <2>2. "prefs" \notin did.behind => again.prefs = store.prefs
    BY <2>1 DEF PrefsOK
  <2> HIDE DEF again
  <2>3. ASSUME "config" \notin did.behind
        PROVE  /\ \A k \in DOMAIN store.user : k \in DOMAIN again.user /\ again.user[k] = store.user[k]
               /\ Waits \/ apply_reader(again) = speech
    <3>1. Agree(store.user, again.user)
      BY <2>3 DEF AgainOK, again
    <3>2. /\ \A k \in DOMAIN store.user : k \in DOMAIN again.user /\ again.user[k] = store.user[k]
          /\ \A k \in {"engine", "voice"} : k \in DOMAIN again.user => k \in DOMAIN store.user
      BY <3>1 DEF Agree, Lists
    <3>3. EngineOf(again) = EngineOf(store)
      BY <3>2 DEF EngineOf
    <3>4. VoiceOf(again) = VoiceOf(store)
      BY <3>2, <3>3 DEF VoiceOf
    <3>5. apply_reader(again) = [engine |-> EngineOf(store), voice |-> VoiceOf(store)]
      BY <3>3, <3>4 DEF apply_reader
    <3>6. Waits \/ apply_reader(again) = speech
      BY <3>5 DEF VoiceOK
    <3> QED  BY <3>2, <3>6
  <2> QED  BY <2>2, <2>3
<1> QED  BY <1>1, <1>2 DEF SettingsKept

LEMMA SettingsInitIInv == SettingsInit => SettingsIInv
<1> SUFFICES ASSUME SettingsInit PROVE SettingsIInv
  OBVIOUS
<1> USE DEF SettingsInit
<1>1. /\ home.config = Missing /\ home.prefs = Missing /\ home.config.json = Empty /\ home.prefs.json = Empty
      /\ DOMAIN Empty = {} /\ own.keys = Empty /\ ~own.text /\ stage = "down"
  BY DEF Missing, Empty
<1>2. SettingsShape
  <2>1. legacy.config \in BOOLEAN /\ legacy.keymap \in BOOLEAN /\ legacy.prefs \in BOOLEAN
    OBVIOUS
  <2> QED  BY <2>1 DEF SettingsShape, Whole, NoStore
<1>3. OwnOK /\ StoreOK /\ AgainOK /\ VoiceOK
  BY <1>1 DEF OwnOK, StoreOK, AgainOK, VoiceOK, Refused, Lists
<1>4. ImportOK
  BY <1>1 DEF ImportOK, MarkerSeen
<1>5. PrefsOK
  BY <1>1 DEF PrefsOK, FileOK
<1> QED  BY <1>2, <1>3, <1>4, <1>5 DEF SettingsIInv, FilesOK

-----------------------------------------------------------------------------
(* Steps that save config.json.                                            *)
LEMMA RecordedLemma ==
  ASSUME NEW s, Whole(s), Good(s), NEW k, NEW v, validate(k, v) = {v}, k # Marker
  PROVE  /\ Whole(Recorded(s, k, v)) /\ Good(Recorded(s, k, v))
         /\ Recorded(s, k, v).user = With(s.user, k, v)
         /\ Recorded(s, k, v).extra = Without(s.extra, k)
         /\ Recorded(s, k, v).prefs = s.prefs
<1> DEFINE r == Recorded(s, k, v)
<1>1. s = [user |-> s.user, extra |-> s.extra, prefs |-> s.prefs]
  BY DEF Whole
<1>2. DOMAIN s = {"user", "extra", "prefs"}
  BY <1>1
<1>3. /\ r.user = With(s.user, k, v) /\ r.extra = Without(s.extra, k) /\ r.prefs = s.prefs
      /\ DOMAIN r = {"user", "extra", "prefs"} /\ r = [x \in DOMAIN r |-> r[x]]
  BY <1>2 DEF Recorded
<1> HIDE DEF r
<1>4. Whole(r)
  BY <1>3 DEF Whole
<1>5. /\ DOMAIN r.user = DOMAIN s.user \cup {k} /\ r.user[k] = v
      /\ \A x \in DOMAIN s.user : x # k => r.user[x] = s.user[x]
      /\ DOMAIN r.extra = DOMAIN s.extra \ {k} /\ \A x \in DOMAIN r.extra : r.extra[x] = s.extra[x]
  BY <1>3 DEF With, Without
<1>6. Proper(r.user)
  BY <1>5 DEF Good, Proper
<1>7. Refused(r.extra) /\ Apart(r.user, r.extra)
  BY <1>5 DEF Good, Refused, Apart
<1> QED  BY <1>3, <1>4, <1>6, <1>7 DEF Good, r

LEMMA ListsWithout ==
  ASSUME NEW o, NEW x, NEW k, Lists(o, x)
  PROVE  /\ Lists(Without(o, k), Without(x, k)) /\ Lists(Without(o, k), x)
         /\ Refused(o) => Refused(Without(o, k))
         /\ k \notin DOMAIN o => Lists(o, Without(x, k))
<1>1. /\ DOMAIN Without(o, k) = DOMAIN o \ {k} /\ \A y \in DOMAIN o \ {k} : Without(o, k)[y] = o[y]
      /\ DOMAIN Without(x, k) = DOMAIN x \ {k} /\ \A y \in DOMAIN x \ {k} : Without(x, k)[y] = x[y]
  BY DEF Without
<1> QED  BY <1>1 DEF Lists, Refused

(* What a step of the Store leaves of the records of the model.            *)
LEMMA SavesConfigFiles ==
  ASSUME FilesOK, stage = "up", NEW s, Whole(s), Good(s), s.prefs = store.prefs,
         Marker \in DOMAIN s.user => Marker \in DOMAIN store.user,
         NEW k, Lists(Without(own.keys, k), s.extra),
         SavesConfig(s), Forgotten(k), UNCHANGED <<stage, legacy, clock>>
  PROVE  FilesOK' /\ store' = s
<1> USE DEF FilesOK
<1> DEFINE keys == Without(own.keys, k)
           m == Over(s.extra, s.user)
<1>1. store' = s /\ stage' = stage /\ legacy' = legacy /\ clock' = clock
  BY DEF SavesConfig
<1>2. own'.keys = keys /\ own'.text = own.text /\ own' = [keys |-> own'.keys, text |-> own'.text]
  <2>1. own = [keys |-> own.keys, text |-> own.text]
    BY DEF SettingsShape
  <2>2. DOMAIN own = {"keys", "text"}
    BY <2>1
  <2>3. own' = [own EXCEPT !.keys = keys]
    BY DEF Forgotten
  <2> HIDE DEF keys
  <2> QED  BY <2>2, <2>3
<1>3. /\ Agree(s.user, mapped(UserOf(m), ExtraOf(m)))
      /\ \A o : Lists(o, s.extra) => Lists(o, m)
      /\ Marker \in DOMAIN m => Marker \in DOMAIN s.user
  BY SavedAgain DEF Good
<1>4. Refused(keys)
  BY ListsWithout DEF OwnOK
<1>5. Lists(keys, s.extra) /\ Lists(keys, m)
  BY <1>3
<1>6. /\ home = [config |-> home.config, bad |-> home.bad, prefs |-> home.prefs,
                 keymap |-> home.keymap, earcons |-> home.earcons]
      /\ did = [sets |-> did.sets, edits |-> did.edits, starts |-> did.starts, fails |-> did.fails,
                behind |-> did.behind]
      /\ did.sets \in Nat /\ did.edits \in Nat /\ did.fails \in Nat
  BY DEF SettingsShape
<1>7. /\ DOMAIN home = {"config", "bad", "prefs", "keymap", "earcons"}
      /\ DOMAIN did = {"sets", "edits", "starts", "fails", "behind"}
  BY <1>6
<1> HIDE DEF m, keys
<1>8. \/ /\ home' = [home EXCEPT !.config = Json(m)]
         /\ did' = [[did EXCEPT !.sets = @ + 1] EXCEPT !.behind = @ \ {"config"}]
      \/ /\ home' = home
         /\ did' = [[did EXCEPT !.sets = @ + 1] EXCEPT !.fails = @ + 1, !.behind = @ \cup {"config"}]
  BY DEF SavesConfig, save_config, m, Counted
<1>9. /\ home'.bad = home.bad /\ home'.prefs = home.prefs /\ home'.keymap = home.keymap
      /\ home' = [config |-> home'.config, bad |-> home'.bad, prefs |-> home'.prefs,
                  keymap |-> home'.keymap, earcons |-> home'.earcons]
      /\ did' = [sets |-> did'.sets, edits |-> did'.edits, starts |-> did'.starts, fails |-> did'.fails,
                 behind |-> did'.behind]
      /\ did'.sets = did.sets + 1 /\ did'.edits = did.edits /\ did'.fails \in Nat
      /\ did'.fails = 0 => did.fails = 0
      /\ "prefs" \in did'.behind <=> "prefs" \in did.behind
      /\ \/ home'.config = Json(m)
         \/ home'.config = home.config /\ "config" \in did'.behind
  <2>1. CASE /\ home' = [home EXCEPT !.config = Json(m)]
             /\ did' = [[did EXCEPT !.sets = @ + 1] EXCEPT !.behind = @ \ {"config"}]
    BY <1>6, <1>7, <2>1
  <2>2. CASE /\ home' = home
             /\ did' = [[did EXCEPT !.sets = @ + 1] EXCEPT !.fails = @ + 1, !.behind = @ \cup {"config"}]
    <3> DEFINE c == [did EXCEPT !.sets = @ + 1]
               b == c.behind \cup {"config"}
    <3>1. /\ DOMAIN c = DOMAIN did /\ c = [x \in DOMAIN c |-> c[x]]
          /\ c.sets = did.sets + 1 /\ c.edits = did.edits /\ c.starts = did.starts
          /\ c.fails = did.fails /\ c.behind = did.behind
      BY <1>7
    <3>2. did' = [c EXCEPT !.fails = c.fails + 1, !.behind = b]
      BY <2>2
    <3> HIDE DEF c
    <3>3. "config" \in b /\ ("prefs" \in b <=> "prefs" \in did.behind)
      BY <3>1
    <3> HIDE DEF b
    <3>4. /\ did' = [sets |-> did'.sets, edits |-> did'.edits, starts |-> did'.starts,
                     fails |-> did'.fails, behind |-> did'.behind]
          /\ did'.sets = did.sets + 1 /\ did'.edits = did.edits
      BY <1>7, <3>1, <3>2
    <3>5. did'.fails = did.fails + 1 /\ did'.behind = b
      BY <1>7, <3>1, <3>2
    <3>6. did'.fails \in Nat /\ did'.fails # 0
      BY <1>6, <3>5
    <3> QED  BY <1>6, <2>2, <3>3, <3>4, <3>5, <3>6
  <2> QED  BY <1>8, <2>1, <2>2
<1>10. Json(m).json = m /\ Json(m).kind = "object" /\ Json(m) = Json(Json(m).json)
  BY DEF Json
<1>11. SettingsShape'
  BY <1>1, <1>2, <1>6, <1>9, <1>10 DEF SettingsShape
<1>12. OwnOK'
  <2>1. Refused(own'.keys) /\ Lists(own'.keys, store'.extra)
    BY <1>1, <1>2, <1>4, <1>5
  <2>2. Lists(own'.keys, home'.config.json)
    <3>1. Lists(keys, home.config.json)
      BY ListsWithout DEF OwnOK, keys
    <3> QED  BY <1>2, <1>5, <1>9, <1>10, <3>1
  <2>3. own'.text => home'.bad
    BY <1>2, <1>9 DEF OwnOK
  <2> QED  BY <1>1, <2>1, <2>2, <2>3 DEF OwnOK
<1>13. StoreOK'
  BY <1>1 DEF StoreOK
<1>14. ImportOK'
  <2>1. MarkerSeen' => MarkerSeen
    BY <1>1, <1>3, <1>9, <1>10 DEF MarkerSeen
  <2>2. (KeymapIn => KeymapIn') /\ (PrefsIn => PrefsIn')
    BY <1>1, <1>9 DEF KeymapIn, PrefsIn
  <2>3. did'.sets # 0
    BY <1>6, <1>9
  <2> QED  BY <1>1, <2>1, <2>2, <2>3 DEF ImportOK
<1>15. AgainOK'
  <2>1. CASE home'.config = Json(m)
    <3>1. load(home').user = mapped(UserOf(m), ExtraOf(m))
      BY <1>10, <2>1 DEF load, read_object
    <3> QED  BY <1>1, <1>3, <3>1 DEF AgainOK
  <2>2. CASE "config" \in did'.behind
    BY <2>2 DEF AgainOK
  <2> QED  BY <1>9, <2>1, <2>2
<1>16. PrefsOK'
  BY <1>1, <1>9 DEF PrefsOK
<1> QED  BY <1>1, <1>11, <1>12, <1>13, <1>14, <1>15, <1>16

(* A `set` that changes nothing.                                           *)
LEMMA CountedFiles ==
  ASSUME FilesOK, stage = "up", did' = Counted, UNCHANGED <<home, store, own, stage, legacy, clock>>
  PROVE  FilesOK'
<1> USE DEF FilesOK
<1>1. /\ did = [sets |-> did.sets, edits |-> did.edits, starts |-> did.starts, fails |-> did.fails,
                behind |-> did.behind]
      /\ did.sets \in Nat /\ did.edits \in Nat /\ did.fails \in Nat
  BY DEF SettingsShape
<1>2. DOMAIN did = {"sets", "edits", "starts", "fails", "behind"}
  BY <1>1
<1>3. did' = [did EXCEPT !.sets = @ + 1]
  BY DEF Counted
<1>4. /\ did' = [sets |-> did'.sets, edits |-> did'.edits, starts |-> did'.starts, fails |-> did'.fails,
                 behind |-> did'.behind]
      /\ did'.sets = did.sets + 1 /\ did'.edits = did.edits /\ did'.fails = did.fails
      /\ did'.behind = did.behind
  BY <1>2, <1>3
<1>5. home' = home /\ store' = store /\ own' = own /\ stage' = stage /\ legacy' = legacy /\ clock' = clock
  OBVIOUS
<1>6. SettingsShape'
  BY <1>1, <1>4, <1>5 DEF SettingsShape
<1>7. OwnOK' /\ StoreOK'
  BY <1>5 DEF OwnOK, StoreOK
<1>8. ImportOK'
  <2>1. (MarkerSeen' => MarkerSeen) /\ (KeymapIn => KeymapIn') /\ (PrefsIn => PrefsIn')
    BY <1>4, <1>5 DEF MarkerSeen, KeymapIn, PrefsIn
  <2>2. did'.sets # 0
    BY <1>1, <1>4
  <2> QED  BY <1>5, <2>1, <2>2 DEF ImportOK
<1>9. AgainOK'
  BY <1>4, <1>5 DEF AgainOK, load
<1>10. PrefsOK'
  BY <1>4, <1>5 DEF PrefsOK
<1> QED  BY <1>6, <1>7, <1>8, <1>9, <1>10

LEMMA RecordSettingFiles ==
  ASSUME FilesOK, stage = "up", NEW k, NEW v, validate(k, v) = {v}, k # Marker,
         record_setting(k, v), UNCHANGED <<stage, legacy, clock>>
  PROVE  /\ FilesOK'
         /\ DOMAIN store'.user = DOMAIN store.user \cup {k} /\ store'.user[k] = v
         /\ \A x \in DOMAIN store.user : x # k => store'.user[x] = store.user[x]
<1> DEFINE s == Recorded(store, k, v)
<1>1. CASE k \in DOMAIN store.user /\ k \notin DOMAIN store.extra /\ store.user[k] = v
  <2>1. did' = Counted /\ UNCHANGED <<home, store, own>>
    BY <1>1 DEF record_setting
  <2>2. FilesOK'
    BY <2>1, CountedFiles
  <2> QED  BY <1>1, <2>1, <2>2
<1>2. CASE ~(k \in DOMAIN store.user /\ k \notin DOMAIN store.extra /\ store.user[k] = v)
  <2>1. SavesConfig(s) /\ Forgotten(k)
    BY <1>2, Zenon DEF record_setting
  <2>2. Whole(store) /\ Good(store)
    BY DEF FilesOK, SettingsShape, StoreOK
  <2>3. /\ Whole(s) /\ Good(s) /\ s.user = With(store.user, k, v) /\ s.extra = Without(store.extra, k)
        /\ s.prefs = store.prefs
    BY <2>2, RecordedLemma
  <2>4. Lists(own.keys, store.extra)
    BY DEF FilesOK, OwnOK
  <2> HIDE DEF s
  <2>5. Lists(Without(own.keys, k), s.extra)
    BY <2>3, <2>4, ListsWithout
  <2>6. /\ DOMAIN s.user = DOMAIN store.user \cup {k} /\ s.user[k] = v
        /\ \A x \in DOMAIN store.user : x # k => s.user[x] = store.user[x]
    BY <2>3 DEF With
  <2>7. FilesOK' /\ store' = s
    BY <2>1, <2>3, <2>5, <2>6, SavesConfigFiles
  <2> QED  BY <2>6, <2>7
<1> QED  BY <1>1, <1>2

LEMMA VoiceFollows ==
  ASSUME VoiceOK, stage = "up", UNCHANGED speech,
         \A k \in {"engine", "voice"} : /\ k \in DOMAIN store.user <=> k \in DOMAIN store'.user
                                        /\ k \in DOMAIN store.user => store'.user[k] = store.user[k]
  PROVE  VoiceOK'
<1>1. /\ "engine" \in DOMAIN store.user <=> "engine" \in DOMAIN store'.user
      /\ "engine" \in DOMAIN store.user => store'.user.engine = store.user.engine
      /\ "voice" \in DOMAIN store.user <=> "voice" \in DOMAIN store'.user
      /\ "voice" \in DOMAIN store.user => store'.user.voice = store.user.voice
  OBVIOUS
<1>2. EngineOf(store') = EngineOf(store)
  BY <1>1 DEF EngineOf
<1>3. VoiceOf(store') = VoiceOf(store)
  BY <1>1, <1>2 DEF VoiceOf
<1>4. Waits => Waits'
  BY <1>1 DEF Waits
<1> QED  BY <1>2, <1>3, <1>4 DEF VoiceOK

LEMMA SetAgentStep ==
  ASSUME SettingsIInv, NEW k \in AgentKeys, NEW v, SetAgent(k, v)
  PROVE  SettingsIInv'
<1>1. /\ stage = "up" /\ validate(k, v) # {} /\ record_setting(k, Clean(k, v))
      /\ UNCHANGED <<speech, stage, legacy, clock>>
  BY DEF SetAgent, Sets
<1>2. validate(k, Clean(k, v)) = {Clean(k, v)} /\ k # Marker
  BY <1>1, CleanLemma
<1>3. /\ FilesOK' /\ DOMAIN store'.user = DOMAIN store.user \cup {k}
      /\ \A x \in DOMAIN store.user : x # k => store'.user[x] = store.user[x]
  BY <1>1, <1>2, RecordSettingFiles DEF SettingsIInv
<1>4. k # "engine" /\ k # "voice"
  BY DEF AgentKeys
<1>5. VoiceOK'
  BY <1>1, <1>3, <1>4, VoiceFollows DEF SettingsIInv
<1> QED  BY <1>3, <1>5 DEF SettingsIInv

LEMMA SummariesProper ==
  ASSUME NEW fields \in SUBSET Fields, NEW cleared, Proper(store.user)
  PROVE  validate("summaries", Merged(fields, cleared)) = {Merged(fields, cleared)}
<1> DEFINE old == IF "summaries" \in DOMAIN store.user THEN store.user.summaries ELSE {}
           m == Merged(fields, cleared)
<1>1. old \subseteq Fields
  <2>1. CASE "summaries" \in DOMAIN store.user
    <3>1. validate("summaries", store.user.summaries) = {store.user.summaries}
      BY <2>1 DEF Proper, Marker
    <3>2. store.user.summaries = store.user.summaries \cap Fields
      <4>1. validate("summaries", store.user.summaries) =
              IF "bogus" \in store.user.summaries THEN {} ELSE {store.user.summaries \cap Fields}
        BY ValidateIs
      <4> QED  BY <3>1, <4>1
    <3> QED  BY <2>1, <3>2
  <2>2. CASE "summaries" \notin DOMAIN store.user
    BY <2>2
  <2> QED  BY <2>1, <2>2
<1>2. m \subseteq Fields
  BY <1>1 DEF Merged
<1> HIDE DEF m
<1>3. "bogus" \notin m /\ m \cap Fields = m
  BY <1>2 DEF Fields
<1>4. validate("summaries", m) = IF "bogus" \in m THEN {} ELSE {m \cap Fields}
  BY ValidateIs
<1>5. validate("summaries", m) = {m}
  BY <1>3, <1>4
<1> QED  BY <1>5 DEF m

LEMMA SummariesStep ==
  ASSUME SettingsIInv, NEW fields \in SUBSET Fields, NEW cleared, record_summaries(fields, cleared)
  PROVE  SettingsIInv'
<1> DEFINE m == Merged(fields, cleared)
           u == IF m = {} THEN Without(store.user, "summaries") ELSE With(store.user, "summaries", m)
           x == Without(store.extra, "summaries")
           s == [store EXCEPT !.extra = x, !.user = u]
           same == /\ "summaries" \in DOMAIN store.user /\ "summaries" \notin DOMAIN store.extra
                   /\ store.user.summaries = m
<1>1. /\ Whole(store) /\ Good(store) /\ Lists(own.keys, store.extra) /\ stage = "up"
      /\ UNCHANGED <<speech, stage, legacy, clock>>
  BY DEF record_summaries, Sets, SettingsIInv, FilesOK, SettingsShape, StoreOK, OwnOK
<1>2. validate("summaries", m) = {m}
  BY <1>1, SummariesProper DEF Good
<1>3. s.user = u /\ s.extra = x /\ s.prefs = store.prefs /\ Whole(s)
  <2>1. DOMAIN store = {"user", "extra", "prefs"}
    BY <1>1 DEF Whole
  <2> HIDE DEF u, x
  <2>2. /\ s.user = u /\ s.extra = x /\ s.prefs = store.prefs
        /\ DOMAIN s = {"user", "extra", "prefs"} /\ s = [y \in DOMAIN s |-> s[y]]
    BY <2>1
  <2> HIDE DEF s
  <2>3. Whole(s)
    BY <2>2 DEF Whole
  <2> QED  BY <2>2, <2>3
<1>4. IF same THEN did' = Counted /\ UNCHANGED <<home, store, own>>
      ELSE SavesConfig(s) /\ Forgotten("summaries")
  <2> HIDE DEF SavesConfig, Forgotten, Counted
  <2> QED  BY ZenonT(60) DEF record_summaries
<1> HIDE DEF s, same
<1>5. /\ DOMAIN x = DOMAIN store.extra \ {"summaries"} /\ \A k \in DOMAIN x : x[k] = store.extra[k]
  BY DEF Without
<1>6. /\ DOMAIN u \subseteq DOMAIN store.user \cup {"summaries"}
      /\ DOMAIN store.user \subseteq DOMAIN u \cup {"summaries"}
      /\ \A k \in DOMAIN u : IF k = "summaries" THEN u[k] = m ELSE u[k] = store.user[k]
  <2> HIDE DEF m
  <2>1. CASE m = {}
    BY <2>1 DEF Without
  <2>2. CASE m # {}
    BY <2>2 DEF With
  <2> QED  BY <2>1, <2>2
<1> HIDE DEF u, x, m
<1>7. Good(s)
  <2>1. Proper(u)
    BY <1>1, <1>2, <1>6 DEF Good, Proper
  <2>2. Refused(x) /\ Apart(u, x)
    BY <1>1, <1>5, <1>6 DEF Good, Refused, Apart
  <2> QED  BY <1>3, <2>1, <2>2 DEF Good
<1>8. Lists(Without(own.keys, "summaries"), s.extra)
  BY <1>1, <1>3, ListsWithout DEF x
<1>9. Marker \in DOMAIN s.user => Marker \in DOMAIN store.user
  BY <1>3, <1>6 DEF Marker
<1>10. FilesOK' /\ (store' = s \/ store' = store)
  <2>1. CASE same
    BY <1>1, <1>4, <2>1, CountedFiles DEF SettingsIInv
  <2>2. CASE ~same
    <3>1. SavesConfig(s) /\ Forgotten("summaries")
      BY <1>4, <2>2
    <3> QED  BY <1>1, <1>3, <1>7, <1>8, <1>9, <3>1, SavesConfigFiles DEF SettingsIInv
  <2> QED  BY <2>1, <2>2
<1>11. VoiceOK'
  <2>1. \A k \in {"engine", "voice"} : /\ k \in DOMAIN store.user <=> k \in DOMAIN store'.user
                                       /\ k \in DOMAIN store.user => store'.user[k] = store.user[k]
    BY <1>3, <1>6, <1>10
  <2> QED  BY <1>1, <2>1, VoiceFollows DEF SettingsIInv
<1> QED  BY <1>10, <1>11 DEF SettingsIInv

LEMMA SetVoiceStep ==
  ASSUME SettingsIInv, NEW v, SetVoice(v)
  PROVE  SettingsIInv'
<1>1. /\ stage = "up" /\ v \in Offers[speech.engine] \cup {"null"} /\ speech' = [speech EXCEPT !.voice = v]
      /\ record_setting("voice", v) /\ UNCHANGED <<stage, legacy, clock>>
  BY DEF SetVoice, Sets
<1>2. validate("voice", v) = {v} /\ "voice" # Marker
  BY ValidateIs DEF Marker
<1>3. /\ FilesOK' /\ DOMAIN store'.user = DOMAIN store.user \cup {"voice"} /\ store'.user["voice"] = v
      /\ \A x \in DOMAIN store.user : x # "voice" => store'.user[x] = store.user[x]
  BY <1>1, <1>2, RecordSettingFiles DEF SettingsIInv
<1>4. speech = [engine |-> EngineOf(store), voice |-> speech.voice]
  BY <1>1 DEF SettingsIInv, VoiceOK
<1>5. speech' = [engine |-> EngineOf(store), voice |-> v]
  BY <1>1, <1>4
<1>6. EngineOf(store') = EngineOf(store)
  BY <1>3 DEF EngineOf
<1>7. v \in Offers[EngineOf(store)] \cup {"null"}
  BY <1>1, <1>4
<1>8. VoiceOf(store') = v
  BY <1>3, <1>6, <1>7 DEF VoiceOf
<1>9. VoiceOK'
  BY <1>5, <1>6, <1>8 DEF VoiceOK
<1> QED  BY <1>3, <1>9 DEF SettingsIInv

LEMMA SetEngineStep ==
  ASSUME SettingsIInv, NEW e \in Engines, SetEngine(e)
  PROVE  SettingsIInv'
<1>1. stage = "up" /\ UNCHANGED <<stage, legacy, clock>>
  BY DEF SetEngine, Sets
<1>2. /\ Whole(store) /\ Good(store) /\ Lists(own.keys, store.extra)
      /\ speech = [engine |-> EngineOf(store), voice |-> speech.voice]
      /\ Waits \/ speech.voice = VoiceOf(store)
  BY <1>1 DEF SettingsIInv, FilesOK, SettingsShape, StoreOK, OwnOK, VoiceOK
<1>3. validate("engine", e) = {e} /\ "engine" # Marker /\ "voice" # Marker
  BY ValidateIs DEF Marker
<1>4. CASE e = speech.engine
  <2>1. record_setting("engine", e) /\ UNCHANGED speech
    BY <1>4, Zenon DEF SetEngine
  <2>2. /\ FilesOK' /\ DOMAIN store'.user = DOMAIN store.user \cup {"engine"} /\ store'.user["engine"] = e
        /\ \A x \in DOMAIN store.user : x # "engine" => store'.user[x] = store.user[x]
    BY <1>1, <1>3, <2>1, RecordSettingFiles DEF SettingsIInv
  <2>3. EngineOf(store') = e /\ EngineOf(store) = e
    <3>1. EngineOf(store') = e
      BY <2>2 DEF EngineOf
    <3> QED  BY <1>2, <1>4, <3>1
  <2>4. VoiceOf(store') = VoiceOf(store) /\ (Waits => Waits')
    BY <2>1, <2>2, <2>3 DEF VoiceOf, Waits
  <2>5. VoiceOK'
    BY <1>2, <2>1, <2>3, <2>4 DEF VoiceOK
  <2> QED  BY <2>2, <2>5 DEF SettingsIInv
<1>5. CASE e # speech.engine
  <2> DEFINE r == Recorded(store, "engine", e)
             done == engine_switched(e, r)
             s == done.store
             w == done.voice
             named == "voice" \in DOMAIN r.user /\ r.user.voice # "null"
  <2>1. speech' = [engine |-> e, voice |-> w] /\ SavesConfig(s) /\ Forgotten("engine")
    BY <1>5, ZenonT(60) DEF SetEngine
  <2>2. /\ Whole(r) /\ Good(r) /\ r.user = With(store.user, "engine", e)
        /\ r.extra = Without(store.extra, "engine") /\ r.prefs = store.prefs
    BY <1>2, <1>3, RecordedLemma
  <2>3. IF named
        THEN w = Kept(e) /\ s = IF r.user.voice \in Offers[e] THEN r ELSE Recorded(r, "voice", Kept(e))
        ELSE w = (IF DefaultVoice \in Offers[e] THEN DefaultVoice ELSE Kept(e)) /\ s = r
    BY DEF engine_switched
  <2> HIDE DEF r, s, w
  <2>4. /\ DOMAIN r.user = DOMAIN store.user \cup {"engine"} /\ r.user["engine"] = e
        /\ \A x \in DOMAIN store.user : x # "engine" => r.user[x] = store.user[x]
    BY <2>2 DEF With
  <2>5. Lists(Without(own.keys, "engine"), r.extra)
    BY <1>2, <2>2, ListsWithout
  <2>6. EngineOf(r) = e
    BY <2>4 DEF EngineOf
  <2>7. \/ s = r
        \/ /\ named /\ r.user.voice \notin Offers[e] /\ w = Kept(e)
           /\ s = Recorded(r, "voice", Kept(e))
    BY <2>3
  <2>8. /\ Whole(s) /\ Good(s) /\ s.prefs = store.prefs
        /\ Lists(Without(own.keys, "engine"), s.extra)
        /\ Marker \in DOMAIN s.user => Marker \in DOMAIN store.user
        /\ EngineOf(s) = e
        /\ s # r => "voice" \in DOMAIN s.user /\ s.user.voice = Kept(e)
    <3>1. CASE s = r
      BY <1>3, <2>2, <2>4, <2>5, <2>6, <3>1
    <3>2. CASE named /\ s = Recorded(r, "voice", Kept(e))
      <4>1. validate("voice", Kept(e)) = {Kept(e)}
        BY ValidateIs
      <4>2. /\ Whole(s) /\ Good(s) /\ s.user = With(r.user, "voice", Kept(e))
            /\ s.extra = Without(r.extra, "voice") /\ s.prefs = r.prefs
        BY <1>3, <2>2, <3>2, <4>1, RecordedLemma
      <4>3. "voice" \notin DOMAIN r.extra
        BY <2>2, <3>2 DEF Good, Apart
      <4>4. "voice" \notin DOMAIN Without(own.keys, "engine")
        BY <2>5, <4>3 DEF Lists
      <4>5. Lists(Without(own.keys, "engine"), s.extra)
        BY <2>5, <4>2, <4>4, ListsWithout
      <4>6. /\ DOMAIN s.user = DOMAIN r.user \cup {"voice"} /\ s.user["voice"] = Kept(e)
            /\ \A x \in DOMAIN r.user : x # "voice" => s.user[x] = r.user[x]
        BY <4>2 DEF With
      <4>7. EngineOf(s) = e
        BY <2>4, <4>6 DEF EngineOf
      <4> QED  BY <1>3, <2>2, <2>4, <4>2, <4>5, <4>6, <4>7
    <3> QED  BY <2>7, <3>1, <3>2
  <2>9. FilesOK' /\ store' = s
    BY <1>1, <2>1, <2>8, SavesConfigFiles DEF SettingsIInv
  <2>10. Kept(e) \in Offers[e] \/ Kept(e) = "null"
    BY DEF Kept
  <2>11. ("voice" \in DOMAIN s.user /\ s.user.voice # w) \/ w = VoiceOf(s)
    <3>1. CASE s # r
      <4>1. w = Kept(e) /\ "voice" \in DOMAIN s.user /\ s.user.voice = Kept(e)
        BY <2>7, <2>8, <3>1
      <4> QED  BY <2>8, <2>10, <4>1 DEF VoiceOf
    <3>2. CASE s = r /\ named
      <4>1. w = Kept(e) /\ "voice" \in DOMAIN s.user
        BY <2>3, <3>2
      <4>2. ASSUME s.user.voice = w PROVE w = VoiceOf(s)
        BY <2>8, <2>10, <4>1, <4>2 DEF VoiceOf
      <4> QED  BY <4>1, <4>2
    <3>3. CASE s = r /\ ~named /\ "voice" \in DOMAIN r.user
      <4>1. "voice" \in DOMAIN s.user /\ s.user.voice = "null"
        BY <3>3
      <4>2. VoiceOf(s) = "null"
        BY <4>1 DEF VoiceOf
      <4> QED  BY <4>1, <4>2
    <3>4. CASE s = r /\ "voice" \notin DOMAIN r.user
      <4>1. "voice" \notin DOMAIN s.user /\ "voice" \notin DOMAIN store.user
        BY <2>4, <3>4
      <4>2. /\ w = (IF DefaultVoice \in Offers[e] THEN DefaultVoice ELSE Kept(e))
            /\ VoiceOf(s) = IF DefaultVoice \in Offers[e] THEN DefaultVoice ELSE "null"
        BY <2>3, <2>8, <3>4, <4>1 DEF VoiceOf
      <4>3. speech.voice = VoiceOf(store)
        BY <1>2, <4>1 DEF Waits
      <4>4. speech.voice \in {DefaultVoice, "null"}
        BY <4>1, <4>3 DEF VoiceOf
      <4>5. DefaultVoice \notin Offers[e] => Kept(e) = "null"
        BY <4>4 DEF Kept
      <4> QED  BY <4>2, <4>5
    <3> QED  BY <3>1, <3>2, <3>3, <3>4
  <2>12. VoiceOK'
    <3>1. speech'.voice = w
      BY <2>1
    <3> QED  BY <2>1, <2>8, <2>9, <2>11, <3>1 DEF VoiceOK, Waits
  <2> QED  BY <2>9, <2>12 DEF SettingsIInv
<1> QED  BY <1>4, <1>5

-----------------------------------------------------------------------------
(* Steps that save the preferences.                                        *)
LEMMA OthersOrdered ==
  ASSUME Ordered(store.prefs), Len(store.prefs) <= PREFS_CAP, NEW id
  PROVE  /\ Ordered(OthersThan(id)) /\ Len(OthersThan(id)) <= PREFS_CAP
         /\ \A i \in 1..Len(OthersThan(id)) : OthersThan(id)[i].id # id
<1> DEFINE at == {i \in 1..Len(store.prefs) : store.prefs[i].id = id}
           k == CHOOSE i \in at : TRUE
<1>1. OthersThan(id) = IF at = {} THEN store.prefs ELSE RemoveAt(store.prefs, k)
  BY DEF OthersThan
<1>2. CASE at = {}
  <2>1. \A i \in 1..Len(store.prefs) : store.prefs[i].id # id
    BY <1>2
  <2> HIDE DEF at
  <2> QED  BY <1>1, <1>2, <2>1
<1>3. CASE at # {}
  <2>1. k \in at
    BY <1>3
  <2>2. k \in 1..Len(store.prefs) /\ store.prefs[k].id = id
    BY <2>1
  <2> HIDE DEF at, k
  <2>3. OthersThan(id) = RemoveAt(store.prefs, k)
    BY <1>1, <1>3
  <2>4. /\ Ordered(RemoveAt(store.prefs, k)) /\ Len(RemoveAt(store.prefs, k)) = Len(store.prefs) - 1
        /\ \A i \in 1..Len(RemoveAt(store.prefs, k)) : RemoveAt(store.prefs, k)[i].id # store.prefs[k].id
    BY <2>2, RemovedOrdered
  <2>5. Len(store.prefs) \in Nat /\ PREFS_CAP \in Nat
    BY SettingsAssumption DEF Ordered
  <2> QED  BY <2>2, <2>3, <2>4, <2>5
<1> QED  BY <1>2, <1>3

LEMMA SavesPrefsStep ==
  ASSUME SettingsIInv, stage = "up", NEW t, Ordered(t), Len(t) <= PREFS_CAP, SavesPrefs(t),
         UNCHANGED <<speech, stage, legacy, own, clock>>
  PROVE  SettingsIInv'
<1> USE DEF SettingsIInv, FilesOK
<1> DEFINE g == PrefsFile(t)
<1>1. stage' = stage /\ speech' = speech /\ legacy' = legacy /\ own' = own /\ clock' = clock
  OBVIOUS
<1>2. store' = [user |-> store.user, extra |-> store.extra, prefs |-> t]
  <2>1. store = [user |-> store.user, extra |-> store.extra, prefs |-> store.prefs]
    BY DEF SettingsShape, Whole
  <2>2. store' = [store EXCEPT !.prefs = t]
    BY DEF SavesPrefs
  <2> QED  BY <2>1, <2>2
<1>3. store'.user = store.user /\ store'.extra = store.extra /\ store'.prefs = t
  BY <1>2
<1>4. save_prefs(store') = Json(g)
  <2>1. save_prefs(store') = Json(PrefsFile(store'.prefs))
    BY DEF save_prefs, PrefsFile
  <2> QED  BY <1>3, <2>1
<1>5. FileOK(g) /\ PrefsOf(g) = t
  BY SavedPrefs
<1>6. /\ home = [config |-> home.config, bad |-> home.bad, prefs |-> home.prefs,
                 keymap |-> home.keymap, earcons |-> home.earcons]
      /\ did = [sets |-> did.sets, edits |-> did.edits, starts |-> did.starts, fails |-> did.fails,
                behind |-> did.behind]
      /\ did.sets \in Nat /\ did.edits \in Nat /\ did.fails \in Nat
  BY DEF SettingsShape
<1>7. /\ DOMAIN home = {"config", "bad", "prefs", "keymap", "earcons"}
      /\ DOMAIN did = {"sets", "edits", "starts", "fails", "behind"}
  BY <1>6
<1> HIDE DEF g
<1>8. \/ /\ home' = [home EXCEPT !.prefs = Json(g)]
         /\ did' = [[did EXCEPT !.sets = @ + 1] EXCEPT !.behind = @ \ {"prefs"}]
      \/ /\ home' = home
         /\ did' = [[did EXCEPT !.sets = @ + 1] EXCEPT !.fails = @ + 1, !.behind = @ \cup {"prefs"}]
  BY <1>4 DEF SavesPrefs, Counted
<1>9. /\ home'.bad = home.bad /\ home'.config = home.config /\ home'.keymap = home.keymap
      /\ home' = [config |-> home'.config, bad |-> home'.bad, prefs |-> home'.prefs,
                  keymap |-> home'.keymap, earcons |-> home'.earcons]
      /\ did' = [sets |-> did'.sets, edits |-> did'.edits, starts |-> did'.starts, fails |-> did'.fails,
                 behind |-> did'.behind]
      /\ did'.sets = did.sets + 1 /\ did'.edits = did.edits /\ did'.fails \in Nat
      /\ did'.fails = 0 => did.fails = 0
      /\ "config" \in did'.behind <=> "config" \in did.behind
      /\ \/ home'.prefs = Json(g)
         \/ home'.prefs = home.prefs /\ "prefs" \in did'.behind
  <2>1. CASE /\ home' = [home EXCEPT !.prefs = Json(g)]
             /\ did' = [[did EXCEPT !.sets = @ + 1] EXCEPT !.behind = @ \ {"prefs"}]
    BY <1>6, <1>7, <2>1
  <2>2. CASE /\ home' = home
             /\ did' = [[did EXCEPT !.sets = @ + 1] EXCEPT !.fails = @ + 1, !.behind = @ \cup {"prefs"}]
    <3> DEFINE c == [did EXCEPT !.sets = @ + 1]
               b == c.behind \cup {"prefs"}
    <3>1. /\ DOMAIN c = DOMAIN did /\ c = [x \in DOMAIN c |-> c[x]]
          /\ c.sets = did.sets + 1 /\ c.edits = did.edits /\ c.starts = did.starts
          /\ c.fails = did.fails /\ c.behind = did.behind
      BY <1>7
    <3>2. did' = [c EXCEPT !.fails = c.fails + 1, !.behind = b]
      BY <2>2
    <3> HIDE DEF c
    <3>3. "prefs" \in b /\ ("config" \in b <=> "config" \in did.behind)
      BY <3>1
    <3> HIDE DEF b
    <3>4. /\ did' = [sets |-> did'.sets, edits |-> did'.edits, starts |-> did'.starts,
                     fails |-> did'.fails, behind |-> did'.behind]
          /\ did'.sets = did.sets + 1 /\ did'.edits = did.edits
      BY <1>7, <3>1, <3>2
    <3>5. did'.fails = did.fails + 1 /\ did'.behind = b
      BY <1>7, <3>1, <3>2
    <3>6. did'.fails \in Nat /\ did'.fails # 0
      BY <1>6, <3>5
    <3> QED  BY <1>6, <2>2, <3>3, <3>4, <3>5, <3>6
  <2> QED  BY <1>8, <2>1, <2>2
<1>10. Json(g).json = g /\ Json(g) = Json(Json(g).json) /\ Json(g) # Missing
  BY DEF Json, Missing
<1>11. SettingsShape'
  BY <1>1, <1>2, <1>3, <1>6, <1>9, <1>10 DEF SettingsShape, Whole
<1>12. OwnOK' /\ StoreOK'
  BY <1>1, <1>3, <1>9 DEF OwnOK, StoreOK, Good
<1>13. ImportOK'
  <2>1. MarkerSeen' => MarkerSeen
    BY <1>1, <1>3, <1>9 DEF MarkerSeen
  <2>2. (KeymapIn => KeymapIn') /\ (PrefsIn => PrefsIn')
    BY <1>1, <1>9, <1>10 DEF KeymapIn, PrefsIn
  <2>3. did'.sets # 0
    BY <1>6, <1>9
  <2> QED  BY <1>1, <2>1, <2>2, <2>3 DEF ImportOK
<1>14. AgainOK'
  <2>1. load(home').user = load(home).user
    BY <1>9 DEF load
  <2> QED  BY <1>1, <1>3, <1>9, <2>1 DEF AgainOK
<1>15. PrefsOK'
  BY <1>3, <1>5, <1>9, <1>10 DEF PrefsOK
<1>16. VoiceOK'
  BY <1>3, VoiceFollows
<1> QED  BY <1>11, <1>12, <1>13, <1>14, <1>15, <1>16

LEMMA SetPrefsStep ==
  ASSUME SettingsIInv, NEW id \in Channel, NEW p \in SUBSET ChannelPrefs, set_prefs(id, p)
  PROVE  SettingsIInv'
<1> DEFINE rest == OthersThan(id)
           more == Append(rest, [id |-> id, p |-> p, at |-> stamp(rest)])
           t == IF p = {} THEN rest ELSE Newest(more)
<1>1. stage = "up" /\ SavesPrefs(t) /\ UNCHANGED <<speech, stage, legacy, own, clock>>
  <2> HIDE DEF SavesPrefs
  <2> QED  BY DEF set_prefs, Sets
<1>2. clock \in Nat /\ Ordered(store.prefs) /\ Len(store.prefs) <= PREFS_CAP
  BY <1>1 DEF SettingsIInv, FilesOK, SettingsShape, PrefsOK
<1>3. /\ Ordered(rest) /\ Len(rest) <= PREFS_CAP
      /\ \A i \in 1..Len(rest) : rest[i].id # id
  BY <1>2, OthersOrdered
<1> HIDE DEF rest
<1>4. p # {} => Ordered(more)
  BY <1>2, <1>3, StampedOrdered
<1> HIDE DEF more
<1>5. Ordered(t) /\ Len(t) <= PREFS_CAP
  BY <1>3, <1>4, NewestOrdered
<1> HIDE DEF t
<1> QED  BY <1>1, <1>5, SavesPrefsStep

LEMMA ForgetPrefsStep ==
  ASSUME SettingsIInv, NEW id \in Channel, forget_prefs(id)
  PROVE  SettingsIInv'
<1>1. /\ stage = "up" /\ SavesPrefs(OthersThan(id)) /\ UNCHANGED <<speech, stage, legacy, own, clock>>
  BY DEF forget_prefs, Sets
<1>2. Ordered(store.prefs) /\ Len(store.prefs) <= PREFS_CAP
  BY <1>1 DEF SettingsIInv, FilesOK, PrefsOK
<1> QED  BY <1>1, <1>2, OthersOrdered, SavesPrefsStep

-----------------------------------------------------------------------------
(* The import.                                                             *)
LEMMA WritesLemma ==
  ASSUME SettingsShape, NEW file \in {"keymap", "prefs", "config"}, NEW text, Writes(file, text)
  PROVE  /\ home' = [config |-> home'.config, bad |-> home'.bad, prefs |-> home'.prefs,
                     keymap |-> home'.keymap, earcons |-> home'.earcons]
         /\ did' = [sets |-> did'.sets, edits |-> did'.edits, starts |-> did'.starts, fails |-> did'.fails,
                    behind |-> did'.behind]
         /\ did'.sets = did.sets /\ did'.edits = did.edits /\ did'.fails \in Nat
         /\ \A x \in {"config", "bad", "prefs", "keymap", "earcons"} : x # file => home'[x] = home[x]
         /\ home'[file] \in {text, home[file]}
         /\ did'.fails = 0 => did.fails = 0 /\ home'[file] = text
<1>1. /\ DOMAIN home = {"config", "bad", "prefs", "keymap", "earcons"}
      /\ DOMAIN did = {"sets", "edits", "starts", "fails", "behind"}
      /\ did.fails \in Nat
  <2>1. home = [config |-> home.config, bad |-> home.bad, prefs |-> home.prefs,
                keymap |-> home.keymap, earcons |-> home.earcons]
    BY DEF SettingsShape
  <2>2. did = [sets |-> did.sets, edits |-> did.edits, starts |-> did.starts, fails |-> did.fails,
               behind |-> did.behind]
    BY DEF SettingsShape
  <2>3. did.fails \in Nat
    BY DEF SettingsShape
  <2> QED  BY <2>1, <2>2, <2>3
<1>2. CASE home' = [home EXCEPT ![file] = text] /\ did' = [did EXCEPT !.behind = @ \ {file}]
  <2>1. /\ did' = [sets |-> did'.sets, edits |-> did'.edits, starts |-> did'.starts, fails |-> did'.fails,
                   behind |-> did'.behind]
        /\ did'.sets = did.sets /\ did'.edits = did.edits /\ did'.fails = did.fails
    BY <1>1, <1>2
  <2>2. /\ DOMAIN home' = DOMAIN home /\ home' = [x \in DOMAIN home' |-> home'[x]]
        /\ home'[file] = text /\ \A x \in DOMAIN home : x # file => home'[x] = home[x]
    BY <1>1, <1>2
  <2>3. home' = [config |-> home'.config, bad |-> home'.bad, prefs |-> home'.prefs,
                 keymap |-> home'.keymap, earcons |-> home'.earcons]
    BY <1>1, <2>2
  <2> QED  BY <1>1, <2>1, <2>2, <2>3
<1>3. CASE UNCHANGED home /\ did' = [did EXCEPT !.fails = @ + 1, !.behind = @ \cup {file}]
  <2> DEFINE b == did.behind \cup {file}
  <2>0. did' = [did EXCEPT !.fails = did.fails + 1, !.behind = b]
    BY <1>3
  <2> HIDE DEF b
  <2>1. /\ did' = [sets |-> did'.sets, edits |-> did'.edits, starts |-> did'.starts, fails |-> did'.fails,
                   behind |-> did'.behind]
        /\ did'.sets = did.sets /\ did'.edits = did.edits /\ did'.fails = did.fails + 1
    BY <1>1, <2>0
  <2>2. did'.fails \in Nat /\ did'.fails # 0
    BY <1>1, <2>1
  <2>3. home' = home /\ home = [config |-> home.config, bad |-> home.bad, prefs |-> home.prefs,
                                keymap |-> home.keymap, earcons |-> home.earcons]
    BY <1>3 DEF SettingsShape
  <2> QED  BY <2>1, <2>2, <2>3
<1> QED  BY <1>2, <1>3 DEF Writes

LEMMA StepsAfter ==
  /\ After("keymap") = "prefs" /\ After("prefs") = "earcons" /\ After("earcons") = "config"
  /\ After("config") = "load"
<1> DEFINE I(s) == CHOOSE i \in 1..4 : Steps[i] = s
<1>1. Steps[1] = "keymap" /\ Steps[2] = "prefs" /\ Steps[3] = "earcons" /\ Steps[4] = "config"
  BY DEF Steps
<1>2. \A i \in 1..4 : i = 1 \/ i = 2 \/ i = 3 \/ i = 4
  OBVIOUS
<1>3. I("keymap") = 1 /\ I("prefs") = 2 /\ I("earcons") = 3 /\ I("config") = 4
  BY <1>1, <1>2
<1>4. \A s : After(s) = IF I(s) = 4 THEN "load" ELSE Steps[I(s) + 1]
  BY DEF After
<1> HIDE DEF I
<1> QED  BY <1>1, <1>3, <1>4

(* No runtime is up before or after the step: what is left of the          *)
(* invariant.                                                              *)
LEMMA NotUp ==
  ASSUME stage' # "up", SettingsShape', OwnOK', ImportOK', FileOK(home.prefs.json)'
  PROVE  SettingsIInv'
  BY DEF SettingsIInv, FilesOK, StoreOK, AgainOK, VoiceOK, PrefsOK

LEMMA BeginStep == SettingsIInv /\ Begin => SettingsIInv'
<1> SUFFICES ASSUME SettingsIInv, Begin PROVE SettingsIInv'
  OBVIOUS
<1> USE DEF SettingsIInv, FilesOK
<1>1. /\ stage = "down" /\ UNCHANGED <<home, store, speech, held, legacy, own, clock>>
      /\ did' = [did EXCEPT !.starts = @ + 1]
      /\ stage' = "load" \/ (stage' = "keymap" /\ home.config = Missing)
  BY DEF Begin, Steps
<1>2. /\ did' = [sets |-> did'.sets, edits |-> did'.edits, starts |-> did'.starts, fails |-> did'.fails,
                 behind |-> did'.behind]
      /\ did'.sets = did.sets /\ did'.edits = did.edits /\ did'.fails = did.fails
  <2>1. did = [sets |-> did.sets, edits |-> did.edits, starts |-> did.starts, fails |-> did.fails,
               behind |-> did.behind]
    BY DEF SettingsShape
  <2> QED  BY <1>1, <2>1
<1>3. SettingsShape'
  BY <1>1, <1>2 DEF SettingsShape
<1>4. OwnOK'
  BY <1>1 DEF OwnOK
<1>5. ImportOK'
  <2>1. convert_config' = convert_config
    BY <1>1 DEF convert_config, Clamped
  <2> QED  BY <1>1, <1>2, <2>1 DEF ImportOK, MarkerSeen, KeymapIn, PrefsIn
<1>6. FileOK(home.prefs.json)'
  BY <1>1 DEF PrefsOK
<1> QED  BY <1>1, <1>3, <1>4, <1>5, <1>6, NotUp

LEMMA ImportKeymapStep == SettingsIInv /\ ImportKeymap => SettingsIInv'
<1> SUFFICES ASSUME SettingsIInv, ImportKeymap PROVE SettingsIInv'
  OBVIOUS
<1> USE DEF SettingsIInv, FilesOK
<1>1. stage = "keymap" /\ stage' = "prefs" /\ UNCHANGED <<store, speech, held, legacy, own, clock>>
  BY StepsAfter DEF ImportKeymap, ImportStep
<1>2. home.config = Missing
  BY <1>1 DEF OwnOK
<1>3. CASE legacy.keymap /\ home.keymap = "none"
  <2>1. Writes("keymap", "imported")
    BY <1>3 DEF ImportKeymap
  <2>2. /\ home' = [config |-> home'.config, bad |-> home'.bad, prefs |-> home'.prefs,
                    keymap |-> home'.keymap, earcons |-> home'.earcons]
        /\ did' = [sets |-> did'.sets, edits |-> did'.edits, starts |-> did'.starts, fails |-> did'.fails,
                   behind |-> did'.behind]
        /\ did'.sets = did.sets /\ did'.edits = did.edits /\ did'.fails \in Nat
        /\ home'.config = home.config /\ home'.bad = home.bad /\ home'.prefs = home.prefs
        /\ home'.keymap \in {"imported", home.keymap}
        /\ did'.fails = 0 => did.fails = 0 /\ home'.keymap = "imported"
    BY <2>1, WritesLemma
  <2>3. SettingsShape'
    BY <1>1, <2>2 DEF SettingsShape
  <2>4. OwnOK'
    BY <1>1, <2>2 DEF OwnOK
  <2>5. KeymapIn'
    BY <2>2 DEF KeymapIn
  <2>6. ~MarkerSeen'
    BY <1>1, <1>2, <2>2 DEF MarkerSeen, Missing, Empty
  <2>7. ImportOK'
    BY <1>1, <2>5, <2>6 DEF ImportOK, MarkerSeen
  <2>8. FileOK(home.prefs.json)'
    BY <2>2 DEF PrefsOK
  <2> QED  BY <1>1, <2>3, <2>4, <2>7, <2>8, NotUp
<1>4. CASE ~(legacy.keymap /\ home.keymap = "none")
  <2>1. home' = home /\ did' = did
    BY <1>4 DEF ImportKeymap
  <2>2. SettingsShape'
    BY <1>1, <2>1 DEF SettingsShape
  <2>3. OwnOK'
    BY <1>1, <2>1 DEF OwnOK
  <2>4. KeymapIn'
    BY <1>1, <1>4, <2>1 DEF KeymapIn, SettingsShape
  <2>5. ~MarkerSeen'
    BY <1>1, <1>2, <2>1 DEF MarkerSeen, Missing, Empty
  <2>6. ImportOK'
    BY <1>1, <2>4, <2>5 DEF ImportOK, MarkerSeen
  <2>7. FileOK(home.prefs.json)'
    BY <2>1 DEF PrefsOK
  <2> QED  BY <1>1, <2>2, <2>3, <2>6, <2>7, NotUp
<1> QED  BY <1>3, <1>4

LEMMA ImportPrefsStep == SettingsIInv /\ ImportPrefs => SettingsIInv'
<1> SUFFICES ASSUME SettingsIInv, ImportPrefs PROVE SettingsIInv'
  OBVIOUS
<1> USE DEF SettingsIInv, FilesOK
<1>1. stage = "prefs" /\ stage' = "earcons" /\ UNCHANGED <<store, speech, held, legacy, own, clock>>
  BY StepsAfter DEF ImportPrefs, ImportStep
<1>2. home.config = Missing /\ KeymapIn
  BY <1>1 DEF OwnOK, ImportOK
<1>3. CASE legacy.prefs /\ home.prefs = Missing
  <2>1. Writes("prefs", Json(convert_prefs))
    BY <1>3 DEF ImportPrefs
  <2>2. /\ home' = [config |-> home'.config, bad |-> home'.bad, prefs |-> home'.prefs,
                    keymap |-> home'.keymap, earcons |-> home'.earcons]
        /\ did' = [sets |-> did'.sets, edits |-> did'.edits, starts |-> did'.starts, fails |-> did'.fails,
                   behind |-> did'.behind]
        /\ did'.sets = did.sets /\ did'.edits = did.edits /\ did'.fails \in Nat
        /\ home'.config = home.config /\ home'.bad = home.bad /\ home'.keymap = home.keymap
        /\ home'.prefs \in {Json(convert_prefs), home.prefs}
        /\ did'.fails = 0 => did.fails = 0 /\ home'.prefs = Json(convert_prefs)
    BY <2>1, WritesLemma
  <2>3. /\ Json(convert_prefs).json = convert_prefs /\ Json(convert_prefs) # Missing
        /\ Json(convert_prefs) = Json(Json(convert_prefs).json)
    BY DEF Json, Missing
  <2>4. FileOK(convert_prefs)
    BY DEF FileOK, convert_prefs, ChannelPrefs
  <2> HIDE DEF Missing
  <2>5. SettingsShape'
    BY <1>1, <2>2, <2>3 DEF SettingsShape
  <2>6. OwnOK'
    BY <1>1, <2>2 DEF OwnOK
  <2>7. KeymapIn' /\ PrefsIn'
    BY <1>1, <1>2, <2>2, <2>3 DEF KeymapIn, PrefsIn
  <2>8. ~MarkerSeen'
    BY <1>1, <1>2, <2>2 DEF MarkerSeen, Missing, Empty
  <2>9. ImportOK'
    BY <1>1, <2>7, <2>8 DEF ImportOK, MarkerSeen
  <2>10. FileOK(home.prefs.json)'
    BY <2>2, <2>3, <2>4 DEF PrefsOK
  <2> QED  BY <1>1, <2>5, <2>6, <2>9, <2>10, NotUp
<1>4. CASE ~(legacy.prefs /\ home.prefs = Missing)
  <2>1. home' = home /\ did' = did
    BY <1>4 DEF ImportPrefs
  <2>2. SettingsShape'
    BY <1>1, <2>1 DEF SettingsShape
  <2>3. OwnOK'
    BY <1>1, <2>1 DEF OwnOK
  <2>4. KeymapIn' /\ PrefsIn'
    BY <1>1, <1>2, <1>4, <2>1 DEF KeymapIn, PrefsIn
  <2>5. ~MarkerSeen'
    BY <1>1, <1>2, <2>1 DEF MarkerSeen, Missing, Empty
  <2>6. ImportOK'
    BY <1>1, <2>4, <2>5 DEF ImportOK, MarkerSeen
  <2>7. FileOK(home.prefs.json)'
    BY <2>1 DEF PrefsOK
  <2> QED  BY <1>1, <2>2, <2>3, <2>6, <2>7, NotUp
<1> QED  BY <1>3, <1>4

LEMMA ImportEarconsStep == SettingsIInv /\ import_earcons => SettingsIInv'
<1> SUFFICES ASSUME SettingsIInv, import_earcons PROVE SettingsIInv'
  OBVIOUS
<1> USE DEF SettingsIInv, FilesOK
<1>1. /\ stage \in {"earcons", "copying"} /\ stage' \in {"copying", "config"}
      /\ UNCHANGED <<store, speech, held, legacy, own, clock, did>>
      /\ home' = home \/ \E e : home' = [home EXCEPT !.earcons = e]
  BY StepsAfter DEF import_earcons
<1>2. home.config = Missing /\ KeymapIn /\ PrefsIn
  BY <1>1 DEF OwnOK, ImportOK
<1>3. /\ home' = [config |-> home'.config, bad |-> home'.bad, prefs |-> home'.prefs,
                  keymap |-> home'.keymap, earcons |-> home'.earcons]
      /\ home'.config = home.config /\ home'.bad = home.bad /\ home'.prefs = home.prefs
      /\ home'.keymap = home.keymap
  <2>1. home = [config |-> home.config, bad |-> home.bad, prefs |-> home.prefs,
                keymap |-> home.keymap, earcons |-> home.earcons]
    BY DEF SettingsShape
  <2> QED  BY <1>1, <2>1
<1>4. SettingsShape'
  BY <1>1, <1>3 DEF SettingsShape
<1>5. OwnOK'
  BY <1>1, <1>3 DEF OwnOK
<1>6. KeymapIn' /\ PrefsIn'
  BY <1>1, <1>2, <1>3 DEF KeymapIn, PrefsIn
<1>7. ~MarkerSeen'
  BY <1>1, <1>2, <1>3 DEF MarkerSeen, Missing, Empty
<1>8. ImportOK'
  BY <1>1, <1>6, <1>7 DEF ImportOK, MarkerSeen
<1>9. FileOK(home.prefs.json)'
  BY <1>3 DEF PrefsOK
<1> QED  BY <1>1, <1>4, <1>5, <1>8, <1>9, NotUp

LEMMA ImportConfigStep == SettingsIInv /\ ImportConfig => SettingsIInv'
<1> SUFFICES ASSUME SettingsIInv, ImportConfig PROVE SettingsIInv'
  OBVIOUS
<1> USE DEF SettingsIInv, FilesOK
<1> DEFINE m == With(convert_config, Marker, "from")
<1>1. stage = "config" /\ stage' = "load" /\ UNCHANGED <<store, speech, held, legacy, own, clock>>
  BY StepsAfter DEF ImportConfig, ImportStep
<1>2. home.config = Missing /\ KeymapIn /\ PrefsIn
  BY <1>1 DEF OwnOK, ImportOK
<1>3. Writes("config", Json(m))
  BY DEF ImportConfig
<1>4. convert_config' = convert_config
  BY <1>1 DEF convert_config, Clamped
<1>5. Lists(convert_config, m)
  <2>1. Marker \notin DOMAIN convert_config
    BY DEF convert_config, Clamped, Marker
  <2>2. \A k \in DOMAIN convert_config : k \in DOMAIN m /\ (k # Marker => m[k] = convert_config[k])
    BY DEF With
  <2> HIDE DEF m
  <2> QED  BY <2>1, <2>2 DEF Lists
<1>6. DOMAIN own.keys = {}
  BY <1>2 DEF OwnOK, Lists, Missing, Empty
<1> HIDE DEF m
<1>7. /\ home' = [config |-> home'.config, bad |-> home'.bad, prefs |-> home'.prefs,
                  keymap |-> home'.keymap, earcons |-> home'.earcons]
      /\ did' = [sets |-> did'.sets, edits |-> did'.edits, starts |-> did'.starts, fails |-> did'.fails,
                 behind |-> did'.behind]
      /\ did'.sets = did.sets /\ did'.edits = did.edits /\ did'.fails \in Nat
      /\ home'.prefs = home.prefs /\ home'.bad = home.bad /\ home'.keymap = home.keymap
      /\ home'.config \in {Json(m), home.config}
      /\ did'.fails = 0 => did.fails = 0 /\ home'.config = Json(m)
  BY <1>3, WritesLemma
<1>8. Json(m).json = m /\ Json(m) = Json(Json(m).json)
  BY DEF Json
<1>9. SettingsShape'
  BY <1>1, <1>7, <1>8 DEF SettingsShape
<1>10. OwnOK'
  <2>1. own.text => home.bad
    BY <1>2 DEF OwnOK, Missing, Garbage
  <2>2. Refused(own.keys)
    BY DEF OwnOK
  <2> QED  BY <1>1, <1>6, <1>7, <2>1, <2>2 DEF OwnOK, Lists
<1>11. KeymapIn' /\ PrefsIn'
  BY <1>1, <1>2, <1>7 DEF KeymapIn, PrefsIn
<1>12. did'.fails = 0 => Lists(convert_config, home.config.json)'
  BY <1>4, <1>5, <1>7, <1>8
<1>13. ImportOK'
  BY <1>1, <1>11, <1>12 DEF ImportOK
<1>14. FileOK(home.prefs.json)'
  BY <1>7 DEF PrefsOK
<1> QED  BY <1>1, <1>9, <1>10, <1>13, <1>14, NotUp

-----------------------------------------------------------------------------
(* The runtime comes and goes, and the user edits.                         *)
LEMMA LoadStep == SettingsIInv /\ Load => SettingsIInv'
<1> SUFFICES ASSUME SettingsIInv, Load PROVE SettingsIInv'
  OBVIOUS
<1> USE DEF SettingsIInv, FilesOK
<1> DEFINE raw == home.config.json
           u == mapped(UserOf(raw), ExtraOf(raw))
           x == ExtraOf(raw)
<1>1. /\ stage' = "up" /\ home' = backup /\ store' = load(home) /\ speech' = apply_reader(store')
      /\ UNCHANGED <<legacy, own, clock, did>>
  BY DEF Load
<1>2. store' = [user |-> u, extra |-> x, prefs |-> PrefsOf(home.prefs.json)]
  BY <1>1 DEF load, read_object
<1>3. /\ Proper(UserOf(raw)) /\ Refused(x) /\ Apart(UserOf(raw), x)
      /\ Marker \in DOMAIN raw <=> Marker \in DOMAIN UserOf(raw)
      /\ \A o : Refused(o) /\ Lists(o, raw) => Lists(o, x)
  BY LoadSplits
<1>4. Agree(UserOf(raw), u) /\ Proper(u) /\ Apart(u, x)
  BY <1>3, MappedLemma
<1>5. load(home').user = u
  <2>1. home'.config = home.config
    <3>1. home = [config |-> home.config, bad |-> home.bad, prefs |-> home.prefs,
                  keymap |-> home.keymap, earcons |-> home.earcons]
      BY DEF SettingsShape
    <3> QED  BY <1>1, <3>1 DEF backup
  <2> QED  BY <2>1 DEF load, read_object
<1>6. Marker \in DOMAIN u => Marker \in DOMAIN raw
  BY <1>3, <1>4 DEF Agree, Marker
<1>7. /\ home' = [config |-> home'.config, bad |-> home'.bad, prefs |-> home'.prefs,
                  keymap |-> home'.keymap, earcons |-> home'.earcons]
      /\ home'.config = home.config /\ home'.prefs = home.prefs /\ home'.keymap = home.keymap
      /\ home'.bad = (IF home.config = Garbage THEN TRUE ELSE home.bad)
  <2>1. home = [config |-> home.config, bad |-> home.bad, prefs |-> home.prefs,
                keymap |-> home.keymap, earcons |-> home.earcons]
    BY DEF SettingsShape
  <2>2. home' = [home EXCEPT !.bad = IF home.config = Garbage THEN TRUE ELSE home.bad]
    BY <1>1, <2>1 DEF backup
  <2> HIDE DEF Garbage
  <2> QED  BY <2>1, <2>2
<1> HIDE DEF u, x, raw
<1>8. store'.user = u /\ store'.extra = x /\ store'.prefs = PrefsOf(home.prefs.json)
  BY <1>2
<1>9. SettingsShape'
  BY <1>1, <1>2, <1>7, <1>8 DEF SettingsShape, Whole
<1>10. OwnOK'
  <2>1. Refused(own.keys) /\ Lists(own.keys, home.config.json)
    BY DEF OwnOK
  <2>2. Lists(own.keys, x)
    BY <1>3, <2>1 DEF raw
  <2>3. own.text => home'.bad
    BY <1>7 DEF OwnOK
  <2> QED  BY <1>1, <1>7, <1>8, <2>1, <2>2, <2>3 DEF OwnOK
<1>11. StoreOK'
  BY <1>3, <1>4, <1>8 DEF StoreOK, Good
<1>12. ImportOK'
  <2>1. MarkerSeen' => MarkerSeen
    BY <1>1, <1>6, <1>7, <1>8 DEF MarkerSeen, raw
  <2>2. (KeymapIn => KeymapIn') /\ (PrefsIn => PrefsIn')
    BY <1>1, <1>7 DEF KeymapIn, PrefsIn
  <2>3. convert_config' = convert_config
    BY <1>1 DEF convert_config, Clamped
  <2> QED  BY <1>1, <1>7, <2>1, <2>2, <2>3 DEF ImportOK
<1>13. AgainOK'
  BY <1>5, <1>8 DEF AgainOK, Agree, Lists
<1>14. PrefsOK'
  BY <1>7, <1>8, PrefsOfOrdered DEF PrefsOK
<1>15. VoiceOK'
  BY <1>1 DEF VoiceOK, apply_reader
<1> QED  BY <1>9, <1>10, <1>11, <1>12, <1>13, <1>14, <1>15

LEMMA RuntimeEndsStep == SettingsIInv /\ RuntimeEnds => SettingsIInv'
<1> SUFFICES ASSUME SettingsIInv, RuntimeEnds PROVE SettingsIInv'
  OBVIOUS
<1> USE DEF SettingsIInv, FilesOK
<1>1. stage' = "down" /\ store' = NoStore /\ UNCHANGED <<home, legacy, own, clock, did>>
  BY DEF RuntimeEnds
<1>2. SettingsShape'
  BY <1>1 DEF SettingsShape, Whole, NoStore
<1>3. OwnOK'
  BY <1>1 DEF OwnOK
<1>4. ImportOK'
  <2>1. convert_config' = convert_config
    BY <1>1 DEF convert_config, Clamped
  <2> QED  BY <1>1, <2>1 DEF ImportOK, MarkerSeen, KeymapIn, PrefsIn
<1>5. FileOK(home.prefs.json)'
  BY <1>1 DEF PrefsOK
<1> QED  BY <1>1, <1>2, <1>3, <1>4, <1>5, NotUp

(* What an edit leaves of the counters.                                    *)
LEMMA EditCounts ==
  ASSUME SettingsShape, did' = [did EXCEPT !.edits = @ + 1]
  PROVE  /\ did' = [sets |-> did'.sets, edits |-> did'.edits, starts |-> did'.starts, fails |-> did'.fails,
                    behind |-> did'.behind]
         /\ did'.sets = did.sets /\ did'.fails = did.fails /\ did'.edits \in Nat /\ did'.edits # 0
<1>1. did = [sets |-> did.sets, edits |-> did.edits, starts |-> did.starts, fails |-> did.fails,
             behind |-> did.behind]
  BY DEF SettingsShape
<1>2. /\ did' = [sets |-> did'.sets, edits |-> did'.edits, starts |-> did'.starts, fails |-> did'.fails,
                 behind |-> did'.behind]
      /\ did'.sets = did.sets /\ did'.fails = did.fails /\ did'.edits = did.edits + 1
  BY <1>1
<1>3. did'.edits \in Nat /\ did'.edits # 0
  BY <1>2 DEF SettingsShape
<1> QED  BY <1>2, <1>3

LEMMA EditKeyStep ==
  ASSUME SettingsIInv, NEW k \in EditedKeys, NEW v, EditKey(k, v)
  PROVE  SettingsIInv'
<1> USE DEF SettingsIInv, FilesOK
<1> DEFINE m == With(home.config.json, k, v)
           keys == IF validate(k, v) = {} THEN With(own.keys, k, v) ELSE Without(own.keys, k)
           text == own.text /\ home.config # Garbage
<1>1. /\ stage = "down" /\ stage' = "down" /\ did' = [did EXCEPT !.edits = @ + 1]
      /\ home' = [home EXCEPT !.config = Json(m)] /\ own' = [keys |-> keys, text |-> text]
      /\ UNCHANGED <<store, speech, held, legacy, clock>>
  BY DEF EditKey, read_object
<1>2. k # Marker
  BY SettingsKeys DEF Raw, Marker
<1>3. /\ DOMAIN m = DOMAIN home.config.json \cup {k} /\ m[k] = v
      /\ \A y \in DOMAIN home.config.json : y # k => m[y] = home.config.json[y]
  BY DEF With
<1>4. Refused(own.keys) /\ Lists(own.keys, home.config.json)
  BY DEF OwnOK
<1> HIDE DEF m
<1>5. Refused(keys) /\ Lists(keys, m)
  <2>1. CASE validate(k, v) = {}
    <3>1. /\ DOMAIN keys = DOMAIN own.keys \cup {k} /\ keys[k] = v
          /\ \A y \in DOMAIN own.keys : y # k => keys[y] = own.keys[y]
      BY <2>1 DEF With
    <3> HIDE DEF keys
    <3> QED  BY <1>2, <1>3, <1>4, <2>1, <3>1 DEF Refused, Lists
  <2>2. CASE validate(k, v) # {}
    <3>1. /\ DOMAIN keys = DOMAIN own.keys \ {k}
          /\ \A y \in DOMAIN own.keys : y # k => keys[y] = own.keys[y]
      BY <2>2 DEF Without
    <3> HIDE DEF keys
    <3> QED  BY <1>2, <1>3, <1>4, <2>2, <3>1 DEF Refused, Lists
  <2> QED  BY <2>1, <2>2
<1>6. text \in BOOLEAN /\ (text => home.bad)
  BY DEF SettingsShape, OwnOK
<1> HIDE DEF keys, text
<1>7. /\ home' = [config |-> home'.config, bad |-> home'.bad, prefs |-> home'.prefs,
                  keymap |-> home'.keymap, earcons |-> home'.earcons]
      /\ home'.config = Json(m) /\ home'.bad = home.bad /\ home'.prefs = home.prefs
      /\ home'.keymap = home.keymap
  <2>1. home = [config |-> home.config, bad |-> home.bad, prefs |-> home.prefs,
                keymap |-> home.keymap, earcons |-> home.earcons]
    BY DEF SettingsShape
  <2> QED  BY <1>1, <2>1
<1>8. own'.keys = keys /\ own'.text = text
  BY <1>1
<1>9. Json(m).json = m /\ Json(m) = Json(Json(m).json)
  BY DEF Json
<1>10. /\ did' = [sets |-> did'.sets, edits |-> did'.edits, starts |-> did'.starts, fails |-> did'.fails,
                  behind |-> did'.behind]
       /\ did'.sets = did.sets /\ did'.fails = did.fails /\ did'.edits \in Nat /\ did'.edits # 0
  BY <1>1, EditCounts
<1>11. SettingsShape'
  BY <1>1, <1>6, <1>7, <1>8, <1>9, <1>10 DEF SettingsShape
<1>12. OwnOK'
  BY <1>1, <1>5, <1>6, <1>7, <1>8, <1>9 DEF OwnOK
<1>13. ImportOK'
  <2>1. MarkerSeen' => MarkerSeen
    BY <1>1, <1>2, <1>3, <1>7, <1>9 DEF MarkerSeen
  <2>2. (KeymapIn => KeymapIn') /\ (PrefsIn => PrefsIn')
    BY <1>1, <1>7, <1>10 DEF KeymapIn, PrefsIn
  <2> QED  BY <1>1, <1>10, <2>1, <2>2 DEF ImportOK
<1>14. FileOK(home.prefs.json)'
  BY <1>7 DEF PrefsOK
<1> QED  BY <1>1, <1>11, <1>12, <1>13, <1>14, NotUp

LEMMA EditBreaksStep == SettingsIInv /\ EditBreaks => SettingsIInv'
<1> SUFFICES ASSUME SettingsIInv, EditBreaks PROVE SettingsIInv'
  OBVIOUS
<1> USE DEF SettingsIInv, FilesOK
<1>1. /\ stage = "down" /\ stage' = "down" /\ did' = [did EXCEPT !.edits = @ + 1]
      /\ home' = [home EXCEPT !.config = Garbage, !.bad = FALSE] /\ own' = [keys |-> Empty, text |-> TRUE]
      /\ UNCHANGED <<store, speech, held, legacy, clock>>
  BY DEF EditBreaks
<1>2. Garbage.json = Empty /\ DOMAIN Empty = {}
  BY DEF Garbage, Empty
<1> HIDE DEF Garbage
<1>3. /\ home' = [config |-> home'.config, bad |-> home'.bad, prefs |-> home'.prefs,
                  keymap |-> home'.keymap, earcons |-> home'.earcons]
      /\ home'.config = Garbage /\ home'.bad = FALSE /\ home'.prefs = home.prefs
      /\ home'.keymap = home.keymap
  <2>1. home = [config |-> home.config, bad |-> home.bad, prefs |-> home.prefs,
                keymap |-> home.keymap, earcons |-> home.earcons]
    BY DEF SettingsShape
  <2> QED  BY <1>1, <2>1
<1>4. own'.keys = Empty /\ own'.text = TRUE
  BY <1>1
<1>5. /\ did' = [sets |-> did'.sets, edits |-> did'.edits, starts |-> did'.starts, fails |-> did'.fails,
                 behind |-> did'.behind]
      /\ did'.sets = did.sets /\ did'.fails = did.fails /\ did'.edits \in Nat /\ did'.edits # 0
  BY <1>1, EditCounts
<1>6. SettingsShape'
  <2>1. home'.bad \in BOOLEAN /\ own'.text \in BOOLEAN
    BY <1>3, <1>4
  <2> QED  BY <1>1, <1>3, <1>4, <1>5, <2>1 DEF SettingsShape
<1>7. OwnOK'
  BY <1>1, <1>2, <1>3, <1>4 DEF OwnOK, Refused, Lists
<1>8. ImportOK'
  BY <1>1, <1>2, <1>3 DEF ImportOK, MarkerSeen
<1>9. FileOK(home.prefs.json)'
  BY <1>3 DEF PrefsOK
<1> QED  BY <1>1, <1>6, <1>7, <1>8, <1>9, NotUp

LEMMA SettingsStutter ==
  ASSUME SettingsIInv, UNCHANGED <<home, store, speech, held, stage, legacy, own, did>>,
         clock' \in Nat
  PROVE  SettingsIInv'
<1> USE DEF SettingsIInv, FilesOK
<1>1. SettingsShape'
  BY DEF SettingsShape
<1>2. OwnOK' /\ StoreOK'
  BY DEF OwnOK, StoreOK
<1>3. ImportOK'
  <2>1. convert_config' = convert_config
    BY DEF convert_config, Clamped
  <2> QED  BY <2>1 DEF ImportOK, MarkerSeen, KeymapIn, PrefsIn
<1>4. AgainOK' /\ PrefsOK'
  BY DEF AgainOK, PrefsOK
<1>5. VoiceOK'
  BY DEF VoiceOK, Waits
<1> QED  BY <1>1, <1>2, <1>3, <1>4, <1>5

LEMMA SettingsNextIInv == SettingsIInv /\ [SettingsNext]_settingsVars => SettingsIInv'
<1> SUFFICES ASSUME SettingsIInv, [SettingsNext]_settingsVars PROVE SettingsIInv'
  OBVIOUS
<1>1. CASE Importing
  BY <1>1, BeginStep, ImportKeymapStep, ImportPrefsStep, ImportEarconsStep, ImportConfigStep, LoadStep
     DEF Importing
<1>2. CASE RuntimeEnds
  BY <1>2, RuntimeEndsStep
<1>3. CASE SetsConfig
  BY <1>3, SetAgentStep, SummariesStep DEF SetsConfig
<1>4. CASE SetsReader
  BY <1>4, SetVoiceStep, SetEngineStep DEF SetsReader
<1>5. CASE SetsPrefs
  BY <1>5, SetPrefsStep, ForgetPrefsStep DEF SetsPrefs, ChannelPrefs
<1>6. CASE Edits
  BY <1>6, EditKeyStep, EditBreaksStep DEF Edits
<1>7. CASE \E t \in 0..MaxClock : ClockMoves(t)
  <2>1. /\ UNCHANGED <<home, store, speech, held, stage, legacy, own, did>>
        /\ \E t \in 0..MaxClock : clock' = t
    BY <1>7 DEF ClockMoves
  <2>2. clock' \in Nat
    BY <2>1, SettingsAssumption
  <2> QED  BY <2>1, <2>2, SettingsStutter
<1>8. CASE UNCHANGED settingsVars
  <2>1. /\ UNCHANGED <<home, store, speech, held, stage, legacy, own, did>>
        /\ clock' = clock
    BY <1>8 DEF settingsVars
  <2>2. clock' \in Nat
    BY <2>1 DEF SettingsIInv, FilesOK, SettingsShape
  <2> QED  BY <2>1, <2>2, SettingsStutter
<1> QED  BY <1>1, <1>2, <1>3, <1>4, <1>5, <1>6, <1>7, <1>8 DEF SettingsNext

(* What a client set and the user wrote survives restarts, the import,     *)
(* failed writes and a clock that goes back: for any channels, voices,     *)
(* keys and limits, with every kind of `set` in one session (config.rs,    *)
(* migrate.rs).                                                            *)
THEOREM SettingsAreKept == SettingsSpec => []SettingsKept
<1>1. SettingsSpec => []SettingsIInv
  BY SettingsInitIInv, SettingsNextIInv, PTL DEF SettingsSpec
<1> QED  BY <1>1, SettingsKeptFollows, PTL
=============================================================================
