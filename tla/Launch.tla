------------------------------- MODULE Launch -------------------------------
(***************************************************************************)
(* Runtimes and how clients find them: the mutex of a home (instance.rs),  *)
(* runtime.json (runtime_file.rs), a runtime's start and end (main.rs),    *)
(* the hook that delivers an event and starts a runtime when none answers  *)
(* (sonara-client), and `sonara start` and `sonara stop` (lifecycle.rs)    *)
(* with the stop sentinel.  Runtimes die at any step, and another process  *)
(* may take the port of one that did.                                      *)
(*                                                                         *)
(* A process id is not used again.  Waits end whenever they may.           *)
(***************************************************************************)
EXTENDS Naturals, FiniteSets

CONSTANTS Pid,        \* the runtimes that are ever started, numbers in order
          Port,       \* ports
          Hook,       \* hook processes, one event each
          MaxCrashes, MaxCommands  \* bounds

\* The process that is no runtime.
Other == 1000

ASSUME LaunchAssumption == Pid \subseteq 1..(Other - 1) /\ IsFiniteSet(Pid)

VARIABLES
  proc,     \* each runtime: how far it is, its port and release
  mutex,    \* who holds the home
  json,     \* runtime.json
  stopped,  \* the stop sentinel
  owner,    \* who listens on each port: a runtime, 0, or Other
  client,   \* the hooks, and the CLI's command
  told      \* a raced file; crashes and commands so far

launchVars == <<proc, mutex, json, stopped, owner, client, told>>

CLI == "cli"
Client == Hook \cup {CLI}
NoFile == [pid |-> 0, port |-> 0]
Unborn == [at |-> "unborn", port |-> 0, old |-> FALSE]
Away == [at |-> "idle", cmd |-> "none", rt |-> NoFile, child |-> 0]

Alive == {p \in Pid : proc[p].at \notin {"unborn", "gone"}}
Gone(p) == p \in Pid /\ proc[p].at = "gone"
Ends(p) == proc' = [proc EXCEPT ![p] = [Unborn EXCEPT !.at = "gone"]]
Listens(p) == p \in Pid /\ proc[p].at \in {"listening", "serving", "exiting"}

LaunchInit ==
  /\ proc = [p \in Pid |-> Unborn] /\ mutex = 0 /\ json = NoFile /\ stopped \in BOOLEAN
  /\ owner = [o \in Port |-> 0] /\ client = [c \in Client |-> Away]
  /\ told = [raced |-> FALSE, crashes |-> 0, commands |-> 0]

-----------------------------------------------------------------------------
(* A runtime: acquire, then the import, the settings and the engines; a    *)
(* second one ends at once.                                                *)
acquire(p) ==
  /\ proc[p].at = "started"
  /\ IF mutex = 0 THEN mutex' = p /\ proc' = [proc EXCEPT ![p].at = "loading"]
     ELSE Ends(p) /\ UNCHANGED mutex
  /\ UNCHANGED <<json, stopped, owner, client, told>>

Listen(p, o) ==
  /\ proc[p].at = "loading" /\ owner[o] = 0 /\ owner' = [owner EXCEPT ![o] = p]
  /\ proc' = [proc EXCEPT ![p].at = "listening", ![p].port = o]
  /\ UNCHANGED <<mutex, json, stopped, client, told>>

(* write: a temp file, made user-only, and a rename.  It is told when it   *)
(* falls between another runtime's look at the file and its removal.       *)
write(p) ==
  /\ proc[p].at = "listening" /\ proc' = [proc EXCEPT ![p].at = "serving"]
  /\ json' = [pid |-> p, port |-> proc[p].port]
  /\ told' = [told EXCEPT !.raced = @ \/ \E q \in Pid : proc[q].at = "removing"]
  /\ UNCHANGED <<mutex, stopped, owner, client>>

(* The exit: it was asked for, it is idle, or a signal came.               *)
DecideExit(p) ==
  /\ proc[p].at = "serving" /\ proc' = [proc EXCEPT ![p].at = "exiting"]
  /\ UNCHANGED <<mutex, json, stopped, owner, client, told>>

(* The last requests are answered, other apps' audio is put back, speech   *)
(* stops and the listeners close; then the mutex goes, and then the file   *)
(* if it is this runtime's.  The fault: whoever's it is.                   *)
Close(p) ==
  /\ proc[p].at = "exiting" /\ proc' = [proc EXCEPT ![p].at = "closed"]
  /\ owner' = [owner EXCEPT ![proc[p].port] = 0]
  /\ UNCHANGED <<mutex, json, stopped, client, told>>
ReleaseMutex(p) ==
  /\ proc[p].at = "closed" /\ mutex' = 0 /\ proc' = [proc EXCEPT ![p].at = "released"]
  /\ UNCHANGED <<json, stopped, owner, client, told>>

ours_any(p) == TRUE
ours(p) == json.pid = p
read_pid(p) ==
  /\ proc[p].at = "released"
  /\ IF ours(p) THEN proc' = [proc EXCEPT ![p].at = "removing"] ELSE Ends(p)
  /\ UNCHANGED <<mutex, json, stopped, owner, client, told>>
remove(p) ==
  /\ proc[p].at = "removing" /\ json' = NoFile /\ Ends(p)
  /\ UNCHANGED <<mutex, stopped, owner, client, told>>

(* A start that fails gives the mutex back; a crash frees port and mutex   *)
(* and leaves the file.                                                    *)
Die(p) ==
  /\ p \in Alive /\ told.crashes < MaxCrashes /\ told' = [told EXCEPT !.crashes = @ + 1]
  /\ Ends(p)
  /\ mutex' = IF mutex = p THEN 0 ELSE mutex
  /\ owner' = [o \in Port |-> IF owner[o] = p THEN 0 ELSE owner[o]]
  /\ UNCHANGED <<json, stopped, client>>

(* Another process takes the port that runtime.json names.                 *)
OtherListens(o) ==
  /\ json.port = o /\ owner[o] = 0 /\ owner' = [owner EXCEPT ![o] = Other]
  /\ UNCHANGED <<proc, mutex, json, stopped, client, told>>

-----------------------------------------------------------------------------
(* connect: the other end must be the process the file names, which is     *)
(* looked up before anything is sent.                                      *)
connected(rt) == rt.pid # 0 /\ owner[rt.port] = rt.pid

\* A step of client c; one that is over keeps nothing.
ClientAt(c, at) ==
  client' = [client EXCEPT ![c] = IF at = "over" THEN [Away EXCEPT !.at = "over"]
                                  ELSE [@ EXCEPT !.at = at]]

(* start_runtime: the next process.                                        *)
Spawned == {p \in Pid : proc[p].at = "unborn"}
NextPid == CHOOSE p \in Spawned : \A q \in Spawned : p <= q
Spawns(old) ==
  /\ Spawned # {}
  /\ proc' = [proc EXCEPT ![NextPid] = [Unborn EXCEPT !.at = "started", !.old = old]]
start_runtime(c) ==
  /\ Spawns(FALSE) /\ client' = [client EXCEPT ![c].at = "wait", ![c].child = NextPid]

(* deliver: the file as it is now.                                         *)
Deliver(h) ==
  /\ client[h].at = "idle" /\ client[h].cmd = "none"
  /\ client' = [client EXCEPT ![h] = [Away EXCEPT !.cmd = "event", !.rt = json, !.at = "connect"]]
  /\ UNCHANGED <<proc, mutex, json, stopped, owner, told>>

HookConnects(h) ==
  /\ h \in Hook /\ client[h].at = "connect"
  /\ ClientAt(h, IF connected(client[h].rt) THEN "sent" ELSE "none answers")
  /\ UNCHANGED <<proc, mutex, json, stopped, owner, told>>

(* The runtime applies the batch, also one whose sender no longer waits.   *)
Applies(h) ==
  /\ client[h].at \in {"sent", "sent again"} /\ Listens(client[h].rt.pid)
  /\ ClientAt(h, IF client[h].at = "sent" THEN "replied" ELSE "over")
  /\ UNCHANGED <<proc, mutex, json, stopped, owner, told>>

(* An ok to hello ends it.  No reply in time, a lost connection or one to  *)
(* something else: no runtime answers.                                     *)
Replied(h) ==
  /\ client[h].at = "replied" /\ ClientAt(h, "over")
  /\ UNCHANGED <<proc, mutex, json, stopped, owner, told>>
NoReply(h) ==
  /\ client[h].at \in {"sent", "sent again", "replied"}
  /\ ClientAt(h, IF client[h].at = "sent again" THEN "over" ELSE "none answers")
  /\ UNCHANGED <<proc, mutex, json, stopped, owner, told>>

(* A start, unless the user stopped Sonara.                                *)
MayStart(h) ==
  /\ client[h].at = "none answers" /\ h \in Hook
  /\ ClientAt(h, IF stopped THEN "over" ELSE "start")
  /\ UNCHANGED <<proc, mutex, json, stopped, owner, told>>
StartRuntime(h) ==
  /\ client[h].at = "start" /\ start_runtime(h)
  /\ UNCHANGED <<mutex, json, stopped, owner, told>>

(* The wait for it: another runtime's file, or the same once the start has *)
(* ended.                                                                  *)
worth_trying(h) == json # NoFile /\ (json.pid # client[h].rt.pid \/ Gone(client[h].child))
Poll(h) ==
  /\ client[h].at = "wait" /\ h \in Hook /\ worth_trying(h) /\ connected(json)
  /\ client' = [client EXCEPT ![h].at = "sent again", ![h].rt = json]
  /\ UNCHANGED <<proc, mutex, json, stopped, owner, told>>
Deadline(c) ==
  /\ client[c].at \in {"wait", "wait gone"} /\ ClientAt(c, "over")
  /\ UNCHANGED <<proc, mutex, json, stopped, owner, told>>

-----------------------------------------------------------------------------
(* The CLI: `start` clears the sentinel, `stop` writes it, then both look  *)
(* for a runtime.                                                          *)
Command(cmd) ==
  /\ client[CLI].at \in {"idle", "over"} /\ told.commands < MaxCommands
  /\ told' = [told EXCEPT !.commands = @ + 1] /\ stopped' = (cmd = "stop")
  /\ client' = [client EXCEPT ![CLI] = [Away EXCEPT !.at = "attach", !.cmd = cmd, !.rt = json]]
  /\ UNCHANGED <<proc, mutex, json, owner>>

(* attach; `start` keeps a runtime of its own release or a newer one.      *)
replaces(p) == proc[p].old
Attach ==
  /\ client[CLI].at = "attach"
  /\ LET rt == client[CLI].rt
         found == connected(rt) /\ Listens(rt.pid)
         ends == client[CLI].cmd = "stop" \/ replaces(rt.pid)
     IN  /\ proc' = IF found /\ ends /\ proc[rt.pid].at = "serving"
                    THEN [proc EXCEPT ![rt.pid].at = "exiting"] ELSE proc
         /\ ClientAt(CLI, IF found THEN (IF ends THEN "wait gone" ELSE "over")
                       ELSE IF client[CLI].cmd = "stop" THEN "over" ELSE "launch")
  /\ UNCHANGED <<mutex, json, stopped, owner, told>>

(* wait_gone: the file is gone or another's, or nobody answers.            *)
wait_gone ==
  /\ client[CLI].at = "wait gone"
  /\ json.pid # client[CLI].rt.pid \/ ~connected(client[CLI].rt)
  /\ ClientAt(CLI, IF client[CLI].cmd = "stop" THEN "over" ELSE "launch")
  /\ UNCHANGED <<proc, mutex, json, stopped, owner, told>>

Launches ==
  /\ client[CLI].at = "launch" /\ start_runtime(CLI)
  /\ UNCHANGED <<mutex, json, stopped, owner, told>>
AttachStarted ==
  /\ client[CLI].at = "wait" /\ connected(json) /\ ClientAt(CLI, "over")
  /\ UNCHANGED <<proc, mutex, json, stopped, owner, told>>

(* A runtime of an older release, started before.                          *)
OldStarts ==
  /\ \A p \in Pid : proc[p].at = "unborn"
  /\ Spawns(TRUE)
  /\ UNCHANGED <<client, mutex, json, stopped, owner, told>>

RuntimeStep(p) ==
  \/ acquire(p) \/ write(p) \/ DecideExit(p) \/ Close(p) \/ ReleaseMutex(p)
  \/ read_pid(p) \/ remove(p) \/ Die(p)
  \/ \E o \in Port : Listen(p, o)
HookStep(h) ==
  \/ Deliver(h) \/ HookConnects(h) \/ Applies(h) \/ Replied(h) \/ NoReply(h) \/ MayStart(h)
  \/ StartRuntime(h) \/ Poll(h) \/ Deadline(h)
CliStep ==
  \/ \E c \in {"start", "stop"} : Command(c)
  \/ Attach \/ wait_gone \/ Launches \/ AttachStarted \/ Deadline(CLI)

LaunchNext ==
  \/ OldStarts
  \/ \E p \in Pid : RuntimeStep(p)
  \/ \E h \in Hook : HookStep(h)
  \/ CliStep
  \/ \E o \in Port : OtherListens(o)
LaunchSpec == LaunchInit /\ [][LaunchNext]_launchVars

-----------------------------------------------------------------------------
(* Properties.                                                             *)

(* Once a runtime serves, runtime.json names it and stays, so at most one  *)
(* serves a home: whatever older runtimes do as they end, wherever others  *)
(* died (the mutex, remove_if_ours); unless its file came between an older *)
(* one's look at the file and its removal.                                 *)
Found ==
  ~told.raced =>
    \A p \in Pid : proc[p].at \in {"serving", "exiting"} => json = [pid |-> p, port |-> proc[p].port]
=============================================================================
