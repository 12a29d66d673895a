------------------------------- MODULE Kokoro -------------------------------
(***************************************************************************)
(* The Kokoro engine (sonara-engine kokoro/mod.rs) and its model manager   *)
(* (kokoro/download.rs): the files on disk, the preparation thread that    *)
(* verifies, downloads and loads them, the runtime that may die at any of  *)
(* its steps, and a chunk that waits for the model or is read by the       *)
(* fallback.  A file is Size blocks; a hash tells the right bytes from     *)
(* others, whatever their number.  Waits are counted down in ticks.        *)
(***************************************************************************)
EXTENDS Naturals, Sequences, FiniteSets, FiniteSetsExt

CONSTANTS Files,       \* the pinned files, in order
          Size,        \* blocks of a file
          FIRST_DELAY, MAX_DELAY,  \* Backoff, in ticks
          Batches,     \* model calls of a chunk
          MaxCrashes, MaxCancels   \* bounds

ASSUME KokoroAssumption ==
  /\ Files \in Seq(STRING) /\ Files # <<>> /\ Size \in Nat \ {0} /\ Batches \in Nat
  /\ FIRST_DELAY \in Nat \ {0} /\ MAX_DELAY >= FIRST_DELAY

VARIABLES
  folder,     \* file, part and mark of each name (kept over a crash)
  manager,  \* Manager's State
  progress, \* Progress of the engine
  task,   \* the preparation thread
  chunk,    \* a synthesize and the stream it returns
  host      \* what is around: downloads allowed, ONNX Runtime there, trouble

kokoroVars == <<folder, manager, progress, task, chunk, host>>

Names == {Files[i] : i \in 1..Len(Files)}
Nothing == [len |-> 0, good |-> TRUE]
Complete(p) == p.len = Size /\ p.good

(* Backoff::delay                                                          *)
delay(failures) == Min({FIRST_DELAY * 2 ^ (failures - 1), MAX_DELAY})

NewManager == [phase |-> "Idle", failures |-> 0, running |-> FALSE, wait |-> 0]
NewProgress == [stage |-> "Idle", loaded |-> FALSE, unavailable |-> FALSE, failed |-> 0, wait |-> 0,
                generation |-> 0, fallback_ok |-> "unknown"]
NoTask == [at |-> "none", file |-> 1, known |-> {}, restarted |-> FALSE, pos |-> 0, fresh |-> FALSE]
NoChunk == [at |-> "idle", generation |-> 0, left |-> 0]

(* What may be there when the runtime starts: nothing, files of a host     *)
(* that pre-seeds the folder (right or not), parts of earlier downloads.   *)
KokoroInit ==
  /\ folder \in [file : [Names -> {"none", "good", "bad", "short"}],
               part : [Names -> {Nothing, [len |-> 1, good |-> FALSE], [len |-> Size + 1, good |-> TRUE]}],
               mark : {[n \in Names |-> FALSE]}]
  /\ manager = NewManager /\ progress = NewProgress /\ task = NoTask /\ chunk = NoChunk
  /\ host \in [download : BOOLEAN, dll : BOOLEAN, fallback : BOOLEAN,
               trouble : {TRUE}, crashes : {0}]

File == Files[task.file]

-----------------------------------------------------------------------------
(* The manager.                                                            *)

(* verified: in place with the size and time it had when it was hashed; a  *)
(* file that is replaced loses its mark.                                   *)
verified(n, known) == folder.file[n] \in {"good", "bad"} /\ n \in known
on_disk == \A n \in Names : folder.file[n] \in {"good", "bad"}
read_verified == {n \in Names : folder.mark[n]}

begin_refused == manager.running \/ (manager.phase = "Failed" /\ manager.wait > 0)

finish_fetch(ok) ==
  IF ok THEN [manager EXCEPT !.running = FALSE, !.failures = 0, !.phase = "Ready", !.wait = 0]
  ELSE [manager EXCEPT !.running = FALSE, !.failures = Min({@ + 1, MAX_DELAY}), !.phase = "Failed",
                       !.wait = delay(Min({@ + 1, MAX_DELAY}))]
Finish(ok) == manager' = finish_fetch(ok) /\ task' = [task EXCEPT !.at = IF ok THEN "fetched" ELSE "over"]

(* A failed step ends the fetch; the part stays for the next one.          *)
FetchFails ==
  /\ Finish(FALSE) /\ UNCHANGED <<folder, progress, chunk, host>>

(* remember: the whole map is written; a failed write is ignored.          *)
Remembers(n) ==
  /\ task' = [task EXCEPT !.at = "next", !.known = @ \cup {n}]
  /\ \/ folder' = [folder EXCEPT !.mark = [m \in Names |-> m \in task.known \cup {n}]]
     \/ host.trouble /\ UNCHANGED folder

(* fetch_all, for one file: verify what is there.                          *)
Verify ==
  /\ task.at = "file"
  /\ \/ /\ verified(File, task.known)
        /\ task' = [task EXCEPT !.at = "next"] /\ UNCHANGED <<folder, manager>>
     \/ /\ ~verified(File, task.known) /\ folder.file[File] = "none"
        /\ task' = [task EXCEPT !.at = "download", !.restarted = FALSE]
        /\ UNCHANGED <<folder, manager>>
     \/ /\ ~verified(File, task.known) /\ folder.file[File] # "none"
        /\ manager' = [manager EXCEPT !.phase = "Verifying"]
        /\ IF folder.file[File] = "good" THEN Remembers(File)
           ELSE /\ folder' = [folder EXCEPT !.file[File] = "none", !.mark[File] = FALSE]
                /\ task' = [task EXCEPT !.at = "download", !.restarted = FALSE]
  /\ UNCHANGED <<progress, chunk, host>>

(* A folder that cannot be made, a file that cannot be read or replaced.   *)
DiskFails == task.at \in {"file", "body", "hash"} /\ host.trouble /\ FetchFails

NextFile ==
  /\ task.at = "next" /\ task.file < Len(Files)
  /\ task' = [task EXCEPT !.at = "file", !.file = @ + 1]
  /\ UNCHANGED <<folder, manager, progress, chunk, host>>

Fetched == task.at = "next" /\ task.file = Len(Files) /\ Finish(TRUE)
           /\ UNCHANGED <<folder, progress, chunk, host>>

(* download: a part that is too long starts anew, a complete one is only   *)
(* hashed.                                                                 *)
Download ==
  /\ task.at = "download"
  /\ IF folder.part[File].len > Size
     THEN /\ folder' = [folder EXCEPT !.part[File] = Nothing]
          /\ UNCHANGED <<manager, task>>
     ELSE /\ task' = [task EXCEPT !.at = IF folder.part[File].len = Size THEN "hash" ELSE "request"]
          /\ manager' = [manager EXCEPT !.phase = "Downloading"]
          /\ UNCHANGED folder
  /\ UNCHANGED <<progress, chunk, host>>

(* The answer's status: a range that continues the part (206), the whole   *)
(* file (200), or one that cannot be used (another range, 416), which has  *)
(* the part start over, once.                                              *)
Answered206 ==
  /\ task.at = "request" /\ folder.part[File].len > 0
  /\ task' = [task EXCEPT !.at = "body", !.pos = folder.part[File].len]
  /\ UNCHANGED <<folder, manager, progress, chunk, host>>

Answered200 ==
  /\ task.at = "request"
  /\ folder' = [folder EXCEPT !.part[File] = Nothing]
  /\ task' = [task EXCEPT !.at = "body", !.pos = 0]
  /\ UNCHANGED <<manager, progress, chunk, host>>

StartOver ==
  /\ task.at = "request" /\ folder.part[File].len > 0 /\ ~task.restarted
  /\ folder' = [folder EXCEPT !.part[File] = Nothing]
  /\ task' = [task EXCEPT !.at = "download", !.restarted = TRUE]
  /\ UNCHANGED <<manager, progress, chunk, host>>

AnswerFails == task.at = "request" /\ host.trouble /\ FetchFails

(* The body, block by block; without trouble the bytes are the right ones. *)
Block ==
  /\ task.at = "body" /\ task.pos < Size
  /\ \E good \in IF host.trouble THEN BOOLEAN ELSE {TRUE} :
       folder' = [folder EXCEPT !.part[File] = [len |-> task.pos + 1, good |-> @.good /\ good]]
  /\ task' = [task EXCEPT !.pos = @ + 1]
  /\ UNCHANGED <<manager, progress, chunk, host>>

(* More than the file has, or less: the part stays.                        *)
BodyFails == task.at = "body" /\ host.trouble /\ FetchFails

BodyEnds ==
  /\ task.at = "body" /\ task.pos = Size
  /\ task' = [task EXCEPT !.at = "hash"]
  /\ UNCHANGED <<folder, manager, progress, chunk, host>>

(* The part is hashed, and dropped or renamed into place.  The fault: a    *)
(* part of the right size is taken.                                        *)
hashed_size(p) == TRUE
hashed(p) == Complete(p)

mismatch(d) == [d EXCEPT !.part[File] = Nothing]

Rename ==
  /\ task.at = "hash" /\ hashed(folder.part[File])
  /\ folder' = [folder EXCEPT !.file[File] = IF Complete(folder.part[File]) THEN "good" ELSE "bad",
                          !.part[File] = Nothing, !.mark[File] = FALSE]
  /\ task' = [task EXCEPT !.at = "renamed", !.known = @ \ {File}]
  /\ UNCHANGED <<manager, progress, chunk, host>>

Mismatch ==
  /\ task.at = "hash" /\ ~hashed(folder.part[File])
  /\ folder' = mismatch(folder) /\ Finish(FALSE)
  /\ UNCHANGED <<progress, chunk, host>>

Renamed ==
  /\ task.at = "renamed" /\ Remembers(File)
  /\ UNCHANGED <<manager, progress, chunk, host>>

-----------------------------------------------------------------------------
(* start: claim a preparation if nothing runs and no retry is awaited.     *)
start_refused ==
  \/ progress.loaded \/ progress.unavailable \/ progress.stage # "Idle" \/ progress.wait > 0
Started ==
  IF start_refused THEN UNCHANGED <<progress, manager, task>>
  ELSE IF ~on_disk /\ ~host.download
  THEN progress' = [progress EXCEPT !.unavailable = TRUE] /\ UNCHANGED <<manager, task>>
  ELSE IF begin_refused THEN UNCHANGED <<progress, manager, task>>
  ELSE /\ progress' = [progress EXCEPT !.stage = IF on_disk THEN "Loading" ELSE "Fetching"]
       /\ manager' = [manager EXCEPT !.running = TRUE]
       /\ task' = [NoTask EXCEPT !.at = "spawn", !.fresh = ~on_disk]

(* prepare, which the host also calls at startup (not while it is idle).   *)
Prepare ==
  /\ task.at = "none" /\ ~start_refused /\ ~begin_refused /\ Started
  /\ UNCHANGED <<folder, chunk, host>>

Spawned ==
  /\ task.at = "spawn" /\ task' = [task EXCEPT !.at = "file", !.known = read_verified]
  /\ UNCHANGED <<folder, manager, progress, chunk, host>>

(* No thread to be had: the claim is given back, then the stage.           *)
SpawnFails ==
  /\ task.at = "spawn" /\ host.trouble /\ FetchFails

(* The thread's end.  The fault: it keeps the stage.                       *)
GivesBack_never == UNCHANGED progress
GivesBack == progress' = [progress EXCEPT !.stage = "Idle"]
TaskEnds ==
  /\ task.at = "over" /\ task' = NoTask
  /\ GivesBack
  /\ UNCHANGED <<folder, manager, chunk, host>>

Load ==
  /\ task.at = "fetched" /\ task' = [task EXCEPT !.at = "load"]
  /\ progress' = IF task.fresh THEN [progress EXCEPT !.stage = "Loading"] ELSE progress
  /\ UNCHANGED <<folder, manager, chunk, host>>

(* load: no ONNX Runtime is for good, anything else is tried again.        *)
Loaded ==
  /\ task.at = "load" /\ task' = [task EXCEPT !.at = "over"]
  /\ \/ /\ ~host.dll /\ progress' = [progress EXCEPT !.unavailable = TRUE]
     \/ /\ host.dll /\ progress' = [progress EXCEPT !.loaded = TRUE, !.failed = 0, !.wait = 0]
     \/ /\ host.dll /\ host.trouble
        /\ progress' = [progress EXCEPT !.failed = Min({@ + 1, MAX_DELAY}),
                                        !.wait = delay(Min({@ + 1, MAX_DELAY}))]
  /\ UNCHANGED <<folder, manager, chunk, host>>

is_preparing == ~progress.loaded /\ (progress.stage # "Idle" \/ manager.running)

status ==
  CASE progress.loaded -> "ready"
    [] ~progress.loaded /\ progress.unavailable -> "unavailable"
    [] OTHER -> IF manager.phase = "Downloading" THEN "downloading"
                ELSE IF progress.stage = "Loading" THEN "loading"
                ELSE IF manager.phase = "Failed" \/ progress.failed > 0 THEN "waiting" ELSE "loading"

-----------------------------------------------------------------------------
(* A chunk: prepare, wait for what is loading, then Kokoro, the fallback   *)
(* or, without one that can speak, a longer wait.                          *)
Chunk(at) == chunk' = [chunk EXCEPT !.at = at]
Synthesize ==
  /\ chunk.at = "idle"
  /\ chunk' = [at |-> "loading", generation |-> progress.generation, left |-> Batches]
  /\ Started
  /\ UNCHANGED <<folder, host>>

gone == chunk.generation # progress.generation
LoadingLasts == progress.stage = "Loading" /\ manager.phase \notin {"Downloading", "Failed"} /\ ~gone

wait_loading(overdue) ==
  /\ chunk.at = "loading" /\ (overdue \/ ~LoadingLasts)
  /\ Chunk(IF progress.loaded THEN "stream" ELSE "fallback")
  /\ UNCHANGED <<folder, manager, progress, task, host>>

(* usable_fallback: found out once (warmed, and it has voices).            *)
usable_fallback ==
  /\ chunk.at = "fallback"
  /\ progress' = [progress EXCEPT !.fallback_ok = IF @ # "unknown" THEN @ ELSE IF host.fallback THEN "yes" ELSE "no"]
  /\ Chunk(IF progress'.fallback_ok = "yes" THEN "idle" ELSE "waiting")
  /\ UNCHANGED <<folder, manager, task, host>>

wait_kokoro(overdue) ==
  /\ chunk.at = "waiting"
  /\ \/ progress.loaded /\ Chunk("stream")
     \/ ~progress.loaded /\ gone /\ Chunk("idle")
     \/ /\ ~progress.loaded /\ ~gone /\ (progress.unavailable \/ ~is_preparing \/ overdue)
        /\ Chunk("idle")
  /\ UNCHANGED <<folder, manager, progress, task, host>>

(* Stream::next: the generation is looked at before and after a model      *)
(* call.                                                                   *)
StreamNext ==
  /\ chunk.at = "stream"
  /\ chunk' = IF gone \/ chunk.left = 0 THEN NoChunk ELSE [chunk EXCEPT !.at = "infer", !.left = @ - 1]
  /\ UNCHANGED <<folder, manager, progress, task, host>>

infer ==
  /\ chunk.at = "infer" /\ chunk' = IF gone THEN NoChunk ELSE [chunk EXCEPT !.at = "stream"]
  /\ UNCHANGED <<folder, manager, progress, task, host>>

cancel ==
  /\ chunk.at # "idle" /\ progress.generation < MaxCancels
  /\ progress' = [progress EXCEPT !.generation = @ + 1]
  /\ UNCHANGED <<folder, manager, task, chunk, host>>

-----------------------------------------------------------------------------
(* The runtime dies and is started again; meanwhile a host may put a file  *)
(* there, which has another time than the one remembered.                  *)
Crash ==
  /\ host.crashes < MaxCrashes
  /\ host' = [host EXCEPT !.crashes = @ + 1]
  /\ manager' = NewManager /\ task' = NoTask /\ chunk' = NoChunk
  /\ progress' = NewProgress
  /\ \/ UNCHANGED folder
     \/ \E n \in Names, c \in {"good", "bad", "short"} :
          folder' = [folder EXCEPT !.file[n] = c, !.mark[n] = FALSE]

TroubleEnds ==
  /\ host.trouble /\ host' = [host EXCEPT !.trouble = FALSE]
  /\ UNCHANGED <<folder, manager, progress, task, chunk>>

Wait ==
  /\ manager.wait > 0 \/ progress.wait > 0
  /\ manager' = [manager EXCEPT !.wait = IF @ > 0 THEN @ - 1 ELSE 0]
  /\ progress' = [progress EXCEPT !.wait = IF @ > 0 THEN @ - 1 ELSE 0]
  /\ UNCHANGED <<folder, task, chunk, host>>

Preparing ==
  \/ Verify \/ NextFile \/ Fetched \/ Download \/ Answered206 \/ Answered200 \/ StartOver
  \/ Block \/ BodyEnds \/ Rename \/ Mismatch \/ Renamed \/ Spawned \/ TaskEnds \/ Load \/ Loaded
Troubles == DiskFails \/ AnswerFails \/ BodyFails \/ SpawnFails
Chunking == Synthesize \/ usable_fallback \/ StreamNext \/ infer \/ cancel
            \/ \E overdue \in BOOLEAN : wait_loading(overdue) \/ wait_kokoro(overdue)

KokoroNext == Prepare \/ Preparing \/ Troubles \/ Chunking \/ Crash \/ TroubleEnds \/ Wait

KokoroSpec == KokoroInit /\ [][KokoroNext]_kokoroVars

-----------------------------------------------------------------------------
(* Properties.                                                             *)

(* A model is loaded only from files that are the pinned ones, and what    *)
(* verified.json remembers is: over every break, resume, restart of the    *)
(* runtime and file put there by a host (fetch_all, download, remember).   *)
FilesWhole ==
  /\ progress.loaded => \A n \in Names : folder.file[n] = "good"
  /\ \A n \in Names : folder.mark[n] => folder.file[n] = "good"

(* The engine says that it prepares exactly while a thread does: a fetch   *)
(* is claimed by one thread at a time and given back on every path, and    *)
(* the status does not show a download that is over (start, prepare,       *)
(* finish, is_preparing, which keeps the runtime from idling out).         *)
PreparationTold ==
  /\ (progress.stage # "Idle") = (task.at # "none")
  /\ manager.running = (task.at \notin {"none", "fetched", "load", "over"})
  /\ status = "downloading" => manager.running
=============================================================================
