------------------------------- MODULE Ducker -------------------------------
(***************************************************************************)
(* Ducking other apps (sonara-system ducking.rs): every other app's audio  *)
(* session is lowered while speech plays and put back afterwards, across   *)
(* failing sessions, apps that come and go, and crashes of the runtime.    *)
(*                                                                         *)
(* A slot is an app on a render device; its session is identified by slot  *)
(* and pid (AudioSession::id).  Windows keeps a session's volume while its *)
(* app is away.  One step is what lies between two effects that outlive    *)
(* the runtime: a write of the crash-restore file, and volumes being set.  *)
(* (A crash half way through setting several volumes is one after setting  *)
(* them with the rest failing.)  The process names in NEVER_DUCK and the   *)
(* runtime's own pid are not slots; writing the file succeeds.             *)
(***************************************************************************)
EXTENDS Integers, Sequences, SequencesExt, FiniteSetsExt

CONSTANTS
  None,
  Listed,      \* the slots, in the order sessions() lists them
  AppOf,       \* the app of each slot
  Pids,        \* process ids Windows gives to apps, again and again
  UserLevels,  \* the volumes users set
  DuckLevels,  \* the levels clients set, in percent
  MaxEvents,   \* bound: what users, apps and Windows do
  MaxOps       \* bound: ducks, restores and runtime starts

ASSUME DuckerConstants ==
  /\ UserLevels \subseteq 0..100 /\ DuckLevels \subseteq 0..100
  /\ AppOf \in [Range(Listed) -> Range(AppOf)]
  /\ MaxEvents \in Nat /\ MaxOps \in Nat

Slots == Range(Listed)
Apps  == Range(AppOf)

VARIABLES
  mixer,    \* Windows: volumes, live sessions, pids, broken sessions
  file,     \* duck_state.json: its records; <<>> when it is absent
  ducker,   \* the fields of Ducker, and `op`: the call it is in
  owed,     \* history: the volume a slot had before it was lowered
  count     \* events and operations so far

duckVars == <<mixer, file, ducker, owed, count>>

-----------------------------------------------------------------------------
(* Windows.                                                                *)

pid(s) == mixer.pid[AppOf[s]]
Live(s) == s \in mixer.live /\ pid(s) # None
Works(s) == Live(s) /\ s \notin mixer.broken
LiveList == SelectSeq(Listed, Live)

(* The session object taken when it was listed is of one run of its app.   *)
ObjectOf(s) == [slot |-> s, pid |-> pid(s)]
Answers(o) == Works(o.slot) /\ pid(o.slot) = o.pid

(* What set_volume does to the volumes, for a function of slots to levels. *)
Set(levels) == [s \in Slots |-> IF s \in DOMAIN levels THEN levels[s] ELSE mixer.vol[s]]

(* A slot put back at the volume it had is owed nothing.                   *)
Settled(levels) == [s \in Slots |-> IF s \in DOMAIN levels /\ levels[s] = owed[s]
                                    THEN None ELSE owed[s]]

-----------------------------------------------------------------------------
(* Records.                                                                *)

Record(o, original, level) ==
  [slot |-> o.slot, pid |-> o.pid, name |-> AppOf[o.slot],
   original |-> original, ducked |-> level, old |-> FALSE]

(* A level that cannot be read counts as a match.                          *)
at_duck_level(r, s) == s \in mixer.broken \/ mixer.vol[s] = r.ducked

(* Fault: a pid that another app has now is taken for the old app.         *)
by_pid_reused(r, s) == r.pid = pid(s) /\ at_duck_level(r, s)

by_id(r, s)   == r.slot = s /\ r.pid = pid(s)
by_pid(r, s)  == r.pid = pid(s) /\ r.name = AppOf[s] /\ at_duck_level(r, s)
by_name(r, s) == r.name = AppOf[s] /\ at_duck_level(r, s)

(* One pass over the records: each that has no session yet takes the first *)
(* free one that matches it (pairs of a record's place and a session).     *)
take(records, pick, matching) ==
  LET choose(p, i) ==
        LET free == SelectSeq(LiveList, LAMBDA s : s \notin Range(p) /\ <<i, s>> \in matching)
        IN IF p[i] # None \/ free = <<>> THEN p ELSE [p EXCEPT ![i] = Head(free)]
  IN FoldLeft(choose, pick, [i \in 1..Len(records) |-> i])

picks(records) ==
  LET none  == [i \in 1..Len(records) |-> None]
      pairs == (1..Len(records)) \X Range(LiveList)
      ids   == take(records, none, {m \in pairs : by_id(records[m[1]], m[2])})
      pids  == take(records, ids, {m \in pairs : by_pid(records[m[1]], m[2])})
  IN take(records, pids, {m \in pairs : by_name(records[m[1]], m[2])})

(* What a sweep does: the volumes it sets, and the records it keeps (first *)
(* the failed ones, then the ones whose app is not there).                 *)
restore_records(records) ==
  LET pick == picks(records)
      all == 1..Len(records)
      found == {i \in all : pick[i] # None /\ at_duck_level(records[i], pick[i])}
      done == {i \in found : pick[i] \notin mixer.broken}
      keep(S) == [k \in 1..Cardinality(S) |-> records[SetToSortSeq(S, <)[k]]]
      fresh(S) == {i \in S : ~records[i].old}
  IN [set  |-> [s \in {pick[i] : i \in done} |->
                  records[CHOOSE i \in done : pick[i] = s].original],
      left |-> keep(fresh(found \ done)) \o keep(fresh({i \in all : pick[i] = None}))]

-----------------------------------------------------------------------------
(* The calls.                                                              *)

Idle == ducker.op = None
Off  == [up |-> FALSE, ducked |-> FALSE, saved |-> <<>>, pending |-> <<>>, op |-> None]
Spends == count.ops < MaxOps /\ count' = [count EXCEPT !.ops = @ + 1]

(* duck: pending records first, then the list of sessions to lower.        *)
Duck(level) ==
  /\ ducker.up /\ Idle /\ ~ducker.ducked /\ Spends
  /\ IF mixer.lists
     THEN LET sweep == restore_records(ducker.pending)
          IN /\ ducker' = [ducker EXCEPT !.pending = sweep.left,
                  !.op = [at |-> "Lower", level |-> level, listed |-> TRUE, saved |-> <<>>,
                          taken |-> {}, todo |-> [k \in 1..Len(LiveList) |->
                                                    ObjectOf(LiveList[k])]]]
             /\ mixer' = [mixer EXCEPT !.vol = Set(sweep.set)]
             /\ owed' = Settled(sweep.set)
     ELSE /\ ducker' = [ducker EXCEPT
               !.op = [at |-> "Lower", level |-> level, listed |-> FALSE, saved |-> <<>>,
                       taken |-> {}, todo |-> <<>>]]
          /\ UNCHANGED <<mixer, owed>>
  /\ UNCHANGED file

Lowers == ducker.op # None /\ ducker.op.at = "Lower"

(* The pending record that a session takes over: the first of its app.     *)
same_app(r, o) == r.pid = o.pid /\ r.name = AppOf[o.slot]
carried(o) == LET same == {i \in 1..Len(ducker.pending) :
                             i \notin ducker.op.taken /\ same_app(ducker.pending[i], o)}
              IN IF same = {} THEN None ELSE Min(same)

Pending(without) ==
  LET kept == {i \in 1..Len(ducker.pending) : i \notin without}
  IN [k \in 1..Cardinality(kept) |-> ducker.pending[SetToSortSeq(kept, <)[k]]]

(* Fault: the record is written only once all sessions are lowered.        *)
LowerRecord_late ==
  /\ Lowers /\ ducker.op.todo # <<>>
  /\ LET o == Head(ducker.op.todo)
         lower == Answers(o) /\ mixer.vol[o.slot] > ducker.op.level
         c == carried(o)
         rec == Record(o, IF c = None THEN mixer.vol[o.slot]
                          ELSE ducker.pending[c].original, ducker.op.level)
     IN ducker' = IF lower
                  THEN [ducker EXCEPT !.op = [at |-> "Set", rec |-> rec, carried |-> c, then |-> @]]
                  ELSE [ducker EXCEPT !.op.todo = Tail(@)]
  /\ UNCHANGED <<file, mixer, owed, count>>

(* A session above the level is on disk before its volume moves.           *)
LowerRecord ==
  /\ Lowers /\ ducker.op.todo # <<>>
  /\ LET o == Head(ducker.op.todo)
         lower == Answers(o) /\ mixer.vol[o.slot] > ducker.op.level
         c == carried(o)
         rec == Record(o, IF c = None THEN mixer.vol[o.slot]
                          ELSE ducker.pending[c].original, ducker.op.level)
     IN IF lower
        THEN /\ file' = Pending(ducker.op.taken \cup {c}) \o ducker.op.saved \o <<rec>>
             /\ ducker' = [ducker EXCEPT !.op = [at |-> "Set", rec |-> rec, carried |-> c,
                                                 then |-> @]]
        ELSE /\ ducker' = [ducker EXCEPT !.op.todo = Tail(@)]
             /\ UNCHANGED file
  /\ UNCHANGED <<mixer, owed, count>>

LowerSet ==
  /\ ducker.op # None /\ ducker.op.at = "Set"
  /\ LET rec == ducker.op.rec
         next == [ducker.op.then EXCEPT !.todo = Tail(@)]
         ok == Answers([slot |-> rec.slot, pid |-> rec.pid])
     IN IF ok
        THEN /\ mixer' = [mixer EXCEPT !.vol[rec.slot] = rec.ducked]
             /\ owed' = [owed EXCEPT ![rec.slot] = IF @ = None THEN mixer.vol[rec.slot] ELSE @]
             /\ ducker' = [ducker EXCEPT !.op =
                  [next EXCEPT !.saved = Append(@, rec),
                               !.taken = IF ducker.op.carried = None THEN @
                                         ELSE @ \cup {ducker.op.carried}]]
        ELSE /\ ducker' = [ducker EXCEPT !.op = next]
             /\ UNCHANGED <<mixer, owed>>
  /\ UNCHANGED <<file, count>>

(* All sessions seen: what is pending or lowered is on disk.               *)
DuckDone ==
  /\ Lowers /\ ducker.op.todo = <<>>
  /\ LET pending == Pending(ducker.op.taken)
     IN /\ ducker' = [ducker EXCEPT !.ducked = ducker.op.listed \/ ducker.op.saved # <<>>,
                                    !.pending = pending, !.saved = ducker.op.saved,
                                    !.op = None]
        /\ file' = pending \o ducker.op.saved
  /\ UNCHANGED <<mixer, owed, count>>

(* The session objects that answer are set to their originals.             *)
Answering == {i \in 1..Len(ducker.saved) :
                Answers([slot |-> ducker.saved[i].slot, pid |-> ducker.saved[i].pid])}
Originals == [s \in {ducker.saved[i].slot : i \in Answering} |->
                ducker.saved[CHOOSE i \in Answering : ducker.saved[i].slot = s].original]

(* restore: each session object, then a fresh lookup for what failed.      *)
Restore ==
  /\ ducker.up /\ Idle /\ ducker.ducked /\ Spends
  /\ mixer' = [mixer EXCEPT !.vol = Set(Originals)]
  /\ owed' = Settled(Originals)
  /\ ducker' = [ducker EXCEPT !.saved = <<>>, !.op =
       [at |-> "Sweep", records |-> ducker.pending \o
          SelectSeq(ducker.saved, LAMBDA r : r.slot \notin DOMAIN Originals)]]
  /\ UNCHANGED file

(* A new runtime sweeps what the last one left (recover).                  *)
Start == /\ ~ducker.up /\ Spends
         /\ ducker' = [Off EXCEPT !.up = TRUE, !.op = [at |-> "Sweep", records |-> file]]
         /\ UNCHANGED <<mixer, file, owed>>

Sweep ==
  /\ ducker.op # None /\ ducker.op.at = "Sweep"
  /\ LET records == ducker.op.records
         sweep == IF mixer.lists THEN restore_records(records)
                  ELSE [set |-> <<>>, left |-> records]
     IN /\ mixer' = [mixer EXCEPT !.vol = Set(sweep.set)]
        /\ owed' = Settled(sweep.set)
        /\ ducker' = [ducker EXCEPT !.op = [at |-> "Write", left |-> sweep.left]]
  /\ UNCHANGED <<file, count>>

Write == /\ ducker.op # None /\ ducker.op.at = "Write"
         /\ file' = ducker.op.left
         /\ ducker' = [ducker EXCEPT !.ducked = FALSE, !.pending = ducker.op.left, !.op = None]
         /\ UNCHANGED <<mixer, owed, count>>

Crash == /\ ducker.up
         /\ ducker' = Off
         /\ UNCHANGED <<mixer, file, owed, count>>

-----------------------------------------------------------------------------
(* Users, apps, devices and time.                                          *)

Happens(m) == /\ count.events < MaxEvents
              /\ count' = [count EXCEPT !.events = @ + 1]
              /\ mixer' = m
              /\ UNCHANGED <<file, ducker>>

(* Not in the moment between a session's volume being read and being set.  *)
UserSets(s, v) == /\ ~(ducker.op # None /\ ducker.op.at = "Set" /\ ducker.op.rec.slot = s)
                  /\ Happens([mixer EXCEPT !.vol[s] = v])
                  /\ owed' = [owed EXCEPT ![s] = None]

AppStarts(a, p) == /\ mixer.pid[a] = None /\ p \notin Range(mixer.pid)
                   /\ Happens([mixer EXCEPT !.pid[a] = p]) /\ UNCHANGED owed
AppQuits(a) == /\ mixer.pid[a] # None
               /\ Happens([mixer EXCEPT !.pid[a] = None]) /\ UNCHANGED owed

DeviceGoes(s)  == Happens([mixer EXCEPT !.live = @ \ {s}]) /\ UNCHANGED owed
DeviceComes(s) == Happens([mixer EXCEPT !.live = @ \cup {s}]) /\ UNCHANGED owed

(* What fails, fails for a whole call.                                     *)
Breaks(s) == Idle /\ Happens([mixer EXCEPT !.broken = @ \cup {s}]) /\ UNCHANGED owed
Mends(s)  == Idle /\ Happens([mixer EXCEPT !.broken = @ \ {s}]) /\ UNCHANGED owed
Listing   == Idle /\ Happens([mixer EXCEPT !.lists = ~@]) /\ UNCHANGED owed

(* RECORD_MAX_AGE passes: the records there are become old, and what they  *)
(* are about is no longer owed.                                            *)
MonthPasses ==
  /\ Idle /\ ~ducker.ducked /\ file # <<>>
  /\ count.events < MaxEvents /\ count' = [count EXCEPT !.events = @ + 1]
  /\ file' = [k \in 1..Len(file) |-> [file[k] EXCEPT !.old = TRUE]]
  /\ ducker' = [ducker EXCEPT !.pending =
                  [k \in 1..Len(@) |-> [@[k] EXCEPT !.old = TRUE]]]
  /\ owed' = [s \in Slots |-> None]
  /\ UNCHANGED mixer

DuckerInit ==
  /\ mixer \in [vol : [Slots -> UserLevels], live : {Slots}, broken : {{}}, lists : {TRUE},
                 pid : {f \in [Apps -> Pids] : \A x, y \in Apps : f[x] = f[y] => x = y}]
  /\ file = <<>> /\ ducker = Off /\ owed = [s \in Slots |-> None]
  /\ count = [events |-> 0, ops |-> 0]

Ducking == (\E level \in DuckLevels : Duck(level)) \/ LowerRecord \/ LowerSet \/ DuckDone
Restoring == Restore \/ Start \/ Sweep \/ Write \/ Crash
World ==
  \/ \E s \in Slots, v \in UserLevels : UserSets(s, v)
  \/ \E a \in Apps : AppQuits(a) \/ \E p \in Pids : AppStarts(a, p)
  \/ \E s \in Slots : DeviceGoes(s) \/ DeviceComes(s) \/ Breaks(s) \/ Mends(s)
  \/ Listing \/ MonthPasses

DuckerNext == Ducking \/ Restoring \/ World
DuckerSpec == DuckerInit /\ [][DuckerNext]_duckVars

-----------------------------------------------------------------------------
(* "Never leave other apps ducked": at every step, so whenever the runtime *)
(* may die, a slot that Sonara lowered is in the file with the volume it   *)
(* had and the level it was lowered to, until it is put back, its user     *)
(* changes it or the record is a month old.                                *)
OnRecord == \A s \in Slots : owed[s] # None =>
  \E i \in 1..Len(file) : /\ file[i].name = AppOf[s] /\ file[i].original = owed[s]
                          /\ file[i].ducked = mixer.vol[s]

(* A volume that Sonara raises is raised to what it was before.            *)
RightLevel ==
  [][ \A s \in Slots : ducker' # ducker /\ owed[s] # None /\ mixer'.vol[s] > mixer.vol[s]
        => mixer'.vol[s] = owed[s] ]_duckVars
=============================================================================
