------------------------------ MODULE Engines -------------------------------
(***************************************************************************)
(* The external engine profiles of a runtime (sonarad engines/ and         *)
(* protocol/profiles.rs): engines.json, the entries built from it, the     *)
(* registry the reader takes its engine from, and the keys, each bound to  *)
(* the address it was entered for.  The handlers run on any thread; the    *)
(* lock of the entries is held while the file is read or saved, not while  *)
(* the registry follows.  Beside them the user edits the file, and the CLI *)
(* (engines_file.rs) writes a program's profile into it, asks for a reload *)
(* and puts the file back when the profile cannot be used.                 *)
(*                                                                         *)
(* An address stands for a profile's other fields too, and for the program *)
(* of a `command` profile; "other" is a kind this build lacks or a profile *)
(* that fails validation.                                                  *)
(***************************************************************************)
EXTENDS Naturals, FiniteSets

CONSTANTS Profile,         \* the ids of profiles
          Address,         \* their addresses
          ProviderAddress, \* the provider's own, to which an env key may always go
          MAX_PROFILES,
          Thread,          \* the threads of requests
          MaxRequests, MaxEdits, MaxStarts, MaxSaveFails  \* bounds

ASSUME EnginesAssumption ==
  /\ ProviderAddress \in Address /\ "none" \notin Address /\ MAX_PROFILES \in Nat
  /\ Profile \cap {"nothing", "unnamed"} = {}

VARIABLES
  disk,      \* engines.json, and its .bad copy
  table,     \* Engines::entries: id -> its profile and engine (0: not usable)
  seen,      \* the text last read or saved
  registry,  \* id -> engine registered
  keys,      \* the key store: id -> address the key is bound to
  reading,   \* the reader's engine: id and instance
  op,        \* each thread's request
  cli,       \* the CLI's write of a profile
  user,      \* what the user wrote in the file, and the addresses confirmed
  count

enginesVars == <<disk, table, seen, registry, keys, reading, op, cli, user, count>>

NoEngines == [x \in {} |-> 0]
Drop(f, k) == [x \in DOMAIN f \ {k} |-> f[x]]
Put(f, k, v) == [x \in DOMAIN f \cup {k} |-> IF x = k THEN v ELSE f[x]]
Builtin == "kokoro"
Unbound == "unbound"

Web(a, env, confirmed) == [kind |-> "http", address |-> a, env |-> env, confirmed |-> confirmed]
Program(a) == [kind |-> "command", address |-> a, env |-> FALSE, confirmed |-> "none"]
Other == [kind |-> "other", address |-> ProviderAddress, env |-> FALSE, confirmed |-> "none"]
is_command(raw) == raw.kind = "command"
Ready(raw) == raw.kind # "other"

(* engines.json: its entries, an id once each, and at most one more behind *)
(* them, of an id that comes again, of none, or beyond MAX_PROFILES.       *)
NoEntry == [id |-> "nothing", raw |-> Other]
FileText(kind, format, list, last) == [kind |-> kind, format |-> format, list |-> list, last |-> last]
Text(kind, format, list) == FileText(kind, format, list, NoEntry)
Missing == Text("none", 2, NoEngines)
Broken == {Text("garbage_1", 2, NoEngines), Text("garbage_2", 2, NoEngines)}
FORMAT == 2

(* Of all entries, entries_from reads the first MAX_PROFILES, each id once.*)
AllEntries(text) ==
  IF text.last.id \in Profile \ DOMAIN text.list THEN Put(text.list, text.last.id, text.last.raw) ELSE text.list
Read(text) == IF Cardinality(DOMAIN text.list) < MAX_PROFILES THEN AllEntries(text) ELSE text.list

-----------------------------------------------------------------------------
(* A file of format 1 binds what it left unbound to the addresses it has:  *)
(* env entries and keys.                                                   *)
Migrated(list) ==
  [i \in DOMAIN list |-> IF list[i].env /\ list[i].confirmed = "none"
                         THEN [list[i] EXCEPT !.confirmed = list[i].address] ELSE list[i]]
MigratedKeys(list) ==
  [i \in DOMAIN keys |-> IF keys[i] = Unbound /\ i \in DOMAIN list THEN list[i].address ELSE keys[i]]

(* entries_from: an unchanged profile keeps its engine.                    *)
entries_from(list, old) ==
  [i \in DOMAIN list |->
     IF i \in DOMAIN old /\ old[i].raw = list[i] THEN old[i]
     ELSE [raw |-> list[i], inst |-> IF Ready(list[i]) THEN count.built + 1 ELSE 0]]
Usable(t) == {i \in DOMAIN t : t[i].inst # 0}
Instances(t) == [i \in Usable(t) |-> t[i].inst]
Built == [count EXCEPT !.built = @ + 1]

(* The engine in force: the one asked for, or the built-in one.            *)
Current(i, r) ==
  IF i \in DOMAIN r THEN [engine |-> i, inst |-> r[i]] ELSE [engine |-> Builtin, inst |-> 0]

(* Each entry of the file drops a key of another address, read or not.     *)
drop_key_bound_elsewhere(text) ==
  [i \in {j \in DOMAIN keys : /\ j \in DOMAIN text.list => keys[j] = text.list[j].address
                              /\ j = text.last.id => keys[j] = text.last.raw.address} |-> keys[i]]

Raws(t) == [i \in DOMAIN t |-> t[i].raw]
Saved(t) == Text("json", FORMAT, Raws(t))

-----------------------------------------------------------------------------
(* What the user wrote is to be kept where the runtime reads it, unless    *)
(* somebody was between reading the file and writing it.  An edit between  *)
(* a save and its reading back is `raced`: the runtime takes it for its    *)
(* own.                                                                    *)
Quiet == [at |-> "idle", what |-> "none", id |-> "none", raw |-> Other, secret |-> FALSE,
          replace |-> FALSE, current |-> "none", before |-> NoEngines, now |-> NoEngines,
          address |-> Unbound, had |-> FALSE, inst |-> 0]
NoCli == [at |-> "idle", id |-> "none", before |-> Missing, thread |-> "none"]
Saving == \E t \in Thread : op[t].at = "saving" \/ (op[t].at = "follow" /\ op[t].what # "reload")
Writing == Saving \/ cli.at # "idle"

(* What an edit makes the runtime read, and what it leaves of the rest.    *)
Changes(text) ==
  {i \in DOMAIN Read(text) : i \in DOMAIN Read(disk.text) => Read(text)[i] # Read(disk.text)[i]}
Wish(text) ==
  LET left == {i \in DOMAIN user.wrote : i \in DOMAIN Read(text) /\ Read(text)[i] = user.wrote[i]}
  IN  [i \in left \cup (IF Writing THEN {} ELSE Changes(text)) |-> Read(text)[i]]

(* A file that comes back to the text last read is not read again: of what *)
(* the user wrote, what the entries have is kept.  They may have more than *)
(* the file, after a save that failed.                                     *)
InEntries(id, raw) == id \in DOMAIN table /\ table[id].raw = raw
Noticed(wrote, text) ==
  [i \in {j \in DOMAIN wrote : text = seen => InEntries(j, wrote[j])} |-> wrote[i]]

Confirms(text) ==
  LET list == Read(text)
  IN  {<<i, IF text.format = 1 /\ list[i].confirmed = "none" THEN list[i].address ELSE list[i].confirmed>> :
         i \in {j \in DOMAIN list : list[j].env}}

One == CHOOSE p \in Profile : TRUE
OneEntry(a) == [i \in {One} |-> Web(a, TRUE, "none")]
Again(a) == [id |-> One, raw |-> Program(a)]
OneMore(ids, id) ==
  FileText("json", 2, [i \in ids |-> Web(ProviderAddress, FALSE, "none")], [id |-> id, raw |-> Program(ProviderAddress)])
TooMany ==
  {OneMore(ids, id) : ids \in {s \in SUBSET Profile : IsFiniteSet(s) /\ Cardinality(s) = MAX_PROFILES}, id \in Profile}
Left == {Missing, Text("json", 1, NoEngines), Text("garbage_1", 2, NoEngines)} \cup
        {FileText("json", format, OneEntry(a), last) : format \in {1, 2}, a \in Address, last \in {NoEntry, Again(ProviderAddress)}} \cup
        TooMany

EnginesInit ==
  /\ \E f \in Left :
       /\ disk = [text |-> f, bad |-> Missing]
       /\ user = [wrote |-> Read(f), text |-> IF f \in Broken THEN f ELSE Missing, confirmed |-> Confirms(f), raced |-> FALSE]
  /\ keys \in {NoEngines, [i \in {One} |-> Unbound]}
  /\ table = NoEngines /\ seen = Missing /\ registry = NoEngines
  /\ reading = [engine |-> Builtin, inst |-> 0]
  /\ op = [t \in Thread |-> Quiet] /\ cli = NoCli
  /\ count = [up |-> FALSE, built |-> 0, requests |-> 0, edits |-> 0, starts |-> 0, fails |-> 0]

(* Engines::load and attach, before the reader takes the saved engine.     *)
Starts ==
  LET broken == disk.text \in Broken
      legacy == disk.text.kind = "json" /\ disk.text.format < FORMAT
      list == IF legacy THEN Migrated(Read(disk.text)) ELSE Read(disk.text)
  IN  /\ ~count.up /\ count.starts < MaxStarts
      /\ table' = entries_from(list, NoEngines)
      /\ keys' = IF legacy THEN MigratedKeys(AllEntries(disk.text)) ELSE keys
      /\ disk' = [text |-> IF legacy THEN Text("json", FORMAT, list) ELSE disk.text,
                  bad |-> IF broken THEN disk.text ELSE disk.bad]
      /\ user' = [user EXCEPT !.wrote = IF user.raced \/ (legacy /\ Writing) THEN NoEngines
                                         ELSE IF legacy THEN Migrated(@) ELSE @,
                               !.text = IF user.raced THEN Missing ELSE @, !.raced = FALSE]
      /\ seen' = disk'.text /\ registry' = Instances(table')
      /\ reading' = Current(reading.engine, registry')
      /\ count' = [Built EXCEPT !.up = TRUE, !.starts = @ + 1, !.fails = 0]
      /\ UNCHANGED <<op, cli>>

(* The runtime ends or dies, wherever its requests are.                    *)
Ends ==
  /\ count.up /\ count' = [count EXCEPT !.up = FALSE]
  /\ table' = NoEngines /\ registry' = NoEngines /\ seen' = Missing
  /\ op' = [t \in Thread |-> Quiet]
  /\ UNCHANGED <<disk, keys, reading, cli, user>>

-----------------------------------------------------------------------------
(* Requests.                                                               *)
Locked == \E t \in Thread : op[t].at = "saved"
Asks(t, request) ==
  /\ count.up /\ op[t].at = "idle" /\ count.requests < MaxRequests
  /\ op' = [op EXCEPT ![t] = request]
  /\ count' = [count EXCEPT !.requests = @ + 1]
Steps(t, at) == op' = [op EXCEPT ![t].at = at]
Answers(t) == op' = [op EXCEPT ![t] = Quiet]

(* engine_add.  A client's profile never says which address is confirmed,  *)
(* and is never a program, nor changes one.                                *)
AskAdd(t, id, raw, secret, replace) ==
  /\ ~(id \in DOMAIN table /\ is_command(table[id].raw)) /\ (secret => ~raw.env)
  /\ Asks(t, [Quiet EXCEPT !.at = "take_in", !.what = "add", !.id = id, !.raw = raw,
                           !.secret = secret, !.replace = replace, !.current = reading.engine])
  /\ UNCHANGED <<disk, table, seen, registry, keys, reading, cli, user>>

(* engine_remove: a current engine is switched away first.                 *)
AskRemove(t, id) ==
  /\ id \in DOMAIN table
  /\ Asks(t, [Quiet EXCEPT !.at = "take_in", !.what = "remove", !.id = id])
  /\ reading' = IF reading.engine = id THEN [engine |-> Builtin, inst |-> 0] ELSE reading
  /\ UNCHANGED <<disk, table, seen, registry, keys, cli, user>>

AskReload(t) ==
  /\ Asks(t, [Quiet EXCEPT !.at = "read", !.what = "reload", !.current = reading.engine])
  /\ UNCHANGED <<disk, table, seen, registry, keys, reading, user>>

(* take_in_file_changes.  The fault: the file is not looked at.            *)
Unseen_never == FALSE
Unseen == seen # disk.text
take_in_file_changes(t) ==
  /\ op[t].at = "take_in" /\ Steps(t, IF Unseen THEN "read" ELSE "saving")
  /\ UNCHANGED <<disk, table, seen, registry, keys, reading, cli, user, count>>

(* reload, with the lock: a file that is not JSON changes nothing.         *)
reload(t) ==
  /\ op[t].at = "read" /\ ~Locked
  /\ IF disk.text \in Broken
     THEN Answers(t) /\ UNCHANGED <<table, seen, keys, count>>
     ELSE /\ table' = entries_from(Read(disk.text), table)
          /\ seen' = disk.text /\ keys' = drop_key_bound_elsewhere(disk.text)
          /\ op' = [op EXCEPT ![t].at = "follow", ![t].before = Instances(table),
                              ![t].now = Instances(table')]
          /\ count' = Built
  /\ UNCHANGED <<disk, registry, reading, cli, user>>

(* Once the lock is free the registry follows: replace and register find   *)
(* the id there or not, and do nothing otherwise.                          *)
Follows(r, before, now) ==
  LET gone == DOMAIN before \ DOMAIN now
      new == DOMAIN now \ (DOMAIN before \cup DOMAIN r)
      changed == {i \in DOMAIN now \cap DOMAIN before \cap DOMAIN r : now[i] # before[i]}
  IN  [i \in (DOMAIN r \ gone) \cup new |-> IF i \in new \cup changed THEN now[i] ELSE r[i]]

(* engine_reload switches a current engine that changed to the new one, or *)
(* to the built-in one.  A request that saves goes on to it.               *)
Changed(t) == {i \in DOMAIN op[t].before : i \in DOMAIN op[t].now => op[t].now[i] # op[t].before[i]}
RegistryFollows(t) ==
  /\ op[t].at = "follow"
  /\ registry' = Follows(registry, op[t].before, op[t].now)
  /\ IF op[t].what = "reload"
     THEN /\ Answers(t)
          /\ reading' = IF op[t].current \in Changed(t) THEN Current(op[t].current, registry') ELSE reading
     ELSE Steps(t, "saving") /\ UNCHANGED reading
  /\ UNCHANGED <<disk, table, seen, keys, cli, user, count>>

-----------------------------------------------------------------------------
(* save: the file is written, then read back, both with the lock.  What a  *)
(* request saves of its own profile is the user's wish from then on; only  *)
(* engine_remove may end what was written about a program.  What was not   *)
(* read is gone.  An engine that could not be saved stays in the entries,  *)
(* and is saved with the next.                                             *)
Superseded(t) ==
  op[t].what = "remove" \/ ~(op[t].id \in DOMAIN user.wrote /\ is_command(user.wrote[op[t].id]))
save(t, next, had) ==
  /\ table' = next
  /\ user' = IF Superseded(t) THEN [user EXCEPT !.wrote = Drop(@, op[t].id)] ELSE user
  /\ \/ /\ disk' = [disk EXCEPT !.text = Saved(next)] /\ count' = Built
        /\ op' = [op EXCEPT ![t].at = "saved", ![t].had = had, ![t].inst = count.built + 1]
     \/ /\ count.fails < MaxSaveFails /\ count' = [Built EXCEPT !.fails = @ + 1]
        /\ op' = [op EXCEPT ![t] = IF @.what = "add" THEN Quiet ELSE [@ EXCEPT !.at = "register", !.had = had]]
        /\ UNCHANGED disk
  /\ UNCHANGED <<seen, registry, reading, cli>>

ReadBack(t) ==
  /\ op[t].at = "saved" /\ Steps(t, "register") /\ seen' = disk.text
  /\ UNCHANGED <<disk, table, registry, keys, reading, cli, user, count>>

(* An env key's confirmed address outlives a replacement that keeps both.  *)
Confirmed(old, raw) == [raw EXCEPT !.confirmed =
                     IF raw.env /\ old.env /\ old.confirmed = raw.address THEN raw.address ELSE "none"]

(* The checks of `add` with the lock.                                      *)
Addable(id, replace) ==
  IF id \in DOMAIN table THEN ~is_command(table[id].raw) /\ replace
  ELSE Cardinality(DOMAIN table) < MAX_PROFILES

(* Whether the registry holds the id.                                      *)
was_registered(id) == id \in Usable(table)

KeyOf(t) ==
  IF op[t].secret THEN Put(keys, op[t].id, op[t].raw.address)
  ELSE IF op[t].id \in DOMAIN keys /\ keys[op[t].id] # op[t].raw.address THEN Drop(keys, op[t].id) ELSE keys

add(t) ==
  /\ op[t].at = "saving" /\ op[t].what = "add" /\ ~Locked
  /\ LET old == IF op[t].id \in DOMAIN table THEN table[op[t].id].raw ELSE Other
         entry == [raw |-> Confirmed(old, op[t].raw), inst |-> count.built + 1]
     IN  IF Addable(op[t].id, op[t].replace)
         THEN keys' = KeyOf(t) /\ save(t, Put(table, op[t].id, entry), was_registered(op[t].id))
         ELSE Answers(t) /\ UNCHANGED <<disk, table, seen, registry, keys, reading, cli, user, count>>

remove(t) ==
  /\ op[t].at = "saving" /\ op[t].what = "remove" /\ ~Locked
  /\ IF op[t].id \in DOMAIN table
     THEN save(t, Drop(table, op[t].id), was_registered(op[t].id)) /\ UNCHANGED keys
     ELSE Answers(t) /\ UNCHANGED <<disk, table, seen, registry, keys, reading, cli, user, count>>

(* Once the lock is free: replace, register or unregister; an engine that  *)
(* was the reader's when the request came is taken up, a removed one's key *)
(* forgotten.  A profile gone by now cannot be set.                        *)
Registered(t) ==
  LET id == op[t].id
  IN  CASE op[t].what = "remove" -> IF op[t].had THEN Drop(registry, id) ELSE registry
        [] op[t].had = (id \in DOMAIN registry) /\ op[t].what = "add" -> Put(registry, id, op[t].inst)
        [] OTHER -> registry
Register(t) ==
  /\ op[t].at = "register" /\ Answers(t)
  /\ registry' = Registered(t)
  /\ keys' = IF op[t].what = "remove" THEN Drop(keys, op[t].id) ELSE keys
  /\ reading' = IF op[t].what = "add" /\ op[t].id = op[t].current /\ op[t].id \in DOMAIN registry'
                THEN [engine |-> op[t].id, inst |-> registry'[op[t].id]] ELSE reading
  /\ UNCHANGED <<disk, table, seen, cli, user, count>>

(* engine_key: the address is read with the lock, the key stored without.  *)
AskKey(t, id) ==
  /\ ~Locked /\ id \in DOMAIN table /\ ~table[id].raw.env
  /\ Asks(t, [Quiet EXCEPT !.at = "key", !.what = "key", !.id = id, !.address = table[id].raw.address])
  /\ UNCHANGED <<disk, table, seen, registry, keys, reading, cli, user>>
StoreKey(t, given) ==
  /\ op[t].at = "key" /\ Answers(t)
  /\ keys' = IF given THEN Put(keys, op[t].id, op[t].address) ELSE Drop(keys, op[t].id)
  /\ UNCHANGED <<disk, table, seen, registry, reading, cli, user, count>>

(* set engine.                                                             *)
UseEngine(id) ==
  /\ count.up /\ id \in DOMAIN registry /\ id # reading.engine
  /\ reading' = [engine |-> id, inst |-> registry[id]]
  /\ UNCHANGED <<disk, table, seen, registry, keys, op, cli, user, count>>

-----------------------------------------------------------------------------
(* The user's edits: an entry changed, added or taken out, one behind the  *)
(* others that is not read (as long as nothing makes room for it), a text  *)
(* that is no JSON and a file that is put right again.                     *)
Writes(text, wrote, confirmed, unread) ==
  /\ disk' = [disk EXCEPT !.text = text]
  /\ user' = [wrote |-> Noticed(wrote, text), text |-> unread, confirmed |-> confirmed,
              raced |-> user.raced \/ Locked]
Edits(text, wrote, confirmed, unread) ==
  /\ count.edits < MaxEdits /\ count' = [count EXCEPT !.edits = @ + 1]
  /\ Writes(text, wrote, confirmed, unread)
  /\ UNCHANGED <<table, seen, registry, keys, reading, op, cli>>

EditTo(text) ==
  disk.text \notin Broken /\ Edits(text, Wish(text), user.confirmed \cup {c \in Confirms(text) : c[1] \in Changes(text)}, user.text)
EditEntry(id, raw) ==
  /\ id \in DOMAIN disk.text.list \/ Cardinality(DOMAIN disk.text.list) < MAX_PROFILES
  /\ EditTo(FileText("json", disk.text.format, Put(disk.text.list, id, raw), disk.text.last))
EditOut(id) ==
  /\ id \in DOMAIN disk.text.list
  /\ EditTo(FileText("json", disk.text.format, Drop(disk.text.list, id), disk.text.last))
EditLast(last) ==
  /\ last # disk.text.last
  /\ last.id \in Profile \ DOMAIN disk.text.list => Cardinality(DOMAIN disk.text.list) >= MAX_PROFILES
  /\ EditTo(FileText("json", disk.text.format, disk.text.list, last))
EditBreaks(text) ==
  /\ text \in Broken \ {disk.text, disk.bad} 
  /\ Edits(text, NoEngines, user.confirmed, IF Writing THEN Missing ELSE text)
EditMends ==
  /\ disk.text \in Broken 
  /\ Edits(Text("json", FORMAT, NoEngines), user.wrote, user.confirmed, Missing)

(* `sonara engines add --kind command`: the file as it is, with the entry  *)
(* in the place of the first of that id, or behind all; the format stays.  *)
(* An id that exists without --replace, and a full file, are refused.  The *)
(* fault: an older CLI's format.                                           *)
FormatOf_1(text) == 1
FormatOf(text) == IF text = Missing THEN 2 ELSE text.format
CliText(text, id, raw) ==
  IF id = text.last.id /\ id \notin DOMAIN text.list
  THEN FileText("json", FormatOf(text), text.list, [id |-> id, raw |-> raw])
  ELSE FileText("json", FormatOf(text), Put(text.list, id, raw), text.last)
Room(text, id) ==
  \/ id \in DOMAIN text.list \cup {text.last.id}
  \/ Cardinality(DOMAIN text.list) + (IF text.last = NoEntry THEN 0 ELSE 1) < MAX_PROFILES
CliReads(id) ==
  /\ cli.at = "idle" /\ count.edits < MaxEdits /\ disk.text \notin Broken
  /\ cli' = [NoCli EXCEPT !.at = "write", !.id = id, !.before = disk.text]
  /\ count' = [count EXCEPT !.edits = @ + 1]
  /\ UNCHANGED <<disk, table, seen, registry, keys, reading, op, user>>
CliRefuses ==
  /\ cli.at = "write" /\ cli' = NoCli
  /\ UNCHANGED <<disk, table, seen, registry, keys, reading, op, user, count>>
CliWrites(raw) ==
  /\ cli.at = "write" /\ Room(cli.before, cli.id) /\ cli' = [cli EXCEPT !.at = "reload"]
  /\ Writes(CliText(cli.before, cli.id, raw), Drop(user.wrote, cli.id), user.confirmed, Missing)
  /\ UNCHANGED <<table, seen, registry, keys, reading, op, count>>
CliReloads(t) ==
  /\ cli.at = "reload" /\ AskReload(t) /\ cli' = [cli EXCEPT !.at = "wait", !.thread = t]

(* It is done when the profile is used or no runtime answers; otherwise    *)
(* the file is put back as it was.                                         *)
CliDone ==
  LET used == cli.id \in Usable(table) \/ ~count.up
      kept == /\ cli.id \in DOMAIN Read(disk.text) /\ ~Saving
              /\ count.up => InEntries(cli.id, Read(disk.text)[cli.id])
  IN  /\ IF count.up THEN cli.at = "wait" /\ op[cli.thread].at = "idle" ELSE cli.at \in {"reload", "wait"}
      /\ cli' = NoCli
      /\ disk' = IF used THEN disk ELSE [disk EXCEPT !.text = cli.before]
      /\ user' = IF used
                 THEN [user EXCEPT !.wrote = IF kept THEN Put(@, cli.id, Read(disk.text)[cli.id]) ELSE @]
                 ELSE [user EXCEPT !.raced = @ \/ Locked, !.text = Missing]
      /\ UNCHANGED <<table, seen, registry, keys, reading, op, count>>

-----------------------------------------------------------------------------
Adds(t, raws, secrets) ==
  \E id \in Profile, raw \in raws, secret \in secrets, replace \in BOOLEAN : AskAdd(t, id, raw, secret, replace)
Handles(t) ==
  \/ take_in_file_changes(t) \/ reload(t) \/ RegistryFollows(t) \/ add(t) \/ remove(t)
  \/ ReadBack(t) \/ Register(t) \/ \E given \in BOOLEAN : StoreKey(t, given)
Requested(t) == (\E id \in Profile : AskRemove(t, id) \/ AskKey(t, id)) \/ (AskReload(t) /\ UNCHANGED cli)
UserEdits(raws, lasts) ==
  \/ \E id \in Profile : EditOut(id) \/ \E raw \in raws : EditEntry(id, raw)
  \/ \E last \in lasts : EditLast(last)
  \/ EditMends \/ \E text \in Broken : EditBreaks(text)
Cli ==
  \/ (\E id \in Profile : CliReads(id)) \/ CliRefuses
  \/ \E a \in Address : CliWrites(Program(a))
  \/ CliWrites(Other) \/ (\E t \in Thread : CliReloads(t)) \/ CliDone

(* What a client may add, and what a user may write.                       *)
ClientRaws == {Web(a, env, "none") : a \in Address, env \in BOOLEAN}
UserRaws == {Web(a, env, c) : a \in Address, env \in BOOLEAN, c \in Address \cup {"none"}}
            \cup {Program(a) : a \in Address} \cup {Other}
UserLasts == {NoEntry} \cup [id : Profile \cup {"unnamed"}, raw : UserRaws]

EnginesNext ==
  \/ Starts \/ Ends \/ UserEdits(UserRaws, UserLasts) \/ Cli
  \/ \E t \in Thread : Handles(t) \/ Adds(t, ClientRaws, BOOLEAN) \/ Requested(t)
  \/ \E id \in Profile : UseEngine(id)
EnginesSpec == EnginesInit /\ [][EnginesNext]_enginesVars

-----------------------------------------------------------------------------
(* Properties.                                                             *)

(* No lost update: of what the user wrote into engines.json, every entry   *)
(* that is read stays there until a request about that very profile is     *)
(* saved, and a program even then, short of a removal; a text that is no   *)
(* JSON is there or in its copy (take_in_file_changes, the second check of *)
(* `add`, load).  An entry that is not read, beyond MAX_PROFILES or of an  *)
(* id that comes again, is lost with the next save.                        *)
EditsKept ==
  ~user.raced =>
    /\ disk.text \notin Broken =>
         \A id \in DOMAIN user.wrote :
           id \in DOMAIN Read(disk.text) /\ Read(disk.text)[id] = user.wrote[id]
    /\ user.text \in Broken => user.text \in {disk.text, disk.bad}

(* A key from the environment goes only to the provider or to an address   *)
(* the user confirmed for that profile, whatever clients add, replace and  *)
(* remove, the CLI writes and a restart migrates.                          *)
KeysGoHome ==
  \A id \in Usable(table) :
    table[id].raw.env /\ table[id].raw.confirmed = table[id].raw.address =>
      table[id].raw.address = ProviderAddress \/ <<id, table[id].raw.address>> \in user.confirmed
=============================================================================
