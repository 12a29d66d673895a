------------------------------ MODULE Settings ------------------------------
(***************************************************************************)
(* The saved settings of a home (sonarad config.rs) and their import from  *)
(* the Python plugin (migrate.rs): config.json, session_prefs.json and     *)
(* keymap.json on disk, the Store that `set` records in, what the reader   *)
(* and the router take from it, writes that fail, a runtime that dies      *)
(* between two steps of the import, a clock that goes back, and a user who *)
(* edits config.json while no runtime runs.                                *)
(*                                                                         *)
(* A setting of each kind of the schema stands for its kind.  A `set` is   *)
(* one step: `setting`, the lock of `set`, is held until it is recorded.   *)
(***************************************************************************)
EXTENDS Naturals, Sequences, FiniteSets, FiniteSetsExt, SequencesExt

CONSTANTS MAX_QUEUE,  \* minqueue's range is 0..MAX_QUEUE
          PREFS_CAP,  \* channel preferences kept
          Channel,    \* channel ids, numbers: a JSON object is sorted by them
          Offers,     \* the voices of each engine
          EditedKeys, \* the keys edited by hand
          MaxSettings, MaxEdits, MaxStarts, MaxFails, MaxClock  \* bounds

ASSUME SettingsAssumption ==
  /\ MAX_QUEUE \in Nat \ {0} /\ PREFS_CAP \in Nat \ {0} /\ MaxClock \in Nat
  /\ Channel \subseteq Nat /\ IsFiniteSet(Channel)

VARIABLES
  home,    \* the files: config.json, .bad, session_prefs.json, keymap.json, earcons
  store,   \* the Store: user, extra and prefs
  speech,  \* engine and voice in force
  held,    \* the channels muted in the router
  stage,   \* down, a step of the import, or up
  legacy,  \* the plugin's folder
  own,     \* what the user wrote that the runtime does not use, still to be kept
  clock, did

settingsVars == <<home, store, speech, held, stage, legacy, own, clock, did>>

Marker == "_migrated"
Empty == [k \in {} |-> 0]
Engines == DOMAIN Offers
DefaultEngine == CHOOSE e \in Engines : TRUE
DefaultVoice == "sarah"

Without(f, k) == [x \in DOMAIN f \ {k} |-> f[x]]
With(f, k, v) == [x \in DOMAIN f \cup {k} |-> IF x = k THEN v ELSE f[x]]
Over(f, g) == [x \in DOMAIN f \cup DOMAIN g |-> IF x \in DOMAIN g THEN g[x] ELSE f[x]]

-----------------------------------------------------------------------------
(* SCHEMA: numbers in a range, one of some names, any text, an object of   *)
(* which only the known fields count.  "later", "loud" and a bogus field   *)
(* are refused, and no setting is called "future".                         *)
Options == [verbosity |-> {"everything", "skip_code"}, read_mode |-> {"immediate", "queue", "done"}]
Fields == {"style", "prompts"}
Raw == [minqueue  |-> {1, MAX_QUEUE, MAX_QUEUE + 1}, future |-> {"any"},
        read_mode |-> Options.read_mode \cup {"later"},
        verbosity |-> Options.verbosity \cup {"quiet", "loud"},
        engine    |-> Engines, voice |-> {"null"} \cup UNION {Offers[e] : e \in Engines},
        summaries |-> (SUBSET Fields) \cup {{"bogus"}, {"style", "unknown"}}]

(* The user edits settings and a key of a newer release.                   *)
ASSUME SettingsKeys == EditedKeys \subseteq DOMAIN Raw

canonical(v) == IF v = "quiet" THEN "skip_code" ELSE v

(* The value to store, or none.                                            *)
validate(k, v) ==
  CASE k = "minqueue" -> {n \in {v} : n <= MAX_QUEUE}
    [] k \in DOMAIN Options -> {canonical(v)} \cap Options[k]
    [] k = "summaries" -> IF "bogus" \in v THEN {} ELSE {v \cap Fields}
    [] k \in {"engine", "voice"} -> {v}
    [] OTHER -> {}
Clean(k, v) == CHOOSE w \in validate(k, v) : TRUE

(* read_mode_from_minqueue, which a refused read_mode rules out.  The      *)
(* fault: it does not.                                                     *)
read_mode_from_minqueue(user) ==
  IF "minqueue" \in DOMAIN user /\ "read_mode" \notin DOMAIN user
  THEN With(user, "read_mode", IF user.minqueue <= 1 THEN "immediate" ELSE "queue")
  ELSE user
mapped_always(user, extra) == read_mode_from_minqueue(user)
mapped(user, extra) == IF "read_mode" \in DOMAIN extra THEN user ELSE read_mode_from_minqueue(user)

-----------------------------------------------------------------------------
(* Store::load.  A file that is not a JSON object gives the defaults.      *)
Garbage == [kind |-> "garbage", json |-> Empty]
Missing == [kind |-> "none", json |-> Empty]
Json(m) == [kind |-> "object", json |-> m]
read_object(file) == file.json

Used(raw) == {k \in DOMAIN raw : k = Marker \/ validate(k, raw[k]) # {}}
UserOf(raw) == [k \in Used(raw) |-> IF k = Marker THEN raw[k] ELSE Clean(k, raw[k])]
ExtraOf(raw) == [k \in DOMAIN raw \ Used(raw) |-> raw[k]]

(* Preferences: a set of fields of a channel with the time of the change;  *)
(* the newest PREFS_CAP, the oldest first.                                 *)
Older(f, a, b) == f[a].at < f[b].at \/ (f[a].at = f[b].at /\ a < b)
Sorted(f) ==
  LET S == {id \in DOMAIN f : f[id].p # {}}
  IN  CHOOSE s \in [1..Cardinality(S) -> S] : \A i, j \in 1..Cardinality(S) : i < j => Older(f, s[i], s[j])
Newest(s) == IF Len(s) > PREFS_CAP THEN SubSeq(s, Len(s) - PREFS_CAP + 1, Len(s)) ELSE s
PrefsOf(f) ==
  Newest([i \in 1..Len(Sorted(f)) |->
           [id |-> Sorted(f)[i], p |-> f[Sorted(f)[i]].p, at |-> f[Sorted(f)[i]].at]])

load(h) ==
  LET raw == read_object(h.config)
  IN  [user |-> mapped(UserOf(raw), ExtraOf(raw)), extra |-> ExtraOf(raw),
       prefs |-> PrefsOf(read_object(h.prefs))]

(* apply_reader: the engine, then the voice: the user's, which may be      *)
(* refused, or the default where the engine lists it.  apply_mutes.        *)
EngineOf(s) == IF "engine" \in DOMAIN s.user /\ s.user.engine \in Engines THEN s.user.engine ELSE DefaultEngine
VoiceOf(s) ==
  LET asked == IF "voice" \in DOMAIN s.user THEN s.user.voice ELSE DefaultVoice
  IN  IF asked \in Offers[EngineOf(s)] THEN asked ELSE "null"
apply_reader(s) == [engine |-> EngineOf(s), voice |-> VoiceOf(s)]
apply_mutes(s) == {s.prefs[i].id : i \in {j \in 1..Len(s.prefs) : "muted" \in s.prefs[j].p}}

-----------------------------------------------------------------------------
(* Writes: a temp file and a rename, which may fail; `behind` is then what *)
(* the disk lags behind in.                                                *)
save_config(s) == Json(Over(s.extra, s.user))
save_prefs(s) ==
  Json([id \in {s.prefs[i].id : i \in 1..Len(s.prefs)} |->
         LET e == CHOOSE e \in Range(s.prefs) : e.id = id IN [p |-> e.p, at |-> e.at]])

Writes(file, text) ==
  \/ home' = [home EXCEPT ![file] = text] /\ did' = [did EXCEPT !.behind = @ \ {file}]
  \/ /\ did.fails < MaxFails /\ UNCHANGED home
     /\ did' = [did EXCEPT !.fails = @ + 1, !.behind = @ \cup {file}]

NoStore == [user |-> Empty, extra |-> Empty, prefs |-> <<>>]
NoReader == [engine |-> DefaultEngine, voice |-> "null"]

SettingsInit ==
  /\ home = [config |-> Missing, bad |-> FALSE, prefs |-> Missing, keymap |-> "none", earcons |-> "none"]
  /\ store = NoStore /\ speech = NoReader /\ held = {}
  /\ stage = "down" /\ own = [keys |-> Empty, text |-> FALSE] /\ clock = 1
  /\ legacy \in [format : {1, 2}, config : BOOLEAN, keymap : BOOLEAN, prefs : BOOLEAN,
                 minqueue : {1, MAX_QUEUE + 1}, voice : {"sarah", "chatterbox"}]
  /\ did = [sets |-> 0, edits |-> 0, starts |-> 0, fails |-> 0, behind |-> {}]

-----------------------------------------------------------------------------
(* The import.  convert_config: values are brought into range, a removed   *)
(* voice is replaced, and in a file from before format 2, which held every *)
(* key, what equals the plugin's default was no choice.                    *)
map_voice(v) == IF v = "chatterbox" THEN "heart" ELSE v
python_default(k, v) == k = "minqueue" /\ v = 1
Clamped == [minqueue |-> Min({legacy.minqueue, MAX_QUEUE}), voice |-> map_voice(legacy.voice)]
convert_config ==
  [k \in {k \in DOMAIN Clamped : legacy.config /\ ~(legacy.format = 1 /\ python_default(k, Clamped[k]))} |-> Clamped[k]]

(* convert_prefs: no time is known, so they are in the order of their ids. *)
convert_prefs == [id \in Channel |-> [p |-> {"label"}, at |-> 0]]

(* run: once, before the store is loaded; the marker comes last.           *)
Steps == <<"keymap", "prefs", "earcons", "config">>
After(s) == LET i == CHOOSE i \in 1..4 : Steps[i] = s IN IF i = 4 THEN "load" ELSE Steps[i + 1]

Begin ==
  /\ stage = "down" /\ did.starts < MaxStarts
  /\ did' = [did EXCEPT !.starts = @ + 1]
  /\ stage' = IF home.config = Missing /\ (legacy.config \/ legacy.keymap \/ legacy.prefs)
              THEN Steps[1] ELSE "load"
  /\ UNCHANGED <<home, store, speech, held, legacy, own, clock>>

ImportStep(s) == stage = s /\ stage' = After(s) /\ UNCHANGED <<store, speech, held, legacy, own, clock>>

ImportKeymap ==
  /\ ImportStep("keymap")
  /\ IF legacy.keymap /\ home.keymap = "none" THEN Writes("keymap", "imported") ELSE UNCHANGED <<home, did>>

ImportPrefs ==
  /\ ImportStep("prefs")
  /\ IF legacy.prefs /\ home.prefs = Missing THEN Writes("prefs", Json(convert_prefs)) ELSE UNCHANGED <<home, did>>

(* fs::copy: a runtime that dies in it leaves part of the file, which is   *)
(* not copied again.                                                       *)
import_earcons ==
  /\ \/ stage = "earcons" /\ legacy.config /\ home.earcons = "none"
        /\ home' = [home EXCEPT !.earcons = "part"] /\ stage' = "copying"
     \/ stage = "earcons" /\ ~(legacy.config /\ home.earcons = "none")
        /\ stage' = After("earcons") /\ UNCHANGED home
     \/ stage = "copying" /\ home' = [home EXCEPT !.earcons = "whole"] /\ stage' = After("earcons")
  /\ UNCHANGED <<store, speech, held, legacy, own, clock, did>>

ImportConfig ==
  /\ ImportStep("config") /\ Writes("config", Json(With(convert_config, Marker, "from")))

(* Store::load and what is applied from it.  A text that is no JSON object *)
(* is copied before anything is saved over it.                             *)
backup == IF home.config = Garbage THEN [home EXCEPT !.bad = TRUE] ELSE home
Load ==
  /\ stage = "load" /\ stage' = "up"
  /\ home' = backup
  /\ store' = load(home) /\ speech' = apply_reader(store') /\ held' = apply_mutes(store')
  /\ UNCHANGED <<legacy, own, clock, did>>

(* The runtime ends or dies.                                               *)
RuntimeEnds ==
  /\ stage # "down" /\ stage' = "down"
  /\ store' = NoStore /\ speech' = NoReader /\ held' = {}
  /\ UNCHANGED <<home, legacy, own, clock, did>>

-----------------------------------------------------------------------------
(* `set`: the layer takes the value or refuses it; what is in force then   *)
(* is recorded.                                                            *)
Sets == stage = "up" /\ did.sets < MaxSettings
Counted == [did EXCEPT !.sets = @ + 1]

SavesConfig(s) ==
  /\ store' = s
  /\ \/ home' = [home EXCEPT !.config = save_config(s)] /\ did' = [Counted EXCEPT !.behind = @ \ {"config"}]
     \/ /\ did.fails < MaxFails /\ UNCHANGED home
        /\ did' = [Counted EXCEPT !.fails = @ + 1, !.behind = @ \cup {"config"}]

Recorded(s, k, v) == [s EXCEPT !.extra = Without(@, k), !.user = With(@, k, v)]
Forgotten(k) == own' = [own EXCEPT !.keys = Without(@, k)]

record_setting(k, v) ==
  IF k \in DOMAIN store.user /\ k \notin DOMAIN store.extra /\ store.user[k] = v
  THEN did' = Counted /\ UNCHANGED <<home, store, own>>
  ELSE SavesConfig(Recorded(store, k, v)) /\ Forgotten(k)

(* A setting that no other one follows: the agent's.                       *)
SetAgent(k, v) ==
  /\ Sets /\ validate(k, v) # {} /\ record_setting(k, Clean(k, v))
  /\ UNCHANGED <<speech, held, stage, legacy, clock>>

(* record_summaries: the fields given are merged; prompts that are empty   *)
(* are removed.                                                            *)
Merged(fields, cleared) ==
  ((IF "summaries" \in DOMAIN store.user THEN store.user.summaries ELSE {}) \cup fields)
    \ (IF cleared THEN {"prompts"} ELSE {})
record_summaries(fields, cleared) ==
  /\ Sets
  /\ LET m == Merged(fields, cleared)
         s == [store EXCEPT !.extra = Without(@, "summaries"),
                            !.user = IF m = {} THEN Without(@, "summaries") ELSE With(@, "summaries", m)]
     IN  IF "summaries" \in DOMAIN store.user /\ "summaries" \notin DOMAIN store.extra /\ store.user.summaries = m
         THEN did' = Counted /\ UNCHANGED <<home, store, own>>
         ELSE SavesConfig(s) /\ Forgotten("summaries")
  /\ UNCHANGED <<speech, held, stage, legacy, clock>>

(* set voice: refused by the reader when the engine lacks it.              *)
SetVoice(v) ==
  /\ Sets /\ v \in Offers[speech.engine] \cup {"null"}
  /\ speech' = [speech EXCEPT !.voice = v] /\ record_setting("voice", v)
  /\ UNCHANGED <<held, stage, legacy, clock>>

(* set engine: the reader drops a voice the new engine lacks.              *)
(* engine_switched then gives the default voice back where the user has    *)
(* none, and records the voice in force over a saved one that is not       *)
(* offered.                                                                *)
Kept(e) == IF speech.voice \in Offers[e] THEN speech.voice ELSE "null"
engine_switched(e, s) ==
  IF "voice" \in DOMAIN s.user /\ s.user.voice # "null"
  THEN [voice |-> Kept(e),
        store |-> IF s.user.voice \in Offers[e] THEN s ELSE Recorded(s, "voice", Kept(e))]
  ELSE [voice |-> IF DefaultVoice \in Offers[e] THEN DefaultVoice ELSE Kept(e), store |-> s]

SetEngine(e) ==
  /\ Sets
  /\ IF e = speech.engine THEN record_setting("engine", e) /\ UNCHANGED speech
     ELSE LET done == engine_switched(e, Recorded(store, "engine", e))
          IN  /\ speech' = [engine |-> e, voice |-> done.voice]
              /\ SavesConfig(done.store) /\ Forgotten("engine")
  /\ UNCHANGED <<held, stage, legacy, clock>>

(* set_prefs: the change is stamped later than any other, so that the      *)
(* order outlives the file, which has none.                                *)
LastStamp(s) == IF s = <<>> THEN 0 ELSE Last(s).at
stamp(s) == Max({clock, LastStamp(s) + 1})

SavesPrefs(prefs) ==
  /\ store' = [store EXCEPT !.prefs = prefs]
  /\ \/ home' = [home EXCEPT !.prefs = save_prefs(store')] /\ did' = [Counted EXCEPT !.behind = @ \ {"prefs"}]
     \/ /\ did.fails < MaxFails /\ UNCHANGED home
        /\ did' = [Counted EXCEPT !.fails = @ + 1, !.behind = @ \cup {"prefs"}]

(* An id has one entry, which goes, or goes to the end.                    *)
OthersThan(id) ==
  LET at == {i \in 1..Len(store.prefs) : store.prefs[i].id = id}
  IN  IF at = {} THEN store.prefs ELSE RemoveAt(store.prefs, CHOOSE i \in at : TRUE)
set_prefs(id, p) ==
  /\ Sets
  /\ LET rest == OthersThan(id)
     IN  SavesPrefs(IF p = {} THEN rest ELSE Newest(Append(rest, [id |-> id, p |-> p, at |-> stamp(rest)])))
  /\ held' = IF "muted" \in p THEN held \cup {id} ELSE held \ {id}
  /\ UNCHANGED <<speech, stage, legacy, own, clock>>

forget_prefs(id) ==
  /\ Sets /\ OthersThan(id) # store.prefs /\ SavesPrefs(OthersThan(id))
  /\ held' = held \ {id}
  /\ UNCHANGED <<speech, stage, legacy, own, clock>>

-----------------------------------------------------------------------------
(* The user edits config.json while no runtime runs, well or not.          *)
EditKey(k, v) ==
  /\ stage = "down" /\ did.edits < MaxEdits /\ did' = [did EXCEPT !.edits = @ + 1]
  /\ home' = [home EXCEPT !.config = Json(With(read_object(home.config), k, v))]
  /\ own' = [keys |-> IF validate(k, v) = {} THEN With(own.keys, k, v) ELSE Without(own.keys, k),
             text |-> own.text /\ home.config # Garbage]
  /\ UNCHANGED <<store, speech, held, stage, legacy, clock>>

EditBreaks ==
  /\ stage = "down" /\ did.edits < MaxEdits /\ did' = [did EXCEPT !.edits = @ + 1]
  /\ home' = [home EXCEPT !.config = Garbage, !.bad = FALSE]
  /\ own' = [keys |-> Empty, text |-> TRUE]
  /\ UNCHANGED <<store, speech, held, stage, legacy, clock>>

ClockMoves(t) ==
  /\ t # clock /\ clock' = t
  /\ UNCHANGED <<home, store, speech, held, stage, legacy, own, did>>

Importing == Begin \/ ImportKeymap \/ ImportPrefs \/ import_earcons \/ ImportConfig \/ Load
AgentKeys == {"minqueue", "read_mode", "verbosity"}
SetsConfig ==
  \/ \E k \in AgentKeys : \E v \in Raw[k] : SetAgent(k, v)
  \/ \E f \in SUBSET Fields, c \in BOOLEAN : record_summaries(f, c)
SetsReader == (\E v \in Raw.voice : SetVoice(v)) \/ (\E e \in Engines : SetEngine(e))
SetsPrefs == \E id \in Channel : forget_prefs(id) \/ \E p \in SUBSET {"label", "muted"} : set_prefs(id, p)
Edits == EditBreaks \/ \E k \in EditedKeys : \E v \in Raw[k] : EditKey(k, v)

SettingsNext ==
  \/ Importing \/ RuntimeEnds \/ SetsConfig \/ SetsReader \/ SetsPrefs \/ Edits
  \/ \E t \in 0..MaxClock : ClockMoves(t)
SettingsSpec == SettingsInit /\ [][SettingsNext]_settingsVars

-----------------------------------------------------------------------------
(* Properties.                                                             *)

(* What a client set is there after a restart: unless a write failed, the  *)
(* files load to the settings and preferences in memory, the preferences   *)
(* in the order of their changes whatever the clock did, and give the      *)
(* reader the engine and voice in force (record, set_prefs, load).         *)
(* A saved voice that could not be applied waits, and is left out.         *)
Waits == "voice" \in DOMAIN store.user /\ store.user.voice # speech.voice
SurvivesRestart ==
  LET again == load(home)
  IN  stage = "up" =>
        /\ "config" \notin did.behind =>
             /\ \A k \in DOMAIN store.user : k \in DOMAIN again.user /\ again.user[k] = store.user[k]
             /\ Waits \/ apply_reader(again) = speech
        /\ "prefs" \notin did.behind => again.prefs = store.prefs

(* Nothing the user wrote is erased by a save: a key of a newer release    *)
(* and a value the schema refuses stay in config.json until that key is    *)
(* set, and a text that is no JSON object is there or in its copy.  Nor by *)
(* the import, wherever the runtime died in it: where its marker is, every *)
(* file of the plugin was taken over, unless a write failed.               *)
NothingErased ==
  /\ home.config.kind = "object" =>
       \A k \in DOMAIN own.keys : k \in DOMAIN home.config.json /\ home.config.json[k] = own.keys[k]
  /\ own.text => home.config = Garbage \/ home.bad
  /\ home.config.kind = "object" /\ Marker \in DOMAIN home.config.json /\ did.fails = 0 =>
       /\ legacy.keymap => home.keymap = "imported"
       /\ legacy.prefs => home.prefs # Missing
       /\ did.sets = 0 /\ did.edits = 0 =>
            \A k \in DOMAIN convert_config : home.config.json[k] = convert_config[k]

(* The files keep what clients and the user gave: across restarts, failed  *)
(* writes, edits from outside and the import (config.rs, migrate.rs).      *)
SettingsKept == SurvivesRestart /\ NothingErased
=============================================================================
