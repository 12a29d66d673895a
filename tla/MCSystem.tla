------------------------------ MODULE MCSystem ------------------------------
(***************************************************************************)
(* What the runtime shares with other programs and with the runtime after  *)
(* it, for TLC, in sessions of their own: the system layer (L4) with       *)
(* ducking, pausing media, clients that arm it, and settings while the     *)
(* reader reads; the settings on disk (the import, those of the agent, the *)
(* reader's, preferences); runtimes that start, end and are found.  In     *)
(* each session the other components do nothing.                           *)
(***************************************************************************)
EXTENDS Ducker, MediaPauser, AudioControl, Settings, Launch

CONSTANTS app1, app2, dev1, dev2, tab1, tab2, web,
          Chosen   \* the sessions of the run

VARIABLE session

systemVars == <<duckVars, pauserVars, controlVars>>
sysVars == <<systemVars, settingsVars, launchVars, session>>

InOrder  == <<dev1, dev2>>
TwoApps  == (dev1 :> app1) @@ (dev2 :> app2)
OneApp   == (dev1 :> app1) @@ (dev2 :> app1)
BothTabs == <<tab1, tab2>>
Browser  == (tab1 :> web) @@ (tab2 :> web)
TwoEngines == [one |-> {"sarah", "heart"}, two |-> {"nova"}]
SettingsSessions == {"Import", "Config", "Reader", "Prefs"}

-----------------------------------------------------------------------------
(* The worker of an extension that one client armed and that follows an    *)
(* idle reader.                                                            *)
Armed(u) ==
  /\ status \in [mode : Modes, duck_level : Levels, armed : {TRUE}, activity : {"Idle"}]
  /\ queue = <<>> /\ half = <<>> /\ arming = {}
  /\ platform = [ducked |-> FALSE, level |-> 0, paused |-> FALSE, failed |-> FALSE,
                 idle_since |-> Never, done |-> FALSE]
  /\ holds = [clients |-> {u}, sticky |-> FALSE, armed |-> TRUE, hotkeys |-> TRUE]
  /\ says = [activity |-> "Idle", events |-> <<>>]
  /\ follow = [at |-> "Events", first |-> <<"Idle">>, last |-> <<"Idle">>]
  /\ used = [sets |-> 0, says |-> 0]

(* A component that does nothing in a session has one initial state there. *)
MCInit ==
  /\ session \in Chosen
  /\ DuckerInit /\ PauserInit
  /\ IF session = "Reads" THEN Armed(CHOOSE u \in Users : TRUE) ELSE ControlInit
  /\ session # "Duck" => \A s \in Slots : mixer.vol[s] = Max(UserLevels)
  /\ session # "Media" => \A s \in Sessions : media.state[s] = "playing"
  /\ session # "Reads" => status.mode = "duck"
  /\ status.duck_level = Max(Levels)
  /\ SettingsInit
  /\ session # "Import" => legacy = [format |-> 2, config |-> FALSE, keymap |-> FALSE,
                                     prefs |-> session = "Prefs", minqueue |-> 1, voice |-> "sarah"]
  /\ LaunchInit /\ (session # "Launch" => ~stopped)

In(kind) == session = kind /\ UNCHANGED session

(* Clients come and go while one item is read.                             *)
ArmCalls == \/ \E u \in Users : Hold(u) \/ Release(u)
            \/ Keep \/ Shutdown
            \/ status.activity = "Idle" /\ ReaderChanges("Speaking")

(* One client changes settings while the reader reads.                     *)
ReadCalls == \/ used.sets < 2 /\ \E m \in Modes : SetMode(m)
             \/ used.sets < 2 /\ \E l \in Levels : SetLevel(l)
             \/ \E a \in Activity : ReaderChanges(a)

Threads == WorkerTurn \/ Later \/ SendSet \/ Arms \/ Subscribe \/ Follower

(* The runtime comes and goes; a user edits config.json while none runs.   *)
SettingsSteps ==
  \/ Importing \/ RuntimeEnds
  \/ session \in {"Import", "Config"} /\ SetsConfig
  \/ session = "Reader" /\ SetsReader
  \/ session = "Prefs" /\ (SetsPrefs \/ \E t \in 0..MaxClock : ClockMoves(t))
  \/ session \in {"Config", "Reader"} /\ Edits

DuckStep  == UNCHANGED <<pauserVars, controlVars, settingsVars, launchVars>>
MediaStep == UNCHANGED <<duckVars, controlVars, settingsVars, launchVars>>
ControlStep == UNCHANGED <<duckVars, pauserVars, settingsVars, launchVars>>

MCNext ==
  \/ In("Duck") /\ Ducking /\ DuckStep
  \/ In("Duck") /\ Restoring /\ DuckStep
  \/ In("Duck") /\ World /\ DuckStep
  \/ In("Media") /\ PausingMedia /\ MediaStep
  \/ In("Media") /\ ResumingMedia /\ MediaStep
  \/ In("Media") /\ MediaWorld /\ MediaStep
  \/ In("Arms") /\ ArmCalls /\ ControlStep
  \/ In("Reads") /\ ReadCalls /\ ControlStep
  \/ session \in {"Arms", "Reads"} /\ Threads /\ ControlStep /\ UNCHANGED session
  \/ session \in SettingsSessions /\ SettingsSteps /\ UNCHANGED <<systemVars, launchVars, session>>
  \/ In("Launch") /\ LaunchNext /\ UNCHANGED <<systemVars, settingsVars>>

MCSpec == MCInit /\ [][MCNext]_sysVars
=============================================================================
