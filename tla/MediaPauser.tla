----------------------------- MODULE MediaPauser -----------------------------
(***************************************************************************)
(* Pausing other apps' media while speech plays (sonara-system             *)
(* pausing.rs): every playing media session is paused, and exactly those   *)
(* are resumed, across calls that fail or answer late, sessions that       *)
(* vanish, users who press play, and crashes of the runtime.               *)
(*                                                                         *)
(* One step is what lies between two effects that outlive the runtime: a   *)
(* write of the crash-restore file, a pause call, and play calls (a crash  *)
(* between several play calls is one after them with the rest failing).    *)
(* Apps that do not tell their id are not sessions; writing the file       *)
(* succeeds.  What is saved and what is owed are sets: each play call is   *)
(* made whatever the order.                                                *)
(***************************************************************************)
EXTENDS Integers, Sequences, Functions

CONSTANTS
  Tabs,        \* the media sessions, in the order sessions() lists them
  AppId,       \* the app of each session; the tabs of a browser share one
  MaxAge,      \* PENDING_MAX_AGE, in ticks
  MaxTicks,    \* bound: time
  MaxMedia,    \* bound: what users, apps and Windows do
  MaxPauses    \* bound: pauses and runtime starts

ASSUME PauserConstants ==
  /\ Tabs \in Seq(Range(Tabs)) /\ AppId \in [Range(Tabs) -> Range(AppId)]
  /\ MaxAge \in Nat /\ MaxTicks \in Nat /\ MaxMedia \in Nat /\ MaxPauses \in Nat

VARIABLES
  media,     \* Windows: sessions, how their calls end, late pauses, the time
  noted,     \* pause_state.json: the apps and the time; no apps when absent
  pauser,    \* the fields of MediaPauser, and `op`: the call it is in
  silenced,  \* history: sessions Sonara paused and nobody resumed: when, and
             \* the time then put on the file
  taken,     \* history: sessions that played when a pause looked and whose pause
             \* call was accepted or timed out, or that Sonara tried to play by
             \* their app; and that were not playing at a resume since
  spent      \* bounds used up

pauserVars == <<media, noted, pauser, silenced, taken, spent>>

-----------------------------------------------------------------------------
(* Windows.                                                                *)

Sessions == Range(Tabs)
Open(s) == media.state[s] # "gone"
is_playing(s) == media.state[s] = "playing"
Held(s) == media.state[s] = "paused"
Succeeds(s) == media.calls[s] = "ok"

(* The sessions of S whose play call succeeds play.                        *)
Started(S) == {s \in S : Succeeds(s)}
Play(S) == /\ media' = [media EXCEPT !.state =
                [s \in Sessions |-> IF s \in Started(S) THEN "playing" ELSE @[s]]]
           /\ silenced' = [s \in DOMAIN silenced \ Started(S) |-> silenced[s]]
           /\ taken' = {s \in taken \cup S : Held(s) /\ s \notin Started(S)}

-----------------------------------------------------------------------------
(* The file.                                                               *)

NoNote == [apps |-> {}, at |-> 0]
expired(at) == media.now - at > MaxAge

PendingApps(P) == {p.app : p \in P}
oldest(P) == IF P = {} THEN media.now
             ELSE CHOOSE t \in {p.at : p \in P} : \A p \in P : t <= p.at

record(apps) == LET all == PendingApps(pauser.pending) \cup apps
                IN IF all = {} THEN NoNote
                   ELSE [apps |-> all, at |-> oldest(pauser.pending)]

AppsOf(S) == {AppId[s] : s \in S}
PendingOf(s, at) == [session |-> {s}, app |-> AppId[s], at |-> at]
Owing(S, at) == {PendingOf(s, at) : s \in S}

(* When a session was paused, and the time on the file then.               *)
Since(at) == [at |-> at,
              stamp |-> IF at <= oldest(pauser.pending) THEN at ELSE oldest(pauser.pending)]
Silencing(s, at) == [x \in DOMAIN silenced \cup {s} |-> IF x = s THEN Since(at) ELSE silenced[x]]

-----------------------------------------------------------------------------
(* The calls.                                                              *)

Rest == [at |-> "Rest"]
Down == [up |-> FALSE, paused |-> FALSE, saved |-> {}, pending |-> {}, since |-> 0,
         op |-> Rest]
At(step) == pauser.op.at = step
Costs == spent.pauses < MaxPauses /\ spent' = [spent EXCEPT !.pauses = @ + 1]

(* pause: the sessions there are (those gone do not play, and never will); *)
(* none paused when they cannot be listed.                                 *)
PauseMedia ==
  /\ pauser.up /\ At("Rest") /\ ~pauser.paused /\ media.lists /\ Costs
  /\ pauser' = [pauser EXCEPT !.op =
       [at |-> "Pausing", todo |-> Tabs, saved |-> {}]]
  /\ UNCHANGED <<media, noted, silenced, taken>>

(* Fault: the file is only written when all sessions are paused.           *)
PauseRecord_late ==
  /\ At("Pausing") /\ pauser.op.todo # <<>>
  /\ pauser' = IF is_playing(Head(pauser.op.todo)) THEN [pauser EXCEPT !.op.at = "Call"]
               ELSE [pauser EXCEPT !.op.todo = Tail(@)]
  /\ UNCHANGED <<noted, media, silenced, taken, spent>>

(* A playing session is on disk before it is paused.                       *)
PauseRecord ==
  /\ At("Pausing") /\ pauser.op.todo # <<>>
  /\ LET s == Head(pauser.op.todo)
     IN IF is_playing(s)
        THEN /\ noted' = record(AppsOf(pauser.op.saved \cup {s}))
             /\ pauser' = [pauser EXCEPT !.op.at = "Call"]
        ELSE /\ pauser' = [pauser EXCEPT !.op.todo = Tail(@)]
             /\ UNCHANGED noted
  /\ UNCHANGED <<media, silenced, taken, spent>>

(* A pause that timed out may still come, and is resumed like one that did.*)
(* Whether the session still plays is not looked at again: an app accepts  *)
(* the pause of a session its user paused meanwhile (or refuses it).       *)
PauseCall ==
  /\ At("Call")
  /\ LET s == Head(pauser.op.todo)
         done == Open(s) /\ media.calls[s] = "ok"
         slow == Open(s) /\ media.calls[s] = "slow"
     IN /\ pauser' = [pauser EXCEPT !.op =
             [at |-> "Pausing", todo |-> Tail(pauser.op.todo),
              saved |-> IF done \/ slow THEN pauser.op.saved \cup {s} ELSE pauser.op.saved]]
        /\ media' = [media EXCEPT !.state[s] = IF done THEN "paused" ELSE @,
                                  !.late = IF slow THEN @ \cup {s} ELSE @]
        /\ silenced' = IF done /\ is_playing(s) THEN Silencing(s, media.now) ELSE silenced
        /\ taken' = IF done \/ slow THEN taken \cup {s} ELSE taken
  /\ UNCHANGED <<noted, spent>>

PauseDone ==
  /\ At("Pausing") /\ pauser.op.todo = <<>>
  /\ pauser' = [pauser EXCEPT !.paused = TRUE, !.since = media.now, !.saved = pauser.op.saved,
                              !.op = Rest]
  /\ noted' = record(AppsOf(pauser.op.saved))
  /\ UNCHANGED <<media, silenced, taken, spent>>

(* The paused sessions of the apps, and what is left when they are played. *)
ByApp(apps) == {s \in Sessions : Held(s) /\ AppId[s] \in apps}

Todo == Owing(pauser.saved, pauser.since) \cup {p \in pauser.pending : ~expired(p.at)}
OwnPaused == {s \in UNION {p.session : p \in Todo} : Held(s)}
AppsOnly == {p \in Todo : p.session = {}}

(* What a resume leaves: sessions whose play failed, and apps when the     *)
(* sessions cannot be listed.                                              *)
Left(S) == {p \in Todo : p.session # {} /\ p.session \subseteq OwnPaused \ Started(S)}
           \cup (IF media.lists
                 THEN Owing(ByApp(PendingApps(AppsOnly)) \ Started(S), oldest(AppsOnly))
                 ELSE AppsOnly)

ResumeBy(S) ==
  /\ pauser.up /\ At("Rest") /\ pauser.paused
  /\ Play(S)
  /\ pauser' = [pauser EXCEPT !.paused = FALSE, !.saved = {}, !.pending = Left(S),
                              !.op = [at |-> "Noting", pending |-> Left(S)]]
  /\ UNCHANGED <<noted, spent>>

(* Fault: every paused session of the apps is played.                      *)
ResumeMedia_apps == ResumeBy(ByApp(AppsOf(OwnPaused)))

(* resume: the session objects, then the apps only known by their id.      *)
ResumeMedia ==
  ResumeBy(OwnPaused \cup (IF media.lists THEN ByApp(PendingApps(AppsOnly)) ELSE {}))

NoteLeft ==
  /\ At("Noting")
  /\ noted' = LET p == pauser.op.pending
              IN IF p = {} THEN NoNote ELSE [apps |-> PendingApps(p), at |-> oldest(p)]
  /\ pauser' = [pauser EXCEPT !.op = Rest]
  /\ UNCHANGED <<media, silenced, taken, spent>>

(* recover: a new runtime resumes what the last one left.                  *)
Recover ==
  /\ ~pauser.up /\ Costs
  /\ LET old == expired(noted.at)
         apps == IF old THEN {} ELSE noted.apps
         failed == ByApp(apps) \ Started(ByApp(apps))
     IN IF media.lists \/ apps = {}
        THEN /\ Play(ByApp(apps))
             /\ pauser' = [Down EXCEPT !.up = TRUE, !.pending = Owing(failed, noted.at),
                  !.op = [at |-> "Noting", pending |-> Owing(failed, noted.at)]]
        ELSE /\ pauser' = [Down EXCEPT !.up = TRUE, !.pending = 
                             {[session |-> {}, app |-> x, at |-> noted.at] : x \in apps}]
             /\ UNCHANGED <<media, silenced, taken>>
  /\ UNCHANGED noted

RuntimeDies == /\ pauser.up
               /\ pauser' = Down
               /\ UNCHANGED <<media, noted, silenced, taken, spent>>

-----------------------------------------------------------------------------
(* Users, apps and time.                                                   *)

Occurs == /\ spent.media < MaxMedia
          /\ spent' = [spent EXCEPT !.media = @ + 1]
          /\ UNCHANGED <<noted, pauser, taken>>
Becomes(s, state) ==
  /\ media.state[s] # state
  /\ media' = [media EXCEPT !.state[s] = state]
  /\ silenced' = [x \in DOMAIN silenced \ {s} |-> silenced[x]]

UserPresses(s) == Occurs /\ \E state \in {"playing", "paused"} : Open(s) /\ Becomes(s, state)
Vanishes(s) == Occurs /\ Open(s) /\ Becomes(s, "gone")
CallsTurn(s, how) == /\ Occurs /\ media.calls[s] # how
                     /\ media' = [media EXCEPT !.calls[s] = how] /\ UNCHANGED silenced
ListingTurns == Occurs /\ media' = [media EXCEPT !.lists = ~@] /\ UNCHANGED silenced

(* A pause that timed out takes effect.  Sonara answers for it only while  *)
(* it still holds the session; its age counts from the call.               *)
LatePause(s) ==
  /\ s \in media.late
  /\ media' = [media EXCEPT !.late = @ \ {s}, !.state[s] = IF is_playing(s) THEN "paused" ELSE @]
  /\ silenced' = IF is_playing(s) /\ s \in pauser.saved
                 THEN Silencing(s, pauser.since) ELSE silenced
  /\ UNCHANGED <<noted, pauser, taken, spent>>

Tick == /\ media.now < MaxTicks
        /\ At("Rest")
        /\ media' = [media EXCEPT !.now = @ + 1]
        /\ UNCHANGED <<noted, pauser, silenced, taken, spent>>

PauserInit ==
  /\ media \in [state : [Sessions -> {"playing", "paused"}], calls : {[s \in Sessions |-> "ok"]},
                late : {{}}, lists : {TRUE}, now : {0}]
  /\ noted = NoNote /\ pauser = Down /\ silenced = <<>> /\ taken = {}
  /\ spent = [media |-> 0, pauses |-> 0]

PausingMedia == PauseMedia \/ PauseRecord \/ PauseCall \/ PauseDone
ResumingMedia == ResumeMedia \/ NoteLeft \/ Recover \/ RuntimeDies
MediaWorld ==
  \/ \E s \in Sessions : UserPresses(s) \/ Vanishes(s) \/ LatePause(s)
  \/ \E s \in Sessions, how \in {"ok", "slow", "fails"} : CallsTurn(s, how)
  \/ ListingTurns \/ Tick

PauserNext == PausingMedia \/ ResumingMedia \/ MediaWorld
PauserSpec == PauserInit /\ [][PauserNext]_pauserVars

-----------------------------------------------------------------------------
(* A pause of Sonara's that nobody undid is in the file, for the next      *)
(* resume or the next runtime, until the file's time is too old.           *)
PauseOnRecord == \A s \in DOMAIN silenced :
  ~expired(silenced[s].stamp) => AppId[s] \in noted.apps

(* "A runtime killed right after never strands it paused" (pausing.rs):    *)
(* the same until the pause itself is too old.  It is not so: the file has *)
(* one time, that of its oldest app, so that a pause made while an old     *)
(* resume is pending is recorded as if it were old.                        *)
PauseSurvivesCrash == \A s \in DOMAIN silenced :
  ~expired(silenced[s].at) => AppId[s] \in noted.apps

(* "A tab the user had paused stays paused": a resume plays only sessions  *)
(* that played when a pause looked at them, whose pause call was then      *)
(* accepted or timed out, and that were not playing at a resume since.     *)
(* (Where a crash or a failed listing left only app ids, it plays those    *)
(* apps.)  A tab its user pauses after that look and before the call       *)
(* counts as Sonara's, and is played.                                      *)
PlaysItsOwn ==
  [][ \A s \in Sessions :
        /\ pauser.up /\ pauser' # pauser /\ AppsOnly = {}
        /\ media.state[s] = "paused" /\ media'.state[s] = "playing"
        => s \in taken ]_pauserVars
=============================================================================
