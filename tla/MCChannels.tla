----------------------------- MODULE MCChannels -----------------------------
(***************************************************************************)
(* Model checking of Channels with three history variables: the channel    *)
(* the driver's last item was about, the same until nothing was left to    *)
(* read, and the entries stored for a return of the user.                  *)
(*                                                                         *)
(* In three kinds of session the driver runs with its reader and clients.  *)
(* In two more the router's public methods are called by themselves, in    *)
(* any order, for the floor over two channels and for the batch of one.    *)
(***************************************************************************)
EXTENDS Channels

CONSTANTS ch1, ch2, tab1

VARIABLES floor, stored, session
hist  == <<floor, stored, session>>
hvars == <<vars, hist>>

(* Texts of two chunks, of none and of one.                                *)
TextChunks == [e \in 1..MaxEntries |-> CASE e = 1 -> 2 [] e = 2 -> 0 [] OTHER -> 1]

(* The kinds of session and the calls their clients may make.              *)
Session == [Floor |-> 4, Gate |-> 5, Batch |-> 4, RouterFloor |-> 0, RouterBatch |-> 0]

(* The clients have opened their channels.  The router by itself starts    *)
(* empty, as inside an operation of the driver.                            *)
WithOpen(r) == open(open(r, ch1, TRUE, None, "Queue"), ch2, TRUE, None, "Latest")
Alone == session \in {"RouterFloor", "RouterBatch"}
MCInit == /\ session \in DOMAIN Session
          /\ floor = None /\ stored = {}
          /\ IF Alone
             THEN RouterInit /\ DriverInit(<<"Pump">>)
             ELSE ChannelsInit(WithOpen(new_router))

Speaks == ~Free /\ Head(driver.todo) \in {"Speak", "SpeakNow"}
Tells == /\ floor' = IF Speaks THEN router.fed.channel
                     ELSE IF router' # router /\ router'.fed = None THEN None ELSE floor
         /\ UNCHANGED <<stored, session>>

MCRuns == ~Alone /\ ((CallReader /\ Tells) \/ ((ItemEnded \/ Plays) /\ UNCHANGED hist))
Core == (\E interrupt \in BOOLEAN : CoreSpeak(interrupt)) /\ UNCHANGED hist

(* Mute, focus only, closing and opening again.                            *)
GateCalls ==
  \/ \E id \in Ids : \/ \E on \in BOOLEAN : SetMuted(id, on)
                     \/ Focus(id) \/ Authorize(id) \/ Close(id) \/ Add(id, FALSE, FALSE)
                     \/ Open(id, TRUE, None, None)
                     \/ LabelIfMissing(id)
  \/ \E on \in BOOLEAN : SetFocusOnly(on)
  \/ NextChannel

(* One message: an agent's batch, its decisions, and steps inside it.      *)
Writes ==
  \/ \E decision \in BOOLEAN : Add(ch1, decision, FALSE)
  \/ \E mode \in {"Append", "Replace"} : Speak(ch1, mode, FALSE)
  \/ \E which \in Resolved : DropDecisions(ch1, which)
  \/ \E e \in 1..MaxEntries : SetAside(ch1, e, TRUE)
  \/ EndBatch(ch1)
  \/ \E also \in {{}, Ids} : FlushWith(also)
  \/ \E c \in {"Pause", "Next"} : ControlOne(c, ch1) \/ ControlAll(c)
Stores == /\ \E decision \in BOOLEAN : Add(ch1, decision, TRUE)
          /\ stored' = IF ready(router, ch1) \/ InFlightOf(ch1) THEN stored
                       ELSE stored \cup {router'.next_entry}
          /\ UNCHANGED <<floor, session>>
Returning == /\ \/ Back \/ Forward \/ NextChannel
                \/ \E e \in 1..MaxEntries : ReadFrom(ch1, e)
                \/ ControlOne("Restart", ch1) \/ ControlAll("Restart")
             /\ stored' = {} /\ UNCHANGED <<floor, session>>

(* The router's methods.  Labels and policies are for the driver, and two  *)
(* entries are enough for the floor of two channels.                       *)
OpenIn(ids, tabs) == \E id \in ids, tab \in tabs :
                       Returns(open(RouterCalled, id, TRUE, tab, "Queue"))
RouterFloorCalls ==
  \/ OpenIn(Ids, {None, tab1}) \/ Closes \/ Feeds \/ Switches
  \/ \E id \in Ids : \/ router.next_entry < 2 /\ Returns(push_with(RouterCalled, id, FALSE, FALSE))
                     \/ Returns(flush_one(RouterCalled, id))
                     \/ Returns(read_at(RouterCalled, id, None, TRUE))
RouterBatchCalls ==
  \/ OpenIn({ch1}, {None}) \/ Closes \/ Pushes \/ Appends \/ Resolves \/ Asides
  \/ Flushes \/ Feeds \/ Rewinds \/ Replays
ByItself(kind) == session = kind /\ UNCHANGED <<player, driver, events, calls, hist>>

In(kind) == session = kind /\ calls < Session[kind]
MCNext == \/ MCRuns
          \/ In("Floor") /\ Core
          \/ In("Floor") /\ FloorCalls /\ UNCHANGED hist
          \/ In("Gate") /\ GateCalls /\ UNCHANGED hist
          \/ In("Batch") /\ Writes /\ UNCHANGED hist
          \/ In("Batch") /\ Stores
          \/ In("Batch") /\ Returning
          \/ ByItself("RouterFloor") /\ RouterFloorCalls
          \/ ByItself("RouterBatch") /\ RouterBatchCalls
MCSpec == MCInit /\ [][MCNext]_hvars

-----------------------------------------------------------------------------
(* "The channel that is reading keeps the floor until its batch drains":   *)
(* the driver turns to another channel by itself only when the one it read *)
(* has nothing unread that may be heard.                                   *)
FloorKept == [][ ~Free /\ Head(driver.todo) = "Speak" /\ floor' # floor
                   => floor = None \/ ~audible(router, floor) ]_hvars

(* "Another channel's message cut that way is read again later": the entry *)
(* that next_channel or an interruption cuts is unread afterwards.         *)
CutReadAgain ==
  [][ Free /\ driver'.todo = <<"SpeakNow">> /\ in_flight # None /\ in_flight.entry # None
        /\ router'.active # in_flight.channel /\ place # 0
      => \E i \in unread(router'.ch[in_flight.channel]) :
           router'.ch[in_flight.channel].entries[i] = in_flight.entry ]_hvars

(* Text stored while Sonara is muted is never read by itself, only when    *)
(* the user comes back to it.                                              *)
StoredQuiet == [][ Speaks /\ router.fed.op = "Entry" => router.fed.entry \notin stored ]_hvars
=============================================================================
