--------------------------- MODULE ProtocolProofs ---------------------------
(***************************************************************************)
(* What a `hello` promised is kept, and what is in force is stored, for    *)
(* any connections, channels, names and settings.                          *)
(***************************************************************************)
EXTENDS Protocol, TLAPS

Label == OwnNames \cup GivenNames \cup {NoName}
ReqType ==
  [at : {"rest", "hello", "enable", "slot", "open", "message", "rename"},
   ext : Exts \cup {NoName}, layer : Exts \cup {NoName}, todo : SUBSET Offered,
   system : BOOLEAN, keep : BOOLEAN, talk : Talks \cup {NoName}, name : Label, was_open : BOOLEAN]
ConnType == [open : BOOLEAN, authed : BOOLEAN, system : BOOLEAN,
             stream : SUBSET {"state", "earcons", "cues"}, req : ReqType]
HostType ==
  [on : SUBSET Offered, built : [Exts -> {0, 1}], enabling : Callers \cup {NoOne},
   admitted : Callers \cup {NoOne}, setting : Callers \cup {NoOne}, retiring : BOOLEAN,
   focus : Talks \cup {NoName}, told : SUBSET Offered]
RoomType == [open : BOOLEAN, label : Label, parted : BOOLEAN]
NameType == [own : OwnNames \cup {NoName}, client : Label]
PromptType == [Styles -> Texts \cup {NoName}]
SumsType == [enabled : BOOLEAN, style : Styles, prompts : PromptType,
             now : [enabled : BOOLEAN, style : Styles, prompt : Texts \cup {NoName}]]

(* The state of the server has its type.                                   *)
ProtocolType ==
  /\ host \in HostType
  /\ conn \in [Callers -> ConnType]
  /\ room \in [Talks -> RoomType]
  /\ names \in [Talks -> NameType]
  /\ sums \in SumsType

Step(c) == conn[c].req.at
Slot(c) == conn[c].req.layer

(* Each lock is held by the one request inside it, of a connection that    *)
(* lives.                                                                  *)
LocksHeld ==
  \A c \in Callers :
    /\ ~conn[c].open => Step(c) = "rest"
    /\ Step(c) \in {"enable", "slot"} => host.enabling = c /\ conn[c].req.ext \in Offered
    /\ Step(c) \in {"open", "message"} => host.admitted = c /\ conn[c].req.talk \in Talks
    /\ Step(c) = "rename" => host.setting = c /\ conn[c].req.talk \in Talks

(* A layer that was built is in its slot, or on its way to it on top of    *)
(* the layers it needs.                                                    *)
LayersBuilt ==
  /\ \A c \in Callers : Step(c) = "slot" =>
       /\ Slot(c) \in Offered /\ host.built[Slot(c)] = 1
       /\ Slot(c) = "agent" => "channels" \in host.on
       /\ Slot(c) = "system" => "system" \in host.on
  /\ \A e \in Exts : host.built[e] = 1 => e \in host.on \/ \E c \in Callers : Step(c) = "slot" /\ Slot(c) = e
  /\ "agent" \in host.on => "channels" \in host.on
  /\ ~host.retiring => host.told \subseteq host.on

(* The last reply named an extension only to say that it is not on.        *)
SaidOff ==
  said.of \in Exts => /\ said.code = "E_UNSUPPORTED"
                      /\ ~host.retiring => said.of \notin host.told

(* While one request names a channel, alone, its name is the Store's.      *)
NameCarried(t) ==
  \A c \in Callers : GivesName(c) /\ conn[c].req.talk = t =>
    /\ \A d \in Callers : GivesName(d) /\ conn[d].req.talk = t => d = c
    /\ Step(c) \in {"open", "message"} => conn[c].req.name = label_of(t, names[t].client)
    /\ Step(c) = "open" /\ conn[c].req.keep /\ Labelled(t) => conn[c].req.name = room[t].label
    /\ Step(c) = "message" => ~Labelled(t) /\ room[t].open = conn[c].req.was_open
    /\ Step(c) = "rename" => conn[c].req.name = names[t].own
NameKept(t) ==
  /\ ~room[t].open => room[t].label = NoName
  /\ ~room[t].parted =>
       /\ NameCarried(t)
       /\ Labelled(t) /\ ~Naming(t) => room[t].label = label_of(t, names[t].client)
NamesKept == \A t \in Talks : NameKept(t)

(* The inductive invariant.                                                *)
ProtocolIInv ==
  ProtocolType /\ LocksHeld /\ LayersBuilt /\ SaidOff /\ NamesKept /\ SummariesStored

-----------------------------------------------------------------------------
(* What replies and steps do to the connections.                           *)

Waits == {"rest", "hello", "enable", "slot"}

(* The connections have their type, and only c changes.                    *)
Moves(c) == /\ conn' \in [Callers -> ConnType]
            /\ \A d \in Callers \ {c} : conn'[d] = conn[d]
(* ... and has nothing more to do.                                         *)
Rests(c) == Moves(c) /\ conn'[c].req.at = "rest"

(* The constants of the module are what the code names.                    *)
LEMMA Offers ==
  /\ Offered \subseteq Exts /\ {"channels", "agent"} \subseteq Offered
  /\ NoName \notin Exts /\ NoName \notin Talks /\ NoOne \notin Callers
  /\ NoName \notin OwnNames \cup GivenNames
  /\ Quiet \in ReqType /\ tcp_session \in ConnType /\ http_session \in ConnType
<1>1. Offered \subseteq Exts /\ {"channels", "agent"} \subseteq Offered
  BY ProtocolAssumption DEF Exts
<1>2. NoName \notin Exts /\ NoName \notin Talks /\ NoOne \notin Callers /\ NoName \notin OwnNames \cup GivenNames
  BY ProtocolAssumption DEF Exts, Callers
<1>3. Quiet \in ReqType
  BY DEF Quiet, ReqType, Label
<1>4. tcp_session \in ConnType /\ http_session \in ConnType
  BY <1>3 DEF tcp_session, http_session, ConnType
<1> QED  BY <1>1, <1>2, <1>3, <1>4

(* A reply ends the request and leaves the other connections alone.        *)
LEMMA Replies ==
  ASSUME NEW c \in Callers, NEW s \in ConnType, NEW code, NEW of, conn \in [Callers -> ConnType],
         Reply(c, s, code, of)
  PROVE  /\ Rests(c) /\ conn'[c].req = Quiet
         /\ said' = IF of = NoName THEN Silent ELSE [code |-> code, of |-> of]
<1>1. conn' = [conn EXCEPT ![c] = [s EXCEPT !.req = Quiet, !.open = @ /\ ~Closed_by(c, code)]]
  BY DEF Reply, Becomes
<1>2. (s.open /\ ~Closed_by(c, code)) \in BOOLEAN
  BY DEF Closed_by
<1>3. [s EXCEPT !.req = Quiet, !.open = @ /\ ~Closed_by(c, code)] \in ConnType
  BY <1>2, Offers DEF ConnType
<1>4. Moves(c)
  BY <1>1, <1>3 DEF Moves
<1>5. conn'[c].req = Quiet
  BY <1>1 DEF ConnType
<1>6. said' = IF of = NoName THEN Silent ELSE [code |-> code, of |-> of]
  BY DEF Reply
<1> QED  BY <1>4, <1>5, <1>6 DEF Rests, Quiet

(* An answer says nothing of an extension.                                 *)
LEMMA AnswerRests ==
  ASSUME NEW c \in Callers, NEW codes, conn \in [Callers -> ConnType], Answers(c, codes)
  PROVE  Rests(c) /\ conn'[c].req = Quiet /\ said' = Silent
<1>1. PICK code \in codes : Reply(c, conn[c], code, NoName)
  BY DEF Answers
<1> QED  BY <1>1, Replies

(* A step of a request that goes on.                                       *)
LEMMA GoesOn ==
  ASSUME NEW c \in Callers, NEW req \in ReqType, conn \in [Callers -> ConnType], Goes_on(c, req)
  PROVE  Moves(c) /\ conn'[c].req = req /\ conn'[c].open = conn[c].open /\ said' = said
<1>1. conn' = [conn EXCEPT ![c] = [conn[c] EXCEPT !.req = req]]
  BY DEF Goes_on, Becomes
<1>2. [conn[c] EXCEPT !.req = req] \in ConnType
  BY DEF ConnType
<1> QED  BY <1>1, <1>2 DEF Moves, Goes_on, ConnType

-----------------------------------------------------------------------------
(* What a step of one connection leaves alone.                             *)

(* A connection that is not in a slot, before or after, leaves the layers. *)
LEMMA LayersFrame ==
  ASSUME LayersBuilt, NEW c \in Callers, Moves(c), Step(c) # "slot", Step(c)' # "slot",
         host'.built = host.built, host'.on = host.on, host'.told \subseteq host.told \cup host.on,
         ~host'.retiring => ~host.retiring
  PROVE  LayersBuilt'
<1>1. \A d \in Callers : /\ Step(d)' = "slot" <=> Step(d) = "slot"
                         /\ Step(d) = "slot" => Slot(d)' = Slot(d)
  BY DEF Moves, Step, Slot
<1> QED  BY <1>1 DEF LayersBuilt

(* A channel keeps its name when neither it nor its names change, and c    *)
(* does not name it before or after.                                       *)
LEMMA NameFrame ==
  ASSUME NEW t \in Talks, NameKept(t), NEW c \in Callers, Moves(c),
         ~(GivesName(c) /\ conn[c].req.talk = t), ~(GivesName(c)' /\ conn'[c].req.talk = t),
         room'[t] = room[t], names'[t] = names[t]
  PROVE  NameKept(t)'
<1>1. \A d \in Callers : /\ (GivesName(d)' /\ conn'[d].req.talk = t) <=> (GivesName(d) /\ conn[d].req.talk = t)
                         /\ GivesName(d)' /\ conn'[d].req.talk = t => conn'[d] = conn[d]
  BY DEF Moves, GivesName
<1>2. Naming(t)' <=> Naming(t)
  BY <1>1 DEF Naming
<1>3. Labelled(t)' <=> Labelled(t)
  BY DEF Labelled
<1>4. label_of(t, names[t].client)' = label_of(t, names[t].client)
  BY DEF label_of
<1>5. NameCarried(t) => NameCarried(t)'
  BY <1>1, <1>3, <1>4 DEF NameCarried, Step
<1> QED  BY <1>2, <1>3, <1>4, <1>5 DEF NameKept

(* A step that gives no name and touches no channel keeps them all.        *)
LEMMA NamesFrame ==
  ASSUME NamesKept, NEW c \in Callers, Moves(c), ~GivesName(c), ~GivesName(c)',
         UNCHANGED <<room, names>>
  PROVE  NamesKept'
<1>1. SUFFICES ASSUME NEW t \in Talks
               PROVE  NameKept(t)'
  BY DEF NamesKept
<1> QED  BY <1>1, NameFrame DEF NamesKept

-----------------------------------------------------------------------------
(* Requests that only end, with a reply.                                   *)

(* Silence, and a reply that names no extension.                           *)
LEMMA Silence ==
  ASSUME said' = Silent \/ (\E code, of : said' = [code |-> code, of |-> of] /\ of \notin Exts)
  PROVE  SaidOff'
BY Offers DEF SaidOff, Silent

(* A request that waits for nothing and ends touches no lock, no layer and *)
(* no name; it may start the exit, and list what is on.                    *)
LEMMA Harmless ==
  ASSUME ProtocolIInv, NEW c \in Callers, Rests(c), Step(c) \in {"rest", "hello"}, SaidOff',
         UNCHANGED <<room, names, sums>>, host' \in HostType,
         host'.built = host.built, host'.on = host.on, host'.enabling = host.enabling,
         host'.admitted = host.admitted, host'.setting = host.setting,
         host'.told \subseteq host.told \cup host.on, ~host'.retiring => ~host.retiring
  PROVE  ProtocolIInv'
<1> USE DEF ProtocolIInv
<1>1. ProtocolType'
  BY DEF ProtocolType, Rests, Moves
<1>2. LocksHeld'
  BY DEF LocksHeld, Rests, Moves, Step
<1>3. LayersBuilt'
  BY LayersFrame DEF Rests, Step
<1>4. NamesKept'
  BY NamesFrame DEF Rests, GivesName, Step
<1>5. SummariesStored'
  BY DEF SummariesStored, is_on
<1> QED  BY <1>1, <1>2, <1>3, <1>4, <1>5

(* ... with the host left as it is.                                        *)
LEMMA Ends ==
  ASSUME ProtocolIInv, NEW c \in Callers, Rests(c), Step(c) \in {"rest", "hello"}, SaidOff',
         UNCHANGED <<host, room, names, sums>>
  PROVE  ProtocolIInv'
BY Harmless DEF ProtocolIInv, ProtocolType

(* ... and answered.                                                       *)
LEMMA AnswerEnds ==
  ASSUME ProtocolIInv, NEW c \in Callers, NEW codes, Answers(c, codes), Step(c) \in {"rest", "hello"},
         UNCHANGED <<host, room, names, sums>>
  PROVE  ProtocolIInv'
BY AnswerRests, Silence, Ends DEF ProtocolIInv, ProtocolType

(* An extension that is not on may be refused as unsupported.              *)
LEMMA UnsupportedEnds ==
  ASSUME ProtocolIInv, NEW c \in Callers, NEW e, Unsupported(c, e), Step(c) \in {"rest", "hello"},
         e \in Exts => e \notin host.on, UNCHANGED <<host, room, names, sums>>
  PROVE  ProtocolIInv'
<1>1. Rests(c) /\ said' = IF e = NoName THEN Silent ELSE [code |-> "E_UNSUPPORTED", of |-> e]
  BY Replies DEF Unsupported, ProtocolIInv, ProtocolType
<1>2. SaidOff'
  BY <1>1, Offers DEF SaidOff, Silent, ProtocolIInv, LayersBuilt
<1> QED  BY <1>1, <1>2, Ends

(* What is missing is of an extension that is not on, or of none.          *)
LEMMA MissingEnds ==
  ASSUME ProtocolIInv, NEW c \in Callers, NEW e, NEW found, NEW unknown, Missing(c, e, found, unknown),
         Step(c) \in {"rest", "hello"}, UNCHANGED <<host, room, names, sums>>,
         e \in Exts => /\ found # "unknown"
                       /\ found = "unsupported" => e \notin host.on
  PROVE  ProtocolIInv'
<1>1. CASE found = "unsupported" /\ Unsupported(c, e)
  BY <1>1, UnsupportedEnds
<1>2. CASE found = "unknown" /\ Reply(c, conn[c], unknown, e)
  <2>1. Rests(c) /\ said' = IF e = NoName THEN Silent ELSE [code |-> unknown, of |-> e]
    BY <1>2, Replies DEF ProtocolIInv, ProtocolType
  <2>2. SaidOff'
    BY <2>1, <1>2, Silence
  <2> QED  BY <2>1, <2>2, Ends
<1> QED  BY <1>1, <1>2 DEF Missing

(* A message, an action or a key of an extension is never unknown, and     *)
(* unsupported only when the extension is off.                             *)
LEMMA DispatchKnows ==
  ASSUME NEW e \in Exts, NEW kind \in TYPES[e]
  PROVE  /\ dispatch(kind) # "unknown"
         /\ dispatch(kind) = "unsupported" => e \notin host.on
BY DEF dispatch, OfType, is_on
LEMMA SettingKnows ==
  ASSUME NEW e \in Exts, NEW key \in KEYS[e]
  PROVE  /\ extension_setting(key) # "unknown"
         /\ extension_setting(key) = "unsupported" => e \notin host.on
BY DEF extension_setting, is_on
LEMMA ControlKnows ==
  ASSUME NEW e \in Exts, NEW action \in CONTROLS[e], "agent" \in host.on => "channels" \in host.on
  PROVE  /\ control_now(action) # "unknown"
         /\ control_now(action) = "unsupported" => e \notin host.on
<1>1. /\ CONTROLS["channels"] = {"next_channel", "back", "flush"}
      /\ CONTROLS["agent"] = {"next_question", "previous_question"} /\ CONTROLS["system"] = {}
  BY DEF CONTROLS
<1>2. e \in {"channels", "agent"}
  BY <1>1 DEF Exts
<1>3. CASE e = "agent"
  BY <1>1, <1>3 DEF control_now, is_on, Exts
<1>4. CASE e = "channels"
  <2>1. action \notin CONTROLS["agent"]
    BY <1>1, <1>4
  <2> QED  BY <2>1, <1>4 DEF control_now, is_on, Exts
<1> QED  BY <1>2, <1>3, <1>4

(* Requests that end at once, whatever they are answered.                  *)
LEMMA OthersKeep ==
  ASSUME ProtocolIInv, NEW c \in Callers, Others(c)
  PROVE  ProtocolIInv'
<1> USE DEF Step
<1>0. conn \in [Callers -> ConnType] /\ host \in HostType
  BY DEF ProtocolIInv, ProtocolType
<1>1. CASE Refused(c)
  BY <1>1, AnswerEnds DEF Refused, Asking, AtRest_
<1>2. CASE Core(c)
  BY <1>2, AnswerEnds DEF Core, handles, Asking, AtRest_
<1>3. CASE EngineMessage(c)
  <2>1. "engines" \notin Exts
    BY DEF Exts
  <2> QED  BY <2>1, <1>3, AnswerEnds, UnsupportedEnds DEF EngineMessage, handles, Asking, AtRest_
<1>4. CASE NotFound(c)
  <2>1. Step(c) = "rest" /\ UNCHANGED <<host, room, names, sums>>
    BY <1>4 DEF NotFound, handles, Asking, AtRest_
  <2>2. "agent" \in host.on => "channels" \in host.on
    BY DEF ProtocolIInv, LayersBuilt
  <2>3. CASE \E e \in Exts : \E kind \in TYPES[e] : Missing(c, e, dispatch(kind), "E_UNKNOWN_TYPE")
    BY <2>1, <2>3, DispatchKnows, MissingEnds
  <2>4. CASE \E e \in Exts : \E a \in CONTROLS[e] : Missing(c, e, control_now(a), "E_BAD_REQUEST")
    BY <2>1, <2>2, <2>4, ControlKnows, MissingEnds
  <2>5. CASE \E e \in Exts : \E key \in KEYS[e] : Missing(c, e, extension_setting(key), "E_BAD_REQUEST")
    BY <2>1, <2>5, SettingKnows, MissingEnds
  <2>6. CASE \/ Missing(c, NoName, dispatch("other"), "E_UNKNOWN_TYPE")
             \/ Missing(c, NoName, control_now("other"), "E_BAD_REQUEST")
             \/ Missing(c, NoName, extension_setting("other"), "E_BAD_REQUEST")
    BY <2>1, <2>6, Offers, MissingEnds
  <2> QED  BY <1>4, <2>3, <2>4, <2>5, <2>6 DEF NotFound
<1>5. CASE ChannelControl(c)
  BY <1>5, AnswerEnds DEF ChannelControl, handles, Asking, AtRest_
<1>6. CASE Shows(c)
  BY <1>6, AnswerEnds DEF Shows, handles, Asking, AtRest_
<1>7. CASE SystemMessage(c)
  <2>1. "preview" \notin Exts
    BY DEF Exts
  <2> QED  BY <2>1, <1>7, AnswerEnds, UnsupportedEnds DEF SystemMessage, handles, Asking, AtRest_
<1>8. CASE Subscribe(c)
  <2>1. Step(c) = "rest" /\ UNCHANGED <<host, room, names, sums>>
    BY <1>8 DEF Subscribe, handles, Asking, AtRest_
  <2>2. CASE Answers(c, {"E_BAD_REQUEST"})
    BY <2>1, <2>2, AnswerEnds
  <2>3. CASE \E e \in {"agent", "system"} : ~is_on(e) /\ Unsupported(c, e)
    BY <2>1, <2>3, UnsupportedEnds DEF is_on
  <2>4. CASE \E streams \in SUBSET {"state", "earcons", "cues"} :
               Reply(c, [conn[c] EXCEPT !.stream = streams], "ok", NoName)
    <3>1. PICK streams \in SUBSET {"state", "earcons", "cues"} :
            Reply(c, [conn[c] EXCEPT !.stream = streams], "ok", NoName)
      BY <2>4
    <3>2. [conn[c] EXCEPT !.stream = streams] \in ConnType
      BY <1>0 DEF ConnType
    <3>3. Rests(c) /\ said' = Silent
      BY <1>0, <3>1, <3>2, Replies
    <3> QED  BY <2>1, <3>3, Silence, Ends
  <2> QED  BY <1>8, <2>2, <2>3, <2>4 DEF Subscribe
<1>9. CASE shutdown(c)
  <2>1. Rests(c) /\ said' = Silent
    BY <1>0, <1>9, AnswerRests DEF shutdown
  <2>2. host' = [host EXCEPT !.retiring = TRUE] /\ UNCHANGED <<room, names, sums>> /\ Step(c) = "rest"
    BY <1>9 DEF shutdown, handles, Asking, AtRest_
  <2>3. host' \in HostType
    BY <1>0, <2>2 DEF HostType
  <2> QED  BY <1>0, <2>1, <2>2, <2>3, Silence, Harmless DEF HostType
<1>10. CASE LineEnds(c)
  <2>1. [conn[c] EXCEPT !.open = FALSE] \in ConnType
    BY <1>0 DEF ConnType
  <2>2. Rests(c)
    BY <1>0, <1>10, <2>1 DEF LineEnds, AtRest_, Becomes, Rests, Moves, ConnType
  <2>3. SaidOff'
    BY <1>10 DEF LineEnds, ProtocolIInv, SaidOff
  <2> QED  BY <1>10, <2>2, <2>3, Ends DEF LineEnds, AtRest_
<1>11. CASE LineComes(c)
  <2>1. Rests(c)
    BY <1>0, <1>11, Offers DEF LineComes, Becomes, Rests, Moves, tcp_session, Quiet
  <2>2. SaidOff' /\ Step(c) = "rest"
    BY <1>11 DEF LineComes, ProtocolIInv, SaidOff, LocksHeld
  <2> QED  BY <1>11, <2>1, <2>2, Ends DEF LineComes
<1> QED  BY <1>1, <1>2, <1>3, <1>4, <1>5, <1>6, <1>7, <1>8, <1>9, <1>10, <1>11 DEF Others

-----------------------------------------------------------------------------
(* `hello` and the extensions it enables.                                  *)

(* A step of a hello that goes on: it names no channel and says nothing.   *)
LEMMA HelloGoesOn ==
  ASSUME ProtocolIInv, NEW c \in Callers, Moves(c), Step(c) \in Waits, Step(c)' \in Waits,
         conn'[c].open = conn[c].open, conn[c].open,
         Step(c)' \in {"enable", "slot"} => host'.enabling = c /\ conn'[c].req.ext \in Offered,
         host' \in HostType, host'.enabling \in {host.enabling, c, NoOne},
         host'.enabling # host.enabling => host.enabling \in {c, NoOne},
         host'.admitted = host.admitted, host'.setting = host.setting,
         host'.told = host.told, host'.retiring = host.retiring,
         UNCHANGED <<said, room, names>>
  PROVE  /\ LocksHeld' /\ SaidOff' /\ NamesKept'
         /\ sums' \in SumsType => ProtocolType'
<1> USE DEF ProtocolIInv
<1>1. LocksHeld'
  <2>1. ASSUME NEW d \in Callers \ {c}
        PROVE  /\ conn'[d] = conn[d]
               /\ Step(d) \in {"enable", "slot"} => host'.enabling = host.enabling
    BY Offers DEF LocksHeld, Moves, Step
  <2>2. Step(c)' \notin {"open", "message", "rename"}
    BY DEF Waits
  <2>3. /\ conn'[c].open
        /\ Step(c)' \in {"enable", "slot"} => host'.enabling = c /\ conn'[c].req.ext \in Offered
    OBVIOUS
  <2>4. \A d \in Callers \ {c} :
          /\ ~conn'[d].open => Step(d)' = "rest"
          /\ Step(d)' \in {"enable", "slot"} => host'.enabling = d /\ conn'[d].req.ext \in Offered
          /\ Step(d)' \in {"open", "message"} => host'.admitted = d /\ conn'[d].req.talk \in Talks
          /\ Step(d)' = "rename" => host'.setting = d /\ conn'[d].req.talk \in Talks
    BY <2>1 DEF LocksHeld, Step
  <2> HIDE DEF Step
  <2> QED  BY <2>2, <2>3, <2>4 DEF LocksHeld
<1>2. SaidOff'
  BY DEF SaidOff
<1>3. NamesKept'
  BY NamesFrame DEF GivesName, Step, Waits
<1>4. sums' \in SumsType => ProtocolType'
  BY DEF ProtocolType, Moves
<1> QED  BY <1>1, <1>2, <1>3, <1>4

(* The layer that is built next is one the extension lacks, and stands on  *)
(* the ones it needs.                                                      *)
LEMMA NextLayer ==
  ASSUME NEW c \in Callers, conn[c].req.ext \in Offered, Lacks(c) # {}
  PROVE  /\ Next_layer(c) \in Offered /\ Next_layer(c) \notin host.on
         /\ Next_layer(c) = "agent" => "channels" \in host.on
         /\ Next_layer(c) = "system" <=> conn[c].req.ext = "system"
<1>1. conn[c].req.ext \in {"channels", "agent", "system"}
  BY Offers DEF Exts
<1> QED  BY <1>1, Offers DEF Next_layer, Lacks, Needs

(* The layer that is built was not, and nobody else is building.           *)
LEMMA BuildsKeep ==
  ASSUME ProtocolIInv, NEW c \in Callers, EnableBuilds(c)
  PROVE  ProtocolIInv'
<1> DEFINE n == Next_layer(c)
           on == IF conn[c].req.ext = "system" THEN host.on \cup {"system"} ELSE host.on
           req == [conn[c].req EXCEPT !.at = "slot", !.layer = n]
<1> USE DEF ProtocolIInv
<1>0. conn \in [Callers -> ConnType] /\ conn[c].req \in ReqType /\ host \in HostType
  BY DEF ProtocolType, ConnType
<1>1. /\ Step(c) = "enable" /\ Lacks(c) # {} /\ UNCHANGED <<room, names, sums>>
      /\ host' = [host EXCEPT !.built[n] = @ + 1, !.on = on]
      /\ Goes_on(c, req)
  BY DEF EnableBuilds, Doing, Step
<1>2. host.enabling = c /\ conn[c].req.ext \in Offered /\ conn[c].open
  BY <1>1 DEF LocksHeld
<1>3. /\ n \in Offered /\ n \in Exts /\ n \notin host.on
      /\ n = "agent" => "channels" \in host.on
      /\ n = "system" <=> conn[c].req.ext = "system"
  BY <1>1, <1>2, NextLayer, Offers
<1> HIDE DEF n
<1>4. \A d \in Callers : Step(d) # "slot"
  BY <1>1, <1>2 DEF LocksHeld
<1>5. host.built \in [Exts -> {0, 1}] /\ host.built[n] = 0
  BY <1>0, <1>3, <1>4 DEF LayersBuilt, HostType
<1>6. on \in SUBSET Offered /\ host.on \subseteq on
  BY <1>0, <1>2 DEF HostType
<1>7. [host.built EXCEPT ![n] = 1] \in [Exts -> {0, 1}]
  BY <1>5
<1>8. host' = [host EXCEPT !.built = [host.built EXCEPT ![n] = 1], !.on = on]
  BY <1>0, <1>1, <1>3, <1>5 DEF HostType
<1>9. host' \in HostType
  BY <1>0, <1>6, <1>7, <1>8 DEF HostType
<1>10. req \in ReqType
  BY <1>0, <1>3 DEF ReqType
<1>11. Moves(c) /\ conn'[c].req = req /\ conn'[c].open = conn[c].open /\ said' = said
  BY <1>0, <1>1, <1>10, GoesOn
<1>12. Step(c)' = "slot" /\ Slot(c)' = n /\ conn'[c].req.ext = conn[c].req.ext
  BY <1>0, <1>11 DEF Step, Slot, ReqType
<1>13. /\ host'.built = [host.built EXCEPT ![n] = 1] /\ host'.on = on
       /\ host'.enabling = host.enabling /\ host'.admitted = host.admitted
       /\ host'.setting = host.setting /\ host'.told = host.told /\ host'.retiring = host.retiring
  BY <1>0, <1>8 DEF HostType
<1>14. LocksHeld' /\ SaidOff' /\ NamesKept' /\ ProtocolType'
  <2>1. sums' \in SumsType
    BY <1>1 DEF ProtocolType
  <2> QED  BY <1>1, <1>2, <1>9, <1>11, <1>12, <1>13, <2>1, HelloGoesOn DEF Waits
<1>15. \A d \in Callers \ {c} : Step(d)' # "slot"
  BY <1>4, <1>11 DEF Moves, Step
<1>16. LayersBuilt'
  <2>1. \A e \in Exts : host'.built[e] = 1 => e \in host'.on \/ e = n
    BY <1>4, <1>5, <1>6, <1>13 DEF LayersBuilt
  <2>2. host'.built[n] = 1
    BY <1>3, <1>5, <1>13
  <2>3. "agent" \in host'.on => "channels" \in host'.on
    BY <1>13 DEF LayersBuilt
  <2>4. ~host'.retiring => host'.told \subseteq host'.on
    BY <1>6, <1>13 DEF LayersBuilt
  <2>5. /\ n = "agent" => "channels" \in host'.on
        /\ n = "system" => "system" \in host'.on
    BY <1>3, <1>6, <1>13
  <2> QED  BY <1>3, <1>12, <1>15, <2>1, <2>2, <2>3, <2>4, <2>5 DEF LayersBuilt
<1>17. SummariesStored'
  BY <1>1, <1>13 DEF SummariesStored, is_on
<1> QED  BY <1>14, <1>16, <1>17

(* A layer that was built gets its slot; the agent reads what is stored.   *)
LEMMA SetsKeep ==
  ASSUME ProtocolIInv, NEW c \in Callers, EnableSets(c)
  PROVE  ProtocolIInv'
<1> DEFINE n == conn[c].req.layer
           req == [conn[c].req EXCEPT !.at = "enable", !.layer = NoName]
<1> USE DEF ProtocolIInv
<1>0. /\ conn \in [Callers -> ConnType] /\ conn[c].req \in ReqType /\ host \in HostType
      /\ sums \in SumsType
  BY DEF ProtocolType, ConnType
<1>1. /\ Step(c) = "slot" /\ UNCHANGED <<room, names>>
      /\ host' = [host EXCEPT !.on = @ \cup {n}]
      /\ sums' = IF n = "agent" THEN [sums EXCEPT !.now = settings_from] ELSE sums
      /\ Goes_on(c, req)
  BY DEF EnableSets, Doing, Step
<1>2. host.enabling = c /\ conn[c].req.ext \in Offered /\ conn[c].open
  BY <1>1 DEF LocksHeld
<1>3. n \in Offered /\ (n = "agent" => "channels" \in host.on)
  BY <1>1 DEF LayersBuilt, Slot
<1> HIDE DEF n
<1>4. \A d \in Callers \ {c} : Step(d) # "slot"
  BY <1>1, <1>2 DEF LocksHeld
<1>5. host' \in HostType
  BY <1>0, <1>1, <1>3 DEF HostType
<1>6. req \in ReqType
  BY <1>0 DEF ReqType
<1>7. Moves(c) /\ conn'[c].req = req /\ conn'[c].open = conn[c].open /\ said' = said
  BY <1>0, <1>1, <1>6, GoesOn
<1>8. Step(c)' = "enable" /\ conn'[c].req.ext = conn[c].req.ext
  BY <1>0, <1>7 DEF Step, ReqType
<1>9. /\ host'.built = host.built /\ host'.on = host.on \cup {n}
      /\ host'.enabling = host.enabling /\ host'.admitted = host.admitted
      /\ host'.setting = host.setting /\ host'.told = host.told /\ host'.retiring = host.retiring
  BY <1>0, <1>1 DEF HostType
<1>10. settings_from \in [enabled : BOOLEAN, style : Styles, prompt : Texts \cup {NoName}]
  BY <1>0, ProtocolAssumption DEF settings_from, SumsType, PromptType
<1>11. sums' \in SumsType
  BY <1>0, <1>1, <1>10 DEF SumsType
<1>12. LocksHeld' /\ SaidOff' /\ NamesKept' /\ ProtocolType'
  BY <1>1, <1>2, <1>5, <1>7, <1>8, <1>9, <1>11, HelloGoesOn DEF Waits
<1>13. \A d \in Callers : Step(d)' # "slot"
  BY <1>4, <1>7, <1>8 DEF Moves, Step
<1>14. LayersBuilt'
  <2>1. \A e \in Exts : host.built[e] = 1 => e \in host.on \/ e = n
    BY <1>4 DEF LayersBuilt, Slot, n
  <2> QED  BY <1>3, <1>9, <1>13, <2>1 DEF LayersBuilt
<1>15. SummariesStored'
  <2>1. CASE n = "agent"
    <3>1. sums'.now = settings_from /\ sums'.prompts = sums.prompts /\ sums'.style = sums.style
          /\ sums'.enabled = sums.enabled
      BY <1>0, <1>1, <2>1 DEF SumsType
    <3> QED  BY <3>1 DEF SummariesStored, settings_from
  <2>2. CASE n # "agent"
    BY <1>1, <1>9, <2>2 DEF SummariesStored, is_on
  <2> QED  BY <2>1, <2>2
<1> QED  BY <1>12, <1>14, <1>15

(* A layer that could not be built is not counted, once the host exits.    *)
LEMMA FailsKeep ==
  ASSUME ProtocolIInv, NEW c \in Callers, EnableFails(c)
  PROVE  ProtocolIInv'
<1> DEFINE n == conn[c].req.layer
           on == IF n = "system" THEN host.on \ {"system"} ELSE host.on
<1> USE DEF ProtocolIInv
<1>0. conn \in [Callers -> ConnType] /\ conn[c].req \in ReqType /\ host \in HostType
  BY DEF ProtocolType, ConnType
<1>1. /\ Step(c) = "slot" /\ host.retiring /\ UNCHANGED <<room, names, sums>>
      /\ host' = [host EXCEPT !.on = on, !.enabling = NoOne, !.built[n] = @ - 1]
      /\ Answers(c, {"E_ENGINE"})
  BY DEF EnableFails, Doing, Step, exiting
<1>2. host.enabling = c
  BY <1>1 DEF LocksHeld
<1>3. n \in Exts /\ host.built[n] = 1 /\ host.built \in [Exts -> {0, 1}]
  BY <1>0, <1>1, Offers DEF LayersBuilt, Slot, HostType
<1> HIDE DEF n
<1>4. \A d \in Callers \ {c} : Step(d) \notin {"enable", "slot"}
  BY <1>1, <1>2 DEF LocksHeld
<1>5. Rests(c) /\ conn'[c].req = Quiet /\ said' = Silent
  BY <1>0, <1>1, AnswerRests
<1>6. host' = [host EXCEPT !.on = on, !.enabling = NoOne, !.built = [host.built EXCEPT ![n] = 0]]
  BY <1>0, <1>1, <1>3 DEF HostType
<1>7. [host.built EXCEPT ![n] = 0] \in [Exts -> {0, 1}] /\ on \in SUBSET Offered
  BY <1>0, <1>3 DEF HostType
<1>8. host' \in HostType
  BY <1>0, <1>6, <1>7 DEF HostType
<1>9. /\ host'.built = [host.built EXCEPT ![n] = 0] /\ host'.on = on
      /\ host'.admitted = host.admitted /\ host'.setting = host.setting /\ host'.retiring
  BY <1>0, <1>1, <1>6 DEF HostType
<1>10. ProtocolType'
  BY <1>1, <1>5, <1>8 DEF ProtocolType, Rests, Moves
<1>11. LocksHeld'
  BY <1>4, <1>5, <1>9 DEF LocksHeld, Rests, Moves, Step
<1>12. \A d \in Callers : Step(d)' # "slot"
  BY <1>4, <1>5 DEF Rests, Moves, Step
<1>13. LayersBuilt'
  <2>1. \A e \in Exts : host'.built[e] = 1 => e # n /\ host.built[e] = 1
    BY <1>3, <1>9
  <2>2. \A e \in Exts : host'.built[e] = 1 => e \in host'.on
    BY <1>4, <1>9, <2>1 DEF LayersBuilt, Slot, n
  <2>3. "agent" \in host'.on => "channels" \in host'.on
    BY <1>9 DEF LayersBuilt
  <2> QED  BY <1>9, <1>12, <2>2, <2>3 DEF LayersBuilt
<1>14. SaidOff'
  BY <1>5, Silence
<1>15. NamesKept'
  BY <1>1, <1>5, NamesFrame DEF Rests, GivesName, Step
<1>16. SummariesStored'
  BY <1>1, <1>9 DEF SummariesStored, is_on
<1> QED  BY <1>10, <1>11, <1>13, <1>14, <1>15, <1>16

(* Every step of a hello.                                                  *)
LEMMA HellosKeep ==
  ASSUME ProtocolIInv, NEW c \in Callers, Hellos(c)
  PROVE  ProtocolIInv'
<1> USE DEF ProtocolIInv
<1>0. /\ conn \in [Callers -> ConnType] /\ conn[c].req \in ReqType /\ host \in HostType
      /\ sums \in SumsType
  BY DEF ProtocolType, ConnType
<1>1. CASE HelloRefused(c)
  <2>1. Step(c) = "rest" /\ UNCHANGED <<host, room, names, sums>>
    BY <1>1 DEF HelloRefused, Asking, AtRest_, Step
  <2>2. CASE \E codes : Answers(c, codes)
    BY <2>1, <2>2, AnswerEnds
  <2>3. CASE \E e \in Foreign \cup (Exts \ Offered) : Unsupported(c, e)
    <3>1. PICK e \in Foreign \cup (Exts \ Offered) : Unsupported(c, e)
      BY <2>3
    <3>2. e \in Exts => e \notin host.on
      BY <1>0, ProtocolAssumption DEF Exts, HostType
    <3> QED  BY <2>1, <3>1, <3>2, UnsupportedEnds
  <2> QED  BY <1>1, <2>2, <2>3 DEF HelloRefused
<1>2. CASE HelloTakes(c)
  <2>1. Rests(c) /\ said' = Silent
    BY <1>0, <1>2, AnswerRests DEF HelloTakes
  <2>2. /\ host' = [host EXCEPT !.retiring = TRUE, !.told = host.told \cup host.on]
        /\ UNCHANGED <<room, names, sums>> /\ Step(c) = "rest"
    BY <1>2 DEF HelloTakes, hello_fields, Asking, AtRest_, Step
  <2>3. host' \in HostType
    BY <1>0, <2>2 DEF HostType
  <2> QED  BY <1>0, <2>1, <2>2, <2>3, Silence, Harmless DEF HostType
<1>3. CASE hello(c)
  <2>1. PICK listed \in SUBSET Offered :
          Goes_on(c, [Quiet EXCEPT !.at = "hello", !.todo = listed, !.system = "system" \in listed])
    BY <1>3 DEF hello
  <2>2. [Quiet EXCEPT !.at = "hello", !.todo = listed, !.system = "system" \in listed] \in ReqType
    <3>1. ("system" \in listed) \in BOOLEAN
      OBVIOUS
    <3> HIDE DEF Quiet
    <3> QED  BY <3>1, Offers DEF ReqType
  <2>3. Moves(c) /\ conn'[c].open = conn[c].open /\ Step(c)' = "hello" /\ said' = said
    BY <1>0, <2>1, <2>2, GoesOn, ZenonT(60) DEF Step, Quiet
  <2>4. Step(c) = "rest" /\ conn[c].open /\ UNCHANGED <<host, room, names, sums>>
    BY <1>3 DEF hello, Asking, AtRest_, Step
  <2>5. LocksHeld' /\ SaidOff' /\ NamesKept' /\ ProtocolType'
    BY <1>0, <2>3, <2>4, HelloGoesOn DEF Waits
  <2>6. LayersBuilt' /\ SummariesStored'
    BY <2>3, <2>4, LayersFrame DEF SummariesStored, is_on
  <2> QED  BY <2>5, <2>6
<1>4. CASE enable(c)
  <2>1. PICK e \in conn[c].req.todo :
          Goes_on(c, [conn[c].req EXCEPT !.at = "enable", !.ext = e, !.todo = @ \ {e}])
    BY <1>4 DEF enable
  <2>2. e \in Offered /\ e \in Exts
    BY <1>0, Offers DEF ReqType
  <2>3. [conn[c].req EXCEPT !.at = "enable", !.ext = e, !.todo = @ \ {e}] \in ReqType
    BY <1>0, <2>2 DEF ReqType
  <2>4. /\ Moves(c) /\ conn'[c].open = conn[c].open /\ Step(c)' = "enable" /\ said' = said
        /\ conn'[c].req.ext = e
    <3>1. /\ Moves(c) /\ conn'[c].open = conn[c].open /\ said' = said
          /\ conn'[c].req = [conn[c].req EXCEPT !.at = "enable", !.ext = e, !.todo = @ \ {e}]
      BY <1>0, <2>1, <2>3, GoesOn
    <3> QED  BY <1>0, <3>1 DEF Step, ReqType
  <2>5. /\ Step(c) = "hello" /\ host.enabling = NoOne /\ UNCHANGED <<room, names, sums>>
        /\ host' = [host EXCEPT !.enabling = c]
    BY <1>4 DEF enable, Doing, Step
  <2>6. host' \in HostType
    BY <1>0, <2>5 DEF HostType
  <2>7. /\ host'.enabling = c /\ host'.admitted = host.admitted /\ host'.setting = host.setting
        /\ host'.told = host.told /\ host'.retiring = host.retiring /\ host'.built = host.built
        /\ host'.on = host.on
    BY <1>0, <2>5 DEF HostType
  <2>8. conn[c].open
    BY <2>5 DEF LocksHeld
  <2>9. LocksHeld' /\ SaidOff' /\ NamesKept' /\ ProtocolType'
    BY <1>0, <2>2, <2>4, <2>5, <2>6, <2>7, <2>8, HelloGoesOn DEF Waits
  <2>10. LayersBuilt' /\ SummariesStored'
    BY <2>4, <2>5, <2>7, LayersFrame DEF SummariesStored, is_on
  <2> QED  BY <2>9, <2>10
<1>5. CASE EnableBuilds(c)
  BY <1>5, BuildsKeep
<1>6. CASE EnableSets(c)
  BY <1>6, SetsKeep
<1>7. CASE EnableEnds(c)
  <2> DEFINE req == [conn[c].req EXCEPT !.at = "hello", !.ext = NoName]
  <2>1. /\ Step(c) = "enable" /\ UNCHANGED <<room, names, sums>> /\ Goes_on(c, req)
        /\ host' = [host EXCEPT !.enabling = NoOne]
    BY <1>7 DEF EnableEnds, Doing, Step
  <2>2. req \in ReqType
    BY <1>0 DEF ReqType
  <2>3. Moves(c) /\ conn'[c].open = conn[c].open /\ Step(c)' = "hello" /\ said' = said
    BY <1>0, <2>1, <2>2, GoesOn DEF Step, ReqType
  <2>4. host' \in HostType
    BY <1>0, <2>1 DEF HostType
  <2>5. /\ host'.enabling = NoOne /\ host'.admitted = host.admitted /\ host'.setting = host.setting
        /\ host'.told = host.told /\ host'.retiring = host.retiring /\ host'.built = host.built
        /\ host'.on = host.on
    BY <1>0, <2>1 DEF HostType
  <2>6. conn[c].open /\ host.enabling = c
    BY <2>1 DEF LocksHeld
  <2>7. LocksHeld' /\ SaidOff' /\ NamesKept' /\ ProtocolType'
    BY <1>0, <2>1, <2>3, <2>4, <2>5, <2>6, HelloGoesOn DEF Waits
  <2>8. LayersBuilt' /\ SummariesStored'
    BY <2>1, <2>3, <2>5, LayersFrame DEF SummariesStored, is_on
  <2> QED  BY <2>7, <2>8
<1>8. CASE EnableFails(c)
  BY <1>8, FailsKeep
<1>9. CASE HelloEnds(c)
  <2>1. Step(c) = "hello" /\ UNCHANGED <<room, names, sums>>
    BY <1>9 DEF HelloEnds, Doing, Step
  <2>2. CASE UNCHANGED host /\ Answers(c, {"E_BAD_REQUEST"})
    BY <2>1, <2>2, AnswerEnds
  <2>3. CASE host' = [host EXCEPT !.told = hello_fields]
    <3> DEFINE s == [conn[c] EXCEPT !.authed = TRUE, !.system = @ \/ (c \in Lines /\ conn[c].req.system)]
    <3>1. CASE Reply(c, s, "ok", NoName)
      <4>1. (conn[c].system \/ (c \in Lines /\ conn[c].req.system)) \in BOOLEAN
        BY <1>0 DEF ConnType
      <4>2. s \in ConnType
        BY <1>0, <4>1 DEF ConnType
      <4>3. Rests(c) /\ said' = Silent
        BY <1>0, <3>1, <4>2, Replies
      <4>4. host' \in HostType
        BY <1>0, <2>3 DEF HostType, hello_fields
      <4> QED  BY <1>0, <2>1, <2>3, <4>3, <4>4, Silence, Harmless DEF HostType, hello_fields
    <3> QED  BY <1>9, <2>2, <3>1 DEF HelloEnds
  <2> QED  BY <1>9, <2>2, <2>3 DEF HelloEnds
<1> QED  BY <1>1, <1>2, <1>3, <1>4, <1>5, <1>6, <1>7, <1>8, <1>9 DEF Hellos

-----------------------------------------------------------------------------
(* The names of channels.                                                  *)

Naming_steps == {"rest", "open", "message", "rename"}

(* A request about channel t takes or leaves the admission or the `set`    *)
(* lock, and leaves the layers and the other channels alone.               *)
LEMMA NamingFrame ==
  ASSUME ProtocolIInv, NEW c \in Callers, NEW t \in Talks, Moves(c),
         Step(c) \in Naming_steps, Step(c)' \in Naming_steps,
         ~conn'[c].open => Step(c)' = "rest",
         Step(c)' \in {"open", "message"} => host'.admitted = c /\ conn'[c].req.talk \in Talks,
         Step(c)' = "rename" => host'.setting = c /\ conn'[c].req.talk \in Talks,
         host' \in HostType, host'.built = host.built, host'.on = host.on,
         host'.enabling = host.enabling, host'.told = host.told, host'.retiring = host.retiring,
         host'.admitted # host.admitted => host.admitted \in {c, NoOne},
         host'.setting # host.setting => host.setting \in {c, NoOne},
         said' \in {said, Silent}, sums' = sums,
         room' \in [Talks -> RoomType], names' \in [Talks -> NameType],
         \A u \in Talks \ {t} : /\ room'[u] = room[u] /\ names'[u] = names[u]
                                /\ ~(GivesName(c) /\ conn[c].req.talk = u)
                                /\ ~(GivesName(c)' /\ conn'[c].req.talk = u),
         NameKept(t)'
  PROVE  ProtocolIInv'
<1> USE DEF ProtocolIInv
<1>1. ProtocolType'
  BY DEF ProtocolType, Moves
<1>2. LocksHeld'
  <2>1. \A d \in Callers \ {c} :
          /\ conn'[d] = conn[d]
          /\ Step(d) \in {"open", "message"} => host'.admitted = host.admitted
          /\ Step(d) = "rename" => host'.setting = host.setting
    BY Offers DEF LocksHeld, Moves, Step
  <2>2. \A d \in Callers \ {c} :
          /\ ~conn'[d].open => Step(d)' = "rest"
          /\ Step(d)' \in {"enable", "slot"} => host'.enabling = d /\ conn'[d].req.ext \in Offered
          /\ Step(d)' \in {"open", "message"} => host'.admitted = d /\ conn'[d].req.talk \in Talks
          /\ Step(d)' = "rename" => host'.setting = d /\ conn'[d].req.talk \in Talks
    BY <2>1 DEF LocksHeld, Step
  <2>3. Step(c)' \notin {"enable", "slot"}
    BY DEF Naming_steps
  <2> QED  BY <2>2, <2>3 DEF LocksHeld
<1>3. LayersBuilt'
  BY LayersFrame DEF Naming_steps
<1>4. SaidOff'
  BY Offers DEF SaidOff, Silent
<1>5. NamesKept'
  <2>1. ASSUME NEW u \in Talks \ {t}
        PROVE  NameKept(u)'
    BY NameFrame DEF NamesKept
  <2> QED  BY <2>1 DEF NamesKept
<1>6. SummariesStored'
  BY DEF SummariesStored, is_on
<1> QED  BY <1>1, <1>2, <1>3, <1>4, <1>5, <1>6

(* With no request naming it, before the step, only c can name a channel.  *)
LEMMA NamesAlone ==
  ASSUME NEW c \in Callers, NEW t \in Talks, Moves(c), ~Naming(t)
  PROVE  \A d \in Callers : GivesName(d)' /\ conn'[d].req.talk = t => d = c
BY DEF Naming, Moves, GivesName

(* After the one request that names a channel, none does.                  *)
LEMMA NamesDone ==
  ASSUME NEW c \in Callers, NEW t \in Talks, Rests(c), GivesName(c), conn[c].req.talk = t, NameCarried(t)
  PROVE  ~Naming(t)'
BY DEF Naming, NameCarried, Rests, Moves, GivesName

(* The request c begins to carry a name.                                   *)
Carries(c, step, t, name, keep) ==
  /\ Moves(c) /\ Step(c)' = step /\ conn'[c].req.talk = t /\ conn'[c].req.name = name
  /\ conn'[c].req.keep = keep /\ conn'[c].req.was_open = room[t].open
  /\ conn'[c].open = conn[c].open /\ said' = said
LEMMA NamesReq ==
  ASSUME NEW c \in Callers, NEW step \in {"open", "message", "rename"}, NEW t \in Talks,
         NEW name \in Label, NEW keep \in BOOLEAN, ProtocolType, Names(c, step, t, name, keep)
  PROVE  Carries(c, step, t, name, keep)
<1> DEFINE req == [Quiet EXCEPT !.at = step, !.talk = t, !.name = name, !.keep = keep,
                                !.was_open = room[t].open]
<1>1. room[t].open \in BOOLEAN
  BY DEF ProtocolType, RoomType
<1>2. Quiet \in ReqType
  BY Offers
<1>3. req \in ReqType /\ req.at = step /\ req.talk = t /\ req.name = name /\ req.keep = keep
      /\ req.was_open = room[t].open
  BY <1>1, <1>2 DEF ReqType
<1>4. Goes_on(c, req)
  BY DEF Names
<1> HIDE DEF req
<1> QED  BY <1>3, <1>4, GoesOn DEF ProtocolType, Step, Carries

(* What the channels and the Store hold has its type.                      *)
LEMMA NameTypes ==
  ASSUME ProtocolIInv, NEW t \in Talks
  PROVE  /\ room \in [Talks -> RoomType] /\ room[t] \in RoomType
         /\ names \in [Talks -> NameType] /\ names[t] \in NameType
         /\ room[t].label \in Label /\ room[t].open \in BOOLEAN /\ room[t].parted \in BOOLEAN
         /\ names[t].own \in OwnNames \cup {NoName} /\ names[t].client \in Label
         /\ \A given \in Label : label_of(t, given) \in Label
BY DEF ProtocolIInv, ProtocolType, RoomType, NameType, label_of, Label

(* `channel_open` with a policy that is refused: the name is noted.        *)
LEMMA Notes ==
  ASSUME NEW t \in Talks, NameKept(t), room'[t].parted, room'[t].open = room[t].open,
         room'[t].label = room[t].label
  PROVE  NameKept(t)'
BY DEF NameKept

(* A name that is kept is the one that the channel has.                    *)
LEMMA KeptLabel ==
  ASSUME ProtocolIInv, NEW t \in Talks, NEW given \in GivenNames \cup {NoName}, NEW keep \in BOOLEAN
  PROVE  /\ client_label(t, given, keep) \in Label
         /\ ~room[t].parted /\ ~Naming(t) /\ keep /\ Labelled(t) =>
              label_of(t, client_label(t, given, keep)) = room[t].label
<1>1. client_label(t, given, keep) \in Label
  BY NameTypes DEF client_label, Label
<1>2. ~room[t].parted /\ ~Naming(t) /\ Labelled(t) => room[t].label = label_of(t, names[t].client)
  BY DEF ProtocolIInv, NamesKept, NameKept
<1> QED  BY <1>1, <1>2 DEF client_label, label_of

(* `channel_open`: the name it carries is the one in the Store.            *)
LEMMA OpenKeeps ==
  ASSUME ProtocolIInv, NEW c \in Callers, open(c)
  PROVE  ProtocolIInv'
<1>0. /\ conn \in [Callers -> ConnType] /\ host \in HostType /\ ProtocolType /\ NamesKept
  BY DEF ProtocolIInv, ProtocolType
<1>1. PICK t \in Talks, given \in GivenNames \cup {NoName}, keep \in BOOLEAN, good \in BOOLEAN :
        /\ names' = [names EXCEPT ![t].client = client_label(t, given, keep)]
        /\ Parts(t, ~good \/ Naming(t))
        /\ IF good
           THEN /\ host' = [host EXCEPT !.admitted = c]
                /\ Names(c, "open", t, label_of(t, client_label(t, given, keep)), keep)
           ELSE UNCHANGED host /\ Answers(c, {"E_BAD_REQUEST"})
  BY DEF open
<1>2. Step(c) = "rest" /\ conn[c].open /\ host.admitted = NoOne /\ UNCHANGED sums
  BY DEF open, handles, Asking, AtRest_, admit, Step
<1> DEFINE label == client_label(t, given, keep)
<1>3. label \in Label /\ label_of(t, label) \in Label
  BY KeptLabel, NameTypes
<1>4. /\ names'[t] = [names[t] EXCEPT !.client = label] /\ names' \in [Talks -> NameType]
      /\ \A u \in Talks \ {t} : names'[u] = names[u]
  BY <1>1, <1>3, NameTypes DEF NameType
<1>5. /\ room'[t] = [room[t] EXCEPT !.parted = @ \/ (~good \/ Naming(t))]
      /\ \A u \in Talks \ {t} : room'[u] = room[u]
  BY <1>1, NameTypes DEF Parts
<1>6. /\ room'[t].open = room[t].open /\ room'[t].label = room[t].label
      /\ room'[t].parted = (room[t].parted \/ (~good \/ Naming(t)))
      /\ room' \in [Talks -> RoomType]
  <2>1. (room[t].parted \/ (~good \/ Naming(t))) \in BOOLEAN
    BY NameTypes
  <2>2. room'[t] \in RoomType
    BY <1>5, <2>1, NameTypes DEF RoomType
  <2> QED  BY <1>1, <1>5, <2>2, NameTypes DEF RoomType, Parts
<1>7. /\ names'[t].client = label /\ names'[t].own = names[t].own
      /\ label_of(t, names[t].client)' = label_of(t, label)
  BY <1>4, NameTypes DEF NameType, label_of
<1>8. ~GivesName(c)
  BY <1>2 DEF GivesName, Step
<1>9. CASE good
  <2>1. /\ Moves(c) /\ Step(c)' = "open" /\ conn'[c].req.talk = t
        /\ conn'[c].req.name = label_of(t, label) /\ conn'[c].req.keep = keep
        /\ conn'[c].open = conn[c].open /\ said' = said
    <3>1. Carries(c, "open", t, label_of(t, label), keep)
      BY <1>0, <1>1, <1>3, <1>9, NamesReq
    <3> QED  BY <3>1 DEF Carries
  <2>2. host' = [host EXCEPT !.admitted = c]
    BY <1>1, <1>9
  <2>3. host' \in HostType
    BY <1>0, <2>2 DEF HostType
  <2>4. NameKept(t)'
    <3>1. ~room'[t].open => room'[t].label = NoName
      BY <1>0, <1>6 DEF NamesKept, NameKept
    <3>2. Labelled(t)' <=> Labelled(t)
      BY <1>6 DEF Labelled
    <3>3. ASSUME ~room'[t].parted
          PROVE  NameCarried(t)' /\ Naming(t)'
      <4>1. ~room[t].parted /\ ~Naming(t)
        BY <1>6, <3>3
      <4>2. \A d \in Callers : GivesName(d)' /\ conn'[d].req.talk = t => d = c
        BY <2>1, <4>1, NamesAlone
      <4>3. keep /\ Labelled(t) => label_of(t, label) = room[t].label
        BY <4>1, KeptLabel
      <4>4. Naming(t)'
        BY <2>1 DEF Naming, GivesName, Step
      <4> QED  BY <1>6, <1>7, <2>1, <3>2, <4>2, <4>3, <4>4 DEF NameCarried
    <3> QED  BY <3>1, <3>3 DEF NameKept
  <2>5. \A u \in Talks \ {t} : conn'[c].req.talk # u
    BY <2>1
  <2> QED  BY <1>0, <1>2, <1>4, <1>5, <1>6, <1>8, <2>1, <2>2, <2>3, <2>4, <2>5, NamingFrame, ZenonT(60)
           DEF Naming_steps, HostType
<1>10. CASE ~good
  <2>1. UNCHANGED host /\ Rests(c) /\ said' = Silent
    BY <1>0, <1>1, <1>10, AnswerRests
  <2>2. NameKept(t)'
    BY <1>0, <1>6, <1>10, Notes DEF NamesKept
  <2>3. ~GivesName(c)' /\ Step(c)' = "rest"
    BY <2>1 DEF GivesName, Rests, Step
  <2> QED  BY <1>0, <1>2, <1>4, <1>5, <1>6, <1>8, <2>1, <2>2, <2>3, NamingFrame
           DEF Naming_steps, Rests
<1> QED  BY <1>9, <1>10
(* The channel gets the name that its open carried.                        *)
LEMMA OpenEndsKeeps ==
  ASSUME ProtocolIInv, NEW c \in Callers, OpenEnds(c)
  PROVE  ProtocolIInv'
<1>t. PICK t \in Talks : t = conn[c].req.talk
  BY DEF OpenEnds, Doing, ProtocolIInv, LocksHeld, Step
<1>n. PICK name \in Label : name = conn[c].req.name
  BY DEF ProtocolIInv, ProtocolType, ConnType, ReqType
<1>0. conn \in [Callers -> ConnType] /\ host \in HostType /\ NamesKept
  BY DEF ProtocolIInv, ProtocolType
<1>1. /\ Step(c) = "open" /\ Rests(c) /\ said' = Silent /\ UNCHANGED <<names, sums>>
      /\ room' = [room EXCEPT ![t].open = TRUE, ![t].label = name]
      /\ host' = [host EXCEPT !.admitted = NoOne]
  BY <1>0, <1>t, <1>n, AnswerRests DEF OpenEnds, Doing, Step
<1>2. host.admitted = c
  BY <1>1 DEF ProtocolIInv, LocksHeld
<1>3. GivesName(c) /\ ~GivesName(c)' /\ Step(c)' = "rest"
  BY <1>1 DEF GivesName, Step, Rests
<1>4. /\ room'[t] = [room[t] EXCEPT !.open = TRUE, !.label = name]
      /\ \A u \in Talks \ {t} : room'[u] = room[u]
      /\ room' \in [Talks -> RoomType]
  BY <1>0, <1>1, <1>2, NameTypes DEF RoomType
<1>5. room'[t].open /\ room'[t].label = name /\ room'[t].parted = room[t].parted
  BY <1>2, <1>4, NameTypes DEF RoomType
<1>6. NameKept(t)'
  <2>1. ASSUME ~room'[t].parted
        PROVE  ~Naming(t)' /\ name = label_of(t, names[t].client)
    <3>1. NameCarried(t)
      BY <1>0, <1>2, <1>5, <2>1 DEF NamesKept, NameKept
    <3> QED  BY <1>1, <1>2, <1>3, <3>1, <1>t, <1>n, NamesDone DEF NameCarried
  <2>2. label_of(t, names[t].client)' = label_of(t, names[t].client)
    BY <1>1, <1>2 DEF label_of
  <2>3. ~Naming(t)' => NameCarried(t)'
    BY DEF NameCarried, Naming
  <2> QED  BY <1>5, <2>1, <2>2, <2>3 DEF NameKept
<1>7. \A u \in Talks \ {t} : ~(GivesName(c) /\ conn[c].req.talk = u)
  BY <1>t
<1>8. host' \in HostType
  BY <1>0, <1>1 DEF HostType
<1> QED  BY <1>0, <1>1, <1>2, <1>3, <1>4, <1>6, <1>7, <1>8, NameTypes, NamingFrame
         DEF Naming_steps, Rests, HostType

(* An agent's message names only a channel that has no name.               *)
LEMMA ApplyLabelKeeps ==
  ASSUME ProtocolIInv, NEW c \in Callers, apply_label(c)
  PROVE  ProtocolIInv'
<1>0. /\ conn \in [Callers -> ConnType] /\ host \in HostType /\ ProtocolType /\ NamesKept
  BY DEF ProtocolIInv, ProtocolType
<1>1. PICK t \in Talks, given \in GivenNames \cup {NoName} :
        IF Labelled(t) THEN UNCHANGED <<names, room>> /\ Names(c, "message", t, NoName, TRUE)
        ELSE /\ names' = [names EXCEPT ![t].client = IF given # NoName THEN given ELSE @]
             /\ Parts(t, Naming(t))
             /\ Names(c, "message", t, label_of(t, given), TRUE)
  BY DEF apply_label
<1>2. /\ Step(c) = "rest" /\ conn[c].open /\ host.admitted = NoOne /\ UNCHANGED sums
      /\ host' = [host EXCEPT !.admitted = c]
  BY DEF apply_label, handles, Asking, AtRest_, admit, Step
<1>3. host' \in HostType
  BY <1>0, <1>2 DEF HostType
<1>4. given \in Label /\ label_of(t, given) \in Label /\ NoName \in Label
  BY NameTypes DEF Label
<1>5. ~GivesName(c)
  BY <1>2 DEF GivesName, Step
<1>6. CASE Labelled(t)
  <2>1. /\ Moves(c) /\ Step(c)' = "message" /\ conn'[c].req.talk = t /\ conn'[c].req.name = NoName
        /\ conn'[c].open = conn[c].open /\ said' = said
    <3>1. Names(c, "message", t, NoName, TRUE)
      BY <1>1, <1>6
    <3>2. Carries(c, "message", t, NoName, TRUE)
      BY <1>0, <1>4, <3>1, NamesReq
    <3> QED  BY <3>2 DEF Carries
  <2>2. ~GivesName(c)'
    BY <2>1 DEF GivesName, Step
  <2>3. UNCHANGED <<room, names>>
    BY <1>1, <1>6
  <2>4. NameKept(t)'
    BY <1>0, <1>5, <2>1, <2>2, <2>3, NamesFrame DEF NamesKept
  <2> QED  BY <1>0, <1>2, <1>3, <1>5, <2>1, <2>2, <2>3, <2>4, NameTypes, NamingFrame
           DEF Naming_steps, HostType
<1>7. CASE ~Labelled(t)
  <2> DEFINE client == IF given # NoName THEN given ELSE names[t].client
             name == label_of(t, given)
  <2>1. /\ Moves(c) /\ Step(c)' = "message" /\ conn'[c].req.talk = t /\ conn'[c].req.name = name
        /\ conn'[c].req.was_open = room[t].open
        /\ conn'[c].open = conn[c].open /\ said' = said
    <3>1. Names(c, "message", t, name, TRUE)
      BY <1>1, <1>7
    <3>2. Carries(c, "message", t, name, TRUE)
      BY <1>0, <1>4, <3>1, NamesReq
    <3> QED  BY <3>2 DEF Carries
  <2>2. /\ names'[t] = [names[t] EXCEPT !.client = client] /\ names' \in [Talks -> NameType]
        /\ \A u \in Talks \ {t} : names'[u] = names[u]
    BY <1>1, <1>4, <1>7, NameTypes DEF NameType
  <2>3. names'[t].own = names[t].own /\ names'[t].client = client
    BY <2>2, NameTypes DEF NameType
  <2>4. /\ room'[t] = [room[t] EXCEPT !.parted = @ \/ Naming(t)]
        /\ \A u \in Talks \ {t} : room'[u] = room[u]
    BY <1>1, <1>7, NameTypes DEF Parts
  <2>5. /\ room'[t].open = room[t].open /\ room'[t].label = room[t].label
        /\ room'[t].parted = (room[t].parted \/ Naming(t))
        /\ room' \in [Talks -> RoomType]
    <3>1. (room[t].parted \/ Naming(t)) \in BOOLEAN
      BY NameTypes
    <3>2. room'[t] \in RoomType
      BY <2>4, <3>1, NameTypes DEF RoomType
    <3> QED  BY <1>1, <1>7, <2>4, <3>2, NameTypes DEF RoomType, Parts
  <2>6. NameKept(t)'
    <3>1. ~room'[t].open => room'[t].label = NoName
      BY <1>0, <2>5 DEF NamesKept, NameKept
    <3>2. ~Labelled(t)'
      BY <1>7, <2>5 DEF Labelled
    <3>3. ASSUME ~room'[t].parted
          PROVE  NameCarried(t)'
      <4>1. \A d \in Callers : GivesName(d)' /\ conn'[d].req.talk = t => d = c
        BY <2>1, <2>5, <3>3, NamesAlone
      <4>2. GivesName(c)' => name # NoName
        BY <2>1 DEF GivesName, Step
      <4>3. name # NoName => name = label_of(t, names[t].client)'
        BY <2>3 DEF label_of
      <4> QED  BY <2>1, <2>5, <3>2, <4>1, <4>2, <4>3 DEF NameCarried
    <3> QED  BY <3>1, <3>2, <3>3 DEF NameKept
  <2>7. \A u \in Talks \ {t} : conn'[c].req.talk # u
    BY <2>1
  <2> QED  BY <1>0, <1>2, <1>3, <1>5, <2>1, <2>2, <2>4, <2>5, <2>6, <2>7, NamingFrame, ZenonT(60)
           DEF Naming_steps, HostType
<1> QED  BY <1>6, <1>7

(* A channel that is only opened keeps its name: a closed one has none,    *)
(* and no message of another connection is under way.                      *)
LEMMA Opened ==
  ASSUME ProtocolIInv, NEW c \in Callers, NEW t \in Talks, Rests(c), ~GivesName(c),
         host.admitted \in {c, NoOne}, room'[t].label = room[t].label,
         room'[t].parted = room[t].parted, room[t].open => room'[t].open,
         room'[t].open \in BOOLEAN, names' = names
  PROVE  NameKept(t)'
<1>1. NameKept(t)
  BY DEF ProtocolIInv, NamesKept
<1>2. ~GivesName(c)' /\ Moves(c)
  BY DEF Rests, GivesName
<1>3. \A d \in Callers : /\ GivesName(d)' <=> GivesName(d)
                         /\ GivesName(d)' => d # c /\ conn'[d] = conn[d] /\ Step(d) \notin {"open", "message"}
  BY <1>2, Offers DEF Moves, GivesName, ProtocolIInv, LocksHeld, Step
<1>4. Naming(t)' <=> Naming(t)
  BY <1>3 DEF Naming
<1>5. Labelled(t)' <=> Labelled(t)
  BY <1>1, NameTypes DEF Labelled, NameKept
<1>6. label_of(t, names[t].client)' = label_of(t, names[t].client)
  BY DEF label_of
<1>7. NameCarried(t) => NameCarried(t)'
  BY <1>3, <1>6 DEF NameCarried, Step
<1> QED  BY <1>1, <1>4, <1>5, <1>6, <1>7 DEF NameKept

(* ... which it still has not when the message is handled.                 *)
LEMMA MessageKeeps ==
  ASSUME ProtocolIInv, NEW c \in Callers, AgentMessage(c)
  PROVE  ProtocolIInv'
<1>t. PICK t \in Talks : t = conn[c].req.talk
  BY DEF AgentMessage, Doing, ProtocolIInv, LocksHeld, Step
<1>q. PICK req \in ReqType : req = conn[c].req
  BY DEF ProtocolIInv, ProtocolType, ConnType
<1>0. conn \in [Callers -> ConnType] /\ host \in HostType /\ NamesKept
  BY DEF ProtocolIInv, ProtocolType
<1>1. PICK text \in BOOLEAN, code \in {"ok"} \cup agent_failure :
        /\ room' = [room EXCEPT ![t] = Opens(Labels(@, req), text /\ code = "ok")]
        /\ Answers(c, {code})
  BY <1>t, <1>q DEF AgentMessage
<1>2. /\ Step(c) = "message" /\ Rests(c) /\ said' = Silent /\ UNCHANGED <<names, sums>>
      /\ host' = [host EXCEPT !.admitted = NoOne]
  BY <1>0, <1>1, AnswerRests DEF AgentMessage, Doing, Step
<1>3. host.admitted = c
  BY <1>2 DEF ProtocolIInv, LocksHeld
<1>4. ~GivesName(c)' /\ Step(c)' = "rest"
  BY <1>2 DEF GivesName, Step, Rests
<1>5. host' \in HostType
  BY <1>0, <1>2 DEF HostType
<1>r. PICK r : r = Labels(room[t], req)
  OBVIOUS
<1>o. PICK opens : opens = (r.open \/ (text /\ code = "ok"))
  OBVIOUS
<1>6. r \in RoomType /\ r.parted = room[t].parted /\ r.open \in BOOLEAN
  BY <1>r, NameTypes DEF Labels, label_if_missing, RoomType, ReqType
<1>7. /\ room'[t] = [r EXCEPT !.open = opens] /\ \A u \in Talks \ {t} : room'[u] = room[u]
  <2>1. room' = [room EXCEPT ![t] = Opens(r, text /\ code = "ok")]
    BY <1>1, <1>r
  <2>2. Opens(r, text /\ code = "ok") = [r EXCEPT !.open = opens]
    BY <1>o DEF Opens
  <2>3. room' = [room EXCEPT ![t] = [r EXCEPT !.open = opens]]
    BY <2>1, <2>2
  <2> QED  BY <2>3, NameTypes
<1>8. opens \in BOOLEAN
  BY <1>6, <1>o
<1>9. /\ room'[t] \in RoomType /\ room'[t].open = opens /\ room'[t].label = r.label
      /\ room'[t].parted = room[t].parted
  BY <1>6, <1>7, <1>8 DEF RoomType
<1>10. room' \in [Talks -> RoomType]
  BY <1>1, <1>3, <1>7, <1>9, NameTypes
<1>11. NameKept(t)'
  <2>1. CASE req.name = NoName
    <3>1. r = room[t] /\ ~GivesName(c)
      BY <1>2, <1>q, <1>r, <2>1 DEF Labels, GivesName, Step
    <3>2. room[t].open => opens
      BY <1>o, <3>1
    <3> QED  BY <1>2, <1>3, <1>8, <1>9, <3>1, <3>2, Opened
  <2>2. CASE req.name # NoName
    <3>1. GivesName(c)
      BY <1>2, <1>q, <2>2 DEF GivesName, Step
    <3>2. ~room[t].open => room[t].label = NoName
      BY <1>0, <1>3 DEF NamesKept, NameKept
    <3>3. ~room'[t].open => room'[t].label = NoName
      BY <1>o, <1>r, <1>9, <2>2, <3>2, NameTypes DEF Labels, label_if_missing, RoomType
    <3>4. ASSUME ~room'[t].parted
          PROVE  ~Naming(t)' /\ r.label = label_of(t, names[t].client)
      <4>1. NameCarried(t)
        BY <1>0, <1>3, <1>9, <3>4 DEF NamesKept, NameKept
      <4>2. /\ req.name = label_of(t, names[t].client)
            /\ ~Labelled(t) /\ room[t].open = req.was_open
        BY <1>2, <1>t, <1>q, <3>1, <4>1 DEF NameCarried
      <4>3. r.label = req.name
        <5>1. CASE req.was_open
          <6>1. room[t].label = NoName /\ room[t].open
            BY <4>2, <5>1 DEF Labelled
          <6>2. r = [room[t] EXCEPT !.label = req.name]
            BY <1>r, <2>2, <5>1, <6>1 DEF Labels, label_if_missing
          <6> QED  BY <1>3, <6>2, NameTypes DEF RoomType
        <5>2. CASE ~req.was_open
          <6>1. r = [room[t] EXCEPT !.open = TRUE, !.label = req.name]
            BY <1>r, <2>2, <5>2 DEF Labels
          <6> QED  BY <1>3, <6>1, NameTypes DEF RoomType
        <5> QED  BY <5>1, <5>2
      <4>4. ~Naming(t)'
        BY <1>2, <1>t, <3>1, <4>1, NamesDone
      <4> QED  BY <4>2, <4>3, <4>4
    <3>5. label_of(t, names[t].client)' = label_of(t, names[t].client)
      BY <1>2, <1>7 DEF label_of
    <3>6. ~Naming(t)' => NameCarried(t)'
      BY DEF NameCarried, Naming
    <3> QED  BY <1>9, <3>3, <3>4, <3>5, <3>6 DEF NameKept
  <2> QED  BY <2>1, <2>2
<1> QED  BY <1>0, <1>t, <1>2, <1>3, <1>4, <1>5, <1>7, <1>10, <1>11, NameTypes, NamingFrame
         DEF Naming_steps, Rests, HostType
(* A channel that is shut has no name, and is parted from its names while  *)
(* a request gives it one.                                                 *)
LEMMA ShutKeeps ==
  ASSUME NEW c \in Callers, NEW t \in Talks, Rests(c), room'[t] = Shut(t)
  PROVE  NameKept(t)'
<1>1. ~room'[t].open /\ room'[t].label = NoName /\ room'[t].parted = Naming(t)
  BY DEF Shut
<1>2. ~Naming(t) => ~Naming(t)'
  BY DEF Naming, Rests, Moves, GivesName
<1>3. ~Naming(t)' => NameCarried(t)'
  BY DEF NameCarried, Naming
<1> QED  BY <1>1, <1>2, <1>3 DEF NameKept, Labelled

(* The user's name is stored before the channel gets it.                   *)
LEMMA PrefsKeep ==
  ASSUME ProtocolIInv, NEW c \in Callers, prefs_setting(c)
  PROVE  ProtocolIInv'
<1>0. conn \in [Callers -> ConnType] /\ host \in HostType /\ ProtocolType /\ NamesKept
  BY DEF ProtocolIInv, ProtocolType
<1>1. PICK t \in Talks, own \in OwnNames \cup {NoName} :
        /\ names' = [names EXCEPT ![t].own = own]
        /\ Parts(t, Naming(t))
        /\ Names(c, "rename", t, own, FALSE)
  BY DEF prefs_setting
<1>2. /\ Step(c) = "rest" /\ conn[c].open /\ host.setting = NoOne /\ UNCHANGED sums
      /\ host' = [host EXCEPT !.setting = c]
  BY DEF prefs_setting, handles, Asking, AtRest_, one_at_a_time, Step
<1>3. host' \in HostType
  BY <1>0, <1>2 DEF HostType
<1>4. /\ Moves(c) /\ Step(c)' = "rename" /\ conn'[c].req.talk = t /\ conn'[c].req.name = own
      /\ conn'[c].open = conn[c].open /\ said' = said
  <2>1. own \in Label
    BY DEF Label
  <2>2. Carries(c, "rename", t, own, FALSE)
    BY <1>0, <1>1, <2>1, NamesReq
  <2> QED  BY <2>2 DEF Carries
<1>5. /\ names'[t] = [names[t] EXCEPT !.own = own] /\ names' \in [Talks -> NameType]
      /\ \A u \in Talks \ {t} : names'[u] = names[u]
  BY <1>1, NameTypes DEF NameType
<1>6. names'[t].own = own
  BY <1>5, NameTypes DEF NameType
<1>7. /\ room'[t] = [room[t] EXCEPT !.parted = @ \/ Naming(t)]
      /\ \A u \in Talks \ {t} : room'[u] = room[u]
  BY <1>1, NameTypes DEF Parts
<1>8. /\ room'[t].open = room[t].open /\ room'[t].label = room[t].label
      /\ room'[t].parted = (room[t].parted \/ Naming(t))
      /\ room' \in [Talks -> RoomType]
  <2>1. (room[t].parted \/ Naming(t)) \in BOOLEAN
    BY NameTypes
  <2>2. room'[t] \in RoomType
    BY <1>7, <2>1, NameTypes DEF RoomType
  <2> QED  BY <1>1, <1>7, <2>2, NameTypes DEF RoomType, Parts
<1>9. NameKept(t)'
  <2>1. ~room'[t].open => room'[t].label = NoName
    BY <1>0, <1>8 DEF NamesKept, NameKept
  <2>2. ASSUME ~room'[t].parted
        PROVE  NameCarried(t)' /\ Naming(t)'
    <3>1. \A d \in Callers : GivesName(d)' /\ conn'[d].req.talk = t => d = c
      BY <1>4, <1>8, <2>2, NamesAlone
    <3>2. Naming(t)'
      BY <1>4 DEF Naming, GivesName, Step
    <3> QED  BY <1>4, <1>6, <3>1, <3>2 DEF NameCarried
  <2> QED  BY <2>1, <2>2 DEF NameKept
<1>10. ~GivesName(c)
  BY <1>2 DEF GivesName, Step
<1>11. \A u \in Talks \ {t} : conn'[c].req.talk # u
  BY <1>4
<1> QED  BY <1>0, <1>2, <1>3, <1>4, <1>5, <1>7, <1>8, <1>9, <1>10, <1>11, NamingFrame, ZenonT(60)
         DEF Naming_steps, HostType

(* The channel gets the user's name, or its client's again.                *)
LEMMA PrefsEndKeeps ==
  ASSUME ProtocolIInv, NEW c \in Callers, PrefsEnd(c)
  PROVE  ProtocolIInv'
<1>t. PICK t \in Talks : t = conn[c].req.talk
  BY DEF PrefsEnd, Doing, ProtocolIInv, LocksHeld, Step
<1>n. PICK own \in Label : own = conn[c].req.name
  BY DEF ProtocolIInv, ProtocolType, ConnType, ReqType
<1>0. conn \in [Callers -> ConnType] /\ host \in HostType /\ NamesKept
  BY DEF ProtocolIInv, ProtocolType
<1>1. /\ Step(c) = "rename" /\ Rests(c) /\ said' = Silent /\ UNCHANGED <<names, sums>>
      /\ room' = IF room[t].open THEN [room EXCEPT ![t].label = renamed(t, own)] ELSE room
      /\ host' = [host EXCEPT !.setting = NoOne]
  BY <1>0, <1>t, <1>n, AnswerRests DEF PrefsEnd, Doing, Step
<1>2. host.setting = c
  BY <1>1 DEF ProtocolIInv, LocksHeld
<1>3. GivesName(c) /\ ~GivesName(c)' /\ Step(c)' = "rest"
  BY <1>1 DEF GivesName, Step, Rests
<1>4. renamed(t, own) \in Label
  BY NameTypes DEF renamed
<1>5. /\ \A u \in Talks \ {t} : room'[u] = room[u]
      /\ room' \in [Talks -> RoomType]
      /\ room'[t].open = room[t].open /\ room'[t].parted = room[t].parted
      /\ room'[t].label = IF room[t].open THEN renamed(t, own) ELSE room[t].label
  BY <1>1, <1>4, NameTypes DEF RoomType
<1>6. NameKept(t)'
  <2>1. ~room'[t].open => room'[t].label = NoName
    BY <1>0, <1>5 DEF NamesKept, NameKept
  <2>2. ASSUME ~room'[t].parted
        PROVE  ~Naming(t)' /\ renamed(t, own) = label_of(t, names[t].client)
    <3>1. NameCarried(t)
      BY <1>0, <1>5, <2>2 DEF NamesKept, NameKept
    <3>2. own = names[t].own
      BY <1>t, <1>n, <1>1, <1>3, <3>1 DEF NameCarried
    <3> QED  BY <1>t, <1>1, <1>3, <3>1, <3>2, NamesDone DEF renamed, label_of
  <2>3. label_of(t, names[t].client)' = label_of(t, names[t].client)
    BY <1>1 DEF label_of
  <2>4. ~Naming(t)' => NameCarried(t)'
    BY DEF NameCarried, Naming
  <2> QED  BY <1>5, <2>1, <2>2, <2>3, <2>4 DEF NameKept, Labelled
<1>7. host' \in HostType
  BY <1>0, <1>1 DEF HostType
<1>8. \A u \in Talks \ {t} : ~(GivesName(c) /\ conn[c].req.talk = u)
  BY <1>t
<1> QED  BY <1>0, <1>1, <1>2, <1>3, <1>5, <1>6, <1>7, <1>8, NameTypes, NamingFrame
         DEF Naming_steps, Rests, HostType

(* Every request about a channel.                                          *)
LEMMA NamingsKeep ==
  ASSUME ProtocolIInv, NEW c \in Callers, Namings(c)
  PROVE  ProtocolIInv'
<1>0. conn \in [Callers -> ConnType] /\ host \in HostType
  BY DEF ProtocolIInv, ProtocolType
<1>1. CASE SpeakTo(c)
  <2>1. PICK t \in Talks : room' = [room EXCEPT ![t].open = TRUE]
    BY <1>1 DEF SpeakTo
  <2>2. /\ Step(c) = "rest" /\ host.admitted = NoOne /\ UNCHANGED <<host, names, sums>>
        /\ Rests(c) /\ said' = Silent
    BY <1>0, <1>1, AnswerRests DEF SpeakTo, handles, Asking, AtRest_, admit, Step
  <2>3. ~GivesName(c) /\ ~GivesName(c)' /\ Step(c)' = "rest"
    BY <2>2 DEF GivesName, Step, Rests
  <2>4. /\ \A u \in Talks \ {t} : room'[u] = room[u]
        /\ room' \in [Talks -> RoomType]
        /\ room'[t].open /\ room'[t].parted = room[t].parted /\ room'[t].label = room[t].label
        /\ room'[t].open \in BOOLEAN
    BY <2>1, NameTypes DEF RoomType
  <2>5. NameKept(t)'
    BY <2>2, <2>3, <2>4, Opened
  <2> QED  BY <1>0, <2>2, <2>3, <2>4, <2>5, NameTypes, NamingFrame DEF Naming_steps, Rests
<1>2. CASE close(c)
  <2>1. PICK t \in Talks :
          IF room[t].open
          THEN room' = [room EXCEPT ![t] = Shut(t)] /\ host' = Unfocused(t) /\ Answers(c, {"ok"})
          ELSE UNCHANGED <<room, host>> /\ Answers(c, {"E_NOT_FOUND"})
    BY <1>2 DEF close
  <2>2. Step(c) = "rest" /\ UNCHANGED <<names, sums>>
    BY <1>2 DEF close, handles, Asking, AtRest_, Step
  <2>3. CASE ~room[t].open
    BY <2>1, <2>2, <2>3, AnswerEnds
  <2>4. CASE room[t].open
    <3>1. Rests(c) /\ said' = Silent
      BY <1>0, <2>1, <2>4, AnswerRests
    <3>2. ~GivesName(c) /\ ~GivesName(c)' /\ Step(c)' = "rest"
      BY <2>2, <3>1 DEF GivesName, Step, Rests
    <3>3. /\ room'[t] = Shut(t) /\ \A u \in Talks \ {t} : room'[u] = room[u]
          /\ room' \in [Talks -> RoomType]
      <4>1. Shut(t) \in RoomType
        BY DEF Shut, RoomType, Label, Naming
      <4> QED  BY <2>1, <2>4, <4>1, NameTypes
    <3>4. host' \in HostType
      BY <1>0, <2>1, <2>4 DEF Unfocused, HostType
    <3>5. NameKept(t)'
      BY <3>1, <3>3, ShutKeeps
    <3>6. /\ host'.built = host.built /\ host'.on = host.on /\ host'.enabling = host.enabling
          /\ host'.told = host.told /\ host'.retiring = host.retiring
          /\ host'.admitted = host.admitted /\ host'.setting = host.setting
      BY <1>0, <2>1, <2>4 DEF Unfocused, HostType
    <3> QED  BY <2>2, <3>1, <3>2, <3>3, <3>4, <3>5, <3>6, NameTypes, NamingFrame
             DEF Naming_steps, Rests
  <2> QED  BY <2>3, <2>4
<1>3. CASE focus(c)
  <2>1. PICK t \in Talks : IF room[t].open
                           THEN host' = [host EXCEPT !.focus = t] /\ Answers(c, {"ok"})
                           ELSE UNCHANGED host /\ Answers(c, {"E_NOT_FOUND"})
    BY <1>3 DEF focus
  <2>2. Step(c) = "rest" /\ UNCHANGED <<room, names, sums>>
    BY <1>3 DEF focus, handles, Asking, AtRest_, Step
  <2>3. CASE ~room[t].open
    BY <2>1, <2>2, <2>3, AnswerEnds
  <2>4. CASE room[t].open
    <3>1. Rests(c) /\ said' = Silent /\ host' = [host EXCEPT !.focus = t]
      BY <1>0, <2>1, <2>4, AnswerRests
    <3>2. host' \in HostType
      BY <1>0, <3>1 DEF HostType
    <3> QED  BY <1>0, <2>2, <3>1, <3>2, Silence, Harmless DEF HostType
  <2> QED  BY <2>3, <2>4
<1>4. CASE forget(c)
  <2>1. PICK t \in Talks :
          IF host.focus = t THEN UNCHANGED <<room, names>> /\ Answers(c, {"E_BAD_REQUEST"})
          ELSE /\ names' = [names EXCEPT ![t] = [own |-> NoName, client |-> NoName]]
               /\ room' = [room EXCEPT ![t] = Shut(t)]
               /\ Answers(c, {"ok"})
    BY <1>4 DEF forget
  <2>2. Step(c) = "rest" /\ UNCHANGED <<host, sums>>
    BY <1>4 DEF forget, handles, Asking, AtRest_, Step
  <2>3. CASE host.focus = t
    BY <2>1, <2>2, <2>3, AnswerEnds
  <2>4. CASE host.focus # t
    <3>1. Rests(c) /\ said' = Silent
      BY <1>0, <2>1, <2>4, AnswerRests
    <3>2. ~GivesName(c) /\ ~GivesName(c)' /\ Step(c)' = "rest"
      BY <2>2, <3>1 DEF GivesName, Step, Rests
    <3>3. Shut(t) \in RoomType /\ [own |-> NoName, client |-> NoName] \in NameType
      BY DEF Shut, RoomType, NameType, Label, Naming
    <3>4. /\ room'[t] = Shut(t) /\ room' \in [Talks -> RoomType] /\ names' \in [Talks -> NameType]
          /\ \A u \in Talks \ {t} : room'[u] = room[u] /\ names'[u] = names[u]
      BY <2>1, <2>4, <3>3, NameTypes
    <3>5. NameKept(t)'
      BY <3>1, <3>4, ShutKeeps
    <3> QED  BY <1>0, <2>2, <3>1, <3>2, <3>4, <3>5, NamingFrame DEF Naming_steps, Rests
  <2> QED  BY <2>3, <2>4
<1> QED  BY <1>1, <1>2, <1>3, <1>4, OpenKeeps, OpenEndsKeeps, ApplyLabelKeeps, MessageKeeps, PrefsKeep,
            PrefsEndKeeps DEF Namings

-----------------------------------------------------------------------------
(* The summaries.                                                          *)

(* What is set is merged with what is in force, and stored the same.       *)
LEMMA SummariesKeep ==
  ASSUME ProtocolIInv, NEW c \in Callers, set_summaries(c)
  PROVE  ProtocolIInv'
<1>0. conn \in [Callers -> ConnType] /\ host \in HostType /\ sums \in SumsType
  BY DEF ProtocolIInv, ProtocolType
<1>1. Step(c) = "rest" /\ UNCHANGED <<host, room, names>> /\ "agent" \in host.on
  BY DEF set_summaries, handles, Asking, AtRest_, Step, is_on
<1>2. PICK enabled \in {"same", "yes", "no"}, style \in Styles \cup {NoName},
           given \in [Styles -> Texts \cup {NoName, "same"}], prompt \in Texts \cup {NoName, "same"},
           good \in BOOLEAN :
        LET merged == merge_summaries(enabled, style)
            prompts == merge_prompts(merged.style, given, prompt)
            stored == record_summaries(enabled, style, merged)
        IN  IF ~good THEN UNCHANGED sums /\ Answers(c, {"E_BAD_REQUEST"})
            ELSE IF merged.enabled /\ ~Summarizer THEN UNCHANGED sums /\ Unsupported(c, "summaries")
            ELSE /\ sums' = [enabled |-> stored.enabled, style |-> stored.style, prompts |-> prompts,
                             now |-> [enabled |-> merged.enabled, style |-> merged.style,
                                      prompt |-> prompts[merged.style]]]
                 /\ Answers(c, {"ok"})
  BY DEF set_summaries
<1>m. PICK merged : merged = merge_summaries(enabled, style)
  OBVIOUS
<1>p. PICK prompts : prompts = merge_prompts(merged.style, given, prompt)
  OBVIOUS
<1>s. PICK stored : stored = record_summaries(enabled, style, merged)
  OBVIOUS
<1>3. CASE ~good
  BY <1>1, <1>2, <1>3, AnswerEnds
<1>4. CASE good /\ merged.enabled /\ ~Summarizer
  <2>1. "summaries" \notin Exts
    BY DEF Exts
  <2> QED  BY <1>1, <1>2, <1>m, <1>4, <2>1, UnsupportedEnds
<1>5. CASE good /\ ~(merged.enabled /\ ~Summarizer)
  <2>1. /\ sums' = [enabled |-> stored.enabled, style |-> stored.style, prompts |-> prompts,
                    now |-> [enabled |-> merged.enabled, style |-> merged.style,
                             prompt |-> prompts[merged.style]]]
        /\ Answers(c, {"ok"})
    BY <1>2, <1>m, <1>p, <1>s, <1>5
  <2>2. Rests(c) /\ said' = Silent
    BY <1>0, <2>1, AnswerRests
  <2>3. merged.enabled \in BOOLEAN /\ merged.style \in Styles
    BY <1>0, <1>m DEF merge_summaries, SumsType
  <2>4. stored.enabled \in BOOLEAN /\ stored.style \in Styles
    BY <1>0, <1>s, <2>3 DEF record_summaries, SumsType
  <2>5. prompts \in PromptType
    BY <1>0, <1>p DEF merge_prompts, SumsType, PromptType
  <2>6. prompts[merged.style] \in Texts \cup {NoName}
    BY <2>3, <2>5 DEF PromptType
  <2>7. sums' \in SumsType
    BY <2>1, <2>3, <2>4, <2>5, <2>6 DEF SumsType
  <2>8. SummariesStored'
    <3>1. /\ sums.now.style = sums.style
          /\ sums.now.enabled = (sums.enabled /\ Summarizer)
      BY <1>1 DEF ProtocolIInv, SummariesStored, is_on
    <3>2. merged.style = stored.style
      BY <1>m, <1>s, <3>1 DEF merge_summaries, record_summaries
    <3>3. merged.enabled = (stored.enabled /\ Summarizer)
      <4>1. CASE enabled = "same"
        <5>1. merged.enabled = sums.now.enabled /\ stored.enabled = sums.enabled
          BY <1>m, <1>s, <4>1 DEF merge_summaries, record_summaries
        <5> QED  BY <3>1, <5>1
      <4>2. CASE enabled # "same"
        <5>1. stored.enabled = merged.enabled
          BY <1>s, <4>2 DEF record_summaries
        <5> QED  BY <1>5, <2>3, <5>1, ProtocolAssumption
      <4> QED  BY <4>1, <4>2
    <3> QED  BY <2>1, <3>2, <3>3 DEF SummariesStored
  <2>9. LocksHeld'
    BY <1>1, <2>2 DEF ProtocolIInv, LocksHeld, Rests, Moves, Step
  <2>10. LayersBuilt'
    BY <1>1, <2>2, LayersFrame DEF ProtocolIInv, Rests, Step
  <2>11. NamesKept'
    BY <1>1, <2>2, NamesFrame DEF ProtocolIInv, Rests, GivesName, Step
  <2>12. SaidOff'
    BY <2>2, Silence
  <2>13. ProtocolType'
    BY <1>1, <2>2, <2>7 DEF ProtocolIInv, ProtocolType, Rests, Moves
  <2> QED  BY <2>8, <2>9, <2>10, <2>11, <2>12, <2>13 DEF ProtocolIInv
<1> QED  BY <1>3, <1>4, <1>5

-----------------------------------------------------------------------------
(* The runtime.                                                            *)

(* A fresh runtime, on what is stored.                                     *)
Fresh == /\ host = FreshHost /\ conn = Connected /\ room = FreshRooms /\ said = Silent
         /\ names \in [Talks -> NameType] /\ sums \in SumsType
LEMMA Starts == Fresh => ProtocolIInv
<1> SUFFICES ASSUME Fresh
             PROVE  ProtocolIInv
  OBVIOUS
<1> USE DEF Fresh
<1>1. conn \in [Callers -> ConnType] /\ \A c \in Callers : Step(c) = "rest"
  BY Offers DEF Connected, tcp_session, http_session, Quiet, Step
<1>2. FreshHost \in HostType
  BY DEF FreshHost, HostType
<1>3. room \in [Talks -> RoomType]
  BY DEF FreshRooms, RoomType, Label
<1>4. ProtocolType
  BY <1>1, <1>2, <1>3 DEF ProtocolType
<1>5. LocksHeld
  BY <1>1 DEF LocksHeld
<1>6. LayersBuilt
  BY <1>1 DEF LayersBuilt, FreshHost
<1>7. SaidOff
  BY Offers DEF SaidOff, Silent
<1>8. NamesKept
  BY DEF NamesKept, NameKept, NameCarried, Naming, GivesName, FreshRooms, Labelled, Connected,
         tcp_session, http_session, Quiet
<1>9. SummariesStored
  BY DEF SummariesStored, is_on, FreshHost
<1> QED  BY <1>4, <1>5, <1>6, <1>7, <1>8, <1>9 DEF ProtocolIInv

(* Before the agent is on, summaries are off.                              *)
LEMMA DefaultSums ==
  NoSums \in [enabled : BOOLEAN, style : Styles, prompt : Texts \cup {NoName}]
<1>1. Default \in Styles
  BY ProtocolAssumption DEF Default
<1> QED  BY <1>1 DEF NoSums

(* The first runtime starts with what is stored.                           *)
LEMMA ProtocolStarts == ProtocolInit => ProtocolIInv
<1> SUFFICES ASSUME ProtocolInit
             PROVE  ProtocolIInv
  OBVIOUS
<1>1. names \in [Talks -> NameType]
  BY DEF ProtocolInit, FreshRest, NameType, Label
<1>2. sums \in SumsType
  BY DefaultSums DEF ProtocolInit, FreshRest, SumsType, PromptType
<1> QED  BY <1>1, <1>2, Starts DEF Fresh, ProtocolInit, FreshRest

(* So does the next one.                                                   *)
LEMMA RestartKeeps ==
  ASSUME ProtocolIInv, Restarts
  PROVE  ProtocolIInv'
<1>1. /\ host' = FreshHost /\ conn' = Connected /\ room' = FreshRooms /\ said' = Silent
      /\ names' = [t \in Talks |-> [names[t] EXCEPT !.client = NoName]]
      /\ sums' = [sums EXCEPT !.now = NoSums]
  BY DEF Restarts
<1>2. names' \in [Talks -> NameType]
  BY <1>1 DEF ProtocolIInv, ProtocolType, NameType, Label
<1>3. sums' \in SumsType
  BY <1>1, DefaultSums DEF ProtocolIInv, ProtocolType, SumsType
<1>4. Fresh'
  BY <1>1, <1>2, <1>3 DEF Fresh
<1> QED  BY <1>4, Starts, PTL

(* The invariant is kept by every step of every connection.                *)
LEMMA ProtocolSteps ==
  ASSUME ProtocolIInv, [ProtocolNext]_protoVars
  PROVE  ProtocolIInv'
<1>1. CASE UNCHANGED protoVars
  BY <1>1 DEF protoVars, ProtocolIInv, ProtocolType, LocksHeld, LayersBuilt, SaidOff, NamesKept, NameKept,
              NameCarried, Naming, GivesName, Labelled, label_of, SummariesStored, is_on, Step, Slot
<1> QED  BY <1>1, RestartKeeps, HellosKeep, OthersKeep, NamingsKeep, SummariesKeep DEF ProtocolNext

(* Every behaviour of the server keeps the invariant.                      *)
LEMMA ProtocolInvariant == ProtocolSpec => []ProtocolIInv
BY ProtocolStarts, ProtocolSteps, PTL DEF ProtocolSpec

(* For any clients, an extension's layers are built once and in their      *)
(* order however many say hello at once, and what a hello listed is not    *)
(* refused while the runtime lives (extensions.rs enable; mod.rs dispatch, *)
(* control_now, extension_setting).                                        *)
THEOREM ProtocolPromised == ProtocolSpec => []Promised
<1>1. ProtocolIInv => Promised
  <2> SUFFICES ASSUME ProtocolIInv
               PROVE  Promised
    OBVIOUS
  <2>1. \A e \in Exts : host.built[e] <= 1
    BY DEF ProtocolIInv, ProtocolType, HostType
  <2>2. ~host.retiring /\ said.code = "E_UNSUPPORTED" => said.of \notin host.told
    BY Offers DEF ProtocolIInv, ProtocolType, HostType, SaidOff
  <2> QED  BY <2>1, <2>2 DEF Promised, ProtocolIInv, LayersBuilt, SaidOff, exiting
<1> QED  BY <1>1, ProtocolInvariant, PTL

(* For any channels, names and settings, the name a channel has is the     *)
(* user's or its client's first, and the summaries in force are the stored *)
(* ones (channels_ext.rs open, apply_label, prefs_setting; agent_ext.rs    *)
(* setting).                                                               *)
THEOREM ProtocolInForce == ProtocolSpec => []InForce
<1>1. ProtocolIInv => InForce
  <2> SUFFICES ASSUME ProtocolIInv
               PROVE  InForce
    OBVIOUS
  <2>1. NamesStored
    BY DEF ProtocolIInv, NamesKept, NameKept, NameCarried, NamesStored, GivesName, Step
  <2> QED  BY <2>1 DEF ProtocolIInv, InForce
<1> QED  BY <1>1, ProtocolInvariant, PTL
=============================================================================
