------------------------------ MODULE Protocol ------------------------------
(***************************************************************************)
(* The protocol server (sonarad protocol/mod.rs, messages.rs and           *)
(* extensions.rs, channels_ext.rs, agent_ext.rs, system_ext.rs, tcp.rs):   *)
(* connections and their `hello`, the extensions that clients turn on      *)
(* while others talk, which requests are answered with what, the names of  *)
(* channels that clients and the user give, and the summaries' settings.   *)
(*                                                                         *)
(* A request is what the server tells apart of it.  Requests of different  *)
(* connections run at the same time; the locks that keep parts of them     *)
(* apart are `enabling`, the admission lock and the `set` lock.  What the  *)
(* reader, the channels and the agent then do is theirs (Reader, Channels, *)
(* Agent), and the exit is Lifetime's.                                     *)
(***************************************************************************)
EXTENDS Naturals, FiniteSets

CONSTANTS Lines,      \* TCP connections
          Posts,      \* HTTP connections: their requests carry the token
          Talks,      \* channels
          OwnNames,   \* names the user gives a channel
          GivenNames, \* names clients give it
          Offered,    \* the extensions this host offers
          Foreign,    \* names in a `hello` that no host offers
          Summarizer, \* whether this host can summarize
          Styles, Texts,  \* summary styles and custom prompts
          NoName, NoOne,
          MaxAsked    \* bound: requests

ASSUME ProtocolAssumption ==
  /\ Offered \in {{"channels", "agent"}, {"channels", "agent", "system"}}
  /\ Foreign \cap {"channels", "agent", "system"} = {}
  /\ NoOne \notin Lines \cup Posts /\ Lines \cap Posts = {}
  /\ NoName \notin Talks \cup OwnNames \cup GivenNames \cup Texts \cup Styles
  /\ NoName \notin {"channels", "agent", "system"}
  /\ Summarizer \in BOOLEAN /\ Styles # {} /\ MaxAsked \in Nat

VARIABLES
  host,   \* extensions on, how often each layer was built, locks, retiring,
          \* focus, and the extensions replies listed
  conn,   \* each connection: its session and the request being handled
  room,   \* each channel: open, its label; parted: its label may differ
          \* from what the Store holds
  names,  \* the Store: the user's name and the client's
  sums,   \* the summaries' settings: stored, and in force
  said,   \* what the last reply said of an extension
  asked

protoVars == <<host, conn, room, names, sums, said, asked>>

Callers == Lines \cup Posts

-----------------------------------------------------------------------------
(* What belongs to which extension: messages, keys and actions.            *)
TYPES == [channels |-> {"channel_open", "channel_close", "focus"},
          agent    |-> {"stream", "turn_start", "turn_end", "ask", "earcon", "tool", "answered",
                        "question_shown"},
          system   |-> {"preview", "shutdown"}]
KEYS == [channels |-> {"channel_announce", "announce_voice", "channel_prefs"},
         agent    |-> {"mute_level", "verbosity", "read_mode", "flush_scope", "minqueue",
                       "background_policy", "summaries", "earcons", "code_speed", "code_pause",
                       "code_step", "question_step"},
         system   |-> {"audio_mode", "duck_level", "hotkeys", "settings_url", "runtime"}]
CONTROLS == [channels |-> {"next_channel", "back", "flush"},
             agent    |-> {"next_question", "previous_question"},
             system   |-> {}]
Exts == {"channels", "agent", "system"}
(* The layers an extension is made of, the lowest first.                   *)
Needs(e) == IF e = "agent" THEN {"channels", "agent"} ELSE {e}

Quiet == [at |-> "rest", ext |-> NoName, layer |-> NoName, todo |-> {}, system |-> FALSE,
          keep |-> FALSE, talk |-> NoName, name |-> NoName, was_open |-> FALSE]
tcp_session == [open |-> TRUE, authed |-> FALSE, system |-> FALSE, stream |-> {}, req |-> Quiet]
http_session == [tcp_session EXCEPT !.authed = TRUE]
Connected == [c \in Callers |-> IF c \in Lines THEN tcp_session ELSE http_session]

Default == CHOOSE s \in Styles : TRUE
NoSums == [enabled |-> FALSE, style |-> Default, prompt |-> NoName]

FreshHost == [on |-> {}, built |-> [e \in Exts |-> 0], enabling |-> NoOne, admitted |-> NoOne,
              setting |-> NoOne, retiring |-> FALSE, focus |-> NoName, told |-> {}]
FreshRooms == [t \in Talks |-> [open |-> FALSE, label |-> NoName, parted |-> FALSE]]
Silent == [code |-> "none", of |-> NoName]

FreshRest ==
  /\ room = FreshRooms
  /\ names = [t \in Talks |-> [own |-> NoName, client |-> NoName]]
  /\ sums \in [enabled : BOOLEAN, style : Styles, prompts : [Styles -> Texts \cup {NoName}],
              now : {NoSums}]
  /\ said = Silent
  /\ asked = 0
ProtocolInit == host = FreshHost /\ conn = Connected /\ FreshRest

-----------------------------------------------------------------------------
(* Replies.  A TCP connection that fails to authenticate is closed.        *)
Becomes(c, s) == conn' = [conn EXCEPT ![c] = s]
Closed_by(c, code) == code = "E_AUTH" /\ c \in Lines
Reply(c, s, code, of) ==
  /\ said' = IF of = NoName THEN Silent ELSE [code |-> code, of |-> of]
  /\ Becomes(c, [s EXCEPT !.req = Quiet, !.open = @ /\ ~Closed_by(c, code)])
Answers(c, codes) == \E code \in codes : Reply(c, conn[c], code, NoName)
Unsupported(c, e) == Reply(c, conn[c], "E_UNSUPPORTED", e)

AtRest_(c) == conn[c].open /\ conn[c].req.at = "rest"
Asking(c) == AtRest_(c) /\ asked < MaxAsked /\ asked' = asked + 1
Doing(c, step) == conn[c].req.at = step /\ UNCHANGED asked
Goes_on(c, req) == Becomes(c, [conn[c] EXCEPT !.req = req]) /\ UNCHANGED said

(* What `handle` answers before it dispatches, "none" when it does; a      *)
(* request may be no object, or have no type.                              *)
exiting == host.retiring
handle(c, object, typed) ==
  IF ~conn[c].authed THEN "E_AUTH" ELSE IF ~object THEN "E_BAD_REQUEST"
  ELSE IF exiting THEN "E_BUSY" ELSE IF ~typed THEN "E_BAD_REQUEST" ELSE "none"
handles(c) == Asking(c) /\ handle(c, TRUE, TRUE) = "none"

(* A request that is refused before it is dispatched.                      *)
Refused(c) ==
  /\ Asking(c)
  /\ \E object, typed \in BOOLEAN : /\ handle(c, object, typed) # "none"
                                    /\ Answers(c, {handle(c, object, typed)})
  /\ UNCHANGED <<host, room, names, sums>>

(* A line that is too long or not UTF-8, no hello in time, or the client   *)
(* is gone: the connection ends, and the next client may come.             *)
LineEnds(c) ==
  /\ c \in Lines /\ AtRest_(c) /\ Becomes(c, [conn[c] EXCEPT !.open = FALSE])
  /\ UNCHANGED <<host, room, names, sums, said, asked>>
LineComes(c) ==
  /\ c \in Lines /\ ~conn[c].open /\ Becomes(c, tcp_session)
  /\ UNCHANGED <<host, room, names, sums, said, asked>>

-----------------------------------------------------------------------------
(* `hello`.  Its reply lists the extensions that are on.                   *)
hello_fields == host.told \cup host.on

(* No token, another protocol, a field of another kind, a requirement this *)
(* host does not meet; a takeover of a host that is not idle.              *)
HelloRefused(c) ==
  /\ Asking(c) /\ UNCHANGED <<host, room, names, sums>>
  /\ \/ ~conn[c].authed /\ Answers(c, {"E_AUTH"})
     \/ Answers(c, {"E_INCOMPATIBLE", "E_BAD_REQUEST"})
     \/ \E e \in Foreign \cup (Exts \ Offered) : Unsupported(c, e)
     \/ ~host.retiring /\ Answers(c, {"E_BUSY"})

(* A takeover of a host that is idle.                                      *)
HelloTakes(c) ==
  /\ Asking(c) /\ host.admitted = NoOne
  /\ host' = [host EXCEPT !.retiring = TRUE, !.told = hello_fields]
  /\ Answers(c, {"ok"})
  /\ UNCHANGED <<room, names, sums>>

(* What the client wants and this host offers is enabled, one after the    *)
(* other, and what it requires.                                            *)
hello(c) ==
  /\ Asking(c)
  /\ \E listed \in SUBSET Offered :
       Goes_on(c, [Quiet EXCEPT !.at = "hello", !.todo = listed, !.system = "system" \in listed])
  /\ UNCHANGED <<host, room, names, sums>>

(* `enable`: one client at a time.  The fault: all at once.                *)
enable_unlocked(c) ==
  /\ Doing(c, "hello")
  /\ \E e \in conn[c].req.todo :
       Goes_on(c, [conn[c].req EXCEPT !.at = "enable", !.ext = e, !.todo = @ \ {e}])
  /\ UNCHANGED <<host, room, names, sums>>
enable(c) ==
  /\ Doing(c, "hello") /\ host.enabling = NoOne
  /\ \E e \in conn[c].req.todo :
       Goes_on(c, [conn[c].req EXCEPT !.at = "enable", !.ext = e, !.todo = @ \ {e}])
  /\ host' = [host EXCEPT !.enabling = c]
  /\ UNCHANGED <<room, names, sums>>

(* The lowest layer that is not on is built, from what is stored, and then *)
(* put in its slot; the `system` extension says it is on before.           *)
settings_from ==
  [enabled |-> sums.enabled /\ Summarizer, style |-> sums.style, prompt |-> sums.prompts[sums.style]]
Lacks(c) == Needs(conn[c].req.ext) \ host.on
Next_layer(c) == IF "channels" \in Lacks(c) THEN "channels" ELSE conn[c].req.ext
EnableBuilds(c) ==
  /\ Doing(c, "enable") /\ Lacks(c) # {}
  /\ host' = [host EXCEPT !.built[Next_layer(c)] = @ + 1,
                          !.on = IF conn[c].req.ext = "system" THEN @ \cup {"system"} ELSE @]
  /\ Goes_on(c, [conn[c].req EXCEPT !.at = "slot", !.layer = Next_layer(c)])
  /\ UNCHANGED <<room, names, sums>>
EnableSets(c) ==
  /\ Doing(c, "slot")
  /\ host' = [host EXCEPT !.on = @ \cup {conn[c].req.layer}]
  /\ sums' = IF conn[c].req.layer = "agent" THEN [sums EXCEPT !.now = settings_from] ELSE sums
  /\ Goes_on(c, [conn[c].req EXCEPT !.at = "enable", !.layer = NoName])
  /\ UNCHANGED <<room, names>>
EnableEnds(c) ==
  /\ Doing(c, "enable") /\ Lacks(c) = {}
  /\ host' = [host EXCEPT !.enabling = NoOne]
  /\ Goes_on(c, [conn[c].req EXCEPT !.at = "hello", !.ext = NoName])
  /\ UNCHANGED <<room, names, sums>>

(* A layer is not built once the reader has shut down, which it has when   *)
(* the runtime exits.  `system` takes back that it is on.                  *)
EnableFails(c) ==
  /\ Doing(c, "slot") /\ exiting
  /\ host' = [host EXCEPT !.on = IF conn[c].req.layer = "system" THEN @ \ {"system"} ELSE @,
                          !.enabling = NoOne, !.built[conn[c].req.layer] = @ - 1]
  /\ Answers(c, {"E_ENGINE"})
  /\ UNCHANGED <<room, names, sums>>

(* A TCP connection that asked for `system` holds it from now on.  A       *)
(* `keep_alive` of another kind is refused, with everything enabled.       *)
HelloEnds(c) ==
  /\ Doing(c, "hello") /\ conn[c].req.todo = {}
  /\ \/ UNCHANGED host /\ Answers(c, {"E_BAD_REQUEST"})
     \/ /\ host' = [host EXCEPT !.told = hello_fields]
        /\ Reply(c, [conn[c] EXCEPT !.authed = TRUE,
                                    !.system = @ \/ (c \in Lines /\ conn[c].req.system)],
                 "ok", NoName)
  /\ UNCHANGED <<room, names, sums>>

-----------------------------------------------------------------------------
(* Requests and what they are answered.  Whoever reaches speech waits for  *)
(* the admission lock, whoever changes a setting for the `set` lock.       *)
admit == host.admitted = NoOne
one_at_a_time == host.setting = NoOne

(* What a layer's refusal is on the wire.                                  *)
reader_failure == {"E_BAD_REQUEST", "E_BUSY", "E_NOT_FOUND", "E_ENGINE"}
channels_failure == {"E_NOT_FOUND", "E_BAD_REQUEST"} \cup reader_failure
agent_failure == {"E_BAD_REQUEST"} \cup channels_failure
engine_failure == {"E_FORBIDDEN", "E_ENGINE"} \cup reader_failure

(* `speak`, `voices`, and the reader's keys and actions.                   *)
Core(c) ==
  /\ handles(c) /\ admit /\ one_at_a_time
  /\ Answers(c, {"ok"} \cup reader_failure)
  /\ UNCHANGED <<host, room, names, sums>>

(* The engines' messages, when this host allows external engines.          *)
EngineMessage(c) ==
  /\ handles(c) /\ admit /\ one_at_a_time
  /\ Unsupported(c, "engines") \/ Answers(c, {"ok"} \cup engine_failure)
  /\ UNCHANGED <<host, room, names, sums>>

(* `dispatch`: a message type by the extension it belongs to, when that is *)
(* on.                                                                     *)
is_on(e) == e \in host.on
OfType(kind) == {e \in Exts : kind \in TYPES[e]}
dispatch(kind) ==
  IF \E e \in OfType(kind) : is_on(e) THEN "handled"
  ELSE IF OfType(kind) # {} THEN "unsupported" ELSE "unknown"

(* `control_now`: without channels the reader's actions, else those of     *)
(* channels too, and the agent's with the agent.                           *)
control_now(action) ==
  IF is_on("channels")
  THEN IF action \in CONTROLS["agent"]
       THEN IF is_on("agent") THEN "handled" ELSE "unsupported"
       ELSE IF action \in CONTROLS["channels"] THEN "handled" ELSE "unknown"
  ELSE IF \E e \in Exts : action \in CONTROLS[e] THEN "unsupported" ELSE "unknown"

(* `extension_setting`, and `key` when no extension that is on has it.     *)
extension_setting(name) ==
  IF \E e \in Exts : is_on(e) /\ name \in KEYS[e] THEN "handled"
  ELSE IF \E e \in Exts : name \in KEYS[e] THEN "unsupported" ELSE "unknown"

(* What is found is handled (below); else it is refused.                   *)
Missing(c, e, found, unknown) ==
  \/ found = "unsupported" /\ Unsupported(c, e)
  \/ found = "unknown" /\ Reply(c, conn[c], unknown, e)

(* A message, an action or a key of an extension, or of none.              *)
NotFound(c) ==
  /\ handles(c) /\ admit /\ one_at_a_time
  /\ \/ \E e \in Exts : \/ \E kind \in TYPES[e] : Missing(c, e, dispatch(kind), "E_UNKNOWN_TYPE")
                        \/ \E a \in CONTROLS[e] : Missing(c, e, control_now(a), "E_BAD_REQUEST")
                        \/ \E key \in KEYS[e] : Missing(c, e, extension_setting(key), "E_BAD_REQUEST")
     \/ Missing(c, NoName, dispatch("other"), "E_UNKNOWN_TYPE")
     \/ Missing(c, NoName, control_now("other"), "E_BAD_REQUEST")
     \/ Missing(c, NoName, extension_setting("other"), "E_BAD_REQUEST")
  /\ UNCHANGED <<host, room, names, sums>>

(* `subscribe`: `earcons` belong to the agent, `cues` to the system.       *)
StreamOf(e) == IF e = "agent" THEN "earcons" ELSE "cues"
Subscribe(c) ==
  /\ handles(c)
  /\ IF c \in Posts THEN Answers(c, {"E_BAD_REQUEST"})
     ELSE \E streams \in SUBSET {"state", "earcons", "cues"} :
            LET off == {e \in {"agent", "system"} : StreamOf(e) \in streams /\ ~is_on(e)}
            IN  IF off # {} THEN \E e \in off : Unsupported(c, e)
                ELSE Reply(c, [conn[c] EXCEPT !.stream = streams], "ok", NoName)
  /\ UNCHANGED <<host, room, names, sums>>

(* `control` with the channels on: `back`, `flush` and the others.         *)
ChannelControl(c) ==
  /\ handles(c) /\ admit /\ is_on("channels")
  /\ Answers(c, {"ok"} \cup channels_failure)
  /\ UNCHANGED <<host, room, names, sums>>

(* An agent's message without a channel: an earcon, a question on screen   *)
(* in a terminal's tab, and the question navigation.                       *)
Shows(c) ==
  /\ handles(c) /\ admit /\ is_on("agent")
  /\ Answers(c, {"ok"} \cup agent_failure)
  /\ UNCHANGED <<host, room, names, sums>>

(* The system's keys, and `preview`, which a host may lack.                *)
SystemMessage(c) ==
  /\ handles(c) /\ one_at_a_time /\ is_on("system")
  /\ Unsupported(c, "preview") \/ Answers(c, {"ok"} \cup reader_failure)
  /\ UNCHANGED <<host, room, names, sums>>

shutdown(c) ==
  /\ handles(c) /\ admit /\ is_on("system")
  /\ host' = [host EXCEPT !.retiring = TRUE]
  /\ Answers(c, {"ok"})
  /\ UNCHANGED <<room, names, sums>>

-----------------------------------------------------------------------------
(* The names of channels.                                                  *)

label_of(t, given) == IF names[t].own # NoName THEN names[t].own ELSE given
Labelled(t) == room[t].open /\ room[t].label # NoName

(* The client's name for the channel, which with `keep_label` is the first *)
(* it gave.  The fault: the newest.                                        *)
client_label_newest(t, given, keep) == given
client_label(t, given, keep) ==
  IF keep /\ Labelled(t)
  THEN IF names[t].client # NoName THEN names[t].client
       ELSE IF names[t].own # NoName THEN given ELSE room[t].label
  ELSE given

(* Whether a name is being given to the channel.                           *)
GivesName(c) == \/ conn[c].req.at \in {"open", "rename"}
                \/ conn[c].req.at = "message" /\ conn[c].req.name # NoName
Naming(t) == \E c \in Callers : GivesName(c) /\ conn[c].req.talk = t
(* From here on the label and the Store may differ.                        *)
Parts(t, parts) == room' = [room EXCEPT ![t].parted = @ \/ parts]
Names(c, step, t, name, keep) ==
  Goes_on(c, [Quiet EXCEPT !.at = step, !.talk = t, !.name = name, !.keep = keep,
                           !.was_open = room[t].open])

(* `channel_open`, admitted: the name is noted and chosen, then the        *)
(* channel gets it.  The user may name it in between: `set` does not wait  *)
(* for admission.  A policy of another kind is refused with the name noted.*)
open(c) ==
  /\ handles(c) /\ admit /\ is_on("channels")
  /\ \E t \in Talks, given \in GivenNames \cup {NoName}, keep, good \in BOOLEAN :
       LET label == client_label(t, given, keep)
       IN  /\ names' = [names EXCEPT ![t].client = label]
           /\ Parts(t, ~good \/ Naming(t))
           /\ IF good
              THEN /\ host' = [host EXCEPT !.admitted = c]
                   /\ Names(c, "open", t, label_of(t, label), keep)
              ELSE UNCHANGED host /\ Answers(c, {"E_BAD_REQUEST"})
  /\ UNCHANGED sums
OpenEnds(c) ==
  /\ Doing(c, "open")
  /\ room' = [room EXCEPT ![conn[c].req.talk].open = TRUE, ![conn[c].req.talk].label = conn[c].req.name]
  /\ host' = [host EXCEPT !.admitted = NoOne]
  /\ Answers(c, {"ok"})
  /\ UNCHANGED <<names, sums>>

(* apply_label: an agent's message, admitted, names a channel that has no  *)
(* name; then the message itself is handled, and a text opens the channel. *)
apply_label(c) ==
  /\ handles(c) /\ admit /\ is_on("agent")
  /\ \E t \in Talks, given \in GivenNames \cup {NoName} :
       IF Labelled(t) THEN UNCHANGED <<names, room>> /\ Names(c, "message", t, NoName, TRUE)
       ELSE /\ names' = [names EXCEPT ![t].client = IF given # NoName THEN given ELSE @]
            /\ Parts(t, Naming(t))
            /\ Names(c, "message", t, label_of(t, given), TRUE)
  /\ host' = [host EXCEPT !.admitted = c]
  /\ UNCHANGED sums
label_if_missing(r, label) == IF r.open /\ r.label = NoName THEN [r EXCEPT !.label = label] ELSE r
Labels(r, req) ==
  IF req.name = NoName THEN r
  ELSE IF req.was_open THEN label_if_missing(r, req.name)
  ELSE [r EXCEPT !.open = TRUE, !.label = req.name]
Opens(r, opens) == [r EXCEPT !.open = @ \/ opens]
AgentMessage(c) ==
  /\ Doing(c, "message")
  /\ \E text \in BOOLEAN, code \in {"ok"} \cup agent_failure :
       /\ room' = [room EXCEPT ![conn[c].req.talk] =
                     Opens(Labels(@, conn[c].req), text /\ code = "ok")]
       /\ Answers(c, {code})
  /\ host' = [host EXCEPT !.admitted = NoOne]
  /\ UNCHANGED <<names, sums>>

(* `speak` with a channel opens it without a name.                         *)
SpeakTo(c) ==
  /\ handles(c) /\ admit /\ is_on("channels")
  /\ \E t \in Talks : room' = [room EXCEPT ![t].open = TRUE]
  /\ Answers(c, {"ok"})
  /\ UNCHANGED <<host, names, sums>>

Shut(t) == [open |-> FALSE, label |-> NoName, parted |-> Naming(t)]
Unfocused(t) == [host EXCEPT !.focus = IF @ = t THEN NoName ELSE @]
close(c) ==
  /\ handles(c) /\ admit /\ is_on("channels")
  /\ \E t \in Talks :
       IF room[t].open
       THEN room' = [room EXCEPT ![t] = Shut(t)] /\ host' = Unfocused(t) /\ Answers(c, {"ok"})
       ELSE UNCHANGED <<room, host>> /\ Answers(c, {"E_NOT_FOUND"})
  /\ UNCHANGED <<names, sums>>

focus(c) ==
  /\ handles(c) /\ admit /\ is_on("channels")
  /\ \E t \in Talks : IF room[t].open
                      THEN host' = [host EXCEPT !.focus = t] /\ Answers(c, {"ok"})
                      ELSE UNCHANGED host /\ Answers(c, {"E_NOT_FOUND"})
  /\ UNCHANGED <<room, names, sums>>

(* `set channel_prefs`: the user's name is stored, then an open channel is *)
(* renamed; without one it has its client's again.                         *)
prefs_setting(c) ==
  /\ handles(c) /\ one_at_a_time /\ is_on("channels")
  /\ \E t \in Talks, own \in OwnNames \cup {NoName} :
       /\ names' = [names EXCEPT ![t].own = own]
       /\ Parts(t, Naming(t))
       /\ Names(c, "rename", t, own, FALSE)
  /\ host' = [host EXCEPT !.setting = c]
  /\ UNCHANGED sums
renamed(t, own) == IF own # NoName THEN own ELSE names[t].client
PrefsEnd(c) ==
  /\ Doing(c, "rename")
  /\ LET t == conn[c].req.talk
     IN  room' = IF room[t].open THEN [room EXCEPT ![t].label = renamed(t, conn[c].req.name)] ELSE room
  /\ host' = [host EXCEPT !.setting = NoOne]
  /\ Answers(c, {"ok"})
  /\ UNCHANGED <<names, sums>>

(* ... `forget`, not of the focused channel: its names and the channel.    *)
forget(c) ==
  /\ handles(c) /\ one_at_a_time /\ is_on("channels")
  /\ \E t \in Talks :
       IF host.focus = t THEN UNCHANGED <<room, names>> /\ Answers(c, {"E_BAD_REQUEST"})
       ELSE /\ names' = [names EXCEPT ![t] = [own |-> NoName, client |-> NoName]]
            /\ room' = [room EXCEPT ![t] = Shut(t)]
            /\ Answers(c, {"ok"})
  /\ UNCHANGED <<host, sums>>

-----------------------------------------------------------------------------
(* `set summaries`: the fields given are merged with those in force, the   *)
(* prompts with the stored ones.  The prompt in force is the style's.      *)
merge_summaries(enabled, style) ==
  [enabled |-> IF enabled = "same" THEN sums.now.enabled ELSE enabled = "yes",
   style |-> IF style = NoName THEN sums.now.style ELSE style]
(* The prompts set or reset, by style, then the one of the style in force. *)
merge_prompts(style, given, prompt) ==
  [s \in Styles |-> IF s = style /\ prompt # "same" THEN prompt
                    ELSE IF given[s] # "same" THEN given[s] ELSE sums.prompts[s]]

(* record_summaries: the fields given.                                     *)
record_summaries(enabled, style, merged) ==
  [enabled |-> IF enabled = "same" THEN sums.enabled ELSE merged.enabled,
   style |-> IF style = NoName THEN sums.style ELSE merged.style]

(* A value out of range, or summaries without a summarizer, is refused.    *)
set_summaries(c) ==
  /\ handles(c) /\ one_at_a_time /\ is_on("agent")
  /\ \E enabled \in {"same", "yes", "no"}, style \in Styles \cup {NoName},
        given \in [Styles -> Texts \cup {NoName, "same"}], prompt \in Texts \cup {NoName, "same"},
        good \in BOOLEAN :
       LET merged == merge_summaries(enabled, style)
           prompts == merge_prompts(merged.style, given, prompt)
           stored == record_summaries(enabled, style, merged)
       IN  IF ~good THEN UNCHANGED sums /\ Answers(c, {"E_BAD_REQUEST"})
           ELSE IF merged.enabled /\ ~Summarizer THEN UNCHANGED sums /\ Unsupported(c, "summaries")
           ELSE /\ sums' = [enabled |-> stored.enabled, style |-> stored.style, prompts |-> prompts,
                            now |-> [enabled |-> merged.enabled, style |-> merged.style,
                                     prompt |-> prompts[merged.style]]]
                /\ Answers(c, {"ok"})
  /\ UNCHANGED <<host, room, names>>

-----------------------------------------------------------------------------
(* The runtime ends, and another one starts with what is stored.           *)
Restarts ==
  /\ exiting /\ \A c \in Callers : conn[c].req.at = "rest"
  /\ asked < MaxAsked /\ asked' = asked + 1
  /\ host' = FreshHost /\ room' = FreshRooms /\ conn' = Connected /\ said' = Silent
  /\ names' = [t \in Talks |-> [names[t] EXCEPT !.client = NoName]]
  /\ sums' = [sums EXCEPT !.now = NoSums]

Hellos(c) == HelloRefused(c) \/ HelloTakes(c) \/ hello(c) \/ enable(c) \/ EnableBuilds(c)
             \/ EnableSets(c) \/ EnableEnds(c) \/ EnableFails(c) \/ HelloEnds(c)
Namings(c) == open(c) \/ OpenEnds(c) \/ apply_label(c) \/ AgentMessage(c) \/ SpeakTo(c) \/ close(c)
              \/ focus(c) \/ prefs_setting(c) \/ PrefsEnd(c) \/ forget(c)
Others(c) == Refused(c) \/ Core(c) \/ EngineMessage(c) \/ NotFound(c) \/ ChannelControl(c) \/ Shows(c) \/ SystemMessage(c)
             \/ Subscribe(c) \/ shutdown(c)
             \/ LineEnds(c) \/ LineComes(c)

ProtocolNext == Restarts \/ \E c \in Callers : Hellos(c) \/ Others(c) \/ Namings(c) \/ set_summaries(c)
ProtocolSpec == ProtocolInit /\ [][ProtocolNext]_protoVars

-----------------------------------------------------------------------------
(* Properties.                                                             *)

(* A layer is built once, whoever says hello at the same time, and on the  *)
(* layers it needs; what a `hello` listed stays on, so that nothing of it  *)
(* is refused as unsupported while the runtime lives, and nothing of an    *)
(* extension this host could have is unknown (extensions.rs enable, the    *)
(* `enabling` lock; mod.rs dispatch).                                      *)
Promised ==
  /\ \A e \in Exts : host.built[e] <= 1
  /\ "agent" \in host.on => "channels" \in host.on
  /\ ~exiting => host.told \subseteq host.on
  /\ ~exiting /\ said.code = "E_UNSUPPORTED" => said.of \notin host.told
  /\ said.of \in Exts => said.code = "E_UNSUPPORTED"

(* The name read on a switch is the user's, else the one its client gave,  *)
(* whatever opened the channel; and a client that opens it again with      *)
(* keep_label gives it the name it has (#245).  Not so once a name was     *)
(* given while another one was, or noted by an open that was refused.      *)
NamesStored ==
  \A t \in Talks : Labelled(t) /\ ~room[t].parted =>
    /\ ~Naming(t) => room[t].label = label_of(t, names[t].client)
    /\ \A c \in Callers : conn[c].req.at = "open" /\ conn[c].req.keep /\ conn[c].req.talk = t =>
         conn[c].req.name = room[t].label

(* The summaries in force are the stored ones, which the next runtime      *)
(* starts with, and the prompt is that of the style.                       *)
SummariesStored ==
  is_on("agent") =>
    /\ sums.now.prompt = sums.prompts[sums.now.style]
    /\ sums.now.style = sums.style
    /\ sums.now.enabled = (sums.enabled /\ Summarizer)

(* What is in force is what is stored: channels go by the user's name for  *)
(* them or the first their client gave, and summaries by the settings that *)
(* a restart reads (channels_ext.rs open, apply_label, prefs_setting;      *)
(* agent_ext.rs setting, settings_from).                                   *)
InForce == NamesStored /\ SummariesStored
=============================================================================
