------------------------------ MODULE Hotkeys ------------------------------
(***************************************************************************)
(* The keymap and the hotkeys that follow it (sonara-system keymap.rs,     *)
(* hotkeys.rs and the registrar of win.rs; sonarad system_ext.rs).         *)
(*                                                                         *)
(* `set hotkeys` changes keymap.json under the `set` lock and registers    *)
(* the new keymap after it, under the transition lock that arming and      *)
(* disarming take too.  A pump thread registers the chords with Windows    *)
(* and takes the presses, a dispatch thread carries them out; stopping     *)
(* joins both.  The user presses keys, edits the file by hand, and other   *)
(* programs take chords.                                                   *)
(*                                                                         *)
(* A chord stands for a key with its modifiers.  The file names actions by *)
(* their current names.  What a press does is its name here (Muting and    *)
(* AudioControl have the presses that matter to them), and HotkeyThread's  *)
(* queue is the pump's `messages`.                                         *)
(***************************************************************************)
EXTENDS Naturals, Sequences, FiniteSets

CONSTANTS Setters,     \* threads with a client's request
          Changes,     \* what is asked for: <<"bind", action, chord>>,
                       \* <<"unbind", action>> or <<"reset">>
          Pressed,     \* the chords the user presses
          MaxHappens   \* bound: requests, clients coming and going, presses,
                       \* edits by hand, chords taken

VARIABLES
  keymap,   \* keymap.json; whether it was edited by hand; the step hint's key
  os,       \* who owns each chord; the chord that is down
  pumps,    \* the hotkeys started so far, the last of them in the slot or none
  ext,      \* armed, shut down, the two locks and the slot
  setter,   \* each thread: what it has still to do
  happened  \* what happened so far

keyVars == <<keymap, os, pumps, ext, setter, happened>>

-----------------------------------------------------------------------------
(* keymap.rs.  Three of the actions, in Action::ALL's order: two that can  *)
(* be held, with default chords, and a toggle that ships unbound.          *)
All == <<"restart", "flush", "pause">>
Actions == {"restart", "flush", "pause"}
holdable(a) == a # "pause"
debounced(a) == a = "pause"

Chords == {"up", "down", "x"}
Unbound == "unbound"
Unknown == "unknown"      \* a key or modifier the tables lack

default_binding(a) == CASE a = "restart" -> "up" [] a = "flush" -> "down" [] OTHER -> Unbound

(* The file: missing, not JSON, or the user's overrides.                   *)
NoOverrides == [a \in {} |-> Unbound]
Missing == [kind |-> "missing", overrides |-> NoOverrides]
Broken == [kind |-> "broken", overrides |-> NoOverrides]
Json(overrides) == [kind |-> "json", overrides |-> overrides]
read_overrides(file) == file.overrides

load_keymap(file) == LET o == read_overrides(file)
                     IN  [a \in Actions |-> IF a \in DOMAIN o THEN o[a] ELSE default_binding(a)]

(* The bound actions whose keys exist, in order.                           *)
Entry(km, a) == IF km[a] \in Chords THEN <<[action |-> a, chord |-> km[a]]>> ELSE <<>>
resolve(km) == Entry(km, All[1]) \o Entry(km, All[2]) \o Entry(km, All[3])
Bindings(file) == LET bs == resolve(load_keymap(file)) IN {bs[i] : i \in 1..Len(bs)}

next_section_label(file) == LET c == load_keymap(file)["flush"] IN IF c \in Chords THEN c ELSE Unbound

(* `bind` refuses a chord that another action has.                         *)
taken(file, a, c) == \E b \in Bindings(file) : b.action # a /\ b.chord = c

bind(file, a, c) == LET o == read_overrides(file)
                    IN  Json([b \in DOMAIN o \cup {a} |-> IF b = a THEN c ELSE o[b]])
unbind(file, a) ==
  LET o == read_overrides(file)
      kept == DOMAIN o \ {a}
  IN  Json([b \in kept \cup (IF default_binding(a) # Unbound THEN {a} ELSE {})
              |-> IF b = a THEN Unbound ELSE o[b]])
reset == Json([a \in {b \in Actions : default_binding(b) # Unbound} |-> default_binding(a)])

-----------------------------------------------------------------------------
(* The hotkeys started with some bindings.                                 *)
Free == <<0, "free">>
Other == <<0, "other">>   \* another program
Nobody == "nobody"        \* who holds a free lock

(* What is asked for and pressed has keys that exist (`bind` refuses any   *)
(* other), and no thread is called Nobody.                                 *)
ASSUME KeysAssumption ==
  /\ Nobody \notin Setters /\ Pressed \subseteq Chords
  /\ \A c \in Changes : \/ c = <<"reset">>
                        \/ \E a \in Actions : c = <<"unbind", a>>
                        \/ \E a \in Actions, k \in Chords : c = <<"bind", a, k>>

Idle == [at |-> "idle", action |-> "none", chord |-> "none", for |-> 0]
Started(bindings) ==
  [at |-> "waiting", todo |-> bindings, bindings |-> bindings, ids |-> {},
   errors |-> [a \in {} |-> Free], messages |-> <<>>, recent |-> {},
   presses |-> <<>>, dispatch |-> Idle]

(* Both threads have ended.                                                *)
Gone == [Started(<<>>) EXCEPT !.at = "gone", !.dispatch.at = "gone"]

HOLD == 2                 \* in steps of DEBOUNCE

KeysInit ==
  /\ \E file \in {Missing, Json([a \in {"flush"} |-> "x"])} :
       keymap = [file |-> file, edited |-> FALSE, hint |-> next_section_label(file)]
  /\ os = [owner |-> [c \in Chords |-> Free], down |-> "none"]
  /\ pumps = <<>>
  /\ ext = [armed |-> FALSE, shut |-> FALSE, set |-> Nobody, transition |-> Nobody, slot |-> 0]
  /\ setter = [t \in Setters |-> <<>>]
  /\ happened = 0

-----------------------------------------------------------------------------
(* Requests and clients that come and go, as the steps of their threads.   *)

At(t, step) == setter[t] # <<>> /\ Head(setter[t])[1] = step
Arg(t) == Head(setter[t])[2]
Then(t, steps) == setter' = [setter EXCEPT ![t] = steps \o Tail(@)]
Step(name) == <<name, <<>>>>

(* `set hotkeys`: validated and saved under the `set` lock.                *)
SetHotkeys(t) ==
  /\ setter[t] = <<>> /\ happened < MaxHappens
  /\ \E change \in Changes : setter' = [setter EXCEPT ![t] = <<<<"check", change>>>>]
  /\ happened' = happened + 1
  /\ UNCHANGED <<keymap, os, pumps, ext>>

(* A client that needs the extension connects, or the last one leaves.     *)
Hold(t) ==
  /\ setter[t] = <<>> /\ happened < MaxHappens
  /\ setter' = [setter EXCEPT ![t] = <<Step(IF ext.armed THEN "disarm" ELSE "arm")>>]
  /\ happened' = happened + 1
  /\ UNCHANGED <<keymap, os, pumps, ext>>

(* A bad binding never reaches the file.                                   *)
Check(t) ==
  LET change == Arg(t)
      refused == change[1] = "bind" /\ taken(keymap.file, change[2], change[3])
  IN  /\ At(t, "check") /\ ext.set = Nobody
      /\ ext' = IF refused THEN ext ELSE [ext EXCEPT !.set = t]
      /\ Then(t, IF refused THEN <<>> ELSE <<<<"save", change>>>>)
      /\ UNCHANGED <<keymap, os, pumps, happened>>

(* The overrides as they are now, with the change; the step hint names the *)
(* new key; the keymap is registered once the `set` lock is let go.  When  *)
(* the write fails nothing changes.                                        *)
Save(t) ==
  LET change == Arg(t)
      file == CASE change[1] = "bind" -> bind(keymap.file, change[2], change[3])
                [] change[1] = "unbind" -> unbind(keymap.file, change[2])
                [] OTHER -> reset
  IN  /\ At(t, "save")
      /\ ext' = [ext EXCEPT !.set = Nobody]
      /\ \/ /\ keymap' = [keymap EXCEPT !.file = file, !.hint = next_section_label(file)]
            /\ Then(t, <<Step("reload")>>)
         \/ keymap' = keymap /\ Then(t, <<>>)
      /\ UNCHANGED <<os, pumps, happened>>

(* Hotkeys::stop posts the quit and joins both threads: the pump once it   *)
(* let every chord go, the dispatch once it did every press it was given.  *)
(* The fault: it does not wait for them.                                   *)
Stopped_posted(n) == TRUE
Stopped(n) == pumps[n] = Gone

Quit(n) == pumps' = [pumps EXCEPT ![n].messages = Append(@, "quit")]

(* Under the transition lock: the hotkeys in the slot are stopped, then    *)
(* `steps` are taken.                                                      *)
Transition(t, armed, steps) ==
  /\ ext.transition = Nobody
  /\ ext' = [ext EXCEPT !.armed = armed, !.transition = t, !.slot = 0]
  /\ IF ext.slot = 0 THEN pumps' = pumps /\ Then(t, steps)
     ELSE Quit(ext.slot) /\ Then(t, <<<<"join", ext.slot>>>> \o steps)
  /\ UNCHANGED <<keymap, os, happened>>

start_hotkeys == <<Step("start"), Step("ready")>>
Nothing(t) == ext.transition = Nobody /\ Then(t, <<>>) /\ UNCHANGED <<keymap, os, pumps, ext, happened>>

(* The keymap changed: register again while armed.                         *)
Reload(t) ==
  /\ At(t, "reload")
  /\ IF ext.armed THEN Transition(t, TRUE, start_hotkeys) ELSE Nothing(t)

Arm(t) ==
  /\ At(t, "arm")
  /\ IF ext.armed THEN Nothing(t) ELSE Transition(t, TRUE, start_hotkeys)

Disarm(t) ==
  /\ At(t, "disarm")
  /\ IF ext.armed THEN Transition(t, FALSE, <<Step("unlock")>>) ELSE Nothing(t)

Join(t) ==
  /\ At(t, "join") /\ Stopped(Arg(t))
  /\ Then(t, <<>>) /\ UNCHANGED <<keymap, os, pumps, ext, happened>>

(* The keymap is read and the threads started; `start` returns once every  *)
(* chord was tried.                                                        *)
Start(t) ==
  /\ At(t, "start")
  /\ pumps' = Append(pumps, Started(resolve(load_keymap(keymap.file))))
  /\ Then(t, <<>>) /\ UNCHANGED <<keymap, os, ext, happened>>

IsReady(t) ==
  /\ At(t, "ready") /\ pumps[Len(pumps)].todo = <<>>
  /\ ext' = [ext EXCEPT !.transition = Nobody, !.slot = Len(pumps)]
  /\ Then(t, <<>>) /\ UNCHANGED <<keymap, os, pumps, happened>>

Unlock(t) ==
  /\ At(t, "unlock")
  /\ ext' = [ext EXCEPT !.transition = Nobody]
  /\ Then(t, <<>>) /\ UNCHANGED <<keymap, os, pumps, happened>>

(* The runtime ends: the hotkeys in the slot are stopped, without the      *)
(* transition lock, but not while start_hotkeys has the slot.              *)
KeysShutdown ==
  /\ ~ext.shut /\ happened < MaxHappens /\ happened' = happened + 1
  /\ \A t \in Setters : ~(At(t, "join") \/ At(t, "start") \/ At(t, "ready"))
  /\ IF ext.slot = 0 THEN pumps' = pumps ELSE Quit(ext.slot)
  /\ ext' = [ext EXCEPT !.shut = TRUE, !.slot = 0]
  /\ UNCHANGED <<keymap, os, setter>>

-----------------------------------------------------------------------------
(* The pump thread.                                                        *)

Is(n, at) == pumps[n].at = at
KeysElse == UNCHANGED <<keymap, ext, setter, happened>>

(* One chord, unless an earlier action of ours has it; what Windows says   *)
(* of one that is taken.                                                   *)
Register(n) ==
  LET p == pumps[n]
      b == Head(p.todo)
      ours == {a \in p.ids : \E i \in 1..Len(p.bindings) :
                                p.bindings[i] = [action |-> a, chord |-> b.chord]}
      owner == os.owner[b.chord]
      ok == ours = {} /\ owner = Free
      said(why) == [a \in DOMAIN p.errors \cup {b.action} |->
                      IF a = b.action THEN why ELSE p.errors[a]]
  IN  /\ p.todo # <<>>
      /\ pumps' = [pumps EXCEPT
           ![n].todo = Tail(@),
           ![n].ids = IF ok THEN @ \cup {b.action} ELSE @,
           ![n].errors = IF ok THEN @ ELSE said(IF ours # {} THEN <<n, "bound_twice">> ELSE owner)]
      /\ os' = IF ok THEN [os EXCEPT !.owner[b.chord] = <<n, b.action>>] ELSE os
      /\ KeysElse

(* A press: a repeat of a toggle within DEBOUNCE is ignored.               *)
allow(p, a) == ~debounced(a) \/ a \notin p.recent

Pump(n) ==
  LET p == pumps[n]
      m == Head(p.messages)
      runs == m # "quit" /\ allow(p, m)
      b == CHOOSE b \in {p.bindings[i] : i \in 1..Len(p.bindings)} : b.action = m
  IN  /\ Is(n, "waiting") /\ p.todo = <<>> /\ p.messages # <<>>
      /\ pumps' = [pumps EXCEPT ![n] =
           [p EXCEPT !.at = IF m = "quit" THEN "stopping" ELSE @,
                     !.messages = Tail(@),
                     !.recent = IF runs /\ debounced(m) THEN @ \cup {m} ELSE @,
                     !.presses = IF runs THEN Append(@, b) ELSE @]]
      /\ UNCHANGED os /\ KeysElse

Unregister(n) ==
  LET mine == {c \in Chords : os.owner[c] \in {<<n, a>> : a \in pumps[n].ids}}
  IN  /\ Is(n, "stopping")
      /\ IF mine = {} THEN pumps' = [pumps EXCEPT ![n].at = "gone"] /\ os' = os
         ELSE /\ os' = [os EXCEPT !.owner[CHOOSE c \in mine : TRUE] = Free]
              /\ pumps' = pumps
      /\ KeysElse

-----------------------------------------------------------------------------
(* The dispatch thread: one press after the other, the key of one that can *)
(* be held watched until it is up or was down for HOLD.                    *)
Take(n) ==
  LET p == pumps[n]
      b == Head(p.presses)
  IN  /\ p.dispatch.at = "idle" /\ p.presses # <<>>
      /\ pumps' = [pumps EXCEPT
           ![n].presses = Tail(@),
           ![n].dispatch = [at |-> IF holdable(b.action) THEN "watching" ELSE "tap",
                            action |-> b.action, chord |-> b.chord, for |-> 0]]
      /\ UNCHANGED os /\ KeysElse

watch(n) ==
  LET d == pumps[n].dispatch
  IN  /\ d.at = "watching" /\ (os.down # d.chord \/ d.for >= HOLD)
      /\ pumps' = [pumps EXCEPT ![n].dispatch.at = IF os.down # d.chord THEN "tap" ELSE "hold"]
      /\ UNCHANGED os /\ KeysElse

Perform(n) ==
  /\ pumps[n].dispatch.at \in {"tap", "hold"}
  /\ pumps' = [pumps EXCEPT ![n].dispatch = Idle]
  /\ UNCHANGED os /\ KeysElse

DispatchEnds(n) ==
  /\ pumps[n].dispatch.at = "idle" /\ pumps[n].presses = <<>> /\ Is(n, "gone")
  /\ pumps' = [pumps EXCEPT ![n] = Gone]
  /\ UNCHANGED os /\ KeysElse

-----------------------------------------------------------------------------
(* The user, other programs, and time.                                     *)

(* A chord arrives once however long it is held.                           *)
Press(c) ==
  LET o == os.owner[c]
  IN  /\ os.down = "none" /\ happened < MaxHappens
      /\ os' = [os EXCEPT !.down = c]
      /\ pumps' = IF o \in {Free, Other} THEN pumps
                  ELSE [pumps EXCEPT ![o[1]].messages = Append(@, o[2])]
      /\ happened' = happened + 1
      /\ UNCHANGED <<keymap, ext, setter>>

LetGo == os.down # "none" /\ os' = [os EXCEPT !.down = "none"] /\ UNCHANGED pumps /\ KeysElse

OtherTakes(c) ==
  /\ os.owner[c] = Free /\ \A d \in Chords : os.owner[d] # Other
  /\ happened < MaxHappens /\ happened' = happened + 1
  /\ os' = [os EXCEPT !.owner[c] = Other] /\ UNCHANGED <<keymap, pumps, ext, setter>>

Edit ==
  /\ happened < MaxHappens
  /\ \E file \in {Broken, Json([a \in {"pause"} |-> "up"]), Json([a \in {"restart"} |-> Unknown])} :
       keymap' = [keymap EXCEPT !.file = file, !.edited = TRUE]
  /\ happened' = happened + 1
  /\ UNCHANGED <<os, pumps, ext, setter>>

Waits(p) == p.recent # {} \/ (p.dispatch.at = "watching" /\ p.dispatch.for < HOLD)
Time ==
  /\ \E n \in 1..Len(pumps) : Waits(pumps[n])
  /\ pumps' = [n \in 1..Len(pumps) |->
       [pumps[n] EXCEPT !.recent = {},
                        !.dispatch.for = IF pumps[n].dispatch.at = "watching" /\ @ < HOLD
                                         THEN @ + 1 ELSE @]]
  /\ UNCHANGED os /\ KeysElse

-----------------------------------------------------------------------------
KeyRequests(t) == SetHotkeys(t) \/ Hold(t)
Runs(t) ==
  \/ Check(t) \/ Save(t) \/ Reload(t) \/ Arm(t) \/ Disarm(t) \/ Join(t) \/ Start(t)
  \/ IsReady(t) \/ Unlock(t)
KeyThreads(n) == \/ Register(n) \/ Pump(n) \/ Unregister(n) \/ Take(n)
                 \/ watch(n) \/ Perform(n) \/ DispatchEnds(n)
Keyboard == (\E c \in Pressed : Press(c) \/ OtherTakes(c)) \/ LetGo \/ Edit \/ Time

KeysNext ==
  \/ \E t \in Setters : KeyRequests(t) \/ Runs(t)
  \/ \E n \in 1..Len(pumps) : KeyThreads(n)
  \/ Keyboard \/ KeysShutdown
KeysSpec == KeysInit /\ [][KeysNext]_keyVars

-----------------------------------------------------------------------------
(* `get hotkeys` for an action.                                            *)
hotkeys_json(a) ==
  LET p == pumps[ext.slot]
  IN  IF a \in DOMAIN p.errors THEN p.errors[a]
      ELSE <<ext.slot, IF a \in p.ids THEN "registered" ELSE Unbound>>

(* Once requests and clients are served, the keys do what the keymap says: *)
(* the chord of every bound action runs that action unless another program *)
(* had it, no chord is ours that is not bound, and the step hint names the *)
(* key in force, whatever sets, arms, presses and stops overlapped         *)
(* (start_hotkeys, Hotkeys::stop, bind).  A keymap that was only changed   *)
(* by requests never has two actions on one chord.                         *)
ChordsFollow ==
  (~ext.shut /\ \A t \in Setters : setter[t] = <<>>) =>
    LET bound == Bindings(keymap.file)
        ours == {c \in Chords : os.owner[c] \notin {Free, Other}}
    IN  /\ ext.armed = (ext.slot # 0)
        /\ ~ext.armed => ours = {}
        /\ \A c \in ours : os.owner[c][1] = ext.slot
        /\ ~keymap.edited =>
             /\ \A b, d \in bound : b.chord = d.chord => b = d
             /\ keymap.hint = next_section_label(keymap.file)
             /\ ext.armed =>
                  /\ \A b \in bound : \/ os.owner[b.chord] = <<ext.slot, b.action>>
                                      \/ hotkeys_json(b.action) = Other
                  /\ \A c \in ours : [action |-> os.owner[c][2], chord |-> c] \in bound
=============================================================================
