------------------------------- MODULE Router -------------------------------
(***************************************************************************)
(* The layer 2 router of sonara-channels (router.rs): channels with their  *)
(* batches and read cursors, which channel reads next, replay holds and    *)
(* switch announcements.                                                   *)
(*                                                                         *)
(* The Rust type is pure.  It is one record `r` here; a method is an       *)
(* operator of the same name that maps a record to a record, and `fed`     *)
(* keeps what next_feed returned.  Entries are their ids: texts and labels *)
(* of entries are left out (so is `revise`, which only changes a text).    *)
(* A channel's label is whether it has one, an empty host tab is no tab    *)
(* (the code treats them alike).  `order` is the Vec of channels, `ch`     *)
(* what each holds; a channel that is not open holds nothing.              *)
(***************************************************************************)
EXTENDS Integers, Sequences, FiniteSets

CONSTANTS
  None,        \* Option::None
  Ids,         \* channel ids clients use
  Tabs,        \* host tabs
  MaxEntries   \* bound: entries pushed

ASSUME RouterConstants ==
  /\ MaxEntries \in Nat
  /\ None \notin Ids /\ None \notin Tabs

VARIABLE router

-----------------------------------------------------------------------------
Policy   == {"Latest", "Queue"}
Resolved == {"All", "Heard", "Settled"}
EntryId  == Nat \ {0}
Tab      == Tabs \cup {None}

(* A decision entry, and whether it was stored rather than fed.            *)
Decisions == SUBSET (EntryId \X BOOLEAN)

Channel == [named : BOOLEAN, tab : Tab, policy : Policy, entries : Seq(EntryId),
            cursor : Nat, gen : Nat, replaying : BOOLEAN, muted : BOOLEAN,
            growing : BOOLEAN, decisions : Decisions, agent : BOOLEAN,
            aside : SUBSET EntryId]

new_channel(named, tab, policy, muted) ==
  [named |-> named, tab |-> tab, policy |-> policy, entries |-> <<>>,
   cursor |-> 0, gen |-> 0, replaying |-> FALSE, muted |-> muted,
   growing |-> FALSE, decisions |-> {}, agent |-> FALSE, aside |-> {}]

NotOpen == new_channel(FALSE, None, "Latest", FALSE)

Switch == [channel : Ids, replay : BOOLEAN, manual : BOOLEAN]

Feed == [op : {"Announce"}, channel : Ids, named : BOOLEAN,
         replay : BOOLEAN, manual : BOOLEAN]
   \cup [op : {"Entry"}, channel : Ids, entry : EntryId]

RouterType ==
  [order : Seq(Ids), ch : [Ids -> Channel], next_entry : Nat,
   active : Ids \cup {None}, last_active : Ids \cup {None},
   last_reader : Ids \cup {None}, closed_reader_tab : Tab,
   focus : Ids \cup {None}, announce : Switch \cup {None},
   reading : (Ids \X EntryId) \cup {None},
   suppressed : SUBSET (Ids \X Nat), priority : Seq(Ids),
   hold : (Ids \X Nat) \cup {None}, muted : SUBSET Ids,
   focus_only : BOOLEAN, authorized : SUBSET Ids, fed : Feed \cup {None}]

-----------------------------------------------------------------------------
(* One channel's batch.  `cursor` counts the entries before the next one.  *)

unread(c) == {i \in (c.cursor + 1)..Len(c.entries) : c.entries[i] \notin c.aside}
caught_up(c) == unread(c) = {}

(* Put e after the first `at` entries of s.                                *)
insert(s, at, e) == SubSeq(s, 1, at) \o <<e>> \o SubSeq(s, at + 1, Len(s))

(* Channel::push                                                           *)
push_channel(c, e, replace, front, reading) ==
  LET b == IF replace \/ (caught_up(c) /\ ~reading /\ ~c.growing)
           THEN [c EXCEPT !.entries = <<>>, !.decisions = {}, !.aside = {},
                          !.cursor = 0]
           ELSE c
  IN [b EXCEPT !.entries = insert(@, IF front THEN b.cursor ELSE Len(@), e),
               !.gen = @ + 1, !.replaying = FALSE]

(* What an open channel takes from `open`.                                 *)
relabel(c, named, tab, policy) ==
  [c EXCEPT !.named = named, !.tab = tab, !.policy = IF policy = None THEN @ ELSE policy]

(* After an agent's text e went into the batch: it grows, e may be a       *)
(* decision, and text that was only stored counts as read.                 *)
grown(c, e, decision, heard, passed) ==
  [c EXCEPT !.growing = TRUE, !.agent = TRUE,
            !.decisions = IF decision THEN @ \cup {<<e, heard>>} ELSE @,
            !.cursor = IF passed THEN Len(c.entries) ELSE @]

(* Read from after the first `at` entries.                                 *)
read_after(c, at, replay) == [c EXCEPT !.cursor = at, !.replaying = @ \/ replay]

(* Channel::take: the cursor passes the entries set aside and the next.    *)
taken(c) == CHOOSE i \in unread(c) : \A j \in unread(c) : i <= j
take(c)  == [c EXCEPT !.cursor = IF caught_up(c) THEN Len(c.entries) ELSE taken(c)]

skip_to_end(c) == [c EXCEPT !.cursor = Len(c.entries)]

(* Channel::drop_decisions: the entries that go, and the batch without.    *)
dropped_decisions(c, which) ==
  {e \in {d[1] : d \in c.decisions} :
     LET before == \E i \in 1..c.cursor : c.entries[i] = e
         stored == <<e, TRUE>> \in c.decisions
     IN CASE which = "All"     -> TRUE
          [] which = "Heard"   -> before /\ ~stored
          [] which = "Settled" -> before}

(* s without the members of `gone`, in its order (Vec::retain): the n-th   *)
(* is the one before which, and with it, n stay.                           *)
kept(s, gone) == {i \in 1..Len(s) : s[i] \notin gone}
kept_to(s, gone, i) == Cardinality({j \in kept(s, gone) : j <= i})
nth_kept(s, gone, n) == CHOOSE i \in kept(s, gone) : kept_to(s, gone, i) = n
without(s, gone) == [n \in 1..Cardinality(kept(s, gone)) |-> s[nth_kept(s, gone, n)]]

(* Fault: the cursor stays where it was when read decisions leave.         *)
drop_channel_decisions_fixed(c, which) ==
  LET gone == dropped_decisions(c, which)
  IN [c EXCEPT !.entries = without(@, gone), !.aside = @ \ gone,
               !.decisions = {d \in @ : d[1] \notin gone}]

drop_channel_decisions(c, which) ==
  LET gone == dropped_decisions(c, which)
      read == without(SubSeq(c.entries, 1, c.cursor), gone)
      rest == without(SubSeq(c.entries, c.cursor + 1, Len(c.entries)), gone)
  IN [c EXCEPT !.entries = read \o rest, !.cursor = Len(read),
               !.aside = @ \ gone, !.decisions = {d \in @ : d[1] \notin gone}]

(* Channel::rewind, over the entry just taken.                             *)
rewind_channel(c, e) ==
  IF c.cursor > 0 /\ c.entries[c.cursor] = e
  THEN [c EXCEPT !.cursor = @ - 1] ELSE c

-----------------------------------------------------------------------------
(* Which channels are open, unread, muted, gated.                          *)

is_open(r, id)   == \E i \in 1..Len(r.order) : r.order[i] = id
ready(r, id)     == is_open(r, id) /\ ~caught_up(r.ch[id])
audible(r, id)   == ready(r, id) /\ ~r.ch[id].muted
is_suppressed(r, id) == is_open(r, id) /\ <<id, r.ch[id].gen>> \in r.suppressed

gated(r, id) == /\ r.focus_only
                /\ r.focus # None /\ r.focus # id
                /\ id \notin r.authorized

pickable(r, id) == audible(r, id) /\ ~is_suppressed(r, id) /\ ~gated(r, id)

engaged(r) == IF r.active # None THEN r.active ELSE r.last_active

(* The channel whose batch got the newest entry.                           *)
written_last(r) ==
  LET written == {id \in Ids : is_open(r, id) /\ r.ch[id].entries # <<>>}
      newest(id) == r.ch[id].entries[Len(r.ch[id].entries)]
  IN IF written = {} THEN None
     ELSE CHOOSE id \in written : \A x \in written : newest(x) <= newest(id)

unsuppress(r, id) == [r EXCEPT !.suppressed = {s \in @ : s[1] # id}]

-----------------------------------------------------------------------------
(* Opening and closing.                                                    *)

open(r, id, named, tab, policy) ==
  IF is_open(r, id)
  THEN [r EXCEPT !.ch[id] = relabel(@, named, tab, policy)]
  ELSE [r EXCEPT !.order = Append(@, id),
                 !.ch[id] = new_channel(named, tab,
                              IF policy = None THEN "Latest" ELSE policy,
                              id \in r.muted)]

label_if_missing(r, id) ==
  IF is_open(r, id) THEN [r EXCEPT !.ch[id].named = TRUE] ELSE r

end_hold(r, id) ==
  IF r.hold # None /\ (id = None \/ r.hold[1] = id)
  THEN [r EXCEPT !.hold = None] ELSE r

drop_ref(ref, id) == IF ref = id THEN None ELSE ref

forget_channel(r, id) ==
  [r EXCEPT
     !.order = without(@, {id}), !.ch[id] = NotOpen,
     !.closed_reader_tab = IF r.last_reader = id THEN r.ch[id].tab ELSE @,
     !.active = drop_ref(@, id), !.last_active = drop_ref(@, id),
     !.focus = drop_ref(@, id),
     !.announce = IF @ # None /\ @.channel = id THEN None ELSE @,
     !.reading = IF @ # None /\ @[1] = id THEN None ELSE @,
     !.suppressed = {s \in @ : s[1] # id},
     !.priority = without(@, {id}), !.authorized = @ \ {id}]

close(r, id) ==
  IF is_open(r, id) THEN end_hold(forget_channel(r, id), id) ELSE r

-----------------------------------------------------------------------------
(* Gates: focus, mute, focus only, authorizations, priority.               *)

focus(r, id) ==
  IF ~is_open(r, id) THEN r
  ELSE [r EXCEPT !.focus = id,
                 !.authorized = IF r.focus # None /\ r.focus # id /\ ready(r, r.focus)
                                THEN @ \cup {r.focus} ELSE @]

set_muted(r, id, muted) ==
  LET s == [r EXCEPT !.muted = IF muted THEN @ \cup {id} ELSE @ \ {id},
                     !.ch[id].muted = is_open(r, id) /\ muted]
  IN IF muted THEN end_hold(s, id) ELSE s

set_focus_only(r, on) == [r EXCEPT !.focus_only = on]

authorize(r, id) ==
  IF is_open(r, id) THEN [r EXCEPT !.authorized = @ \cup {id}] ELSE r

prioritize(r, id) ==
  IF is_open(r, id) /\ \A i \in 1..Len(r.priority) : r.priority[i] # id
  THEN [r EXCEPT !.priority = Append(@, id)] ELSE r

-----------------------------------------------------------------------------
(* Writing.                                                                *)

is_reading(r, id) == r.reading # None /\ r.reading[1] = id

push_with(r, id, replace, front) ==
  IF ~is_open(r, id) THEN r
  ELSE [r EXCEPT !.ch[id] = push_channel(@, r.next_entry + 1, replace, front,
                                         is_reading(r, id)),
                 !.next_entry = @ + 1]

(* Fault: stored text is left unread.                                      *)
append_live(r, id, decision, heard) ==
  IF ~is_open(r, id) THEN r
  ELSE LET s == push_with(r, id, FALSE, FALSE)
       IN [s EXCEPT !.ch[id] = grown(@, s.next_entry, decision, heard, FALSE)]

append(r, id, decision, heard) ==
  IF ~is_open(r, id) THEN r
  ELSE LET waits == ~caught_up(r.ch[id]) \/ is_reading(r, id)
           s == push_with(r, id, FALSE, FALSE)
       IN [s EXCEPT !.ch[id] = grown(@, s.next_entry, decision, heard, heard /\ ~waits)]

drop_decisions(r, id, which) ==
  IF is_open(r, id) THEN [r EXCEPT !.ch[id] = drop_channel_decisions(@, which)]
  ELSE r

end_batch(r, id) == [r EXCEPT !.ch[id].growing = FALSE]

has_entry(r, id, e) == \E i \in 1..Len(r.ch[id].entries) : r.ch[id].entries[i] = e

set_aside(r, id, e, aside) ==
  IF ~has_entry(r, id, e) THEN r
  ELSE [r EXCEPT !.ch[id].aside = IF aside THEN @ \cup {e} ELSE @ \ {e}]

flush_one(r, id) ==
  [end_hold(r, id) EXCEPT
     !.announce = IF @ # None /\ @.channel = id THEN None ELSE @,
     !.ch[id] = skip_to_end([@ EXCEPT !.growing = FALSE])]

flush_all(r) ==
  [r EXCEPT !.announce = None, !.hold = None,
            !.ch = [id \in Ids |-> skip_to_end(@[id])]]

rewind(r, id, e) == [r EXCEPT !.ch[id] = rewind_channel(@, e)]

-----------------------------------------------------------------------------
(* The floor.                                                              *)

is_handoff(r, id) ==
  /\ r.last_reader # None /\ r.last_reader # id
  /\ ~(r.ch[id].tab # None /\ r.ch[id].tab = r.closed_reader_tab)

set_reader(r, id) ==
  [r EXCEPT !.active = id, !.last_active = id, !.last_reader = id,
            !.closed_reader_tab = None]

arm(r, id, replay, manual) ==
  [r EXCEPT !.announce = [channel |-> id, replay |-> replay, manual |-> manual]]

start_hold(r, id) == [r EXCEPT !.hold = <<id, r.next_entry>>]

(* The hold's channel has an unread entry of the batch it started with.    *)
holds(r) == /\ r.hold # None /\ audible(r, r.hold[1])
            /\ \E i \in unread(r.ch[r.hold[1]]) :
                 r.ch[r.hold[1]].entries[i] <= r.hold[2]

(* What pick forgets first.  (The code forgets a lifted suppression when   *)
(* it meets it; `gen` only grows, so one that is lifted stays lifted.)     *)
tidy(r) ==
  [r EXCEPT !.priority = without(@, {p \in Ids : ~ready(r, p)}),
            !.authorized = {a \in @ : ready(r, a)},
            !.hold = IF holds(r) THEN @ ELSE None,
            !.suppressed = {s \in @ : r.ch[s[1]].gen = s[2]}]

first_in(s, ids) ==
  LET good == {i \in 1..Len(s) : s[i] \in ids}
  IN IF good = {} THEN None ELSE s[CHOOSE i \in good : \A j \in good : i <= j]

(* Fault: the channel reading does not keep the floor.                     *)
pick_anew(r) ==
  LET urgent == first_in(r.priority, {p \in Ids : pickable(r, p)})
  IN IF r.hold # None THEN r.hold[1]
     ELSE IF urgent # None THEN urgent
     ELSE IF r.focus # None /\ audible(r, r.focus) /\ ~is_suppressed(r, r.focus)
     THEN r.focus
     ELSE first_in(r.order, {id \in Ids : pickable(r, id)})

(* The channel to read next, once tidy.                                    *)
pick(r) ==
  LET urgent == first_in(r.priority, {p \in Ids : pickable(r, p)})
  IN IF r.hold # None THEN r.hold[1]
     ELSE IF r.active # None /\ audible(r, r.active) THEN r.active
     ELSE IF urgent # None THEN urgent
     ELSE IF r.focus # None /\ audible(r, r.focus) /\ ~is_suppressed(r, r.focus)
     THEN r.focus
     ELSE first_in(r.order, {id \in Ids : pickable(r, id)})

feed_announce(r) ==
  [r EXCEPT !.announce = None,
            !.fed = [op |-> "Announce", channel |-> r.announce.channel,
                     named |-> r.ch[r.announce.channel].named,
                     replay |-> r.announce.replay, manual |-> r.announce.manual]]

feed_entry(r, id) ==
  LET c == take(r.ch[id])
      e == r.ch[id].entries[taken(r.ch[id])]
  IN [r EXCEPT !.ch[id] = c, !.reading = <<id, e>>,
               !.authorized = IF caught_up(c) THEN @ \ {id} ELSE @,
               !.fed = [op |-> "Entry", channel |-> id, entry |-> e]]

next_feed(r) ==
  LET s == [r EXCEPT !.reading = None]
      t == tidy(s)
      target == pick(t)
      u == set_reader(t, target)
  IN IF s.announce # None THEN feed_announce(s)
     ELSE IF target = None THEN [t EXCEPT !.active = None, !.fed = None]
     ELSE IF t.active = target THEN feed_entry(t, target)
     ELSE IF is_handoff(t, target) THEN feed_announce(arm(u, target, FALSE, FALSE))
     ELSE feed_entry(u, target)

done(r) == [r EXCEPT !.reading = None]

(* The channels next_channel goes round: the ones not muted, and of these  *)
(* the ones with something to hear; all of them rather than none.          *)
ring(r) ==
  LET opened == {id \in Ids : is_open(r, id)}
      loud  == {id \in opened : ~r.ch[id].muted}
      base  == IF loud = {} THEN opened ELSE loud
      full  == {id \in base : r.ch[id].entries # <<>>}
  IN IF full = {} THEN base ELSE full

(* The ring member after the channel engaged, in opening order: the first  *)
(* one behind it, or else the first of all.                                *)
place_of(r, id) == CHOOSE i \in 1..Len(r.order) : r.order[i] = id
behind(r, id) == {x \in ring(r) : is_open(r, id) /\ place_of(r, x) > place_of(r, id)}
ring_target(r) ==
  first_in(r.order, IF behind(r, engaged(r)) = {} THEN ring(r) ELSE behind(r, engaged(r)))

next_channel(r) ==
  IF r.order = <<>> THEN r
  ELSE LET target == ring_target(r)
           c == r.ch[target]
           replay == caught_up(c) \/ engaged(r) = target \/ c.replaying
           s == IF r.active # None /\ r.active # target
                THEN [unsuppress(r, r.active) EXCEPT
                        !.suppressed = @ \cup {<<r.active, r.ch[r.active].gen>>}]
                ELSE r
           t == [unsuppress(s, target) EXCEPT
                   !.ch[target] = read_after(@, IF replay THEN 0 ELSE c.cursor, replay),
                   !.hold = None]
           u == arm(set_reader(t, target), target, replay, TRUE)
       IN IF replay THEN start_hold(u, target) ELSE u

take_floor(r, id) ==
  IF ~is_open(r, id) THEN r
  ELSE LET s == unsuppress(set_reader(r, id), id)
           t == IF s.hold # None /\ s.hold[1] # id THEN [s EXCEPT !.hold = None] ELSE s
       IN IF is_handoff(r, id) THEN arm(t, id, FALSE, FALSE)
          ELSE IF t.announce # None /\ t.announce.channel # id
          THEN [t EXCEPT !.announce = None] ELSE t

(* Whether read_at finds where to read from (an entry, or None: the top).  *)
readable(r, id, e) == /\ is_open(r, id) /\ r.ch[id].entries # <<>>
                      /\ e # None => has_entry(r, id, e)

read_at(r, id, e, replay) ==
  IF ~readable(r, id, e) THEN r
  ELSE LET at == CHOOSE i \in 1..Len(r.ch[id].entries) : r.ch[id].entries[i] = e
           s == [r EXCEPT !.ch[id] = read_after(@, IF e = None THEN 0 ELSE at - 1, replay)]
           t == unsuppress(set_reader(s, id), id)
           u == start_hold([t EXCEPT !.authorized = @ \cup {id}], id)
       IN IF is_handoff(r, id) THEN arm(u, id, replay, TRUE) ELSE u

has_work(r) == r.announce # None \/ pick(tidy(r)) # None

-----------------------------------------------------------------------------
(* The specification: any call of a public method, in any order.           *)

new_router ==
  [order |-> <<>>, ch |-> [id \in Ids |-> NotOpen], next_entry |-> 0,
   active |-> None, last_active |-> None, last_reader |-> None,
   closed_reader_tab |-> None, focus |-> None, announce |-> None,
   reading |-> None, suppressed |-> {}, priority |-> <<>>, hold |-> None,
   muted |-> {}, focus_only |-> FALSE, authorized |-> {}, fed |-> None]

RouterInit == router = new_router

RouterCalled == [router EXCEPT !.fed = None]
Returns(r) == r.next_entry <= MaxEntries /\ router' = r

Opens    == \E id \in Ids, named \in BOOLEAN, tab \in Tab, p \in Policy \cup {None} :
              Returns(open(RouterCalled, id, named, tab, p))
Labels   == \E id \in Ids : Returns(label_if_missing(RouterCalled, id))
Closes   == \E id \in Ids : Returns(close(RouterCalled, id))
Gates    == \/ \E id \in Ids : \/ Returns(focus(RouterCalled, id))
                               \/ Returns(authorize(RouterCalled, id))
                               \/ Returns(prioritize(RouterCalled, id))
            \/ \E on \in BOOLEAN : Returns(set_focus_only(RouterCalled, on))
Mutes    == \E id \in Ids, on \in BOOLEAN : Returns(set_muted(RouterCalled, id, on))
Pushes   == \E id \in Ids, replace, front \in BOOLEAN :
              Returns(push_with(RouterCalled, id, replace, front))
Appends  == \E id \in Ids, decision, heard \in BOOLEAN :
              Returns(append(RouterCalled, id, decision, heard))
Resolves == \E id \in Ids, which \in Resolved :
              Returns(drop_decisions(RouterCalled, id, which))
Asides   == \E id \in Ids, e \in 1..MaxEntries, aside \in BOOLEAN :
              Returns(set_aside(RouterCalled, id, e, aside))
Flushes  == \/ Returns(flush_all(RouterCalled))
            \/ \E id \in Ids : Returns(flush_one(RouterCalled, id))
            \/ \E id \in Ids : Returns(end_batch(RouterCalled, id))
Feeds    == Returns(next_feed(RouterCalled)) \/ Returns(done(RouterCalled))
Rewinds  == \E id \in Ids, e \in 1..MaxEntries : Returns(rewind(RouterCalled, id, e))
Switches == \/ Returns(next_channel(RouterCalled))
            \/ \E id \in Ids : Returns(take_floor(RouterCalled, id))
            \/ Returns(tidy(RouterCalled))    \* has_work
Replays  == \E id \in Ids, e \in 1..MaxEntries \cup {None}, replay \in BOOLEAN :
              Returns(read_at(RouterCalled, id, e, replay))

RouterNext == \/ Opens \/ Labels \/ Closes \/ Gates \/ Mutes \/ Pushes \/ Appends
              \/ Resolves \/ Asides \/ Flushes \/ Feeds \/ Rewinds \/ Switches
              \/ Replays

RouterSpec == RouterInit /\ [][RouterNext]_router

-----------------------------------------------------------------------------
(* Properties.                                                             *)

(* The record has its type.                                                *)
RouterTypeOK == router \in RouterType

Refers(r, ref) == ref # None => is_open(r, ref)

(* Nothing refers to a channel that closed (the code looks such a name up  *)
(* and skips it, or would index a channel that is gone).                   *)
RefsOK(r) ==
  /\ Refers(r, r.active) /\ Refers(r, r.last_active) /\ Refers(r, r.focus)
  /\ r.announce # None => is_open(r, r.announce.channel)
  /\ r.reading # None => is_open(r, r.reading[1])
  /\ r.hold # None => is_open(r, r.hold[1])
  /\ \A i \in 1..Len(r.priority) : is_open(r, r.priority[i])
  /\ \A a \in r.authorized : is_open(r, a)
  /\ \A s \in r.suppressed : is_open(r, s[1])

(* A batch: the cursor is inside it (`rewind` indexes before it), its ids  *)
(* differ and were handed out, its marks are about its own entries.        *)
BatchOK(r, c) ==
  /\ c.cursor <= Len(c.entries)
  /\ \A i \in 1..Len(c.entries) : c.entries[i] <= r.next_entry
  /\ \A i, j \in 1..Len(c.entries) : c.entries[i] = c.entries[j] => i = j
  /\ \A d \in c.decisions : \E i \in 1..Len(c.entries) : c.entries[i] = d[1]
  /\ \A e \in c.aside : \E i \in 1..Len(c.entries) : c.entries[i] = e

(* The three memories of who reads agree, and a replay holds the floor     *)
(* only for the channel that has it.                                       *)
FloorOK(r) ==
  /\ r.active # None => r.last_active = r.active /\ r.last_reader = r.active
  /\ r.last_active # None => r.last_reader = r.last_active
  /\ r.closed_reader_tab # None => r.active = None
  /\ r.hold # None => r.hold[1] = r.active
  /\ r.announce # None => r.announce.channel = r.active

(* A channel's mute is the mute remembered by its id, open once only.      *)
OpenOK(r) ==
  /\ \A i, j \in 1..Len(r.order) : r.order[i] = r.order[j] => i = j
  /\ \A id \in Ids : IF is_open(r, id) THEN r.ch[id].muted = (id \in r.muted)
                     ELSE r.ch[id] = NotOpen

(* The conjunction above, which every call relies on.                      *)
RouterInv == /\ RefsOK(router) /\ FloorOK(router) /\ OpenOK(router)
             /\ \A id \in Ids : BatchOK(router, router.ch[id])
=============================================================================
