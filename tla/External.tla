------------------------------ MODULE External ------------------------------
(***************************************************************************)
(* An external engine (sonara-engine external/): the circuit breaker and   *)
(* the blocks of health.rs, a chunk's way through External::synthesize,    *)
(* the request with its retry and its adapted repeats, the streamed answer *)
(* (streaming.rs) with the rest of a cut message, the cache, the voice     *)
(* list, and the program of a `command` profile.                           *)
(*                                                                         *)
(* One engine is shared: the reader's synthesis thread, cues and previews, *)
(* and `engine_test` call it at the same time.  Health, cache and cancel   *)
(* token are each locked on their own, so their steps interleave.  Waits   *)
(* are counted down; a text is its length, a second of audio its number of *)
(* characters.  The mark of the hold and the generation, which Muting      *)
(* takes apart, is one step here.                                          *)
(***************************************************************************)
EXTENDS Naturals, FiniteSets, FiniteSetsExt

CONSTANTS Reader, Cue, Test,   \* the synthesis thread; cues and previews, one
                               \* at a time; `engine_test`
          ProviderVoices,      \* the voices asked for
          BREAKER_FIRST, BREAKER_MAX, QUOTA_BLOCK,  \* waits, in ticks
          RETRY_AFTER_MAX,     \* the longest wait of a retry, in ticks
          RetryAfters,         \* waits a provider asks for (0: none)
          MAX_ADAPTS,
          Length,              \* characters of a message
          Sentences,           \* where its sentences start
          CHARS_PER_SECOND,    \* at the normal rate
          Paces,               \* rates, 2 being the normal one
          ShortAnswers,        \* the seconds an answer may last that ends early
          Pages,               \* how many pages a voice list may have
          VOICES_MAX_PAGES,    \* how many of them are asked for
          MaxEvents            \* bound: cancels, mutes, keys and fetches

ASSUME ExternalAssumption ==
  /\ BREAKER_FIRST \in Nat \ {0} /\ BREAKER_MAX >= BREAKER_FIRST
  /\ QUOTA_BLOCK \in Nat /\ RetryAfters \subseteq Nat /\ RETRY_AFTER_MAX \in Nat
  /\ Length \in Nat \ {0} /\ 0 \in Sentences /\ Sentences \subseteq 0..(Length - 1)
  /\ CHARS_PER_SECOND \in Nat \ {0} /\ Paces \subseteq Nat \ {0}
  /\ ShortAnswers \subseteq 1..Length
  /\ Pages \subseteq Nat \ {0} /\ VOICES_MAX_PAGES \in Nat \ {0}

VARIABLES
  health,   \* Health's State
  engine,   \* hold, generation and begun marks; the key; what is sent
  call,     \* each caller's chunk
  cache,    \* voice and text kept -> what the audio kept ends with, and the
            \* answer it is of
  list,     \* the voice list known and a fetch of it
  program,  \* the program of a `command` profile
  provider, \* whether the provider has trouble, and what it refuses
  happened

extVars == <<health, engine, call, cache, list, program, provider, happened>>

Callers == {Reader, Cue, Test}
Normal == 2

-----------------------------------------------------------------------------
(* health.rs.  A failure is a reason and the wait the provider asked for;  *)
(* "transient" stands for the four reasons the breaker counts.             *)
Free == [reason |-> "none", left |-> 0, voice |-> "any"]
NewHealth == [consecutive |-> 0, open |-> 0, next |-> BREAKER_FIRST, transient |-> FALSE,
              blocked |-> Free, cue_said |-> FALSE, troubled |-> FALSE]

Expired(b) == b.reason = "quota" /\ b.left = 0

(* skip, its first half: a block whose time is over lets this chunk probe. *)
(* The fault: it waits for a success.                                      *)
probed_never(h) == h
probed(h) == IF Expired(h.blocked) THEN [h EXCEPT !.blocked = Free] ELSE h

(* skip, its second half: why a chunk of this voice is not sent.           *)
Skipped(h, v) ==
  \/ h.blocked.reason # "none" /\ h.blocked.voice \in {"any", v}
  \/ h.open > 0 /\ h.transient

Transient(h, wait) ==
  LET n == Min({h.consecutive + 1, 2})
      opens == IF n = 2 THEN h.next ELSE h.open
      asked == IF wait > RETRY_AFTER_MAX THEN Max({opens, Min({wait, BREAKER_MAX})}) ELSE opens
  IN  [h EXCEPT !.troubled = TRUE, !.transient = TRUE, !.consecutive = n, !.open = asked,
                !.next = IF n = 2 THEN Min({2 * @, BREAKER_MAX}) ELSE @]

block(h, reason) ==
  [h EXCEPT !.troubled = TRUE, !.blocked = [reason |-> reason, left |-> 0, voice |-> "any"]]

record_failure(h, e, v) ==
  IF e.reason = "transient" THEN Transient(h, e.wait)
  ELSE [h EXCEPT !.troubled = TRUE,
                 !.blocked = [reason |-> e.reason,
                              left |-> IF e.reason = "quota" THEN Max({QUOTA_BLOCK, e.wait}) ELSE 0,
                              voice |-> IF e.reason = "bad_voice" THEN v ELSE "any"]]

(* A success of a voice keeps the bad_voice block of another one, and its  *)
(* episode.  clear passes no voice.                                        *)
succeed(h, v) ==
  LET kept == v # "any" /\ h.blocked.voice \notin {"any", v}
  IN  [NewHealth EXCEPT !.blocked = IF kept THEN h.blocked ELSE Free,
                        !.cue_said = kept /\ h.cue_said, !.troubled = kept]

clear_key_block(h) ==
  IF h.blocked.reason \in {"no_key", "auth"}
  THEN [h EXCEPT !.blocked = Free, !.cue_said = FALSE] ELSE h

view(h) ==
  IF h.blocked.reason # "none" /\ ~Expired(h.blocked)
  THEN IF h.blocked.reason = "quota" THEN "waiting" ELSE "blocked"
  ELSE IF h.open > 0 /\ h.transient THEN "waiting" ELSE "healthy"

-----------------------------------------------------------------------------
(* streaming.rs: the text still to read once `secs` seconds were heard: it *)
(* starts with the sentence the place estimated is in.  A rate below the   *)
(* normal one slows the estimate, one above it never speeds it up.  The    *)
(* fault: it does.                                                         *)
Start(at) == IF at >= Length THEN Length ELSE Max({s \in Sentences : s <= at})
rest_of_paced(secs, rate) == Start((secs * CHARS_PER_SECOND * rate) \div Normal)
rest_of(secs, rate) == Start((secs * CHARS_PER_SECOND * Min({rate, Normal})) \div Normal)

(* How many characters a second of the provider's audio holds: at least    *)
(* the estimate, and a provider may not follow a rate above the normal.    *)
Pace(rate) == {((CHARS_PER_SECOND + more) * Min({rate, Normal}) + Normal - 1) \div Normal : more \in {0, 1}}

-----------------------------------------------------------------------------
(* What a provider answers with: so many seconds of audio (or less, when   *)
(* the text ends before), and whether a note in it says that it stopped    *)
(* early.  One in trouble may send any part of the text; only the events   *)
(* of an sse stream carry notes, and no note says nothing.                 *)
Full == [lasts |-> Length, early |-> FALSE]
Sent ==
  IF provider.outage
  THEN [lasts : ShortAnswers \cup {Length}, early : IF engine.wire = "sse" THEN BOOLEAN ELSE {FALSE}]
  ELSE {Full}
NoPages == [got |-> 0, of |-> 0]

NoMark == [epoch |-> 0, gen |-> 0, set |-> FALSE]
Idle == [at |-> "idle", voice |-> "any", text |-> "short", rate |-> Normal, scope |-> "normal",
         epoch |-> 0, gen |-> 0, gone |-> FALSE, parts |-> 1, retried |-> FALSE, adapted |-> 0,
         asks |-> FALSE, key |-> 0, secs |-> 0, spoken |-> 0, answer |-> Full,
         from |-> Length]

ExternalInit ==
  /\ health = NewHealth
  /\ engine \in [held : {FALSE}, epoch : {0}, gen : {0}, begun : {NoMark},
                 key : {0, 1}, wire : {"sse", "raw", "whole", "command"},
                 message : BOOLEAN, streams : BOOLEAN, param : BOOLEAN]
  /\ engine.streams = (engine.wire = "sse") /\ (engine.wire = "command" => ~engine.param)
  /\ call = [c \in Callers |-> Idle]
  /\ cache = [k \in {} |-> 0]
  /\ list \in [at : {"none"}, got : {0}, of : {0}, known : {NoPages}, empty_on_error : BOOLEAN]
  /\ program = [running |-> FALSE, children |-> FALSE, gen |-> 0]
  /\ provider \in [outage : BOOLEAN, nostream : BOOLEAN]
  /\ happened = 0

Event == happened < MaxEvents /\ happened' = happened + 1
Moves(c, at) == call' = [call EXCEPT ![c].at = at]
Over(c) == call' = [call EXCEPT ![c] = Idle]

(* External::held and cut_by_hold, by the scope of the caller's thread.    *)
held(s) == s = "local" \/ (s = "normal" /\ engine.held)
cut_by_hold(c) ==
  held(call[c].scope) \/ (call[c].scope = "normal" /\ engine.epoch # call[c].epoch)
cancelled(c) == call[c].gen # engine.gen

(* A chunk that is not read by the provider: read quietly (held, or cut by *)
(* the hold: no cue, no matter of health), or dropped on a cancel (Muting  *)
(* tells the two apart), or a test that failed.                            *)
GiveUp(c) == Over(c)

-----------------------------------------------------------------------------
(* A call.  The reader's begin takes the marks under the queue's lock; a   *)
(* cue queued while muted has the local scope, a preview the explicit one. *)
mark == [epoch |-> engine.epoch, gen |-> engine.gen, set |-> TRUE]
Ended == {"idle", "read_on"}

Scopes(c) == IF c # Cue THEN {"normal"}
             ELSE {IF engine.held THEN "local" ELSE "normal", "explicit"}

Call(c, v, t, r, s) ==
  /\ call[c].at \in Ended
  /\ call' = [call EXCEPT ![c] =
       [Idle EXCEPT !.at = "called", !.voice = v, !.text = t, !.rate = r,
          !.parts = IF t = "message" /\ engine.wire = "whole" THEN 2 ELSE 1, !.scope = s]]
  /\ engine' = IF c = Reader THEN [engine EXCEPT !.begun = mark] ELSE engine
  /\ UNCHANGED <<health, cache, list, program, provider, happened>>

(* synthesize takes the marks that are there.                              *)
TakeMarks(c) ==
  LET m == IF engine.begun.set /\ c # Test THEN engine.begun ELSE mark
  IN  /\ call[c].at = "called"
      /\ call' = [call EXCEPT ![c].at = IF c # Test THEN "marked"
                                        ELSE IF call[c].voice = "none" THEN "idle" ELSE "key",
                              ![c].epoch = m.epoch, ![c].gen = m.gen]
      /\ engine' = IF c = Test THEN engine ELSE [engine EXCEPT !.begun = NoMark]
      /\ UNCHANGED <<health, cache, list, program, provider, happened>>

Key(c) == <<call[c].voice, call[c].rate, call[c].text>>

(* The checks before the health is asked: the hold, a cancel since the     *)
(* marks, the cache.                                                       *)
Check(c) ==
  /\ call[c].at = "marked"
  /\ CASE held(call[c].scope) \/ cancelled(c) -> GiveUp(c)
       [] OTHER -> IF call[c].voice = "none" THEN Moves(c, "fallback")
                   ELSE IF Key(c) \in DOMAIN cache THEN Over(c) ELSE Moves(c, "asking")
  /\ UNCHANGED <<health, engine, cache, list, program, provider, happened>>

(* A no_key block is checked again at every chunk.                         *)
Recheck(c) ==
  /\ call[c].at = "asking" /\ Moves(c, "skip")
  /\ health' = IF health.blocked.reason = "no_key" /\ engine.key # 0
               THEN clear_key_block(health) ELSE health
  /\ UNCHANGED <<engine, cache, list, program, provider, happened>>

Skip(c) ==
  /\ call[c].at = "skip" /\ health' = probed(health)
  /\ Moves(c, IF Skipped(probed(health), call[c].voice) THEN "fallback" ELSE "key")
  /\ UNCHANGED <<engine, cache, list, program, provider, happened>>

ResolveKey(c) ==
  /\ call[c].at = "key"
  /\ IF engine.key # 0
     THEN call' = [call EXCEPT ![c].at = "ready", ![c].key = engine.key] /\ health' = health
     ELSE IF c = Test THEN GiveUp(c) /\ health' = health
     ELSE Moves(c, "fallback") /\ health' = block(health, "no_key")
  /\ UNCHANGED <<engine, cache, list, program, provider, happened>>

(* fallback: the cue once per episode, then the text.                      *)
Fallback(c) ==
  /\ call[c].at = "fallback" /\ health' = [health EXCEPT !.cue_said = TRUE]
  /\ Over(c)
  /\ UNCHANGED <<engine, cache, list, program, provider, happened>>

(* warm only looks for the key.                                            *)
Warm ==
  /\ engine.key = 0 /\ health.blocked.reason # "no_key"
  /\ health' = block(health, "no_key")
  /\ UNCHANGED <<engine, call, cache, list, program, provider, happened>>

-----------------------------------------------------------------------------
(* The request.                                                            *)
streamed(c) == engine.streams \/ (engine.wire = "raw" /\ engine.message)

Send(c) ==
  /\ call[c].at = "ready" /\ (engine.wire = "command" => ~program.running)
  /\ IF cancelled(c) THEN GiveUp(c)
     ELSE call' = [call EXCEPT ![c].at = IF streamed(c) THEN "waiting" ELSE "sent",
                               ![c].asks = engine.param]
  /\ program' = IF engine.wire = "command" /\ ~cancelled(c)
                THEN [running |-> TRUE, children |-> TRUE, gen |-> call[c].gen] ELSE program
  /\ UNCHANGED <<health, engine, cache, list, provider, happened>>

Cut(c) ==
  /\ call[c].at \in {"sent", "waiting", "sleeping"} /\ cancelled(c) /\ GiveUp(c)
  /\ UNCHANGED <<health, engine, cache, list, program, provider, happened>>

(* The answer can be read: it came before a cancel, and a program is over. *)
Answered(c) ==
  /\ call[c].at \in {"sent", "waiting"} /\ ~cancelled(c)
  /\ engine.wire = "command" => ~program.running

(* A failure of the request, as map_error, transport and Command::run      *)
(* classify it.  A provider without trouble refuses a field it does not    *)
(* know, a voice it does not have or a key that is not the right one.      *)
Failures(waits) ==
  [reason : {"transient", "quota"}, wait : waits, param : {FALSE}] \cup
  [reason : {"bad_config"}, wait : {0}, param : {FALSE}]
Refusals(c) ==
  {[reason |-> "bad_config", wait |-> 0, param |-> TRUE] : x \in {y \in {1} : call[c].asks}} \cup
  {[reason |-> "auth", wait |-> 0, param |-> FALSE] : x \in {y \in {1} : call[c].key = 2}}

(* One more try after a short Retry-After (429 and 503, never a quota), or *)
(* after the adapter stopped sending what was refused (a stream has one    *)
(* more to give up); else the failure counts and the fallback reads the    *)
(* chunk.  A failed test does neither.                                     *)
Retries(c, e) == ~call[c].retried /\ e.reason = "transient" /\ e.wait \in 1..RETRY_AFTER_MAX
Adapts(c) == MAX_ADAPTS + (IF call[c].at = "waiting" THEN 1 ELSE 0)
adapt(c, e) == e.param /\ engine.param /\ call[c].adapted < Adapts(c)

Fails(c, e) ==
  /\ CASE Retries(c, e) ->
            /\ call' = [call EXCEPT ![c].at = "sleeping", ![c].retried = TRUE]
            /\ UNCHANGED <<health, engine>>
       [] ~Retries(c, e) /\ adapt(c, e) ->
            /\ engine' = [engine EXCEPT !.param = FALSE]
            /\ call' = [call EXCEPT ![c].at = "ready", ![c].adapted = @ + 1]
            /\ UNCHANGED health
       [] OTHER ->
            /\ IF c = Test THEN GiveUp(c) /\ health' = health
               ELSE Moves(c, "fallback") /\ health' = record_failure(health, e, call[c].voice)
            /\ UNCHANGED engine
  /\ UNCHANGED <<cache, list, program, provider, happened>>

RequestFails(c, waits) ==
  /\ Answered(c)
  /\ \E e \in Refusals(c) \cup (IF provider.outage THEN Failures(waits) ELSE {}) : Fails(c, e)

(* A provider that does not know the voice.                                *)
VoiceRefused(c) ==
  /\ Answered(c) /\ provider.outage
  /\ Fails(c, [reason |-> "bad_voice", wait |-> 0, param |-> FALSE])

Wake(c) ==
  /\ call[c].at = "sleeping" /\ ~cancelled(c) /\ Moves(c, "ready")
  /\ UNCHANGED <<health, engine, cache, list, program, provider, happened>>

(* CueCache::keep: a short text, or a whole message in that send mode.     *)
Kept(c, audio) ==
  IF call[c].text = "short" \/ engine.message
  THEN [k \in DOMAIN cache \cup {Key(c)} |-> IF k = Key(c) THEN audio ELSE cache[k]]
  ELSE cache

(* A whole answer: the next part, or the success.  One that says it        *)
(* stopped early is a failure.                                             *)
WholeAnswers ==
  {[ends |-> IF a = Full THEN "text" ELSE "answer", answer |-> a] : a \in {x \in Sent : ~x.early}}
Answer(c) ==
  /\ Answered(c) /\ call[c].at = "sent" /\ Refusals(c) = {}
  /\ IF call[c].parts > 1
     THEN /\ call' = [call EXCEPT ![c].at = "ready", ![c].parts = @ - 1, ![c].retried = FALSE,
                                  ![c].adapted = 0]
          /\ UNCHANGED <<health, cache>>
     ELSE /\ health' = succeed(health, call[c].voice)
          /\ IF c = Test THEN UNCHANGED cache ELSE \E a \in WholeAnswers : cache' = Kept(c, a)
          /\ Over(c)
  /\ UNCHANGED <<engine, list, program, provider, happened>>

-----------------------------------------------------------------------------
(* The stream.  A model that refuses it is asked for whole answers.        *)
StreamRefused(c) ==
  /\ Answered(c) /\ call[c].at = "waiting" /\ engine.streams /\ provider.nostream
  /\ engine' = [engine EXCEPT !.streams = FALSE]
  /\ call' = [call EXCEPT ![c].at = "ready", ![c].retried = FALSE, ![c].adapted = 0]
  /\ UNCHANGED <<health, cache, list, program, provider, happened>>

Audio(c, answer) ==
  LET r == call[c]
  IN  \E p \in Pace(r.rate) :
        call' = [call EXCEPT ![c] = [r EXCEPT !.at = "playing", !.secs = @ + 1,
                                              !.spoken = Min({@ + p, Length}), !.answer = answer]]
Reached(c) == IF call[c].spoken = Length THEN "text"
              ELSE IF call[c].secs = call[c].answer.lasts THEN "answer" ELSE "nowhere"
AtEnd(c) == Reached(c) # "nowhere"

FirstAudio(c) ==
  /\ Answered(c) /\ call[c].at = "waiting" /\ Refusals(c) = {}
  /\ (engine.streams => ~provider.nostream) /\ \E a \in Sent : Audio(c, a)
  /\ UNCHANGED <<health, engine, cache, list, program, provider, happened>>

MoreAudio(c) ==
  /\ call[c].at = "playing" /\ ~cancelled(c) /\ ~AtEnd(c) /\ Audio(c, call[c].answer)
  /\ UNCHANGED <<health, engine, cache, list, program, provider, happened>>

(* rest_text: in a message the fallback reads on; else the chunk ends with *)
(* what was heard.                                                         *)
Rest(c) == IF engine.message THEN rest_of(call[c].secs, call[c].rate) ELSE Length
ReadsOn(c) ==
  call' = [call EXCEPT ![c] = [Idle EXCEPT !.at = "read_on", !.spoken = call[c].spoken,
                                           !.from = Rest(c)]]

(* A test takes a stream that ended, however it did, for a success.        *)
Tested(c, h) == IF c = Test THEN succeed(h, call[c].voice) ELSE h

(* Rest::cut: a stall, a broken connection, the deadline (transient), or   *)
(* audio that cannot be played.                                            *)
Counted(c, counts) ==
  [(IF counts THEN Transient(health, 0) ELSE health) EXCEPT
     !.cue_said = @ \/ (engine.message /\ Rest(c) < Length)]
cut(c, counts) ==
  /\ health' = Tested(c, Counted(c, counts))
  /\ ReadsOn(c) /\ UNCHANGED cache

StreamBreaks(c) ==
  /\ call[c].at = "playing" /\ ~cancelled(c) /\ provider.outage
  /\ \E counts \in BOOLEAN : cut(c, counts)
  /\ UNCHANGED <<engine, list, program, provider, happened>>

(* The reader's cancel ends the chunk, a mute has the rest read locally.   *)
StreamCancelled(c) ==
  /\ call[c].at = "playing" /\ cancelled(c)
  /\ IF cut_by_hold(c) THEN ReadsOn(c) /\ health' = Tested(c, health)
     ELSE Over(c) /\ health' = health
  /\ UNCHANGED <<engine, cache, list, program, provider, happened>>

Finishes(c) ==
  /\ health' = succeed(health, call[c].voice) /\ Over(c)
  /\ cache' = Kept(c, [ends |-> Reached(c), answer |-> call[c].answer])

(* Rest::finish: an end after a note that the provider stopped early is a  *)
(* cut.  Any other end is a success and is kept, wherever in the text it   *)
(* is.  The fault: the note is not looked at.                              *)
finish_stream_any(c) == Finishes(c)
finish_stream(c) == IF call[c].answer.early THEN cut(c, TRUE) ELSE Finishes(c)

StreamEnds(c) ==
  /\ call[c].at = "playing" /\ ~cancelled(c) /\ AtEnd(c)
  /\ finish_stream(c)
  /\ UNCHANGED <<engine, list, program, provider, happened>>

-----------------------------------------------------------------------------
(* The program of a `command` profile runs on the request's thread, which  *)
(* ends it with all it started: when it exits, on a cancel, and when its   *)
(* time is over.                                                           *)
Stopped == program' = [running |-> FALSE, children |-> FALSE, gen |-> 0]
ProgramDue(overdue) == overdue \/ program.gen # engine.gen

ProgramStops(overdue) ==
  /\ program.running /\ ProgramDue(overdue) /\ Stopped
  /\ UNCHANGED <<health, engine, call, cache, list, provider, happened>>

-----------------------------------------------------------------------------
(* The voice list, page by page, to its last one or to the limit; a mute   *)
(* in between keeps the list known.  After a failure that list stays, or   *)
(* (empty_on_error) is empty.                                              *)
Refresh ==
  /\ list.at = "none" /\ ~engine.held /\ Event
  /\ \E n \in Pages : list' = [list EXCEPT !.at = "fetching", !.got = 0, !.of = n]
  /\ UNCHANGED <<health, engine, call, cache, program, provider>>

Lists(known) == list' = [list EXCEPT !.at = "none", !.got = 0, !.of = 0, !.known = known]
LastPage == list.got = Min({list.of, VOICES_MAX_PAGES})

fetch_voices ==
  /\ list.at = "fetching"
  /\ CASE engine.held -> Lists(list.known)
       [] ~engine.held /\ LastPage -> Lists([got |-> list.got, of |-> list.of])
       [] OTHER -> \/ list' = [list EXCEPT !.got = @ + 1]
                   \/ provider.outage /\ Lists(IF list.empty_on_error THEN NoPages ELSE list.known)
  /\ UNCHANGED <<health, engine, call, cache, program, provider, happened>>

-----------------------------------------------------------------------------
(* What happens around the engine.  The item of the reader's chunk ends.   *)
CancelReader ==
  /\ Event /\ call[Reader].at \notin Ended /\ ~call[Reader].gone
  /\ engine' = [engine EXCEPT !.gen = @ + 1]
  /\ call' = [call EXCEPT ![Reader].gone = TRUE]
  /\ UNCHANGED <<health, cache, list, program, provider>>

SetHold(on) ==
  /\ Event /\ engine.held # on
  /\ engine' = [engine EXCEPT !.held = on, !.epoch = IF on THEN @ + 1 ELSE @,
                              !.gen = IF on THEN @ + 1 ELSE @]
  /\ UNCHANGED <<health, call, cache, list, program, provider>>

(* engine_key: 0 is no key, 1 the right one, 2 one the provider refuses.   *)
KeyChanged(k) ==
  /\ Event /\ k # engine.key /\ engine' = [engine EXCEPT !.key = k]
  /\ health' = clear_key_block(health)
  /\ UNCHANGED <<call, cache, list, program, provider>>

(* The profile was changed: reset.                                         *)
Reset ==
  /\ Event /\ health' = succeed(health, "any") /\ cache' = [k \in {} |-> 0]
  /\ UNCHANGED <<engine, call, list, program, provider>>

Tick ==
  /\ health.open > 0 \/ health.blocked.left > 0
  /\ health' = [health EXCEPT !.open = IF @ > 0 THEN @ - 1 ELSE 0,
                              !.blocked.left = IF @ > 0 THEN @ - 1 ELSE 0]
  /\ UNCHANGED <<engine, call, cache, list, program, provider, happened>>

OutageEnds ==
  /\ provider.outage /\ provider' = [provider EXCEPT !.outage = FALSE]
  /\ UNCHANGED <<health, engine, call, cache, list, program, happened>>

(* What is asked for: voices, texts and rates.                             *)
Asked == ProviderVoices \X {"short", "message"} \X Paces
Calls(c, asked) == \E a \in asked, s \in Scopes(c) : Call(c, a[1], a[2], a[3], s)
EngineStep(c) ==
  \/ TakeMarks(c) \/ Check(c) \/ Recheck(c) \/ Skip(c) \/ ResolveKey(c) \/ Fallback(c)
  \/ Send(c) \/ Cut(c) \/ Wake(c) \/ StreamCancelled(c)
Replies(c, waits) == RequestFails(c, waits) \/ VoiceRefused(c) \/ Answer(c) \/ StreamRefused(c) \/ FirstAudio(c)
              \/ MoreAudio(c) \/ StreamBreaks(c) \/ StreamEnds(c)
Around == \/ CancelReader \/ (\E on \in BOOLEAN : SetHold(on)) \/ (\E k \in 0..2 : KeyChanged(k))
          \/ Reset \/ Refresh

ExternalNext ==
  \/ \E c \in Callers : Calls(c, Asked) \/ EngineStep(c) \/ Replies(c, RetryAfters)
  \/ Around \/ fetch_voices \/ Tick \/ OutageEnds \/ Warm
  \/ \E overdue \in BOOLEAN : ProgramStops(overdue)

ExternalSpec == ExternalInit /\ [][ExternalNext]_extVars

-----------------------------------------------------------------------------
(* Properties.                                                             *)

(* Nothing of a message is dropped when its answer is cut, at any rate and *)
(* place: the fallback reads on from a place the audio had reached         *)
(* (rest_of, Rest::cut and Rest::cut_quietly).                             *)
MessageHeard ==
  \A c \in Callers : call[c].at = "read_on" /\ engine.message => call[c].from <= call[c].spoken

(* What the engine keeps for later is all that it was sent: cached audio   *)
(* ends where its text or the provider's answer does, in no answer that    *)
(* said it stopped early, so that it lacks the end of a text only where    *)
(* the provider left it out and said nothing; and a voice list has all its *)
(* pages or the most that are asked for, or is empty after a failure       *)
(* (Rest::finish, CueCache::keep, fetch_voices).                           *)
KeptWhole ==
  /\ \A k \in DOMAIN cache :
       LET a == cache[k]
       IN  ~a.answer.early /\ (a.ends = "text" \/ (a.ends = "answer" /\ a.answer.lasts < Length))
  /\ list.known = NoPages \/ list.known.got = Min({list.known.of, VOICES_MAX_PAGES})

(* While the user reads on, an engine with its key comes back by itself    *)
(* once its provider works again, whatever failures opened the breaker or  *)
(* spent the quota, unless a failure is left that only the user can mend.  *)
Mendable == health.blocked.reason \in {"none", "quota"}
Recovers == (provider.outage = FALSE /\ Mendable) ~> (view(health) = "healthy" /\ ~health.troubled)
=============================================================================
