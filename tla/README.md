# Sonara in TLA+

Sonara reads text aloud on a Windows PC: a host process (`sonarad`) owns one reader, and
clients (an agent's hooks, a CLI, libraries) send it text and controls over a local protocol.
This directory models the parts of the Rust workspace under `crates/` that keep state and that
threads, processes and crashes can drive into orders nobody tests, checks them with TLC on small
instances, and proves the invariants of the reader and its threads, the channels, the engines, the host and the
system layer that matter most with TLAPS for every instance.

## 1. The system

The workspace is layered. Each layer drives the one below through its public interface only.

| Layer | Crate | State it keeps | Operations | Talks to |
|---|---|---|---|---|
| L1 | `sonara-core` `reader/` | the item being read, the queue, pause, mute, step mode, what was requested, the generation loaded in the output | `speak`, 12 controls, `on_audio`, settings | returns effects to its host |
| L1 | `sonara-core` text | none (`assembler.rs` keeps the text of an unfinished sentence or code block) | split, pronounce, number and code rules | called by the reader and L3 |
| L1 | `sonara-reader` | the audio of each chunk, a chunk waiting for audio, a streamed chunk, a start hold, failures to feed back; the synthesis queue and its job in flight | the effect loop, `part`, `synthesized`, `release_hold`, shutdown | reader (calls), synthesis thread (queue and lock), output thread (channel), clients (inbox) |
| L1 | `sonara-audio` | the sink and generation loaded, the volume, the stream and the device it opened on | play, append, finish, pause, resume, stop, volume, clip, device loss | events back to the worker through a forwarder thread |
| L1 | `sonara-engine` | registry; per external engine: health (circuit breaker, block), hold, request worker, voice cache; Kokoro: download and model | `synthesize`, `cancel`, `begin`, `warm`, `status` | network, subprocess, files |
| L1 | `misaki` | none | grapheme to phoneme | Kokoro |
| L2 | `sonara-channels` | channels with their queues and positions, focus, the item each channel has in the reader, announcements, replay holds | open, close, focus, speak, control, next channel, item ended | reader handle, its events |
| L3 | `sonara-agent` | per channel: turn, unfinished prose, open question, mute, summary slots; earcon schedule; timers | stream, turn start and end, ask, answered, tool, earcon, settings, timers | channels, summarizer processes, clips |
| L4 | `sonara-system` | audio mode, what was ducked or paused, crash-restore files, hotkeys, keymap | engage, restore, sweep, bind, register | Windows audio, media and hotkey services, the home folder |
| L5 | `sonara-client`, `sonara-hook`, `sonara-cli`, `clients/` | runtime file discovery, hook batch, reconnects | start, stop, send, install | the host's ports and files |
| host | `sonarad` | connections, subscriptions, lifetime, instance mutex, settings store, mute hold, logs | protocol requests, idle exit, takeover, events | all of the above |

### How the parts interact

* The reader (`reader/mod.rs`) is a pure state machine. A call returns effects: synthesize a
  chunk, play it as generation `gen`, pause, resume, stop, set the level, tell clients.
* The worker (`worker.rs`) owns it. Requests, finished syntheses and audio events meet in one
  inbox; each message becomes one reader call whose effects are carried out at once. Failures
  met on the way are fed back after the batch.
* The synthesis thread (`synth.rs`) runs one engine call at a time. The worker adds jobs, moves
  one to the front and drops the jobs of an item that ended, cancelling the one in flight; a
  lock covers the queue, and `Engine::begin` is called under it.
* The output thread (`rodio_output.rs`) plays one sink and reports start, end and failure of a
  generation.
* The channels driver holds the queues of its clients' channels and gives the reader one entry at
  a time. Its lock covers its own state, not the reader: a thread of its own drains the reader's
  events, and other clients speak to the reader directly.
* The system layer follows the reader's state on a thread, and a worker with a command queue
  lowers or pauses other apps. What it did is written to a file first.
* The host answers each request on a thread of its own. Requests that may start speech hold the
  admission lock, `set` requests the `set` lock, mute changes their own; hotkeys take the same
  locks from their action thread. The driver's drain thread takes none of them.
* An external engine is called by the reader's synthesis thread, by cues and previews, and by a
  client's test at the same time. Its health, its cache, its voice list and its cancel token each
  have a lock of their own. Kokoro's model files are fetched by a thread that status polls, chunks
  and requests may each start.
* The host keeps settings, keymap, engine profiles and keys in files that the user, the CLI and an
  older plugin write too, and its address in `runtime.json`, which hooks and the CLI read to find or
  start a runtime.
* A client's event stream is a subscription of the reader, a first snapshot read after it, and
  threads that relay into a bounded queue. Nobody waits for a slow client.
* Hotkeys are two threads, one that registers the chords and takes their messages, one that runs the
  actions. Every change of the keymap stops both and starts new ones.
* The agent layer gets every message of a session (a streamed delta, a tool, a decision, the turn's
  end) from a hook process of its own, so they race. Its rules are pure, as the reader is: an input
  returns actions (speak, store, wipe, summarize, arm a timer), which the driver carries out under
  its lock; timers and summarizer jobs run on threads and come back as inputs.

### What is hard

* Three independent event streams into one inbox: an audio event about a chunk that was
  replaced, a result for an item that ended, a pause racing a chunk's natural end.
* A chunk can wait for its audio, for a hold, for a resume, or play while its audio still
  arrives, and every combination must be woken by someone.
* A cancel is addressed to an engine, not to a job: one that lands late could kill the next job.
* Panics, engine errors, device loss: an item must still end.
* Deltas out of order, lost or late; summaries that come late, never or for a turn that is over;
  decisions that must be read after their context and still must not wait forever.
* Files and other apps outlive a crash (ducked volumes, paused media, `runtime.json`, settings,
  half-downloaded models) and are changed by others while Sonara runs.
* A provider breaks off in the middle of a message, refuses in its own words, asks for a wait; the
  engine must neither drop words, keep half an answer, nor stay silent when the provider is back.
* A stream's snapshot and its first events cross; a chord's old owner and its new one overlap.
* Idle exit races requests being accepted; mute changes race requests in flight.

PROJECT.json lists the hazards by line with the properties that cover them.

What makes each part right, in short: the reader tells every item started and ended once, never
stalls and never forgets a user's pause; the worker never loses a play, plays nothing while paused
and cuts nothing short; channels lose no entry, keep the floor and their place; an agent's text is
read once, in order and before the decision it explains; other apps get back
exactly what they had, also after a crash; a muted Sonara sends nothing and still reads everything;
the runtime ends when nobody needs it and never with something it accepted; an engine reads a
message to its end whoever has to finish it, loads only whole files and comes back by itself; nothing
a user set or wrote into a file is lost to a save; clients find the runtime that serves, see the
reader as it is, and keys do what the keymap says.

## 2. The modules

| Module | Code | State and actions |
|---|---|---|
| `Reader` | `reader/mod.rs`, `types.rs` | One record for the struct; a method is an operator on records with the method's name, `fx` the effects it returns. A step is one public call: `Speak`, `DoControl(c)`, `OnAudio`, the setters. |
| `Player` | what L2 and the host use of the reader | The abstract reader: current item, queue, pause, ended items. Playback advances when it likes. |
| `ReaderView` | as for `Player` | EXTENDS `Reader`, INSTANCE `Player`. The refinement mapping: what `Player` keeps of the reader's record and of its effects. |
| `ReaderWorker` | `worker.rs`, `synth.rs`, `rodio_output.rs` | EXTENDS `Reader`. A message becomes a reader call, its effects are carried out one per step; the synthesis thread and the output run between any two. |
| `Router` | `router.rs` | One record, methods as operators, as for the reader. |
| `Channels` | `sonara-channels/src/lib.rs` | EXTENDS `Router`, INSTANCE `Player`. An operation changes the router at once and leaves its reader calls in `todo`, one step each; `ItemEnded` is the drain thread. |
| `Deltas` | `DeltaOrder` in `rules.rs`, `assembler.rs` | Deltas into index order, and into chunks. A text is a sequence of pieces, so that order, loss and repetition can be told. |
| `Rules` | `rules.rs` | EXTENDS `Deltas`. One record, an input is an operator that leaves its actions in `out`. |
| `Agent` | `sonara-agent/src/lib.rs` | EXTENDS `Rules`. An action per message, user command, timer and job; the sessions' side says which messages may come when. An L2 channel is the entries handed to it. |
| `Ducker`, `MediaPauser` | `ducking.rs`, `pausing.rs`, `state_file.rs` | A step ends at an effect that outlives the runtime (a file write, a volume, a pause), so a crash fits between any two. Windows and users act in between. |
| `AudioControl` | `audio.rs`, arming and following in `system_ext.rs` | Callers change the status and then send; the worker takes one command per step; the follower thread; arm and disarm transitions. |
| `Muting` | `quiet.rs`, `hold.rs`, `external/worker.rs`, `External::synthesize`, the mute paths of `messages.rs` and `system_ext.rs` | Each thread runs the list of steps of its call under three locks; the hold's and the token's atomics move one at a time; the synthesis thread is at one point of `synthesize`. |
| `Lifetime` | `lifetime.rs`, `http.rs`, `tcp.rs`, admission in `protocol/mod.rs`, the end of `main.rs` | The monitor's steps, each request's and connection's place, the reader as counts, `main`'s two waits. |
| `External` | `external/mod.rs`, `health.rs`, `streaming.rs`, `cache.rs`, `sse.rs`, `command.rs`, `worker.rs` | Each caller is at one point of `synthesize`: the check of the health, the request with its retry and adapted repeats, the parts, the fallback. Waits are counted down; a text is its length, so that "where the audio was cut" is a number. |
| `Providers` | `map_error` and `adapt` of the seven adapters | Pure: an operator per adapter from a status and the signs in a body to a reason. |
| `Kokoro` | `kokoro/mod.rs`, `kokoro/download.rs` | The folder (file, part, mark of each name), the manager's claim, the preparation thread step by step, chunks that wait, a crash between any two steps. |
| `Engines` | `engines/`, `protocol/profiles.rs`, `profile/`, `registry.rs`, the CLI's `engines_file.rs` | `engines.json`, the entries in memory, the registry, keys with their origins; requests on two threads, the user's editor, the CLI with its undo, restarts. |
| `Settings` | `config.rs`, `migrate.rs` | The files, the store, what the reader takes from it; the import as the steps between which it can die. |
| `Launch` | `instance.rs`, `runtime_file.rs`, start and end of `main.rs`, `sonara-client`, `sonara-hook`, `lifecycle.rs` | Each runtime, hook and command is at one of its steps; mutex, file, ports and the stop sentinel are shared. |
| `Hotkeys` | `hotkeys.rs`, `keymap.rs`, arming and `set hotkeys` in `system_ext.rs` | `keymap.json` and its rules as operators, requests as lists of steps under the transition lock, a pump and an action thread per start, the keyboard and other programs. |
| `Relay` | `events.rs`, `cues.rs`, the write side of `http.rs` and `tcp.rs` | A subscription as its steps, the relay threads, the queue, the client; the cue worker. |
| `Protocol` | `protocol/`, `channels_ext.rs`, `agent_ext.rs`, the messages of `system_ext.rs` and `engines_ext.rs`, `tcp.rs`, `wire.rs` | Connections with their sessions, a request being handled as its steps under the `enabling`, admission and `set` locks; the extensions that are on and those a reply listed; the names of channels; the summaries' settings stored and in force; restarts. |
| `MC*` | | Instances for TLC: texts, sessions, history variables, the properties that need them. |
| `ReaderProofs`, `WorkerProofs`, `RouterProofs`, `EngineProofs`, `HostProofs`, `ProtocolProofs`, `RelayProofs`, `SystemProofs` | | The theorems about `Reader` and `Player`; `ReaderWorker`; `Router` and `Channels`; `External`, `Kokoro` and `Engines`; `Lifetime` and `Muting`; `Protocol`; `Relay` and `Hotkeys`; `Launch`, `AudioControl`, `MediaPauser` and `Settings`. |

Composition: `ReaderWorker` runs `Reader` itself. `Channels` runs `Player`, and
`ReaderProofs` proves that `Reader` implements `Player` (property `ImplementsPlayer`, with the
refinement mapping `PlayerView` of `ReaderView`; `MCReader` checks it on its instance), so what is
shown of `Channels` is shown of the driver over the real reader.
`MCLive` has the reader's threads, the driver over `Player` and a shared engine under one fairness.
`MCSystem`, `MCHost`, `MCEngine` and, for `Relay` and `Hotkeys`, `MCWorker` put components side by
side in one run; they share no state there. Their effect on each other is abstracted: `AudioControl`
lets ducking engage or fail, `Lifetime` counts items, `Relay`'s reader is its `seq`, `ReaderWorker`'s
engine answers as it likes. `Muting` and `External` model the same `synthesize` for two questions:
`Muting` one atomic at a time and with a free answer, `External` with its answers and its mark in one
step. `Protocol` says which request reaches a layer; what the layer does is its own module's.

A definition whose name ends in a fault (`forget_requests`, `cut_by_hold_now`, ...) stands before
the definition it is a broken form of. It is not part of the model; PROJECT.json pairs each with
the property that must fail with it.

## 3. The runs

Runs explore *sessions*: the initial state picks one, and a session allows some of the calls with
its own bounds. Sessions keep the product of unrelated calls out while each still has every
interleaving of its threads.

| Run | Checks | Sessions and bounds |
|---|---|---|
| `reader` | `TypeOK`, `ReaderInv`, `ShownInv`, `ImplementsPlayer` | Prose queued (3 items, 4 plays), a code block in step mode (2 items, 5 plays), settings. Audio events of every earlier generation may come at any time. |
| `worker` | `NoLostPlay`, `AudioInStep`, `ClientCurrent`, `ChordsFollow` | A streaming engine with pauses, Previous and start holds; three items replacing each other; levels and code steps; chunks of at most 2 pieces. One event stream with a queue of 2, three changes of the reader and two cues. Two request threads and four requests, arms or edits over two chords, with presses, holds and another program that takes a chord. |
| `live` | `WorkEnds`, `Drains`, `Recovers` | One item, two controls, shutdown at any time; the channels' floor with four calls; an engine shared by the reader and a cue, with an outage that ends. |
| `channels` | `RouterInv`, `FloorKept`, `CutReadAgain`, `StoredQuiet` | Two channels, three entries (of two chunks, none and one), 4 or 5 calls: the floor with another client of the reader, the gates (mute, focus only, close and open), one batch with decisions, stored text and steps. Two more sessions call the router's methods by themselves. |
| `system` | `OnRecord`, `RightLevel`, `PauseOnRecord`, `PlaysItsOwn`, `InLine`, `SettingsKept`, `Found` | Two apps and two pids that Windows reuses; two tabs of one browser, which their user or another program may pause between the look and the call; two clients; three reader changes with two settings. Settings: two changes, two edits, three starts, one failed write; a cap of two over three channels. Launch: three runtimes, two ports, one hook, one command, one crash. |
| `host` | `NotDropped`, `HoldFollows`, `CallsReturn`, `EndsClean`, `IdleEnds`, `Promised`, `InForce` | Two mute changes over one chunk of up to two requests, with and without the agent; three calls of any kind over the locks; two HTTP requests, one TCP connection, two pause presses and a takeover or shutdown beside the idle exit. The protocol over a TCP line and an HTTP connection: three requests of every kind from a fresh runtime, six that name channels once the agent is on, four about summaries over restarts. |
| `agent` | `NothingLost`, `ReadOnce`, `InOrder`, `DecisionAfterProse` | Four scenes, two turns and three messages besides the prose: two blocks whose deltas come in any order, late or not at all; every read mode for both kinds of engine; the summaries of two sessions; a question set with its lead-in before or after it. |
| `engine` | `MessageHeard`, `KeptWhole`, `RefusalsSorted`, `FilesWhole`, `PreparationTold`, `EditsKept`, `KeysGoHome` | A message of six characters and three sentences streamed at three paces, in answers that hold the text, end after a second, or break, with a note or without; keys changed under a test; a program; a voice list of one page or three with at most two asked for; every status with every set of signs; two files of two blocks over one crash; two profiles (a third in a file that has more than two), two addresses and request threads, one edit, one failed save, one restart, the CLI. |
| `agent_overtaken`, `ducker_devices`, `pauser_stale_record`, `host_refused_mute` | one property each | The findings of section 6. |

Several properties are conjunctions of named parts: `AudioInStep` (a pause is silent, audio is that
of live requests, nothing is cut short, a cancel only hits an ended item), `InLine` (the worker obeys
the status, arms as a whole, follows the reader), `HoldFollows` (a mute cuts the request; at rest the
hold, the level and the stored level agree), `EndsClean`, `WorkEnds` (an item ends unless it is left
paused, and a shutdown completes), `SettingsKept` (what is set survives a restart, and nothing of a
file is erased), `InForce` (names and summaries), `NothingLost` (every piece of text is read,
waits or was dropped for a reason the code names, and whatever waits has a timer that stands).

Why the bounds are enough for what they look at: every wait of the worker involves one chunk that
waits, one playing and one to come, so two chunks and a third item reach each combination of
pending, streaming, held and paused. A stale event needs two generations; a late cancel needs two
items and one more to hit. Floor, hold and announcement each name one channel, so two channels
distinguish the right one from another; before, at and after the cursor needs three entries. A
reused pid needs two apps and two pids. A gap with something behind it and something given up needs
three deltas, the next block a fourth. One message starts a wait, one moves it on, one more (or a
timer) ends it; two jobs and two slots reach every order of answers. `SUMMARY_MIN_CHARS` and
`Minqueue` are 2 pieces and `RETIRED_TURNS` is 1, so that each limit is passed and just not passed.
Two overlapping mute changes and a third thread in the
engine are what the epoch is for; a circle of the three locks and the hotkey join needs at most
three threads. A snapshot that crosses an event needs one change before, one between and one after
its two reads, and a queue of two is full while the relay still has one. A chord that is taken over
needs two starts of the hotkeys and two chords. A place to read on from can be before, in and after
the second sentence, at a pace below, at and above the estimate; a short answer ends before a
sentence does, and a list of three pages is longer than the two that are asked for. The provider of
the run `engine` is in trouble throughout, since it may then also do all that one that works does
(the outage ends in `live`), and the reader's engine is chosen only where requests overlap. A file of two blocks is empty, half
or whole, and two files make the first one's state matter to the second. An edit is lost by one save
of another thread; a cap is passed by the third channel; a third runtime starts while the second
takes over from the first. Two connections are two clients in `enable` at once; a name that is out of
date needs an open, a name by the user and one by the client, and an open again, each with its own end.

`Lifetime` abstracts time and takes three things to be short, as its header says: the monitor looks
in every unit of the idle time (a tick is 100 ms, the idle time 30 s by default), feeding the next
channel entry takes no unit, and what is read lasts longer than a tick. The two-second limits of
`main`'s waits are taken to be long enough for the handlers. Without the second, an entry of a
channel that waits between two items does not keep the process: `is_busy` asks the reader only.

`Agent` assumes of the sessions what their hooks do. The next block's hooks start when those of the
last came or died, and its first delta was not lost: `DeltaOrder` takes an index 0 for the next
block. The block of a lead-in streams after the question. A tool or a decision after the turn's end
is of an agent that was woken. A timer that does not stand does nothing, so only one scene fires
those.

Deadlock is not checked where clients may stop calling and everything may come to rest. `reader`
checks it.

### Fairness

Safety runs assume none. The liveness runs assume that threads that have something to do go on:

* `live`, reader: the worker, the synthesis thread and the output each take steps while they have
  work (`<>[]busy => []<><<step>>_vars`, weak fairness with the enabling condition spelled out), and
  a hold's time passes. The engine contract makes a cancelled synthesis return; an output plays to
  its end. Clients owe nothing: `WorkEnds` excepts an item left paused.
* `live`, channels: the thread with the driver's lock, the drain thread and the reader go on.
* `live`, engine: a call in the engine goes on, since its requests have time limits; the user reads
  on, since a breaker is only probed by a chunk; and time passes. The outage need not end, and cues
  need not come: `Recovers` starts where the provider works.
* `host`: weak fairness of each thread's next step, of the monitor, of time, of the request
  handlers and of `main`. Locks are given up by everyone who has one, so that nobody is assumed to
  win one in particular.

## 4. Proofs

Each theorem is `Spec => []P` for a property `P` that a run checks, or, for `Player`, that one
specification implements another, for every value of the constants: any number of threads, clients,
files, channels or runtimes, any texts and any bounds.

| Module | Theorem | Property | Of |
|---|---|---|---|
| `ReaderProofs` | `ReaderTypeCorrect`, `ReaderCorrect`, `ReaderShown`, `ReaderImplementsPlayer` | `TypeOK`, `ReaderInv`, `ShownInv`, `ImplementsPlayer` | `Spec` |
| `WorkerProofs` | `WorkerNeverLosesPlay`, `WorkerAudioInStep` | `NoLostPlay`, `AudioInStep` | `WorkerSpec` |
| `RouterProofs` | `RouterCorrect`, `DriverCorrect` | `RouterInv` | `RouterSpec`, `ChannelsSpec` |
| `EngineProofs` | `ExternalMessageHeard`, `ExternalKeptWhole`, `KokoroFilesWhole`, `KokoroPreparationTold`, `EnginesKeysGoHome`, `EnginesEditsKept` | `MessageHeard`, `KeptWhole`, `FilesWhole`, `PreparationTold`, `KeysGoHome`, `EditsKept` | `ExternalSpec`, `KokoroSpec`, `EnginesSpec` |
| `HostProofs` | `LifetimeEndsClean`, `MutingHoldFollows` | `EndsClean`, `HoldFollows` | `LifetimeSpec`, `MutingSpec` |
| `ProtocolProofs` | `ProtocolPromised`, `ProtocolInForce` | `Promised`, `InForce` | `ProtocolSpec` |
| `RelayProofs` | `RelayClientCurrent`, `HotkeysFollow` | `ClientCurrent`, `ChordsFollow` | `RelaySpec`, `KeysSpec` |
| `SystemProofs` | `LaunchFound`, `ControlInLine`, `PauseIsOnRecord`, `PauserPlaysItsOwn`, `SettingsAreKept` | `Found`, `InLine`, `PauseOnRecord`, `PlaysItsOwn`, `SettingsKept` | `LaunchSpec`, `ControlSpec`, `PauserSpec`, `SettingsSpec` |

They rest on the assumptions about constants that the modules name (`ReaderConstants`,
`RouterConstants`, `KokoroAssumption`, ..., `LaunchAssumption`, `ControlConstants`): what a bound,
an id or a value that means "none" is. TLC evaluates each of them. None of the invariants is inductive
by itself; what had to be added, and why:

* **Reader** (`ReaderIInv`). Between calls the three invariants hold together, but a call passes
  through records where they do not: after `end_current` nothing is current while the queue still has
  items. So the invariant is split into parts (`IdleOK`, `PlayingOK`, `LoadedOK`, `RequestedOK`, ...),
  and each private operator has a lemma that says which parts it needs and which it establishes.
  `FinishLemma` closes every call: it prefetches, and shows the state if it changed.
* **Player** (no invariant of its own; it uses `ReaderIInv`). Each operator of the reader is, seen
  through `View`, an operator of `Player` or leaves the view alone, and each call is a sequence of
  those. `ReaderIInv` is needed where a guard of the reader is about what the view does not have: a
  step mode wait is a pause with an item, an item has chunks, nothing is queued behind nothing. The
  effects are a list that a call appends to; `EndedBy` reads the ended items off it without recursion,
  by counting, so that one lemma (`EachEndsOne`, `OthersEndNone`) says what each effect adds to it.
  `ReaderViewConstants` says that no item is the value for "no item".
* **Worker** (`WorkerIInv`). `NoLostPlay` and `AudioInStep` speak of the moments between two messages;
  the other threads run between any two effects of a call, so the invariant must say what is true
  there. `Plan` says it of a call of the reader: what its effects, in their order, ask for, play, stop,
  pause and end, and that they leave the reader where they lead. `Flow` relates the reader, the effects
  still to be carried out, the records of the three threads and the two queues: generations only grow
  and the end of a play is told once (`Gens`), what sounds or waits is what is loaded or is about to be
  stopped (`Due`), what is loaded is somewhere and in the state its place asks for (`Carried`), what is
  wanted is asked for, being made or in the inbox, a cancel hits nothing wanted, and no answer claims
  more pieces than the inbox and the slot hold (`Work`). A call of the reader establishes `Flow`
  (`CallFlow`, which rests on a `Does` lemma per method and on `ReaderIInv`); each effect carried out
  takes it from the reader to the reader without that effect (`ApplyFlow`); answers, holds and the
  other threads' steps keep it. Two things the invariant needed are easy to miss: an open chunk is
  always one whose audio still arrives (`OpenOK`), and what an answer is about is kept or its item has
  ended with an id that is never given again (`Known`), without which a late `Cancelled` could be taken
  for another item's. Once the synthesizer is closed, only the audio kept matters (`Over`). `WorkerNone`
  says that no chunk, wait or result is the value for "none".
* **Router** (`RouterOK`) and its driver (`ChannelsOK`). `RouterInv` is almost inductive: it lacks the
  types, since a method that is given an id it does not know, or an entry that is gone, must be shown
  to leave the record alone. Each operator of `Router` has a lemma that it keeps `RouterOK`. The two
  hard ones: `Vec::retain` (`without` counts the members kept, so that `WithoutLemma` can say by
  cardinality alone that nothing kept is lost, doubled or reordered, which the distinct ids, the order
  of the channels and the marks of a batch need), and the calls that give the floor, where `hold`,
  `announce` and the three memories of the reader move one after the other and agree only at the end.
  For the driver, `DriverOK` adds that what is in flight belongs to an id, and that only the first of
  its remaining calls speaks, and then `router.fed` is set: the call that speaks finds the feed it
  is for, whatever other clients of the reader did since.
* **Kokoro** (`KokoroIInv`). That a loaded file is whole follows from what the preparation thread knows
  at each of its steps: what it hashed, renamed and marked since, and that a half-written part is never
  under the final name. The claim of a fetch belongs to the step the thread is at.
* **External** (`ExternalIInv`). The place where the fallback reads on is an estimate from the audio
  that was heard; it is not after what was heard because the estimate's pace is not above the
  provider's, and because a cut is moved back to the start of its sentence (`LeastNatural` gives the
  first sentence that holds a place). What may be
  kept had no note that it stopped early at any of the stream's steps, and its audio ends where its
  text or its answer does. That is all the code can know: `KeptWhole` does not say that an answer
  which ends early and says nothing is whole, and the run reaches such audio in the cache.
* **Engines** (`EnginesIInv`). What a profile's key is confirmed for is read from the file, from the
  copy the CLI would put back, and from the entries in memory; none of the three says more than the
  user confirmed. The file's format counts: the first one confirms the address it has, so an undo or a
  save that put entries of the second under the first would confirm what nobody did.
* **Engines**, the edits (`KeptIInv`: `InFile`, `AsRead`, `AsSaved`, `PutBack`, `Copied`). Whoever
  writes `engines.json` writes a list of its own: a request the entries in memory, the CLI's undo the text it found. What
  counts is what is read of a file (`Read`): of its entries the first `MAX_PROFILES`, each id once. An
  entry behind those, or of an id that comes again, is no promise, but becomes one when the user takes
  another out so that it is read (`Wish`); since a file may have as many entries as are read and one
  more, `CliTexts` needs that lists are finite for what the CLI adds to leave what was read. So what
  the user wrote must be in each of these lists before it may be written: in the entries whenever the
  file is as last read, because the check of `take_in_file_changes` then lets the save go on (`AsRead`),
  and while a request is past that check (`AsSaved`); in the CLI's text while the CLI is at work
  (`PutBack`). A text that is no JSON is in its copy before a save writes over it (`Copied`). An edit
  made while a save or the CLI is under way is not promised to stay (`Wish`), and one between a save
  and the reading back of what it saved ends the promise until the next start (`raced`).
* **Lifetime** (`LifetimeIInv`). An exit that was decided while the admission lock was held excludes
  every later admission, so what was admitted before is counted in `pending` until it is answered.
* **Muting** (`MutingIInv`, `RestIInv`). The chunk's cancel generation is the token's only if it was
  marked after the last cancel; a thread that swapped the hold up has a `cancel` still to come. What holds
  when every call is done rests on what the calls still have to do, so `RestIInv` speaks of their lists
  of steps. A list never has certain steps after others and goes on to certain ones (`Orderly`, which
  each script starts with and each step keeps, with the steps it puts in front): so who is between
  `lock_change` and `end_change` has that lock, and likewise for `set` (`UnderLocks`). The hold is as
  the mute is unless a `follow` comes, or a swap does that will make it so (`HoldComes`). The level
  stored is the one in force unless the thread that changed it has a `record` to come (`LevelComes`); a
  client's `record` stores the value it applied and not the level in force, which is the same unless a
  press came in between, and then the press stores after it, since it needs the same lock
  (`SetComes`). `AgentComes` says that the agent is started once. `MutingAssumption` says that no thread
  is the value for a lock that nobody has.
* **Protocol** (`ProtocolIInv`: `LocksHeld`, `LayersBuilt`, `SaidOff`, `NamesKept`,
  `SummariesStored`). A lock is held by the request that is at one of its steps and by no other, so a
  layer that is not on is being built by one request at most. A name in a request that is under way is
  the one the channel will have unless another naming overlapped it, which `room.parted` records.
* **Relay** (`RelayIInv`: `Phases`, `Ahead`, `MovesOn`, `Sends`, `RateComes`). The reader and what a client
  shows are joined through the stream's view: what was read of the reader is what it is, or the event
  that says so is still to come, which holds only because the stream listens before it reads; and the
  newest state queued, or the one shown, is the view unless it was dropped. An event that is not old
  makes the view's `seq` grow, so that `StateView::render` never withholds a change. For the cues, the
  newest rate waits, is being spoken or was spoken last.
* **Hotkeys** (`KeysIInv`: `KeyShape`, `Turns`, `Alive`, `Owned`, `Registered`, `Fresh`). `ChordsFollow`
  speaks of the moments when no request is under way; until then a stop waits for a pump that still has
  its chords while the file is already another. So the invariant says which step each thread is at and
  which lock that step holds (`Turns`), that a pump has not ended only if it is the current one or
  someone is joining it (`Alive`), and that a chord of ours belongs to such a pump (`Owned`): a new pump,
  which starts only after the join, finds none of Sonara's own chords taken. Of the current pump each
  binding is still to be tried, registered, or refused because of another program or of a second
  action on that chord (`Registered`). Its bindings are the file's or a thread is about to reload, and
  the file has no chord twice, nor will it once a `bind` that passed its check has saved (`Fresh`, which
  needs the `set` lock). All this holds until the shutdown, which takes the pump out
  of the slot without the transition lock, and after which nothing is promised. `KeysAssumption` says that a request to bind names a key that exists.
* **Launch** (`LaunchIInv`). A runtime between its start and its end holds the mutex, and one that found
  its own file and is to remove it still finds it there, unless a start fell in between
  (`told.raced`).
* **AudioControl** (`ControlIInv`: `WorkerSettled`, `LevelSent`, `OneTransition`, `Followed`). The worker
  may disagree with the status only about what is on its way to it: a mode, a level or an arming in
  the queue or between the change of the status and its send. The newest level and the newest activity
  in the queue are those last set and last sent. At rest nothing is on its way, which gives `InLine`.
* **MediaPauser** (`PauserIInv`: `StepsOK`, `SilencedOK`, `TakenOK`). That the file has a session's app is
  not kept by the steps that write the file anew: they write what the runtime still owes. So a running
  runtime owes a resume to every session whose pause is not too old (`Owed`: it is among the sessions
  saved or being paused, or pending by itself or by its app), and the time it was recorded under is not
  after the file's, the pending ones' and `since` (`Younger`): what a resume or a `recover` forgets as
  too old is older than that. `oldest` is a choice; `LeastTime` says that there is one to make.
  `PlaysItsOwn` says less than that a resume plays only what the pause paused: Sonara's are the sessions
  that played when the pause looked at them and whose call was then accepted or timed out (`taken`),
  and the user may have paused one of these between the two.
* **Settings** (`SettingsIInv`). A value that `validate` took is taken again unchanged (`CleanLemma`), so
  a saved Store loads to itself (`SavedAgain`), but only while its two halves stay apart: `user` has
  what the schema takes, `extra` what it refuses (`Good`), and what the user wrote and nobody set since is
  in `extra` (`OwnOK`). A later `load` may add one key, the `read_mode` that an old `minqueue` stands
  for, which the engine and the voice do not depend on (`Agree`). The voice in force is the one the
  Store gives, or one is saved that waits (`VoiceOK`); that switching engines keeps this needs the case
  of a user without a saved voice, where the default came and went with the engine. For the
  preferences, the file has no order: there is exactly one sequence of them from the oldest to the
  newest (`SortedIsIncreasing`, `IncreasingUnique`), so what is loaded is what was in memory, because a
  change is stamped later than all others whatever the clock says (`StampedOrdered`). The marker of the
  import is in the file, or in a Store that will save it, only once each file was taken over
  (`ImportOK`). The theorem lets every kind of `set`, edits and the import follow each other in one
  session; the run takes them a kind at a time. `SettingsKeys` says that edited keys are the schema's
  or one of a newer release.

`NextLemma`, `KokoroInductive`, ... have one step per action; TLC checked each invariant before it was
proved.

What is left to TLC:

* liveness (`WorkEnds`, `Drains`, `Recovers`, `CallsReturn`, `IdleEnds`), which the prover cannot do;
* `NotDropped`: it is false of `MutingSpec` with refused changes (finding 3), the run leaves those out;
* `OnRecord`: it holds of the sessions the runs explore, and its inductive form needs what Windows did
  since;
* `RefusalsSorted`: a statement about finitely many answers, all of which TLC evaluates;
* `NothingLost`, `InOrder` and the agent's other properties: they are about what recursive operators
  compute over lists of deltas, which would need induction over data.

## 5. Not modelled

* Text (splitting, numbers, pronunciation, tables, code rules), grapheme-to-phoneme tables: a large part of
  the source, sequential character rewriting without state. Its result is a list of chunk kinds here.
* What providers, OneCore and Kokoro's network do with a text: request bodies, audio formats,
  inference. Their answers are a choice of parts, refusals and breaks.
* Of the agent layer: earcons, stepping through a question set (its entry is bound, the user's
  steps are not taken), following the screen, hints, the sweep of old channels, settings other than
  summaries and mute changing in a session. `Agent` stands on the entries handed to a channel, not
  on `Router`.
* Of the reader's host: switching the engine under a queue, item voices, clips.
* Windows itself: sessions, chords and media controls are modelled from their use.
* Reporting: logs, traces, drop reports, wording of cues and announcements, the settings page.
* Failures of the disk that the code logs or tries again: a migration of `engines.json` that cannot be
  saved, a copy of a broken file that cannot be made (`Starts` takes it to succeed), a `config.json`
  that cannot be read, a bad part that cannot be removed, a mark that cannot be written after its
  file was renamed.
* Other top-level keys of `engines.json`, and the binding of stored keys: `KeysGoHome` follows the keys
  of the environment.
* What `MessageHeard` and `InForce` do not say: the first is about answers that were cut, and an answer
  that ends early without a note is taken for whole, so that the rest of its text is not read; the
  second leaves out a channel whose naming overlapped another (`room.parted`).
* The hold's two other scopes (`explicit`, `local`) and engines built without a hold.
* The CLI's `doctor` and `uninstall`, the hook's reading of transcripts, installation.

PROJECT.json lists every component with its status, and the hazards that no property covers yet.

## 6. Findings

Shown by a run:

1. *Two devices, one app* (`ducker_devices`). A duck takes over a pending record by pid and name; a
   session on another device gets the wrong original and the first stays lowered.
2. *A fresh pause under an old stamp* (`pauser_stale_record`). The file carries the oldest pending
   time, so after a crash the sweep takes a new pause for an expired one.
3. *A refused mute drops a chunk* (`host_refused_mute`). `Hold::set` moves the epoch before it raises
   the hold; a chunk that begins between the two, cut by a change that is then refused, looks like
   one the reader cancelled.
4. *A decision before its context* (`agent_overtaken`). The decisions a session holds have one owner,
   the job dispatched last; when it answers they all go, though an earlier one's summary is out.

Met while modelling, without a run:

* `reader/mod.rs` documents that step mode reads on after a block's last line; the code waits there,
  and a later comment in `advance` says that this is wanted.
* A fed item is not always the reader's current one. `pump_fed` asks whether the reader is idle and
  speaks in a second call; text that another client speaks in between is read first, and a cut of
  the channel then skips that text.
* A decision held while only an earlier job is out is owned by the last one, which has answered: it
  waits for the cap.
* `catch_up` gives back the decisions that wait for the settle before those held longer.
* When summaries are turned off with prose kept for one, the next decision is read before it
  (`DecisionAfterProse` excepts it). A summary parked behind another session's slot is passed by the
  decisions that waited for it.
* `has_work` does not count deltas held behind a gap.
* `health.rs`: when failures open the breaker while a longer `Retry-After` runs, `open_until` is
  overwritten by the shorter wait.
* `external/mod.rs`: two calls that adapt at once can each leave out the field the other still sends;
  a refusal after the last repeat is then a block until the user acts. A key changed while a request
  is out is blocked by the refusal of the old one.
* `streaming.rs`: an answer cut off is known by a note or a broken connection. One that ends early and
  cleanly without a note (a raw PCM stream never has one) is a success: the rest of its text is not
  read, and its audio is kept, where `cache.rs`:9 says that "only a complete answer goes in (never one
  cut off)" and `protocol-v1-engines.md` that "an answer cut off is not kept". `KeptWhole` excepts it.
* `external/mod.rs`: a voice list of more than `VOICES_MAX_PAGES` pages is kept as the list without its
  last pages, and a voice on those is not listed (`KeptWhole` excepts it).
* `pausing.rs`: `is_playing` is asked first and the session paused in a later call, whose success is
  all that is looked at. A tab that its user paused in between is saved as paused by Sonara, and the
  resume plays it, where `protocol-v1.md`:919 says that "a resume plays only the media sessions the
  pause paused" (`PlaysItsOwn` counts such a tab as Sonara's).
* `openai.rs` sorts a 400 that names both `instructions` and the voice as a bad voice, where other
  adapters leave the field out and try again. A 408 is a bad configuration in every adapter.
* `engines/`: two overlapping `engine_add` can leave the registry with the older profile. After a
  failed save of a new engine, an `engine_add` that replaces it is saved and never registered.
  `save` writes and then reads the file back into `seen`, so an edit between the two is taken for
  the save (`EditsKept` excepts it). `take_in_file_changes` drops the list of what changed, and
  does not notice a file that changed and came back to the text last read: after a failed save the
  entries may differ from that text, so only what they have of it is kept then (`Noticed`). The
  CLI's undo puts back a file that an `engine_add` has changed since (excepted likewise).
* `engines/file.rs`: of `engines.json` the first `MAX_PROFILES` entries are read and of these each id once;
  the next save writes `format` and those entries, and so erases the others and every other key of the
  file. A migration does so at the start. Of the entries skipped for their id the log has a line, of
  those beyond the limit nothing (`EditsKept` is about the entries that are read).
* `config.rs`: a saved voice that waits for its engine is applied at the next start, not when `set
  engine` picks an engine that offers it. Setting `minqueue` where `read_mode` is unset changes the
  read mode at the next start. After a failed write, setting the same value again does not retry.
* `migrate.rs`: if the import cannot write `config.json`, the first `set` writes it without the
  marker and the import never runs. `import_earcons` copies in place.
* `runtime_file.rs`: `remove_if_ours` reads and then removes; the file of a runtime that started
  between the two goes (`Found` excepts it). `wait_gone` returns while the mutex is still held, so a
  runtime started then exits with 3.
* `sonara-client`: a batch whose reply comes late is sent again and applied twice.
* `events.rs`: the first snapshot reads the status changes and the state in two calls; a change
  between them gives the event a `seq` that another stream uses for another state. `sent` moves on
  when the queue was full, so a state dropped there is not sent again until the next change
  (`ClientCurrent` excepts a client that is behind).
* `keymap.rs`: `bind` and `unbind` read a broken `keymap.json` as empty and write over it.
* `channels_ext.rs`: `set channel_prefs` holds the `set` lock and `channel_open` the admission lock, so
  that a name the user gives while an open is under way can be overwritten by the name the open read
  before it. An open that the driver refuses has noted its client's name already (`InForce` excepts
  both, `room.parted`).
* `hotkeys.rs`: a tap that waits behind a running action is watched late; if the key is down again
  then, it becomes a hold. The debounce starts anew with every reload of the keymap.

## 7. Plan

Done: the reader, its worker and output, the channels, the rules and the driver of the agent layer,
the engines with their profiles, the system layer with its hotkeys, and of the host the protocol, the
mute changes, the runtime's start and end, settings, event streams and cues; the theorems of section 4.

Next, in this order:

1. Theorems: `OnRecord`.
2. The rest of the agent layer: stepping through question sets, following the screen, the earcon
   schedule; `Agent` over `Router`.
3. Switching engines under a queue in `ReaderWorker`, with `External` behind it.
4. Text as operators over small alphabets: the assembler's cuts, packing of chunks, table and list
   rules.
