# Verification of the Amlogic media-player SDK (aml_mp_sdk)

TLA+ models of the SDK's own logic, model-checked with TLC on small instances and,
where the property is about every value of the constants, proved with TLAPS.
Every definition is translated from the sources under `src/`; `PROJECT.json`
names the lines each one stands for.

## 1. The system

The SDK plays DVB/IPTV streams on Amlogic boxes.  A client opens a *player*,
configures its streams, and starts them one by one or together; the player asks a
*parser* over a *demux* for what the client did not tell it (codecs, ECMs), lets a
*CAS client* descramble, and drives a *codec layer* over a vendor library.

| Component | State it keeps | Operations | Interacts with |
|---|---|---|---|
| Player object `AmlMpPlayerImpl` | `mState`, `mLastState`, a 2-bit decoding state for each stream, `mPrepareWaitingType`, the parameters, decode mode, CAS session, `mParser`, `mPlayer`, the write buffers | start/stop (whole and per stream), pause/resume/flush, track switches, decode mode and rate, setters, writeData, parser callbacks | codec layer (calls under `mLock`), parser (open, filters, close; callbacks on the parser's thread), CAS, client's event callback |
| Codec layer `AmlTsPlayer`/`AmlPlayerBase` | parameters-set flags, decoders (in the vendor library), subtitle handle, audio ES queue | set params, start/stop/pause/resume of each decoder, writeEsData | AmTsPlayer and AmlSubtitle libraries; a feeding thread of its own |
| CTC, TV and dummy codec layers | vendor handles | the same interface | vendor libraries |
| Player C API | none | one function per method | player object |
| Media player `AmlMpMediaPlayerImpl` | an Android-style `mState`, the listener | setDataSource, prepare(Async), start, pause, resume, stop, reset, release, invoke | a plug-in player that calls back from its threads |
| Parser `AmlTsParser` | PAT/PMT/CAT results, filters and channels, waiters | open, wait, add/remove filter, close, table callbacks | demux (owner), player object (callback) |
| Demux base, HW/SW/tuner demux | channels, filters, section versions, reassembly buffers, a reading thread | create/destroy channel and filter, attach/detach, start/stop, onData | device or fed data; parser callback |
| ES queue | access-unit buffers | appendData, dequeueAccessUnit | software demux |
| DVR player and recorder | vendor session, segment location, parameters | start, stop, pause, resume, seek, set streams | vendor DVR library, player through its handle |
| CAS clients | session, ECM buffer, private data | openSession, startDescrambling, processEcm, decrypt, closeSession | vendor CAS libraries |
| Event looper, messages | an event queue ordered by time, reply tokens | post, postAndAwaitResponse, start, stop | any handler |
| Thread, poll looper | run flags, requests, pending messages | run, requestExit(AndWait), addFd, pollOnce | demux and feed threads |
| FIFO buffers | chunk table, put and get counters | init, put, get, reset | player write path |
| Reference counting | strong and weak counts | incStrong/decStrong, promote | everything |
| Roster, config, signal handler | process-wide tables | register, look up, dump | start-up and debugging |

Left aside: the JSON library (third-party), tests and demos (clients of the SDK),
enum/string conversions, sysfs and logging helpers.

### What is hard

* **One lock given up in the middle.**  Every method of the player object runs under
  `mLock`, but `reset_l` unlocks it while the parser is closed, because the parser's
  thread may be waiting for `mLock` inside `programEventCallback`, and `doWriteData_l`
  unlocks it around slow calls.  What was read before may be stale after.
* **Two threads that end a preparation.**  PREPARING ends in a callback that may come
  before, during or after a `stop`, with the codec and the ECM in either order.
* **Inferred state.**  `resume_l`, `finishPreparingIfNeeded_l` and `resetIfNeeded_l` decide
  by what pause, flush, track switches and AD left in the decoding states.
* **A decoder shared by two streams** (main audio and audio description).
* **Partial failures** of codec-layer calls; many results are added up and looked at
  after the state has already been changed.
* **Callbacks with plain pointers.**  The poll looper, the subtitle library, the CAS
  library and the plug-in player call back on threads of their own, with a pointer to
  something another thread may be freeing.
* **A stream that is cut, lost and repeated.**  Packets arrive in pieces of any size, some
  never; tables come in any order and again.
* **References counted by hand**: messages, handles and the CAS session map each keep
  counts or weak pointers that something else has to agree with.

What makes each component correct:

* player: an IDLE object has no stream up; decoding states tell the truth about the
  decoders; nothing comes back to life while `mLock` is given up; every preparation
  ends; the pause, the CAS session and the parameters survive what should keep them;
  no null codec layer is used.
* FIFO: bytes come out once, in order; never more than the capacity; no chunk is read
  before it is written.
* media player: a failed call leaves a state from which the client can go on; events
  and calls do not overwrite each other's state.
* looper: events in time order and in posting order at one time; every awaited reply
  arrives or the waiter is released.
* parser and demux: after close/detach no callback; at most one filter per PID; filters
  of replaced tables are removed.
* software demux and ES queue: what arrives whole leaves whole, in order and with its own
  timestamp; what is damaged is dropped, never mixed.
* codec layers: whatever a start opens a stop or the destructor closes; one BUFFER_DONE
  per buffer accepted.
* DVR and CAS: the client has the session it was told of; what a failed start opened is
  closed; an event reaches a live object.
* reference counts: an object lives exactly as long as somebody may use it.

## 2. Modules

| Module | Models | Notes |
|---|---|---|
| `TsPlayer` | `AmlTsPlayer.cpp` and the subtitle half of `AmlPlayerBase.cpp`, as the player object drives them | pure operators on a `Device` record; `f` is the set of library calls that fail |
| `PlayerHandlers` | the `*_l` methods of `Aml_MP_PlayerImpl.cpp` | pure operators on a `Player` record |
| `PlayerImpl` | the player object with client threads and the parser's thread | VARIABLES, actions, properties |
| `WritePath` | `writeData`, `drainDataFromBuffer_l`, `doWriteData_l`, `findEcmPacket`, the range of `AmlMpBuffer` | packets by their place in the stream; the session around it reduced to idle, preparing, running |
| `PlayerBase` | `AmlPlayerBase.cpp`: which layer `create` makes, the roster's AmTsPlayer id, subtitles | the subtitle library's thread calls back through one static weak pointer |
| `TsCodec` | `AmlTsPlayer.cpp` with its audio feeding thread; `AmlDummyTsPlayer.cpp` | EXTENDS `TsPlayer`; one step per section of the feed under its lock |
| `Packetizer` | `AmlTsPlayer::packetize` | exact sizes of PES and TS packets |
| `CtcPlayer` | `AmlCTCPlayer.cpp` | the library's players and demuxes, symbols it may lack, settings kept over a stop |
| `TvPlayer` | `AmlTvPlayer.cpp` and the tuner HAL wrappers | handles by member; a null pointer or a thread of a freed track ends the behaviour |
| `TsParser` | the tables of `AmlTsParser.cpp` | PAT, PMT, CAT, versions, waiters, pid changes |
| `PollLooper` | `AmlMpLooper.cpp` | requests by descriptor and sequence number, epoll, wake event |
| `HwDemux` | `AmlHwDemux.cpp`, the channels of `AmlDemuxBase.cpp`, filters and close of `AmlTsParser.cpp` | EXTENDS `PollLooper`; the reading thread against setup, ECM filters and two closes |
| `SwDemux` | `AmlSwDemux.cpp`, delivery of `AmlDemuxBase.cpp` | EXTENDS `EsQueue`; half packets fed in pieces, a looper between feeding and parsing |
| `EsQueue` | `AmlESQueue.cpp` | a stream as cells: start codes, sync headers, other data |
| `DvrPlayer`, `DvrRecorder` | `dvr/` | libDVR external; start and stop one library call at a time |
| `DvbCas` | `AmlDvbCasHal.cpp` and the process-wide half of `Aml_MP_CAS.cpp` | the session map, events on the library's thread |
| `IptvCas` | the five IPTV clients and `AmCasLibWrapper` | the plug-in external; any symbol may be missing, any call fail |
| `MediaPlayer` | `AmlMpMediaPlayerImpl` and the plug-in behind it | a method is a script of plug-in calls and `setState_l`s, one step each; events in between |
| `EventLooper` | `AmlMpEventLooper`, `AmlMpMessage::post*`, `AmlMpThread` | one step per section under a lock; condition variables as waiting, woken and sleeping threads; a clock of ticks |
| `Message` | the items of `AmlMpMessage` | what a message refers to against the references it holds |
| `RefBase` | `AmlMpRefBase.cpp` | one step per atomic operation, three threads, strong and weak counts with their bias |
| `PlayerHandle` | `Aml_MP_Player.cpp`, `AmlMpHandle.h` | EXTENDS `RefBase`: the handle's own reference, calls against Destroy |
| `ByteQueue` | what a FIFO promises | abstract: a bounded sequence with atomic put, get, reset |
| `ChunkFifo` | `AmlMpChunkFifo` | one `memcpy` per step, counters that wrap at `Word` (for 2^64); implements `ByteQueue` |

The theorems are in modules of their own: `PlayerImplProofs`, `MediaPlayerProofs`, `HwDemuxProofs` for the
module they name, `WritePathProofs` for `WritePath`, `DemuxProofs` for `TsParser`, `SwDemux` and `EsQueue`, `CodecProofs` for `PlayerBase`, `TsCodec`, `Packetizer`,
`CtcPlayer` and `TvPlayer`, `DvrCasProofs` for `DvbCas`, `IptvCas`, `DvrPlayer` and `DvrRecorder`, `RuntimeProofs` for `PlayerHandle` (with
`RefBase`), `ChunkFifo`, `Message` and `EventLooper`.

An `MC` module holds the instance a run checks: `PlayerImplMC`, `WritePathMC`, `CodecMC`, `HwDemuxMC`,
`DemuxMC`, `DvrCasMC`, `MediaPlayerMC`, `RuntimeMC`.  `CodecMC`, `DemuxMC`, `DvrCasMC` and
`RuntimeMC` put several modules that share no state side by side: an initial choice says
which of them a behaviour is about, the others stay in an initial state.  Nothing is
composed there; modules that interact do so by EXTENDS.

### The player core

`p` is the object: `p.state` is `mState`, `p.last` `mLastState`, `p.dec` the four 2-bit
fields of `mStreamState`, `p.waiting` `mPrepareWaitingType`, `p.prm` what the parameters of a
stream say (no pid, pid without codec, both), `p.cas`/`p.standalone` the CAS session and
who brought it, `p.parser` "none", "open", or "closed" (closed but still referenced),
`p.asked` the filters the parser has, `p.player` whether `mPlayer` is set and `p.dev` what it
remembers.  `report` is what the parser's thread has found and is about to deliver;
`pc` and `joining` say which client threads are inside `reset_l` without `mLock` and which
of them wait for the parser's thread.

A method that never gives up `mLock` is one action (`DoStart`, `DoPause`, ...), whose effect is
an operator of `PlayerHandlers` named after the `*_l` method.  A method that reaches `reset_l`
is cut there: `GivesUpLock` is the first half up to `lock.unlock()`, `FinishReset` the second
half from `lock.lock()`.  If there is no parser `reset_l` keeps the lock and the call is one
step.  `Parser::close` waits for the parser's thread, except in a second caller, which
returns at once: that is `joining`.

Abstractions: pids and codecs are reduced to whether they are known; the pass-through
setters (volume, window, ...) and `applyParameters_l` have no effect on the control and
are left out; the codec layer is the one over AmTsPlayer, whose `flush` and
`switchAudioTrack` always ask the caller to do the work.

### The write path

`ts` is `mTsBuffer` (a bounded sequence: `ChunkFifo` shows that the class is one), `base`,
`offset` and `length` are `mWriteBuffer`, whose range is computed in a word of `Word` values.
`call` holds the locals of `writeData`, `drainDataFromBuffer_l` and `doWriteData_l`; `call.at`
says where the call stands, and the others run only where it does not hold `mLock` ("none",
"window" before and "back" after the call into the codec layer).  The codec layer takes a
part of what it is given or refuses it.  `findEcmPacket` reads a byte behind the packet it
looks at, so an ECM in the last packet of a buffer may or may not be seen.  `session` records
what left since the buffers were last reset; `session.clean` is FALSE when a stop or flush
met a call in its window or the parser took less than it was given, and the safety
properties are about clean sessions: what goes wrong in the others is said in section 5.

### The demux side

`HwDemux` follows a filter through its three owners: the parser's context (`mFilters`), the
demux's channel and its parameters, and the poll looper's request with the kernel's epoll set.
Each call is cut where its lock is given up.  A request is named by descriptor and sequence
number, because the descriptor of a closed channel is the next one to be handed out.
A callback that is about to run keeps the address it was given; if its parameters are freed
meanwhile `fault` says so and the behaviour ends.  `lost` are the filters that two threads asking for
one pid lose: both look before either enters its context.

`TsParser` keeps the tables as sequences of entries and the thread of the demux as a step per
section of `onPmtParsed` that holds `mLock`; clients wait on the information or the CAT.
`reported` is what a listener has been told, so that a property can compare it with what is
on air.

`SwDemux` feeds a transport stream in units of half a packet; a unit may be lost, which shifts
what follows until the parser finds a sync byte again.  `EsQueue` is a set of operators on a
queue record, one per codec, on cells instead of bytes: what a start code says (its type,
whether a slice is the first of its picture, the length of a frame) is a field of its cell,
and a cell of zero bytes is a kind of its own: H.264 and H.265 strip it from the end of a NAL,
and what is left of the last NAL of a picture stays in the queue with its range.
A sequence of packets for each codec is given with the access units it must come out as.

### Codec layers, DVR, CAS

`TsCodec` has three threads: the control thread (one method of the player object at a time), the
writer, which does not hold the player's lock, and the feed.  A stop of the audio is cut at the
flush and at the join.  `CtcPlayer` and `TvPlayer` record what the vendor library holds besides what
the layer remembers; the property compares the two.  `DvrPlayer` takes `start` and `stopInternal` a library call at
a time, so a failure may come at any of them.  `IptvCas` has the player object as its client: it makes an
object and starts it, later stops and drops it.  The plug-in answers once for each packet of a buffer.

### Runtime

`RefBase` has no abstraction but the set of threads: each atomic operation on a count is a
step, with the bias of the first reference.  `sptrs` and `wptrs` say what each thread owns; the
invariant relates them to the counts and to what has been deleted.  `PlayerHandle` adds the
handle, and that a call casts it into a strong pointer for as long as it runs.

## 3. Runs

| Run | Instance | Shows |
|---|---|---|
| `PlayerSolo` | one client, every call but AD, encrypted TS from memory | the type invariant; IDLE means every stream is stopped; the window of `reset_l` is quiet; the decoders do what the decoding state says; the client's CAS session survives a decode-mode switch |
| `PlayerWhole` | one client of whole-player calls, fairness | the phase tells what the streams do; a flush while paused comes back paused; preparations end |
| `PlayerThreads` | two clients, AD included; creation of the codec layer and starts of the audio may fail | the codec layer, the parser and the preparation stay consistent through `reset_l`'s window |
| `StopRace` | violation | see 5 |
| `WritePath` | a stream of six packets, two of them ECMs, writes of one or two, buffers of four and two packets, two stops or flushes anywhere, fairness | what is accepted leaves once and in order through buffers, retries and refusals; after a start or a flush no data goes out before an ECM was seen; writing comes to an end |
| `Codec` | two players for subtitles; each codec layer; sizes around every boundary of the packetizer | subtitle events reach a player that exists; what is opened is closed; every buffer taken is reported; packets carry every byte; a stop of the audio returns |
| `HwDemux` | two clients and the reading thread, two descriptors, one program | parser, demux, looper and kernel agree about the filters; a close returns |
| `Demux` | two programs with three versions; one stream per codec, a unit lost, a flush, two pid changes | pid changes add up to the program, which is the selected one; waiters leave; sections and frames come in order, no part twice, frames with their own timestamp; a clean stream arrives whole |
| `DvrCas` | a DVR player and a recorder with failing libraries; two CAS objects; five IPTV clients | the client has the session it was told of; the recorder's list is what is recorded; callbacks find live objects; the plug-in has the keys while it is used |
| `MediaPlayer` | two clients, every method, any plug-in call may fail; whether the plug-in waits for its event thread in stop and reset is chosen in `Init` | `mState` is right about the plug-in between methods, but for a late end of stream; a stream that ended can be restarted; the window is what the plug-in was told; the plug-in is used only when prepared, unless a late end was the last to set `mState`; every method returns |
| `LateEnd` | violation: one client, no failing call | see 5 |
| `Runtime` | a ring of two chunks of two bytes and a word of 16; one object, three threads; two messages of two items, two objects; a looper with a controller and another caller, two starts, three messages due at once, after a tick or never, fairness | the FIFO implements the atomic queue and reads only allocated chunks; an object and its counts live exactly as long as they are needed; messages hold what they refer to; posted messages are delivered in order, none that is due is missed, after stop no handler runs, waiters and stop return |

Bounds of the player runs.  There are no counters: the state of the object is finite, so
the runs are exhaustive for their instance.  What is small is the choice of the client's
calls, of the parameters it offers and of the calls that fail (at most one per step in
the runs with faults); the cross product of all of them is too large to explore.  Two
threads are the least that meet in `reset_l`'s window; a third would find the object in
the same states.  They are symmetric, and no liveness is checked with symmetry.

Bounds of the other runs.
* `WritePath`: the buffers hold four and two packets so that a stream of six fills both, wraps
  the drain over several refills and has an ECM at every place of a write; two resets let a
  session follow one that ended in a window.
* `Codec`: two starts of the CTC layer, 24 handles of the tuner and three buffers let everything be
  opened, closed and opened again; the queue of the feed is full at two where the code has 101.
  `EsSize` has every size at which a packet more or a stuffing byte less is needed.
* `HwDemux`: two descriptors, so that a third channel must reuse one; one parse and one ECM per
  thread; one event per poll, so that a response and a request may be of different rounds.
* `Demux`: `MaxChanges` = 2 lets a stream go and come back; three units in a call let a call end in, before and
  after a packet; one loss and one flush are enough to leave every kind of rest behind, and the
  packets after it show what the rest does to them.  Zero bytes lie inside the payloads, and in one
  transport (`ZeroEnd`) at the end of one; in the tables a section goes over two packets, and what follows
  one reads like another.
* `DvrCas`: two starts, so that the second meets what the first left; lists of up to three of four
  pids, one not recorded; two events and two objects, so that one may go while the other's
  event is on its way.
* `MediaPlayer`: finite; two clients so that one may be between the two halves of
  `registerEventCallBack` while the other plays.
* `Runtime`: three messages of the looper are enough for two due at the same time and a third before or between
  them; one tick separates now from later; the second start finds what the first left.  A ring of 4
  bytes and a word of 16 make both counters wrap at the ring and at the word with every offset in a
  chunk, and a string of three bytes reaches over a whole chunk; three threads, so that a promotion may meet the last release of
  one thread and the first reference of another; two items per message, where the code has 64.

Preconditions that the runs fix, and what happens without them, are in section 5.

Fairness.  Every assumption says that a thread that can run does, or that data keeps coming.
* Player (`PlayerWhole`): a thread that waits for `mLock` gets it (weak fairness of `LeavesReset` and
  `Delivers`).  A table or ECM the preparation waits for is repeated in the stream, as DVB tables
  are, so the parser finds it again and again as long as it is open (strong fairness of
  `Finds` for what is waited for).  No client is obliged to call anything.
* `WritePath`: the client writes on and starts a stopped player, the parser ends its search once the ECM
  is in its data, and the codec layer takes data again and again (strong fairness of `Take`):
  decoding frees its buffer.
* `Codec`: the feeding thread runs, and a stop of the audio goes on.
* `HwDemux`: the reading thread and clients that have called run.
* `Demux`: a waiter that was notified runs; the timeout of the wait is not needed.
* `MediaPlayer`: threads run, and one waiting for `mEventLock` is not passed over for ever.
* `Runtime` (the looper): threads run, time passes and handlers return.  No client has to make another call.

## 4. Proofs

A run shows a property on its instance; the theorems below state the same properties for every
value of the constants: any number of threads, objects, messages or packets, any tables and
sizes, any set of calls that fail.  The assumptions on constants are the named ASSUMEs of the
modules (types, and what the code's callers guarantee); what a theorem needs beyond them is an
ASSUME of its own or a premise in its statement, listed here with the reason.  Every passing run that checks
such a property satisfies the ASSUMEs; the premises `clean` and `NoMpegAudio` hold in part of the states of the
run `Demux`, whose streams include one of MPEG audio, and `ArrivesWhole` wherever one of them has come to its end with nothing lost.

No property is inductive as it stands.  Each proof has an inductive invariant that says what
every thread owes while it is in the middle of something, a lemma per operator or action, and a
last step that combines them; TLC checked each invariant on the run's instance before it was
proved.

| Theorem | Property | Needs besides the ASSUMEs of the modules |
|---|---|---|
| `PlayerImplProofs` | | |
| `TypeCorrect`, `CodecLayerIsThere`, `ParserGoesWithPlayback`, `PreparingIsServed` | `TypeOK`, `CodecLayerInUse`, `ParserInUse`, `PreparingWaits` | |
| `IdleIsStopped`, `WindowStaysQuiet` | `IdleMeansStopped`, `WindowIsQuiet` | `OneClient` |
| `SessionSurvives` | `SessionSurvivesModeSwitch` | `OneClient` |
| `FlushComesBackPaused` | `FlushKeepsPause` | `OneClient`, `NoFailure` |
| `PhaseStaysInStep` | `PhaseTellsStreams` | `OneClient`, `NoFailure`, `WholePlayerCalls` |
| `DecodersDoAsTold` | `DecodersFollow` | `OneClient`, `NoFailure`, `NoDescription`, `CodecsKnown` |
| `WritePathProofs` | | |
| `StreamLeavesInOrder` | `DataLeavesRight` | |
| `DemuxProofs` | | |
| `WhatIsKnownIsTheProgram` | `InfoIsTheProgram` | `OnePmtPerProgram` |
| `ChangesAreFound` | (of `checkPidChange`) | |
| `ListenersKnowTheStreams` | `ChangesAddUp` | `OnePmtPerProgram`, `OneProgramPerPmt`, `NamedOnce`, `KnownByType` |
| `UnitsAreCut` | (of `onPayloadData`) | |
| `FramesComeInOrder` | (of `FramesTimely`, the order) | |
| `CutsMakeNoDifference` | (of `onFeedData` and the looper) | |
| `CleanStreamsArrive` | `CleanStreamArrives` | `ArrivesWhole` |
| `CleanFramesTimely` | `FramesTimely` | `clean`, `NoMpegAudio` |
| `CodecProofs` | | |
| `SubtitleCallbacks` | `SubtitlesFindTheirPlayer` | |
| `NothingStaysOpen` | `LayersHoldWhatIsOpen` | |
| `BuffersComeBack` | `EveryBufferReturns` | |
| `PacketsCarryEverything` | `PacketsAddUp` | |
| `HwDemuxProofs` | | |
| `FiltersAreServed` | `BooksAgree` | |
| `DvrCasProofs` | | |
| `DvrPlayerServes` | `SessionServesItsClient` | `OneCaller` |
| `TapeFollowsTheList` | `TapeIsTheList` | `~Repeats`, `2 * MaxAsked < STREAMS_COUNT` |
| `CasCallbacks` | `CallbackHoldsItsObject` | |
| `PlugInIsServed` | `PluginIsServed` | |
| `MediaPlayerProofs` | | |
| `StateFollowsPlugin` | `ObjectAndPluginAgree` | |
| `StartsPrepared` | `PreparedUnlessLate` | |
| `RuntimeProofs` | | |
| `StoppedIsQuiet` | `LooperIsSound` | |
| `DeliversInOrder` | `DeliveredInOrder` | |
| `NoUseAfterFree`, `NothingLeaks` | `NothingIsUsedAfterFree`, `NothingIsLeft` | |
| `FifoIsByteQueue` | `ImplementsByteQueue` (refinement) | |
| `ItemsHoldObjects` | `ItemsHoldTheirObjects` | |

### Why the hypotheses

* `OneClient`, `OneCaller`: the class takes one client thread at a time.  They are necessary: with two, the
  run `StopRace` violates `IdleMeansStopped`, and two threads that stop the DVR player use a handle
  that is gone.
* `NoFailure`: a call of the codec layer that fails leaves the decoding state changed; the code
  adds results up after it has changed its state, so what a failure leaves is not a stream in step.
  The properties about failures (`IdleMeansStopped`, `SessionSurvivesModeSwitch`) do without.
* `WholePlayerCalls`: the phase is only about clients that leave the single streams alone.
* `NoDescription`: the audio description shares the decoder of the main audio, and
  `stopADDecoding` on a PAUSED player ends it.  `CodecsKnown`: a stream offered without a codec is STARTED before
  its codec is learnt, so for a while it is started and not decoded.
* `~Repeats`, `2 * MaxAsked < STREAMS_COUNT`: a list that names a pid twice, or two lists that do not fit into the table of
  `setStreams`, leave pids in it that nobody asked for any more.
* `OnePmtPerProgram`, `OneProgramPerPmt`: programs and PMTs go one with one.  The parser keeps the last section of each pid whatever its
  program, so with several to a pid it compares sections of different programs.  `NamedOnce`: a PMT names a pid once;
  of two entries with one pid the comparison sees the first only.  `KnownByType`: `checkPidChange` compares stream
  types, and a private stream (type 6) whose descriptors change its codec while pid and type stay is not reported.
  `PmtAssumption`: no stream has the pid of stuffing packets, which is the code's name for none.
* `clean`: nothing was lost, flushed or stopped so far and no filter added after the first packet; after a loss the timestamps are only checked (below).  `NoMpegAudio`: dropped data
  of MPEG audio leaves its ranges behind.  `ArrivesWhole`: the stream, fed packet by packet, gives each filter what it should get
  (it is a statement about the stream; cutting and scheduling are what the theorem is about).
* `TablesAssumption`: the parser looks a pid up among the tables first, so pids 0 and 1 and those a PAT names carry tables.
  `StampsAssumption` says what the pts of a cell means: it is that of the PES packet the cell is in, which the last packet of its pid with the start flag began.
* `IptvAssumption`: a service that is descrambled names an ECM pid (a session without one is never
  started by the player).  `PointersFit`: there are fewer pointers to an object than the bias
  `1 << 28`.  `SizeAssumption`: the counters of the FIFO wrap at a multiple of its size, which
  `roundUpPowerOfTwo` and 2^64 give.  `TransportsAssumption`: whatever is at the head of a
  packet of a pid with sections can be read as a section header.  `PacketAssumption`: stuffing is at most 170, as `packetize` asks.
  `WakeFdIsApart`, `ThreadsAreApart`, `PidsOfTables`, `MessageAssumption`: names of different things differ, a table names pids.

### The arguments

* *Player object.*  `IInv` adds to the properties that a STOPPED object has stopped streams and that a
  thread inside `reset_l`'s window finds the object STOPPED.  The proof is in two layers: `Good(q)`, of one
  object, is kept by each method of `PlayerHandlers`; the actions follow, one step each, and the window
  is where the number of clients matters.  The later theorems use `IInv` and an invariant of their own:
  `Bound` (a session the client brought is referred to until the object lets go of it), `Phased` (what each phase
  says of all streams), `Followed` (for each stream what decoder, parameters and phase are together).
* *Write path.*  `PathInv`: what is in the two buffers and in the hands of a call is one run of the stream,
  between the first packet that has not left and the next the client has; a call that a reset met is
  marked, since what it holds is of the session before.  The search for ECMs is by the least position.
* *Table parser.*  `InfoInv` says of which PMT the section at hand and the parts of the information are, while the
  information is filled in without the lock.  The rounds of `checkPidChange` are followed by the sides of the pairs it
  collects (`AfterRound`): all old pids end up in a pair or unchanged, all new ones too (`ChangesAreFound`); from that
  `ChangesLeadOn`: who knew one version and takes over the changes knows the next.  `ChangesInv` carries it through the steps: the
  section compared with is the one listeners know, since a PMT that was not selected never replaces it.
* *Software demux.*  `SectionsInv` says what is in transit: every buffer and message holds units of the stream, every packet cut
  out of them begins with a head, the section buffers of a pid with sections begin with the cell at the head of one of its own packets
  (so it can be read as a header whatever was lost), no such pid is also in the table of PES streams.  `Cut` and `feedTs` are followed round by round.
* *Frames.*  `UnitsAreCut` takes the loops of `ElementaryStreamQueue` one by one: cells only move from the front of the buffer to a unit, or are
  dropped.  Of H.264 and H.265 the units are made of whole NALs; zero bytes between them are in no unit.  The buffer begins with a start
  code or zero bytes in front of one, and no range ends in zero bytes (`Framed`), so what stays behind a picture lies in the range of the next.  `OrderInv` puts one place m into the stream: what was parsed is from before m, and in each stream what came out lies before what its
  PES buffer and its queue keep; what waits in the remainder, a chunk or a message comes behind m.  A flush only throws away.
* *Clean streams.*  `CleanInv` says that, while nothing was lost, the parser and what the filters got are `FedWhole` of a number of whole packets,
  and the rest of what was sent waits in one row: the half packet kept back, then the chunk, then the messages in their order.  The parser is entered for
  the pids of all filters before the first packet, as the run does.  `CutsMakeNoDifference` follows, and from it `CleanStreamsArrive`.
  For `CleanFramesTimely` an induction along that row of packets shows that a PES buffer is what `PesUpto` says, from the header of
  the last PES packet that started, so that a premise about the stream is one about the payload, and that the ranges of the queue are in step with its buffer (`Stamped`).
* *Codec layers.*  `BaseInv`, `CtcInv` and `TvInv` relate members to what the library has, through every failure.  `TsInv`
  follows each buffer from the writer to the feed and the decoder, with stop at the flush and at the
  join; indices rise, so none is given twice.  `PackInv` is closed arithmetic: `PacketsAddUp` follows by
  induction over the rounds of `packetize`.
* *Hardware demux.*  `BooksAgree` speaks of quiet moments.  The invariant says what is owed in between: `Books` which
  context has a channel, which channel a request and which request a descriptor of the kernel, less what a thread
  has taken out; `ThreadInOrder` where a thread is with it; `Owners` that only one thread holds each.
* *DVR and CAS.*  `DvrInv` follows one caller through the library calls of `start`, at each of which it may fail; `RecInv` says what
  the table, the tape and the list asked for have in common, by induction over the rounds of the two loops of
  `setStreams`; `CasInv` counts strong references against client and event thread; `IptvInv` says that
  the ECM kept for comparison is one the plug-in took or refused, and the rounds of `checkEcmProcess` keep it.
* *Media player.*  `AgreeInv` says, for the client inside a method, how far the plug-in has come with its script; `WindowInv` does so for
  the window.
* *Event looper.*  `LoopInv`: the queue is sorted by (time, number of post), what was delivered last is before it, and of each
  thread, lock and condition variable who may be where.
* *Runtime.*  `RefInv` counts the pointers of all threads (as a set of pairs, whose cardinality is the count)
  and adds the bias until the first reference has taken it off.  `FifoInv` says which chunk holds which bytes
  of the counters' difference; the steps refine `ByteQueue` at the store of a counter.  `MessageInv` counts the pairs of a message and an item
  that refers to an object.

Loops are recursive functions of the number of rounds; what they compute is proved from the least
round at which it would be false (`LeastExists`), which the well-foundedness of the naturals gives without
an induction rule.

### Only model-checked

* Liveness, which needs ENABLED and fairness and is outside the prover: `PreparationEnds`, `StreamIsAccepted`, `AudioStopEnds`,
  `CloseReturns`, `WaitersLeave`, `MethodsReturn`, `EverybodyIsServed`.
* `FramesTimely` of `SwDemux`, the timestamps once something was lost: the continuity counter has four bits, and the head of a packet is completed with
  whatever comes next, so a loss may pass unnoticed and a frame get the timestamp of the PES packet before.  For all streams and losses it
  is no invariant; on the run's streams and losses it holds.  Of MPEG audio (`fetchTimestamp` after dropped data) it is only checked.
* `SectionsInOrder` of `SwDemux`.  Its proof would follow `parsePID` as that of `FramesComeInOrder` follows `onPayloadData`.
* `ArrivesWhole`, the hypothesis of `CleanStreamsArrive`, for a given stream: what seven recursions over its cells compute.  The run
  `Demux` shows it of its streams: it checks `CleanStreamArrives`, and by `CutsMakeNoDifference` what was delivered then is `FedWhole`.

## 5. Disagreements found

Two have a run of their own.

`StopRace`.  A start that enters while another thread's stop has given up
`mLock` is undone halfway: its streams stay STARTED in an IDLE object without a codec layer,
where the comment at `Aml_MP_PlayerImpl.cpp:400` has streams stopped unless the object is up.

`LateEnd`.  `notifyListener` of the media player sets COMPLETED without `mLock` and without looking at the
state (`Aml_MP_MediaPlayerImpl.cpp:731`).  Nothing in the repository makes a plug-in wait for its event thread in stop, so an end of
stream delivered during `stop` overwrites STOPPED, and the next `start` goes through to a plug-in that is not
prepared; the comment in `start_l` (`Aml_MP_MediaPlayerImpl.cpp:245`) says "must call prepare() when in STATE_STOPPED".
The properties of the run `MediaPlayer` hold for both kinds of plug-in: `late` remembers that an end of a
playback that was over was the last to set `mState`, and they except what follows from it.

The rest was met while modelling.  The runs keep such cases apart by a constant, a
precondition or an outcome that ends the behaviour, so that they do not hide other things.

In the player:
* `reset_l` keeps `mPrepareWaitingType`: a preparation for the codec that was stopped makes the next
  one, which waits for an ECM only, wait for ever (`PlayerWhole`'s `PreparationEnds` asks only for what the parser looks for).
* A stop or flush while `drainDataFromBuffer_l` is inside the codec layer resets the range of
  `mWriteBuffer` to (0, 0); the drain then subtracts what was written from a size of 0, and the
  sum that `setRange` asserts wraps to 0 and passes (`session.clean` is FALSE from then on).  The
  same stop leaves `doWriteData_l` with a null `mPlayer`.
* In PREPARING `writeData` returns what the demux took though all of it is buffered, so a client
  that repeats what was refused writes it twice.
* `stopADDecoding` on a PAUSED player ends the decoder it shares with the main audio and does not
  restore it; `start()` during a preparation leaves streams without parameters START_PENDING, so
  stopping the last real stream does not end the playback; `switchSubtitleTrack` starts a stream of
  a PAUSED object; a pause that comes while PREPARING is forgotten.

In the codec layers:
* The feed's thread keeps the object above it alive through a strong pointer, and is kept by it.
* `mAudioContinuityCounter` is never initialised; `packetize`'s result does not tell how much it made
  room for.  `PacketsAddUp` starts from a counter that is one.
* CTC: calls before the first start are lost for a null player; a rate loses its decimal part.
* TV: stop, pause and resume follow the pointers of both streams; a player of one stream only dies
  in them.

On the demux side:
* The poll looper calls back with the address of `FilterParams` another thread may have freed;
  `removeMessages(handler)` erases nothing.
* Two threads that ask for one pid lose a filter with its channel and its descriptor.
* `getStreamTypeInfo` gives null for private stream types, and `checkPidChange` follows the pointer.
* Frames of MPEG audio that are dropped keep their timestamps: once something was lost the next
  frames get older ones, so `FramesTimely` leaves MPEG audio out after a loss.
* `getNextNALUnit` strips zero bytes from the end of a NAL unit, and a picture is taken up to the end of
  its last one.  Where a PES payload ends in zero bytes these stay in the queue with the last of its range, and
  the next H.264 or H.265 frame gets its timestamp, with nothing lost (the transport `ZeroEnd`).  So
  `FramesTimely` speaks of these codecs only where no payload of the stream ends in zero bytes.
* The version of section 0 stands for all sections of a table; those with a higher number are
  dropped as known, so the model's tables have one section each.

DVR and CAS:
* No method of the DVR player takes a lock: two threads that stop it use a handle that is gone.
  `SessionServesItsClient` is stated for one thread.
* A list of pids that names one twice makes the recorder's record differ from the tape (`Repeats`
  = TRUE violates `TapeIsTheList`); a recorder started without pids returns 0.
* A CAS library terminated and initialised again does nothing the second time (a once flag).
* `checkEcmProcess` may take a byte of payload for a sync byte.

Runtime and media player:
* The move assignment of a weak pointer forgets the reference it held.
* A volume set on the media player before `start` is kept and never passed on; the comment in
  its `start_l` that PAUSED is allowed contradicts the check above it.

## 6. Not modelled

* `AmlTunerHalDemux`: its callbacks come from the tuner service, whose order of calls the repository
  does not tell.
* `AmlWVIptvCas` V1: the build leaves it out.
* Of the player object: the setters that remember a value and hand it on, getters, the call that ends
  `setPlaybackRate` (`Aml_MP_PlayerImpl.cpp:601`: the rate goes to the codec layer, which starts and stops no decoder for
  it; its own half is `TsCodec.RateCall` and `CtcPlayer.setPlaybackRate`), the callback
  of the client (`notifyListener`, which calls with `mEventLock` held).
* The error return of `switchSubtitleTrack` (`Aml_MP_PlayerImpl.cpp:662`): `AmlPlayerBase::switchSubtitleTrack` answers 0
  whatever its calls gave, and no layer overrides it, so the stream is STARTED even if the subtitle did not start.
* Byte layouts: tables and PES headers are reduced to their fields, start codes to what they say;
  checksums are right for what was sent and nothing else.
* `AmlMpMessage`'s parcels and printing, the roster of handlers, `AmlMpFifo`, configuration, signal
  handling, sysfs, conversions, logging: no state that a property would be about.
* The JSON library (third-party), tests and demos.

## 7. Plan

The plan is carried out: every subsystem of section 1 is modelled and checked but for what section 6 names, and each
safety property of a passing run but `SectionsInOrder` is stated by a theorem of section 4, with the hypotheses named there.  What is
not proved is under "Only model-checked" in section 4.

Modules meant for proofs use no RECURSIVE operator; data is abstracted to what the
properties tell apart; an `MC` module holds what only TLC needs.
