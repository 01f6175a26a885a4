# Verification of mozzy

TLA+ models of the `mojizo` firmware (`src/firmware`, Zephyr on an nRF52840)
and of the `mojio` phone app (`src/app_mobile`, Flutter), TLC configurations
that check them on small instances, and TLAPS proofs for every instance.

The device is a wearable recorder. It captures microphone audio, encodes it
with Opus, writes the packets to an SD card and, at the same time, can stream
them over Bluetooth. The phone starts and stops recordings, gives the device
the time, copies the recordings off the card while they grow, cuts them into
chunks and uploads the chunks to Google Drive.

## 1. Inventory

### Firmware

| component | state it keeps | operations | hard behaviour | what makes it correct |
|---|---|---|---|---|
| recorder `wr_recorder.c` | packet queue, 1 KiB write buffer, packet and checkpoint counters, file handle and path, `recording_active`, pause/resume/sync flags, time-sync pair | `submit_opus` (codec thread), `pause`, `resume` (BLE RX and button threads), `set_sync_time` (BLE RX), `start` (SD worker), `record_entry` (own thread) | four threads, flags set in two steps, a packet in hand across a file change, failing `fs_*` calls, power loss between checkpoints | recordings do not mix; no packet vanishes uncounted; a crash costs at most a checkpoint interval; requests take effect |
| button, deep sleep `wr_button.c` | press timing | short press toggles, long press sleeps | fixed 600 ms wait for another thread | power goes only with the file committed |
| recording control, time sync `wr_rec_control.c`, `wr_time_sync.c` | sleep work item | GATT writes | run in the cooperative BLE RX thread, preempt the recorder | as the recorder's |
| boot `main.c`, `sd.c`, `boot_cmd.c` | one-shot format request, watchdog channel | mount, `sd_worker`, format | the recorder thread exists only after a mount | format runs once; a resume is served |
| storage service `wr_storage_service.c` | command queue (4), `abort_requested`, notification credits (16), transfer state | LIST, FETCH, STATUS from its thread; ABORT from BLE RX; notify-complete callback | abort racing a dequeue, credits lost or created, notifications refused by the stack, errors sent from BLE RX into a transfer | every request ends with END or ERROR; credits are conserved; data is a contiguous slice |
| audio `wr_audio.c`, `wr_codec.c`, `wr_ble_audio.c` | PCM queue and slab, failure counter, 16-bit packet id | capture thread, codec thread, notify | DMIC stalls, restart, reboot | blocks are conserved; recovery is tried before the reboot |
| gain, battery `wr_gain_control.c`, `wr_battery.c` | level; log buffer | GATT read/write; sampling | boundaries of tables | monotone maps, buffer never overrun |

### App

| component | state it keeps | operations | hard behaviour | what makes it correct |
|---|---|---|---|---|
| storage client `wr_storage_client.dart` | one subscription, one request at a time | list, fetch, window, status, abort, close | late notifications of a request that timed out are taken for the next one's | a fetched window is what the card holds |
| SD sync `wr_sd_sync.dart` | cursor per file, pending bytes, chunk index, outbox, done flags, all persisted step by step | drain loop, closed files, chunk emission, upload loop, stop | app killed between two writes; stop running into the loop; a file skipped or flagged done too early | every byte is uploaded once; a file is marked done when all of it was fetched |
| Drive uploader `wr_drive_uploader.dart` | uploaded markers | upload, update, sync pending | crash between upload and marker | no file lost |
| BLE session, live audio `wr_ble_device.dart`, `wr_packet_sink.dart` | connection, last packet id | connect, monitor, write WAV | 16-bit ids, device reboots | losses counted right |
| schedule `wr_sync_schedule.dart`, dumps `wr_opus_decoder.dart` | settings | `shouldStart`, `framesFromDump` | midnight, truncated records | match a reference definition |

### Interaction

codec thread -> `record_queue` -> recorder thread -> SD card -> storage
service thread -> BLE notifications -> storage client -> SD sync -> chunk files
-> uploader -> Drive. Control flows the other way: recording control and time
sync are GATT writes that set flags the recorder thread polls once per turn;
LIST/FETCH/STATUS/ABORT are GATT writes that the BLE RX thread queues for the
storage thread.

## 2. Plan

In the order in which the modules were written; all of it is done.

1. The recorder: `SdCard`, `Recorder`, the abstract `RecordingLog` it
   implements; types, session isolation, no silent loss, append-only files,
   bounded crash loss and the refinement, checked and proved.
2. The storage service: `StorageService`; types, credits, abort ordering and
   the slice checked and proved.
3. `StorageSession`, the phone's client composed with the service over one
   notification stream: timeouts, late answers, two sessions at once.
4. `SdSync` with the abstract `ChunkStream`: cursor, pending bytes, chunks,
   kills at every step, `stop` interleaved with the loop.
5. `UploadQueue` and `SyncSchedule`: outbox, uploader, when to pull.
6. `AudioCapture` and `LiveAudio`: stall recovery, gain, packet ids.
7. `BatteryLog`, `BootCommand`, and the pure functions (dump framing, gain and
   discharge curves).
8. Proofs for each of these: every safety property that a passing run checks
   is a theorem.

What would come next: two sync objects that fetch at the same time.

## 3. What is modelled

| module | models | state |
|---|---|---|
| `SdCard` | Zephyr's `fs_open`, `fs_write`, `fs_sync`, `fs_close` and a power loss, as `wr_recorder.c` uses them (external: FatFs is not in `src/firmware/src`) | files with what a reader sees (`live`) and what is committed (`disk`), the one write handle |
| `Recorder` | `wr_recorder.c` and all its callers: codec thread, `wr_rec_control.c`, `wr_time_sync.c`, `wr_button.c`, `sd_worker` of `main.c` | the C file's static variables under their own names, plus `pc` and `hand` for the recorder thread |
| `RecordingLog` | abstract: the recording in progress is a log that only grows | `on`, `log` |
| `StorageService` | `wr_storage_service.c`: control writes, subscription, credits, drain, LIST/FETCH/STATUS | the C file's static variables, `spc` and the handlers' locals, the notifications in flight |
| `StorageSession` | `wr_storage_client.dart`, and what the storage page and the sync do with it; EXTENDS `StorageService` | per session: where it stands, the operation, what it heard, its completer |
| `ChunkStream` | abstract: every recording leaves once, in order, in chunks of a fixed size | `got`, `chunks` |
| `SdSync` | `wr_sd_sync.dart`: fetch loop, cursor, pending bytes, chunks, `stop`, kill and restart | what the phone stores, the object's fields, what each coroutine has left to run |
| `UploadQueue` | the upload loop of `wr_sd_sync.dart`, `uploadIfNew` of `wr_drive_uploader.dart`, the recordings page's uploads | outbox, Drive, stored marks, and per uploader its `pc`, file in hand and marks read |
| `SyncSchedule` | `shouldStart` of `wr_sync_schedule.dart` and the turns of `_loop` around it | settings, last day served, the pull under way |
| `AudioCapture` | `wr_audio.c` and `wr_gain_control.c` | slab, filled blocks, PCM queue, failure counter, gain in use, stored, and readable |
| `LiveAudio` | codec thread, `wr_ble_audio.c`, `wr_ble_device.dart`, `wr_packet_sink.dart`, `framesFromDump` of `wr_opus_decoder.dart` | packet id, notifications in the air, listener, last packet, loss count, dump |
| `BatteryLog` | `wr_battery.c`: log buffer and file, discharge curve | buffer, file, "fresh" flag |
| `BootCommand` | `boot_cmd.c` and what `main.c` makes of the retained register | line buffer, register, where `main` stands |
| `MCRecorder`, `MCStorageService`, `MCStorageSession`, `MCSdSync`, `MCParts` | nothing: model values, constraints, and the sum described below | |
| `RecorderProofs`, `LogProofs` (recorder), `StorageProofs` (service and session), `SyncProofs`, `StreamProofs` (sync), `AppProofs` (upload, schedule), `DeviceProofs` (capture, battery log, boot command), `LiveProofs` (live audio) | nothing: the proofs | |

### Recorder

One turn of `record_entry` is the cycle of `pc` values `get`, `pause`,
[`flush`, `close`, `deactivate`,] `resume`, [`begin`, `epoch`, `open`, `reset`,
`activate`,] `work`, [`checkpoint`, `sync`]. Each action stands for the
statements from one label to the next point at which another thread can see
or change something the turn still uses; `apply_pause_resume`,
`make_record_path`, `open_new_record_file`, `append_packet` and
`checkpoint_file` are cut in this way. The first file is opened by the SD
worker before the thread exists; it runs the same code, so the model lets `pc`
start at `boot` and join the cycle at `begin`.

The firmware has one core. BLE RX and the system work queue are cooperative:
their handlers are one action (`BlePause`, `BleResume`, `BleSleep`,
`SetSyncTime`). The button thread (priority 7) preempts the recorder
(priority 8), and BLE RX preempts the button thread between the two
assignments of `wr_recorder_pause` and `wr_recorder_resume`: `BtnBegin`,
`BtnFinish`. The codec's `Submit` can come at any step.

Abstractions. Packets are records of one size, so the 1 KiB buffer is
`BufferRecords` records; what a failed write leaves of a record is a
`Fragment`. Time counts seconds. The 600 ms of `enter_deep_sleep` are
`SleepTurns` turns of the recorder thread, at least two because two idle
timeouts of 250 ms fit: the code relies on the thread getting that far, and so
does the model; a thread that the wait does not cover loses its file in the
code as well. A power loss keeps committed
lengths, mixes old and new sectors inside them, and can take a directory
entry that was never committed. Statistics other than `dropped_packets` and
log output are left out.

### StorageService

`StorageThread` is the storage thread, one action per notification or per
read of what other threads write: taking the command and clearing the abort
flag are two actions, because BLE RX runs in between. `WriteControl`,
`WriteNonsense`, `RxError` and `WriteAbort` are `write_control`; `RxError` is
its call of `notify_error`, which can wait for a credit. `Subscribe`,
`Unsubscribe` are `storage_ccc_changed`; `Complete` is
`storage_notify_complete`. Of the Bluetooth stack the model assumes that
notifications complete in order, that a disconnect clears the subscription,
and that of those in flight at a disconnect some may never complete.
`storage_notify` is `Notify` (sent, or silently not sent without a
subscriber) or `NotifyFails` (refused by the stack for 5 s, or 5 s without a
credit). Handler parts that send nothing are joined to the next step.

A file is a number of chunks, each what one DATA notification carries;
offsets and lengths count chunks. The recorder appears as `Record`: files
come, their committed size grows, and nothing removes them. FETCH takes the
size it announces with `fs_stat`, then opens the file and reads to the end of
the file as it was opened, so a checkpoint in between sends more than was
announced (the comment at `wr_storage_service.c:293` speaks of the size that
`fs_stat` reports); a checkpoint after the open is not seen by that handle. Four bytes of size
in the STATUS payload and the content of files are left out.

### StorageSession

A session listens to the characteristic, writes a request, waits for the
completer. Requests are numbered in the order written, 0 before the first.
`Deliver` hands the oldest notification to every session that listens, as a
broadcast stream does: the notification carries no request number, so a
session takes what it hears. `Recording` is the service's `Record`: the
recorder goes on between any two steps of the phone and the service. `abandoned` counts operations that
timed out or were closed over while the device was still answering; `alone`
is history, and true of an operation begun on a quiet device during which no
other session wrote or closed. `close` unsubscribes the one characteristic
for both sessions. `fetchFile` of a legacy device is the fetch of the whole
file. `abort()` is not modelled: nothing in the app calls it.

### SdSync

Two coroutines share one object. A step is the code between two `await`s;
`plan` holds the steps each coroutine has left, so that a call such as
`_flushPending` or `_persistPending`, made from several places, is written
once and its continuation is what follows in the plan. The caller's copy of
`_pending` is in `job`: that copy, and `name` read again after an await, are
what the interleaving of `stop` with the loop turns on.

Data of a recording are its positions 1, 2, ...; a record is two of them, a
length and a payload, so a chunk boundary that does not fall on a record, or a
payload read as a length, can be seen. `Kill` may come at any step, also in
the middle of a file write. `ReuseName` is a card formatted while the phone
keeps its cursor. `legacy` is a firmware without STATUS and windows, for which
the code falls back to whole files. The upload is one step here and
`UploadQueue` has the steps; the schedule is taken as continuous here and
`SyncSchedule` has the schedule.

### UploadQueue and SyncSchedule

Each sync object runs an upload loop, and `stop` only asks it to end: the old
loop may be in an upload while the next object's loop begins. The recordings
page is a third uploader. `uploadIfNew` reads the stored marks, asks Drive,
uploads, and writes back the set it read together with its own mark. A chunk
file exists before it is written (`FinishWrite`), and can be written again
under its name. File length and marks are read in one step; `wifiOnly` stays
as it is within a behaviour, automatic upload and the Wi-Fi come and go.

Time in `SyncSchedule` goes in slots; the loop looks at its schedule at least
once per slot. A pull throws, brings something, or finds everything fetched,
and lasts as long as it likes, past midnight too.

### AudioCapture, LiveAudio, BatteryLog, BootCommand

`AudioCapture` follows a DMIC block from the slab through the driver, the
capture thread's copy and back. The driver is external: it stalls, has no free
block, or fails to start. A gain write is three steps, the level the phone
reads, the stored gain, the microphone (`WriteGain`, `StoreGain`,
`ApplyWrite`), and the capture thread's start is three too: it reads the gain,
stores it, applies it. The two interleave, which is finer than BLE RX, a
cooperative thread, needs; the start is cut where BLE RX can preempt it.

In `LiveAudio` a notification carries its id modulo `IdSize`, the index of
its part in the Opus packet, and, for the properties, its number since boot
and the boot. Payload bytes are left out: no payload is taken for a header.
The decoder's `framesFromDump` is a recursive function over the dump.

In `BatteryLog` a line is the number of its sample. `BootCommand` types
characters of a small alphabet, with short command words that keep the
relations between the real ones and the buffer's size.

These components and the two of the app share no state but what a reset
clears, which each of them models. So `MCParts` is a sum, not a product: `part`
picks the component that runs, and one run covers all of them without a product
of state spaces that no property needs.

## 4. Runs

| run | checks | shows |
|---|---|---|
| `recorder` | `TypeOK`, `HandleOpen`, `SessionIsolation`, `NoSilentLoss`, `DeepSleepCommits`, `ImplementsRecordingLog`, `RecFilesAppendOnly`, `CrashLosesAtMostOneInterval` | all threads interleaved, one failing fs call, power loss at any step and a second boot on the same card: recordings do not mix, every accepted packet is stored once in order, deep sleep commits, the file is one growing log, a crash costs at most one interval, the name scan never hands out an existing `rec_NNNN` file |
| `recorder_live` | `PauseTakesEffect`, `ResumeTakesEffect`, `PacketsReachTheCard` | requests take effect, accepted packets reach the card although nothing but the idle timeout may write them |
| `storage` | `TypeOK`, `FetchIsTheSlice`, `CreditsAccounted`, `AbortHitsOlder` | a FETCH is one contiguous slice with no hole before its END, no path loses a credit, an ABORT never hits a later request |
| `session` | `FetchReturnsTheSlice`, `ListReturnsOwn`, `ListIsComplete` | from the card to the value `fetchWindow` returns, with a second session and the recorder writing: an operation begun on a quiet device and undisturbed by the other session returns the slice, whatever happened before; a list has no foreign entry, and misses no closed file unless a notification was refused |
| `session_live` | `CallReturns`, `RequestIsAnswered`, `CreditsComeBack`, `AnswerIsTheLast` | every request is answered or aborted and every waiting operation completed by the device; LIST and STATUS restore what a disconnect took; an answer is the last thing its request sends |
| `sync` | `SyncTypeOK`, `DoneMeansFetched`, `BoundedKillLoss`, `StreamWhileUndisturbed`, `BacklogDrains` | what is marked done was fetched, a kill costs at most what was pending and the chunks cut since the index was last saved, undisturbed the chunks are the recording cut in order, no recording waits for ever |
| `parts` | `GainAgrees`, `LossIsCounted`, `DumpSplitsIntoPackets`, `LogHasNoHole`, `FormatOnlyWhenAsked`, `CaptureRecovers`, `NothingLost`, `OneCopyUnlessCut`, `OutboxDrains`, `EveryDayIsServed` | on the device: gain writes against the start of the capture; stalls and recovery; live packets into the loss count and the decoder's frames; the battery log over a card that comes late; format requests against resets. On the phone: a chunk leaves the outbox only for Drive, copies on Drive have a cause, the outbox drains, every scheduled day is served |

`MCParts` also states three facts about pure functions as assumptions that
TLC evaluates over all inputs: a level survives the way to a gain and back, the
level reported is the nearest, the percentage rises with the voltage.

Five runs end in a counterexample to what a comment says:

| run | property | what is written | what happens |
|---|---|---|---|
| `fresh_file` | `ResumeOpensFreshFile` | `wr_recorder.c:271` "resuming opens a fresh file" | stop and start within one second after a time sync reopen the same `<epoch>` file and write over it |
| `late_answer` | `NothingStale` | `wr_storage_client.dart:41-43`, operations avoid "stale cached notifications from a previous operation" | after a timeout the next window takes the late DATA and END of the old request for its own |
| `stop_tail` | `StopKeepsTheTail` | `wr_sd_sync.dart:206` "Flush the trailing partial chunk so the tail isn't lost" | the flush works on a copy of `_pending`, and what the loop appends during its await is forgotten, with the cursor past it |
| `chunk_names` | `EachChunkIsKept` | `wr_sd_sync.dart:62-63` "slices the byte stream at Opus frame boundaries into fixed-duration chunks and uploads each once" | two chunks of a `rec_NNNN` file cut in the same second get one name, and the later is written over the earlier |
| `lost_packets` | `LostWereDropped` | `wr_ble_device.dart:75` "Cumulative count of dropped packets inferred from gaps in [packetId]." | the live monitor is switched off and on: `lastValueStream` tells the new listener the last packet again, its id did not advance, and 65535 packets are counted as dropped although none was |

### Observations without a run

Read off the models while building them.

Firmware:

- `wr_recorder.c:71` "name each file by its start epoch": a time sync between
  the two reads of `make_record_path` names a file by a future time.
- `wr_recorder.c:60` "current file already <epoch>-named": the flag is set on
  a file that keeps its `rec_NNNN` name.
- `wr_button.c:44` "time to flush + close the SD file before we cut power": a
  resume request in the 600 ms cancels the pause. `DeepSleepCommits` excepts
  this case.
- `wr_storage_service.c:166` "until all in-flight notifications have
  completed": the drain's waits time out and it returns all the same.
- A capture thread whose first start of the driver fails returns and is not
  started again before a reset.
- A gain written while the capture thread starts, between its read of the
  gain and its use of it, is in force on the microphone or not, and stored or
  not, independently. `GainAgrees` excepts it as `raced`.
- `wr_battery.c:79` "reset once per boot": the flag is set when the flush
  cannot open the file, too, and the log begins anew at the next one.
- `boot_cmd.c` begins its buffer again when it is full, also in the middle of
  a line: the end of a long line can be a command.

App:

- `wr_storage_client.dart:119` "Lists all completed `.opus` files": an entry
  the stack refused is dropped, and the list still ends with END.
- `wr_storage_client.dart:370` "Aborts any ongoing transfer": an ABORT between
  the dequeue and the reset of the flag is lost.
- With two sessions open, each takes the other's notifications for its own,
  and the `close` of one ends the notifications of both. `alone` excepts it.
- A device that reboots numbers its packets from 0 again: the loss count then
  says nothing of what was missed. `LossIsCounted` excepts it as `strange`, and
  a packet heard twice, the case of `lost_packets`, as `repeated`.
- `wr_sd_sync.dart:307`: a chunk is in the outbox before it is written; the
  upload loop can read a half-written one, upload it and delete it.
  `NothingLost` excepts chunks read so.
- `uploadIfNew` skips a file whose name and size are marked, also when its
  contents are others. `NothingLost` excepts chunks that share a name.
- Uploads and pulls end with a Bluetooth disconnect, and begin again when the
  device page is opened.
- A tap on "upload" that finds no Wi-Fi is forgotten.
- `wr_sync_schedule.dart:7`: a pull that ends after midnight, or one started by
  hand earlier in the day, marks the day as served.
- A pull started by hand in manual mode makes one pass only once it has
  brought something, and is not tried again when its first pass throws.

### Bounds

*Recorder*: queue, buffer and checkpoint interval of 2, so that each fills,
overflows and is due in every combination with three packets; two names
`rec_NNNN`, so that the scan skips one and runs out; two requests (three with
liveness), enough for a pause racing a resume from the other thread; one
failing call, which every error path needs once; one crash, with a second
boot. `MaxTime` 1 gives a time sync a moment before and after it. The 600 ms
of deep sleep are two turns of the recorder thread: with one, the thread may
be past the place where it looks at the request.

*Storage*: two credits, so that the drain is cut between takes; a queue of
one, so that the second request finds it full; files of up to two chunks and
windows that start, end or cut inside them; two requests, so that an ABORT, an
ERROR or a stale stream meets a later command; one connection, one fault.

*Session*: two sessions, two requests (the whole of `f1`, its second chunk
alone, or a list), one trouble: a refused notification, an operation given up,
or a disconnect (`OneTrouble`; two at once are left out). `f1` is created,
grows to two chunks and is closed under the reads, so that a window begins
before, at and behind the end of the file, and a stream of two chunks can have
a hole, begin at the wrong place and be cut; `f2` is for the lists, closed and
there from the start or not. `RecordWhereRead` moves the recorder's steps to
where the service looks at the card: everywhere else they commute with all
other steps. `SessionView` drops what no step depends on, the history of the
service and what a session that does not listen collected, but for whether the
properties hold of it. The sessions are interchangeable in every action and
in the properties, none of which is one of liveness, so `SYMMETRY Sessions` is
sound. The run with liveness has one file, one session and two connections, and
no refusals: with one a reply may be lost, and nobody repeats it.

*Sync*: two recordings, one epoch-named and one `rec_NNNN`; up to five records,
two records to a chunk and a window of 3 positions, so that windows end inside
records and chunks span windows; at most two windows to a pass; saves of the
pending bytes every second window; one fault of each behaviour's choice (kill,
`stop`, failed request, reused name). Two action constraints thin out
interleavings. `OnlyWhenSeen`: the device moves only just before a request
that sees it, and an upload only where a chunk of that name is about to be
written or on Drive already. Both are moved over steps they share no variable
with, so no behaviour the properties can tell from another is lost: the
properties speak of the phone's state, and of the device's sizes only at the
loop's decisions. `Instance`: recordings have the sizes a window, a chunk and a
pass tell apart, and the clock has two seconds.

*Parts*, of the device: two blocks and a PCM queue of one, so that each runs dry
and is full; the order of the thresholds (restart before reboot); ids modulo 3
with a gap of 2 and two notifications in the air, so that ids wrap with packets
of the turn before still on the way; lines of two lengths over a buffer of 5,
so that it overflows before and after the flush is due; a line longer than its
buffer. Of the phone: two sync objects and the recordings page; chunks and
upsets together at most three (`Bounded`), chunks of one size that may share a
name; three days of four slots, so that a pull can end on its day, on the next
and on the one after.

`Max...` constants, `Instance` and `Bounded` bound the environment only.

Deadlock is checked in `sync`, `stop_tail`, `chunk_names`, `parts` and
`lost_packets`; in the last two the phone's components may rest (`Rest`), as
the days come to their bound and a user may stop everything. The others have
`CHECK_DEADLOCK FALSE`: the device may be switched off, a boot without a card
starts no recorder thread, a phone may never come back.

### Fairness

`LiveSpec` of `Recorder` has weak fairness of the recorder thread and of the
button thread: both are ready or wait for an event with a timeout, and no
thread above them spins. BLE requests, packets, faults and time are not fair.

`SessionLiveSpec` has weak fairness of the storage thread, of BLE RX inside
`notify_error`, of the delivery of notifications (a connected link goes on
sending) and of each session's write of its request. `RequestIsAnswered`
excepts a phone that is not subscribed when its command is taken (the reply is
dropped, as the code says) and the time in which a disconnect has taken
credits away: until a LIST or STATUS drains, every FETCH is refused.

`SyncSpec` has weak fairness of the loop: its timers and requests return or
throw. `BacklogDrains` gives up only for files the loop has given up itself
and for an object that was stopped. `CapSpec` (and the `part` of it in
`MCParts`) has weak fairness of the capture thread, which waits for a block
with a timeout. `UploadSpec` has weak fairness of the loops' steps and of a
write in progress; that a request to Drive succeeds is not assumed, the upsets
are bounded.

## 5. Proofs

The proofs assume only what the `ASSUME`s of the modules say: sizes are
positive naturals, bounds are naturals, two idle timeouts fit the wait of a
deep sleep, there are finitely many upload loops, `None` is not a file and not
a number. Neither the bounds' values nor the runs' instances matter. Each
inductive invariant was an invariant of a run before it was proved.

*Recorder types and handle* (`SpecTypeOK`, `SpecHandleOpen` in
`RecorderProofs`). `TypeOK` alone is not inductive: a write is well-typed only
through an open handle, and the handle is open because of where the thread
stands. `TypeInv` adds `ControlInv`: which `pc` values go with
`recording_active` and with an open handle, and that `fs_open` gets a name
`make_record_path` made. There is one lemma per group of conjuncts, each with
one case per action; the fs calls have lemmas of their own.

*Session isolation* (`SpecSessionIsolation` in `RecorderProofs`). The
strengthening is `IsolationInv`: the queue holds packets of the current
session only (it is purged when the session number moves); the hand can hold
an older one only from the reset to the end of the same turn, and then
nothing is stored yet; of what is stored, the packets of other sessions are
all the same one. The argument is carried out on the set of stored packets,
so a flush that fails half-way and repeats records is a step to a subset plus
a fragment.

*What becomes of packets* (`LogProofs`). Four theorems over one idea: a turn
of the recorder moves packets along queue, hand, buffer and card.

- `SpecNoSilentLoss`: seen as one sequence, the pipeline from card to queue is
  left alone by every step but `Submit`, which extends it, and by failing
  calls, which end the claim (`LossInv`; `HandEmpty` says when nothing is in
  hand).
- `SpecImplementsRecordingLog`: what is still to come is in capture order
  (`InOrder`) and every id stored is older than it (`Older`); so a step that
  stores extends the log at its end, and a step that fails half-way repeats
  records the log already has (`FailsRepeats`), which is a stutter of the
  abstract log.
- `SpecRecFilesAppendOnly`: from the open to the close the handle of a
  `rec_NNNN` file stands at its end, and the name the scan hands out has no
  file (`AtTheEnd`).
- `SpecCrashLosesAtMostOneInterval`: the packets counted at the last
  checkpoint are on the disk (`OnDisk`), that count is a multiple of the
  interval, and `written` is ahead of it by less than an interval
  (`CheckpointInv`); a power loss leaves what is on the disk (`DiskSurvives`).

*Deep sleep* (`SpecDeepSleepCommits` in `LogProofs`). `SleepInv` follows the
pause that the request set: it is pending and no turn has begun in the wait,
or the first turn has and is about to take it, or it is being carried out, or
the thread is at rest with the file closed; with the second turn only the last
is left. No resume is pending, because the request cleared the flag and any
later resume sets `overridden`. `HomeInv` says that the last recording, once
closed without an error, is all on the card. The history variable `home` names
it: `record_path` itself may by then be a name whose open failed.

*Storage service* (`StorageTypeOK`, `StorageCreditsAccounted`,
`StorageAbortHitsOlder`, `StorageFetchIsTheSlice` in `StorageProofs`).
`OrderInv` adds that request numbers are bounded by the last one and that a
file being opened was found. `NotifyKeepsCredits` says that a notification,
however it ends, keeps free plus in-flight credits constant. For the slice,
`FetchInv` ties the place of the thread to how much was read (`FetchControl`)
and what was sent to it (`FetchChunks`): a notification that is refused ends
the transfer, so what went out has no hole.

*Client and service* (`SessionFetchReturnsTheSlice`,
`SessionListReturnsOwn`, `SessionListIsComplete`, `SessionAnswerIsTheLast` in
`StorageProofs`).
`SessionInv` is the service's invariant, the sessions' types, and two
descriptions of a session with the device: `AloneInv`, of one that began while
the device was quiet and was not disturbed (its request is queued or being
served, all that was sent is its answer so far, and what it heard is that
answer but for what is in the air), and `OnlyInv`, of one that is the only one
to have written a request (an answer's last notification is the last one in
the air). The theorems are read off at the moment the completer is called. The
recorder's steps are steps of the invariant like any other: what a fetch reads
is bounded by the file as it was opened (`Filled`), never by the card as it is,
and that is no less than the size announced. That a list is complete needs
three more invariants: the files that were closed when it began stay in the
directory (`ClosedInv`), each of them is sent or still to be read (`FullInv`),
and the drain is the only one to hold credits back (`DrainedInv`), which with
`CreditsAccounted` leaves one for every entry when nothing was refused or lost.

*Sync* (`SyncTypes`, `DoneIsFetched` in `SyncProofs`). A coroutine's place is
a list of steps, so the invariant begins with what such a list can be
(`InOrder`: which steps may be left behind which, hence that none is there
twice), and with the file that a list of steps is about (`VisitOK`).
`DoneInv` adds that no cursor passes the end of its file, that the file being
finished is closed (`ClosedOK`), and that `done` is reached with the cursor at
the end (`EndOK`), also for a firmware without windows (`RouteOK`).

*Refinement of `ChunkStream`* (`SyncImplementsStream` in `StreamProofs`).
`RestIsNext`: the bytes fetched of a file and not in a chunk are the ones that
follow its chunks, wherever they are: in memory, in the hands of a flush, or
in the saved file while another recording is open. `BoundaryOfRun`: cutting
such a run at `_chunkBoundary` gives a full chunk. Every step but a window and
a chunk is then a stutter; `Forced` says that a short chunk is cut at the end
of a closed file only.

*What a kill costs* (`KillLossIsBounded` in `StreamProofs`). That few bytes are
missing is not inductive: a kill may cost nothing at once and leave chunks
behind whose bytes are lost windows later. So each epoch-named recording has an
account (`DebtOK`) of three entries, together at most a chunk and two windows a
kill: the positions fetched and no longer anywhere (`Lost`); the chunks in the
outbox from the index on at which the cursor is, which the next ones of that
name will replace (`Stale`); the chunks on Drive whose name and size one in the
outbox has, or one still to be cut may get, which is then taken for uploaded
(`Clash`). Every step of the app moves bytes between the entries or leaves
them: writing a chunk over a stale one turns it into lost positions
(`WriteDebt`), an upload turns a stale chunk into a possible clash, and a clash
that happens into lost positions (`SentDebt`). Only a kill adds, and what it
adds was in memory: `own` are the chunks of the open recording cut since its
index was saved, known to be there and not named by any variable, so the
invariant says that there is such a set. With the bytes not in a chunk yet it
weighs less than a chunk and two windows (`OwnOK`), less than a chunk and one
window when no save of the index is due, and the kill books those in the outbox
as stale, those gone to Drive as clashing, and the rest as lost; a file that
was being written is there in part (`KillCosts`). `LossOK` has the
control this rests on: a flush is not interrupted, cuts from `pending`, and is
followed by a save of the index before the next file is loaded (`CutOK`,
`FlowOK`); the bytes not in a chunk stay fewer than a chunk and a window
(`RestOK`); the cursors of an epoch-named recording never pass its end, as a
format does not bring its name back (`NamedOK`). The weight of a set of chunks
is the number of its tokens (`Tokens`), which makes sums of sizes cardinalities
of sets. As the property, all this is about a phone that does not call `stop`,
which loses bytes of its own (the finding of `stop_tail`), and a firmware that
sends windows.

*Uploads and schedule* (`UploadNothingLost`, `UploadOneCopyUnlessCut`,
`ScheduleServesEveryDay` in `AppProofs`). A name that is marked, in storage or
in an uploader's copy, is safe: what it stood for is on Drive, or excepted; an
uploader that is about to delete holds such a name. For the copies, `CopyInv`
counts: the uploads made of a content and those begun, the `Taking` ones, are
paid for one by one (`Paid`), the next one is free only if the name is marked
or nothing was sent (`Account`), and at most `excused` uploaders are busy
beside the first at one file. For the schedule: when the loop sleeps past the
scheduled time, the day is marked; the slot of a day is unique
(`QuotientIsUnique`).

*Capture* (`CaptureGainAgrees`, `CaptureBlocksConserved` in `DeviceProofs`).
The level, the gain and the microphone agree but for where the starting thread
stands between its read and its use of the gain, and `raced` remembers a write
that fell in there. Every block is counted once: free, filled, or in hand.

*Battery log and boot command* (`BatteryLogHasNoHole`,
`BootFormatsOnlyWhenAsked` in `DeviceProofs`). File and buffer together are a
run of consecutive samples whose last is the newest. For the format: requests
are accounted for, in the register or in `main`'s hand and never in both; the
line buffer is the tail of what was typed.

*Live audio* (`LiveLossIsCounted`, `LiveDumpSplitsIntoPackets` in
`LiveProofs`). Packets in the air are in order and younger than the last one
heard (`AirInOrder`, `Behind`), so the gap of two ids is the gap of their
numbers (`GapOfIds`, from the uniqueness of the remainder) as long as it is
within one turn. A packet heard twice ends the claim. For the dump: the decoder goes on to the first later packet
whose id is within the gap, and in a plain dump the next one is
(`NextIsNext`), also where ids wrap; so its n-th packet is the n-th of the
dump.

*Induction over data.* The library's induction theorems cannot be used, but
well-foundedness of the naturals can (`WFMin`): the first number that fails
and the one before it (`AllNumbers` in `SyncProofs`, `LeastNumber` in
`LiveProofs`). It serves for what the recursive functions `Boundary` and
`FramesFromDump` compute.

Only model-checked:

- everything with fairness (`PauseTakesEffect`, `ResumeTakesEffect`,
  `PacketsReachTheCard`, `CallReturns`, `RequestIsAnswered`,
  `CreditsComeBack`, `BacklogDrains`, `CaptureRecovers`, `OutboxDrains`): out
  of the prover's reach.

## 6. Not modelled

By far the most lines of the repository are the vendored Opus 1.2.1 under
`src/firmware/src/lib`: signal processing without state the rest depends on,
and a third party's. Of what is the project's own, these are left out.

- Two fetch loops alive at once: `SdSync.Start` waits for the object before to
  come to rest, which nothing in the code guarantees. A second tap on the live
  monitor while the first is being set up.
- Payload bytes that look like a packet header to the dump decoder.
- The ADC and the BLE battery service, advertising and connection parameters,
  USB, the watchdog, and `ls`, self-test and format of `sd.c`: calls into
  libraries, one after another.
- User interface pages beyond what they do to sessions, syncs and uploads;
  sign-in, folder choice, listings and transcripts of Drive; the foreground
  service and other thin wrappers over the platform.
- The PC client, a sequential command line over the storage protocol.
