# Verification of the mPython board library's audio core, the firmware updates and the WiFi station

This directory holds TLA+ models, TLC configurations and TLAPS proofs about
`labplus-cn/arduino_esp32_v3_0_0`: a fork of the Arduino core for ESP32
(`cores/esp32`, `libraries/*`) with the mPython board library
(`libraries/DFRobot_Mindplus_MPython`) on top. The first part is the inventory
of the whole system; the second says which module models what; the third what
the runs and proofs show; the last what is left.

`PROJECT.json` maps every definition to the lines it stands for, names the runs,
the faulty variants that show that each property can fail, the hazards, the
findings and the theorems.

    cd tla
    tlc -workers 4 -config PlayBuffer.cfg MCPlayBuffer
    tlc -workers 4 -config AudioPlay.cfg AudioPlay      # and so on
    tlapm PlayBuffer_proofs.tla                         # and every other *_proofs

## 1. Inventory

### The board library

| Part | State | Operations | Who it interacts with |
|---|---|---|---|
| Playback ring buffer, `AudioPlayContext` (`Audio.cpp` 160-230) | ring `buf/head/tail/count/cap`, its mutex, the flags `stop`, `readDone`, `sourceReady`, `initOk`, `useFile`, the read task's handle | `playBufferWrite`, `playBufferRead`, create, free | the read task (core 0, priority 2) writes, the decode task (core 1, priority 2) reads, `stop()` sets flags and may free it |
| Playback control | `_playState`, `_playContext`, two task handles, `_playStopRequested`, `_playPauseRequested` | `play`, `pause`, `resume`, `stop`, `localReadTask`, `networkReadTask`, `playDecodeTask`, `waitWhilePaused` | application loop (core 1, priority 1), file system or HTTP client, the decoder library, the codec |
| Recording | `_recording`, `_recordStopRequested`, the two done flags, `_recordDataBytes`, `_recordFile`, `_recordRingbuf` | `startRecord`, `stopRecord`, `recordCaptureTask` (core 0, priority 3), `recordWriterTask` (core 1, priority 2), the WAV header | codec, FreeRTOS byte ring of 64 KiB, file system |
| Codec device | `_codecDeviceOpened` and its rate in `Audio.cpp`, `input_opened` and `output_opened` in `esp_codec_dev.c`, the I2S channels | open, close, read, write, volume | playback, recording, speech and recognition, without a lock |
| Text to speech | `_ttsInitialized`, `_ttsSemaphore`, one task per call | `ttsInit`, `textToSpeech`, `ttsTask` | codec device, recognition (which answers with a speech) |
| Speech recognition | AFE and model handles, `_srTaskFlag`, two tasks, `_srDoneEvent` | `srBegin`, `srEnd`, feed and detect tasks | codec device, recording, text to speech, closed esp-sr library |
| Format helpers | none | path normalisation, decoder type, WAV header bytes | pure conversions |
| Buttons, touch pads, buzzer | polling task state, melody task handle | callbacks, `Buzz::play/stop` | GPIO, LEDC, FreeRTOS |
| USB disk | sector cache of one 4 KiB erase block | host reads and writes | flash, TinyUSB |
| Display, LEDs, sensors | frame buffer, registers | drawing, I2C | no concurrency of their own |

### The core and its libraries

| Part | State | Operations | Hard behaviour |
|---|---|---|---|
| `Update` | buffer, progress, stashed first bytes, target partition | `begin`, `write`, `writeStream`, `end`, `abort`, `rollBack` | power loss between any two flash operations; abort in the middle |
| `ArduinoOTA` with `tools/espota.py`, `HTTPUpdate` | `_state`, `_nonce`, `_ota_port`, the TCP connection; the host's tries and counts | invitation, authentication, transfer, result | UDP loses, repeats and reorders; each failure has to give `Update` back; the result travels in the same stream as the acknowledgements |
| Network events | queue of 32, callback list, the interface's status bits | post, dispatch, add, remove | blocking post from the dispatching task; list changed while walked |
| WiFi station | `_status`, `first_connect`, reconnection | begin, connect, disconnect, reconnect, end, event handler | bits follow one queue, the status another, the sketch's orders neither |
| Network clients and servers | sockets | reads, writes, parsing | I/O |
| Peripheral manager | pin table, deinit callbacks | set, get, clear | callbacks that change the table |
| `Wire`, I2C drivers | bus lock, buffers | `beginTransmission` ... `endTransmission` | a lock held between two calls of the application |
| `cbuf` | ring, lock, peek byte | read, write, resize | a path that keeps the lock |
| RMT, LEDC, timers, SPI, touch, ADC | driver handles | configure, transmit | done flag cleared before a call that may fail |
| Serial ports, USB CDC | driver buffers, connection state | read, write | I/O |
| Strings, streams, hashes, file systems, preferences, Bluetooth, ESP-NOW, RainMaker, USB devices, Ethernet, PPP | - | - | sequential library code or wrappers of vendor stacks |

What makes each part correct, for the parts that are modelled or planned:

- ring buffer: bytes arrive whole and in order; the end of the stream is seen when
  it is there and not before; nobody waits for ever;
- playback control: a context is freed once, by someone, and used by nobody
  afterwards; one decode task at a time; the play state tells the truth;
- recording: the file is an unbroken beginning of the sound and the header counts
  it; a stop returns and loses nothing that was captured into the ring;
- codec device: one user at a time, or a user knows that it lost the device;
- speech: one voice at a time, and it is heard; the recogniser outlives its tasks;
- `Update`: a bootable partition always holds a complete image;
- over the air: the host's "success" is true; what is installed was authorised; every
  update that starts ends with one verdict and gives `Update` back;
- network events: every posted event is dispatched once to every callback that is
  registered; nobody waits for itself;
- WiFi station: once everything is handled, bits and status agree with the driver; a
  station that is meant to be connected is not left alone;
- peripheral manager: a pin has one owner, and its old owner was told.

The core of this repository's *own* logic is the audio library: six tasks on two cores
that share plain members, with bounded waits instead of joins. This is where the models
begin; the firmware update, on which a board in the field depends most, comes next, and
then the network it arrives through. The `hazards` of `PROJECT.json` list, line by line,
what can go wrong there and in the rest.

## 2. The modules

    BytePipe          abstract: a bounded pipe with an end
       ^ implemented by
    PlayBuffer        ring buffer and its two users, per byte and per load/store
       ^ extended by
    MCPlayBuffer      instance for TLC         PlayBuffer_proofs   theorems

    AudioPlay         contexts, handles, states of successive playbacks
    AudioRecord       recordings, their ring, file and header
    Speech            one codec device, its four users; speech and recognition
       ^ extended by
    MCSpeech          instance for TLC

    Updater           firmware update, the partition's flash and power loss
    Ota               device and host of a network update
    Station           event queues, callback list, WiFi station

Each of these six is extended by a module of theorems about it (`AudioPlay_proofs`,
`AudioRecord_proofs`, `Speech_proofs`, `Updater_proofs`, `Ota_proofs`,
`Station_proofs`).

`PlayBuffer` and `AudioPlay` look at the same two tasks at two scales. In
`PlayBuffer` there is one playback and a step is one copy of a byte, one load or
store of `count`, one test of `readDone` or of `count`. In `AudioPlay` a step is
a chunk, the ring is its fill level, and what is looked at is who may reach,
stop, free and replace the context. What `PlayBuffer` shows (a chunk in, the same
bytes out, an exact end) is what `AudioPlay` takes as one step. `Speech` in turn
has playback and recording only as users of the codec device, with the order of
their calls from `AudioPlay` and `AudioRecord`. `Ota` reduces `Update` to whether
it runs and how far; what `end()` promises there (`EndIsTruthful` of `Updater`) is
`Complete` here.

Conventions. Actions carry the name of the task and of what it does; `rpc`,
`dpc`, `cpc`, `wpc` and `app` are the program counters of the read, decode,
capture and writer tasks and of the application's call. A step ends where the
code gives another task a chance to see a half-finished change: between a test and
the write that follows it (`waitWhilePaused`), between loading `_playContext` and
using it (`stop()`), between `file.write` and the addition to
`_recordDataBytes`. Definitions named `...Mutant` are faulty variants, one plausible
slip each; no specification uses them, they are put in place of the definition they
stand before, to see that the property named in `PROJECT.json` notices.

### PlayBuffer and BytePipe

`buf`, `head`, `tail`, `count`, `lock`, `stop`, `readDone`, `useFile` are the
fields of `AudioPlayContext`. `rreg` and `dreg` are the value of `count` each task
has loaded for its `count = count + 1` and `count = count - 1`: the field is
volatile, so load and store are two steps, and only the mutex keeps the two cores
apart. The take of the mutex has a limit of 10 ms and can fail on both sides
(`DecoderLockTimesOut` goes on as the code does, with nothing read; the read
task's failure is a retry that changes nothing). The test
`readDone && count == 0` of the decode task is unlocked and is two steps,
`DecoderTestsDone` and `DecoderTestsCount`.

`Source` is the whole file or HTTP body. A read may come short, and a socket may end
at any time. A file that cannot be read any further ends the loop as its end does
(`if (!n) break`, `ReaderTakesErrorForEnd`, noted in the ghost `readError`): the playback
of a damaged file ends as `IDLE`. Decoding a batch may fail, which raises
`_playStopRequested`, as the code does. Between two batches the decode task waits in
`waitWhilePaused()` for as long as the pause stands (`DecoderLeavesPause`); `pause()`,
`resume()` and `stop()` come at any moment and are under no obligation to come. What
they do to the play state is `AudioPlay`'s subject.

`BytePipe` is what the two tasks may rely on: a writer that appends while there is
room and closes once, a reader that takes from the front. It has no lock, no
indices and no counter. `ImplementsPipe` maps `produced` to the pushed beginning
of the source and `closed` to `readDone`.

### AudioPlay

Playbacks are numbered; `ctx[p]` is the context of playback `p`, `heap[p]` says
whether it is allocated. `play()` is a chain of steps (stop the old playback,
allocate, create the read task, note its handle, create the decode task, note its
handle, publish the state), each of which can be interleaved with the tasks just
created, and each of which can fail. `stop()` is six steps. The handles are
variables of their own, because the wait of `stop()` is on the *handles*, which
others clear, and not on the tasks. The wait's three seconds run out only when a task
is inside a call that can take that long: `SlowSource` (an HTTP request, a file
system) and `SlowCodec` (a blocked I2S write) say whether there are such calls. A
use of a context that was freed, or a second free of it, is undefined in the
code: `StaleUse` records who did it in `fault`, and the model stops there. A run
that does not look at `fault` therefore looks at all behaviours up to the first
stale use.

`gaveUp` is a ghost: some `stop()` ran out of time with the task still alive. The
properties that `stop()` can only keep when it did not give up say so. After it
two decode tasks share one set of members: the older one, when it ends, clears the
handles and the pointer of the playback that has replaced it, so that the next
`stop()` finds nothing to stop, and the `play()` behind it overwrites a pointer to a
live context. That leak and the states that go with it take three playbacks; two are
not enough to show them, and it was the proof of `NoContextLeaks` and `StateIsHonest`
that found them. `late` is another ghost: a `resume()`, or the end of a pause, wrote
the state after the task it is about had ended. `StateIsHonest` excuses these two, and
the decoder that cannot be opened (a context is still there), and nothing else.

### AudioRecord

Recordings are numbered, and the units of sound carry the number of the capture
task that read them, so that a file shows where its content comes from. All
members (`_recordFile`, `_recordRingbuf`, the flags, `_recordDataBytes`) are single
variables shared by all recordings, as in the one `Audio` object: a task left over
from a failed recording goes on using the members of the next. Each recording is
taken to write a path of its own. Failures: codec or file does not open, no ring or
no header, either task is not created, either task has no memory, a codec read
fails, a file write comes up short, a flash write takes longer than the stop
timeout (`SlowFlash`). `recordBufferWrite` sends what fits and is called again for
the rest (the comment at `Audio.cpp:801` speaks of dropping; the code retries, and
`FilesHaveNoGaps` shows that nothing is dropped). Deleting the ring while a task
is inside a call on it may or may not be noticed: `fault` is chosen from both.
`stopRecord()` ignores the result of `finalizeWavHeader()`: when a seek or a write of it
fails (`StopCannotFinalize`) the size in the header stays 0, which `HeaderIsExact` has as an
exception of its own, and demands. `data` and `header` are what the file system accepted;
what a failing `flush()` or `close()`, also ignored, loses of it is left out. Ghosts:
`overlap` (a recording was started while tasks of an earlier one were
alive), `gaveUp`, `writerFailed`, `headerFailed`, `lastCall`.

### Updater

`UpdateClass` is sequential; what makes it hard is the flash, which outlives it.
`size`, `progress`, `command`, `buffer` (its first `_bufferLen` bytes) and `stash`
(`_skipBuffer`) are the members. The unit is 16 bytes, `ENCRYPTED_BLOCK_SIZE`, the
part of a firmware that is held back. A cell of the flash is blank, holds a cell of
some image, or is bad (programmed twice, or in a sector whose erase was cut off).
Each erase and each program is a step, which succeeds, fails half done, or is cut
off by `PowerLoss`. Programming one cell is taken to be atomic.

`write()` and `writeStream()` are loops around `_writeBuffer()`: `pc` says where
the call is, `call` where `_writeBuffer()` returns to. `end(true)` ignores its
result (`ReturnsFalse` goes on to `check`), with the members an abort has reset.
That is harmless because the stash is gone with them, which is what `EndIsTruthful`
and `BootableIsComplete` depend on. `remaining()` is unsigned and wraps (`Wrap`).
Which error was set makes no difference and is left out. The data partition shares
the code but for the stash, and may begin in the middle of an erase block, which is
where `part_head_sectors` matters. After a successful update and a restart the
roles of the two slots change, so the target then holds the complete firmware that
ran until now (image 0).

A chunk that is all ones is not programmed (`_chkDataInBlock()`). For the first chunk of
a firmware the test gets a byte pointer advanced by a number of *words* (`Updater.cpp:397`):
it looks at bytes 4 to len-13, where bytes 16 to len-1 are to be written. `HasData` has
that window: a cell is all ones (`Holes`), all ones but for its last twelve bytes
(`Ragged`: all the test sees of the last cell is its first word), or neither; and the
first cell is all ones behind its first word in the images of `Headless`. A chunk whose
data is only where the test does not look is counted and hashed but not programmed. The
properties except that cell by name (`Overlooked`); the bytes 4 to 15 of a valid
firmware hold its entry address and its chip, so that the test sees them.

`Surplus = FALSE` is the contract of the callers in this repository: the source
holds no more than the image that was announced. `Surplus = TRUE` gives a stream
that goes on after the update.

### Speech

The device is open according to two records: `opened` and `rate` (`Audio`'s) and `codec`
(`esp_codec_dev`'s). `openCodecDevice()` and `closeCodecDevice()` are chains of steps
(decide, close the driver, clear the flags, open the driver, publish), interleaved between
all users, because nothing guards them. Each user has a program counter `pc[u]`; the
application's calls run one at a time, what a call is for is `op`. `ttsInit()` may run in
the application and in detect tasks (which answer a wake word) side by side; `made` counts
the semaphores created, and a creation that fails stores a null pointer over whatever was
there (`InitCreates`). A speech waits for the semaphore it found and gives the one it
finds then; a null pointer is an assertion of FreeRTOS (`fault = "semaphore"`). The handle
of the voice, destroyed and set to null in the same place, is left out.
`esp_codec_dev_open()` may fail and say so, or fail in the data interface, whose results
it drops, and publish a device that does not work.

`srBegin()`, its failure paths and `srEnd()` end in a timed wait for the bits
`done`, and then destroy the recogniser (`afe`) whatever came of the wait. After that
the application may begin again: a recognition is one of `Runs`, its detect task has a
place of its own (`dpc[r]`), its feed task is in `feeding`, and a recognition whose
tasks have ended may be used again, so that recognitions come and go without a limit.
Tasks that outlasted their join share the flag and the event group with the next
recognition: its flag sets them going again, and a bit one of them sets counts for the
later join. Each keeps to the recogniser it began with; using it when it is gone is
`fault = "engine"`, and the model stops there. The recogniser itself is an external
library that may answer anything.

A recording ends in `startRecord()` in four ways (`StartRecordEnds`); when the writer
task cannot be created the capture task lives on beside whatever comes next, until it
sees `_recordStopRequested` (`CaptureEnds`).

Ghosts name what the code cannot exclude, so that the properties can say exactly
under which circumstances they hold: `muddled` (two users were inside the device's
functions at once, or the driver has failed to open), `disturbed` (the speeches since
whose open somebody else opened or closed), `replaced` (an initialiser overwrote a
semaphore), `timedOut` (tasks outlasted a join of this recognition, or of one before
whose tasks were still there when it began), `orphan` (the capture task was left behind
by its recording: the writer failed or was not created, or `stopRecord()` gave up). Of
the tasks' reads of the device only the meeting at the microphone is modelled, not the
data.

### Ota

Device and host are both in this repository (`ArduinoOTA.cpp`, `espota.py`), so the
module has both ends and the network between them. `net` is the set of datagrams
on their way to the device: they are parsed in any order, one may be parsed and stay
(a duplicate), one may never be parsed. `answers` is what is on the way to the
host's current socket: each invitation is sent from a new one, and an answer to an
old one is lost (`Answers`). A connection carries data up in units of half a chunk
and replies down as a sequence of texts; `recv()` returns any beginning of it, so
the host may see several acknowledgements as one response or an "OK" glued to
one. It waits in the backlog of the host's kernel until the host accepts it, closes
from either side, and is a `NoConn` again when nobody holds it. The host may run
again after a run that was abandoned: the datagrams of the old run still travel.
`Update.write()` may fail and yet return that it took a part, which is acknowledged
(`ReceiveData`). A datagram that the host cannot send ends its run at once (`Invite`).
`PowerCut` restarts the device at any step. `issued`, `grantedTo`, `said` and
`installed` are ghosts for the properties. A digest that differs is the choice
`EndSucceeds` does not force: `end()` may refuse any image.

### Station

An event passes two queues: the system event loop's (`sys`), whose task changes the
interface's bits and posts it (`posting`), and the library's (`queue`), whose task
walks the callback list by index and runs `_onStaArduinoEvent()`, which sets the
status and may give the driver two orders (`CallbackLeaves`, `CallbackJoins`). Before the
second, `connect()` tests the bit and runs `config()`, which takes the address and its
bit and starts the DHCP client anew: test, `config()` and order are steps of their own,
in the callback (`CallbackTests`, `CallbackConfigures`, `CallbackJoins`) and in the
sketch (`Connect`, `Configure`, `Order`), and the two may run side by side. The
sketch reads the same bits in `connect()` and `disconnect()`, and adds and removes
callbacks, while events are anywhere on that way. `begin()` and `end()` are chains
of steps, in the order in which the code registers, destroys and unregisters. The
handler of IP events is one for all interfaces (`ipHooked`): the SoftAP registers it if
nobody has, and unregisters it when it is switched off, the station's events with it
(`SoftApOn`, `SoftApOff`); nothing but the next `begin()` or SoftAP brings it back.
The driver is external: it joins, gets an address, loses either, and answers orders with
events. An address that `config()` took is reported lost some time later unless there is
a new one by then, as the timer of `esp_netif` does (`owes`, `ReportsLoss`). `stale`,
`leftover`, `missed`, `fresh`, `unheard` are ghosts that name what the
properties have to excuse: `unheard` is an IP event that found no handler with the
station up. One access point, a dynamic address, no scan, no smart
config, no failing `esp_wifi_*` call; a change of the list is one step (the moves
inside the vector and its reallocation are not modelled); `end()` is called only
with the SoftAP off.

## 3. What is checked

| Run | Instance | Shows |
|---|---|---|
| `play_buffer` | 5 bytes, ring of 2, chunks of up to 3, batches of up to 2; file and network; `FairSpec` | `TypeOK`, `DeliveredInOrder`, `EosOnlyAtEnd`, `CompletePlayback`, `ImplementsPipe`, and `PlaybackEnds` for a file that is not left paused |
| `audio_play` | 2 playbacks, 1 chunk each, slow source and codec | `DecoderOwnsContext`, `NoContextLeaks`, `OneDecoderAtATime`, `PausedIsSilent`, `StateIsHonest` |
| `audio_play_pause` | 1 playback, 2 chunks, ring of 1, slow source; `FairSpec` | `PauseIsObserved` |
| `audio_play_reader` | 1 playback, nothing slow | violates `ReaderNeverStale` |
| `audio_record` | 2 recordings, ring of 1, buffers of 2, slow flash | `TypeOK`, `FilesHaveNoGaps`, `HeaderIsExact`, `StopLosesNothing`, `RingOutlivesTasks` |
| `audio_record_stop` | 1 recording of up to 6 units, ring of 3, buffers of 2; `FairSpec` | `FilesHaveNoGaps`, `StopReturns` |
| `audio_record_stopped` | 1 recording, one buffer | violates `StoppedMeansStopped` |
| `updater` | 2 updates of 1 to 10 cells, sectors of 2, blocks of 4, aligned and unaligned partition of 10 | `TypeOK`, `BootableIsComplete`, `ProgramsErased`, `EndIsTruthful`, `ErrorClears` |
| `updater_stream` | 1 update, sectors of 3, a stream that goes on | violates `StreamKeepsToSize` |
| `ota` | 2 runs of espota.py, 2 invitations each, 1 duplicate, 2 chunks of 2 units, 1 repeated acknowledgement, 2 reads of the result; `FairSpec` | `TypeOK`, `SuccessIsReal`, `StartIsAnswered`, `UpdaterReleased`, `AuthorisedImage`, `HostEnds`, `UpdateEnds` |
| `speech` | 2 speeches and 2 recognitions at a time (each interchangeable), 1 playback, recording or recognition beside old tasks, music at another rate | `TypeOK`, `SpeechIsSerial`, `SemaphoreIsKept`, `SpeechHeard`, `MicHasOneReader`, `EngineOutlivesTasks` |
| `station` | 3 calls of the sketch, 2 losses, a queue of 1, reconnection on | `StatusSettles`, `NotAbandoned`, `StationHears` |

**Bounds.** A ring of two slots with five bytes makes `head` and `tail` wrap twice, lets a
chunk meet a full ring and a batch meet an empty one, and lets both tasks be inside the
critical section's neighbourhood with every fill level. Two playbacks are the least at
which an old task can meet a new context, which is what the pointer comparison, the
handles and the wait are for; a third matters only after a `stop()` that gave up, which
the properties except, and the proofs are for every number. Two recordings are the least
at which leftovers of one meet the next. In `audio_record` the ring is smaller than a
buffer, so every send is partial; in `audio_record_stop` it is one and a half buffers, so
sends are whole or partial and the ring fills up with the capture task in its retry loop.
`MaxUnits` bounds what is captured: after it the capture task goes round its loop without
new sound (`CaptureReadsNoMore`), it does not block, so that a stop request or a failure
is still met in every place. `MaxPlays` and `MaxRecs` bound the calls of `play()` and
`startRecord()`; `stop()`, `pause()`, `resume()` and `stopRecord()` are not bounded. In
`updater` the lengths are the smallest of every kind (less than a sector, a sector and a
part, whole blocks, blocks and a part, the whole partition), and two updates let what a
first one, cut off anywhere, left on the flash meet the second. In `ota` two runs are the
least at which datagrams, a nonce or a connection of one run can meet the other; two
chunks make an acknowledgement that is not the last one, and two units to a chunk let the
device read less than a chunk or parts of two. Only the counts matter of the ten
invitations, three repetitions and five reads, so that each may run out: two, one and two.
In `updater` one image is `Headless` and one cell, the last of its first sector, `Ragged`:
that is the chunk the test overlooks, and the other image shows that it overlooks no more.
In `speech` two speeches meet at the semaphore, and one use of the device by playback or
recording meets them and recognition; recognition may begin again as often as it likes
once the tasks of the last are gone, and once (`MaxUses` counts it) beside tasks that
outlasted a join. In `station` three calls are the least for the interplays behind
`NotAbandoned` (`begin`, `disconnect`, `connect`), the queue of 1 fills up, so that the
system task and the sketch block on it, and the second loss comes after `first_connect` is
spent. Deadlock checking is off in every run because the system may really stop: the tasks
have ended and the application makes no more calls.

**Fairness.** The tasks are FreeRTOS tasks that poll with a delay in every waiting loop
and therefore all get CPU time: weak fairness per task. A call in progress goes on. The
mutex is handed to a waiter when it is given: strong fairness for the two takes. It is
held for the copy of at most 8 KiB, well below the 10 ms of the take, so a timed-out take
is possible but not for ever (`<>[][~DecoderLockTimesOut]_vars`). Nothing obliges the
application to call anything: `AppCall`, `CallStop`, `CallStart` and the application's
steps in `PlayBuffer` are never fair; `PlaybackEnds` therefore has the hypothesis
`NotLeftPaused`, for a pause that nobody withdraws lasts for ever. In `Ota` the host's
process is scheduled and each of its waits has a timeout (`WF(HostStep)`), and the sketch
keeps calling `handle()`, whose loop has timeouts too (`WF(UpdateStep)`). That the network
delivers anything is not assumed, nor that `connected()` ever notices a host that is gone:
`ReceiveData` and `Disconnected` are in neither of the two. `PlaybackEnds` is stated for a
file; a network stream may trickle for ever without ending.

**What the properties say of the end of a stream.** `EosOnlyAtEnd` is one direction:
a batch flagged as the last one is the last one. The other direction is false in
the code and harmless: `readDone` may be set just after the last batch was flagged
"more to come"; the loop then ends on its next, empty, read.

**Findings.** Three statements of the repository do not hold of the code:

1. `ReaderNeverStale` (`Audio.cpp:1336`). The decode task frees the context when it
   leaves its loop on a stop request, with the read task still in its own. Nothing
   waits for the read task; the decode task even clears `_playReadTaskHandle` for it.
   The comment there promises a check against a double free, and that promise
   holds (`DecoderOwnsContext`); the read task is outside it.
2. `StoppedMeansStopped` (`Audio.cpp:1082`). A writer task without memory clears
   `_recording`; `stopRecord()` then does nothing, and the capture task goes on.
3. `StreamKeepsToSize` (`Updater.cpp:541`). `writeStream()` limits a read to
   `remaining()`, which does not count what is already in the buffer. After a short
   read of the last sector it may take bytes of the stream that are not part of the
   update, passes `_size`, and can only end by timing out.

Also met, and modelled without a property of their own or as the named exception of
one:

- *Playback.* The `ERROR` branch at `Audio.cpp:1343` is never taken: every failure
  leaves through `_playStopRequested`, which is tested first, so a decode failure ends
  as `STOPPED`. A decoder that cannot be opened, and a `resume()` that comes late, leave
  the state `PLAYING` with no task alive. `stop()` may set `ctx->stop` through a pointer the
  decode task has just freed (`fault = "app"`).
- *Recording.* A header that cannot be finalised keeps size 0, and `stopRecord()` does not
  say so (`HeaderIsExact` without `headerFailed`). `startRecord()` may delete the ring
  under a capture task when the writer cannot be created.
- *Codec device.* `esp_codec_dev_open` marks the device open before it sets it up, so
  the call after a failed one succeeds at once on a device that does not work
  (`SpeechHeard` without `muddled`); a failure of its data interface is not reported at
  all. The end of a playback closes the device under
  recognition, which then hears nothing; `srBegin()` returns `true` without opening
  it while the recogniser exists.
- *Speech.* Two `ttsInit()` side by side make two semaphores, and the second replaces
  the first, or puts a null pointer in its place: two speeches may then play at once, or a
  speech run into an assertion (`SpeechIsSerial` and `SemaphoreIsKept` without `replaced`).
- *Recognition.* Tasks that outlast the eight seconds of `srEnd()` go on with the next
  `srBegin()`, whose flag they read, with a recogniser that is gone (`EngineOutlivesTasks`
  without `timedOut`). A capture task that a failed `startRecord()` or writer left behind
  reads the microphone beside the feed task (`MicHasOneReader` without `orphan`).
  `srBegin(nullptr)` answers with a default text, where `Audio.h:165` says that a null
  pointer means no reply.
- *Update.* `write()` accepts more than announced as long as the bytes in the buffer
  hide it; `write()` of nothing after the last byte runs `_writeBuffer()` once more,
  which aborts the finished update unless its size is a multiple of the sector's
  (`FlushCannotErase`); a second update begun without a restart erases the slot that is
  already selected for boot. A first chunk of a firmware whose only data is in its last
  twelve bytes is not programmed, and `end()` succeeds, with or without a digest
  (`BootableIsComplete` and `EndIsTruthful` without `Overlooked`); no valid firmware has
  the blank header this takes.
- *Over the air.* `espota.py` counts its invitations after the answer has come: an
  answer to the last one is reported as "No response" (`espota.py:129`). A failed
  connection reports both the connect and the end error.
- *Station.* `disconnect()` followed by `connect()` is trusted to a bit the system task
  has not cleared yet, and connects nothing; a disconnection handled after the
  sketch's own reconnection takes the new link down, and that one counts as
  voluntary (`NotAbandoned` without `stale`). Switching the SoftAP off at the wrong
  moment makes the walk skip the station's callback (`missed`), and switching it off at any
  moment takes the IP events from the station: `HAS_IP` and the status then no longer
  follow the address (`StatusSettles` without `unheard`). Bits set between
  `destroyNetif()` and the unregistration come back with the next `begin()`
  (`leftover`). An expired authentication leaves the status alone. After `end()` the
  status may stay `WL_CONNECTED`, because the callback is removed before the stop event
  is delivered. Posting from a callback while the queue is full blocks its only reader.

## 4. What is proved

### PlayBuffer_proofs

`PlayBuffer_proofs` proves, for **every** set of bytes, source, ring size, chunk size
and batch size, from `PlayBufferAssumption` alone (a source that is a sequence of
bytes, and positive sizes):

- `TypeCorrect`: `Spec => []TypeOK`, in particular `head`, `tail` and `count` stay in range;
- `InOrderDelivery`: `Spec => []DeliveredInOrder`;
- `EosIsExact`: `Spec => []EosOnlyAtEnd`;
- `PlaybackIsComplete`: `Spec => []CompletePlayback`;
- `RingImplementsPipe`: `Spec => ImplementsPipe`.

None of the invariants is inductive alone. The inductive one is
`IInv == TypeOK /\ LockInv /\ RingInv /\ EndInv /\ DeliveredInOrder`:

- `LockInv`: the mutex is held exactly by the task that is between take and give, so
  the value of `count` it has loaded is still the value it is about to replace. Without it a lost
  update cannot be excluded.
- `RingInv`: `head` is `Occupied` slots after `tail`, and these slots hold exactly
  the source's bytes after the delivered ones. `Occupied` is `count` corrected for a
  byte half way through a copy; this is what makes the invariant survive the
  step between the copy and the store of `count`.
- `EndInv`: what each task knows of the end: a read task that has left its loop
  has pushed everything it fetched or was told to stop; a decode task past the
  first half of its test has seen `readDone`, and after `readDone` the ring only empties.

The proof that a step keeps `IInv` has one lemma per conjunct and in each one step per
action (`StepType`, ...); the arithmetic of the ring is in three lemmas
(`AdvanceWraps`, `SlotsDiffer`, `AdvanceSlot`), the only place where the modulo is
opened. The refinement follows from `IInv`: a byte copied in is a write of the
pipe, a byte copied out a read, `ReaderFinishes` the close, and everything else
a stutter.

### Ota_proofs

From `OtaAssumption` (positive sizes and counts) alone, for every number of runs,
duplicates, invitations, repetitions and reads, every image and every capacity of
the host's queue and of a connection:

- `OtaTypes`: `Spec => []TypeOK`; in particular the device never receives more than the size;
- `SuccessMeansInstalled`: `Spec => []SuccessIsReal`;
- `ImageIsAuthorised`: `Spec => []AuthorisedImage`;
- `EveryStartIsAnswered`: `Spec => []StartIsAnswered`;
- `UpdaterIsReleased`: `Spec => []UpdaterReleased`.

`SuccessIsReal` relates what the host reads to what the device did, and is carried by
the invariant `IInv`, whose parts are:

- `ResultInv`: an "O" is on its way in a connection only if the image of the
  connection's run was accepted. A reply is appended whole or not at all, and what
  `recv()` returns is a part of what was sent (`ReplyType`, `PrefixType`), so the host
  reads an "OK" only from such a connection;
- `ConnInv`: the connections the host holds belong to its present run, each is
  held once, and the connection of the device is the one of the update it runs. The
  amounts are bounded by what the host has sent (`Transferred`), which gives
  the type of the progress. A new connection is one nobody held; that there is one
  is the pigeonhole argument of `FreeConnection`;
- `AuthInv`: a nonce belongs to one run, and whoever presents it is that run;
- `DeviceInv`: what was said so far decides where `_runUpdate()` is; after a failed
  connection nothing has been received, so `end()` cannot succeed;
- `HostInv`: where `serve()` is decides which of its sockets exist.

There is one lemma per part and side (`HostKeeps...`, `DeviceKeeps...`): neither side
touches the variables of the other (`HostFrame`, `DeviceFrame`), which disposes
of half of the cases.

### AudioPlay_proofs

For every number of playbacks, every length of the sources and size of the ring, and
whether or not the source and the codec are slow: `ContextIsOwned`
(`DecoderOwnsContext`), `NothingLeaks` (`NoContextLeaks`), `OneDecoder`
(`OneDecoderAtATime`), `PauseSilences` (`PausedIsSilent`) and `HonestState`
(`StateIsHonest`), all safety properties of the run `audio_play`. The invariant:

- `HandleInv`: while no stop has given up, a live decode task is the one in
  `_playDecodeTaskHandle`, and from the end of the wait in `stop()` to the creation of the
  next decode task there is none. The handles are cleared by tasks other than their
  owners; this is what makes waiting for a handle as good as waiting for a task;
- `ContextInv`: a live context is the one in `_playContext`; a decode task has it until
  it frees it; a pointer that is left behind comes with a read handle, so that the next
  `stop()` does not return early but frees it;
- `StateInv`: `PAUSED` stands for a task that waits in `waitWhilePaused`, and
  `PLAYING` for a context, a decode task that will still publish, or a late `resume()`.

### AudioRecord_proofs

For every number of recordings, length of the sound, and size of buffers and ring:
`TypeCorrect` (`TypeOK`), `NoGaps` (`FilesHaveNoGaps`), `ExactHeader` (`HeaderIsExact`),
`NothingLeftBehind` (`StopLosesNothing`) and `RingOutlives` (`RingOutlivesTasks`), all
safety properties of the run `audio_record`. The invariant has fourteen parts besides
the types; the three the rest hangs on:

- `AloneInv`: unless a recording was started over the tasks of an earlier one
  (`overlap`), only the last recording's tasks are alive;
- `FlowInv`: the file, the writer's buffer, the ring and the capture task's buffer
  hold one run of units after the other, and together all that was captured, until
  the capture task drops its rest for good. `FilesHaveNoGaps` alone is not inductive: a
  file without a gap gets one if the ring does not go on where the file ends;
- `DrainedInv`: a writer that left without a failure left an empty ring and no capture
  task behind it.

Runs of units are functions written out by index; that two adjacent runs make a run and
that a part of a run is one (`RunConcat`, `RunPart`, `RunSplit`) replaces the induction
over sequences.

### Updater_proofs

For every length of sector, erase block and partition (a partition shorter than the
range of the counters, `Wrap`), every place of the partition, and any number of
updates, failures and power losses:

- `OnlyCompleteBoots` (`BootableIsComplete`), `LandsOnErased` (`ProgramsErased`),
  `TruthfulEnd` (`EndIsTruthful`) and `TypeCorrect` (`TypeOK`), as long as the source holds
  no more than the image (`~Surplus`, the contract of the callers), the first and third
  but for the cell of `Overlooked`. The hypothesis is
  needed: with a stream that goes on, cells that are not the image's pass through the
  buffer, and TLC refutes the first and third;
- `ErrorsClear` (`ErrorClears`) without that hypothesis.

The invariant follows the image. `CountInv` and `BufferInv`: what was handed over is
`_progress` cells and the buffer. `WrittenInv` and `FirstInv`: the flash has the cells up
to `_progress`, but for a firmware's first one, which is in `_skipBuffer`. `ChunkErased`
and `RestErased`: the cells of the chunk, and those of the rest of a block that was erased
as a whole, are blank; that the head and the tail of the partition, which do not fill a
block, are erased by sectors is the arithmetic of this part. `BootInv`: what has the magic byte
is complete, and is not the image being written before `end()` puts its first cell
there.

### Station_proofs

For every size of the queue, any number of calls and losses, with and without automatic
reconnection: `StationIsHeard` (`StationHears`), `StatusIsTrue` (`StatusSettles`) and
`RetriesHappen` (`NotAbandoned`), all properties of the run `station`, which say something
only when everything is handled. The invariant says what is true while events are on their
way:

- `ListInv` and `WalkInv`: no callback is listed twice, the sketch's are behind the
  station's, and the walk has told the station once if and only if it is past its entry.
  A callback that leaves from behind the entry does not move it (`Removed`); that is why
  the sketch may do at any moment what the SoftAP may not;
- `BitsInv`: the *last* event on its way to the system task that moves a bit says how the
  driver stands, and where there is none the bit does; of the address this is said only
  while no report of its loss is still to come and no IP event went unheard. `LinkInv`
  adds that a link goes down by a disconnection before it goes down by a stop;
- `StatusInv`: the same of the status and of `Untold`, the events in the two queues and
  between them that the station's callback has not been told of;
- `LossInv` and `RetryInv`: while the sketch leaves the link alone, a loss on its way is the last
  disconnection and the link stays down until the callback has answered it; a station
  that is idle after a loss worth a retry has that loss among `Untold` or the callback
  between its two orders. That the second order is not refused for a bit that is still set
  follows from `LinkInv`.

Each of these is preserved by appending what the driver sends (`BitBehind`,
`StatusBehind`, ...), by taking the next event (`BitAhead`, `StatusAhead`, ...) and by
handing an event from one queue to the next, which leaves `Untold` as it is
(`HandedOn`, `PostedOn`, `TakenOn`). An event that nobody hears leaves `Untold` from its
middle: `Between` maps the places of what is left to the old ones, in order, and since it
is an IP event no disconnection is lost (`AnswerUnheard`).

### Speech_proofs

From `SpeechAssumption` (the tasks of `textToSpeech()` and the recognitions are
not the application or the decode task, finitely many recognitions are there at a time, a
rate is not 0) alone, for every number of speeches, playbacks, recordings and recognitions and all
rates: `SpeechesTakeTurns`, `SemaphoreComesBack`, `SpeechIsAudible`,
`MicrophoneIsNotShared` and `EngineIsKept`, the five safety properties of the run
`speech`, and `SpeechTypes` (`TypeOK`). The number of semaphores has a bound only
because of `SemInv`: once an initialiser has said that there is one, at most those
that are already between test and creation make more. The invariant `SInv` of the
safety properties has one part per concern, and each is inductive with `SpeechInv` at
most:

- `SpeechInv`: before there is a semaphore there is no speech; while none was replaced
  the only semaphore is free or held by the one speech that is between take and give;
- `MicInv`: `srBegin()` begins beside a capture task only if its recording left it
  behind, and `startRecord()` never while the flag of recognition is set;
- `EngineInv`: before a join gives up, every task there is belongs to the recogniser that
  exists, and a bit of `_srDoneEvent` means that its task has ended, which is what
  the joins rely on. A bit of an earlier task cannot be taken for one of this
  recognition's: `srBegin()` clears both, and finds no task when none outlasted a join;
- `DeviceInv`: while `Sound`, at most one user is inside the device's functions,
  and the two records of what is open agree but for the step that user is at.

**Only model-checked:** the liveness properties (`PlaybackEnds`, `PauseIsObserved`,
`StopReturns`, `HostEnds`, `UpdateEnds`): liveness under fairness is outside the proof
system's reach here. Every safety property and type invariant of a passing run is
proved. Assumed are the named assumptions on the constants, which TLC evaluates in
every run, and for `Updater` the hypothesis above. The theorems are about the models:
they inherit their abstractions (a chunk as one step in `AudioPlay`, a change of the
callback list as one step in `Station`).

## 5. What is left

Next, in this order:

1. **`Updater`.** An abstract specification of the slot (empty, or one complete image)
   and the proof that `Updater` implements it; the same for what `Ota` takes of `Update`.
2. **Smaller machines.** Peripheral manager (a pin's owner and the deinit callbacks that
   change the table), `Wire`'s lock, `cbuf`, RMT's done flag, USB disk sector writes,
   `Buzz::stop()`, `HTTPUpdate`.

### Not modelled

The repository is the whole Arduino core: the models cover the parts that have a
logic of their own and run concurrently or across failures, and these are a small share
of its lines. Not modelled, and not planned: display, LEDs and sensors, strings,
streams, hashes, file systems, Bluetooth, ESP-NOW, RainMaker, USB devices, Ethernet,
PPP, web servers, and the register-level drivers of the core. They are sequential
conversions, register access, or thin layers over vendor stacks whose source is
not here. The vendored drivers of the codecs are tables of registers. The decoder
library, the I2S driver, the recogniser and the voice, the WiFi driver, the file system,
the HTTP client, mDNS and FreeRTOS appear as the results their calls may have.
