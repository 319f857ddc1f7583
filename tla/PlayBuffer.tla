------------------------------ MODULE PlayBuffer ------------------------------
(***************************************************************************)
(* The ring buffer of AudioPlayContext (Audio.cpp) and the two tasks that  *)
(* share it during one playback.  The read task (localReadTask on core 0,  *)
(* or networkReadTask) fetches chunks from the file or the HTTP stream and *)
(* pushes them with playBufferWrite; the decode task (playDecodeTask on    *)
(* core 1) takes batches with playBufferRead.  head, tail and count are    *)
(* plain volatile words: "count = count + 1" is a load and a store, so the *)
(* mutex is what keeps the two cores from losing an update, and each copy  *)
(* of a byte is two steps here.  The decode task also looks at readDone    *)
(* and count without the lock, one after the other, to see the end of the  *)
(* stream.                                                                 *)
(*                                                                         *)
(* A byte of the source is identified by its place: Source is the whole    *)
(* file or HTTP body, fetched counts the bytes the read task has obtained, *)
(* pushed those it has put in the ring.  The life of the context itself    *)
(* (who frees it and when) is the subject of AudioPlay.                    *)
(***************************************************************************)
EXTENDS Integers, Sequences

CONSTANTS
  Data,     \* the bytes
  Source,   \* the bytes of the file or of the HTTP body
  cap,      \* ctx->cap, NET_RX_CACHE_BYTES in the code
  MaxRead,  \* largest chunk the read task fetches at once
  MaxInput  \* PLAY_INPUT_BUFFER_BYTES, the largest batch of the decode task

ASSUME PlayBufferAssumption ==
  /\ Source \in Seq(Data)
  /\ cap \in Nat \ {0}
  /\ MaxRead \in Nat \ {0}
  /\ MaxInput \in Nat \ {0}

VARIABLES
  buf, head, tail, count, \* the ring
  lock,          \* ctx->lock: "free" or the task that holds it
  stop,          \* ctx->stop
  readDone,      \* ctx->readDone
  useFile,       \* ctx->useFile: a local file rather than a URL
  stopRequested, \* _playStopRequested
  pauseRequested, \* _playPauseRequested
  rpc,           \* where the read task is
  fetched,       \* bytes obtained from the source
  pushed,        \* bytes written to the ring
  rreg,          \* the read task's loaded value of count
  readError,     \* ghost: file.read returned 0 before the end of the file
  dpc,           \* where the decode task is
  batch,         \* bytes of the batch being read or decoded
  dreg,          \* the decode task's loaded value of count
  eos,           \* raw.eos of the latest batch
  delivered,     \* every byte the decode task took out
  outcome        \* the play state the decode task leaves behind

ring == <<buf, head, tail, count, lock>>
flags == <<stop, readDone, useFile, stopRequested, pauseRequested>>
reader == <<rpc, fetched, pushed, rreg, readError>>
decoder == <<dpc, batch, dreg, eos, delivered, outcome>>
vars == <<ring, flags, reader, decoder>>

Slots == 0 .. cap - 1

(* Faulty variants of a definition stand before it, named ...Mutant.  TLC  *)
(* is run with each of them in place of the definition, to see that a      *)
(* property notices.  This one wraps one slot too late.                    *)
AdvanceMutant(i) == (i + 1) % (cap + 1)

(* The step of head and of tail over the ring.                             *)
Advance(i) == (i + 1) % cap

Init ==
  /\ buf \in [Slots -> Data]   \* malloc does not clear it
  /\ head = 0 /\ tail = 0 /\ count = 0
  /\ lock = "free"
  /\ stop = FALSE /\ readDone = FALSE
  /\ stopRequested = FALSE /\ pauseRequested = FALSE
  /\ useFile \in BOOLEAN
  /\ rpc = "fetch" /\ fetched = 0 /\ pushed = 0 /\ rreg = 0
  /\ readError = FALSE
  /\ dpc = "poll" /\ batch = 0 /\ dreg = 0 /\ eos = FALSE
  /\ delivered = << >>
  /\ outcome = "NONE"

-------------------------------------------------------------------------------
(* The read task.                                                          *)

Remaining == Len(Source) - fetched

(* A socket returns what has arrived; file.read fills its buffer unless    *)
(* the file ends or the file system fails in the middle.                   *)
ReaderFetch ==
  /\ rpc = "fetch" /\ ~stop
  /\ \E n \in 1 .. MaxRead : n <= Remaining /\ fetched' = fetched + n
  /\ rpc' = "push"
  /\ UNCHANGED <<ring, flags, pushed, rreg, readError, decoder>>

(* The outer loop ends: stopped, end of file, or the connection is gone.   *)
ReaderSourceEnds ==
  /\ rpc = "fetch"
  /\ stop \/ Remaining = 0 \/ ~useFile
  /\ rpc' = "finish"
  /\ UNCHANGED <<ring, flags, fetched, pushed, rreg, readError, decoder>>

(* "if (!n) break": an error that yields nothing is taken for the end of   *)
(* the file.                                                               *)
ReaderTakesErrorForEnd ==
  /\ rpc = "fetch" /\ ~stop
  /\ useFile /\ Remaining > 0
  /\ readError' = TRUE
  /\ rpc' = "finish"
  /\ UNCHANGED <<ring, flags, fetched, pushed, rreg, decoder>>

(* Faulty: goes on to copy when xSemaphoreTake timed out.                  *)
ReaderTakesLockMutant ==
  /\ rpc = "push" /\ ~stop
  /\ lock' = IF lock = "free" THEN "reader" ELSE lock
  /\ rpc' = "copy"
  /\ UNCHANGED <<buf, head, tail, count, flags, fetched, pushed, rreg, readError, decoder>>

(* playBufferWrite takes the lock.  When it times out it returns 0 and the *)
(* task delays and tries again, which changes nothing.                     *)
ReaderTakesLock ==
  /\ rpc = "push" /\ ~stop /\ lock = "free"
  /\ lock' = "reader"
  /\ rpc' = "copy"
  /\ UNCHANGED <<buf, head, tail, count, flags, fetched, pushed, rreg, readError, decoder>>

(* The inner loop leaves the rest of the chunk when ctx->stop is set.      *)
ReaderDropsChunk ==
  /\ rpc = "push" /\ stop
  /\ rpc' = "fetch"
  /\ UNCHANGED <<ring, flags, fetched, pushed, rreg, readError, decoder>>

(* Faulty: the ring may be filled to one byte more than it holds.          *)
HasRoomMutant == pushed < fetched /\ count <= cap

HasRoom == pushed < fetched /\ count < cap

ReaderCopies ==
  /\ rpc = "copy" /\ HasRoom
  /\ buf' = [buf EXCEPT ![head] = Source[pushed + 1]]
  /\ head' = Advance(head)
  /\ pushed' = pushed + 1
  /\ rreg' = count
  /\ rpc' = "count"
  /\ UNCHANGED <<tail, count, lock, flags, fetched, readError, decoder>>

ReaderCounts ==
  /\ rpc = "count"
  /\ count' = rreg + 1
  /\ rpc' = "copy"
  /\ UNCHANGED <<buf, head, tail, lock, flags, fetched, pushed, rreg, readError, decoder>>

ReaderGivesLock ==
  /\ rpc = "copy" /\ ~HasRoom
  /\ lock' = "free"
  /\ rpc' = IF pushed < fetched THEN "push" ELSE "fetch"
  /\ UNCHANGED <<buf, head, tail, count, flags, fetched, pushed, rreg, readError, decoder>>

ReaderFinishes ==
  /\ rpc = "finish"
  /\ readDone' = TRUE
  /\ rpc' = "done"
  /\ UNCHANGED <<ring, stop, useFile, stopRequested, pauseRequested, fetched, pushed, rreg,
                 readError, decoder>>

Reader ==
  \/ ReaderFetch \/ ReaderSourceEnds \/ ReaderTakesErrorForEnd
  \/ ReaderTakesLock \/ ReaderDropsChunk
  \/ ReaderCopies \/ ReaderCounts \/ ReaderGivesLock
  \/ ReaderFinishes

-------------------------------------------------------------------------------
(* The decode task.                                                        *)

DecoderPolls ==
  /\ dpc = "poll"
  /\ dpc' = IF stopRequested THEN "end" ELSE "pause"
  /\ UNCHANGED <<ring, flags, reader, batch, dreg, eos, delivered, outcome>>

(* Faulty: the loop of waitWhilePaused does not look at the stop request.  *)
DecoderLeavesPauseMutant ==
  /\ dpc = "pause" /\ ~pauseRequested
  /\ dpc' = IF stopRequested THEN "end" ELSE "take"
  /\ UNCHANGED <<ring, flags, reader, batch, dreg, eos, delivered, outcome>>

(* waitWhilePaused: the task stays until the request is withdrawn or a     *)
(* stop is requested.                                                      *)
DecoderLeavesPause ==
  /\ dpc = "pause" /\ (~pauseRequested \/ stopRequested)
  /\ dpc' = IF stopRequested THEN "end" ELSE "take"
  /\ UNCHANGED <<ring, flags, reader, batch, dreg, eos, delivered, outcome>>

DecoderTakesLock ==
  /\ dpc = "take" /\ lock = "free"
  /\ lock' = "decoder"
  /\ dpc' = "copy"
  /\ UNCHANGED <<buf, head, tail, count, flags, reader, batch, dreg, eos, delivered, outcome>>

(* xSemaphoreTake gave up after 10 ms: playBufferRead returns 0.           *)
DecoderLockTimesOut ==
  /\ dpc = "take" /\ lock # "free"
  /\ dpc' = "testDone"
  /\ UNCHANGED <<ring, flags, reader, batch, dreg, eos, delivered, outcome>>

WantsMore == batch < MaxInput /\ count > 0

DecoderCopies ==
  /\ dpc = "copy" /\ WantsMore
  /\ delivered' = Append(delivered, buf[tail])
  /\ tail' = Advance(tail)
  /\ batch' = batch + 1
  /\ dreg' = count
  /\ dpc' = "count"
  /\ UNCHANGED <<buf, head, count, lock, flags, reader, eos, outcome>>

DecoderCounts ==
  /\ dpc = "count"
  /\ count' = dreg - 1
  /\ dpc' = "copy"
  /\ UNCHANGED <<buf, head, tail, lock, flags, reader, batch, dreg, eos, delivered, outcome>>

DecoderGivesLock ==
  /\ dpc = "copy" /\ ~WantsMore
  /\ lock' = "free"
  /\ dpc' = "testDone"
  /\ UNCHANGED <<buf, head, tail, count, flags, reader, batch, dreg, eos, delivered, outcome>>

(* Faulty: an empty ring alone is the end of the stream.                   *)
EndTestCountOnlyMutant(k) == count = 0

(* Faulty: "count == 0 && readDone".                                       *)
EndTestSwappedMutant(k) == IF k = 1 THEN count = 0 ELSE readDone

(* "readDone && count == 0": the two loads, in the order of the &&.        *)
EndTest(k) == IF k = 1 THEN readDone ELSE count = 0

(* What the test is for: with a batch in hand it is the eos flag of that   *)
(* batch; with nothing read it decides whether the loop ends.              *)
AtEndOfStream(b) ==
  IF batch > 0
  THEN eos' = b /\ dpc' = "process"
  ELSE eos' = eos /\ dpc' = (IF b THEN "end" ELSE "poll")

DecoderTestsDone ==
  /\ dpc = "testDone"
  /\ IF EndTest(1)
     THEN dpc' = "testCount" /\ eos' = eos
     ELSE AtEndOfStream(FALSE)
  /\ UNCHANGED <<ring, flags, reader, batch, dreg, delivered, outcome>>

DecoderTestsCount ==
  /\ dpc = "testCount"
  /\ AtEndOfStream(EndTest(2))
  /\ UNCHANGED <<ring, flags, reader, batch, dreg, delivered, outcome>>

(* The frames of one batch: decoded and written, or a failure that raises  *)
(* _playStopRequested.                                                     *)
DecoderProcesses ==
  /\ dpc = "process"
  /\ stopRequested' \in {stopRequested, TRUE}
  /\ batch' = 0
  /\ dpc' = "poll"
  /\ UNCHANGED <<ring, stop, readDone, useFile, pauseRequested, reader, dreg, eos,
                 delivered, outcome>>

DecoderEnds ==
  /\ dpc = "end"
  /\ outcome' = IF stopRequested THEN "STOPPED" ELSE "IDLE"
  /\ dpc' = "gone"
  /\ UNCHANGED <<ring, flags, reader, batch, dreg, eos, delivered>>

Decoder ==
  \/ DecoderPolls \/ DecoderLeavesPause
  \/ DecoderTakesLock \/ DecoderLockTimesOut
  \/ DecoderCopies \/ DecoderCounts \/ DecoderGivesLock
  \/ DecoderTestsDone \/ DecoderTestsCount
  \/ DecoderProcesses \/ DecoderEnds

-------------------------------------------------------------------------------
(* The application.  pause() is accepted while the state is PLAYING, which *)
(* it is until the decode task waits or is gone; resume() while it is      *)
(* PAUSED, which the waiting task has made it.                             *)
AppPauses ==
  /\ dpc # "gone"
  /\ pauseRequested' = TRUE
  /\ UNCHANGED <<ring, stop, readDone, useFile, stopRequested, reader, decoder>>

AppResumes ==
  /\ dpc = "pause"
  /\ pauseRequested' = FALSE
  /\ UNCHANGED <<ring, stop, readDone, useFile, stopRequested, reader, decoder>>

(* stop() raises its two flags one after the other, any time before the    *)
(* decode task is gone; it withdraws a pause.                              *)
AppRequestsStop ==
  /\ dpc # "gone"
  /\ stopRequested' = TRUE /\ pauseRequested' = FALSE
  /\ UNCHANGED <<ring, stop, readDone, useFile, reader, decoder>>

AppStopsReader ==
  /\ dpc # "gone" /\ stopRequested /\ ~stop
  /\ stop' = TRUE
  /\ UNCHANGED <<ring, readDone, useFile, stopRequested, pauseRequested, reader, decoder>>

Next ==
  \/ Reader \/ Decoder
  \/ AppPauses \/ AppResumes \/ AppRequestsStop \/ AppStopsReader

Spec == Init /\ [][Next]_vars

(* FreeRTOS runs both tasks (each polls with a delay) and hands a mutex to *)
(* a waiter when it is given.  The lock is held for one copy of at most    *)
(* 8 KiB, far less than the 10 ms of the take: a take may time out, but    *)
(* not for ever.  Nothing obliges the application to act.                  *)
FairSpec ==
  /\ Spec
  /\ WF_vars(Reader) /\ WF_vars(Decoder)
  /\ SF_vars(ReaderTakesLock) /\ SF_vars(DecoderTakesLock)
  /\ <>[][~DecoderLockTimesOut]_vars

-------------------------------------------------------------------------------
(* Every variable has its type.                                            *)
TypeOK ==
  /\ buf \in [Slots -> Data]
  /\ head \in Slots /\ tail \in Slots /\ count \in 0 .. cap
  /\ lock \in {"free", "reader", "decoder"}
  /\ stop \in BOOLEAN /\ readDone \in BOOLEAN
  /\ useFile \in BOOLEAN
  /\ stopRequested \in BOOLEAN /\ pauseRequested \in BOOLEAN
  /\ readError \in BOOLEAN
  /\ rpc \in {"fetch", "push", "copy", "count", "finish", "done"}
  /\ fetched \in 0 .. Len(Source) /\ pushed \in 0 .. fetched
  /\ rreg \in 0 .. cap /\ dreg \in 0 .. cap
  /\ dpc \in {"poll", "pause", "take", "copy", "count", "testDone",
              "testCount", "process", "end", "gone"}
  /\ batch \in 0 .. MaxInput
  /\ eos \in BOOLEAN
  /\ delivered \in Seq(Data)
  /\ outcome \in {"NONE", "IDLE", "STOPPED"}

(* The slot i places after slot t.                                         *)
Slot(t, i) == IF t + i < cap THEN t + i ELSE t + i - cap

(* The bytes inside the ring, a byte half way through counted as moved.    *)
Occupied ==
  count + (IF rpc = "count" THEN 1 ELSE 0) - (IF dpc = "count" THEN 1 ELSE 0)

(* The mutex is held by the task that is between take and give, and its    *)
(* loaded value of count is not stale when it is stored back.              *)
LockInv ==
  /\ lock = "reader" <=> rpc \in {"copy", "count"}
  /\ lock = "decoder" <=> dpc \in {"copy", "count"}
  /\ rpc = "count" => rreg = count /\ count < cap
  /\ dpc = "count" => dreg = count /\ count > 0

(* head, tail and count agree, and the occupied slots hold exactly the     *)
(* bytes of the source that follow the delivered ones.                     *)
RingInv ==
  /\ pushed = Len(delivered) + Occupied
  /\ Occupied \in 0 .. cap
  /\ head = Slot(tail, Occupied)
  /\ \A i \in 0 .. Occupied - 1 :
       buf[Slot(tail, i)] = Source[Len(delivered) + i + 1]

(* What the two tasks know of the end of the stream, and of a stop.        *)
EndInv ==
  /\ readDone <=> rpc = "done"
  /\ rpc = "fetch" => stop \/ pushed = fetched
  /\ rpc \in {"finish", "done"} =>
       stop \/ (pushed = fetched /\ (useFile /\ ~readError => fetched = Len(Source)))
  /\ stop => stopRequested
  /\ dpc = "testCount" => readDone
  /\ eos => readDone /\ count = 0
  /\ dpc = "end" /\ ~stopRequested => readDone /\ count = 0
  /\ dpc = "gone" <=> outcome # "NONE"
  /\ outcome = "IDLE" => ~stop /\ readDone /\ count = 0

(* Whatever the interleaving of the two cores on head, tail, count and the *)
(* lock, the decode task receives the source's bytes in order, none lost,  *)
(* repeated or read before it was written (playBufferWrite and             *)
(* playBufferRead).                                                        *)
DeliveredInOrder ==
  /\ Len(delivered) <= Len(Source)
  /\ \A i \in 1 .. Len(delivered) : delivered[i] = Source[i]

(* While nobody asks to stop, the eos flag is handed to the decoder only   *)
(* with the last bytes the read task will ever push (raw.eos).             *)
EosOnlyAtEnd == eos /\ ~stopRequested => rpc = "done" /\ Len(delivered) = fetched

(* A playback that ends as IDLE ("played to the end") has decoded every    *)
(* byte the read task fetched, and for a file that is the whole file,      *)
(* unless an error was taken for its end: the unlocked test of readDone    *)
(* and count never ends the loop early.                                    *)
CompletePlayback ==
  outcome = "IDLE" =>
    Len(delivered) = fetched /\ (useFile /\ ~readError => fetched = Len(Source))

(* A pause is withdrawn in the end, by resume() or by a stop.              *)
NotLeftPaused == <>[](~pauseRequested \/ stopRequested)

(* Unless the application leaves it paused for ever, the playback of a     *)
(* file ends: a full ring, an empty ring and a pause cannot leave the two  *)
(* tasks waiting for each other, and a stop ends a paused playback         *)
(* (waitWhilePaused, the loops of localReadTask and of playDecodeTask).    *)
PlaybackEnds == NotLeftPaused => (useFile ~> outcome # "NONE")

(* The ring implements the bounded pipe.                                   *)
Pipe == INSTANCE BytePipe WITH
          Capacity <- cap,
          produced <- [i \in 1 .. pushed |-> Source[i]],
          closed <- readDone
ImplementsPipe == Pipe!Spec
===============================================================================
