------------------------------ MODULE AudioRecord ------------------------------
(***************************************************************************)
(* Recording in Audio.cpp.  startRecord() opens the codec, a WAV file and  *)
(* a byte ring buffer and creates two tasks: recordCaptureTask reads the   *)
(* codec and sends to the ring, recordWriterTask empties the ring into the *)
(* file and counts the bytes.  stopRecord() asks both to stop, waits for   *)
(* their done flags, writes the counted size into the WAV header, closes   *)
(* the file and deletes the ring.  The file, the ring, the flags and the   *)
(* counter are members of the one Audio object: a task left over from an   *)
(* earlier recording goes on using them.                                   *)
(*                                                                         *)
(* Recordings are numbered.  A unit of sound is <<r, k>>, the k-th unit    *)
(* captured by the capture task of recording r, so a file shows where      *)
(* each of its units came from.                                            *)
(***************************************************************************)
EXTENDS Integers, Sequences

CONSTANTS
  MaxRecs,  \* bound: how many recordings are started
  MaxUnits, \* bound: units captured by one capture task
  BufLen,   \* RECORD_BUFFER_BYTES, in units
  RingCap,  \* RECORD_RING_BUFFER_BYTES, in units
  SlowFlash \* a file.write may take longer than PLAY_STOP_WAIT_MS

ASSUME AudioRecordAssumption ==
  /\ MaxRecs \in Nat \ {0} /\ MaxUnits \in Nat
  /\ BufLen \in Nat \ {0} /\ RingCap \in Nat \ {0}
  /\ SlowFlash \in BOOLEAN

VARIABLES
  recording, stopReq, capDone, wrDone, \* _recording and the three flags
  dataBytes,  \* _recordDataBytes
  file,       \* recording whose file _recordFile has open, 0 for none
  data,       \* per recording: the units in its file after the header
  header,     \* per recording: the size in its header, -1 before any header
  ringUp,     \* _recordRingbuf is not nullptr
  ring,       \* its content
  codec,      \* the codec device is open
  app,        \* where the application's call is
  recs,       \* recordings started so far
  lastCall,   \* ghost: the call that returned last
  cpc, cbuf, captured, \* per recording: the capture task
  wpc, wbuf,           \* per recording: the writer task
  overlap,    \* ghost: a recording was started over tasks of an earlier one
  gaveUp,     \* ghost: a stopRecord() ran out of time
  writerFailed, \* ghost: per recording, its writer could not start, or a
              \* write to its file came up short
  headerFailed, \* ghost: per recording, its header could not be finalised
  fault       \* "none", or who used a ring that was deleted

flags == <<recording, stopReq, capDone, wrDone>>
fileVars == <<dataBytes, file, data, header>>
ringVars == <<ringUp, ring>>
appVars == <<app, recs, lastCall>>
capVars == <<cpc, cbuf, captured>>
wrVars == <<wpc, wbuf>>
ghosts == <<overlap, gaveUp, writerFailed, headerFailed, fault>>
vars == <<flags, fileVars, ringVars, codec, appVars, capVars, wrVars, ghosts>>

Recs == 1 .. MaxRecs
Running == fault = "none"
CapAlive(r) == cpc[r] \notin {"none", "gone"}
WrAlive(r) == wpc[r] \notin {"none", "gone"}
SomeoneAlive == \E r \in Recs : CapAlive(r) \/ WrAlive(r)

AppAt(from, to) == Running /\ app = from /\ app' = to
CapAt(r, from, to) == Running /\ cpc[r] = from /\ cpc' = [cpc EXCEPT ![r] = to]
WrAt(r, from, to) == Running /\ wpc[r] = from /\ wpc' = [wpc EXCEPT ![r] = to]

Init ==
  /\ recording = FALSE /\ stopReq = FALSE /\ capDone = TRUE /\ wrDone = TRUE
  /\ dataBytes = 0 /\ file = 0
  /\ data = [r \in Recs |-> << >>] /\ header = [r \in Recs |-> -1]
  /\ ringUp = FALSE /\ ring = << >> /\ codec = FALSE
  /\ app = "idle" /\ recs = 0 /\ lastCall = "none"
  /\ cpc = [r \in Recs |-> "none"] /\ wpc = [r \in Recs |-> "none"]
  /\ cbuf = [r \in Recs |-> << >>] /\ wbuf = [r \in Recs |-> << >>]
  /\ captured = [r \in Recs |-> 0]
  /\ overlap = FALSE /\ gaveUp = FALSE /\ fault = "none"
  /\ writerFailed = [r \in Recs |-> FALSE] /\ headerFailed = [r \in Recs |-> FALSE]

(* vRingbufferDelete while a task is inside a call on the ring.            *)
InsideRing == \E r \in Recs : cpc[r] = "sending" \/ wpc[r] = "loop"
DeletesRing(call) ==
  /\ ringUp' = FALSE /\ ring' = << >>
  /\ fault' \in {fault} \union (IF ringUp /\ InsideRing THEN {call} ELSE {})

-------------------------------------------------------------------------------
(* stopRecord(): "stopThen" is startRecord()'s call of it.                 *)

CallStop ==
  /\ AppAt("idle", IF recording THEN "join" ELSE "idle")
  /\ stopReq' = (stopReq \/ recording)
  /\ lastCall' = IF recording THEN "busy" ELSE "stop"
  /\ UNCHANGED <<recording, capDone, wrDone, fileVars, ringVars, codec, recs, capVars, wrVars, ghosts>>

(* Faulty variants of a definition stand before it, named ...Mutant.  TLC  *)
(* is run with each of them in place of the definition, to see that a      *)
(* property notices.  This one waits for the capture task only.            *)
StopJoinsMutant ==
  /\ AppAt("join", "finalize")
  /\ capDone
  /\ UNCHANGED <<flags, fileVars, ringVars, codec, recs, lastCall, capVars, wrVars, ghosts>>

StopJoins ==
  /\ AppAt("join", "finalize")
  /\ capDone /\ wrDone
  /\ UNCHANGED <<flags, fileVars, ringVars, codec, recs, lastCall, capVars, wrVars, ghosts>>

(* Three seconds are over: only a slow file.write takes that long.         *)
StopGivesUp ==
  /\ AppAt("join", "finalize")
  /\ ~(capDone /\ wrDone)
  /\ SlowFlash /\ \E r \in Recs : wpc[r] = "write"
  /\ gaveUp' = TRUE
  /\ UNCHANGED <<flags, fileVars, ringVars, codec, recs, lastCall, capVars, wrVars, overlap, writerFailed, headerFailed, fault>>

(* finalizeWavHeader, flush and close.                                     *)
StopFinalizes ==
  /\ AppAt("finalize", "teardown")
  /\ header' = IF file = 0 THEN header ELSE [header EXCEPT ![file] = dataBytes]
  /\ file' = 0
  /\ UNCHANGED <<flags, dataBytes, data, ringVars, codec, recs, lastCall, capVars, wrVars, ghosts>>

(* A seek or a write of the header fails; stopRecord() does not look at    *)
(* the result, and the header keeps the size it had.  "data" and "header"  *)
(* are what the file system accepted: that a failing flush or close may    *)
(* lose the end of it is left out.                                         *)
StopCannotFinalize ==
  /\ AppAt("finalize", "teardown")
  /\ file # 0
  /\ headerFailed' = [headerFailed EXCEPT ![file] = TRUE]
  /\ file' = 0
  /\ UNCHANGED <<flags, dataBytes, data, header, ringVars, codec, recs, lastCall, capVars, wrVars,
                 overlap, gaveUp, writerFailed, fault>>

StopTearsDown ==
  /\ AppAt("teardown", IF lastCall = "busyStart" THEN "open" ELSE "idle")
  /\ DeletesRing("stop")
  /\ codec' = FALSE /\ recording' = FALSE
  /\ lastCall' = "stop"
  /\ UNCHANGED <<stopReq, capDone, wrDone, fileVars, recs, capVars, wrVars, overlap, gaveUp, writerFailed, headerFailed>>

-------------------------------------------------------------------------------
(* startRecord().                                                          *)

CallStart ==
  /\ AppAt("idle", IF recording THEN "join" ELSE "open")
  /\ recs < MaxRecs
  /\ stopReq' = (stopReq \/ recording)
  /\ lastCall' = IF recording THEN "busyStart" ELSE "busy"
  /\ UNCHANGED <<recording, capDone, wrDone, fileVars, ringVars, codec, recs, capVars, wrVars, ghosts>>

(* The codec does not open; or the file does not, which _recordFile has    *)
(* been assigned by then, and the codec is closed.                         *)
StartCannotOpen ==
  /\ AppAt("open", "idle")
  /\ \/ codec' \in {codec, FALSE} /\ file' = file
     \/ codec' = FALSE /\ file' = 0
  /\ lastCall' = "start"
  /\ UNCHANGED <<flags, dataBytes, data, header, ringVars, recs, capVars, wrVars, ghosts>>

(* Assigning _recordFile lets go of a file that was still open.            *)
StartOpens ==
  /\ AppAt("open", "ring")
  /\ codec' = TRUE
  /\ recs' = recs + 1 /\ file' = recs + 1
  /\ overlap' = (overlap \/ SomeoneAlive)
  /\ UNCHANGED <<flags, dataBytes, data, header, ringVars, lastCall, capVars, wrVars, gaveUp, writerFailed, headerFailed, fault>>

(* No ring, or no header: what was opened is closed again.                 *)
StartCannotPrepare ==
  /\ AppAt("ring", "idle")
  /\ DeletesRing("start")
  /\ file' = 0 /\ codec' = FALSE
  /\ dataBytes' \in {dataBytes, 0}
  /\ lastCall' = "start"
  /\ UNCHANGED <<flags, data, header, recs, capVars, wrVars, overlap, gaveUp, writerFailed, headerFailed>>

(* Faulty: a ring that is still there is used again.                       *)
StartPreparesOldRingMutant ==
  /\ AppAt("ring", "spawnCapture")
  /\ ringUp' = TRUE
  /\ dataBytes' = 0
  /\ header' = [header EXCEPT ![file] = 0]
  /\ stopReq' = FALSE /\ capDone' = FALSE /\ wrDone' = FALSE
  /\ UNCHANGED <<recording, file, data, ring, codec, recs, lastCall, capVars, wrVars, ghosts>>

(* Faulty: _recordDataBytes is not reset.                                  *)
StartPreparesOldCountMutant ==
  /\ AppAt("ring", "spawnCapture")
  /\ ring' = << >> /\ ringUp' = TRUE
  /\ header' = [header EXCEPT ![file] = 0]
  /\ stopReq' = FALSE /\ capDone' = FALSE /\ wrDone' = FALSE
  /\ UNCHANGED <<recording, file, dataBytes, data, codec, recs, lastCall, capVars, wrVars, ghosts>>

(* initRecordBuffer deletes any old ring first.                            *)
StartPrepares ==
  /\ AppAt("ring", "spawnCapture")
  /\ ring' = << >> /\ ringUp' = TRUE
  /\ fault' \in {fault} \union (IF ringUp /\ InsideRing THEN {"start"} ELSE {})
  /\ dataBytes' = 0
  /\ header' = [header EXCEPT ![file] = 0]
  /\ stopReq' = FALSE /\ capDone' = FALSE /\ wrDone' = FALSE
  /\ UNCHANGED <<recording, file, data, codec, recs, lastCall, capVars, wrVars, overlap, gaveUp, writerFailed, headerFailed>>

SpawnsCapture ==
  /\ AppAt("spawnCapture", "spawnWriter")
  /\ cpc' = [cpc EXCEPT ![recs] = "alloc"]
  /\ UNCHANGED <<flags, fileVars, ringVars, codec, recs, lastCall, cbuf, captured, wrVars, ghosts>>

CaptureSpawnFails ==
  /\ AppAt("spawnCapture", "idle")
  /\ DeletesRing("start")
  /\ capDone' = TRUE /\ wrDone' = TRUE
  /\ file' = 0 /\ codec' = FALSE
  /\ lastCall' = "start"
  /\ UNCHANGED <<recording, stopReq, dataBytes, data, header, recs, capVars, wrVars, overlap, gaveUp, writerFailed, headerFailed>>

SpawnsWriter ==
  /\ AppAt("spawnWriter", "publish")
  /\ wpc' = [wpc EXCEPT ![recs] = "alloc"]
  /\ UNCHANGED <<flags, fileVars, ringVars, codec, recs, lastCall, capVars, wbuf, ghosts>>

(* The capture task is told to stop but not waited for.                    *)
WriterSpawnFails ==
  /\ AppAt("spawnWriter", "idle")
  /\ DeletesRing("start")
  /\ stopReq' = TRUE /\ capDone' = TRUE /\ wrDone' = TRUE
  /\ file' = 0 /\ codec' = FALSE
  /\ lastCall' = "start"
  /\ UNCHANGED <<recording, dataBytes, data, header, recs, capVars, wrVars, overlap, gaveUp, writerFailed, headerFailed>>

(* _recording becomes true only now, whatever the tasks met meanwhile.     *)
StartPublishes ==
  /\ AppAt("publish", "idle")
  /\ recording' = TRUE
  /\ lastCall' = "start"
  /\ UNCHANGED <<stopReq, capDone, wrDone, fileVars, ringVars, codec, recs, capVars, wrVars, ghosts>>

App ==
  \/ StopJoins \/ StopGivesUp \/ StopFinalizes \/ StopCannotFinalize \/ StopTearsDown
  \/ StartCannotOpen \/ StartOpens \/ StartCannotPrepare \/ StartPrepares
  \/ SpawnsCapture \/ CaptureSpawnFails \/ SpawnsWriter \/ WriterSpawnFails
  \/ StartPublishes

-------------------------------------------------------------------------------
(* recordCaptureTask of recording r.                                       *)

CaptureCannotStart(r) ==
  /\ CapAt(r, "alloc", "gone")
  /\ recording' = FALSE /\ stopReq' = TRUE /\ capDone' = TRUE
  /\ UNCHANGED <<wrDone, fileVars, ringVars, codec, appVars, cbuf, captured, wrVars, ghosts>>

CaptureStarts(r) ==
  /\ CapAt(r, "alloc", "loop")
  /\ UNCHANGED <<flags, fileVars, ringVars, codec, appVars, cbuf, captured, wrVars, ghosts>>

CaptureLoops(r) ==
  /\ CapAt(r, "loop", IF stopReq THEN "end" ELSE "read")
  /\ UNCHANGED <<flags, fileVars, ringVars, codec, appVars, cbuf, captured, wrVars, ghosts>>

CaptureReads(r) ==
  /\ CapAt(r, "read", "send")
  /\ codec
  /\ captured[r] + BufLen <= MaxUnits
  /\ captured' = [captured EXCEPT ![r] = @ + BufLen]
  /\ cbuf' = [cbuf EXCEPT ![r] = [i \in 1 .. BufLen |-> <<r, captured[r] + i>>]]
  /\ UNCHANGED <<flags, fileVars, ringVars, codec, appVars, wrVars, ghosts>>

(* The bound: past MaxUnits the task goes round its loop without a sound.  *)
CaptureReadsNoMore(r) ==
  /\ CapAt(r, "read", "loop")
  /\ captured[r] + BufLen > MaxUnits
  /\ UNCHANGED <<flags, fileVars, ringVars, codec, appVars, cbuf, captured, wrVars, ghosts>>

(* Faulty: "return" for "break", the done flag is never set.               *)
CaptureReadFailsMutant(r) ==
  /\ CapAt(r, "read", "gone")
  /\ recording' = FALSE /\ stopReq' = TRUE
  /\ UNCHANGED <<capDone, wrDone, fileVars, ringVars, codec, appVars, cbuf, captured, wrVars, ghosts>>

CaptureReadFails(r) ==
  /\ CapAt(r, "read", "end")
  /\ recording' = FALSE /\ stopReq' = TRUE
  /\ UNCHANGED <<capDone, wrDone, fileVars, ringVars, codec, appVars, cbuf, captured, wrVars, ghosts>>

(* The inner loop tests the stop request between two recordBufferWrite.    *)
CaptureTestsStop(r) ==
  /\ CapAt(r, "send", IF stopReq THEN "loop" ELSE "sending")
  /\ cbuf' = IF stopReq THEN [cbuf EXCEPT ![r] = << >>] ELSE cbuf
  /\ UNCHANGED <<flags, fileVars, ringVars, codec, appVars, captured, wrVars, ghosts>>

Fits(r) ==
  IF Len(cbuf[r]) <= RingCap - Len(ring) THEN Len(cbuf[r]) ELSE RingCap - Len(ring)

Sends(r, n) ==
  /\ ring' = ring \o SubSeq(cbuf[r], 1, n)
  /\ cbuf' = [cbuf EXCEPT ![r] = SubSeq(@, n + 1, Len(@))]
  /\ UNCHANGED <<flags, fileVars, ringUp, codec, appVars, captured, wrVars, ghosts>>

(* Faulty: sends the whole buffer whatever room there is.                  *)
CaptureSendsAllMutant(r) ==
  /\ CapAt(r, "sending", "loop")
  /\ ringUp /\ Len(ring) < RingCap
  /\ Sends(r, Len(cbuf[r]))

(* Faulty: what does not fit is dropped.                                   *)
CaptureSendsSomeMutant(r) ==
  /\ CapAt(r, "sending", "loop")
  /\ ringUp /\ Len(ring) < RingCap
  /\ Sends(r, Fits(r))

(* recordBufferWrite sends the buffer, or as much of it as fits; the rest  *)
(* is sent by the same call, or by the next one.                           *)
CaptureSends(r) ==
  /\ Running /\ cpc[r] = "sending"
  /\ ringUp /\ Len(ring) < RingCap
  /\ \E next \in IF Fits(r) = Len(cbuf[r]) THEN {"loop"} ELSE {"sending", "send"} :
       cpc' = [cpc EXCEPT ![r] = next]
  /\ Sends(r, Fits(r))

CaptureFindsNoRoom(r) ==
  /\ CapAt(r, "sending", "send")
  /\ ~ringUp \/ Len(ring) = RingCap
  /\ UNCHANGED <<flags, fileVars, ringVars, codec, appVars, cbuf, captured, wrVars, ghosts>>

CaptureEnds(r) ==
  /\ CapAt(r, "end", "gone")
  /\ capDone' = TRUE
  /\ UNCHANGED <<recording, stopReq, wrDone, fileVars, ringVars, codec, appVars, cbuf, captured, wrVars, ghosts>>

Capture(r) ==
  \/ CaptureCannotStart(r) \/ CaptureStarts(r)
  \/ CaptureLoops(r) \/ CaptureReads(r) \/ CaptureReadsNoMore(r)
  \/ CaptureReadFails(r) \/ CaptureTestsStop(r)
  \/ CaptureSends(r) \/ CaptureFindsNoRoom(r) \/ CaptureEnds(r)

-------------------------------------------------------------------------------
(* recordWriterTask of recording r.                                        *)

WriterCannotStart(r) ==
  /\ WrAt(r, "alloc", "gone")
  /\ recording' = FALSE /\ wrDone' = TRUE
  /\ writerFailed' = [writerFailed EXCEPT ![r] = TRUE]
  /\ UNCHANGED <<stopReq, capDone, fileVars, ringVars, codec, appVars, capVars, wbuf, overlap, gaveUp, headerFailed, fault>>

WriterStarts(r) ==
  /\ WrAt(r, "alloc", "loop")
  /\ UNCHANGED <<flags, fileVars, ringVars, codec, appVars, capVars, wbuf, ghosts>>

(* Faulty: does not wait for the capture task's last send.                 *)
DrainedMutant == stopReq /\ ring = << >>

(* The loop goes on until stopped, captured to the end, and drained.       *)
Drained == stopReq /\ capDone /\ ring = << >>

(* recordBufferRead: up to a buffer, less when the ring runs dry for 10 ms. *)
WriterReceives(r) ==
  /\ WrAt(r, "loop", "write")
  /\ ringUp /\ ring # << >>
  /\ \E n \in 1 .. BufLen :
       /\ n <= Len(ring)
       /\ wbuf' = [wbuf EXCEPT ![r] = SubSeq(ring, 1, n)]
       /\ ring' = SubSeq(ring, n + 1, Len(ring))
  /\ UNCHANGED <<flags, fileVars, ringUp, codec, appVars, capVars, ghosts>>

WriterWrites(r) ==
  /\ WrAt(r, "write", "count")
  /\ file # 0
  /\ data' = [data EXCEPT ![file] = @ \o wbuf[r]]
  /\ UNCHANGED <<flags, dataBytes, file, header, ringVars, codec, appVars, capVars, wbuf, ghosts>>

(* A short write: part of the buffer may be in the file.                   *)
WriterWritesShort(r) ==
  /\ WrAt(r, "write", "end")
  /\ IF file = 0
     THEN UNCHANGED <<data, writerFailed>>
     ELSE /\ \E n \in 0 .. Len(wbuf[r]) - 1 :
               data' = [data EXCEPT ![file] = @ \o SubSeq(wbuf[r], 1, n)]
          /\ writerFailed' = [writerFailed EXCEPT ![file] = TRUE]
  /\ recording' = FALSE /\ stopReq' = TRUE
  /\ wbuf' = [wbuf EXCEPT ![r] = << >>]
  /\ UNCHANGED <<capDone, wrDone, dataBytes, file, header, ringVars, codec, appVars, capVars, overlap, gaveUp, headerFailed, fault>>

WriterCounts(r) ==
  /\ WrAt(r, "count", "loop")
  /\ dataBytes' = dataBytes + Len(wbuf[r])
  /\ wbuf' = [wbuf EXCEPT ![r] = << >>]
  /\ UNCHANGED <<flags, file, data, header, ringVars, codec, appVars, capVars, ghosts>>

WriterLeaves(r) ==
  /\ WrAt(r, "loop", "end")
  /\ ringUp /\ Drained
  /\ UNCHANGED <<flags, fileVars, ringVars, codec, appVars, capVars, wbuf, ghosts>>

(* The loop's last test asks a ring that is nullptr for its free size.     *)
WriterFindsNoRing(r) ==
  /\ WrAt(r, "loop", "loop")
  /\ ~ringUp /\ stopReq /\ capDone
  /\ fault' = "writer"
  /\ UNCHANGED <<flags, fileVars, ringVars, codec, appVars, capVars, wbuf, overlap, gaveUp, writerFailed, headerFailed>>

WriterEnds(r) ==
  /\ WrAt(r, "end", "gone")
  /\ wrDone' = TRUE
  /\ UNCHANGED <<recording, stopReq, capDone, fileVars, ringVars, codec, appVars, capVars, wbuf, ghosts>>

Writer(r) ==
  \/ WriterCannotStart(r) \/ WriterStarts(r)
  \/ WriterReceives(r) \/ WriterWrites(r) \/ WriterWritesShort(r)
  \/ WriterCounts(r) \/ WriterLeaves(r) \/ WriterFindsNoRing(r)
  \/ WriterEnds(r)

-------------------------------------------------------------------------------
Next ==
  \/ CallStop \/ CallStart \/ App
  \/ \E r \in Recs : Capture(r) \/ Writer(r)

Spec == Init /\ [][Next]_vars

(* The tasks and a call in progress get CPU time; nothing makes the        *)
(* application call.                                                       *)
FairSpec ==
  /\ Spec
  /\ WF_vars(App)
  /\ \A r \in Recs : WF_vars(Capture(r)) /\ WF_vars(Writer(r))

-------------------------------------------------------------------------------
(* Every variable has its type.                                            *)
Unit == Recs \X (1 .. MaxUnits)
TypeOK ==
  /\ recording \in BOOLEAN /\ stopReq \in BOOLEAN
  /\ capDone \in BOOLEAN /\ wrDone \in BOOLEAN
  /\ dataBytes \in Nat /\ file \in 0 .. MaxRecs
  /\ \A r \in Recs : data[r] \in Seq(Unit) /\ header[r] \in Nat \union {-1}
  /\ ringUp \in BOOLEAN /\ ring \in Seq(Unit) /\ Len(ring) <= RingCap
  /\ codec \in BOOLEAN
  /\ recs \in 0 .. MaxRecs
  /\ \A r \in Recs : cbuf[r] \in Seq(Unit) /\ Len(cbuf[r]) <= BufLen
  /\ \A r \in Recs : wbuf[r] \in Seq(Unit) /\ Len(wbuf[r]) <= BufLen

(* Unless a recording is started over the tasks of an earlier one, a file  *)
(* holds an unbroken beginning of what its own capture task captured: no   *)
(* unit is dropped on a full ring, repeated or reordered, also when        *)
(* reading, writing or stopping goes wrong on the way.                     *)
FilesHaveNoGaps ==
  overlap \/ \A r \in Recs :
    data[r] = [k \in 1 .. Len(data[r]) |-> <<r, k>>]

(* When stopRecord() closes the file, the header counts exactly the data   *)
(* behind it, unless the writer failed, or stopRecord() gave up on it, or  *)
(* tasks of an earlier recording are about.  A header that could not be    *)
(* finalised (stopRecord() ignores the result) counts nothing: it is the   *)
(* one startRecord() wrote, never a size of some other moment.             *)
HeaderIsExact ==
  app = "teardown" =>
    \/ overlap \/ gaveUp \/ writerFailed[recs]
    \/ header[recs] = IF headerFailed[recs] THEN 0 ELSE Len(data[recs])

(* stopRecord() loses nothing that had reached the ring: when it starts to *)
(* finalise the file, the ring is drained, with the same exceptions.       *)
StopLosesNothing ==
  app = "finalize" =>
    overlap \/ gaveUp \/ writerFailed[recs] \/ ring = << >>

(* stopRecord() never takes the ring from under a task that is using it or *)
(* will use it, unless it gave up or tasks of an earlier recording are     *)
(* about.                                                                  *)
RingOutlivesTasks == fault \in {"stop", "writer"} => gaveUp \/ overlap

(* stopRecord() does not have to give up: neither a full ring nor a failed *)
(* task keeps it waiting for a done flag that never comes.                 *)
StopReturns == app = "join" ~> (app # "join" \/ ~Running)

(* "stopRecord() stops the recording": when it has returned, no capture    *)
(* task goes on recording without having been told to stop.                *)
StoppedMeansStopped ==
  app = "idle" /\ lastCall = "stop" => \A r \in Recs : CapAlive(r) => stopReq
===============================================================================
