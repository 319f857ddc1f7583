--------------------------------- MODULE Speech ---------------------------------
(***************************************************************************)
(* One codec device and its four users in Audio.cpp: playback, recording,  *)
(* text to speech and speech recognition.  openCodecDevice() and           *)
(* closeCodecDevice() keep two records of the same fact, _codecDeviceOpened*)
(* with its rate in Audio and input_opened/output_opened in esp_codec_dev, *)
(* and no lock guards either.  Speeches queue on _ttsSemaphore; recording  *)
(* and recognition exclude each other by two flags; recognition answers a  *)
(* wake word with a speech and creates the semaphore if nobody has.        *)
(*                                                                         *)
(* A read with the decision taken on it, and each call of a driver, is a   *)
(* step.  Playback and recording are here only as users of the device (the *)
(* modules AudioPlay and AudioRecord have them in full); the recogniser is *)
(* an external library that may answer anything.                           *)
(***************************************************************************)
EXTENDS Integers, FiniteSets

CONSTANTS
  Speeches,   \* bound: the tasks textToSpeech() creates
  Runs,       \* bound: recognitions whose tasks may be there at one time
  MaxUses,    \* bound: playbacks, recordings and recognitions that begin
              \* beside tasks of an earlier one, together
  Rates,      \* sample rates music may have
  Voice       \* 16000, the rate of speech, recognition and recording

ASSUME SpeechAssumption ==
  /\ "app" \notin Speeches /\ "dec" \notin Speeches
  /\ IsFiniteSet(Runs) /\ "app" \notin Runs /\ "none" \notin Runs
  /\ MaxUses \in Nat
  /\ 0 \notin Rates /\ Voice # 0

VARIABLES
  pc,        \* where each user of the device is
  op,        \* what the application's call is for
  music,     \* the rate of the music
  opened,    \* _codecDeviceOpened
  rate,      \* _codecSampleRate, 0 when not opened
  codec,     \* the driver: open, working, at which rate
  begun,     \* _begun: the device has been created
  inited,    \* _ttsInitialized
  sem,       \* _ttsSemaphore, 0 for nullptr
  made,      \* how many semaphores have been created
  token,     \* which of them are free
  waits,     \* the semaphore each speech waits for
  dpc,       \* where the detect task of each recognition is
  feeding,   \* the recognitions whose feed task is alive
  afe,       \* _srAfeData: the recogniser that exists, or "none"
  srFlag,    \* _srTaskFlag
  done,      \* bits of _srDoneEvent
  recording, \* _recording
  capture,   \* the capture task is alive
  uses,      \* how many of MaxUses there were
  muddled,   \* ghost: two users were inside the device's functions at once, or
             \* the driver has failed to open
  disturbed, \* ghost: before that, speeches since whose open another user opened
             \* or closed
  replaced,  \* ghost: an initialiser overwrote a semaphore
  timedOut,  \* ghost: tasks outlasted a join of this recognition, or of one
             \* before whose tasks were still there when it began
  orphan,    \* ghost: the capture task was left behind by its recording
  fault      \* ghost: what the program died of

device == <<opened, rate, codec>>
users == <<pc, op, music, begun>>
tts == <<inited, sem, made, token, waits, replaced>>
sr == <<dpc, feeding, afe, srFlag, done>>
rec == <<recording, capture, orphan>>
hazy == <<muddled, disturbed>>
other == <<timedOut, fault>>
vars == <<device, users, tts, sr, rec, uses, hazy, other>>

Users == {"app", "dec"} \cup Speeches
Go(u, label) == pc' = [pc EXCEPT ![u] = label]
Want(u) == IF u = "dec" THEN music ELSE Voice

(***************************************************************************)
(* openCodecDevice(), closeCodecDevice() and esp_codec_dev_open/close      *)
(***************************************************************************)
Inside == {"reclose", "reflags", "device", "publish", "closeflags"}
Speaking == {"reclose", "reflags", "device", "publish", "opened"}
Holding == Speaking \cup {"open", "failed", "give"}

Muddles(u) == muddled' = (muddled \/ \E v \in Users \ {u} : pc[v] \in Inside)
Disturbs(u) ==
  disturbed' = IF muddled' THEN {}
               ELSE disturbed \cup {t \in Speeches \ {u} : pc[t] \in Speaking}

Remembers == disturbed' = IF muddled' THEN {} ELSE disturbed

\* Reuse whatever is open.
OpenDecidesMutant(u) ==
  /\ pc[u] = "open"
  /\ Go(u, IF opened THEN "opened" ELSE "device")
  /\ Muddles(u) /\ Remembers /\ UNCHANGED device

\* A speech, which nobody asks to begin, may find no device.
OpenDecides(u) ==
  /\ pc[u] = "open"
  /\ Go(u, IF ~begun THEN "failed"
           ELSE IF opened /\ rate = Want(u) THEN "opened"
           ELSE IF opened THEN "reclose" ELSE "device")
  /\ Muddles(u) /\ Remembers /\ UNCHANGED device

Closed == [open |-> FALSE, works |-> FALSE, rate |-> 0]

\* esp_codec_dev_close()
CloseDriver(u) ==
  /\ \/ pc[u] = "reclose" /\ Go(u, "reflags")
     \/ pc[u] = "close" /\ Go(u, "closeflags")
  /\ codec' = Closed
  /\ Muddles(u) /\ Disturbs(u) /\ UNCHANGED <<opened, rate>>

CloseFlags(u) ==
  /\ \/ pc[u] = "reflags" /\ Go(u, "device")
     \/ pc[u] = "closeflags" /\ Go(u, "closed")
  /\ opened' = FALSE /\ rate' = 0
  /\ Muddles(u) /\ Disturbs(u) /\ UNCHANGED codec

\* esp_codec_dev_open(): at once when it is marked open, even by a failed call.
\* A failure of the codec is reported, one of its data interface is not.
OpenDriver(u) ==
  /\ pc[u] = "device"
  /\ \/ codec.open /\ Go(u, "publish") /\ Muddles(u) /\ UNCHANGED codec
     \/ /\ ~codec.open
        /\ codec' = [open |-> TRUE, works |-> TRUE, rate |-> Want(u)]
        /\ Go(u, "publish") /\ Muddles(u)
     \/ /\ ~codec.open
        /\ codec' = [open |-> TRUE, works |-> FALSE, rate |-> Want(u)]
        /\ Go(u, "failed") \/ Go(u, "publish")
        /\ muddled' = TRUE
  /\ Disturbs(u) /\ UNCHANGED <<opened, rate>>

Publish(u) ==
  /\ pc[u] = "publish" /\ Go(u, "opened")
  /\ opened' = TRUE /\ rate' = Want(u)
  /\ Muddles(u) /\ Disturbs(u) /\ UNCHANGED codec

DeviceStep(u) ==
  /\ OpenDecides(u) \/ CloseDriver(u) \/ CloseFlags(u) \/ OpenDriver(u) \/ Publish(u)
  /\ UNCHANGED <<op, music, begun, tts, sr, rec, uses, other>>

(***************************************************************************)
(* Text to speech: ttsInit(), textToSpeech() and ttsTask()                 *)
(***************************************************************************)
\* Where an initialiser stands: the application's own call, or a detect task.
Initialisers == {"app"} \cup Runs
At(w) == IF w = "app" THEN pc["app"] ELSE dpc[w]
MoveTo(w, label) ==
  IF w = "app" THEN Go("app", label) /\ UNCHANGED dpc
  ELSE dpc' = [dpc EXCEPT ![w] = label] /\ UNCHANGED pc
Afterwards(w) == IF w = "app" THEN "idle" ELSE "reply"
GivesUp(w) == MoveTo(w, IF w = "app" THEN "idle" ELSE "reset")

\* _ttsInitialized is not looked at.
InitChecksMutant(w) ==
  /\ At(w) = "init" /\ MoveTo(w, "create")
  /\ UNCHANGED <<inited, sem, made, token, replaced>>

InitChecks(w) ==
  /\ At(w) = "init" /\ MoveTo(w, IF inited THEN Afterwards(w) ELSE "create")
  /\ UNCHANGED <<inited, sem, made, token, replaced>>

\* Several initialisers may be here: the last one's semaphore, or its nullptr,
\* replaces the others'.  Before that the voice cannot be had.
InitCreates(w) ==
  /\ At(w) = "create"
  /\ \/ /\ made' = made + 1 /\ sem' = made + 1 /\ token' = token \cup {made + 1}
        /\ replaced' = (replaced \/ sem # 0)
        /\ MoveTo(w, "ready")
     \/ /\ sem' = 0 /\ replaced' = (replaced \/ sem # 0)
        /\ GivesUp(w) /\ UNCHANGED <<made, token>>
     \/ GivesUp(w) /\ UNCHANGED <<sem, made, token, replaced>>
  /\ UNCHANGED inited

InitDone(w) ==
  /\ At(w) = "ready" /\ inited' = TRUE /\ MoveTo(w, Afterwards(w))
  /\ UNCHANGED <<sem, made, token, replaced>>

InitStep(w) ==
  /\ InitChecks(w) \/ InitCreates(w) \/ InitDone(w)
  /\ UNCHANGED <<device, op, music, begun, waits, feeding, afe, srFlag, done, rec,
                 uses, hazy, other>>

\* The task is created; when it cannot be, nothing is said.
Speaks == inited /\ \E t \in Speeches : pc[t] = "off" /\ Go(t, "ask")

AppSpeaks ==
  /\ pc["app"] = "idle" /\ Speaks
  /\ UNCHANGED <<device, op, music, begun, tts, sr, rec, uses, hazy, other>>

\* The kernel asserts that there is a semaphore.
Asserts == fault' = IF sem = 0 THEN "semaphore" ELSE fault

SpeechAsks(t) ==
  /\ pc[t] = "ask" /\ Go(t, "take") /\ waits' = [waits EXCEPT ![t] = sem]
  /\ Asserts
  /\ UNCHANGED <<token, disturbed>>

\* The outcome of xSemaphoreTake is not looked at, and it gives up.
SpeechTakesMutant(t) ==
  /\ pc[t] = "take" /\ Go(t, "open") /\ token' = token \ {waits[t]}
  /\ UNCHANGED <<waits, disturbed, fault>>

SpeechTakes(t) ==
  /\ pc[t] = "take" /\ waits[t] \in token
  /\ token' = token \ {waits[t]} /\ Go(t, "open")
  /\ UNCHANGED <<waits, disturbed, fault>>

\* The last of the writes to the device, whose results are not looked at.
SpeechWrites(t) ==
  /\ pc[t] = "opened" /\ Go(t, "give") /\ UNCHANGED <<token, waits, disturbed, fault>>

\* A failed open leaves without giving the semaphore back.
SpeechFindsNoDeviceMutant(t) ==
  /\ pc[t] = "failed" /\ Go(t, "done") /\ UNCHANGED <<token, waits, disturbed, fault>>

SpeechFindsNoDevice(t) ==
  /\ pc[t] = "failed" /\ Go(t, "give") /\ UNCHANGED <<token, waits, disturbed, fault>>

SpeechGives(t) ==
  /\ pc[t] = "give" /\ token' = token \cup ({sem} \ {0}) /\ Go(t, "done")
  /\ Asserts
  /\ disturbed' = disturbed \ {t} /\ waits' = [waits EXCEPT ![t] = 0]

SpeechStep(t) ==
  /\ SpeechAsks(t) \/ SpeechTakes(t) \/ SpeechWrites(t) \/ SpeechFindsNoDevice(t)
       \/ SpeechGives(t)
  /\ UNCHANGED <<device, op, music, begun, inited, sem, made, replaced, sr, rec, uses,
                 muddled, timedOut>>

AppInits ==
  /\ pc["app"] = "idle" /\ Go("app", "init")
  /\ UNCHANGED <<device, op, music, begun, tts, sr, rec, uses, hazy, other>>

(***************************************************************************)
(* Speech recognition: srBegin(), srEnd() and the two tasks                *)
(***************************************************************************)
Alive(r) == dpc[r] # "off" \/ r \in feeding

\* It does not look for tasks of an earlier recognition.
SrBegin(r) ==
  /\ pc["app"] = "idle" /\ afe = "none" /\ ~recording /\ ~Alive(r)
  /\ IF \E q \in Runs : Alive(q)
     THEN uses < MaxUses /\ uses' = uses + 1 /\ UNCHANGED timedOut
     ELSE timedOut' = FALSE /\ UNCHANGED uses
  /\ afe' = r /\ begun' = TRUE /\ Go("app", "open") /\ op' = "sr"
  /\ UNCHANGED <<device, music, tts, dpc, feeding, srFlag, done, rec, hazy, fault>>

SrFindsNoDevice ==
  /\ pc["app"] = "failed" /\ op = "sr"
  /\ afe' = "none" /\ done' = {} /\ Go("app", "idle") /\ op' = "none"
  /\ UNCHANGED <<dpc, feeding, srFlag, timedOut>>

\* speechRecognitionDeinitInternal(), whose last act is to close the device.
Deinit == afe' = "none" /\ done' = {} /\ Go("app", "close") /\ op' = "close"

SrStartsDetect ==
  /\ pc["app"] = "opened" /\ op = "sr"
  /\ \/ /\ srFlag' = TRUE /\ done' = {} /\ dpc' = [dpc EXCEPT ![afe] = "start"]
        /\ Go("app", "spawn") /\ UNCHANGED <<afe, op>>
     \/ Deinit /\ UNCHANGED <<srFlag, dpc>>
  /\ UNCHANGED <<feeding, timedOut>>

SrStartsFeed ==
  /\ pc["app"] = "spawn"
  /\ \/ /\ feeding' = feeding \cup {afe} /\ Go("app", "idle") /\ op' = "none"
        /\ UNCHANGED srFlag
     \/ srFlag' = FALSE /\ op' = "detect" /\ Go("app", "join") /\ UNCHANGED feeding
  /\ UNCHANGED <<dpc, afe, done, timedOut>>

SrEnd ==
  /\ pc["app"] = "idle" /\ afe # "none"
  /\ srFlag' = FALSE /\ op' = "both" /\ Go("app", "join")
  /\ UNCHANGED <<dpc, feeding, afe, done, timedOut>>

\* Waiting for any of the bits.
JoinedMutant == done # {}

Joined == IF op = "both" THEN done = {"feed", "detect"} ELSE "detect" \in done

\* xEventGroupWaitBits with eight seconds; what follows does not depend on it.
SrJoins ==
  /\ pc["app"] = "join"
  /\ timedOut' = (timedOut \/ ~Joined)
  /\ Deinit
  /\ UNCHANGED <<dpc, feeding, srFlag>>

SrStep ==
  /\ SrFindsNoDevice \/ SrStartsDetect \/ SrStartsFeed \/ SrEnd \/ SrJoins
  /\ UNCHANGED <<device, music, begun, tts, rec, uses, hazy, fault>>

\* A task's bit, if there is an event group, be it its own or a later one.
Sets(bit) == done' = IF afe # "none" THEN done \cup {bit} ELSE done

\* A task keeps to the recogniser it began with.
Uses(r) == fault' = IF afe = r THEN fault ELSE "engine"

DetectMoves(r, label) == dpc' = [dpc EXCEPT ![r] = label]

\* multinet is created, or not.
DetectStarts(r) ==
  /\ dpc[r] = "start"
  /\ \/ DetectMoves(r, "fetch") /\ UNCHANGED done
     \/ DetectMoves(r, "off") /\ Sets("detect")
  /\ UNCHANGED <<pc, fault>>

\* One turn of the loop: a wake word, or an error, or the flag has been cleared.
DetectFetches(r) ==
  /\ dpc[r] = "fetch"
  /\ \/ srFlag /\ Uses(r) /\ DetectMoves(r, "init") /\ UNCHANGED done
     \/ srFlag /\ Uses(r) /\ DetectMoves(r, "off") /\ Sets("detect")
     \/ ~srFlag /\ DetectMoves(r, "off") /\ Sets("detect") /\ UNCHANGED fault
  /\ UNCHANGED pc

\* The wake word is answered, if there is a voice, and the recogniser is reset.
DetectReplies(r) ==
  /\ dpc[r] \in {"reply", "reset"} /\ DetectMoves(r, "fetch") /\ Uses(r)
  /\ (dpc[r] = "reply" /\ Speaks) \/ UNCHANGED pc
  /\ UNCHANGED done

DetectStep(r) ==
  /\ DetectStarts(r) \/ DetectFetches(r) \/ DetectReplies(r)
  /\ UNCHANGED <<device, op, music, begun, tts, feeding, afe, srFlag, rec, uses,
                 hazy, timedOut>>

\* What is read from an open device is fed to the recogniser.
FeedFeeds(r) ==
  /\ r \in feeding /\ codec.open /\ afe # r
  /\ fault' = "engine" /\ UNCHANGED <<feeding, done>>

\* The flag has been cleared, or there was no memory to begin with.
FeedEnds(r) ==
  /\ r \in feeding /\ feeding' = feeding \ {r} /\ Sets("feed")
  /\ UNCHANGED fault

FeedStep(r) ==
  /\ FeedFeeds(r) \/ FeedEnds(r)
  /\ UNCHANGED <<device, users, tts, dpc, afe, srFlag, rec, uses, hazy, timedOut>>

(***************************************************************************)
(* Playback and recording as users of the device                           *)
(***************************************************************************)
Play ==
  /\ pc["app"] = "idle" /\ pc["dec"] = "off" /\ uses < MaxUses
  /\ music' \in Rates
  /\ Go("dec", "open") /\ uses' = uses + 1 /\ begun' = TRUE
  /\ UNCHANGED <<op, rec>>

\* After its wait for the decode task, over or not.
Stop ==
  /\ pc["app"] = "idle" /\ pc["dec"] # "off"
  /\ Go("app", "close") /\ op' = "close"
  /\ UNCHANGED <<music, begun, uses, rec>>

\* The end of the music, a stop request, or a failure: it always closes.
DecodeEnds ==
  /\ \/ pc["dec"] \in {"open", "opened", "failed"} /\ Go("dec", "close") /\ UNCHANGED music
     \/ pc["dec"] = "closed" /\ Go("dec", "off") /\ music' = 0
  /\ UNCHANGED <<op, begun, uses, rec>>

\* Without the test of _srTaskFlag.
StartRecordMutant ==
  /\ pc["app"] = "idle" /\ ~recording /\ ~capture /\ uses < MaxUses
  /\ begun' = TRUE
  /\ Go("app", "open") /\ op' = "record" /\ uses' = uses + 1
  /\ UNCHANGED <<music, rec>>

\* (Bound: not beside the capture task that an earlier failure left behind.)
StartRecord ==
  /\ pc["app"] = "idle" /\ ~recording /\ ~capture /\ uses < MaxUses
  /\ begun' = TRUE /\ ~srFlag
  /\ Go("app", "open") /\ op' = "record" /\ uses' = uses + 1
  /\ UNCHANGED <<music, rec>>

\* Both tasks run; or the writer task cannot be created, and the capture task,
\* told to stop, is left to itself; or its file or its buffer cannot be had, or
\* no task.
StartRecordEnds ==
  /\ op = "record"
  /\ \/ pc["app"] = "failed" /\ Go("app", "idle") /\ op' = "none" /\ UNCHANGED rec
     \/ /\ pc["app"] = "opened" /\ Go("app", "idle") /\ op' = "none"
        /\ recording' = TRUE /\ capture' = TRUE /\ UNCHANGED orphan
     \/ /\ pc["app"] = "opened" /\ Go("app", "close") /\ op' = "close"
        /\ capture' = TRUE /\ orphan' = TRUE /\ UNCHANGED recording
     \/ pc["app"] = "opened" /\ Go("app", "close") /\ op' = "close" /\ UNCHANGED rec
  /\ UNCHANGED <<music, begun, uses>>

\* After its wait for the tasks, over or not.
StopRecord ==
  /\ pc["app"] = "idle" /\ recording
  /\ \/ capture' = FALSE /\ UNCHANGED orphan
     \/ capture /\ orphan' = TRUE /\ UNCHANGED capture
  /\ Go("app", "close") /\ op' = "stopRecord"
  /\ UNCHANGED <<music, begun, uses, recording>>

\* A call that closed the device returns.
AppCloses ==
  /\ pc["app"] = "closed" /\ Go("app", "idle")
  /\ recording' = (recording /\ op # "stopRecord")
  /\ op' = "none"
  /\ UNCHANGED <<music, begun, uses, capture, orphan>>

UserStep ==
  /\ Play \/ Stop \/ DecodeEnds \/ StartRecord \/ StartRecordEnds \/ StopRecord \/ AppCloses
  /\ UNCHANGED <<device, tts, sr, hazy, other>>

\* A task of the recording fails and clears _recording; only the capture task
\* ends with it when it is the one.
RecordFails ==
  /\ recording /\ capture /\ recording' = FALSE
  /\ \/ capture' = FALSE /\ orphan' = FALSE
     \/ orphan' = TRUE /\ UNCHANGED capture
  /\ UNCHANGED <<device, users, tts, sr, uses, hazy, other>>

\* A capture task that was left behind leaves its loop.
CaptureEnds ==
  /\ capture /\ orphan /\ capture' = FALSE /\ orphan' = FALSE
  /\ UNCHANGED <<device, users, tts, sr, recording, uses, hazy, other>>

Init ==
  /\ pc = [u \in Users |-> IF u = "app" THEN "idle" ELSE "off"]
  /\ op = "none" /\ music = 0 /\ begun = FALSE
  /\ opened = FALSE /\ rate = 0 /\ codec = Closed
  /\ inited = FALSE /\ sem = 0 /\ made = 0 /\ token = {}
  /\ waits = [t \in Speeches |-> 0]
  /\ dpc = [r \in Runs |-> "off"] /\ feeding = {} /\ afe = "none"
  /\ srFlag = FALSE /\ done = {}
  /\ recording = FALSE /\ capture = FALSE /\ orphan = FALSE
  /\ uses = 0
  /\ muddled = FALSE /\ disturbed = {} /\ replaced = FALSE
  /\ timedOut = FALSE /\ fault = "none"

Next ==
  /\ fault = "none"
  /\ \/ \E u \in Users : DeviceStep(u)
     \/ \E w \in Initialisers : InitStep(w)
     \/ AppInits \/ AppSpeaks \/ \E t \in Speeches : SpeechStep(t)
     \/ SrStep \/ \E r \in Runs : SrBegin(r) \/ DetectStep(r) \/ FeedStep(r)
     \/ UserStep \/ RecordFails \/ CaptureEnds

Spec == Init /\ [][Next]_vars

(***************************************************************************)
(* Properties                                                              *)
(***************************************************************************)
DeviceLabels == Inside \cup {"open", "opened", "failed", "close", "closed"}

\* Every variable has its type; no initialiser makes two semaphores.
TypeOK ==
  /\ pc \in [Users -> DeviceLabels \cup {"off", "idle", "init", "create", "ready",
               "spawn", "join", "ask", "take", "give", "done"}]
  /\ op \in {"none", "sr", "close", "detect", "both", "record", "stopRecord"}
  /\ music \in Rates \cup {0} /\ begun \in BOOLEAN
  /\ opened \in BOOLEAN /\ rate \in Rates \cup {Voice, 0}
  /\ codec \in [open: BOOLEAN, works: BOOLEAN, rate: Rates \cup {Voice, 0}]
  /\ inited \in BOOLEAN /\ made \in 0 .. Cardinality(Initialisers)
  /\ sem \in 0 .. made /\ token \subseteq 1 .. made
  /\ waits \in [Speeches -> 0 .. made]
  /\ dpc \in [Runs -> {"off", "start", "fetch", "init", "create", "ready",
                       "reply", "reset"}]
  /\ feeding \subseteq Runs /\ afe \in Runs \cup {"none"} /\ srFlag \in BOOLEAN
  /\ done \subseteq {"feed", "detect"}
  /\ recording \in BOOLEAN /\ capture \in BOOLEAN /\ orphan \in BOOLEAN
  /\ uses \in 0 .. MaxUses
  /\ muddled \in BOOLEAN /\ disturbed \subseteq Speeches /\ replaced \in BOOLEAN
  /\ timedOut \in BOOLEAN /\ fault \in {"none", "engine", "semaphore"}

\* Two speeches never play at once, unless ttsInit() ran twice side by side, the
\* application's and the detect task's, and the second overwrote the semaphore.
SpeechIsSerial ==
  ~replaced =>
    \A t, u \in Speeches :
      (pc[t] \in Holding /\ pc[u] \in Holding) => t = u

\* The semaphore is never lost: it is there, and free, or one speech has it and
\* will give it back, on every path of ttsTask(); with the same exception.
SemaphoreIsKept ==
  inited /\ ~replaced =>
    /\ fault # "semaphore" /\ sem # 0
    /\ (sem \in token) # (\E t \in Speeches : pc[t] \in Holding)

\* While no other user has opened or closed the device since a speech opened it,
\* the speech is written to a working device at its own rate, whatever the others
\* did before; unless two of them were inside the device's functions at the same
\* time, or the driver once failed.
Audible(t) == codec.open /\ codec.works /\ codec.rate = Want(t)
SpeechHeard ==
  \A t \in Speeches : pc[t] = "opened" => Audible(t) \/ t \in disturbed \/ muddled

\* No two tasks ever read the microphone together, of recordings or recognitions,
\* unless a recording left its capture task behind or a join gave up.
MicHasOneReader ==
  /\ capture /\ feeding # {} => orphan \/ timedOut
  /\ \A q, r \in feeding : q # r => timedOut

\* A recogniser is not destroyed under its tasks, in whatever order recognitions
\* come and go, unless tasks outlasted the eight seconds of a join, and no
\* recognition began after they were gone.
EngineOutlivesTasks == fault = "engine" => timedOut
================================================================================
