------------------------------- MODULE AudioPlay -------------------------------
(***************************************************************************)
(* Playback control of Audio.cpp: the application calls play(), pause(),   *)
(* resume() and stop(); each play() allocates an AudioPlayContext and      *)
(* starts a read task and a decode task that share it.  Nothing counts the *)
(* users of a context: the decode task frees it when it ends, stop() frees *)
(* it after waiting for two task handles, and the read task just uses it.  *)
(* The handles, the two request flags, the play state and the pointer to   *)
(* the context are plain members read and written by all three.            *)
(*                                                                         *)
(* Playbacks are numbered; the number names the context and its two tasks. *)
(* The ring is a count of chunks here (PlayBuffer has its bytes).  A use   *)
(* of a freed context is undefined behaviour: it sets fault to the task    *)
(* that did it and the system stops.                                       *)
(***************************************************************************)
EXTENDS Integers, FiniteSets

CONSTANTS
  MaxPlays,   \* bound: how many times play() creates a context
  MaxChunks,  \* bound: chunks in each source
  Cap,        \* chunks the ring holds
  SlowSource, \* the source is a URL: http.GET may block for AUDIO_HTTP_TIMEOUT_MS
  SlowCodec   \* the codec may block the decode task longer than PLAY_STOP_WAIT_MS

ASSUME AudioPlayAssumption ==
  /\ MaxPlays \in Nat \ {0} /\ MaxChunks \in Nat /\ Cap \in Nat \ {0}
  /\ SlowSource \in BOOLEAN /\ SlowCodec \in BOOLEAN

VARIABLES
  heap,        \* per context: not allocated, live, or freed
  ctx,         \* per context: the fields the tasks share
  playContext, \* _playContext, 0 for nullptr
  readHandle,  \* _playReadTaskHandle, 0 for nullptr
  decHandle,   \* _playDecodeTaskHandle, 0 for nullptr
  playState,   \* _playState
  stopReq,     \* _playStopRequested
  pauseReq,    \* _playPauseRequested
  app,         \* where the application's call is
  then,        \* what follows the stop() in progress: "idle" or "create"
  loaded,      \* stop()'s local copy of _playContext
  plays,       \* contexts created so far
  rpc,         \* where each read task is
  left,        \* chunks each source still has
  dpc,         \* where each decode task is
  ok,          \* each decode task's local ok
  gaveUp,      \* ghost: a stop() stopped waiting for a decode task still alive
  late,        \* ghost: resume() published after the playback had ended
  fault        \* "none", or who used a freed context first

flagVars == <<playState, stopReq, pauseReq>>
handles == <<playContext, readHandle, decHandle>>
memory == <<heap, ctx>>
appVars == <<app, then, loaded, plays>>
readVars == <<rpc, left>>
decVars == <<dpc, ok>>
ghosts == <<gaveUp, late, fault>>
vars == <<flagVars, handles, memory, appVars, readVars, decVars, ghosts>>

Plays == 1 .. MaxPlays
NewContext == [stop |-> FALSE, readDone |-> FALSE, sourceReady |-> FALSE,
               initOk |-> FALSE, readTask |-> FALSE, count |-> 0]

Live(p) == heap[p] = "live"
Set(p, field, value) == ctx' = [ctx EXCEPT ![p][field] = value]

(* A task moves on to its next statement, unless the system has stopped.   *)
Running == fault = "none"
AppAt(from, to) == Running /\ app = from /\ app' = to
ReaderAt(p, from, to) ==
  Running /\ rpc[p] = from /\ rpc' = [rpc EXCEPT ![p] = to]
DecoderAt(p, from, to) ==
  Running /\ dpc[p] = from /\ dpc' = [dpc EXCEPT ![p] = to]
DecoderAlive(p) == dpc[p] \notin {"none", "gone"}

Init ==
  /\ heap = [p \in Plays |-> "none"]
  /\ ctx = [p \in Plays |-> NewContext]
  /\ playContext = 0 /\ readHandle = 0 /\ decHandle = 0
  /\ playState = "IDLE" /\ stopReq = FALSE /\ pauseReq = FALSE
  /\ app = "idle" /\ then = "idle" /\ loaded = 0 /\ plays = 0
  /\ rpc = [p \in Plays |-> "none"]
  /\ left = [p \in Plays |-> MaxChunks]
  /\ dpc = [p \in Plays |-> "none"]
  /\ ok = [p \in Plays |-> TRUE]
  /\ gaveUp = FALSE /\ late = FALSE /\ fault = "none"

-------------------------------------------------------------------------------
(* stop(), also the first thing play() does.                               *)

CallStop(next) ==
  /\ AppAt("idle", "stop")
  /\ next = "create" => plays < MaxPlays
  /\ then' = next
  /\ UNCHANGED <<flagVars, handles, memory, loaded, plays, readVars, decVars, ghosts>>

NothingToStop ==
  readHandle = 0 /\ decHandle = 0 /\ playState \in {"IDLE", "STOPPED", "ERROR"}

StopEnters ==
  /\ AppAt("stop", IF NothingToStop THEN then ELSE "stopLoad")
  /\ stopReq' = (stopReq \/ ~NothingToStop)
  /\ pauseReq' = (pauseReq /\ NothingToStop)
  /\ UNCHANGED <<playState, handles, memory, then, loaded, plays, readVars, decVars, ghosts>>

StopLoadsContext ==
  /\ AppAt("stopLoad", IF playContext = 0 THEN "stopWait" ELSE "stopMark")
  /\ loaded' = playContext
  /\ UNCHANGED <<flagVars, handles, memory, then, plays, readVars, decVars, ghosts>>

StopMarksContext ==
  /\ AppAt("stopMark", "stopWait")
  /\ Live(loaded)
  /\ Set(loaded, "stop", TRUE)
  /\ UNCHANGED <<flagVars, handles, heap, then, loaded, plays, readVars, decVars, ghosts>>

(* Faulty variants of a definition stand before it, named ...Mutant.  TLC  *)
(* is run with each of them in place of the definition, to see that a      *)
(* property notices.  This one does not wait for the handles.              *)
StopJoinsMutant ==
  /\ AppAt("stopWait", "stopReload")
  /\ UNCHANGED <<flagVars, handles, memory, then, loaded, plays, readVars, decVars, ghosts>>

StopJoins ==
  /\ AppAt("stopWait", "stopReload")
  /\ readHandle = 0 /\ decHandle = 0
  /\ UNCHANGED <<flagVars, handles, memory, then, loaded, plays, readVars, decVars, ghosts>>

(* PLAY_STOP_WAIT_MS have passed.  Every step of a task takes milliseconds *)
(* except a blocked http.GET and a blocked codec call, so by then a task   *)
(* is gone or is blocked in one of them.                                   *)
ReaderOutOfReach(p) == rpc[p] \in {"none", "gone"} \/ (SlowSource /\ rpc[p] = "init")
DecoderOutOfReach(p) == ~DecoderAlive(p) \/ (SlowCodec /\ dpc[p] \in {"work", "close"})

StopGivesUp ==
  /\ AppAt("stopWait", "stopReload")
  /\ readHandle # 0 \/ decHandle # 0
  /\ \A p \in Plays : ReaderOutOfReach(p) /\ DecoderOutOfReach(p)
  /\ gaveUp' = (gaveUp \/ \E p \in Plays : DecoderAlive(p))
  /\ UNCHANGED <<flagVars, handles, memory, then, loaded, plays, readVars, decVars, late, fault>>

(* Faulty: stop() frees the context it loaded before it waited.            *)
StopReloadsContextMutant ==
  /\ AppAt("stopReload", IF loaded = 0 THEN "stopEnd" ELSE "stopFree")
  /\ UNCHANGED <<flagVars, handles, memory, then, loaded, plays, readVars, decVars, ghosts>>

StopReloadsContext ==
  /\ AppAt("stopReload", IF playContext = 0 THEN "stopEnd" ELSE "stopFree")
  /\ loaded' = playContext
  /\ UNCHANGED <<flagVars, handles, memory, then, plays, readVars, decVars, ghosts>>

StopFreesContext ==
  /\ AppAt("stopFree", "stopEnd")
  /\ Live(loaded)
  /\ playContext' = 0
  /\ heap' = [heap EXCEPT ![loaded] = "freed"]
  /\ UNCHANGED <<flagVars, readHandle, decHandle, ctx, then, loaded, plays, readVars, decVars, ghosts>>

(* The handles are cleared, the codec closed, the state published.         *)
StopEnds ==
  /\ AppAt("stopEnd", then)
  /\ readHandle' = 0 /\ decHandle' = 0
  /\ playState' = "STOPPED"
  /\ UNCHANGED <<stopReq, pauseReq, playContext, memory, then, loaded, plays, readVars, decVars, ghosts>>

-------------------------------------------------------------------------------
(* The rest of play().                                                     *)

AllocationFails ==
  /\ AppAt("create", "idle")
  /\ UNCHANGED <<flagVars, handles, memory, then, loaded, plays, readVars, decVars, ghosts>>

CreatesContext ==
  /\ AppAt("create", "spawnReader")
  /\ plays' = plays + 1
  /\ heap' = [heap EXCEPT ![plays + 1] = "live"]
  /\ playContext' = plays + 1
  /\ stopReq' = FALSE /\ pauseReq' = FALSE /\ playState' = "PLAYING"
  /\ late' = FALSE
  /\ UNCHANGED <<readHandle, decHandle, ctx, then, loaded, readVars, decVars, gaveUp, fault>>

(* xTaskCreate stores the handle before the task can run.                  *)
SpawnsReader ==
  /\ AppAt("spawnReader", "noteReader")
  /\ readHandle' = plays
  /\ rpc' = [rpc EXCEPT ![plays] = "init"]
  /\ UNCHANGED <<flagVars, playContext, decHandle, memory, then, loaded, plays, left, decVars, ghosts>>

ReaderSpawnFails ==
  /\ AppAt("spawnReader", "idle")
  /\ readHandle' = 0 /\ playContext' = 0
  /\ heap' = [heap EXCEPT ![plays] = "freed"]
  /\ playState' = "ERROR"
  /\ UNCHANGED <<stopReq, pauseReq, decHandle, ctx, then, loaded, plays, readVars, decVars, ghosts>>

NotesReader ==
  /\ AppAt("noteReader", "spawnDecoder")
  /\ Live(plays)
  /\ Set(plays, "readTask", TRUE)
  /\ UNCHANGED <<flagVars, handles, heap, then, loaded, plays, readVars, decVars, ghosts>>

SpawnsDecoder ==
  /\ AppAt("spawnDecoder", "noteDecoder")
  /\ decHandle' = plays
  /\ dpc' = [dpc EXCEPT ![plays] = "wait"]
  /\ UNCHANGED <<flagVars, playContext, readHandle, memory, then, loaded, plays, readVars, ok, ghosts>>

DecoderSpawnFails ==
  /\ AppAt("spawnDecoder", "joinReader")
  /\ Live(plays)
  /\ Set(plays, "stop", TRUE)
  /\ UNCHANGED <<flagVars, handles, heap, then, loaded, plays, readVars, decVars, ghosts>>

(* The read task cleared its handle, or the 500 ms are over: it is blocked *)
(* in http.GET, or it cleared the handle before NotesReader set it.        *)
JoinsReader ==
  /\ AppAt("joinReader", "idle")
  /\ ~ctx[plays].readTask \/ ReaderOutOfReach(plays)
  /\ Live(plays)
  /\ readHandle' = 0 /\ decHandle' = 0 /\ playContext' = 0
  /\ heap' = [heap EXCEPT ![plays] = "freed"]
  /\ playState' = "ERROR"
  /\ UNCHANGED <<stopReq, pauseReq, ctx, then, loaded, plays, readVars, decVars, ghosts>>

(* ctx->decodeTaskHandle is written after the decode task was started.     *)
NotesDecoder ==
  /\ AppAt("noteDecoder", "idle")
  /\ Live(plays)
  /\ UNCHANGED <<flagVars, handles, memory, then, loaded, plays, readVars, decVars, ghosts>>

(* pause() and resume() refuse unless the state is the one they expect.    *)
Pause ==
  /\ Running /\ app = "idle" /\ playState = "PLAYING"
  /\ pauseReq' = TRUE
  /\ UNCHANGED <<playState, stopReq, handles, memory, appVars, readVars, decVars, ghosts>>

ResumeClearsRequest ==
  /\ AppAt("idle", "resume")
  /\ playState = "PAUSED"
  /\ pauseReq' = FALSE
  /\ UNCHANGED <<playState, stopReq, handles, memory, then, loaded, plays, readVars, decVars, ghosts>>

ResumePublishes ==
  /\ AppAt("resume", "idle")
  /\ playState' = "PLAYING"
  /\ late' = \A p \in Plays : dpc[p] \in {"none", "clear", "gone"}
  /\ UNCHANGED <<stopReq, pauseReq, handles, memory, then, loaded, plays, readVars, decVars, gaveUp, fault>>

AppCall ==
  \/ \E next \in {"idle", "create"} : CallStop(next)
  \/ Pause \/ ResumeClearsRequest

AppStep ==
  \/ StopEnters \/ StopLoadsContext \/ StopMarksContext
  \/ StopJoins \/ StopGivesUp
  \/ StopReloadsContext \/ StopFreesContext \/ StopEnds
  \/ AllocationFails \/ CreatesContext
  \/ SpawnsReader \/ ReaderSpawnFails \/ NotesReader
  \/ SpawnsDecoder \/ DecoderSpawnFails \/ JoinsReader \/ NotesDecoder
  \/ ResumePublishes

-------------------------------------------------------------------------------
(* The read task of playback p.                                            *)

ReaderOpens(p) ==
  /\ ReaderAt(p, "init", "ready")
  /\ Live(p) /\ Set(p, "initOk", TRUE)
  /\ UNCHANGED <<flagVars, handles, heap, appVars, left, decVars, ghosts>>

ReaderCannotOpen(p) ==
  /\ ReaderAt(p, "init", "done")
  /\ Live(p)
  /\ UNCHANGED <<flagVars, handles, memory, appVars, left, decVars, ghosts>>

ReaderPublishes(p) ==
  /\ ReaderAt(p, "ready", "fetch")
  /\ Live(p) /\ Set(p, "sourceReady", TRUE)
  /\ UNCHANGED <<flagVars, handles, heap, appVars, left, decVars, ghosts>>

ReaderFetches(p) ==
  /\ ReaderAt(p, "fetch", "push")
  /\ Live(p) /\ ~ctx[p].stop
  /\ left[p] > 0
  /\ left' = [left EXCEPT ![p] = @ - 1]
  /\ UNCHANGED <<flagVars, handles, memory, appVars, decVars, ghosts>>

(* Stopped, end of file, or the connection is gone.                        *)
ReaderLeavesLoop(p) ==
  /\ ReaderAt(p, "fetch", "done")
  /\ Live(p)
  /\ ctx[p].stop \/ left[p] = 0 \/ SlowSource
  /\ UNCHANGED <<flagVars, handles, memory, appVars, left, decVars, ghosts>>

ReaderPushes(p) ==
  /\ ReaderAt(p, "push", "fetch")
  /\ Live(p) /\ ~ctx[p].stop
  /\ ctx[p].count < Cap
  /\ Set(p, "count", ctx[p].count + 1)
  /\ UNCHANGED <<flagVars, handles, heap, appVars, left, decVars, ghosts>>

ReaderDropsChunk(p) ==
  /\ ReaderAt(p, "push", "fetch")
  /\ Live(p) /\ ctx[p].stop
  /\ UNCHANGED <<flagVars, handles, memory, appVars, left, decVars, ghosts>>

(* done: a source never announced is announced as failed.                  *)
ReaderAnnounces(p) ==
  /\ ReaderAt(p, "done", "finish")
  /\ Live(p)
  /\ IF ctx[p].sourceReady
     THEN UNCHANGED ctx
     ELSE ctx' = [ctx EXCEPT ![p].sourceReady = TRUE, ![p].initOk = FALSE]
  /\ UNCHANGED <<flagVars, handles, heap, appVars, left, decVars, ghosts>>

ReaderFinishes(p) ==
  /\ ReaderAt(p, "finish", "last")
  /\ Live(p) /\ Set(p, "readDone", TRUE)
  /\ UNCHANGED <<flagVars, handles, heap, appVars, left, decVars, ghosts>>

(* ctx->readTaskHandle = nullptr, after readDone let the decode task end.  *)
ReaderClearsHandle(p) ==
  /\ ReaderAt(p, "last", "gone")
  /\ Live(p) /\ Set(p, "readTask", FALSE)
  /\ UNCHANGED <<flagVars, handles, heap, appVars, left, decVars, ghosts>>

Reader(p) ==
  \/ ReaderOpens(p) \/ ReaderCannotOpen(p) \/ ReaderPublishes(p)
  \/ ReaderFetches(p) \/ ReaderLeavesLoop(p)
  \/ ReaderPushes(p) \/ ReaderDropsChunk(p)
  \/ ReaderAnnounces(p) \/ ReaderFinishes(p) \/ ReaderClearsHandle(p)

-------------------------------------------------------------------------------
(* The decode task of playback p.  The context it loads first is p: play() *)
(* published it before creating the task, and stop() waits for the task.   *)

SourceSettled(p) == ctx[p].sourceReady \/ ctx[p].stop \/ stopReq

DecoderSeesSource(p) ==
  /\ DecoderAt(p, "wait", "open")
  /\ Live(p) /\ SourceSettled(p) /\ ctx[p].initOk
  /\ UNCHANGED <<flagVars, handles, memory, appVars, readVars, ok, ghosts>>

(* Faulty: clears both handles, as the end of the task does.               *)
DecoderSeesNoSourceMutant(p) ==
  /\ DecoderAt(p, "wait", "gone")
  /\ Live(p) /\ SourceSettled(p) /\ ~ctx[p].initOk
  /\ readHandle' = 0 /\ decHandle' = 0
  /\ playState' = "ERROR"
  /\ UNCHANGED <<stopReq, pauseReq, playContext, memory, appVars, readVars, ok, ghosts>>

(* No usable source: the task leaves, the context and _playReadTaskHandle  *)
(* stay for the next stop().                                               *)
DecoderSeesNoSource(p) ==
  /\ DecoderAt(p, "wait", "gone")
  /\ Live(p) /\ SourceSettled(p) /\ ~ctx[p].initOk
  /\ decHandle' = 0
  /\ playState' = "ERROR"
  /\ UNCHANGED <<stopReq, pauseReq, playContext, readHandle, memory, appVars, readVars, ok, ghosts>>

DecoderCannotOpen(p) ==
  /\ DecoderAt(p, "open", "gone")
  /\ Live(p)
  /\ stopReq' = TRUE
  /\ decHandle' = 0
  /\ UNCHANGED <<playState, pauseReq, playContext, readHandle, memory, appVars, readVars, ok, ghosts>>

DecoderOpens(p) ==
  /\ DecoderAt(p, "open", "loop")
  /\ Live(p)
  /\ playState' = "PLAYING"
  /\ UNCHANGED <<stopReq, pauseReq, handles, memory, appVars, readVars, ok, ghosts>>

DecoderLoops(p) ==
  /\ DecoderAt(p, "loop", IF stopReq THEN "close" ELSE "pauseTest")
  /\ UNCHANGED <<flagVars, handles, memory, appVars, readVars, ok, ghosts>>

(* waitWhilePaused: the request is tested, then the state is written.      *)
DecoderTestsPause(p) ==
  /\ DecoderAt(p, "pauseTest", IF pauseReq /\ ~stopReq THEN "setPaused" ELSE "leavePause")
  /\ UNCHANGED <<flagVars, handles, memory, appVars, readVars, ok, ghosts>>

DecoderSetsPaused(p) ==
  /\ DecoderAt(p, "setPaused", "pauseDelay")
  /\ playState' = "PAUSED"
  /\ UNCHANGED <<stopReq, pauseReq, handles, memory, appVars, readVars, ok, ghosts>>

(* Faulty: PAUSED is written once, before the waiting loop.                *)
DecoderDelaysMutant(p) ==
  /\ DecoderAt(p, "pauseDelay", IF pauseReq /\ ~stopReq THEN "pauseDelay" ELSE "leavePause")
  /\ UNCHANGED <<flagVars, handles, memory, appVars, readVars, ok, ghosts>>

DecoderDelays(p) ==
  /\ DecoderAt(p, "pauseDelay", "pauseTest")
  /\ UNCHANGED <<flagVars, handles, memory, appVars, readVars, ok, ghosts>>

(* Faulty: relies on resume() having published PLAYING.                    *)
DecoderLeavesPauseMutant(p) ==
  /\ DecoderAt(p, "leavePause", IF stopReq THEN "close" ELSE "read")
  /\ UNCHANGED <<flagVars, handles, memory, appVars, readVars, ok, ghosts>>

DecoderLeavesPause(p) ==
  /\ DecoderAt(p, "leavePause", IF stopReq THEN "close" ELSE "read")
  /\ playState' = IF stopReq THEN playState ELSE "PLAYING"
  /\ UNCHANGED <<stopReq, pauseReq, handles, memory, appVars, readVars, ok, ghosts>>

DecoderReads(p) ==
  /\ DecoderAt(p, "read", "work")
  /\ Live(p)
  /\ ctx[p].count > 0
  /\ Set(p, "count", ctx[p].count - 1)
  /\ UNCHANGED <<flagVars, handles, heap, appVars, readVars, ok, ghosts>>

DecoderFindsEmpty(p) ==
  /\ DecoderAt(p, "read", IF ctx[p].readDone THEN "close" ELSE "loop")
  /\ Live(p)
  /\ ctx[p].count = 0
  /\ UNCHANGED <<flagVars, handles, memory, appVars, readVars, ok, ghosts>>

(* Decoding a batch, opening the codec on the first frame, writing PCM.    *)
DecoderWorks(p) ==
  /\ DecoderAt(p, "work", "loop")
  /\ UNCHANGED <<flagVars, handles, memory, appVars, readVars, ok, ghosts>>

DecoderFails(p) ==
  /\ DecoderAt(p, "work", "loop")
  /\ ok' = [ok EXCEPT ![p] = FALSE]
  /\ stopReq' = TRUE
  /\ UNCHANGED <<playState, pauseReq, handles, memory, appVars, readVars, ghosts>>

(* Buffers freed, decoder and codec closed, then _playContext is compared. *)
DecoderCloses(p) ==
  /\ DecoderAt(p, "close", IF playContext = p THEN "free" ELSE "publish")
  /\ UNCHANGED <<flagVars, handles, memory, appVars, readVars, ok, ghosts>>

DecoderFrees(p) ==
  /\ DecoderAt(p, "free", "publish")
  /\ Live(p)
  /\ playContext' = 0
  /\ heap' = [heap EXCEPT ![p] = "freed"]
  /\ UNCHANGED <<flagVars, readHandle, decHandle, ctx, appVars, readVars, ok, ghosts>>

FinalState(p) ==
  IF stopReq THEN "STOPPED" ELSE IF ok[p] THEN "IDLE" ELSE "ERROR"

(* Faulty: leaves the state to stop() when a stop is requested.            *)
DecoderPublishesMutant(p) ==
  /\ DecoderAt(p, "publish", "clear")
  /\ playState' = IF stopReq THEN playState ELSE FinalState(p)
  /\ UNCHANGED <<stopReq, pauseReq, handles, memory, appVars, readVars, ok, ghosts>>

DecoderPublishes(p) ==
  /\ DecoderAt(p, "publish", "clear")
  /\ playState' = FinalState(p)
  /\ UNCHANGED <<stopReq, pauseReq, handles, memory, appVars, readVars, ok, ghosts>>

DecoderClearsHandles(p) ==
  /\ DecoderAt(p, "clear", "gone")
  /\ readHandle' = 0 /\ decHandle' = 0
  /\ UNCHANGED <<flagVars, playContext, memory, appVars, readVars, ok, ghosts>>

Decoder(p) ==
  \/ DecoderSeesSource(p) \/ DecoderSeesNoSource(p)
  \/ DecoderCannotOpen(p) \/ DecoderOpens(p)
  \/ DecoderLoops(p) \/ DecoderTestsPause(p) \/ DecoderSetsPaused(p)
  \/ DecoderDelays(p) \/ DecoderLeavesPause(p)
  \/ DecoderReads(p) \/ DecoderFindsEmpty(p)
  \/ DecoderWorks(p) \/ DecoderFails(p)
  \/ DecoderCloses(p) \/ DecoderFrees(p)
  \/ DecoderPublishes(p) \/ DecoderClearsHandles(p)

-------------------------------------------------------------------------------
(* The next statement of a task uses a context that has been freed.        *)
ReaderUses(p) == rpc[p] \notin {"none", "gone"}
DecoderUses(p) == dpc[p] \in {"wait", "open", "read"}
AppUses(p) ==
  \/ app = "stopMark" /\ p = loaded
  \/ app \in {"noteReader", "spawnDecoder", "joinReader", "noteDecoder"} /\ p = plays
FreesAgain(p) == (app = "stopFree" /\ p = loaded) \/ dpc[p] = "free"

StaleUse(p) ==
  /\ Running /\ heap[p] = "freed"
  /\ \/ ReaderUses(p) /\ fault' = "reader"
     \/ DecoderUses(p) /\ fault' = "decoder"
     \/ AppUses(p) /\ fault' = "app"
     \/ FreesAgain(p) /\ fault' = "double free"
  /\ UNCHANGED <<flagVars, handles, memory, appVars, readVars, decVars, gaveUp, late>>

Next ==
  \/ AppCall \/ AppStep
  \/ \E p \in Plays : Reader(p) \/ Decoder(p) \/ StaleUse(p)

Spec == Init /\ [][Next]_vars

(* Tasks and the application's calls in progress get CPU time; a codec or  *)
(* HTTP call returns at some time; the application need not call anything. *)
FairSpec ==
  /\ Spec
  /\ WF_vars(AppStep)
  /\ \A p \in Plays :
       WF_vars(Reader(p)) /\ WF_vars(Decoder(p)) /\ WF_vars(StaleUse(p))

-------------------------------------------------------------------------------
(* The decode task never uses a context that stop() freed, and a context   *)
(* is never freed twice, as long as no stop() ran out of its 3 seconds     *)
(* with the decode task still alive: the pointer check before the delete   *)
(* and the wait for the handles are enough for these two.                  *)
DecoderOwnsContext == fault \in {"decoder", "double free"} => gaveUp

(* No playback leaks its ring: a live context can always be reached from   *)
(* _playContext, whatever failed (so that the next stop() or play() frees  *)
(* it, although four paths of the decode task and of play() end early).    *)
(* Once a stop() gave up this is lost: the old decode task then clears the *)
(* handles of the next playback, a stop() without handles has nothing to   *)
(* do, and the play() after it replaces the pointer.                       *)
NoContextLeaks == gaveUp \/ \A p \in Plays : Live(p) => playContext = p

(* Two playbacks never decode into the codec at once, unless a stop() gave *)
(* up on the older one.                                                    *)
OneDecoderAtATime ==
  gaveUp \/ Cardinality({p \in Plays : DecoderAlive(p)}) <= 1

(* While state() says PAUSED no PCM is written: the late write of PAUSED,  *)
(* after a resume() that already published PLAYING, is corrected before    *)
(* the next batch.                                                         *)
PausedIsSilent ==
  \A p \in Plays : dpc[p] = "work" /\ playState = "PAUSED" => gaveUp

(* A pause that is requested and not withdrawn is eventually visible as    *)
(* PAUSED (or the playback ends): otherwise resume(), which insists on     *)
(* PAUSED, would be refused for ever and the playback would be stuck.      *)
InLoop(p) == dpc[p] \in {"loop", "pauseTest", "setPaused", "pauseDelay",
                         "leavePause", "read", "work"}
PauseIsObserved ==
  \A p \in Plays :
    (pauseReq /\ InLoop(p))
      ~> (playState = "PAUSED" \/ ~pauseReq \/ ~InLoop(p) \/ fault # "none")

(* The read task never uses a context after it was freed.                  *)
ReaderNeverStale == fault # "reader"

(* "Update the play state according to the reason of the exit": when no    *)
(* decode task is left and no call is in progress, state() does not say    *)
(* that something plays, whichever failure, stop or end it was and however *)
(* the tasks of a playback and the calls for the next one overlapped.  Two *)
(* paths do leave PLAYING behind: a decoder that could not be opened (its  *)
(* context is still there) and a resume() whose second store comes after   *)
(* the end.  With three playbacks, the first of which a stop() gave up on, *)
(* the claim fails: two decode tasks may then be alive and share the one   *)
(* state, the one context pointer and the one stop request.                *)
StateIsHonest ==
  Running /\ app = "idle" /\ (\A p \in Plays : ~DecoderAlive(p)) =>
    \/ gaveUp
    \/ /\ playState # "PAUSED"
       /\ playState = "PLAYING" => playContext # 0 \/ late
===============================================================================
