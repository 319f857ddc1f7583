------------------------------ MODULE AudioPlay_proofs ------------------------------
(* Proofs about AudioPlay, for every number of playbacks, every length of  *)
(* the sources and every size of the ring.                                 *)
EXTENDS AudioPlay, FiniteSetTheorems, TLAPS

(***************************************************************************)
(* The inductive invariant                                                 *)
(***************************************************************************)
(* Where the calls and the decode tasks may be.                            *)
AppPoints == {"idle", "stop", "stopLoad", "stopMark", "stopWait", "stopReload",
              "stopFree", "stopEnd", "create", "spawnReader", "noteReader",
              "spawnDecoder", "noteDecoder", "joinReader", "resume"}
Paused == {"setPaused", "pauseDelay", "pauseTest", "leavePause", "close", "free", "publish"}
DecPoints == {"none", "wait", "open", "loop", "read", "work", "clear", "gone"} \union Paused
TypeInv ==
  /\ plays \in 0 .. MaxPlays /\ loaded \in 0 .. MaxPlays
  /\ playContext \in 0 .. MaxPlays
  /\ readHandle \in 0 .. MaxPlays /\ decHandle \in 0 .. MaxPlays
  /\ heap \in [Plays -> {"none", "live", "freed"}]
  /\ app \in AppPoints /\ then \in {"idle", "create"}
  /\ dpc \in [Plays -> DecPoints]
  /\ fault \in {"none", "reader", "decoder", "app", "double free"}

(* A play() in progress has a number left for its context.                 *)
Stopping == {"stop", "stopLoad", "stopMark", "stopWait", "stopReload", "stopFree", "stopEnd"}
BoundInv == app = "create" \/ (app \in Stopping /\ then = "create") => plays < MaxPlays

(* The handle is the proof that a decode task is alive: whoever clears it  *)
(* is the task itself, or comes after it, and from the join to the next    *)
(* creation there is none.                                                 *)
Alone == {"stopReload", "stopFree", "stopEnd", "create", "spawnReader", "noteReader",
          "spawnDecoder", "joinReader"}
HandleInv ==
  gaveUp \/
    /\ \A p \in Plays : DecoderAlive(p) => decHandle = p
    /\ app \in Alone => \A p \in Plays : ~DecoderAlive(p)

(* The live context is the one in _playContext.  The decode task has it    *)
(* until it frees it, and the call that creates or frees one has the       *)
(* pointer to itself.  A pointer left behind comes with a read handle, so  *)
(* the next stop() finds something to stop.                                *)
Spawning == {"spawnReader", "noteReader", "spawnDecoder", "joinReader"}
ContextInv ==
  gaveUp \/
    /\ \A p \in Plays : Live(p) <=> playContext = p
    /\ \A p \in Plays : DecoderAlive(p) /\ dpc[p] \notin {"publish", "clear"} => Live(p)
    /\ \A p \in Plays : dpc[p] \in {"publish", "clear"} => playContext = 0
    /\ app \in Spawning => plays # 0 /\ playContext = plays
    /\ app = "stopFree" => loaded # 0 /\ playContext = loaded
    /\ app \in {"stopEnd", "create"} => playContext = 0
    /\ app # "spawnReader" /\ playContext # 0 => readHandle # 0

(* PAUSED is written by a task that waits in waitWhilePaused, and is       *)
(* overwritten before the task reads again or is gone.  PLAYING has a      *)
(* context, a decode task that will still publish its final state, or a    *)
(* late resume() behind it.                                                *)
StateInv ==
  gaveUp \/
    /\ playState = "PAUSED" => \E p \in Plays : dpc[p] \in Paused
    /\ playState = "PLAYING" /\ app # "stopEnd" =>
         \/ playContext # 0 \/ late
         \/ \E p \in Plays : DecoderAlive(p) /\ dpc[p] # "clear"

IInv == TypeInv /\ BoundInv /\ HandleInv /\ ContextInv /\ StateInv /\ DecoderOwnsContext

(***************************************************************************)
(* Each step preserves each part                                           *)
(***************************************************************************)

(* The read task touches its context's fields and nothing else that the    *)
(* invariant is about.                                                     *)
readerFrame == <<flagVars, handles, heap, appVars, decVars, ghosts>>
LEMMA ReaderFrame == \A p \in Plays : Reader(p) => UNCHANGED readerFrame
  BY DEF Reader, ReaderOpens, ReaderCannotOpen, ReaderPublishes, ReaderFetches,
         ReaderLeavesLoop, ReaderPushes, ReaderDropsChunk, ReaderAnnounces, ReaderFinishes,
         ReaderClearsHandle, readerFrame, memory, Set

(* The calls and the decode tasks stay at their points.                    *)
LEMMA StepType ==
  ASSUME TypeInv, BoundInv, [Next]_vars
  PROVE  TypeInv'
<1> USE AudioPlayAssumption DEF TypeInv, AppPoints, DecPoints, Paused, Plays, BoundInv,
         AppAt, DecoderAt, Running, flagVars, handles, memory, appVars, readVars, decVars,
         ghosts
<1>1. ASSUME NEW next \in {"idle", "create"}, CallStop(next) PROVE TypeInv'
  BY <1>1 DEF CallStop
<1>2. CASE Pause  BY <1>2 DEF Pause
<1>3. CASE ResumeClearsRequest  BY <1>3 DEF ResumeClearsRequest
<1>4. CASE StopEnters  BY <1>4 DEF StopEnters
<1>5. CASE StopLoadsContext  BY <1>5 DEF StopLoadsContext
<1>6. CASE StopMarksContext  BY <1>6 DEF StopMarksContext
<1>7. CASE StopJoins  BY <1>7 DEF StopJoins
<1>8. CASE StopGivesUp  BY <1>8 DEF StopGivesUp
<1>9. CASE StopReloadsContext  BY <1>9 DEF StopReloadsContext
<1>10. CASE StopFreesContext
  <2>1. heap' \in [Plays -> {"none", "live", "freed"}]
    <3>1. heap' = [heap EXCEPT ![loaded] = "freed"]
      BY <1>10 DEF StopFreesContext
    <3>2. QED
      BY <3>1
  <2>2. QED
    BY <1>10, <2>1 DEF StopFreesContext
<1>11. CASE StopEnds  BY <1>11 DEF StopEnds
<1>12. CASE AllocationFails  BY <1>12 DEF AllocationFails
<1>13. CASE CreatesContext  BY <1>13 DEF CreatesContext
<1>14. CASE SpawnsReader  BY <1>14 DEF SpawnsReader
<1>15. CASE ReaderSpawnFails
  <2>1. heap' \in [Plays -> {"none", "live", "freed"}]
    <3>1. heap' = [heap EXCEPT ![plays] = "freed"]
      BY <1>15 DEF ReaderSpawnFails
    <3>2. QED
      BY <3>1
  <2>2. QED
    BY <1>15, <2>1 DEF ReaderSpawnFails
<1>16. CASE NotesReader  BY <1>16 DEF NotesReader
<1>17. CASE SpawnsDecoder  BY <1>17 DEF SpawnsDecoder
<1>18. CASE DecoderSpawnFails  BY <1>18 DEF DecoderSpawnFails
<1>19. CASE JoinsReader
  <2>1. heap' \in [Plays -> {"none", "live", "freed"}]
    <3>1. heap' = [heap EXCEPT ![plays] = "freed"]
      BY <1>19 DEF JoinsReader
    <3>2. QED
      BY <3>1
  <2>2. QED
    BY <1>19, <2>1 DEF JoinsReader
<1>20. CASE NotesDecoder  BY <1>20 DEF NotesDecoder
<1>21. CASE ResumePublishes  BY <1>21 DEF ResumePublishes
<1>22. ASSUME NEW p \in Plays, Reader(p) PROVE TypeInv'
  BY <1>22, ReaderFrame DEF readerFrame
<1>23. ASSUME NEW p \in Plays, DecoderSeesSource(p) PROVE TypeInv'
  BY <1>23 DEF DecoderSeesSource
<1>24. ASSUME NEW p \in Plays, DecoderSeesNoSource(p) PROVE TypeInv'
  BY <1>24 DEF DecoderSeesNoSource
<1>25. ASSUME NEW p \in Plays, DecoderCannotOpen(p) PROVE TypeInv'
  BY <1>25 DEF DecoderCannotOpen
<1>26. ASSUME NEW p \in Plays, DecoderOpens(p) PROVE TypeInv'
  BY <1>26 DEF DecoderOpens
<1>27. ASSUME NEW p \in Plays, DecoderLoops(p) PROVE TypeInv'
  BY <1>27 DEF DecoderLoops
<1>28. ASSUME NEW p \in Plays, DecoderTestsPause(p) PROVE TypeInv'
  BY <1>28 DEF DecoderTestsPause
<1>29. ASSUME NEW p \in Plays, DecoderSetsPaused(p) PROVE TypeInv'
  BY <1>29 DEF DecoderSetsPaused
<1>30. ASSUME NEW p \in Plays, DecoderDelays(p) PROVE TypeInv'
  BY <1>30 DEF DecoderDelays
<1>31. ASSUME NEW p \in Plays, DecoderLeavesPause(p) PROVE TypeInv'
  BY <1>31 DEF DecoderLeavesPause
<1>32. ASSUME NEW p \in Plays, DecoderReads(p) PROVE TypeInv'
  BY <1>32 DEF DecoderReads
<1>33. ASSUME NEW p \in Plays, DecoderFindsEmpty(p) PROVE TypeInv'
  BY <1>33 DEF DecoderFindsEmpty
<1>34. ASSUME NEW p \in Plays, DecoderWorks(p) PROVE TypeInv'
  BY <1>34 DEF DecoderWorks
<1>35. ASSUME NEW p \in Plays, DecoderFails(p) PROVE TypeInv'
  BY <1>35 DEF DecoderFails
<1>36. ASSUME NEW p \in Plays, DecoderCloses(p) PROVE TypeInv'
  BY <1>36 DEF DecoderCloses
<1>37. ASSUME NEW p \in Plays, DecoderFrees(p) PROVE TypeInv'
  BY <1>37 DEF DecoderFrees
<1>38. ASSUME NEW p \in Plays, DecoderPublishes(p) PROVE TypeInv'
  BY <1>38 DEF DecoderPublishes
<1>39. ASSUME NEW p \in Plays, DecoderClearsHandles(p) PROVE TypeInv'
  BY <1>39 DEF DecoderClearsHandles
<1>40. ASSUME NEW p \in Plays, StaleUse(p) PROVE TypeInv'
  BY <1>40 DEF StaleUse
<1>41. CASE UNCHANGED vars  BY <1>41 DEF vars
<1>42. QED
  BY <1>1, <1>2, <1>3, <1>4, <1>5, <1>6, <1>7, <1>8, <1>9, <1>10, <1>11, <1>12, <1>13,
     <1>14, <1>15, <1>16, <1>17, <1>18, <1>19, <1>20, <1>21, <1>22, <1>23, <1>24, <1>25,
     <1>26, <1>27, <1>28, <1>29, <1>30, <1>31, <1>32, <1>33, <1>34, <1>35, <1>36, <1>37,
     <1>38, <1>39, <1>40, <1>41
  DEF Next, AppCall, AppStep, Decoder

(* play() creates no more contexts than are numbered.                      *)
LEMMA StepBound ==
  ASSUME TypeInv, BoundInv, [Next]_vars
  PROVE  BoundInv'
<1> USE AudioPlayAssumption DEF TypeInv, Plays, BoundInv, Stopping, AppAt, DecoderAt,
         Running, flagVars, handles, memory, appVars, readVars, decVars, ghosts
<1>1. ASSUME NEW next \in {"idle", "create"}, CallStop(next) PROVE BoundInv'
  BY <1>1 DEF CallStop
<1>2. CASE Pause  BY <1>2 DEF Pause
<1>3. CASE ResumeClearsRequest  BY <1>3 DEF ResumeClearsRequest
<1>4. CASE StopEnters  BY <1>4 DEF StopEnters
<1>5. CASE StopLoadsContext  BY <1>5 DEF StopLoadsContext
<1>6. CASE StopMarksContext  BY <1>6 DEF StopMarksContext
<1>7. CASE StopJoins  BY <1>7 DEF StopJoins
<1>8. CASE StopGivesUp  BY <1>8 DEF StopGivesUp
<1>9. CASE StopReloadsContext  BY <1>9 DEF StopReloadsContext
<1>10. CASE StopFreesContext  BY <1>10 DEF StopFreesContext
<1>11. CASE StopEnds  BY <1>11 DEF StopEnds
<1>12. CASE AllocationFails  BY <1>12 DEF AllocationFails
<1>13. CASE CreatesContext  BY <1>13 DEF CreatesContext
<1>14. CASE SpawnsReader  BY <1>14 DEF SpawnsReader
<1>15. CASE ReaderSpawnFails  BY <1>15 DEF ReaderSpawnFails
<1>16. CASE NotesReader  BY <1>16 DEF NotesReader
<1>17. CASE SpawnsDecoder  BY <1>17 DEF SpawnsDecoder
<1>18. CASE DecoderSpawnFails  BY <1>18 DEF DecoderSpawnFails
<1>19. CASE JoinsReader  BY <1>19 DEF JoinsReader
<1>20. CASE NotesDecoder  BY <1>20 DEF NotesDecoder
<1>21. CASE ResumePublishes  BY <1>21 DEF ResumePublishes
<1>22. ASSUME NEW p \in Plays, Reader(p) PROVE BoundInv'
  BY <1>22, ReaderFrame DEF readerFrame
<1>23. ASSUME NEW p \in Plays, DecoderSeesSource(p) PROVE BoundInv'
  BY <1>23 DEF DecoderSeesSource
<1>24. ASSUME NEW p \in Plays, DecoderSeesNoSource(p) PROVE BoundInv'
  BY <1>24 DEF DecoderSeesNoSource
<1>25. ASSUME NEW p \in Plays, DecoderCannotOpen(p) PROVE BoundInv'
  BY <1>25 DEF DecoderCannotOpen
<1>26. ASSUME NEW p \in Plays, DecoderOpens(p) PROVE BoundInv'
  BY <1>26 DEF DecoderOpens
<1>27. ASSUME NEW p \in Plays, DecoderLoops(p) PROVE BoundInv'
  BY <1>27 DEF DecoderLoops
<1>28. ASSUME NEW p \in Plays, DecoderTestsPause(p) PROVE BoundInv'
  BY <1>28 DEF DecoderTestsPause
<1>29. ASSUME NEW p \in Plays, DecoderSetsPaused(p) PROVE BoundInv'
  BY <1>29 DEF DecoderSetsPaused
<1>30. ASSUME NEW p \in Plays, DecoderDelays(p) PROVE BoundInv'
  BY <1>30 DEF DecoderDelays
<1>31. ASSUME NEW p \in Plays, DecoderLeavesPause(p) PROVE BoundInv'
  BY <1>31 DEF DecoderLeavesPause
<1>32. ASSUME NEW p \in Plays, DecoderReads(p) PROVE BoundInv'
  BY <1>32 DEF DecoderReads
<1>33. ASSUME NEW p \in Plays, DecoderFindsEmpty(p) PROVE BoundInv'
  BY <1>33 DEF DecoderFindsEmpty
<1>34. ASSUME NEW p \in Plays, DecoderWorks(p) PROVE BoundInv'
  BY <1>34 DEF DecoderWorks
<1>35. ASSUME NEW p \in Plays, DecoderFails(p) PROVE BoundInv'
  BY <1>35 DEF DecoderFails
<1>36. ASSUME NEW p \in Plays, DecoderCloses(p) PROVE BoundInv'
  BY <1>36 DEF DecoderCloses
<1>37. ASSUME NEW p \in Plays, DecoderFrees(p) PROVE BoundInv'
  BY <1>37 DEF DecoderFrees
<1>38. ASSUME NEW p \in Plays, DecoderPublishes(p) PROVE BoundInv'
  BY <1>38 DEF DecoderPublishes
<1>39. ASSUME NEW p \in Plays, DecoderClearsHandles(p) PROVE BoundInv'
  BY <1>39 DEF DecoderClearsHandles
<1>40. ASSUME NEW p \in Plays, StaleUse(p) PROVE BoundInv'
  BY <1>40 DEF StaleUse
<1>41. CASE UNCHANGED vars  BY <1>41 DEF vars
<1>42. QED
  BY <1>1, <1>2, <1>3, <1>4, <1>5, <1>6, <1>7, <1>8, <1>9, <1>10, <1>11, <1>12, <1>13,
     <1>14, <1>15, <1>16, <1>17, <1>18, <1>19, <1>20, <1>21, <1>22, <1>23, <1>24, <1>25,
     <1>26, <1>27, <1>28, <1>29, <1>30, <1>31, <1>32, <1>33, <1>34, <1>35, <1>36, <1>37,
     <1>38, <1>39, <1>40, <1>41
  DEF Next, AppCall, AppStep, Decoder

(* A decode task that is alive holds the handle.                           *)
LEMMA StepHandle ==
  ASSUME TypeInv, BoundInv, HandleInv, [Next]_vars
  PROVE  HandleInv'
<1> USE AudioPlayAssumption DEF TypeInv, AppPoints, DecPoints, Paused, Plays, HandleInv,
         DecoderAlive, Alone, NothingToStop, AppAt, DecoderAt, Running, flagVars, handles,
         memory, appVars, readVars, decVars, ghosts
<1>1. ASSUME NEW next \in {"idle", "create"}, CallStop(next) PROVE HandleInv'
  BY <1>1 DEF CallStop
<1>2. CASE Pause  BY <1>2 DEF Pause
<1>3. CASE ResumeClearsRequest  BY <1>3 DEF ResumeClearsRequest
<1>4. CASE StopEnters  BY <1>4 DEF StopEnters
<1>5. CASE StopLoadsContext  BY <1>5 DEF StopLoadsContext
<1>6. CASE StopMarksContext  BY <1>6 DEF StopMarksContext
<1>7. CASE StopJoins  BY <1>7 DEF StopJoins
<1>8. CASE StopGivesUp  BY <1>8 DEF StopGivesUp
<1>9. CASE StopReloadsContext  BY <1>9 DEF StopReloadsContext
<1>10. CASE StopFreesContext  BY <1>10 DEF StopFreesContext
<1>11. CASE StopEnds  BY <1>11 DEF StopEnds
<1>12. CASE AllocationFails  BY <1>12 DEF AllocationFails
<1>13. CASE CreatesContext  BY <1>13 DEF CreatesContext
<1>14. CASE SpawnsReader  BY <1>14 DEF SpawnsReader
<1>15. CASE ReaderSpawnFails  BY <1>15 DEF ReaderSpawnFails
<1>16. CASE NotesReader  BY <1>16 DEF NotesReader
<1>17. CASE SpawnsDecoder  BY <1>17 DEF SpawnsDecoder
<1>18. CASE DecoderSpawnFails  BY <1>18 DEF DecoderSpawnFails
<1>19. CASE JoinsReader  BY <1>19 DEF JoinsReader
<1>20. CASE NotesDecoder  BY <1>20 DEF NotesDecoder
<1>21. CASE ResumePublishes  BY <1>21 DEF ResumePublishes
<1>22. ASSUME NEW p \in Plays, Reader(p) PROVE HandleInv'
  BY <1>22, ReaderFrame DEF readerFrame
<1>23. ASSUME NEW p \in Plays, DecoderSeesSource(p) PROVE HandleInv'
  BY <1>23 DEF DecoderSeesSource
<1>24. ASSUME NEW p \in Plays, DecoderSeesNoSource(p) PROVE HandleInv'
  BY <1>24 DEF DecoderSeesNoSource
<1>25. ASSUME NEW p \in Plays, DecoderCannotOpen(p) PROVE HandleInv'
  BY <1>25 DEF DecoderCannotOpen
<1>26. ASSUME NEW p \in Plays, DecoderOpens(p) PROVE HandleInv'
  BY <1>26 DEF DecoderOpens
<1>27. ASSUME NEW p \in Plays, DecoderLoops(p) PROVE HandleInv'
  BY <1>27 DEF DecoderLoops
<1>28. ASSUME NEW p \in Plays, DecoderTestsPause(p) PROVE HandleInv'
  BY <1>28 DEF DecoderTestsPause
<1>29. ASSUME NEW p \in Plays, DecoderSetsPaused(p) PROVE HandleInv'
  BY <1>29 DEF DecoderSetsPaused
<1>30. ASSUME NEW p \in Plays, DecoderDelays(p) PROVE HandleInv'
  BY <1>30 DEF DecoderDelays
<1>31. ASSUME NEW p \in Plays, DecoderLeavesPause(p) PROVE HandleInv'
  BY <1>31 DEF DecoderLeavesPause
<1>32. ASSUME NEW p \in Plays, DecoderReads(p) PROVE HandleInv'
  BY <1>32 DEF DecoderReads
<1>33. ASSUME NEW p \in Plays, DecoderFindsEmpty(p) PROVE HandleInv'
  BY <1>33 DEF DecoderFindsEmpty
<1>34. ASSUME NEW p \in Plays, DecoderWorks(p) PROVE HandleInv'
  BY <1>34 DEF DecoderWorks
<1>35. ASSUME NEW p \in Plays, DecoderFails(p) PROVE HandleInv'
  BY <1>35 DEF DecoderFails
<1>36. ASSUME NEW p \in Plays, DecoderCloses(p) PROVE HandleInv'
  BY <1>36 DEF DecoderCloses
<1>37. ASSUME NEW p \in Plays, DecoderFrees(p) PROVE HandleInv'
  BY <1>37 DEF DecoderFrees
<1>38. ASSUME NEW p \in Plays, DecoderPublishes(p) PROVE HandleInv'
  BY <1>38 DEF DecoderPublishes
<1>39. ASSUME NEW p \in Plays, DecoderClearsHandles(p) PROVE HandleInv'
  BY <1>39 DEF DecoderClearsHandles
<1>40. ASSUME NEW p \in Plays, StaleUse(p) PROVE HandleInv'
  BY <1>40 DEF StaleUse
<1>41. CASE UNCHANGED vars  BY <1>41 DEF vars
<1>42. QED
  BY <1>1, <1>2, <1>3, <1>4, <1>5, <1>6, <1>7, <1>8, <1>9, <1>10, <1>11, <1>12, <1>13,
     <1>14, <1>15, <1>16, <1>17, <1>18, <1>19, <1>20, <1>21, <1>22, <1>23, <1>24, <1>25,
     <1>26, <1>27, <1>28, <1>29, <1>30, <1>31, <1>32, <1>33, <1>34, <1>35, <1>36, <1>37,
     <1>38, <1>39, <1>40, <1>41
  DEF Next, AppCall, AppStep, Decoder

(* The context that is alive is the one in _playContext.                   *)
LEMMA StepContext ==
  ASSUME TypeInv, BoundInv, HandleInv, ContextInv, [Next]_vars
  PROVE  ContextInv'
<1> USE AudioPlayAssumption DEF TypeInv, AppPoints, DecPoints, Paused, Plays, BoundInv,
         HandleInv, DecoderAlive, Alone, NothingToStop, ContextInv, Spawning, Live, AppAt,
         DecoderAt, Running, flagVars, handles, memory, appVars, readVars, decVars, ghosts
<1>1. ASSUME NEW next \in {"idle", "create"}, CallStop(next) PROVE ContextInv'
  BY <1>1 DEF CallStop
<1>2. CASE Pause  BY <1>2 DEF Pause
<1>3. CASE ResumeClearsRequest  BY <1>3 DEF ResumeClearsRequest
<1>4. CASE StopEnters  BY <1>4 DEF StopEnters
<1>5. CASE StopLoadsContext  BY <1>5 DEF StopLoadsContext
<1>6. CASE StopMarksContext  BY <1>6 DEF StopMarksContext
<1>7. CASE StopJoins  BY <1>7 DEF StopJoins
<1>8. CASE StopGivesUp  BY <1>8 DEF StopGivesUp
<1>9. CASE StopReloadsContext  BY <1>9 DEF StopReloadsContext
<1>10. CASE StopFreesContext  BY <1>10 DEF StopFreesContext
<1>11. CASE StopEnds  BY <1>11 DEF StopEnds
<1>12. CASE AllocationFails  BY <1>12 DEF AllocationFails
<1>13. CASE CreatesContext  BY <1>13 DEF CreatesContext
<1>14. CASE SpawnsReader  BY <1>14 DEF SpawnsReader
<1>15. CASE ReaderSpawnFails  BY <1>15 DEF ReaderSpawnFails
<1>16. CASE NotesReader  BY <1>16 DEF NotesReader
<1>17. CASE SpawnsDecoder  BY <1>17 DEF SpawnsDecoder
<1>18. CASE DecoderSpawnFails  BY <1>18 DEF DecoderSpawnFails
<1>19. CASE JoinsReader  BY <1>19 DEF JoinsReader
<1>20. CASE NotesDecoder  BY <1>20 DEF NotesDecoder
<1>21. CASE ResumePublishes  BY <1>21 DEF ResumePublishes
<1>22. ASSUME NEW p \in Plays, Reader(p) PROVE ContextInv'
  BY <1>22, ReaderFrame DEF readerFrame
<1>23. ASSUME NEW p \in Plays, DecoderSeesSource(p) PROVE ContextInv'
  BY <1>23 DEF DecoderSeesSource
<1>24. ASSUME NEW p \in Plays, DecoderSeesNoSource(p) PROVE ContextInv'
  BY <1>24 DEF DecoderSeesNoSource
<1>25. ASSUME NEW p \in Plays, DecoderCannotOpen(p) PROVE ContextInv'
  BY <1>25 DEF DecoderCannotOpen
<1>26. ASSUME NEW p \in Plays, DecoderOpens(p) PROVE ContextInv'
  BY <1>26 DEF DecoderOpens
<1>27. ASSUME NEW p \in Plays, DecoderLoops(p) PROVE ContextInv'
  BY <1>27 DEF DecoderLoops
<1>28. ASSUME NEW p \in Plays, DecoderTestsPause(p) PROVE ContextInv'
  BY <1>28 DEF DecoderTestsPause
<1>29. ASSUME NEW p \in Plays, DecoderSetsPaused(p) PROVE ContextInv'
  BY <1>29 DEF DecoderSetsPaused
<1>30. ASSUME NEW p \in Plays, DecoderDelays(p) PROVE ContextInv'
  BY <1>30 DEF DecoderDelays
<1>31. ASSUME NEW p \in Plays, DecoderLeavesPause(p) PROVE ContextInv'
  BY <1>31 DEF DecoderLeavesPause
<1>32. ASSUME NEW p \in Plays, DecoderReads(p) PROVE ContextInv'
  BY <1>32 DEF DecoderReads
<1>33. ASSUME NEW p \in Plays, DecoderFindsEmpty(p) PROVE ContextInv'
  BY <1>33 DEF DecoderFindsEmpty
<1>34. ASSUME NEW p \in Plays, DecoderWorks(p) PROVE ContextInv'
  BY <1>34 DEF DecoderWorks
<1>35. ASSUME NEW p \in Plays, DecoderFails(p) PROVE ContextInv'
  BY <1>35 DEF DecoderFails
<1>36. ASSUME NEW p \in Plays, DecoderCloses(p) PROVE ContextInv'
  BY <1>36 DEF DecoderCloses
<1>37. ASSUME NEW p \in Plays, DecoderFrees(p) PROVE ContextInv'
  BY <1>37 DEF DecoderFrees
<1>38. ASSUME NEW p \in Plays, DecoderPublishes(p) PROVE ContextInv'
  BY <1>38 DEF DecoderPublishes
<1>39. ASSUME NEW p \in Plays, DecoderClearsHandles(p) PROVE ContextInv'
  BY <1>39 DEF DecoderClearsHandles
<1>40. ASSUME NEW p \in Plays, StaleUse(p) PROVE ContextInv'
  BY <1>40 DEF StaleUse
<1>41. CASE UNCHANGED vars  BY <1>41 DEF vars
<1>42. QED
  BY <1>1, <1>2, <1>3, <1>4, <1>5, <1>6, <1>7, <1>8, <1>9, <1>10, <1>11, <1>12, <1>13,
     <1>14, <1>15, <1>16, <1>17, <1>18, <1>19, <1>20, <1>21, <1>22, <1>23, <1>24, <1>25,
     <1>26, <1>27, <1>28, <1>29, <1>30, <1>31, <1>32, <1>33, <1>34, <1>35, <1>36, <1>37,
     <1>38, <1>39, <1>40, <1>41
  DEF Next, AppCall, AppStep, Decoder

(* PAUSED and PLAYING are about a decode task or a context.                *)
LEMMA StepState ==
  ASSUME TypeInv, BoundInv, HandleInv, ContextInv, StateInv, [Next]_vars
  PROVE  StateInv'
<1> USE AudioPlayAssumption DEF TypeInv, AppPoints, DecPoints, Paused, Plays, HandleInv,
         DecoderAlive, Alone, NothingToStop, ContextInv, Spawning, Live, StateInv,
         FinalState, AppAt, DecoderAt, Running, flagVars, handles, memory, appVars,
         readVars, decVars, ghosts
<1>1. ASSUME NEW next \in {"idle", "create"}, CallStop(next) PROVE StateInv'
  BY <1>1 DEF CallStop
<1>2. CASE Pause  BY <1>2 DEF Pause
<1>3. CASE ResumeClearsRequest  BY <1>3 DEF ResumeClearsRequest
<1>4. CASE StopEnters  BY <1>4 DEF StopEnters
<1>5. CASE StopLoadsContext  BY <1>5 DEF StopLoadsContext
<1>6. CASE StopMarksContext  BY <1>6 DEF StopMarksContext
<1>7. CASE StopJoins  BY <1>7 DEF StopJoins
<1>8. CASE StopGivesUp  BY <1>8 DEF StopGivesUp
<1>9. CASE StopReloadsContext  BY <1>9 DEF StopReloadsContext
<1>10. CASE StopFreesContext  BY <1>10 DEF StopFreesContext
<1>11. CASE StopEnds  BY <1>11 DEF StopEnds
<1>12. CASE AllocationFails  BY <1>12 DEF AllocationFails
<1>13. CASE CreatesContext  BY <1>13 DEF CreatesContext
<1>14. CASE SpawnsReader  BY <1>14 DEF SpawnsReader
<1>15. CASE ReaderSpawnFails  BY <1>15 DEF ReaderSpawnFails
<1>16. CASE NotesReader  BY <1>16 DEF NotesReader
<1>17. CASE SpawnsDecoder  BY <1>17 DEF SpawnsDecoder
<1>18. CASE DecoderSpawnFails  BY <1>18 DEF DecoderSpawnFails
<1>19. CASE JoinsReader  BY <1>19 DEF JoinsReader
<1>20. CASE NotesDecoder  BY <1>20 DEF NotesDecoder
<1>21. CASE ResumePublishes  BY <1>21 DEF ResumePublishes
<1>22. ASSUME NEW p \in Plays, Reader(p) PROVE StateInv'
  BY <1>22, ReaderFrame DEF readerFrame
<1>23. ASSUME NEW p \in Plays, DecoderSeesSource(p) PROVE StateInv'
  BY <1>23 DEF DecoderSeesSource
<1>24. ASSUME NEW p \in Plays, DecoderSeesNoSource(p) PROVE StateInv'
  BY <1>24 DEF DecoderSeesNoSource
<1>25. ASSUME NEW p \in Plays, DecoderCannotOpen(p) PROVE StateInv'
  BY <1>25 DEF DecoderCannotOpen
<1>26. ASSUME NEW p \in Plays, DecoderOpens(p) PROVE StateInv'
  BY <1>26 DEF DecoderOpens
<1>27. ASSUME NEW p \in Plays, DecoderLoops(p) PROVE StateInv'
  BY <1>27 DEF DecoderLoops
<1>28. ASSUME NEW p \in Plays, DecoderTestsPause(p) PROVE StateInv'
  BY <1>28 DEF DecoderTestsPause
<1>29. ASSUME NEW p \in Plays, DecoderSetsPaused(p) PROVE StateInv'
  BY <1>29 DEF DecoderSetsPaused
<1>30. ASSUME NEW p \in Plays, DecoderDelays(p) PROVE StateInv'
  BY <1>30 DEF DecoderDelays
<1>31. ASSUME NEW p \in Plays, DecoderLeavesPause(p) PROVE StateInv'
  BY <1>31 DEF DecoderLeavesPause
<1>32. ASSUME NEW p \in Plays, DecoderReads(p) PROVE StateInv'
  BY <1>32 DEF DecoderReads
<1>33. ASSUME NEW p \in Plays, DecoderFindsEmpty(p) PROVE StateInv'
  BY <1>33 DEF DecoderFindsEmpty
<1>34. ASSUME NEW p \in Plays, DecoderWorks(p) PROVE StateInv'
  BY <1>34 DEF DecoderWorks
<1>35. ASSUME NEW p \in Plays, DecoderFails(p) PROVE StateInv'
  BY <1>35 DEF DecoderFails
<1>36. ASSUME NEW p \in Plays, DecoderCloses(p) PROVE StateInv'
  BY <1>36 DEF DecoderCloses
<1>37. ASSUME NEW p \in Plays, DecoderFrees(p) PROVE StateInv'
  BY <1>37 DEF DecoderFrees
<1>38. ASSUME NEW p \in Plays, DecoderPublishes(p) PROVE StateInv'
  BY <1>38 DEF DecoderPublishes
<1>39. ASSUME NEW p \in Plays, DecoderClearsHandles(p) PROVE StateInv'
  BY <1>39 DEF DecoderClearsHandles
<1>40. ASSUME NEW p \in Plays, StaleUse(p) PROVE StateInv'
  BY <1>40 DEF StaleUse
<1>41. CASE UNCHANGED vars  BY <1>41 DEF vars
<1>42. QED
  BY <1>1, <1>2, <1>3, <1>4, <1>5, <1>6, <1>7, <1>8, <1>9, <1>10, <1>11, <1>12, <1>13,
     <1>14, <1>15, <1>16, <1>17, <1>18, <1>19, <1>20, <1>21, <1>22, <1>23, <1>24, <1>25,
     <1>26, <1>27, <1>28, <1>29, <1>30, <1>31, <1>32, <1>33, <1>34, <1>35, <1>36, <1>37,
     <1>38, <1>39, <1>40, <1>41
  DEF Next, AppCall, AppStep, Decoder

(* No decode task and no second free meets a freed context.                *)
LEMMA StepOwns ==
  ASSUME TypeInv, BoundInv, HandleInv, ContextInv, DecoderOwnsContext,
         [Next]_vars
  PROVE  DecoderOwnsContext'
<1> USE DEF DecoderOwnsContext, AppAt, DecoderAt, Running, flagVars, handles, memory,
         appVars, readVars, decVars, ghosts
<1>1. ASSUME NEW next \in {"idle", "create"}, CallStop(next) PROVE DecoderOwnsContext'
  BY <1>1 DEF CallStop
<1>2. CASE Pause  BY <1>2 DEF Pause
<1>3. CASE ResumeClearsRequest  BY <1>3 DEF ResumeClearsRequest
<1>4. CASE StopEnters  BY <1>4 DEF StopEnters
<1>5. CASE StopLoadsContext  BY <1>5 DEF StopLoadsContext
<1>6. CASE StopMarksContext  BY <1>6 DEF StopMarksContext
<1>7. CASE StopJoins  BY <1>7 DEF StopJoins
<1>8. CASE StopGivesUp  BY <1>8 DEF StopGivesUp
<1>9. CASE StopReloadsContext  BY <1>9 DEF StopReloadsContext
<1>10. CASE StopFreesContext  BY <1>10 DEF StopFreesContext
<1>11. CASE StopEnds  BY <1>11 DEF StopEnds
<1>12. CASE AllocationFails  BY <1>12 DEF AllocationFails
<1>13. CASE CreatesContext  BY <1>13 DEF CreatesContext
<1>14. CASE SpawnsReader  BY <1>14 DEF SpawnsReader
<1>15. CASE ReaderSpawnFails  BY <1>15 DEF ReaderSpawnFails
<1>16. CASE NotesReader  BY <1>16 DEF NotesReader
<1>17. CASE SpawnsDecoder  BY <1>17 DEF SpawnsDecoder
<1>18. CASE DecoderSpawnFails  BY <1>18 DEF DecoderSpawnFails
<1>19. CASE JoinsReader  BY <1>19 DEF JoinsReader
<1>20. CASE NotesDecoder  BY <1>20 DEF NotesDecoder
<1>21. CASE ResumePublishes  BY <1>21 DEF ResumePublishes
<1>22. ASSUME NEW p \in Plays, Reader(p) PROVE DecoderOwnsContext'
  BY <1>22, ReaderFrame DEF readerFrame
<1>23. ASSUME NEW p \in Plays, DecoderSeesSource(p) PROVE DecoderOwnsContext'
  BY <1>23 DEF DecoderSeesSource
<1>24. ASSUME NEW p \in Plays, DecoderSeesNoSource(p) PROVE DecoderOwnsContext'
  BY <1>24 DEF DecoderSeesNoSource
<1>25. ASSUME NEW p \in Plays, DecoderCannotOpen(p) PROVE DecoderOwnsContext'
  BY <1>25 DEF DecoderCannotOpen
<1>26. ASSUME NEW p \in Plays, DecoderOpens(p) PROVE DecoderOwnsContext'
  BY <1>26 DEF DecoderOpens
<1>27. ASSUME NEW p \in Plays, DecoderLoops(p) PROVE DecoderOwnsContext'
  BY <1>27 DEF DecoderLoops
<1>28. ASSUME NEW p \in Plays, DecoderTestsPause(p) PROVE DecoderOwnsContext'
  BY <1>28 DEF DecoderTestsPause
<1>29. ASSUME NEW p \in Plays, DecoderSetsPaused(p) PROVE DecoderOwnsContext'
  BY <1>29 DEF DecoderSetsPaused
<1>30. ASSUME NEW p \in Plays, DecoderDelays(p) PROVE DecoderOwnsContext'
  BY <1>30 DEF DecoderDelays
<1>31. ASSUME NEW p \in Plays, DecoderLeavesPause(p) PROVE DecoderOwnsContext'
  BY <1>31 DEF DecoderLeavesPause
<1>32. ASSUME NEW p \in Plays, DecoderReads(p) PROVE DecoderOwnsContext'
  BY <1>32 DEF DecoderReads
<1>33. ASSUME NEW p \in Plays, DecoderFindsEmpty(p) PROVE DecoderOwnsContext'
  BY <1>33 DEF DecoderFindsEmpty
<1>34. ASSUME NEW p \in Plays, DecoderWorks(p) PROVE DecoderOwnsContext'
  BY <1>34 DEF DecoderWorks
<1>35. ASSUME NEW p \in Plays, DecoderFails(p) PROVE DecoderOwnsContext'
  BY <1>35 DEF DecoderFails
<1>36. ASSUME NEW p \in Plays, DecoderCloses(p) PROVE DecoderOwnsContext'
  BY <1>36 DEF DecoderCloses
<1>37. ASSUME NEW p \in Plays, DecoderFrees(p) PROVE DecoderOwnsContext'
  BY <1>37 DEF DecoderFrees
<1>38. ASSUME NEW p \in Plays, DecoderPublishes(p) PROVE DecoderOwnsContext'
  BY <1>38 DEF DecoderPublishes
<1>39. ASSUME NEW p \in Plays, DecoderClearsHandles(p) PROVE DecoderOwnsContext'
  BY <1>39 DEF DecoderClearsHandles
<1>40. ASSUME NEW p \in Plays, StaleUse(p) PROVE DecoderOwnsContext'
  BY <1>40 DEF StaleUse, TypeInv, ContextInv, DecoderAlive, Live, DecoderUses, FreesAgain, Plays
<1>41. CASE UNCHANGED vars  BY <1>41 DEF vars
<1>42. QED
  BY <1>1, <1>2, <1>3, <1>4, <1>5, <1>6, <1>7, <1>8, <1>9, <1>10, <1>11, <1>12, <1>13,
     <1>14, <1>15, <1>16, <1>17, <1>18, <1>19, <1>20, <1>21, <1>22, <1>23, <1>24, <1>25,
     <1>26, <1>27, <1>28, <1>29, <1>30, <1>31, <1>32, <1>33, <1>34, <1>35, <1>36, <1>37,
     <1>38, <1>39, <1>40, <1>41
  DEF Next, AppCall, AppStep, Decoder

(***************************************************************************)
(* The theorems                                                            *)
(***************************************************************************)
LEMMA InitIInv == Init => IInv
<1> SUFFICES ASSUME Init PROVE IInv
  OBVIOUS
<1> USE AudioPlayAssumption DEF Init, Plays
<1>1. TypeInv
  BY DEF TypeInv, AppPoints, DecPoints, Paused
<1>2. BoundInv /\ HandleInv /\ ContextInv
  BY DEF BoundInv, HandleInv, ContextInv, DecoderAlive, Live, Alone, Spawning, Stopping
<1>3. StateInv /\ DecoderOwnsContext
  BY DEF StateInv, DecoderOwnsContext
<1>4. QED
  BY <1>1, <1>2, <1>3 DEF IInv

LEMMA Invariance == Spec => []IInv
<1>1. IInv /\ [Next]_vars => IInv'
  BY StepType, StepBound, StepHandle, StepContext, StepState, StepOwns DEF IInv
<1>2. QED
  BY InitIInv, <1>1, PTL DEF Spec

(* stop() and the decode task never free a context under the decode task   *)
(* and never free it twice, unless a stop() gave up on the task.           *)
THEOREM ContextIsOwned == Spec => []DecoderOwnsContext
<1>1. IInv => DecoderOwnsContext
  BY DEF IInv
<1>2. QED
  BY <1>1, Invariance, PTL

(* Whatever path play(), stop() and the decode task take, a context that   *)
(* was not freed is the one in _playContext.                               *)
THEOREM NothingLeaks == Spec => []NoContextLeaks
<1>1. IInv => NoContextLeaks
  BY DEF IInv, ContextInv, NoContextLeaks
<1>2. QED
  BY <1>1, Invariance, PTL

(* At most one decode task is alive: play() creates one only after stop()  *)
(* has seen the handle of the last one cleared.                            *)
THEOREM OneDecoder == Spec => []OneDecoderAtATime
<1>1. IInv => OneDecoderAtATime
  <2> SUFFICES ASSUME IInv, ~gaveUp
               PROVE  Cardinality({p \in Plays : DecoderAlive(p)}) <= 1
    BY DEF OneDecoderAtATime
  <2> DEFINE alive == {p \in Plays : DecoderAlive(p)}
  <2>1. alive \subseteq {decHandle}
    BY DEF IInv, HandleInv
  <2>2. IsFiniteSet({decHandle}) /\ Cardinality({decHandle}) = 1
    BY FS_Singleton
  <2> HIDE DEF alive
  <2>3. Cardinality(alive) <= 1
    BY <2>1, <2>2, FS_Subset
  <2>4. QED
    BY <2>3 DEF alive
<1>2. QED
  BY <1>1, Invariance, PTL

(* While state() says PAUSED the decode task is waiting or on its way out, *)
(* so it decodes nothing.                                                  *)
THEOREM PauseSilences == Spec => []PausedIsSilent
<1>1. IInv => PausedIsSilent
  <2> SUFFICES ASSUME IInv, NEW p \in Plays, dpc[p] = "work", playState = "PAUSED", ~gaveUp
               PROVE  FALSE
    BY DEF PausedIsSilent
  <2>1. PICK q \in Plays : dpc[q] \in Paused
    BY DEF IInv, StateInv
  <2>2. DecoderAlive(p) /\ DecoderAlive(q)
    BY <2>1 DEF DecoderAlive, Paused
  <2>3. p = q
    BY <2>2 DEF IInv, HandleInv
  <2>4. QED
    BY <2>1, <2>3 DEF Paused
<1>2. QED
  BY <1>1, Invariance, PTL

(* With no decode task left and no call in progress, state() says PLAYING  *)
(* only on the two paths StateIsHonest names, and never PAUSED.            *)
THEOREM HonestState == Spec => []StateIsHonest
<1>1. IInv => StateIsHonest
  BY DEF IInv, StateInv, StateIsHonest, DecoderAlive, Paused
<1>2. QED
  BY <1>1, Invariance, PTL
===============================================================================
