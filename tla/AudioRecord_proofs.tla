------------------------------ MODULE AudioRecord_proofs ------------------------------
(* Proofs about AudioRecord, for every number of recordings, every length  *)
(* of the captured sound, every size of the buffers and of the ring.       *)
EXTENDS AudioRecord, SequenceTheorems, TLAPS

(***************************************************************************)
(* The inductive invariant                                                 *)
(***************************************************************************)
(* Where the calls and the tasks may be, and what is there.                *)
CapPoints == {"none", "alloc", "loop", "read", "send", "sending", "end", "gone"}
WrPoints == {"none", "alloc", "loop", "write", "count", "end", "gone"}
AppPoints == {"idle", "join", "finalize", "teardown", "open", "ring",
              "spawnCapture", "spawnWriter", "publish"}

BoolType ==
  /\ recording \in BOOLEAN /\ stopReq \in BOOLEAN
  /\ capDone \in BOOLEAN /\ wrDone \in BOOLEAN
  /\ ringUp \in BOOLEAN /\ codec \in BOOLEAN
  /\ overlap \in BOOLEAN /\ gaveUp \in BOOLEAN
  /\ writerFailed \in [Recs -> BOOLEAN] /\ headerFailed \in [Recs -> BOOLEAN]
ControlType ==
  /\ app \in AppPoints
  /\ cpc \in [Recs -> CapPoints] /\ wpc \in [Recs -> WrPoints]
  /\ recs \in 0 .. MaxRecs /\ file \in 0 .. MaxRecs
  /\ dataBytes \in Nat /\ header \in [Recs -> Nat \union {-1}]
SoundType ==
  /\ data \in [Recs -> Seq(Unit)]
  /\ ring \in Seq(Unit) /\ Len(ring) <= RingCap
  /\ captured \in [Recs -> 0 .. MaxUnits]
  /\ cbuf \in [Recs -> Seq(Unit)] /\ \A r \in Recs : Len(cbuf[r]) <= BufLen
  /\ wbuf \in [Recs -> Seq(Unit)] /\ \A r \in Recs : Len(wbuf[r]) <= BufLen
TypeInv == BoolType /\ ControlType /\ SoundType

(* The calls: a recording is numbered before its tasks exist, its file is  *)
(* the one that is open, and _recording is false until it is published.    *)
Busy == {"join", "finalize", "teardown"}
Starting == {"ring", "spawnCapture", "spawnWriter", "publish"}
CallsInv ==
  /\ app = "open" \/ (app \in Busy /\ lastCall = "busyStart") => recs < MaxRecs
  /\ file \in {0, recs}
  /\ app \in Starting => file # 0 /\ ~recording
  /\ app \in {"ring", "spawnCapture"} => cpc[recs] = "none"
  /\ app \in {"ring", "spawnCapture", "spawnWriter"} => wpc[recs] = "none"
  /\ app = "open" => ~recording
  /\ \A r \in Recs : r > recs => cpc[r] = "none" /\ wpc[r] = "none"

(* The capture task's buffer holds sound only while it is being sent.      *)
BuffersInv ==
  /\ \A r \in Recs : cpc[r] = "none" => captured[r] = 0
  /\ \A r \in Recs : cpc[r] \notin {"send", "sending"} => cbuf[r] = << >>

(* Unless a recording was started over the tasks of an earlier one, only   *)
(* the last recording's tasks are alive.  All that follows rests on this.  *)
AloneInv ==
  overlap \/ \A r \in Recs : r # recs => ~CapAlive(r) /\ ~WrAlive(r)

(* From startRecord()'s return, or just before it, until stopRecord()      *)
(* returns, or until _recording is cleared by a task that failed.          *)
InSession ==
  \/ app \in {"publish", "join", "finalize", "teardown"}
  \/ (app = "idle" /\ recording)

(* The done flags say which of the recording's two tasks are gone.         *)
FlagsInv ==
  overlap \/
    /\ app \in {"spawnCapture", "spawnWriter"} => ~wrDone /\ ringUp
    /\ app = "spawnCapture" => ~capDone
    /\ app = "spawnWriter" => (capDone <=> cpc[recs] = "gone") /\ cpc[recs] # "none"
    /\ InSession =>
         /\ recs # 0
         /\ capDone <=> cpc[recs] = "gone"
         /\ wrDone <=> wpc[recs] = "gone"
         /\ cpc[recs] # "none" /\ wpc[recs] # "none"
         /\ file = IF app = "teardown" THEN 0 ELSE recs

(* stopRecord() is past its join only when both tasks are gone.            *)
JoinedInv ==
  app \in {"finalize", "teardown"} /\ ~overlap /\ ~gaveUp =>
    cpc[recs] = "gone" /\ wpc[recs] = "gone"

(* The ring lives as long as the writer task does.                         *)
RingInv ==
  overlap \/ gaveUp \/ \A r \in Recs : WrAlive(r) => ringUp

(* A writer that left without a failure left a drained ring behind it, and *)
(* nobody is there to fill it again.                                       *)
DrainedInv ==
  InSession /\ file # 0 /\ ~overlap /\ wpc[recs] \in {"end", "gone"} =>
    writerFailed[recs] \/ (cpc[recs] = "gone" /\ ring = << >>)

(* What the open file holds is counted, but for what was written last.     *)
Uncounted == IF wpc[recs] = "count" THEN Len(wbuf[recs]) ELSE 0
CountInv ==
  file # 0 /\ app # "ring" /\ ~overlap =>
    writerFailed[recs] \/ dataBytes + Uncounted = Len(data[recs])

(* A file is empty until its writer exists.                                *)
FreshInv ==
  /\ \A r \in Recs : r > recs => data[r] = << >>
  /\ recs # 0 /\ wpc[recs] = "none" /\ ~overlap => data[recs] = << >>

(* Until stopRecord() closes it, the header of the open file is the one    *)
(* startRecord() wrote.                                                    *)
HeadInv ==
  /\ \A r \in Recs : r > recs => ~headerFailed[r]
  /\ file # 0 => ~headerFailed[file] /\ (app # "ring" => header[file] = 0)

(* FilesHaveNoGaps, with the whole beginning of a recording named.         *)
Whole(r, n) == [k \in 1 .. n |-> <<r, k>>]
WholeInv == overlap \/ \A r \in Recs : data[r] = Whole(r, Len(data[r]))

(* The flow: the file, the writer's buffer, the ring and the capture       *)
(* task's buffer hold one run of units after the other, and together all   *)
(* that was captured, until the capture task drops its rest for good or    *)
(* the writer leaves.                                                      *)
Run(r, from, n) == [k \in 1 .. n |-> <<r, from + k>>]
Unwritten == IF wpc[recs] = "write" THEN Len(wbuf[recs]) ELSE 0
Ahead == Len(data[recs]) + Unwritten
Flowing == file # 0 /\ app # "ring" /\ ~overlap /\ wpc[recs] \notin {"end", "gone"}
Dropping == cpc[recs] \in {"end", "gone"} \/ (cpc[recs] = "loop" /\ stopReq)
WriterFlowInv ==
  Flowing /\ wpc[recs] = "write" =>
    wbuf[recs] = Run(recs, Len(data[recs]), Len(wbuf[recs]))
RingFlowInv == Flowing => ring = Run(recs, Ahead, Len(ring))
CaptureFlowInv ==
  Flowing => cbuf[recs] = Run(recs, Ahead + Len(ring), Len(cbuf[recs]))
NothingLostInv ==
  Flowing /\ ~Dropping => Ahead + Len(ring) + Len(cbuf[recs]) = captured[recs]
FlowInv == WriterFlowInv /\ RingFlowInv /\ CaptureFlowInv /\ NothingLostInv

IInv ==
  /\ TypeInv /\ CallsInv /\ BuffersInv /\ AloneInv /\ FlagsInv /\ JoinedInv
  /\ RingInv /\ DrainedInv /\ CountInv /\ FreshInv /\ FlowInv /\ WholeInv
  /\ HeadInv /\ RingOutlivesTasks /\ HeaderIsExact

(***************************************************************************)
(* Lemmas about runs of units                                              *)
(***************************************************************************)
(* A run is a sequence of its length.                                      *)
Sound == Recs \X Nat
LEMMA RunLen ==
  ASSUME NEW r \in Recs, NEW from \in Nat, NEW n \in Nat
  PROVE  /\ Run(r, from, n) \in Seq(Sound) /\ Len(Run(r, from, n)) = n
         /\ \A k \in 1 .. n : Run(r, from, n)[k] = <<r, from + k>>
  BY LenProperties DEF Run, Sound

LEMMA RunEmpty == \A r, from : Run(r, from, 0) = << >>
  BY DEF Run

(* Two runs that meet are one run.                                         *)
LEMMA RunConcat ==
  ASSUME NEW r \in Recs, NEW from \in Nat, NEW m \in Nat, NEW n \in Nat
  PROVE  Run(r, from, m) \o Run(r, from + m, n) = Run(r, from, m + n)
<1> DEFINE a == Run(r, from, m)
           b == Run(r, from + m, n)
           c == Run(r, from, m + n)
<1>1. from + m \in Nat /\ m + n \in Nat
  OBVIOUS
<1>2. a \in Seq(Sound) /\ Len(a) = m /\ \A k \in 1 .. m : a[k] = <<r, from + k>>
  BY RunLen
<1>3. b \in Seq(Sound) /\ Len(b) = n /\ \A k \in 1 .. n : b[k] = <<r, from + m + k>>
  BY <1>1, RunLen
<1>4. c \in Seq(Sound) /\ Len(c) = m + n /\ \A k \in 1 .. m + n : c[k] = <<r, from + k>>
  BY <1>1, RunLen
<1> HIDE DEF a, b, c
<1>5. /\ a \o b \in Seq(Sound) /\ Len(a \o b) = m + n
      /\ \A k \in 1 .. m + n : (a \o b)[k] = IF k <= m THEN a[k] ELSE b[k - m]
  BY <1>2, <1>3, ConcatProperties
<1>6. \A k \in 1 .. m + n : (a \o b)[k] = c[k]
  <2> TAKE k \in 1 .. m + n
  <2>1. CASE k <= m
    <3>1. k \in 1 .. m
      BY <2>1
    <3>2. QED
      BY <1>2, <1>4, <1>5, <2>1, <3>1
  <2>2. CASE ~(k <= m)
    <3>1. k - m \in 1 .. n /\ from + m + (k - m) = from + k
      BY <2>2
    <3>2. QED
      BY <1>3, <1>4, <1>5, <2>2, <3>1
  <2>3. QED
    BY <2>1, <2>2
<1>7. a \o b = c
  BY <1>4, <1>5, <1>6, SeqEqual
<1>8. QED
  BY <1>7 DEF a, b, c

(* What is taken out of a run is a run.                                    *)
LEMMA RunPart ==
  ASSUME NEW r \in Recs, NEW from \in Nat, NEW m \in Nat,
         NEW i \in 1 .. m + 1, NEW j \in i - 1 .. m
  PROVE  SubSeq(Run(r, from, m), i, j) = Run(r, from + i - 1, j - i + 1)
<1> DEFINE a == Run(r, from, m)
           s == SubSeq(a, i, j)
           n == j - i + 1
           t == Run(r, from + i - 1, n)
<1>1. n \in Nat /\ from + i - 1 \in Nat /\ i \in Int /\ j \in Int
  OBVIOUS
<1>2. a \in Seq(Sound) /\ Len(a) = m /\ \A k \in 1 .. m : a[k] = <<r, from + k>>
  BY RunLen
<1> HIDE DEF a, n
<1>3. t \in Seq(Sound) /\ Len(t) = n /\ \A k \in 1 .. n : t[k] = <<r, from + i - 1 + k>>
  BY <1>1, RunLen
<1> HIDE DEF t
<1>4. \A k \in i .. j : a[k] \in Sound
  BY <1>2, ElementOfSeq
<1>5. /\ s \in Seq(Sound) /\ Len(s) = IF i <= j THEN n ELSE 0
      /\ \A k \in 1 .. n : s[k] = a[i + k - 1]
  <2>1. /\ s \in Seq(Sound) /\ Len(s) = IF i <= j THEN j - i + 1 ELSE 0
        /\ \A k \in 1 .. j - i + 1 : s[k] = a[i + k - 1]
    <3>1. /\ s \in Seq(Sound) /\ Len(s) = IF i <= j THEN j - i + 1 ELSE 0
          /\ \A k \in 1 .. j - i + 1 : s[k] = a[k + i - 1]
      BY <1>1, <1>4, SubSeqProperties
    <3> HIDE DEF s
    <3>2. QED
      BY <3>1
  <2>2. QED
    BY <2>1 DEF n
<1> HIDE DEF s
<1>6. Len(s) = n /\ \A k \in 1 .. n : i + k - 1 \in 1 .. m
  BY <1>1, <1>5 DEF n
<1>7. \A k \in 1 .. n : s[k] = t[k]
  <2> TAKE k \in 1 .. n
  <2>1. s[k] = <<r, from + (i + k - 1)>>
    BY <1>2, <1>5, <1>6
  <2>2. from + (i + k - 1) = from + i - 1 + k
    BY <1>1
  <2>3. QED
    BY <1>3, <2>1, <2>2
<1>8. s = t
  BY <1>3, <1>5, <1>6, <1>7, SeqEqual
<1>9. QED
  BY <1>8 DEF a, s, t, n

(* What is taken from the front of a run, and what it leaves, are runs.    *)
LEMMA RunSplit ==
  ASSUME NEW r \in Recs, NEW from \in Nat, NEW m \in Nat, NEW n \in 0 .. m
  PROVE  /\ SubSeq(Run(r, from, m), 1, n) = Run(r, from, n)
         /\ SubSeq(Run(r, from, m), n + 1, m) = Run(r, from + n, m - n)
<1> DEFINE k == n + 1
<1>1. 1 \in 1 .. m + 1 /\ n \in 1 - 1 .. m /\ k \in 1 .. m + 1 /\ m \in k - 1 .. m
  OBVIOUS
<1> HIDE DEF k
<1>2. SubSeq(Run(r, from, m), 1, n) = Run(r, from + 1 - 1, n - 1 + 1)
  BY <1>1, RunPart
<1>3. SubSeq(Run(r, from, m), k, m) = Run(r, from + k - 1, m - k + 1)
  BY <1>1, RunPart
<1>4. from + 1 - 1 = from /\ n - 1 + 1 = n /\ from + k - 1 = from + n /\ m - k + 1 = m - n
  BY DEF k
<1>5. QED
  BY <1>2, <1>3, <1>4 DEF k

(*****************************************************************************)
(* Each step preserves each part                                           *)
(*****************************************************************************)

(* The flags stay Booleans.                                                *)
LEMMA StepBool ==
  ASSUME BoolType, [Next]_vars
  PROVE  BoolType'
<1> USE TRUE DEF BoolType, DeletesRing, Sends, CapAt, WrAt, AppAt, flags, fileVars,
         ringVars, appVars, capVars, wrVars, ghosts
<1>1. CASE CallStop  BY Zenon, <1>1 DEF CallStop
<1>2. CASE CallStart  BY Zenon, <1>2 DEF CallStart
<1>3. CASE StopJoins  BY Zenon, <1>3 DEF StopJoins
<1>4. CASE StopGivesUp  BY Zenon, <1>4 DEF StopGivesUp
<1>5. CASE StopFinalizes  BY Zenon, <1>5 DEF StopFinalizes
<1>5a. CASE StopCannotFinalize  BY Zenon, <1>5a DEF StopCannotFinalize
<1>6. CASE StopTearsDown  BY Zenon, <1>6 DEF StopTearsDown
<1>7. CASE StartCannotOpen  BY Zenon, <1>7 DEF StartCannotOpen
<1>8. CASE StartOpens  BY Zenon, <1>8 DEF StartOpens
<1>9. CASE StartCannotPrepare  BY Zenon, <1>9 DEF StartCannotPrepare
<1>10. CASE StartPrepares  BY Zenon, <1>10 DEF StartPrepares
<1>11. CASE SpawnsCapture  BY Zenon, <1>11 DEF SpawnsCapture
<1>12. CASE CaptureSpawnFails  BY Zenon, <1>12 DEF CaptureSpawnFails
<1>13. CASE SpawnsWriter  BY Zenon, <1>13 DEF SpawnsWriter
<1>14. CASE WriterSpawnFails  BY Zenon, <1>14 DEF WriterSpawnFails
<1>15. CASE StartPublishes  BY Zenon, <1>15 DEF StartPublishes
<1>16. ASSUME NEW r \in Recs, CaptureCannotStart(r) PROVE BoolType'
  BY Zenon, <1>16 DEF CaptureCannotStart
<1>17. ASSUME NEW r \in Recs, CaptureStarts(r) PROVE BoolType'
  BY Zenon, <1>17 DEF CaptureStarts
<1>18. ASSUME NEW r \in Recs, CaptureLoops(r) PROVE BoolType'
  BY Zenon, <1>18 DEF CaptureLoops
<1>19. ASSUME NEW r \in Recs, CaptureReads(r) PROVE BoolType'
  BY Zenon, <1>19 DEF CaptureReads
<1>20. ASSUME NEW r \in Recs, CaptureReadsNoMore(r) PROVE BoolType'
  BY Zenon, <1>20 DEF CaptureReadsNoMore
<1>21. ASSUME NEW r \in Recs, CaptureReadFails(r) PROVE BoolType'
  BY Zenon, <1>21 DEF CaptureReadFails
<1>22. ASSUME NEW r \in Recs, CaptureTestsStop(r) PROVE BoolType'
  BY Zenon, <1>22 DEF CaptureTestsStop
<1>23. ASSUME NEW r \in Recs, CaptureSends(r) PROVE BoolType'
  BY Zenon, <1>23 DEF CaptureSends
<1>24. ASSUME NEW r \in Recs, CaptureFindsNoRoom(r) PROVE BoolType'
  BY Zenon, <1>24 DEF CaptureFindsNoRoom
<1>25. ASSUME NEW r \in Recs, CaptureEnds(r) PROVE BoolType'
  BY Zenon, <1>25 DEF CaptureEnds
<1>26. ASSUME NEW r \in Recs, WriterCannotStart(r) PROVE BoolType'
  BY Zenon, <1>26 DEF WriterCannotStart
<1>27. ASSUME NEW r \in Recs, WriterStarts(r) PROVE BoolType'
  BY Zenon, <1>27 DEF WriterStarts
<1>28. ASSUME NEW r \in Recs, WriterReceives(r) PROVE BoolType'
  BY Zenon, <1>28 DEF WriterReceives
<1>29. ASSUME NEW r \in Recs, WriterWrites(r) PROVE BoolType'
  BY Zenon, <1>29 DEF WriterWrites
<1>30. ASSUME NEW r \in Recs, WriterWritesShort(r) PROVE BoolType'
  BY Zenon, <1>30 DEF WriterWritesShort
<1>31. ASSUME NEW r \in Recs, WriterCounts(r) PROVE BoolType'
  BY Zenon, <1>31 DEF WriterCounts
<1>32. ASSUME NEW r \in Recs, WriterLeaves(r) PROVE BoolType'
  BY Zenon, <1>32 DEF WriterLeaves
<1>33. ASSUME NEW r \in Recs, WriterFindsNoRing(r) PROVE BoolType'
  BY Zenon, <1>33 DEF WriterFindsNoRing
<1>34. ASSUME NEW r \in Recs, WriterEnds(r) PROVE BoolType'
  BY Zenon, <1>34 DEF WriterEnds
<1>35. CASE UNCHANGED vars  BY Zenon, <1>35 DEF vars
<1>36. QED
  BY <1>1, <1>2, <1>3, <1>4, <1>5, <1>5a, <1>6, <1>7, <1>8, <1>9, <1>10, <1>11, <1>12, <1>13,
     <1>14, <1>15, <1>16, <1>17, <1>18, <1>19, <1>20, <1>21, <1>22, <1>23, <1>24, <1>25,
     <1>26, <1>27, <1>28, <1>29, <1>30, <1>31, <1>32, <1>33, <1>34, <1>35
  DEF Next, App, Capture, Writer

(* The calls and the tasks stay at their points.                           *)
LEMMA StepControl ==
  ASSUME ControlType, CallsInv, [Next]_vars
  PROVE  ControlType'
<1> USE AudioRecordAssumption DEF ControlType, CapPoints, WrPoints, AppPoints, Recs,
         CallsInv, Sends, CapAt, WrAt, AppAt, flags, fileVars, ringVars, appVars, capVars,
         wrVars, ghosts
<1>1. CASE CallStop  BY <1>1 DEF CallStop
<1>2. CASE CallStart  BY <1>2 DEF CallStart
<1>3. CASE StopJoins  BY <1>3 DEF StopJoins
<1>4. CASE StopGivesUp  BY <1>4 DEF StopGivesUp
<1>5. CASE StopFinalizes  BY <1>5 DEF StopFinalizes
<1>5a. CASE StopCannotFinalize  BY <1>5a DEF StopCannotFinalize
<1>6. CASE StopTearsDown  BY <1>6 DEF StopTearsDown
<1>7. CASE StartCannotOpen
  <2>1. file' \in {file, 0} /\ app' = "idle"
    BY <1>7 DEF StartCannotOpen
  <2>2. UNCHANGED <<cpc, wpc, recs, dataBytes, header>>
    BY <1>7 DEF StartCannotOpen
  <2>3. file' \in 0 .. MaxRecs
    BY <2>1
  <2>4. QED
    BY <2>1, <2>2, <2>3
<1>8. CASE StartOpens  BY <1>8 DEF StartOpens
<1>9. CASE StartCannotPrepare  BY <1>9 DEF StartCannotPrepare
<1>10. CASE StartPrepares  BY <1>10 DEF StartPrepares
<1>11. CASE SpawnsCapture  BY <1>11 DEF SpawnsCapture
<1>12. CASE CaptureSpawnFails  BY <1>12 DEF CaptureSpawnFails
<1>13. CASE SpawnsWriter  BY <1>13 DEF SpawnsWriter
<1>14. CASE WriterSpawnFails  BY <1>14 DEF WriterSpawnFails
<1>15. CASE StartPublishes  BY <1>15 DEF StartPublishes
<1>16. ASSUME NEW r \in Recs, CaptureCannotStart(r) PROVE ControlType'
  BY <1>16 DEF CaptureCannotStart
<1>17. ASSUME NEW r \in Recs, CaptureStarts(r) PROVE ControlType'
  BY <1>17 DEF CaptureStarts
<1>18. ASSUME NEW r \in Recs, CaptureLoops(r) PROVE ControlType'
  BY <1>18 DEF CaptureLoops
<1>19. ASSUME NEW r \in Recs, CaptureReads(r) PROVE ControlType'
  BY <1>19 DEF CaptureReads
<1>20. ASSUME NEW r \in Recs, CaptureReadsNoMore(r) PROVE ControlType'
  BY <1>20 DEF CaptureReadsNoMore
<1>21. ASSUME NEW r \in Recs, CaptureReadFails(r) PROVE ControlType'
  BY <1>21 DEF CaptureReadFails
<1>22. ASSUME NEW r \in Recs, CaptureTestsStop(r) PROVE ControlType'
  BY <1>22 DEF CaptureTestsStop
<1>23. ASSUME NEW r \in Recs, CaptureSends(r) PROVE ControlType'
  BY <1>23 DEF CaptureSends
<1>24. ASSUME NEW r \in Recs, CaptureFindsNoRoom(r) PROVE ControlType'
  BY <1>24 DEF CaptureFindsNoRoom
<1>25. ASSUME NEW r \in Recs, CaptureEnds(r) PROVE ControlType'
  BY <1>25 DEF CaptureEnds
<1>26. ASSUME NEW r \in Recs, WriterCannotStart(r) PROVE ControlType'
  BY <1>26 DEF WriterCannotStart
<1>27. ASSUME NEW r \in Recs, WriterStarts(r) PROVE ControlType'
  BY <1>27 DEF WriterStarts
<1>28. ASSUME NEW r \in Recs, WriterReceives(r) PROVE ControlType'
  BY <1>28 DEF WriterReceives
<1>29. ASSUME NEW r \in Recs, WriterWrites(r) PROVE ControlType'
  BY <1>29 DEF WriterWrites
<1>30. ASSUME NEW r \in Recs, WriterWritesShort(r) PROVE ControlType'
  BY <1>30 DEF WriterWritesShort
<1>31. ASSUME NEW r \in Recs, WriterCounts(r) PROVE ControlType'
  BY <1>31 DEF WriterCounts
<1>32. ASSUME NEW r \in Recs, WriterLeaves(r) PROVE ControlType'
  BY <1>32 DEF WriterLeaves
<1>33. ASSUME NEW r \in Recs, WriterFindsNoRing(r) PROVE ControlType'
  BY <1>33 DEF WriterFindsNoRing
<1>34. ASSUME NEW r \in Recs, WriterEnds(r) PROVE ControlType'
  BY <1>34 DEF WriterEnds
<1>35. CASE UNCHANGED vars  BY <1>35 DEF vars
<1>36. QED
  BY <1>1, <1>2, <1>3, <1>4, <1>5, <1>5a, <1>6, <1>7, <1>8, <1>9, <1>10, <1>11, <1>12, <1>13,
     <1>14, <1>15, <1>16, <1>17, <1>18, <1>19, <1>20, <1>21, <1>22, <1>23, <1>24, <1>25,
     <1>26, <1>27, <1>28, <1>29, <1>30, <1>31, <1>32, <1>33, <1>34, <1>35
  DEF Next, App, Capture, Writer

(* What is sent fits.                                                      *)
LEMMA FitsType ==
  ASSUME SoundType, NEW r \in Recs
  PROVE  Fits(r) \in 0 .. Len(cbuf[r]) /\ Len(ring) + Fits(r) <= RingCap
<1>1. Len(ring) \in Nat /\ Len(cbuf[r]) \in Nat /\ Len(ring) <= RingCap
  BY LenProperties DEF SoundType
<1>2. QED
  BY <1>1, AudioRecordAssumption DEF Fits

(* The sound in the buffers, the ring and the files stays sound, within    *)
(* their capacities.                                                       *)
LEMMA StepSound ==
  ASSUME ControlType, SoundType, [Next]_vars
  PROVE  SoundType'
<1> USE AudioRecordAssumption, EmptySeq DEF SoundType, CapAt, WrAt, AppAt, flags, fileVars,
         ringVars, appVars, capVars, wrVars, ghosts
<1>1. CASE CallStop  BY <1>1 DEF CallStop
<1>2. CASE CallStart  BY <1>2 DEF CallStart
<1>3. CASE StopJoins  BY <1>3 DEF StopJoins
<1>4. CASE StopGivesUp  BY <1>4 DEF StopGivesUp
<1>5. CASE StopFinalizes  BY <1>5 DEF StopFinalizes
<1>5a. CASE StopCannotFinalize  BY <1>5a DEF StopCannotFinalize
<1>6. CASE StopTearsDown  BY <1>6 DEF StopTearsDown, DeletesRing
<1>7. CASE StartCannotOpen  BY <1>7 DEF StartCannotOpen
<1>8. CASE StartOpens  BY <1>8 DEF StartOpens
<1>9. CASE StartCannotPrepare  BY <1>9 DEF StartCannotPrepare, DeletesRing
<1>10. CASE StartPrepares  BY <1>10 DEF StartPrepares
<1>11. CASE SpawnsCapture  BY <1>11 DEF SpawnsCapture
<1>12. CASE CaptureSpawnFails  BY <1>12 DEF CaptureSpawnFails, DeletesRing
<1>13. CASE SpawnsWriter  BY <1>13 DEF SpawnsWriter
<1>14. CASE WriterSpawnFails  BY <1>14 DEF WriterSpawnFails, DeletesRing
<1>15. CASE StartPublishes  BY <1>15 DEF StartPublishes
<1>16. ASSUME NEW r \in Recs, CaptureCannotStart(r) PROVE SoundType'
  BY <1>16 DEF CaptureCannotStart
<1>17. ASSUME NEW r \in Recs, CaptureStarts(r) PROVE SoundType'
  BY <1>17 DEF CaptureStarts
<1>18. ASSUME NEW r \in Recs, CaptureLoops(r) PROVE SoundType'
  BY <1>18 DEF CaptureLoops
<1>19. ASSUME NEW r \in Recs, CaptureReads(r) PROVE SoundType'
  <2> DEFINE heard == [i \in 1 .. BufLen |-> <<r, captured[r] + i>>]
  <2>1. /\ cbuf' = [cbuf EXCEPT ![r] = heard]
        /\ captured' = [captured EXCEPT ![r] = @ + BufLen]
        /\ captured[r] + BufLen <= MaxUnits
        /\ UNCHANGED <<data, ring, wbuf>>
    BY <1>19 DEF CaptureReads
  <2>2. captured[r] \in Nat /\ BufLen \in Nat /\ captured[r] + BufLen \in 0 .. MaxUnits
    BY <2>1
  <2>3. \A i \in 1 .. BufLen : <<r, captured[r] + i>> \in Unit
    BY <2>1, <2>2 DEF Unit
  <2>4. heard \in Seq(Unit) /\ Len(heard) = BufLen
    BY <2>2, <2>3
  <2> HIDE DEF heard
  <2>5. QED
    BY <2>1, <2>2, <2>4
<1>20. ASSUME NEW r \in Recs, CaptureReadsNoMore(r) PROVE SoundType'
  BY <1>20 DEF CaptureReadsNoMore
<1>21. ASSUME NEW r \in Recs, CaptureReadFails(r) PROVE SoundType'
  BY <1>21 DEF CaptureReadFails
<1>22. ASSUME NEW r \in Recs, CaptureTestsStop(r) PROVE SoundType'
  BY <1>22 DEF CaptureTestsStop
<1>23. ASSUME NEW r \in Recs, CaptureSends(r) PROVE SoundType'
  <2> DEFINE n == Fits(r)
             m == Len(cbuf[r])
             sent == SubSeq(cbuf[r], 1, n)
             rest == SubSeq(cbuf[r], n + 1, m)
  <2>1. /\ ring' = ring \o sent /\ cbuf' = [cbuf EXCEPT ![r] = rest]
        /\ UNCHANGED <<data, captured, wbuf>>
    BY <1>23 DEF CaptureSends, Sends
  <2>2. n \in 0 .. m /\ m \in Nat /\ m <= BufLen /\ Len(ring) + n <= RingCap
    BY FitsType
  <2> HIDE DEF n
  <2>3. \A i \in 1 .. m : cbuf[r][i] \in Unit
    BY ElementOfSeq
  <2>4. sent \in Seq(Unit) /\ Len(sent) = n
    BY <2>2, <2>3, SubSeqProperties
  <2>5. rest \in Seq(Unit) /\ Len(rest) = m - n
    BY <2>2, <2>3, SubSeqProperties
  <2> HIDE DEF sent, rest
  <2>6. ring \o sent \in Seq(Unit) /\ Len(ring \o sent) = Len(ring) + n
    BY <2>4, ConcatProperties
  <2>7. m - n <= BufLen
    BY <2>2
  <2> HIDE DEF m
  <2>8. QED
    BY <2>1, <2>2, <2>5, <2>6, <2>7
<1>24. ASSUME NEW r \in Recs, CaptureFindsNoRoom(r) PROVE SoundType'
  BY <1>24 DEF CaptureFindsNoRoom
<1>25. ASSUME NEW r \in Recs, CaptureEnds(r) PROVE SoundType'
  BY <1>25 DEF CaptureEnds
<1>26. ASSUME NEW r \in Recs, WriterCannotStart(r) PROVE SoundType'
  BY <1>26 DEF WriterCannotStart
<1>27. ASSUME NEW r \in Recs, WriterStarts(r) PROVE SoundType'
  BY <1>27 DEF WriterStarts
<1>28. ASSUME NEW r \in Recs, WriterReceives(r) PROVE SoundType'
  <2> DEFINE m == Len(ring)
  <2>1. PICK n \in 1 .. BufLen :
          n <= m /\ wbuf' = [wbuf EXCEPT ![r] = SubSeq(ring, 1, n)]
                 /\ ring' = SubSeq(ring, n + 1, m)
    BY <1>28 DEF WriterReceives
  <2>2. UNCHANGED <<data, captured, cbuf>>
    BY <1>28 DEF WriterReceives
  <2>3. m \in Nat /\ n \in 1 .. m /\ m <= RingCap /\ n <= BufLen
    BY <2>1, LenProperties
  <2>4. \A i \in 1 .. m : ring[i] \in Unit
    BY ElementOfSeq
  <2>5. SubSeq(ring, 1, n) \in Seq(Unit) /\ Len(SubSeq(ring, 1, n)) = n
    BY <2>3, <2>4, SubSeqProperties
  <2>6. SubSeq(ring, n + 1, m) \in Seq(Unit) /\ Len(SubSeq(ring, n + 1, m)) = m - n
    BY <2>3, <2>4, SubSeqProperties
  <2>7. m - n <= RingCap
    BY <2>3
  <2> HIDE DEF m
  <2>8. QED
    BY <2>1, <2>2, <2>3, <2>5, <2>6, <2>7
<1>29. ASSUME NEW r \in Recs, WriterWrites(r) PROVE SoundType'
  <2>1. /\ data' = [data EXCEPT ![file] = data[file] \o wbuf[r]]
        /\ UNCHANGED <<ring, captured, cbuf, wbuf>> /\ file \in Recs
    BY <1>29 DEF WriterWrites, ControlType, Recs
  <2>2. data[file] \o wbuf[r] \in Seq(Unit)
    BY <2>1, ConcatProperties
  <2>3. QED
    BY <2>1, <2>2
<1>30. ASSUME NEW r \in Recs, WriterWritesShort(r) PROVE SoundType'
  <2>0. file = 0 \/ file \in Recs
    BY DEF ControlType, Recs
  <2>1. /\ UNCHANGED <<ring, captured, cbuf>> /\ wbuf' = [wbuf EXCEPT ![r] = << >>]
        /\ \/ UNCHANGED data
           \/ file \in Recs /\ \E n \in 0 .. Len(wbuf[r]) - 1 :
                data' = [data EXCEPT ![file] = data[file] \o SubSeq(wbuf[r], 1, n)]
    BY <1>30, <2>0 DEF WriterWritesShort
  <2>2. data' \in [Recs -> Seq(Unit)]
    <3>1. CASE UNCHANGED data
      BY <3>1
    <3>2. ASSUME file \in Recs, NEW n \in 0 .. Len(wbuf[r]) - 1,
                 data' = [data EXCEPT ![file] = data[file] \o SubSeq(wbuf[r], 1, n)]
          PROVE  data' \in [Recs -> Seq(Unit)]
      <4>1. \A i \in 1 .. n : wbuf[r][i] \in Unit
        BY ElementOfSeq, LenProperties
      <4>2. SubSeq(wbuf[r], 1, n) \in Seq(Unit)
        BY <4>1, SubSeqProperties
      <4>3. data[file] \o SubSeq(wbuf[r], 1, n) \in Seq(Unit)
        BY <3>2, <4>2, ConcatProperties
      <4>4. QED
        BY <3>2, <4>3
    <3>3. QED
      BY <2>1, <3>1, <3>2
  <2>3. wbuf' \in [Recs -> Seq(Unit)] /\ \A s \in Recs : Len(wbuf'[s]) <= BufLen
    BY <2>1
  <2>4. QED
    BY <2>1, <2>2, <2>3
<1>31. ASSUME NEW r \in Recs, WriterCounts(r) PROVE SoundType'
  BY <1>31 DEF WriterCounts
<1>32. ASSUME NEW r \in Recs, WriterLeaves(r) PROVE SoundType'
  BY <1>32 DEF WriterLeaves
<1>33. ASSUME NEW r \in Recs, WriterFindsNoRing(r) PROVE SoundType'
  BY <1>33 DEF WriterFindsNoRing
<1>34. ASSUME NEW r \in Recs, WriterEnds(r) PROVE SoundType'
  BY <1>34 DEF WriterEnds
<1>35. CASE UNCHANGED vars  BY <1>35 DEF vars
<1>36. QED
  BY <1>1, <1>2, <1>3, <1>4, <1>5, <1>5a, <1>6, <1>7, <1>8, <1>9, <1>10, <1>11, <1>12, <1>13,
     <1>14, <1>15, <1>16, <1>17, <1>18, <1>19, <1>20, <1>21, <1>22, <1>23, <1>24, <1>25,
     <1>26, <1>27, <1>28, <1>29, <1>30, <1>31, <1>32, <1>33, <1>34, <1>35
  DEF Next, App, Capture, Writer

(* A recording's tasks exist from the two steps that create them on.       *)
LEMMA StepCalls ==
  ASSUME BoolType, ControlType, CallsInv, [Next]_vars
  PROVE  CallsInv'
<1> USE AudioRecordAssumption DEF ControlType, CapPoints, WrPoints, AppPoints, Recs,
         BoolType, CallsInv, Starting, Busy, Sends, CapAt, WrAt, AppAt, flags, fileVars,
         ringVars, appVars, capVars, wrVars, ghosts
<1>1. CASE CallStop  BY <1>1 DEF CallStop
<1>2. CASE CallStart  BY <1>2 DEF CallStart
<1>3. CASE StopJoins  BY <1>3 DEF StopJoins
<1>4. CASE StopGivesUp  BY <1>4 DEF StopGivesUp
<1>5. CASE StopFinalizes  BY <1>5 DEF StopFinalizes
<1>5a. CASE StopCannotFinalize  BY <1>5a DEF StopCannotFinalize
<1>6. CASE StopTearsDown  BY <1>6 DEF StopTearsDown
<1>7. CASE StartCannotOpen  BY <1>7 DEF StartCannotOpen
<1>8. CASE StartOpens  BY <1>8 DEF StartOpens
<1>9. CASE StartCannotPrepare  BY <1>9 DEF StartCannotPrepare
<1>10. CASE StartPrepares  BY <1>10 DEF StartPrepares
<1>11. CASE SpawnsCapture  BY <1>11 DEF SpawnsCapture
<1>12. CASE CaptureSpawnFails  BY <1>12 DEF CaptureSpawnFails
<1>13. CASE SpawnsWriter  BY <1>13 DEF SpawnsWriter
<1>14. CASE WriterSpawnFails  BY <1>14 DEF WriterSpawnFails
<1>15. CASE StartPublishes  BY <1>15 DEF StartPublishes
<1>16. ASSUME NEW r \in Recs, CaptureCannotStart(r) PROVE CallsInv'
  BY <1>16 DEF CaptureCannotStart
<1>17. ASSUME NEW r \in Recs, CaptureStarts(r) PROVE CallsInv'
  BY <1>17 DEF CaptureStarts
<1>18. ASSUME NEW r \in Recs, CaptureLoops(r) PROVE CallsInv'
  BY <1>18 DEF CaptureLoops
<1>19. ASSUME NEW r \in Recs, CaptureReads(r) PROVE CallsInv'
  BY <1>19 DEF CaptureReads
<1>20. ASSUME NEW r \in Recs, CaptureReadsNoMore(r) PROVE CallsInv'
  BY <1>20 DEF CaptureReadsNoMore
<1>21. ASSUME NEW r \in Recs, CaptureReadFails(r) PROVE CallsInv'
  BY <1>21 DEF CaptureReadFails
<1>22. ASSUME NEW r \in Recs, CaptureTestsStop(r) PROVE CallsInv'
  BY <1>22 DEF CaptureTestsStop
<1>23. ASSUME NEW r \in Recs, CaptureSends(r) PROVE CallsInv'
  BY <1>23 DEF CaptureSends
<1>24. ASSUME NEW r \in Recs, CaptureFindsNoRoom(r) PROVE CallsInv'
  BY <1>24 DEF CaptureFindsNoRoom
<1>25. ASSUME NEW r \in Recs, CaptureEnds(r) PROVE CallsInv'
  BY <1>25 DEF CaptureEnds
<1>26. ASSUME NEW r \in Recs, WriterCannotStart(r) PROVE CallsInv'
  BY <1>26 DEF WriterCannotStart
<1>27. ASSUME NEW r \in Recs, WriterStarts(r) PROVE CallsInv'
  BY <1>27 DEF WriterStarts
<1>28. ASSUME NEW r \in Recs, WriterReceives(r) PROVE CallsInv'
  BY <1>28 DEF WriterReceives
<1>29. ASSUME NEW r \in Recs, WriterWrites(r) PROVE CallsInv'
  BY <1>29 DEF WriterWrites
<1>30. ASSUME NEW r \in Recs, WriterWritesShort(r) PROVE CallsInv'
  BY <1>30 DEF WriterWritesShort
<1>31. ASSUME NEW r \in Recs, WriterCounts(r) PROVE CallsInv'
  BY <1>31 DEF WriterCounts
<1>32. ASSUME NEW r \in Recs, WriterLeaves(r) PROVE CallsInv'
  BY <1>32 DEF WriterLeaves
<1>33. ASSUME NEW r \in Recs, WriterFindsNoRing(r) PROVE CallsInv'
  BY <1>33 DEF WriterFindsNoRing
<1>34. ASSUME NEW r \in Recs, WriterEnds(r) PROVE CallsInv'
  BY <1>34 DEF WriterEnds
<1>35. CASE UNCHANGED vars  BY <1>35 DEF vars
<1>36. QED
  BY <1>1, <1>2, <1>3, <1>4, <1>5, <1>5a, <1>6, <1>7, <1>8, <1>9, <1>10, <1>11, <1>12, <1>13,
     <1>14, <1>15, <1>16, <1>17, <1>18, <1>19, <1>20, <1>21, <1>22, <1>23, <1>24, <1>25,
     <1>26, <1>27, <1>28, <1>29, <1>30, <1>31, <1>32, <1>33, <1>34, <1>35
  DEF Next, App, Capture, Writer

(* The capture task's buffer is in use between a read and its last send.   *)
LEMMA StepBuffers ==
  ASSUME ControlType, SoundType, CallsInv, BuffersInv, [Next]_vars
  PROVE  BuffersInv'
<1> USE AudioRecordAssumption DEF ControlType, CapPoints, WrPoints, AppPoints, Recs,
         BuffersInv, CallsInv, Starting, CapAt, WrAt, AppAt, flags, fileVars, ringVars,
         appVars, capVars, wrVars, ghosts
<1>1. CASE CallStop  BY <1>1 DEF CallStop
<1>2. CASE CallStart  BY <1>2 DEF CallStart
<1>3. CASE StopJoins  BY <1>3 DEF StopJoins
<1>4. CASE StopGivesUp  BY <1>4 DEF StopGivesUp
<1>5. CASE StopFinalizes  BY <1>5 DEF StopFinalizes
<1>5a. CASE StopCannotFinalize  BY <1>5a DEF StopCannotFinalize
<1>6. CASE StopTearsDown  BY <1>6 DEF StopTearsDown
<1>7. CASE StartCannotOpen  BY <1>7 DEF StartCannotOpen
<1>8. CASE StartOpens  BY <1>8 DEF StartOpens
<1>9. CASE StartCannotPrepare  BY <1>9 DEF StartCannotPrepare
<1>10. CASE StartPrepares  BY <1>10 DEF StartPrepares
<1>11. CASE SpawnsCapture  BY <1>11 DEF SpawnsCapture
<1>12. CASE CaptureSpawnFails  BY <1>12 DEF CaptureSpawnFails
<1>13. CASE SpawnsWriter  BY <1>13 DEF SpawnsWriter
<1>14. CASE WriterSpawnFails  BY <1>14 DEF WriterSpawnFails
<1>15. CASE StartPublishes  BY <1>15 DEF StartPublishes
<1>16. ASSUME NEW r \in Recs, CaptureCannotStart(r) PROVE BuffersInv'
  BY <1>16 DEF CaptureCannotStart
<1>17. ASSUME NEW r \in Recs, CaptureStarts(r) PROVE BuffersInv'
  BY <1>17 DEF CaptureStarts
<1>18. ASSUME NEW r \in Recs, CaptureLoops(r) PROVE BuffersInv'
  BY <1>18 DEF CaptureLoops
<1>19. ASSUME NEW r \in Recs, CaptureReads(r) PROVE BuffersInv'
  BY <1>19 DEF CaptureReads, SoundType
<1>20. ASSUME NEW r \in Recs, CaptureReadsNoMore(r) PROVE BuffersInv'
  BY <1>20 DEF CaptureReadsNoMore
<1>21. ASSUME NEW r \in Recs, CaptureReadFails(r) PROVE BuffersInv'
  BY <1>21 DEF CaptureReadFails
<1>22. ASSUME NEW r \in Recs, CaptureTestsStop(r) PROVE BuffersInv'
  <2>1. UNCHANGED captured /\ cpc' = [cpc EXCEPT ![r] = IF stopReq THEN "loop" ELSE "sending"]
        /\ cbuf' = IF stopReq THEN [cbuf EXCEPT ![r] = << >>] ELSE cbuf
    BY <1>22 DEF CaptureTestsStop
  <2>2. CASE stopReq
    BY <2>1, <2>2 DEF SoundType
  <2>3. CASE ~stopReq
    BY <2>1, <2>3 DEF SoundType
  <2>4. QED
    BY <2>2, <2>3
<1>23. ASSUME NEW r \in Recs, CaptureSends(r) PROVE BuffersInv'
  <2> DEFINE m == Len(cbuf[r])
             rest == SubSeq(cbuf[r], Fits(r) + 1, m)
  <2>1. /\ UNCHANGED captured /\ cbuf' = [cbuf EXCEPT ![r] = rest]
        /\ \E next \in IF Fits(r) = m THEN {"loop"} ELSE {"sending", "send"} :
             cpc' = [cpc EXCEPT ![r] = next]
    BY <1>23 DEF CaptureSends, Sends
  <2>2. m \in Nat /\ cbuf \in [Recs -> Seq(Unit)]
    BY LenProperties DEF SoundType
  <2> HIDE DEF rest
  <2>3. CASE Fits(r) = m
    <3>1. rest = << >>
      BY <2>2, <2>3, SubSeqEmpty DEF rest
    <3> HIDE DEF m
    <3>2. cpc' = [cpc EXCEPT ![r] = "loop"]
      BY <2>1, <2>3
    <3>3. QED
      BY <2>1, <2>2, <3>1, <3>2
  <2>4. CASE Fits(r) # m
    <3> HIDE DEF m
    <3>1. PICK next \in {"sending", "send"} : cpc' = [cpc EXCEPT ![r] = next]
      BY <2>1, <2>4
    <3>2. QED
      BY <2>1, <2>2, <3>1
  <2>5. QED
    BY <2>3, <2>4
<1>24. ASSUME NEW r \in Recs, CaptureFindsNoRoom(r) PROVE BuffersInv'
  BY <1>24 DEF CaptureFindsNoRoom
<1>25. ASSUME NEW r \in Recs, CaptureEnds(r) PROVE BuffersInv'
  BY <1>25 DEF CaptureEnds
<1>26. ASSUME NEW r \in Recs, WriterCannotStart(r) PROVE BuffersInv'
  BY <1>26 DEF WriterCannotStart
<1>27. ASSUME NEW r \in Recs, WriterStarts(r) PROVE BuffersInv'
  BY <1>27 DEF WriterStarts
<1>28. ASSUME NEW r \in Recs, WriterReceives(r) PROVE BuffersInv'
  BY <1>28 DEF WriterReceives
<1>29. ASSUME NEW r \in Recs, WriterWrites(r) PROVE BuffersInv'
  BY <1>29 DEF WriterWrites
<1>30. ASSUME NEW r \in Recs, WriterWritesShort(r) PROVE BuffersInv'
  BY <1>30 DEF WriterWritesShort
<1>31. ASSUME NEW r \in Recs, WriterCounts(r) PROVE BuffersInv'
  BY <1>31 DEF WriterCounts
<1>32. ASSUME NEW r \in Recs, WriterLeaves(r) PROVE BuffersInv'
  BY <1>32 DEF WriterLeaves
<1>33. ASSUME NEW r \in Recs, WriterFindsNoRing(r) PROVE BuffersInv'
  BY <1>33 DEF WriterFindsNoRing
<1>34. ASSUME NEW r \in Recs, WriterEnds(r) PROVE BuffersInv'
  BY <1>34 DEF WriterEnds
<1>35. CASE UNCHANGED vars  BY <1>35 DEF vars
<1>36. QED
  BY <1>1, <1>2, <1>3, <1>4, <1>5, <1>5a, <1>6, <1>7, <1>8, <1>9, <1>10, <1>11, <1>12, <1>13,
     <1>14, <1>15, <1>16, <1>17, <1>18, <1>19, <1>20, <1>21, <1>22, <1>23, <1>24, <1>25,
     <1>26, <1>27, <1>28, <1>29, <1>30, <1>31, <1>32, <1>33, <1>34, <1>35
  DEF Next, App, Capture, Writer

(* Only the last recording's tasks live, until one is started over them.   *)
LEMMA StepAlone ==
  ASSUME BoolType, ControlType, CallsInv, AloneInv, [Next]_vars
  PROVE  AloneInv'
<1> USE AudioRecordAssumption DEF ControlType, CapPoints, WrPoints, AppPoints, Recs,
         BoolType, CallsInv, Starting, AloneInv, CapAlive, WrAlive, SomeoneAlive, Sends,
         CapAt, WrAt, AppAt, flags, fileVars, ringVars, appVars, capVars, wrVars, ghosts
<1>1. CASE CallStop  BY <1>1 DEF CallStop
<1>2. CASE CallStart  BY <1>2 DEF CallStart
<1>3. CASE StopJoins  BY <1>3 DEF StopJoins
<1>4. CASE StopGivesUp  BY <1>4 DEF StopGivesUp
<1>5. CASE StopFinalizes  BY <1>5 DEF StopFinalizes
<1>5a. CASE StopCannotFinalize  BY <1>5a DEF StopCannotFinalize
<1>6. CASE StopTearsDown  BY <1>6 DEF StopTearsDown
<1>7. CASE StartCannotOpen  BY <1>7 DEF StartCannotOpen
<1>8. CASE StartOpens  BY <1>8 DEF StartOpens
<1>9. CASE StartCannotPrepare  BY <1>9 DEF StartCannotPrepare
<1>10. CASE StartPrepares  BY <1>10 DEF StartPrepares
<1>11. CASE SpawnsCapture  BY <1>11 DEF SpawnsCapture
<1>12. CASE CaptureSpawnFails  BY <1>12 DEF CaptureSpawnFails
<1>13. CASE SpawnsWriter  BY <1>13 DEF SpawnsWriter
<1>14. CASE WriterSpawnFails  BY <1>14 DEF WriterSpawnFails
<1>15. CASE StartPublishes  BY <1>15 DEF StartPublishes
<1>16. ASSUME NEW r \in Recs, CaptureCannotStart(r) PROVE AloneInv'
  BY <1>16 DEF CaptureCannotStart
<1>17. ASSUME NEW r \in Recs, CaptureStarts(r) PROVE AloneInv'
  BY <1>17 DEF CaptureStarts
<1>18. ASSUME NEW r \in Recs, CaptureLoops(r) PROVE AloneInv'
  BY <1>18 DEF CaptureLoops
<1>19. ASSUME NEW r \in Recs, CaptureReads(r) PROVE AloneInv'
  BY <1>19 DEF CaptureReads
<1>20. ASSUME NEW r \in Recs, CaptureReadsNoMore(r) PROVE AloneInv'
  BY <1>20 DEF CaptureReadsNoMore
<1>21. ASSUME NEW r \in Recs, CaptureReadFails(r) PROVE AloneInv'
  BY <1>21 DEF CaptureReadFails
<1>22. ASSUME NEW r \in Recs, CaptureTestsStop(r) PROVE AloneInv'
  BY <1>22 DEF CaptureTestsStop
<1>23. ASSUME NEW r \in Recs, CaptureSends(r) PROVE AloneInv'
  BY <1>23 DEF CaptureSends
<1>24. ASSUME NEW r \in Recs, CaptureFindsNoRoom(r) PROVE AloneInv'
  BY <1>24 DEF CaptureFindsNoRoom
<1>25. ASSUME NEW r \in Recs, CaptureEnds(r) PROVE AloneInv'
  BY <1>25 DEF CaptureEnds
<1>26. ASSUME NEW r \in Recs, WriterCannotStart(r) PROVE AloneInv'
  BY <1>26 DEF WriterCannotStart
<1>27. ASSUME NEW r \in Recs, WriterStarts(r) PROVE AloneInv'
  BY <1>27 DEF WriterStarts
<1>28. ASSUME NEW r \in Recs, WriterReceives(r) PROVE AloneInv'
  BY <1>28 DEF WriterReceives
<1>29. ASSUME NEW r \in Recs, WriterWrites(r) PROVE AloneInv'
  BY <1>29 DEF WriterWrites
<1>30. ASSUME NEW r \in Recs, WriterWritesShort(r) PROVE AloneInv'
  BY <1>30 DEF WriterWritesShort
<1>31. ASSUME NEW r \in Recs, WriterCounts(r) PROVE AloneInv'
  BY <1>31 DEF WriterCounts
<1>32. ASSUME NEW r \in Recs, WriterLeaves(r) PROVE AloneInv'
  BY <1>32 DEF WriterLeaves
<1>33. ASSUME NEW r \in Recs, WriterFindsNoRing(r) PROVE AloneInv'
  BY <1>33 DEF WriterFindsNoRing
<1>34. ASSUME NEW r \in Recs, WriterEnds(r) PROVE AloneInv'
  BY <1>34 DEF WriterEnds
<1>35. CASE UNCHANGED vars  BY <1>35 DEF vars
<1>36. QED
  BY <1>1, <1>2, <1>3, <1>4, <1>5, <1>5a, <1>6, <1>7, <1>8, <1>9, <1>10, <1>11, <1>12, <1>13,
     <1>14, <1>15, <1>16, <1>17, <1>18, <1>19, <1>20, <1>21, <1>22, <1>23, <1>24, <1>25,
     <1>26, <1>27, <1>28, <1>29, <1>30, <1>31, <1>32, <1>33, <1>34, <1>35
  DEF Next, App, Capture, Writer

(* During a recording the done flags tell which of its tasks are gone.     *)
LEMMA StepFlags ==
  ASSUME BoolType, ControlType, CallsInv, AloneInv, FlagsInv,
         [Next]_vars
  PROVE  FlagsInv'
<1> USE AudioRecordAssumption DEF ControlType, CapPoints, WrPoints, AppPoints, Recs,
         BoolType, CallsInv, Starting, AloneInv, CapAlive, WrAlive, FlagsInv, InSession,
         SomeoneAlive, Sends, CapAt, WrAt, AppAt, flags, fileVars, ringVars, appVars,
         capVars, wrVars, ghosts
<1>1. CASE CallStop  BY <1>1 DEF CallStop
<1>2. CASE CallStart  BY <1>2 DEF CallStart
<1>3. CASE StopJoins  BY <1>3 DEF StopJoins
<1>4. CASE StopGivesUp  BY <1>4 DEF StopGivesUp
<1>5. CASE StopFinalizes  BY <1>5 DEF StopFinalizes
<1>5a. CASE StopCannotFinalize  BY <1>5a DEF StopCannotFinalize
<1>6. CASE StopTearsDown  BY <1>6 DEF StopTearsDown
<1>7. CASE StartCannotOpen  BY <1>7 DEF StartCannotOpen
<1>8. CASE StartOpens  BY <1>8 DEF StartOpens
<1>9. CASE StartCannotPrepare  BY <1>9 DEF StartCannotPrepare
<1>10. CASE StartPrepares  BY <1>10 DEF StartPrepares
<1>11. CASE SpawnsCapture  BY <1>11 DEF SpawnsCapture
<1>12. CASE CaptureSpawnFails  BY <1>12 DEF CaptureSpawnFails
<1>13. CASE SpawnsWriter  BY <1>13 DEF SpawnsWriter
<1>14. CASE WriterSpawnFails  BY <1>14 DEF WriterSpawnFails
<1>15. CASE StartPublishes  BY <1>15 DEF StartPublishes
<1>16. ASSUME NEW r \in Recs, CaptureCannotStart(r) PROVE FlagsInv'
  BY <1>16 DEF CaptureCannotStart
<1>17. ASSUME NEW r \in Recs, CaptureStarts(r) PROVE FlagsInv'
  BY <1>17 DEF CaptureStarts
<1>18. ASSUME NEW r \in Recs, CaptureLoops(r) PROVE FlagsInv'
  BY <1>18 DEF CaptureLoops
<1>19. ASSUME NEW r \in Recs, CaptureReads(r) PROVE FlagsInv'
  BY <1>19 DEF CaptureReads
<1>20. ASSUME NEW r \in Recs, CaptureReadsNoMore(r) PROVE FlagsInv'
  BY <1>20 DEF CaptureReadsNoMore
<1>21. ASSUME NEW r \in Recs, CaptureReadFails(r) PROVE FlagsInv'
  BY <1>21 DEF CaptureReadFails
<1>22. ASSUME NEW r \in Recs, CaptureTestsStop(r) PROVE FlagsInv'
  BY <1>22 DEF CaptureTestsStop
<1>23. ASSUME NEW r \in Recs, CaptureSends(r) PROVE FlagsInv'
  BY <1>23 DEF CaptureSends
<1>24. ASSUME NEW r \in Recs, CaptureFindsNoRoom(r) PROVE FlagsInv'
  BY <1>24 DEF CaptureFindsNoRoom
<1>25. ASSUME NEW r \in Recs, CaptureEnds(r) PROVE FlagsInv'
  BY <1>25 DEF CaptureEnds
<1>26. ASSUME NEW r \in Recs, WriterCannotStart(r) PROVE FlagsInv'
  BY <1>26 DEF WriterCannotStart
<1>27. ASSUME NEW r \in Recs, WriterStarts(r) PROVE FlagsInv'
  BY <1>27 DEF WriterStarts
<1>28. ASSUME NEW r \in Recs, WriterReceives(r) PROVE FlagsInv'
  BY <1>28 DEF WriterReceives
<1>29. ASSUME NEW r \in Recs, WriterWrites(r) PROVE FlagsInv'
  BY <1>29 DEF WriterWrites
<1>30. ASSUME NEW r \in Recs, WriterWritesShort(r) PROVE FlagsInv'
  BY <1>30 DEF WriterWritesShort
<1>31. ASSUME NEW r \in Recs, WriterCounts(r) PROVE FlagsInv'
  BY <1>31 DEF WriterCounts
<1>32. ASSUME NEW r \in Recs, WriterLeaves(r) PROVE FlagsInv'
  BY <1>32 DEF WriterLeaves
<1>33. ASSUME NEW r \in Recs, WriterFindsNoRing(r) PROVE FlagsInv'
  BY <1>33 DEF WriterFindsNoRing
<1>34. ASSUME NEW r \in Recs, WriterEnds(r) PROVE FlagsInv'
  BY <1>34 DEF WriterEnds
<1>35. CASE UNCHANGED vars  BY <1>35 DEF vars
<1>36. QED
  BY <1>1, <1>2, <1>3, <1>4, <1>5, <1>5a, <1>6, <1>7, <1>8, <1>9, <1>10, <1>11, <1>12, <1>13,
     <1>14, <1>15, <1>16, <1>17, <1>18, <1>19, <1>20, <1>21, <1>22, <1>23, <1>24, <1>25,
     <1>26, <1>27, <1>28, <1>29, <1>30, <1>31, <1>32, <1>33, <1>34, <1>35
  DEF Next, App, Capture, Writer

(* stopRecord() goes past the join when both tasks are gone.               *)
LEMMA StepJoined ==
  ASSUME BoolType, ControlType, CallsInv, AloneInv, FlagsInv,
         JoinedInv, [Next]_vars
  PROVE  JoinedInv'
<1> USE AudioRecordAssumption DEF ControlType, CapPoints, WrPoints, AppPoints, Recs,
         BoolType, CallsInv, Starting, AloneInv, CapAlive, WrAlive, FlagsInv, InSession,
         JoinedInv, Sends, CapAt, WrAt, AppAt, flags, fileVars, ringVars, appVars, capVars,
         wrVars, ghosts
<1>1. CASE CallStop  BY <1>1 DEF CallStop
<1>2. CASE CallStart  BY <1>2 DEF CallStart
<1>3. CASE StopJoins  BY <1>3 DEF StopJoins
<1>4. CASE StopGivesUp  BY <1>4 DEF StopGivesUp
<1>5. CASE StopFinalizes  BY <1>5 DEF StopFinalizes
<1>5a. CASE StopCannotFinalize  BY <1>5a DEF StopCannotFinalize
<1>6. CASE StopTearsDown  BY <1>6 DEF StopTearsDown
<1>7. CASE StartCannotOpen  BY <1>7 DEF StartCannotOpen
<1>8. CASE StartOpens  BY <1>8 DEF StartOpens
<1>9. CASE StartCannotPrepare  BY <1>9 DEF StartCannotPrepare
<1>10. CASE StartPrepares  BY <1>10 DEF StartPrepares
<1>11. CASE SpawnsCapture  BY <1>11 DEF SpawnsCapture
<1>12. CASE CaptureSpawnFails  BY <1>12 DEF CaptureSpawnFails
<1>13. CASE SpawnsWriter  BY <1>13 DEF SpawnsWriter
<1>14. CASE WriterSpawnFails  BY <1>14 DEF WriterSpawnFails
<1>15. CASE StartPublishes  BY <1>15 DEF StartPublishes
<1>16. ASSUME NEW r \in Recs, CaptureCannotStart(r) PROVE JoinedInv'
  BY <1>16 DEF CaptureCannotStart
<1>17. ASSUME NEW r \in Recs, CaptureStarts(r) PROVE JoinedInv'
  BY <1>17 DEF CaptureStarts
<1>18. ASSUME NEW r \in Recs, CaptureLoops(r) PROVE JoinedInv'
  BY <1>18 DEF CaptureLoops
<1>19. ASSUME NEW r \in Recs, CaptureReads(r) PROVE JoinedInv'
  BY <1>19 DEF CaptureReads
<1>20. ASSUME NEW r \in Recs, CaptureReadsNoMore(r) PROVE JoinedInv'
  BY <1>20 DEF CaptureReadsNoMore
<1>21. ASSUME NEW r \in Recs, CaptureReadFails(r) PROVE JoinedInv'
  BY <1>21 DEF CaptureReadFails
<1>22. ASSUME NEW r \in Recs, CaptureTestsStop(r) PROVE JoinedInv'
  BY <1>22 DEF CaptureTestsStop
<1>23. ASSUME NEW r \in Recs, CaptureSends(r) PROVE JoinedInv'
  BY <1>23 DEF CaptureSends
<1>24. ASSUME NEW r \in Recs, CaptureFindsNoRoom(r) PROVE JoinedInv'
  BY <1>24 DEF CaptureFindsNoRoom
<1>25. ASSUME NEW r \in Recs, CaptureEnds(r) PROVE JoinedInv'
  BY <1>25 DEF CaptureEnds
<1>26. ASSUME NEW r \in Recs, WriterCannotStart(r) PROVE JoinedInv'
  BY <1>26 DEF WriterCannotStart
<1>27. ASSUME NEW r \in Recs, WriterStarts(r) PROVE JoinedInv'
  BY <1>27 DEF WriterStarts
<1>28. ASSUME NEW r \in Recs, WriterReceives(r) PROVE JoinedInv'
  BY <1>28 DEF WriterReceives
<1>29. ASSUME NEW r \in Recs, WriterWrites(r) PROVE JoinedInv'
  BY <1>29 DEF WriterWrites
<1>30. ASSUME NEW r \in Recs, WriterWritesShort(r) PROVE JoinedInv'
  BY <1>30 DEF WriterWritesShort
<1>31. ASSUME NEW r \in Recs, WriterCounts(r) PROVE JoinedInv'
  BY <1>31 DEF WriterCounts
<1>32. ASSUME NEW r \in Recs, WriterLeaves(r) PROVE JoinedInv'
  BY <1>32 DEF WriterLeaves
<1>33. ASSUME NEW r \in Recs, WriterFindsNoRing(r) PROVE JoinedInv'
  BY <1>33 DEF WriterFindsNoRing
<1>34. ASSUME NEW r \in Recs, WriterEnds(r) PROVE JoinedInv'
  BY <1>34 DEF WriterEnds
<1>35. CASE UNCHANGED vars  BY <1>35 DEF vars
<1>36. QED
  BY <1>1, <1>2, <1>3, <1>4, <1>5, <1>5a, <1>6, <1>7, <1>8, <1>9, <1>10, <1>11, <1>12, <1>13,
     <1>14, <1>15, <1>16, <1>17, <1>18, <1>19, <1>20, <1>21, <1>22, <1>23, <1>24, <1>25,
     <1>26, <1>27, <1>28, <1>29, <1>30, <1>31, <1>32, <1>33, <1>34, <1>35
  DEF Next, App, Capture, Writer

(* The ring is there as long as the writer task.                           *)
LEMMA StepRing ==
  ASSUME BoolType, ControlType, CallsInv, AloneInv, FlagsInv, JoinedInv,
         RingInv, [Next]_vars
  PROVE  RingInv'
<1> USE AudioRecordAssumption DEF ControlType, CapPoints, WrPoints, AppPoints, Recs,
         BoolType, CallsInv, Starting, AloneInv, CapAlive, WrAlive, FlagsInv, InSession,
         JoinedInv, RingInv, SomeoneAlive, Sends, CapAt, WrAt, AppAt, flags, fileVars,
         ringVars, appVars, capVars, wrVars, ghosts
<1>1. CASE CallStop  BY <1>1 DEF CallStop
<1>2. CASE CallStart  BY <1>2 DEF CallStart
<1>3. CASE StopJoins  BY <1>3 DEF StopJoins
<1>4. CASE StopGivesUp  BY <1>4 DEF StopGivesUp
<1>5. CASE StopFinalizes  BY <1>5 DEF StopFinalizes
<1>5a. CASE StopCannotFinalize  BY <1>5a DEF StopCannotFinalize
<1>6. CASE StopTearsDown  BY <1>6 DEF StopTearsDown, DeletesRing
<1>7. CASE StartCannotOpen  BY <1>7 DEF StartCannotOpen
<1>8. CASE StartOpens  BY <1>8 DEF StartOpens
<1>9. CASE StartCannotPrepare  BY <1>9 DEF StartCannotPrepare, DeletesRing
<1>10. CASE StartPrepares  BY <1>10 DEF StartPrepares
<1>11. CASE SpawnsCapture  BY <1>11 DEF SpawnsCapture
<1>12. CASE CaptureSpawnFails  BY <1>12 DEF CaptureSpawnFails, DeletesRing
<1>13. CASE SpawnsWriter  BY <1>13 DEF SpawnsWriter
<1>14. CASE WriterSpawnFails  BY <1>14 DEF WriterSpawnFails, DeletesRing
<1>15. CASE StartPublishes  BY <1>15 DEF StartPublishes
<1>16. ASSUME NEW r \in Recs, CaptureCannotStart(r) PROVE RingInv'
  BY <1>16 DEF CaptureCannotStart
<1>17. ASSUME NEW r \in Recs, CaptureStarts(r) PROVE RingInv'
  BY <1>17 DEF CaptureStarts
<1>18. ASSUME NEW r \in Recs, CaptureLoops(r) PROVE RingInv'
  BY <1>18 DEF CaptureLoops
<1>19. ASSUME NEW r \in Recs, CaptureReads(r) PROVE RingInv'
  BY <1>19 DEF CaptureReads
<1>20. ASSUME NEW r \in Recs, CaptureReadsNoMore(r) PROVE RingInv'
  BY <1>20 DEF CaptureReadsNoMore
<1>21. ASSUME NEW r \in Recs, CaptureReadFails(r) PROVE RingInv'
  BY <1>21 DEF CaptureReadFails
<1>22. ASSUME NEW r \in Recs, CaptureTestsStop(r) PROVE RingInv'
  BY <1>22 DEF CaptureTestsStop
<1>23. ASSUME NEW r \in Recs, CaptureSends(r) PROVE RingInv'
  BY <1>23 DEF CaptureSends
<1>24. ASSUME NEW r \in Recs, CaptureFindsNoRoom(r) PROVE RingInv'
  BY <1>24 DEF CaptureFindsNoRoom
<1>25. ASSUME NEW r \in Recs, CaptureEnds(r) PROVE RingInv'
  BY <1>25 DEF CaptureEnds
<1>26. ASSUME NEW r \in Recs, WriterCannotStart(r) PROVE RingInv'
  BY <1>26 DEF WriterCannotStart
<1>27. ASSUME NEW r \in Recs, WriterStarts(r) PROVE RingInv'
  BY <1>27 DEF WriterStarts
<1>28. ASSUME NEW r \in Recs, WriterReceives(r) PROVE RingInv'
  BY <1>28 DEF WriterReceives
<1>29. ASSUME NEW r \in Recs, WriterWrites(r) PROVE RingInv'
  BY <1>29 DEF WriterWrites
<1>30. ASSUME NEW r \in Recs, WriterWritesShort(r) PROVE RingInv'
  BY <1>30 DEF WriterWritesShort
<1>31. ASSUME NEW r \in Recs, WriterCounts(r) PROVE RingInv'
  BY <1>31 DEF WriterCounts
<1>32. ASSUME NEW r \in Recs, WriterLeaves(r) PROVE RingInv'
  BY <1>32 DEF WriterLeaves
<1>33. ASSUME NEW r \in Recs, WriterFindsNoRing(r) PROVE RingInv'
  BY <1>33 DEF WriterFindsNoRing
<1>34. ASSUME NEW r \in Recs, WriterEnds(r) PROVE RingInv'
  BY <1>34 DEF WriterEnds
<1>35. CASE UNCHANGED vars  BY <1>35 DEF vars
<1>36. QED
  BY <1>1, <1>2, <1>3, <1>4, <1>5, <1>5a, <1>6, <1>7, <1>8, <1>9, <1>10, <1>11, <1>12, <1>13,
     <1>14, <1>15, <1>16, <1>17, <1>18, <1>19, <1>20, <1>21, <1>22, <1>23, <1>24, <1>25,
     <1>26, <1>27, <1>28, <1>29, <1>30, <1>31, <1>32, <1>33, <1>34, <1>35
  DEF Next, App, Capture, Writer

(* A ring or a null ring is never used by a task that stopRecord() joined. *)
LEMMA StepOutlives ==
  ASSUME BoolType, ControlType, CallsInv, AloneInv, FlagsInv,
         JoinedInv, RingInv, RingOutlivesTasks, [Next]_vars
  PROVE  RingOutlivesTasks'
<1> USE AudioRecordAssumption DEF ControlType, CapPoints, WrPoints, AppPoints, Recs,
         BoolType, CallsInv, Starting, AloneInv, CapAlive, WrAlive, FlagsInv, InSession,
         JoinedInv, RingInv, RingOutlivesTasks, InsideRing, Running, CapAt, WrAt, AppAt,
         flags, fileVars, ringVars, appVars, capVars, wrVars, ghosts
<1>1. CASE CallStop  BY <1>1 DEF CallStop
<1>2. CASE CallStart  BY <1>2 DEF CallStart
<1>3. CASE StopJoins  BY <1>3 DEF StopJoins
<1>4. CASE StopGivesUp  BY <1>4 DEF StopGivesUp
<1>5. CASE StopFinalizes  BY <1>5 DEF StopFinalizes
<1>5a. CASE StopCannotFinalize  BY <1>5a DEF StopCannotFinalize
<1>6. CASE StopTearsDown  BY <1>6 DEF StopTearsDown, DeletesRing
<1>7. CASE StartCannotOpen  BY <1>7 DEF StartCannotOpen
<1>8. CASE StartOpens  BY <1>8 DEF StartOpens
<1>9. CASE StartCannotPrepare  BY <1>9 DEF StartCannotPrepare, DeletesRing
<1>10. CASE StartPrepares  BY <1>10 DEF StartPrepares
<1>11. CASE SpawnsCapture  BY <1>11 DEF SpawnsCapture
<1>12. CASE CaptureSpawnFails  BY <1>12 DEF CaptureSpawnFails, DeletesRing
<1>13. CASE SpawnsWriter  BY <1>13 DEF SpawnsWriter
<1>14. CASE WriterSpawnFails  BY <1>14 DEF WriterSpawnFails, DeletesRing
<1>15. CASE StartPublishes  BY <1>15 DEF StartPublishes
<1>16. ASSUME NEW r \in Recs, CaptureCannotStart(r) PROVE RingOutlivesTasks'
  BY <1>16 DEF CaptureCannotStart
<1>17. ASSUME NEW r \in Recs, CaptureStarts(r) PROVE RingOutlivesTasks'
  BY <1>17 DEF CaptureStarts
<1>18. ASSUME NEW r \in Recs, CaptureLoops(r) PROVE RingOutlivesTasks'
  BY <1>18 DEF CaptureLoops
<1>19. ASSUME NEW r \in Recs, CaptureReads(r) PROVE RingOutlivesTasks'
  BY <1>19 DEF CaptureReads
<1>20. ASSUME NEW r \in Recs, CaptureReadsNoMore(r) PROVE RingOutlivesTasks'
  BY <1>20 DEF CaptureReadsNoMore
<1>21. ASSUME NEW r \in Recs, CaptureReadFails(r) PROVE RingOutlivesTasks'
  BY <1>21 DEF CaptureReadFails
<1>22. ASSUME NEW r \in Recs, CaptureTestsStop(r) PROVE RingOutlivesTasks'
  BY <1>22 DEF CaptureTestsStop
<1>23. ASSUME NEW r \in Recs, CaptureSends(r) PROVE RingOutlivesTasks'
  BY <1>23 DEF CaptureSends, Sends
<1>24. ASSUME NEW r \in Recs, CaptureFindsNoRoom(r) PROVE RingOutlivesTasks'
  BY <1>24 DEF CaptureFindsNoRoom
<1>25. ASSUME NEW r \in Recs, CaptureEnds(r) PROVE RingOutlivesTasks'
  BY <1>25 DEF CaptureEnds
<1>26. ASSUME NEW r \in Recs, WriterCannotStart(r) PROVE RingOutlivesTasks'
  BY <1>26 DEF WriterCannotStart
<1>27. ASSUME NEW r \in Recs, WriterStarts(r) PROVE RingOutlivesTasks'
  BY <1>27 DEF WriterStarts
<1>28. ASSUME NEW r \in Recs, WriterReceives(r) PROVE RingOutlivesTasks'
  BY <1>28 DEF WriterReceives
<1>29. ASSUME NEW r \in Recs, WriterWrites(r) PROVE RingOutlivesTasks'
  BY <1>29 DEF WriterWrites
<1>30. ASSUME NEW r \in Recs, WriterWritesShort(r) PROVE RingOutlivesTasks'
  BY <1>30 DEF WriterWritesShort
<1>31. ASSUME NEW r \in Recs, WriterCounts(r) PROVE RingOutlivesTasks'
  BY <1>31 DEF WriterCounts
<1>32. ASSUME NEW r \in Recs, WriterLeaves(r) PROVE RingOutlivesTasks'
  BY <1>32 DEF WriterLeaves
<1>33. ASSUME NEW r \in Recs, WriterFindsNoRing(r) PROVE RingOutlivesTasks'
  BY <1>33 DEF WriterFindsNoRing
<1>34. ASSUME NEW r \in Recs, WriterEnds(r) PROVE RingOutlivesTasks'
  BY <1>34 DEF WriterEnds
<1>35. CASE UNCHANGED vars  BY <1>35 DEF vars
<1>36. QED
  BY <1>1, <1>2, <1>3, <1>4, <1>5, <1>5a, <1>6, <1>7, <1>8, <1>9, <1>10, <1>11, <1>12, <1>13,
     <1>14, <1>15, <1>16, <1>17, <1>18, <1>19, <1>20, <1>21, <1>22, <1>23, <1>24, <1>25,
     <1>26, <1>27, <1>28, <1>29, <1>30, <1>31, <1>32, <1>33, <1>34, <1>35
  DEF Next, App, Capture, Writer

(* The writer leaves when the capture task is gone and the ring is empty.  *)
LEMMA StepDrained ==
  ASSUME BoolType, ControlType, CallsInv, AloneInv, FlagsInv,
         DrainedInv, [Next]_vars
  PROVE  DrainedInv'
<1> USE AudioRecordAssumption DEF ControlType, CapPoints, WrPoints, AppPoints, Recs,
         BoolType, CallsInv, Starting, AloneInv, CapAlive, WrAlive, FlagsInv, InSession,
         DrainedInv, Drained, CapAt, WrAt, AppAt, flags, fileVars, ringVars, appVars,
         capVars, wrVars, ghosts
<1>1. CASE CallStop  BY <1>1 DEF CallStop
<1>2. CASE CallStart  BY <1>2 DEF CallStart
<1>3. CASE StopJoins  BY <1>3 DEF StopJoins
<1>4. CASE StopGivesUp  BY <1>4 DEF StopGivesUp
<1>5. CASE StopFinalizes  BY <1>5 DEF StopFinalizes
<1>5a. CASE StopCannotFinalize  BY <1>5a DEF StopCannotFinalize
<1>6. CASE StopTearsDown  BY <1>6 DEF StopTearsDown, DeletesRing
<1>7. CASE StartCannotOpen  BY <1>7 DEF StartCannotOpen
<1>8. CASE StartOpens  BY <1>8 DEF StartOpens
<1>9. CASE StartCannotPrepare  BY <1>9 DEF StartCannotPrepare, DeletesRing
<1>10. CASE StartPrepares  BY <1>10 DEF StartPrepares
<1>11. CASE SpawnsCapture  BY <1>11 DEF SpawnsCapture
<1>12. CASE CaptureSpawnFails  BY <1>12 DEF CaptureSpawnFails, DeletesRing
<1>13. CASE SpawnsWriter  BY <1>13 DEF SpawnsWriter
<1>14. CASE WriterSpawnFails  BY <1>14 DEF WriterSpawnFails, DeletesRing
<1>15. CASE StartPublishes  BY <1>15 DEF StartPublishes
<1>16. ASSUME NEW r \in Recs, CaptureCannotStart(r) PROVE DrainedInv'
  BY <1>16 DEF CaptureCannotStart
<1>17. ASSUME NEW r \in Recs, CaptureStarts(r) PROVE DrainedInv'
  BY <1>17 DEF CaptureStarts
<1>18. ASSUME NEW r \in Recs, CaptureLoops(r) PROVE DrainedInv'
  BY <1>18 DEF CaptureLoops
<1>19. ASSUME NEW r \in Recs, CaptureReads(r) PROVE DrainedInv'
  BY <1>19 DEF CaptureReads
<1>20. ASSUME NEW r \in Recs, CaptureReadsNoMore(r) PROVE DrainedInv'
  BY <1>20 DEF CaptureReadsNoMore
<1>21. ASSUME NEW r \in Recs, CaptureReadFails(r) PROVE DrainedInv'
  BY <1>21 DEF CaptureReadFails
<1>22. ASSUME NEW r \in Recs, CaptureTestsStop(r) PROVE DrainedInv'
  BY <1>22 DEF CaptureTestsStop
<1>23. ASSUME NEW r \in Recs, CaptureSends(r) PROVE DrainedInv'
  BY <1>23 DEF CaptureSends, Sends
<1>24. ASSUME NEW r \in Recs, CaptureFindsNoRoom(r) PROVE DrainedInv'
  BY <1>24 DEF CaptureFindsNoRoom
<1>25. ASSUME NEW r \in Recs, CaptureEnds(r) PROVE DrainedInv'
  BY <1>25 DEF CaptureEnds
<1>26. ASSUME NEW r \in Recs, WriterCannotStart(r) PROVE DrainedInv'
  BY <1>26 DEF WriterCannotStart
<1>27. ASSUME NEW r \in Recs, WriterStarts(r) PROVE DrainedInv'
  BY <1>27 DEF WriterStarts
<1>28. ASSUME NEW r \in Recs, WriterReceives(r) PROVE DrainedInv'
  BY <1>28 DEF WriterReceives
<1>29. ASSUME NEW r \in Recs, WriterWrites(r) PROVE DrainedInv'
  BY <1>29 DEF WriterWrites
<1>30. ASSUME NEW r \in Recs, WriterWritesShort(r) PROVE DrainedInv'
  BY <1>30 DEF WriterWritesShort
<1>31. ASSUME NEW r \in Recs, WriterCounts(r) PROVE DrainedInv'
  BY <1>31 DEF WriterCounts
<1>32. ASSUME NEW r \in Recs, WriterLeaves(r) PROVE DrainedInv'
  BY <1>32 DEF WriterLeaves
<1>33. ASSUME NEW r \in Recs, WriterFindsNoRing(r) PROVE DrainedInv'
  BY <1>33 DEF WriterFindsNoRing
<1>34. ASSUME NEW r \in Recs, WriterEnds(r) PROVE DrainedInv'
  BY <1>34 DEF WriterEnds
<1>35. CASE UNCHANGED vars  BY <1>35 DEF vars
<1>36. QED
  BY <1>1, <1>2, <1>3, <1>4, <1>5, <1>5a, <1>6, <1>7, <1>8, <1>9, <1>10, <1>11, <1>12, <1>13,
     <1>14, <1>15, <1>16, <1>17, <1>18, <1>19, <1>20, <1>21, <1>22, <1>23, <1>24, <1>25,
     <1>26, <1>27, <1>28, <1>29, <1>30, <1>31, <1>32, <1>33, <1>34, <1>35
  DEF Next, App, Capture, Writer

(* A recording begins with an empty file.                                  *)
LEMMA StepFresh ==
  ASSUME ControlType, SoundType, CallsInv, AloneInv, FreshInv,
         [Next]_vars
  PROVE  FreshInv'
<1> USE AudioRecordAssumption DEF ControlType, CapPoints, WrPoints, AppPoints, Recs,
         CallsInv, Starting, AloneInv, CapAlive, WrAlive, SomeoneAlive, FreshInv, CapAt,
         WrAt, AppAt, flags, fileVars, ringVars, appVars, capVars, wrVars, ghosts
<1>1. CASE CallStop  BY <1>1 DEF CallStop
<1>2. CASE CallStart  BY <1>2 DEF CallStart
<1>3. CASE StopJoins  BY <1>3 DEF StopJoins
<1>4. CASE StopGivesUp  BY <1>4 DEF StopGivesUp
<1>5. CASE StopFinalizes  BY <1>5 DEF StopFinalizes
<1>5a. CASE StopCannotFinalize  BY <1>5a DEF StopCannotFinalize
<1>6. CASE StopTearsDown  BY <1>6 DEF StopTearsDown
<1>7. CASE StartCannotOpen  BY <1>7 DEF StartCannotOpen
<1>8. CASE StartOpens  BY <1>8 DEF StartOpens
<1>9. CASE StartCannotPrepare  BY <1>9 DEF StartCannotPrepare
<1>10. CASE StartPrepares  BY <1>10 DEF StartPrepares
<1>11. CASE SpawnsCapture  BY <1>11 DEF SpawnsCapture
<1>12. CASE CaptureSpawnFails  BY <1>12 DEF CaptureSpawnFails
<1>13. CASE SpawnsWriter  BY <1>13 DEF SpawnsWriter
<1>14. CASE WriterSpawnFails  BY <1>14 DEF WriterSpawnFails
<1>15. CASE StartPublishes  BY <1>15 DEF StartPublishes
<1>16. ASSUME NEW r \in Recs, CaptureCannotStart(r) PROVE FreshInv'
  BY <1>16 DEF CaptureCannotStart
<1>17. ASSUME NEW r \in Recs, CaptureStarts(r) PROVE FreshInv'
  BY <1>17 DEF CaptureStarts
<1>18. ASSUME NEW r \in Recs, CaptureLoops(r) PROVE FreshInv'
  BY <1>18 DEF CaptureLoops
<1>19. ASSUME NEW r \in Recs, CaptureReads(r) PROVE FreshInv'
  BY <1>19 DEF CaptureReads
<1>20. ASSUME NEW r \in Recs, CaptureReadsNoMore(r) PROVE FreshInv'
  BY <1>20 DEF CaptureReadsNoMore
<1>21. ASSUME NEW r \in Recs, CaptureReadFails(r) PROVE FreshInv'
  BY <1>21 DEF CaptureReadFails
<1>22. ASSUME NEW r \in Recs, CaptureTestsStop(r) PROVE FreshInv'
  BY <1>22 DEF CaptureTestsStop
<1>23. ASSUME NEW r \in Recs, CaptureSends(r) PROVE FreshInv'
  BY <1>23 DEF CaptureSends, Sends
<1>24. ASSUME NEW r \in Recs, CaptureFindsNoRoom(r) PROVE FreshInv'
  BY <1>24 DEF CaptureFindsNoRoom
<1>25. ASSUME NEW r \in Recs, CaptureEnds(r) PROVE FreshInv'
  BY <1>25 DEF CaptureEnds
<1>26. ASSUME NEW r \in Recs, WriterCannotStart(r) PROVE FreshInv'
  BY <1>26 DEF WriterCannotStart
<1>27. ASSUME NEW r \in Recs, WriterStarts(r) PROVE FreshInv'
  BY <1>27 DEF WriterStarts
<1>28. ASSUME NEW r \in Recs, WriterReceives(r) PROVE FreshInv'
  BY <1>28 DEF WriterReceives
<1>29. ASSUME NEW r \in Recs, WriterWrites(r) PROVE FreshInv'
  <2>1. /\ file # 0 /\ UNCHANGED <<recs, overlap>>
        /\ data' = [data EXCEPT ![file] = data[file] \o wbuf[r]]
        /\ WrAlive(r) /\ wpc' = [wpc EXCEPT ![r] = "count"]
    BY <1>29 DEF WriterWrites
  <2>2. \A s \in Recs : s > recs' => data'[s] = << >>
    <3>1. \A s \in Recs : s > recs => s # file /\ data[s] = << >>
      BY <2>1
    <3>2. \A s \in Recs : s # file => data'[s] = data[s]
      BY <2>1 DEF SoundType
    <3>3. QED
      BY <2>1, <3>1, <3>2
  <2>3. ~overlap' => wpc'[recs'] # "none"
    BY <2>1
  <2>4. QED
    BY <2>2, <2>3
<1>30. ASSUME NEW r \in Recs, WriterWritesShort(r) PROVE FreshInv'
  <2>1. /\ UNCHANGED <<recs, overlap>> /\ WrAlive(r) /\ wpc' = [wpc EXCEPT ![r] = "end"]
        /\ file = 0 => UNCHANGED data
    BY <1>30 DEF WriterWritesShort
  <2>2. \A s \in Recs : s # file => data'[s] = data[s]
    <3>1. \/ UNCHANGED data
          \/ \E n \in 0 .. Len(wbuf[r]) - 1 :
               data' = [data EXCEPT ![file] = data[file] \o SubSeq(wbuf[r], 1, n)]
      BY <1>30 DEF WriterWritesShort
    <3>2. QED
      BY <3>1 DEF SoundType
  <2>3. \A s \in Recs : s > recs' => data'[s] = << >>
    <3>1. \A s \in Recs : s > recs => data[s] = << >> /\ data'[s] = data[s]
      BY <2>1, <2>2
    <3>2. QED
      BY <2>1, <3>1
  <2>4. recs' # 0 /\ ~overlap' => wpc'[recs'] # "none"
    BY <2>1
  <2>5. QED
    BY <2>3, <2>4
<1>31. ASSUME NEW r \in Recs, WriterCounts(r) PROVE FreshInv'
  BY <1>31 DEF WriterCounts
<1>32. ASSUME NEW r \in Recs, WriterLeaves(r) PROVE FreshInv'
  BY <1>32 DEF WriterLeaves
<1>33. ASSUME NEW r \in Recs, WriterFindsNoRing(r) PROVE FreshInv'
  BY <1>33 DEF WriterFindsNoRing
<1>34. ASSUME NEW r \in Recs, WriterEnds(r) PROVE FreshInv'
  BY <1>34 DEF WriterEnds
<1>35. CASE UNCHANGED vars  BY <1>35 DEF vars
<1>36. QED
  BY <1>1, <1>2, <1>3, <1>4, <1>5, <1>5a, <1>6, <1>7, <1>8, <1>9, <1>10, <1>11, <1>12, <1>13,
     <1>14, <1>15, <1>16, <1>17, <1>18, <1>19, <1>20, <1>21, <1>22, <1>23, <1>24, <1>25,
     <1>26, <1>27, <1>28, <1>29, <1>30, <1>31, <1>32, <1>33, <1>34, <1>35
  DEF Next, App, Capture, Writer

(* What the file holds is counted, or about to be.                         *)
LEMMA StepCount ==
  ASSUME BoolType, ControlType, SoundType, CallsInv, AloneInv, FreshInv,
         CountInv, [Next]_vars
  PROVE  CountInv'
<1> USE AudioRecordAssumption DEF ControlType, CapPoints, WrPoints, AppPoints, Recs,
         CallsInv, Starting, AloneInv, CapAlive, WrAlive, CountInv, CapAt, WrAt, AppAt,
         flags, fileVars, ringVars, appVars, capVars, wrVars, ghosts
<1>1. CASE CallStop  BY <1>1 DEF CallStop, Uncounted
<1>2. CASE CallStart  BY <1>2 DEF CallStart, Uncounted
<1>3. CASE StopJoins  BY <1>3 DEF StopJoins, Uncounted
<1>4. CASE StopGivesUp  BY <1>4 DEF StopGivesUp, Uncounted
<1>5. CASE StopFinalizes  BY <1>5 DEF StopFinalizes, Uncounted
<1>5a. CASE StopCannotFinalize  BY <1>5a DEF StopCannotFinalize, Uncounted
<1>6. CASE StopTearsDown  BY <1>6 DEF StopTearsDown, Uncounted
<1>7. CASE StartCannotOpen  BY <1>7 DEF StartCannotOpen, Uncounted
<1>8. CASE StartOpens  BY <1>8 DEF StartOpens, SomeoneAlive, Uncounted
<1>9. CASE StartCannotPrepare  BY <1>9 DEF StartCannotPrepare, Uncounted
<1>10. CASE StartPrepares
  <2>1. /\ recs \in Recs /\ recs # 0 /\ wpc[recs] = "none" /\ dataBytes' = 0
        /\ UNCHANGED <<recs, overlap, data, wpc, wbuf>>
    BY <1>10 DEF StartPrepares
  <2>2. overlap \/ data[recs] = << >>
    BY <2>1 DEF FreshInv
  <2>3. Uncounted' = 0 /\ Len(<< >>) = 0
    BY <2>1, EmptySeq DEF Uncounted
  <2>4. QED
    BY <2>1, <2>2, <2>3
<1>11. CASE SpawnsCapture  BY <1>11 DEF SpawnsCapture, Uncounted
<1>12. CASE CaptureSpawnFails  BY <1>12 DEF CaptureSpawnFails, Uncounted
<1>13. CASE SpawnsWriter  BY <1>13 DEF SpawnsWriter, Uncounted
<1>14. CASE WriterSpawnFails  BY <1>14 DEF WriterSpawnFails, Uncounted
<1>15. CASE StartPublishes  BY <1>15 DEF StartPublishes, Uncounted
<1>16. ASSUME NEW r \in Recs, CaptureCannotStart(r) PROVE CountInv'
  BY <1>16 DEF CaptureCannotStart, Uncounted
<1>17. ASSUME NEW r \in Recs, CaptureStarts(r) PROVE CountInv'
  BY <1>17 DEF CaptureStarts, Uncounted
<1>18. ASSUME NEW r \in Recs, CaptureLoops(r) PROVE CountInv'
  BY <1>18 DEF CaptureLoops, Uncounted
<1>19. ASSUME NEW r \in Recs, CaptureReads(r) PROVE CountInv'
  BY <1>19 DEF CaptureReads, Uncounted
<1>20. ASSUME NEW r \in Recs, CaptureReadsNoMore(r) PROVE CountInv'
  BY <1>20 DEF CaptureReadsNoMore, Uncounted
<1>21. ASSUME NEW r \in Recs, CaptureReadFails(r) PROVE CountInv'
  BY <1>21 DEF CaptureReadFails, Uncounted
<1>22. ASSUME NEW r \in Recs, CaptureTestsStop(r) PROVE CountInv'
  BY <1>22 DEF CaptureTestsStop, Uncounted
<1>23. ASSUME NEW r \in Recs, CaptureSends(r) PROVE CountInv'
  BY <1>23 DEF CaptureSends, Uncounted, Sends
<1>24. ASSUME NEW r \in Recs, CaptureFindsNoRoom(r) PROVE CountInv'
  BY <1>24 DEF CaptureFindsNoRoom, Uncounted
<1>25. ASSUME NEW r \in Recs, CaptureEnds(r) PROVE CountInv'
  BY <1>25 DEF CaptureEnds, Uncounted
<1>26. ASSUME NEW r \in Recs, WriterCannotStart(r) PROVE CountInv'
  BY <1>26 DEF WriterCannotStart, Uncounted
<1>27. ASSUME NEW r \in Recs, WriterStarts(r) PROVE CountInv'
  BY <1>27 DEF WriterStarts, Uncounted
<1>28. ASSUME NEW r \in Recs, WriterReceives(r) PROVE CountInv'
  BY <1>28 DEF WriterReceives, Uncounted
<1>29. ASSUME NEW r \in Recs, WriterWrites(r) PROVE CountInv'
  <2> SUFFICES ASSUME ~overlap', app' # "ring", ~writerFailed'[recs'] PROVE CountInv'
    OBVIOUS
  <2>1. /\ data' = [data EXCEPT ![file] = data[file] \o wbuf[r]] /\ file # 0
        /\ UNCHANGED <<app, recs, file, overlap, writerFailed, dataBytes, wbuf>>
        /\ WrAlive(r) /\ wpc[r] = "write" /\ wpc' = [wpc EXCEPT ![r] = "count"]
    BY <1>29 DEF WriterWrites
  <2>2. r = recs /\ file = recs /\ recs \in Recs
    BY <2>1
  <2>3. wbuf[recs] \in Seq(Unit) /\ data[recs] \in Seq(Unit)
    BY <2>2 DEF SoundType
  <2>4. data'[recs'] = data[recs] \o wbuf[recs] /\ Uncounted' = Len(wbuf[recs])
    BY <2>1, <2>2 DEF SoundType, Uncounted
  <2>5. Len(data[recs] \o wbuf[recs]) = Len(data[recs]) + Len(wbuf[recs])
    BY <2>3, ConcatProperties
  <2>6. Len(data[recs]) \in Nat /\ Len(wbuf[recs]) \in Nat /\ dataBytes \in Nat
    BY <2>3, LenProperties
  <2>7. Uncounted = 0 /\ dataBytes + Uncounted = Len(data[recs])
    BY <2>1, <2>2 DEF Uncounted
  <2>8. dataBytes = Len(data[recs])
    BY <2>6, <2>7
  <2>9. QED
    BY <2>1, <2>4, <2>5, <2>8
<1>30. ASSUME NEW r \in Recs, WriterWritesShort(r) PROVE CountInv'
  <2> SUFFICES ASSUME ~overlap', file' # 0, app' # "ring" PROVE CountInv'
    OBVIOUS
  <2>1. /\ UNCHANGED <<app, recs, file, overlap>> /\ WrAlive(r)
        /\ writerFailed' = [writerFailed EXCEPT ![file] = TRUE]
    BY <1>30 DEF WriterWritesShort
  <2>2. file = recs /\ recs \in Recs
    BY <2>1
  <2>3. writerFailed'[recs'] = TRUE
    BY <2>1, <2>2 DEF BoolType
  <2>4. QED
    BY <2>3
<1>31. ASSUME NEW r \in Recs, WriterCounts(r) PROVE CountInv'
  <2> SUFFICES ASSUME ~overlap', file' # 0, app' # "ring" PROVE CountInv'
    OBVIOUS
  <2>1. /\ dataBytes' = dataBytes + Len(wbuf[r])
        /\ UNCHANGED <<app, recs, file, overlap, writerFailed, data>>
        /\ WrAlive(r) /\ wpc[r] = "count" /\ wpc' = [wpc EXCEPT ![r] = "loop"]
    BY <1>31 DEF WriterCounts
  <2>2. r = recs /\ file = recs /\ recs \in Recs
    BY <2>1
  <2>3. Uncounted = Len(wbuf[recs]) /\ Uncounted' = 0
    BY <2>1, <2>2 DEF Uncounted
  <2>4. dataBytes + Len(wbuf[recs]) \in Nat
    BY <2>2, LenProperties DEF SoundType
  <2>5. dataBytes' + Uncounted' = dataBytes + Uncounted
    BY <2>1, <2>2, <2>3, <2>4
  <2>6. QED
    BY <2>1, <2>5
<1>32. ASSUME NEW r \in Recs, WriterLeaves(r) PROVE CountInv'
  BY <1>32 DEF WriterLeaves, Uncounted
<1>33. ASSUME NEW r \in Recs, WriterFindsNoRing(r) PROVE CountInv'
  BY <1>33 DEF WriterFindsNoRing, Uncounted
<1>34. ASSUME NEW r \in Recs, WriterEnds(r) PROVE CountInv'
  BY <1>34 DEF WriterEnds, Uncounted
<1>35. CASE UNCHANGED vars  BY <1>35 DEF vars, Uncounted
<1>36. QED
  BY <1>1, <1>2, <1>3, <1>4, <1>5, <1>5a, <1>6, <1>7, <1>8, <1>9, <1>10, <1>11, <1>12, <1>13,
     <1>14, <1>15, <1>16, <1>17, <1>18, <1>19, <1>20, <1>21, <1>22, <1>23, <1>24, <1>25,
     <1>26, <1>27, <1>28, <1>29, <1>30, <1>31, <1>32, <1>33, <1>34, <1>35
  DEF Next, App, Capture, Writer

(* The open file's header is not touched before it is finalised.           *)
LEMMA StepHead ==
  ASSUME BoolType, ControlType, CallsInv, HeadInv, [Next]_vars
  PROVE  HeadInv'
<1> USE AudioRecordAssumption DEF ControlType, CapPoints, WrPoints, AppPoints, Recs,
         BoolType, CallsInv, Starting, HeadInv, CapAt, WrAt, AppAt, flags, fileVars,
         ringVars, appVars, capVars, wrVars, ghosts
<1>1. CASE CallStop  BY <1>1 DEF CallStop
<1>2. CASE CallStart  BY <1>2 DEF CallStart
<1>3. CASE StopJoins  BY <1>3 DEF StopJoins
<1>4. CASE StopGivesUp  BY <1>4 DEF StopGivesUp
<1>5. CASE StopFinalizes  BY <1>5 DEF StopFinalizes
<1>5a. CASE StopCannotFinalize  BY <1>5a DEF StopCannotFinalize
<1>6. CASE StopTearsDown  BY <1>6 DEF StopTearsDown
<1>7. CASE StartCannotOpen  BY <1>7 DEF StartCannotOpen
<1>8. CASE StartOpens  BY <1>8 DEF StartOpens
<1>9. CASE StartCannotPrepare  BY <1>9 DEF StartCannotPrepare
<1>10. CASE StartPrepares  BY <1>10 DEF StartPrepares
<1>11. CASE SpawnsCapture  BY <1>11 DEF SpawnsCapture
<1>12. CASE CaptureSpawnFails  BY <1>12 DEF CaptureSpawnFails
<1>13. CASE SpawnsWriter  BY <1>13 DEF SpawnsWriter
<1>14. CASE WriterSpawnFails  BY <1>14 DEF WriterSpawnFails
<1>15. CASE StartPublishes  BY <1>15 DEF StartPublishes
<1>16. ASSUME NEW r \in Recs, CaptureCannotStart(r) PROVE HeadInv'
  BY <1>16 DEF CaptureCannotStart
<1>17. ASSUME NEW r \in Recs, CaptureStarts(r) PROVE HeadInv'
  BY <1>17 DEF CaptureStarts
<1>18. ASSUME NEW r \in Recs, CaptureLoops(r) PROVE HeadInv'
  BY <1>18 DEF CaptureLoops
<1>19. ASSUME NEW r \in Recs, CaptureReads(r) PROVE HeadInv'
  BY <1>19 DEF CaptureReads
<1>20. ASSUME NEW r \in Recs, CaptureReadsNoMore(r) PROVE HeadInv'
  BY <1>20 DEF CaptureReadsNoMore
<1>21. ASSUME NEW r \in Recs, CaptureReadFails(r) PROVE HeadInv'
  BY <1>21 DEF CaptureReadFails
<1>22. ASSUME NEW r \in Recs, CaptureTestsStop(r) PROVE HeadInv'
  BY <1>22 DEF CaptureTestsStop
<1>23. ASSUME NEW r \in Recs, CaptureSends(r) PROVE HeadInv'
  BY <1>23 DEF CaptureSends, Sends
<1>24. ASSUME NEW r \in Recs, CaptureFindsNoRoom(r) PROVE HeadInv'
  BY <1>24 DEF CaptureFindsNoRoom
<1>25. ASSUME NEW r \in Recs, CaptureEnds(r) PROVE HeadInv'
  BY <1>25 DEF CaptureEnds
<1>26. ASSUME NEW r \in Recs, WriterCannotStart(r) PROVE HeadInv'
  BY <1>26 DEF WriterCannotStart
<1>27. ASSUME NEW r \in Recs, WriterStarts(r) PROVE HeadInv'
  BY <1>27 DEF WriterStarts
<1>28. ASSUME NEW r \in Recs, WriterReceives(r) PROVE HeadInv'
  BY <1>28 DEF WriterReceives
<1>29. ASSUME NEW r \in Recs, WriterWrites(r) PROVE HeadInv'
  BY <1>29 DEF WriterWrites
<1>30. ASSUME NEW r \in Recs, WriterWritesShort(r) PROVE HeadInv'
  BY <1>30 DEF WriterWritesShort
<1>31. ASSUME NEW r \in Recs, WriterCounts(r) PROVE HeadInv'
  BY <1>31 DEF WriterCounts
<1>32. ASSUME NEW r \in Recs, WriterLeaves(r) PROVE HeadInv'
  BY <1>32 DEF WriterLeaves
<1>33. ASSUME NEW r \in Recs, WriterFindsNoRing(r) PROVE HeadInv'
  BY <1>33 DEF WriterFindsNoRing
<1>34. ASSUME NEW r \in Recs, WriterEnds(r) PROVE HeadInv'
  BY <1>34 DEF WriterEnds
<1>35. CASE UNCHANGED vars  BY <1>35 DEF vars
<1>36. QED
  BY <1>1, <1>2, <1>3, <1>4, <1>5, <1>5a, <1>6, <1>7, <1>8, <1>9, <1>10, <1>11, <1>12, <1>13,
     <1>14, <1>15, <1>16, <1>17, <1>18, <1>19, <1>20, <1>21, <1>22, <1>23, <1>24, <1>25,
     <1>26, <1>27, <1>28, <1>29, <1>30, <1>31, <1>32, <1>33, <1>34, <1>35
  DEF Next, App, Capture, Writer


(* The header that stopRecord() wrote counts the data behind it.           *)
LEMMA StepHeader ==
  ASSUME BoolType, ControlType, CallsInv, AloneInv, FlagsInv,
         JoinedInv, CountInv, HeadInv, HeaderIsExact, [Next]_vars
  PROVE  HeaderIsExact'
<1> USE AudioRecordAssumption DEF ControlType, CapPoints, WrPoints, AppPoints, Recs,
         BoolType, CallsInv, Starting, AloneInv, CapAlive, WrAlive, FlagsInv, InSession,
         JoinedInv, CountInv, HeadInv, Uncounted, HeaderIsExact, CapAt, WrAt, AppAt, flags,
         fileVars, ringVars, appVars, capVars, wrVars, ghosts
<1>1. CASE CallStop  BY <1>1 DEF CallStop
<1>2. CASE CallStart  BY <1>2 DEF CallStart
<1>3. CASE StopJoins  BY <1>3 DEF StopJoins
<1>4. CASE StopGivesUp  BY <1>4 DEF StopGivesUp
<1>5. CASE StopFinalizes  BY <1>5 DEF StopFinalizes
<1>5a. CASE StopCannotFinalize  BY <1>5a DEF StopCannotFinalize
<1>6. CASE StopTearsDown  BY <1>6 DEF StopTearsDown
<1>7. CASE StartCannotOpen  BY <1>7 DEF StartCannotOpen
<1>8. CASE StartOpens  BY <1>8 DEF StartOpens
<1>9. CASE StartCannotPrepare  BY <1>9 DEF StartCannotPrepare
<1>10. CASE StartPrepares  BY <1>10 DEF StartPrepares
<1>11. CASE SpawnsCapture  BY <1>11 DEF SpawnsCapture
<1>12. CASE CaptureSpawnFails  BY <1>12 DEF CaptureSpawnFails
<1>13. CASE SpawnsWriter  BY <1>13 DEF SpawnsWriter
<1>14. CASE WriterSpawnFails  BY <1>14 DEF WriterSpawnFails
<1>15. CASE StartPublishes  BY <1>15 DEF StartPublishes
<1>16. ASSUME NEW r \in Recs, CaptureCannotStart(r) PROVE HeaderIsExact'
  BY <1>16 DEF CaptureCannotStart
<1>17. ASSUME NEW r \in Recs, CaptureStarts(r) PROVE HeaderIsExact'
  BY <1>17 DEF CaptureStarts
<1>18. ASSUME NEW r \in Recs, CaptureLoops(r) PROVE HeaderIsExact'
  BY <1>18 DEF CaptureLoops
<1>19. ASSUME NEW r \in Recs, CaptureReads(r) PROVE HeaderIsExact'
  BY <1>19 DEF CaptureReads
<1>20. ASSUME NEW r \in Recs, CaptureReadsNoMore(r) PROVE HeaderIsExact'
  BY <1>20 DEF CaptureReadsNoMore
<1>21. ASSUME NEW r \in Recs, CaptureReadFails(r) PROVE HeaderIsExact'
  BY <1>21 DEF CaptureReadFails
<1>22. ASSUME NEW r \in Recs, CaptureTestsStop(r) PROVE HeaderIsExact'
  BY <1>22 DEF CaptureTestsStop
<1>23. ASSUME NEW r \in Recs, CaptureSends(r) PROVE HeaderIsExact'
  BY <1>23 DEF CaptureSends, Sends
<1>24. ASSUME NEW r \in Recs, CaptureFindsNoRoom(r) PROVE HeaderIsExact'
  BY <1>24 DEF CaptureFindsNoRoom
<1>25. ASSUME NEW r \in Recs, CaptureEnds(r) PROVE HeaderIsExact'
  BY <1>25 DEF CaptureEnds
<1>26. ASSUME NEW r \in Recs, WriterCannotStart(r) PROVE HeaderIsExact'
  BY <1>26 DEF WriterCannotStart
<1>27. ASSUME NEW r \in Recs, WriterStarts(r) PROVE HeaderIsExact'
  BY <1>27 DEF WriterStarts
<1>28. ASSUME NEW r \in Recs, WriterReceives(r) PROVE HeaderIsExact'
  BY <1>28 DEF WriterReceives
<1>29. ASSUME NEW r \in Recs, WriterWrites(r) PROVE HeaderIsExact'
  BY <1>29 DEF WriterWrites
<1>30. ASSUME NEW r \in Recs, WriterWritesShort(r) PROVE HeaderIsExact'
  BY <1>30 DEF WriterWritesShort
<1>31. ASSUME NEW r \in Recs, WriterCounts(r) PROVE HeaderIsExact'
  BY <1>31 DEF WriterCounts
<1>32. ASSUME NEW r \in Recs, WriterLeaves(r) PROVE HeaderIsExact'
  BY <1>32 DEF WriterLeaves
<1>33. ASSUME NEW r \in Recs, WriterFindsNoRing(r) PROVE HeaderIsExact'
  BY <1>33 DEF WriterFindsNoRing
<1>34. ASSUME NEW r \in Recs, WriterEnds(r) PROVE HeaderIsExact'
  BY <1>34 DEF WriterEnds
<1>35. CASE UNCHANGED vars  BY <1>35 DEF vars
<1>36. QED
  BY <1>1, <1>2, <1>3, <1>4, <1>5, <1>5a, <1>6, <1>7, <1>8, <1>9, <1>10, <1>11, <1>12, <1>13,
     <1>14, <1>15, <1>16, <1>17, <1>18, <1>19, <1>20, <1>21, <1>22, <1>23, <1>24, <1>25,
     <1>26, <1>27, <1>28, <1>29, <1>30, <1>31, <1>32, <1>33, <1>34, <1>35
  DEF Next, App, Capture, Writer

(***************************************************************************)
(* The flow of sound from the capture task to the file                     *)
(***************************************************************************)
(* The lengths are numbers.                                                *)
LEMMA FlowNats ==
  ASSUME TypeInv, recs # 0
  PROVE  /\ recs \in Recs /\ Len(data[recs]) \in Nat /\ Len(wbuf[recs]) \in Nat
         /\ Ahead \in Nat /\ Len(ring) \in Nat /\ Len(cbuf[recs]) \in Nat
         /\ captured[recs] \in Nat
<1>1. recs \in Recs /\ \A s \in Seq(Unit) : Len(s) \in Nat
  BY AudioRecordAssumption, LenProperties DEF TypeInv, ControlType, Recs
<1>2. /\ data[recs] \in Seq(Unit) /\ wbuf[recs] \in Seq(Unit) /\ cbuf[recs] \in Seq(Unit)
      /\ ring \in Seq(Unit) /\ captured[recs] \in Nat
  BY <1>1, AudioRecordAssumption DEF TypeInv, SoundType
<1>3. /\ Len(data[recs]) \in Nat /\ Len(wbuf[recs]) \in Nat /\ Len(cbuf[recs]) \in Nat
      /\ Len(ring) \in Nat
  BY <1>1, <1>2
<1>4. Unwritten \in Nat
  BY <1>3 DEF Unwritten
<1>5. QED
  BY <1>1, <1>2, <1>3, <1>4 DEF Ahead

(* While there is a flow, only the last recording's tasks are alive.       *)
LEMMA FlowIsTheirs ==
  ASSUME TypeInv, CallsInv, AloneInv, NEW r \in Recs, CapAlive(r) \/ WrAlive(r), Flowing
  PROVE  r = recs /\ recs # 0 /\ file = recs
  BY AudioRecordAssumption DEF CallsInv, AloneInv, Flowing, Recs, TypeInv, ControlType

(* A recording starts with nothing on its way.                             *)
LEMMA FlowOfStart ==
  ASSUME TypeInv, CallsInv, BuffersInv, AloneInv, FreshInv, StartPrepares PROVE FlowInv'
<1>1. /\ recs \in Recs /\ recs # 0 /\ cpc[recs] = "none" /\ wpc[recs] = "none"
      /\ UNCHANGED <<recs, overlap, data, cbuf, captured, cpc, wpc, wbuf>> /\ ring' = << >>
  BY AudioRecordAssumption
  DEF StartPrepares, AppAt, CallsInv, Starting, TypeInv, ControlType, Recs, capVars, wrVars
<1>2. Flowing' => data[recs] = << >> /\ cbuf[recs] = << >> /\ captured[recs] = 0
  BY <1>1 DEF Flowing, FreshInv, BuffersInv
<1>3. Len(<< >>) = 0
  BY EmptySeq
<1>4. Flowing' => Ahead' = 0 /\ Len(ring') = 0 /\ Len(cbuf'[recs']) = 0
  <2>1. Flowing' => Len(data'[recs']) = 0 /\ Len(cbuf'[recs']) = 0 /\ Len(ring') = 0
    BY <1>1, <1>2, <1>3
  <2>2. Unwritten' = 0
    BY <1>1 DEF Unwritten
  <2>3. QED
    BY <2>1, <2>2 DEF Ahead
<1>5. QED
  BY <1>1, <1>2, <1>4, RunEmpty
  DEF FlowInv, WriterFlowInv, RingFlowInv, CaptureFlowInv, NothingLostInv

(* What the codec gives follows what was given before.                     *)
LEMMA FlowOfCapture ==
  ASSUME TypeInv, CallsInv, BuffersInv, AloneInv, FlowInv,
         NEW r \in Recs, CaptureReads(r)
  PROVE  FlowInv'
<1> SUFFICES ASSUME Flowing' PROVE FlowInv'
  BY DEF FlowInv, WriterFlowInv, RingFlowInv, CaptureFlowInv, NothingLostInv
<1>1. /\ UNCHANGED <<app, recs, file, overlap, data, wpc, wbuf, ring>>
      /\ CapAlive(r) /\ cpc[r] = "read" /\ cpc' = [cpc EXCEPT ![r] = "send"]
      /\ captured' = [captured EXCEPT ![r] = @ + BufLen]
      /\ cbuf' = [cbuf EXCEPT ![r] = Run(r, captured[r], BufLen)]
  BY DEF CaptureReads, CapAt, CapAlive, fileVars, ringVars, appVars, wrVars, ghosts, Run
<1>2. Flowing
  BY <1>1 DEF Flowing
<1>3. r = recs /\ recs # 0
  BY <1>1, <1>2, FlowIsTheirs
<1>4. /\ cbuf[r] = << >> /\ Len(<< >>) = 0 /\ BufLen \in Nat
      /\ Len(cbuf'[recs']) = BufLen /\ cbuf'[recs'] = Run(recs, captured[recs], BufLen)
      /\ captured'[recs'] = captured[recs] + BufLen /\ cpc[recs] = "read"
  <2>1. BufLen \in Nat /\ Len(<< >>) = 0 /\ captured[r] \in Nat
    BY <1>3, AudioRecordAssumption, FlowNats, EmptySeq
  <2>2. Len(Run(r, captured[r], BufLen)) = BufLen
    BY <2>1, RunLen
  <2>3. QED
    BY <1>1, <1>3, <2>1, <2>2 DEF TypeInv, SoundType, BuffersInv
<1>5. Ahead' = Ahead
  BY <1>1 DEF Ahead, Unwritten
<1>6. Ahead + Len(ring) + 0 = captured[recs]
  BY <1>2, <1>3, <1>4 DEF FlowInv, NothingLostInv, Dropping
<1>7. Ahead + Len(ring) = captured[recs]
  BY <1>3, <1>6, FlowNats
<1>8. WriterFlowInv' /\ RingFlowInv'
  BY <1>1, <1>2, <1>5 DEF FlowInv, WriterFlowInv, RingFlowInv
<1>9. CaptureFlowInv' /\ NothingLostInv'
  BY <1>1, <1>4, <1>5, <1>7 DEF CaptureFlowInv, NothingLostInv
<1>10. QED
  BY <1>8, <1>9 DEF FlowInv

(* The unsent rest is dropped only for good: the task will read no more.   *)
LEMMA FlowOfTest ==
  ASSUME TypeInv, CallsInv, AloneInv, FlowInv, NEW r \in Recs, CaptureTestsStop(r)
  PROVE  FlowInv'
<1> SUFFICES ASSUME Flowing' PROVE FlowInv'
  BY DEF FlowInv, WriterFlowInv, RingFlowInv, CaptureFlowInv, NothingLostInv
<1>1. /\ UNCHANGED <<app, recs, file, overlap, data, wpc, wbuf, ring, stopReq, captured>>
      /\ CapAlive(r) /\ cpc[r] = "send"
      /\ cpc' = [cpc EXCEPT ![r] = IF stopReq THEN "loop" ELSE "sending"]
      /\ cbuf' = IF stopReq THEN [cbuf EXCEPT ![r] = << >>] ELSE cbuf
  BY DEF CaptureTestsStop, CapAt, CapAlive, flags, fileVars, ringVars, appVars, wrVars, ghosts
<1>2. Flowing
  BY <1>1 DEF Flowing
<1>3. r = recs /\ recs # 0
  BY <1>1, <1>2, FlowIsTheirs
<1>4. Ahead' = Ahead
  BY <1>1 DEF Ahead, Unwritten
<1>5. CASE stopReq
  <2>1. cbuf'[recs'] = << >> /\ Len(<< >>) = 0 /\ Dropping'
    BY <1>1, <1>3, <1>5, EmptySeq DEF TypeInv, SoundType, ControlType, Dropping
  <2>2. QED
    BY <1>1, <1>2, <1>4, <2>1, RunEmpty
    DEF FlowInv, WriterFlowInv, RingFlowInv, CaptureFlowInv, NothingLostInv
<1>6. CASE ~stopReq
  <2>1. ~Dropping /\ cbuf' = cbuf
    BY <1>1, <1>3, <1>6 DEF Dropping
  <2>2. QED
    BY <1>1, <1>2, <1>4, <2>1
    DEF FlowInv, WriterFlowInv, RingFlowInv, CaptureFlowInv, NothingLostInv
<1>7. QED
  BY <1>5, <1>6

(* What is sent leaves the front of the buffer for the end of the ring.    *)
LEMMA FlowOfSend ==
  ASSUME TypeInv, CallsInv, AloneInv, FlowInv, NEW r \in Recs, CaptureSends(r)
  PROVE  FlowInv'
<1> SUFFICES ASSUME Flowing' PROVE FlowInv'
  BY DEF FlowInv, WriterFlowInv, RingFlowInv, CaptureFlowInv, NothingLostInv
<1> DEFINE n == Fits(r)
           m == Len(cbuf[r])
<1>1. /\ UNCHANGED <<app, recs, file, overlap, data, wpc, wbuf, stopReq, captured>>
      /\ CapAlive(r) /\ cpc[r] = "sending"
      /\ ring' = ring \o SubSeq(cbuf[r], 1, n)
      /\ cbuf' = [cbuf EXCEPT ![r] = SubSeq(cbuf[r], n + 1, m)]
  BY DEF CaptureSends, Sends, CapAlive, flags, fileVars, ringVars, appVars, wrVars, ghosts
<1>2. Flowing
  BY <1>1 DEF Flowing
<1>3. r = recs /\ recs # 0
  BY <1>1, <1>2, FlowIsTheirs
<1> DEFINE a == Ahead
           l == Len(ring)
           here == a + l
<1>4. /\ n \in 0 .. m /\ m \in Nat /\ a \in Nat /\ l \in Nat
      /\ here \in Nat /\ m - n \in Nat /\ n \in Nat /\ captured[recs] \in Nat
  BY <1>3, FitsType, FlowNats, SMTT(20) DEF TypeInv
<1>5. cbuf[r] = Run(r, here, m) /\ ring = Run(r, a, l)
  BY <1>2, <1>3 DEF FlowInv, CaptureFlowInv, RingFlowInv
<1> HIDE DEF n, m, a, l
<1>6. /\ SubSeq(cbuf[r], 1, n) = Run(r, here, n)
      /\ SubSeq(cbuf[r], n + 1, m) = Run(r, here + n, m - n)
  <2>1. \A from \in Nat : /\ SubSeq(Run(r, from, m), 1, n) = Run(r, from, n)
                         /\ SubSeq(Run(r, from, m), n + 1, m) = Run(r, from + n, m - n)
    BY <1>4, RunSplit, ZenonT(30)
  <2> HIDE DEF here
  <2>2. QED
    BY <1>4, <1>5, <2>1
<1>7. ring' = Run(r, a, l + n) /\ Len(ring') = l + n
  <2>1. \A from, i, j \in Nat : Run(r, from, i) \o Run(r, from + i, j) = Run(r, from, i + j)
    BY RunConcat
  <2>2. Run(r, a, l) \o Run(r, a + l, n) = Run(r, a, l + n)
    BY <1>4, <2>1, ZenonT(30)
  <2>3. l + n \in Nat
    BY <1>4
  <2>4. Len(Run(r, a, l + n)) = l + n
    BY <1>4, <2>3, RunLen
  <2>5. ring' = Run(r, a, l + n)
    BY <1>1, <1>5, <1>6, <2>2
  <2>6. QED
    BY <2>4, <2>5
<1>8. cbuf'[recs'] = Run(r, here + n, m - n) /\ Len(cbuf'[recs']) = m - n
  <2>1. here + n \in Nat
    BY <1>4
  <2>2. Len(Run(r, here + n, m - n)) = m - n
    BY <1>4, <2>1, RunLen
  <2>3. cbuf'[recs'] = Run(r, here + n, m - n)
    BY <1>1, <1>3, <1>6 DEF TypeInv, SoundType
  <2>4. QED
    BY <2>2, <2>3
<1>9. Ahead' = a
  BY <1>1 DEF Ahead, Unwritten, a
<1>10. WriterFlowInv' /\ RingFlowInv'
  BY <1>1, <1>2, <1>3, <1>7, <1>9 DEF FlowInv, WriterFlowInv, RingFlowInv
<1>11. CaptureFlowInv'
  <2>1. Ahead' + Len(ring') = here + n
    BY <1>4, <1>7, <1>9
  <2>2. QED
    BY <1>1, <1>3, <1>8, <2>1 DEF CaptureFlowInv
<1>12. NothingLostInv'
  <2>1. a + l + m = captured[recs]
    BY <1>1, <1>2, <1>3 DEF FlowInv, NothingLostInv, Dropping, m, a, l
  <2>2. Ahead' + Len(ring') + Len(cbuf'[recs']) = captured[recs]
    BY <1>4, <1>7, <1>8, <1>9, <2>1
  <2>3. QED
    BY <1>1, <2>2 DEF NothingLostInv
<1>13. QED
  BY <1>10, <1>11, <1>12 DEF FlowInv

(* What is received leaves the front of the ring.                          *)
LEMMA FlowOfReceive ==
  ASSUME TypeInv, CallsInv, AloneInv, FlowInv, NEW r \in Recs, WriterReceives(r)
  PROVE  FlowInv'
<1> SUFFICES ASSUME Flowing' PROVE FlowInv'
  BY DEF FlowInv, WriterFlowInv, RingFlowInv, CaptureFlowInv, NothingLostInv
<1> DEFINE m == Len(ring)
           d == Len(data[recs])
<1>1. PICK n \in 1 .. BufLen :
        /\ n <= m
        /\ wbuf' = [wbuf EXCEPT ![r] = SubSeq(ring, 1, n)]
        /\ ring' = SubSeq(ring, n + 1, m)
  BY DEF WriterReceives
<1>2. /\ UNCHANGED <<app, recs, file, overlap, data, stopReq, captured, cpc, cbuf>>
      /\ WrAlive(r) /\ wpc[r] = "loop" /\ wpc' = [wpc EXCEPT ![r] = "write"]
  BY DEF WriterReceives, WrAt, WrAlive, flags, fileVars, appVars, capVars, ghosts
<1>3. file # 0 /\ app # "ring" /\ ~overlap
  BY <1>2 DEF Flowing
<1>4. r = recs /\ recs # 0 /\ recs \in Recs /\ recs' \in Recs
  BY <1>2, <1>3, AudioRecordAssumption DEF AloneInv, CallsInv, Recs
<1>5. Flowing /\ wpc[recs] = "loop" /\ wpc'[recs'] = "write"
  BY <1>2, <1>3, <1>4 DEF Flowing, TypeInv, ControlType
<1>6. m \in Nat /\ d \in Nat /\ n \in 0 .. m /\ n \in Nat /\ m - n \in Nat
  BY <1>1, <1>4, FlowNats, AudioRecordAssumption
<1>7. Ahead = d
  BY <1>5, <1>6 DEF Ahead, Unwritten
<1>8. ring = Run(r, d, m)
  BY <1>4, <1>5, <1>7 DEF FlowInv, RingFlowInv
<1> HIDE DEF m, d
<1>9. SubSeq(ring, 1, n) = Run(r, d, n) /\ ring' = Run(r, d + n, m - n)
  BY <1>1, <1>6, <1>8, RunSplit
<1>10. wbuf'[recs'] = Run(r, d, n) /\ Len(wbuf'[recs']) = n
  <2>1. wbuf'[recs'] = Run(r, d, n)
    BY <1>1, <1>2, <1>4, <1>9 DEF TypeInv, SoundType
  <2>2. QED
    BY <1>6, <2>1, RunLen
<1>11. Len(ring') = m - n
  BY <1>6, <1>9, RunLen, d + n \in Nat
<1>12. Ahead' = d + n
  BY <1>2, <1>5, <1>10 DEF Ahead, Unwritten, d
<1>13. WriterFlowInv'
  BY <1>2, <1>4, <1>10 DEF WriterFlowInv, d
<1>14. RingFlowInv'
  BY <1>2, <1>4, <1>9, <1>11, <1>12 DEF RingFlowInv
<1>15. Ahead' + Len(ring') = Ahead + m
  BY <1>6, <1>7, <1>11, <1>12
<1>16. CaptureFlowInv' /\ NothingLostInv'
  BY <1>2, <1>5, <1>15 DEF FlowInv, CaptureFlowInv, NothingLostInv, Dropping, m
<1>17. QED
  BY <1>13, <1>14, <1>16 DEF FlowInv

(* file.write appends to the file what the ring gave next.                 *)
LEMMA FlowOfWrite ==
  ASSUME TypeInv, CallsInv, AloneInv, FlowInv, NEW r \in Recs, WriterWrites(r)
  PROVE  FlowInv'
<1> SUFFICES ASSUME Flowing' PROVE FlowInv'
  BY DEF FlowInv, WriterFlowInv, RingFlowInv, CaptureFlowInv, NothingLostInv
<1>1. /\ UNCHANGED <<app, recs, file, overlap, stopReq, captured, cpc, cbuf, wbuf, ring>>
      /\ WrAlive(r) /\ wpc[r] = "write" /\ wpc' = [wpc EXCEPT ![r] = "count"]
      /\ data' = [data EXCEPT ![file] = data[file] \o wbuf[r]]
  BY DEF WriterWrites, WrAt, WrAlive, flags, fileVars, ringVars, appVars, capVars, ghosts
<1>2. file # 0 /\ app # "ring" /\ ~overlap
  BY <1>1 DEF Flowing
<1>3. r = recs /\ recs # 0 /\ recs \in Recs /\ file = recs
  BY <1>1, <1>2, AudioRecordAssumption DEF AloneInv, CallsInv, Recs
<1>4. Flowing /\ wpc[recs] = "write" /\ wpc'[recs'] = "count"
  BY <1>1, <1>2, <1>3 DEF Flowing, TypeInv, ControlType
<1>5. Len(data'[recs']) = Len(data[recs]) + Len(wbuf[recs])
  <2>1. data[recs] \in Seq(Unit) /\ wbuf[recs] \in Seq(Unit)
    BY <1>3 DEF TypeInv, SoundType
  <2>2. Len(data[recs] \o wbuf[recs]) = Len(data[recs]) + Len(wbuf[recs])
    BY <2>1, ConcatProperties
  <2>3. data'[recs'] = data[recs] \o wbuf[recs]
    BY <1>1, <1>3 DEF TypeInv, SoundType
  <2>4. QED
    BY <2>2, <2>3
<1>6. Len(data[recs]) \in Nat /\ Len(wbuf[recs]) \in Nat
  BY <1>3, FlowNats
<1>7. Ahead' = Ahead
  BY <1>4, <1>5, <1>6 DEF Ahead, Unwritten
<1>8. WriterFlowInv' /\ RingFlowInv' /\ CaptureFlowInv' /\ NothingLostInv'
  BY <1>1, <1>4, <1>7
  DEF FlowInv, WriterFlowInv, RingFlowInv, CaptureFlowInv, NothingLostInv, Dropping
<1>9. QED
  BY <1>8 DEF FlowInv

(* The sound flows in order, and none is lost on the way.                  *)
LEMMA StepFlow ==
  ASSUME TypeInv, CallsInv, BuffersInv, AloneInv, FlagsInv, FreshInv,
         FlowInv, [Next]_vars
  PROVE  FlowInv'
<1> USE AudioRecordAssumption DEF ControlType, CapPoints, WrPoints, AppPoints, Recs,
         TypeInv, BoolType, CallsInv, Starting, AloneInv, FlagsInv, InSession, CapAlive,
         WrAlive, BuffersInv, FreshInv, FlowInv, WriterFlowInv, RingFlowInv,
         CaptureFlowInv, NothingLostInv, Dropping, Flowing, Ahead, Unwritten, CapAt, WrAt,
         AppAt, flags, fileVars, ringVars, appVars, capVars, wrVars, ghosts
<1>1. CASE CallStop  BY <1>1 DEF CallStop
<1>2. CASE CallStart  BY <1>2 DEF CallStart
<1>3. CASE StopJoins  BY <1>3 DEF StopJoins
<1>4. CASE StopGivesUp  BY <1>4 DEF StopGivesUp
<1>5. CASE StopFinalizes  BY <1>5 DEF StopFinalizes
<1>5a. CASE StopCannotFinalize  BY <1>5a DEF StopCannotFinalize
<1>6. CASE StopTearsDown  BY <1>6 DEF StopTearsDown, DeletesRing
<1>7. CASE StartCannotOpen  BY <1>7 DEF StartCannotOpen
<1>8. CASE StartOpens  BY <1>8 DEF StartOpens
<1>9. CASE StartCannotPrepare  BY <1>9 DEF StartCannotPrepare, DeletesRing
<1>10. CASE StartPrepares  BY <1>10, FlowOfStart
<1>11. CASE SpawnsCapture  BY <1>11 DEF SpawnsCapture
<1>12. CASE CaptureSpawnFails  BY <1>12 DEF CaptureSpawnFails, DeletesRing
<1>13. CASE SpawnsWriter  BY <1>13, ZenonT(30) DEF SpawnsWriter
<1>14. CASE WriterSpawnFails  BY <1>14 DEF WriterSpawnFails, DeletesRing
<1>15. CASE StartPublishes  BY <1>15 DEF StartPublishes
<1>16. ASSUME NEW r \in Recs, CaptureCannotStart(r) PROVE FlowInv'
  BY <1>16 DEF CaptureCannotStart
<1>17. ASSUME NEW r \in Recs, CaptureStarts(r) PROVE FlowInv'
  BY <1>17 DEF CaptureStarts
<1>18. ASSUME NEW r \in Recs, CaptureLoops(r) PROVE FlowInv'
  BY <1>18 DEF CaptureLoops
<1>19. ASSUME NEW r \in Recs, CaptureReads(r) PROVE FlowInv'
  BY <1>19, FlowOfCapture
<1>20. ASSUME NEW r \in Recs, CaptureReadsNoMore(r) PROVE FlowInv'
  BY <1>20 DEF CaptureReadsNoMore
<1>21. ASSUME NEW r \in Recs, CaptureReadFails(r) PROVE FlowInv'
  BY <1>21 DEF CaptureReadFails
<1>22. ASSUME NEW r \in Recs, CaptureTestsStop(r) PROVE FlowInv'
  BY <1>22, FlowOfTest
<1>23. ASSUME NEW r \in Recs, CaptureSends(r) PROVE FlowInv'
  BY <1>23, FlowOfSend
<1>24. ASSUME NEW r \in Recs, CaptureFindsNoRoom(r) PROVE FlowInv'
  BY <1>24 DEF CaptureFindsNoRoom
<1>25. ASSUME NEW r \in Recs, CaptureEnds(r) PROVE FlowInv'
  BY <1>25 DEF CaptureEnds
<1>26. ASSUME NEW r \in Recs, WriterCannotStart(r) PROVE FlowInv'
  BY <1>26 DEF WriterCannotStart
<1>27. ASSUME NEW r \in Recs, WriterStarts(r) PROVE FlowInv'
  BY <1>27 DEF WriterStarts
<1>28. ASSUME NEW r \in Recs, WriterReceives(r) PROVE FlowInv'
  BY <1>28, FlowOfReceive
<1>29. ASSUME NEW r \in Recs, WriterWrites(r) PROVE FlowInv'
  BY <1>29, FlowOfWrite
<1>30. ASSUME NEW r \in Recs, WriterWritesShort(r) PROVE FlowInv'
  BY <1>30 DEF WriterWritesShort
<1>31. ASSUME NEW r \in Recs, WriterCounts(r) PROVE FlowInv'
  BY <1>31 DEF WriterCounts
<1>32. ASSUME NEW r \in Recs, WriterLeaves(r) PROVE FlowInv'
  BY <1>32 DEF WriterLeaves
<1>33. ASSUME NEW r \in Recs, WriterFindsNoRing(r) PROVE FlowInv'
  BY <1>33 DEF WriterFindsNoRing
<1>34. ASSUME NEW r \in Recs, WriterEnds(r) PROVE FlowInv'
  BY <1>34 DEF WriterEnds
<1>35. CASE UNCHANGED vars  BY <1>35 DEF vars
<1>36. QED
  BY <1>1, <1>2, <1>3, <1>4, <1>5, <1>5a, <1>6, <1>7, <1>8, <1>9, <1>10, <1>11, <1>12, <1>13,
     <1>14, <1>15, <1>16, <1>17, <1>18, <1>19, <1>20, <1>21, <1>22, <1>23, <1>24, <1>25,
     <1>26, <1>27, <1>28, <1>29, <1>30, <1>31, <1>32, <1>33, <1>34, <1>35
  DEF Next, App, Capture, Writer

(* A whole beginning is a run from the start.                              *)
LEMMA WholeRun == \A r \in Recs, n \in Nat : Whole(r, n) = Run(r, 0, n)
<1> SUFFICES ASSUME NEW r \in Recs, NEW n \in Nat PROVE Whole(r, n) = Run(r, 0, n)
  OBVIOUS
<1>1. \A k \in 1 .. n : <<r, k>> = <<r, 0 + k>>
  OBVIOUS
<1>2. QED
  BY <1>1 DEF Whole, Run
(* A file that holds a whole beginning still does when the front of the    *)
(* writer's buffer is appended.                                            *)
LEMMA WholeGrows ==
  ASSUME TypeInv, CallsInv, AloneInv, FlowInv, WholeInv, ~overlap, file # 0,
         NEW r \in Recs, WrAlive(r), wpc[r] = "write",
         NEW n \in 0 .. Len(wbuf[r]),
         data' = [data EXCEPT ![file] = data[file] \o SubSeq(wbuf[r], 1, n)]
  PROVE  \A s \in Recs : data'[s] = Whole(s, Len(data'[s]))
<1>1. r = recs /\ recs # 0 /\ file = recs /\ app # "ring"
  BY AudioRecordAssumption DEF AloneInv, CallsInv, Starting, Recs
<1> DEFINE d == Len(data[recs])
           m == Len(wbuf[recs])
<1>2. d \in Nat /\ m \in Nat /\ n \in 0 .. m /\ n \in Nat
  BY <1>1, FlowNats
<1>3. data[recs] = Run(recs, 0, d)
  BY <1>1, <1>2, WholeRun DEF WholeInv, d
<1>4. wbuf[recs] = Run(recs, d, m)
  BY <1>1 DEF FlowInv, WriterFlowInv, Flowing
<1> HIDE DEF d, m
<1>5. SubSeq(wbuf[recs], 1, n) = Run(recs, d, n)
  <2>1. \A from \in Nat : SubSeq(Run(recs, from, m), 1, n) = Run(recs, from, n)
    BY <1>1, <1>2, RunSplit
  <2>2. QED
    BY <1>2, <1>4, <2>1
<1>6. Run(recs, 0, d) \o Run(recs, d, n) = Run(recs, 0, d + n)
  <2>1. \A from, i, j \in Nat : Run(recs, from, i) \o Run(recs, from + i, j) = Run(recs, from, i + j)
    BY <1>1, RunConcat
  <2> DEFINE start == 0
  <2>2. start \in Nat /\ start + d = d
    BY <1>2
  <2> HIDE DEF start
  <2>3. Run(recs, start, d) \o Run(recs, start + d, n) = Run(recs, start, d + n)
    BY <1>2, <2>1, <2>2
  <2>4. QED
    BY <2>2, <2>3 DEF start
<1>7. data'[recs] = Run(recs, 0, d + n)
  BY <1>1, <1>3, <1>5, <1>6 DEF TypeInv, SoundType
<1>8. data'[recs] = Whole(recs, Len(data'[recs]))
  <2>1. d + n \in Nat
    BY <1>2
  <2>2. Len(Run(recs, 0, d + n)) = d + n
    BY <1>1, <2>1, RunLen
  <2>3. QED
    BY <1>1, <1>7, <2>1, <2>2, WholeRun
<1>9. \A s \in Recs : s # recs => data'[s] = data[s]
  BY <1>1 DEF TypeInv, SoundType
<1>10. QED
  BY <1>8, <1>9 DEF WholeInv

(* The files hold whole beginnings.                                        *)
LEMMA StepWhole ==
  ASSUME TypeInv, CallsInv, AloneInv, FlowInv, WholeInv, [Next]_vars
  PROVE  WholeInv'
<1> USE DEF WholeInv, CapAt, WrAt, AppAt, flags, fileVars, ringVars, appVars, capVars,
         wrVars, ghosts
<1>1. CASE CallStop  BY <1>1 DEF CallStop
<1>2. CASE CallStart  BY <1>2 DEF CallStart
<1>3. CASE StopJoins  BY <1>3 DEF StopJoins
<1>4. CASE StopGivesUp  BY <1>4 DEF StopGivesUp
<1>5. CASE StopFinalizes  BY <1>5 DEF StopFinalizes
<1>5a. CASE StopCannotFinalize  BY <1>5a DEF StopCannotFinalize
<1>6. CASE StopTearsDown  BY <1>6 DEF StopTearsDown
<1>7. CASE StartCannotOpen  BY <1>7 DEF StartCannotOpen
<1>8. CASE StartOpens  BY <1>8 DEF StartOpens
<1>9. CASE StartCannotPrepare  BY <1>9 DEF StartCannotPrepare
<1>10. CASE StartPrepares  BY <1>10 DEF StartPrepares
<1>11. CASE SpawnsCapture  BY <1>11 DEF SpawnsCapture
<1>12. CASE CaptureSpawnFails  BY <1>12 DEF CaptureSpawnFails
<1>13. CASE SpawnsWriter  BY <1>13 DEF SpawnsWriter
<1>14. CASE WriterSpawnFails  BY <1>14 DEF WriterSpawnFails
<1>15. CASE StartPublishes  BY <1>15 DEF StartPublishes
<1>16. ASSUME NEW r \in Recs, CaptureCannotStart(r) PROVE WholeInv'
  BY <1>16 DEF CaptureCannotStart
<1>17. ASSUME NEW r \in Recs, CaptureStarts(r) PROVE WholeInv'
  BY <1>17 DEF CaptureStarts
<1>18. ASSUME NEW r \in Recs, CaptureLoops(r) PROVE WholeInv'
  BY <1>18 DEF CaptureLoops
<1>19. ASSUME NEW r \in Recs, CaptureReads(r) PROVE WholeInv'
  BY <1>19 DEF CaptureReads
<1>20. ASSUME NEW r \in Recs, CaptureReadsNoMore(r) PROVE WholeInv'
  BY <1>20 DEF CaptureReadsNoMore
<1>21. ASSUME NEW r \in Recs, CaptureReadFails(r) PROVE WholeInv'
  BY <1>21 DEF CaptureReadFails
<1>22. ASSUME NEW r \in Recs, CaptureTestsStop(r) PROVE WholeInv'
  BY <1>22 DEF CaptureTestsStop
<1>23. ASSUME NEW r \in Recs, CaptureSends(r) PROVE WholeInv'
  BY <1>23 DEF CaptureSends, Sends
<1>24. ASSUME NEW r \in Recs, CaptureFindsNoRoom(r) PROVE WholeInv'
  BY <1>24 DEF CaptureFindsNoRoom
<1>25. ASSUME NEW r \in Recs, CaptureEnds(r) PROVE WholeInv'
  BY <1>25 DEF CaptureEnds
<1>26. ASSUME NEW r \in Recs, WriterCannotStart(r) PROVE WholeInv'
  BY <1>26 DEF WriterCannotStart
<1>27. ASSUME NEW r \in Recs, WriterStarts(r) PROVE WholeInv'
  BY <1>27 DEF WriterStarts
<1>28. ASSUME NEW r \in Recs, WriterReceives(r) PROVE WholeInv'
  BY <1>28 DEF WriterReceives
<1>29. ASSUME NEW r \in Recs, WriterWrites(r) PROVE WholeInv'
  <2> SUFFICES ASSUME ~overlap' PROVE \A s \in Recs : data'[s] = Whole(s, Len(data'[s]))
    OBVIOUS
  <2>1. /\ UNCHANGED overlap /\ WrAlive(r) /\ wpc[r] = "write" /\ file # 0
        /\ data' = [data EXCEPT ![file] = data[file] \o SubSeq(wbuf[r], 1, Len(wbuf[r]))]
    <3>1. SubSeq(wbuf[r], 1, Len(wbuf[r])) = wbuf[r]
      BY SubSeqFull DEF TypeInv, SoundType
    <3>2. QED
      BY <1>29, <3>1 DEF WriterWrites, WrAlive
  <2>2. Len(wbuf[r]) \in 0 .. Len(wbuf[r])
    BY LenProperties DEF TypeInv, SoundType
  <2>3. QED
    BY <2>1, <2>2, WholeGrows
<1>30. ASSUME NEW r \in Recs, WriterWritesShort(r) PROVE WholeInv'
  <2> SUFFICES ASSUME ~overlap' PROVE \A s \in Recs : data'[s] = Whole(s, Len(data'[s]))
    OBVIOUS
  <2>1. UNCHANGED overlap /\ WrAlive(r) /\ wpc[r] = "write"
    BY <1>30 DEF WriterWritesShort, WrAlive
  <2>2. CASE file = 0
    BY <1>30, <2>1, <2>2 DEF WriterWritesShort
  <2>3. CASE file # 0
    <3>1. PICK n \in 0 .. Len(wbuf[r]) - 1 :
            data' = [data EXCEPT ![file] = data[file] \o SubSeq(wbuf[r], 1, n)]
      BY <1>30, <2>3 DEF WriterWritesShort
    <3>2. n \in 0 .. Len(wbuf[r])
      BY LenProperties DEF TypeInv, SoundType
    <3>3. QED
      BY <2>1, <2>3, <3>1, <3>2, WholeGrows
  <2>4. QED
    BY <2>2, <2>3
<1>31. ASSUME NEW r \in Recs, WriterCounts(r) PROVE WholeInv'
  BY <1>31 DEF WriterCounts
<1>32. ASSUME NEW r \in Recs, WriterLeaves(r) PROVE WholeInv'
  BY <1>32 DEF WriterLeaves
<1>33. ASSUME NEW r \in Recs, WriterFindsNoRing(r) PROVE WholeInv'
  BY <1>33 DEF WriterFindsNoRing
<1>34. ASSUME NEW r \in Recs, WriterEnds(r) PROVE WholeInv'
  BY <1>34 DEF WriterEnds
<1>35. CASE UNCHANGED vars  BY <1>35 DEF vars
<1>36. QED
  BY <1>1, <1>2, <1>3, <1>4, <1>5, <1>5a, <1>6, <1>7, <1>8, <1>9, <1>10, <1>11, <1>12, <1>13,
     <1>14, <1>15, <1>16, <1>17, <1>18, <1>19, <1>20, <1>21, <1>22, <1>23, <1>24, <1>25,
     <1>26, <1>27, <1>28, <1>29, <1>30, <1>31, <1>32, <1>33, <1>34, <1>35
  DEF Next, App, Capture, Writer

(***************************************************************************)
(* The theorems                                                            *)
(***************************************************************************)
LEMMA InitIInv == Init => IInv
<1> SUFFICES ASSUME Init PROVE IInv
  OBVIOUS
<1> USE AudioRecordAssumption, EmptySeq DEF Init, Recs
<1>1. BoolType
  BY Zenon DEF BoolType
<1>2. ControlType
  BY DEF ControlType, CapPoints, WrPoints, AppPoints
<1>3. SoundType
  BY DEF SoundType
<1>4. CallsInv /\ BuffersInv /\ AloneInv
  BY DEF CallsInv, BuffersInv, AloneInv, CapAlive, WrAlive, Busy, Starting
<1>5. FlagsInv /\ JoinedInv /\ RingInv /\ DrainedInv
  BY DEF FlagsInv, JoinedInv, RingInv, DrainedInv, InSession, WrAlive
<1>6. CountInv /\ FreshInv
  BY DEF CountInv, FreshInv
<1>7. FlowInv
  BY DEF FlowInv, WriterFlowInv, RingFlowInv, CaptureFlowInv, NothingLostInv, Flowing
<1>8. WholeInv
  <2>1. Len(<< >>) = 0 /\ \A r : Whole(r, 0) = << >>
    BY DEF Whole
  <2>2. QED
    BY <2>1 DEF WholeInv
<1>9. HeadInv /\ RingOutlivesTasks /\ HeaderIsExact
  BY DEF HeadInv, RingOutlivesTasks, HeaderIsExact
<1>10. QED
  BY <1>1, <1>2, <1>3, <1>4, <1>5, <1>6, <1>7, <1>8, <1>9 DEF IInv, TypeInv

LEMMA Invariance == Spec => []IInv
<1>1. IInv /\ [Next]_vars => IInv'
  BY StepBool, StepControl, StepSound, StepCalls, StepBuffers, StepAlone, StepFlags,
     StepJoined, StepRing, StepOutlives, StepDrained, StepFresh, StepCount, StepHead,
     StepHeader, StepFlow, StepWhole
  DEF IInv, TypeInv
<1>2. QED
  BY InitIInv, <1>1, PTL DEF Spec

(* Every variable has its type: the ring and the tasks' buffers never hold *)
(* more than their capacities.                                             *)
THEOREM TypeCorrect == Spec => []TypeOK
<1>1. IInv => TypeOK
  BY DEF IInv, TypeInv, BoolType, ControlType, SoundType, TypeOK
<1>2. QED
  BY <1>1, Invariance, PTL

(* recordCaptureTask, the ring and recordWriterTask drop, repeat and       *)
(* reorder nothing: a file is an unbroken beginning of its recording.      *)
THEOREM NoGaps == Spec => []FilesHaveNoGaps
<1>1. IInv => FilesHaveNoGaps
  BY DEF IInv, WholeInv, Whole, FilesHaveNoGaps
<1>2. QED
  BY <1>1, Invariance, PTL

(* finalizeWavHeader writes the number of bytes that follow the header.    *)
THEOREM ExactHeader == Spec => []HeaderIsExact
<1>1. IInv => HeaderIsExact
  BY DEF IInv
<1>2. QED
  BY <1>1, Invariance, PTL

(* stopRecord() finalises the file only when the ring is drained into it.  *)
THEOREM NothingLeftBehind == Spec => []StopLosesNothing
<1>1. IInv => StopLosesNothing
  BY DEF IInv, TypeInv, BoolType, ControlType, FlagsInv, JoinedInv, DrainedInv, InSession,
         StopLosesNothing
<1>2. QED
  BY <1>1, Invariance, PTL

(* stopRecord() deletes the ring when no task is in it or comes back to it. *)
THEOREM RingOutlives == Spec => []RingOutlivesTasks
<1>1. IInv => RingOutlivesTasks
  BY DEF IInv
<1>2. QED
  BY <1>1, Invariance, PTL
===============================================================================
