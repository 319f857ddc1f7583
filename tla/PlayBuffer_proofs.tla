--------------------------- MODULE PlayBuffer_proofs ---------------------------
(* Proofs about PlayBuffer, for every source, ring size and chunk size.    *)
EXTENDS PlayBuffer, TLAPS

(* One step round the ring, without the modulo.                            *)
LEMMA AdvanceWraps ==
  ASSUME NEW i \in Slots
  PROVE  Advance(i) = IF i + 1 = cap THEN 0 ELSE i + 1
  BY PlayBufferAssumption DEF Advance, Slots

(* A place inside the ring is a slot, and different places are different   *)
(* slots.                                                                  *)
LEMMA SlotsDiffer ==
  ASSUME NEW t \in Slots, NEW i \in Slots
  PROVE  /\ Slot(t, i) \in Slots
         /\ \A j \in Slots : Slot(t, i) = Slot(t, j) => i = j
  BY PlayBufferAssumption DEF Slot, Slots

LEMMA AdvanceSlot ==
  ASSUME NEW t \in Slots
  PROVE  /\ Advance(t) \in Slots
         /\ \A i \in 0 .. cap - 1 : Advance(Slot(t, i)) = Slot(t, i + 1)
         /\ \A i \in 0 .. cap - 1 : Slot(Advance(t), i) = Slot(t, i + 1)
  BY AdvanceWraps, SlotsDiffer, PlayBufferAssumption DEF Slot, Slots

(* The inductive invariant: the lock, the ring and the end of the stream   *)
(* need each other.                                                        *)
IInv == TypeOK /\ LockInv /\ RingInv /\ EndInv /\ DeliveredInOrder

LEMMA InitIInv == Init => IInv
  BY PlayBufferAssumption
     DEF Init, IInv, TypeOK, LockInv, RingInv, EndInv, DeliveredInOrder,
         Slots, Slot, Occupied

(* A step keeps the types: the loaded value of count is what bounds it.    *)
LEMMA StepType == IInv /\ [Next]_vars => TypeOK'
<1> SUFFICES ASSUME IInv, [Next]_vars PROVE TypeOK'
  OBVIOUS
<1> USE PlayBufferAssumption DEF IInv, ring, flags, reader, decoder, TypeOK, LockInv, Slots
<1>1. CASE ReaderFetch
  <2>1. PICK n \in 1 .. MaxRead : n <= Remaining /\ fetched' = fetched + n
    BY <1>1 DEF ReaderFetch
  <2>2. n \in Nat /\ fetched' \in 0 .. Len(Source) /\ pushed \in 0 .. fetched'
    BY <2>1 DEF Remaining
  <2>3. fetched' \in 0 .. Len(Source') /\ pushed' \in 0 .. fetched'
    BY <1>1, <2>2 DEF ReaderFetch
  <2>4. QED
    BY <1>1, <2>3 DEF ReaderFetch
<1>2. CASE ReaderSourceEnds
  BY <1>2 DEF ReaderSourceEnds, Remaining
<1>2a. CASE ReaderTakesErrorForEnd
  BY <1>2a DEF ReaderTakesErrorForEnd, Remaining
<1>3. CASE ReaderTakesLock
  BY <1>3 DEF ReaderTakesLock
<1>4. CASE ReaderDropsChunk
  BY <1>4 DEF ReaderDropsChunk
<1>5. CASE ReaderCopies
  <2>1. head' \in Slots
    BY <1>5, AdvanceSlot DEF ReaderCopies, HasRoom
  <2>2. Source[pushed + 1] \in Data /\ pushed' \in 0 .. fetched'
    BY <1>5 DEF ReaderCopies, HasRoom
  <2>3. buf' \in [Slots -> Data]
    BY <1>5, <2>2 DEF ReaderCopies, HasRoom
  <2>4. QED
    BY <1>5, <2>1, <2>2, <2>3 DEF ReaderCopies, HasRoom
<1>6. CASE ReaderCounts
  BY <1>6 DEF ReaderCounts
<1>7. CASE ReaderGivesLock
  BY <1>7 DEF ReaderGivesLock, HasRoom
<1>8. CASE ReaderFinishes
  BY <1>8 DEF ReaderFinishes
<1>9. CASE DecoderPolls
  BY <1>9 DEF DecoderPolls
<1>9a. CASE DecoderLeavesPause
  BY <1>9a DEF DecoderLeavesPause
<1>10. CASE DecoderTakesLock
  BY <1>10 DEF DecoderTakesLock
<1>11. CASE DecoderLockTimesOut
  BY <1>11 DEF DecoderLockTimesOut
<1>12. CASE DecoderCopies
  <2>1. tail' \in Slots
    BY <1>12, AdvanceSlot DEF DecoderCopies, WantsMore
  <2>2. delivered' \in Seq(Data)
    BY <1>12 DEF DecoderCopies, WantsMore
  <2>3. QED
    BY <1>12, <2>1, <2>2 DEF DecoderCopies, WantsMore
<1>13. CASE DecoderCounts
  BY <1>13 DEF DecoderCounts
<1>14. CASE DecoderGivesLock
  BY <1>14 DEF DecoderGivesLock, WantsMore
<1>15. CASE DecoderTestsDone
  BY <1>15 DEF DecoderTestsDone, AtEndOfStream, EndTest
<1>16. CASE DecoderTestsCount
  BY <1>16 DEF DecoderTestsCount, AtEndOfStream, EndTest
<1>17. CASE DecoderProcesses
  <2>1. stopRequested' \in BOOLEAN
    BY <1>17, Zenon DEF DecoderProcesses
  <2>2. QED
    BY <1>17, <2>1 DEF DecoderProcesses
<1>18. CASE DecoderEnds
  BY <1>18 DEF DecoderEnds
<1>19. CASE AppRequestsStop
  <2>1. stopRequested' \in BOOLEAN /\ pauseRequested' \in BOOLEAN
    BY <1>19, Zenon DEF AppRequestsStop
  <2>2. QED
    BY <1>19, <2>1 DEF AppRequestsStop
<1>19a. CASE AppPauses
  BY <1>19a DEF AppPauses
<1>19b. CASE AppResumes
  BY <1>19b DEF AppResumes
<1>20. CASE AppStopsReader
  BY <1>20 DEF AppStopsReader
<1>21. CASE UNCHANGED vars
  BY <1>21 DEF vars
<1>22. QED
  BY <1>1, <1>2, <1>2a, <1>3, <1>4, <1>5, <1>6, <1>7, <1>8, <1>9, <1>9a, <1>10, <1>11, <1>12, <1>13, <1>14, <1>15, <1>16, <1>17, <1>18, <1>19, <1>19a, <1>19b, <1>20, <1>21
     DEF Next, Reader, Decoder

(* A step keeps the lock with the task that is inside.                     *)
LEMMA StepLock == IInv /\ [Next]_vars => LockInv'
<1> SUFFICES ASSUME IInv, [Next]_vars PROVE LockInv'
  OBVIOUS
<1> USE PlayBufferAssumption DEF IInv, ring, flags, reader, decoder, TypeOK, LockInv
<1>1. CASE ReaderFetch
  BY <1>1 DEF ReaderFetch, Remaining
<1>2. CASE ReaderSourceEnds
  BY <1>2 DEF ReaderSourceEnds, Remaining
<1>2a. CASE ReaderTakesErrorForEnd
  BY <1>2a DEF ReaderTakesErrorForEnd, Remaining
<1>3. CASE ReaderTakesLock
  BY <1>3 DEF ReaderTakesLock
<1>4. CASE ReaderDropsChunk
  BY <1>4 DEF ReaderDropsChunk
<1>5. CASE ReaderCopies
  BY <1>5 DEF ReaderCopies, HasRoom
<1>6. CASE ReaderCounts
  BY <1>6 DEF ReaderCounts
<1>7. CASE ReaderGivesLock
  BY <1>7 DEF ReaderGivesLock, HasRoom
<1>8. CASE ReaderFinishes
  BY <1>8 DEF ReaderFinishes
<1>9. CASE DecoderPolls
  BY <1>9 DEF DecoderPolls
<1>9a. CASE DecoderLeavesPause
  BY <1>9a DEF DecoderLeavesPause
<1>10. CASE DecoderTakesLock
  BY <1>10 DEF DecoderTakesLock
<1>11. CASE DecoderLockTimesOut
  BY <1>11 DEF DecoderLockTimesOut
<1>12. CASE DecoderCopies
  BY <1>12 DEF DecoderCopies, WantsMore
<1>13. CASE DecoderCounts
  BY <1>13 DEF DecoderCounts
<1>14. CASE DecoderGivesLock
  BY <1>14 DEF DecoderGivesLock, WantsMore
<1>15. CASE DecoderTestsDone
  BY <1>15 DEF DecoderTestsDone, AtEndOfStream, EndTest
<1>16. CASE DecoderTestsCount
  BY <1>16 DEF DecoderTestsCount, AtEndOfStream, EndTest
<1>17. CASE DecoderProcesses
  BY <1>17 DEF DecoderProcesses
<1>18. CASE DecoderEnds
  BY <1>18 DEF DecoderEnds
<1>19. CASE AppRequestsStop
  BY <1>19 DEF AppRequestsStop
<1>19a. CASE AppPauses
  BY <1>19a DEF AppPauses
<1>19b. CASE AppResumes
  BY <1>19b DEF AppResumes
<1>20. CASE AppStopsReader
  BY <1>20 DEF AppStopsReader
<1>21. CASE UNCHANGED vars
  BY <1>21 DEF vars
<1>22. QED
  BY <1>1, <1>2, <1>2a, <1>3, <1>4, <1>5, <1>6, <1>7, <1>8, <1>9, <1>9a, <1>10, <1>11, <1>12, <1>13, <1>14, <1>15, <1>16, <1>17, <1>18, <1>19, <1>19a, <1>19b, <1>20, <1>21
     DEF Next, Reader, Decoder

(* A step keeps what is known of the end of the stream.                    *)
LEMMA StepEnd == IInv /\ [Next]_vars => EndInv'
<1> SUFFICES ASSUME IInv, [Next]_vars PROVE EndInv'
  OBVIOUS
<1> USE PlayBufferAssumption DEF IInv, ring, flags, reader, decoder, TypeOK, LockInv, RingInv, EndInv, Occupied
<1>1. CASE ReaderFetch
  BY <1>1 DEF ReaderFetch, Remaining
<1>2. CASE ReaderSourceEnds
  BY <1>2 DEF ReaderSourceEnds, Remaining
<1>2a. CASE ReaderTakesErrorForEnd
  BY <1>2a DEF ReaderTakesErrorForEnd, Remaining
<1>3. CASE ReaderTakesLock
  BY <1>3 DEF ReaderTakesLock
<1>4. CASE ReaderDropsChunk
  BY <1>4 DEF ReaderDropsChunk
<1>5. CASE ReaderCopies
  BY <1>5 DEF ReaderCopies, HasRoom
<1>6. CASE ReaderCounts
  BY <1>6 DEF ReaderCounts
<1>7. CASE ReaderGivesLock
  BY <1>7 DEF ReaderGivesLock, HasRoom
<1>8. CASE ReaderFinishes
  BY <1>8 DEF ReaderFinishes
<1>9. CASE DecoderPolls
  BY <1>9 DEF DecoderPolls
<1>9a. CASE DecoderLeavesPause
  BY <1>9a DEF DecoderLeavesPause
<1>10. CASE DecoderTakesLock
  BY <1>10 DEF DecoderTakesLock
<1>11. CASE DecoderLockTimesOut
  BY <1>11 DEF DecoderLockTimesOut
<1>12. CASE DecoderCopies
  BY <1>12 DEF DecoderCopies, WantsMore
<1>13. CASE DecoderCounts
  BY <1>13 DEF DecoderCounts
<1>14. CASE DecoderGivesLock
  BY <1>14 DEF DecoderGivesLock, WantsMore
<1>15. CASE DecoderTestsDone
  BY <1>15 DEF DecoderTestsDone, AtEndOfStream, EndTest
<1>16. CASE DecoderTestsCount
  BY <1>16 DEF DecoderTestsCount, AtEndOfStream, EndTest
<1>17. CASE DecoderProcesses
  BY <1>17 DEF DecoderProcesses
<1>18. CASE DecoderEnds
  BY <1>18 DEF DecoderEnds
<1>19. CASE AppRequestsStop
  BY <1>19 DEF AppRequestsStop
<1>19a. CASE AppPauses
  BY <1>19a DEF AppPauses
<1>19b. CASE AppResumes
  BY <1>19b DEF AppResumes
<1>20. CASE AppStopsReader
  BY <1>20 DEF AppStopsReader
<1>21. CASE UNCHANGED vars
  BY <1>21 DEF vars
<1>22. QED
  BY <1>1, <1>2, <1>2a, <1>3, <1>4, <1>5, <1>6, <1>7, <1>8, <1>9, <1>9a, <1>10, <1>11, <1>12, <1>13, <1>14, <1>15, <1>16, <1>17, <1>18, <1>19, <1>19a, <1>19b, <1>20, <1>21
     DEF Next, Reader, Decoder

(* A step appends to delivered only the next byte of the source.           *)
LEMMA StepOrder == IInv /\ [Next]_vars => DeliveredInOrder'
<1> SUFFICES ASSUME IInv, [Next]_vars PROVE DeliveredInOrder'
  OBVIOUS
<1> USE PlayBufferAssumption DEF IInv, ring, flags, reader, decoder, TypeOK, LockInv, RingInv, DeliveredInOrder, Occupied
<1>1. CASE ReaderFetch
  BY <1>1 DEF ReaderFetch, Remaining
<1>2. CASE ReaderSourceEnds
  BY <1>2 DEF ReaderSourceEnds, Remaining
<1>2a. CASE ReaderTakesErrorForEnd
  BY <1>2a DEF ReaderTakesErrorForEnd, Remaining
<1>3. CASE ReaderTakesLock
  BY <1>3 DEF ReaderTakesLock
<1>4. CASE ReaderDropsChunk
  BY <1>4 DEF ReaderDropsChunk
<1>5. CASE ReaderCopies
  BY <1>5 DEF ReaderCopies, HasRoom
<1>6. CASE ReaderCounts
  BY <1>6 DEF ReaderCounts
<1>7. CASE ReaderGivesLock
  BY <1>7 DEF ReaderGivesLock, HasRoom
<1>8. CASE ReaderFinishes
  BY <1>8 DEF ReaderFinishes
<1>9. CASE DecoderPolls
  BY <1>9 DEF DecoderPolls
<1>9a. CASE DecoderLeavesPause
  BY <1>9a DEF DecoderLeavesPause
<1>10. CASE DecoderTakesLock
  BY <1>10 DEF DecoderTakesLock
<1>11. CASE DecoderLockTimesOut
  BY <1>11 DEF DecoderLockTimesOut
<1>12. CASE DecoderCopies
  <2>1. Occupied > 0 /\ Slot(tail, 0) = tail /\ count > 0
    BY <1>12 DEF DecoderCopies, WantsMore, Slot, Slots
  <2>2. buf[tail] = Source[Len(delivered) + 1]
    <3>1. 0 \in 0 .. Occupied - 1 /\ Len(delivered) + 0 + 1 = Len(delivered) + 1
      BY <2>1 DEF DecoderCopies, WantsMore
    <3>2. QED
      BY <2>1, <3>1
  <2>3. Len(delivered') = Len(delivered) + 1 /\ Len(delivered') <= Len(Source)
    BY <1>12, <2>1 DEF DecoderCopies, WantsMore
  <2>4. ASSUME NEW i \in 1 .. Len(delivered')
        PROVE  delivered'[i] = Source[i]
    BY <1>12, <2>2, <2>3 DEF DecoderCopies, WantsMore
  <2>5. QED
    BY <1>12, <2>3, <2>4 DEF DecoderCopies, WantsMore
<1>13. CASE DecoderCounts
  BY <1>13 DEF DecoderCounts
<1>14. CASE DecoderGivesLock
  BY <1>14 DEF DecoderGivesLock, WantsMore
<1>15. CASE DecoderTestsDone
  BY <1>15 DEF DecoderTestsDone, AtEndOfStream, EndTest
<1>16. CASE DecoderTestsCount
  BY <1>16 DEF DecoderTestsCount, AtEndOfStream, EndTest
<1>17. CASE DecoderProcesses
  BY <1>17 DEF DecoderProcesses
<1>18. CASE DecoderEnds
  BY <1>18 DEF DecoderEnds
<1>19. CASE AppRequestsStop
  BY <1>19 DEF AppRequestsStop
<1>19a. CASE AppPauses
  BY <1>19a DEF AppPauses
<1>19b. CASE AppResumes
  BY <1>19b DEF AppResumes
<1>20. CASE AppStopsReader
  BY <1>20 DEF AppStopsReader
<1>21. CASE UNCHANGED vars
  BY <1>21 DEF vars
<1>22. QED
  BY <1>1, <1>2, <1>2a, <1>3, <1>4, <1>5, <1>6, <1>7, <1>8, <1>9, <1>9a, <1>10, <1>11, <1>12, <1>13, <1>14, <1>15, <1>16, <1>17, <1>18, <1>19, <1>19a, <1>19b, <1>20, <1>21
     DEF Next, Reader, Decoder

(* A step keeps head, tail, count and the bytes inside in agreement.       *)
LEMMA StepRing == IInv /\ [Next]_vars => RingInv'
<1> SUFFICES ASSUME IInv, [Next]_vars PROVE RingInv'
  OBVIOUS
<1> USE PlayBufferAssumption DEF IInv, ring, flags, reader, decoder, TypeOK, LockInv, RingInv, Occupied
<1>1. CASE ReaderFetch
  BY <1>1 DEF ReaderFetch, Remaining
<1>2. CASE ReaderSourceEnds
  BY <1>2 DEF ReaderSourceEnds, Remaining
<1>2a. CASE ReaderTakesErrorForEnd
  BY <1>2a DEF ReaderTakesErrorForEnd, Remaining
<1>3. CASE ReaderTakesLock
  BY <1>3 DEF ReaderTakesLock
<1>4. CASE ReaderDropsChunk
  BY <1>4 DEF ReaderDropsChunk
<1>5. CASE ReaderCopies
  <2>. USE <1>5 DEF ReaderCopies, HasRoom, Slots
  <2>1. Occupied = count /\ Occupied' = count + 1 /\ count < cap
    OBVIOUS
  <2>2. Slot(tail, count) = head /\ count \in Slots
    BY <2>1
  <2>3. head' = Slot(tail', Occupied')
    BY <2>1, <2>2, AdvanceSlot
  <2>4. ASSUME NEW i \in 0 .. Occupied' - 1
        PROVE  buf'[Slot(tail', i)] = Source'[Len(delivered)' + i + 1]
    <3>1. CASE i = count
      BY <2>1, <2>2, <3>1
    <3>2. CASE i # count
      <4>1. i \in 0 .. Occupied - 1 /\ i \in Slots
        BY <2>1, <3>2
      <4>2. Slot(tail, i) # head /\ Slot(tail, i) \in Slots
        BY <2>2, <3>2, <4>1, SlotsDiffer
      <4>3. QED
        BY <4>1, <4>2
    <3>3. QED
      BY <3>1, <3>2
  <2>5. pushed' = Len(delivered)' + Occupied' /\ Occupied' \in 0 .. cap
    BY <2>1
  <2>6. QED
    BY <2>3, <2>4, <2>5
<1>6. CASE ReaderCounts
  BY <1>6 DEF ReaderCounts
<1>7. CASE ReaderGivesLock
  BY <1>7 DEF ReaderGivesLock, HasRoom
<1>8. CASE ReaderFinishes
  BY <1>8 DEF ReaderFinishes
<1>9. CASE DecoderPolls
  BY <1>9 DEF DecoderPolls
<1>9a. CASE DecoderLeavesPause
  BY <1>9a DEF DecoderLeavesPause
<1>10. CASE DecoderTakesLock
  BY <1>10 DEF DecoderTakesLock
<1>11. CASE DecoderLockTimesOut
  BY <1>11 DEF DecoderLockTimesOut
<1>12. CASE DecoderCopies
  <2>. USE <1>12 DEF DecoderCopies, WantsMore, Slots
  <2>1. Occupied = count /\ Occupied' = count - 1 /\ count > 0
    OBVIOUS
  <2>2. Len(delivered)' = Len(delivered) + 1
    OBVIOUS
  <2>3. head' = Slot(tail', Occupied')
    BY <2>1, AdvanceSlot
  <2>4. ASSUME NEW i \in 0 .. Occupied' - 1
        PROVE  buf'[Slot(tail', i)] = Source'[Len(delivered)' + i + 1]
    <3>1. Slot(tail', i) = Slot(tail, i + 1) /\ i + 1 \in 0 .. Occupied - 1
      BY <2>1, AdvanceSlot
    <3>2. QED
      BY <2>2, <3>1
  <2>5. pushed' = Len(delivered)' + Occupied' /\ Occupied' \in 0 .. cap
    BY <2>1, <2>2
  <2>6. QED
    BY <2>3, <2>4, <2>5
<1>13. CASE DecoderCounts
  BY <1>13 DEF DecoderCounts
<1>14. CASE DecoderGivesLock
  BY <1>14 DEF DecoderGivesLock, WantsMore
<1>15. CASE DecoderTestsDone
  BY <1>15 DEF DecoderTestsDone, AtEndOfStream, EndTest
<1>16. CASE DecoderTestsCount
  BY <1>16 DEF DecoderTestsCount, AtEndOfStream, EndTest
<1>17. CASE DecoderProcesses
  BY <1>17 DEF DecoderProcesses
<1>18. CASE DecoderEnds
  BY <1>18 DEF DecoderEnds
<1>19. CASE AppRequestsStop
  BY <1>19 DEF AppRequestsStop
<1>19a. CASE AppPauses
  BY <1>19a DEF AppPauses
<1>19b. CASE AppResumes
  BY <1>19b DEF AppResumes
<1>20. CASE AppStopsReader
  BY <1>20 DEF AppStopsReader
<1>21. CASE UNCHANGED vars
  BY <1>21 DEF vars
<1>22. QED
  BY <1>1, <1>2, <1>2a, <1>3, <1>4, <1>5, <1>6, <1>7, <1>8, <1>9, <1>9a, <1>10, <1>11, <1>12, <1>13, <1>14, <1>15, <1>16, <1>17, <1>18, <1>19, <1>19a, <1>19b, <1>20, <1>21
     DEF Next, Reader, Decoder

(* The invariant holds in every reachable state.                           *)
LEMMA Invariance == Spec => []IInv
<1>1. IInv /\ [Next]_vars => IInv'
  BY StepType, StepLock, StepRing, StepEnd, StepOrder DEF IInv
<1>2. QED
  BY InitIInv, <1>1, PTL DEF Spec

(* Type correctness of both tasks' variables: in particular count never    *)
(* leaves 0 .. cap, although it is stored back from a loaded value.        *)
THEOREM TypeCorrect == Spec => []TypeOK
<1>1. IInv => TypeOK
  BY DEF IInv
<1>2. QED
  BY Invariance, <1>1, PTL

(* For every file and ring size, the decode task receives the bytes of the *)
(* source in order, none lost or repeated.                                 *)
THEOREM InOrderDelivery == Spec => []DeliveredInOrder
<1>1. IInv => DeliveredInOrder
  BY DEF IInv
<1>2. QED
  BY Invariance, <1>1, PTL

(* The eos flag is raised only with the last bytes of the stream.          *)
THEOREM EosIsExact == Spec => []EosOnlyAtEnd
<1>1. IInv => EosOnlyAtEnd
  BY DEF IInv, TypeOK, LockInv, RingInv, EndInv, EosOnlyAtEnd, Occupied
<1>2. QED
  BY Invariance, <1>1, PTL

(* A playback left as IDLE has decoded everything that was fetched.        *)
THEOREM PlaybackIsComplete == Spec => []CompletePlayback
<1>1. IInv => CompletePlayback
  BY DEF IInv, TypeOK, LockInv, RingInv, EndInv, CompletePlayback, Occupied
<1>2. QED
  BY Invariance, <1>1, PTL

(* The bytes pushed so far, as the sequence the pipe talks about.          *)
Prefix(n) == [i \in 1 .. n |-> Source[i]]

LEMMA PrefixGrows ==
  ASSUME NEW n \in 0 .. Len(Source)
  PROVE  /\ Prefix(n) \in Seq(Data)
         /\ Len(Prefix(n)) = n
         /\ n < Len(Source) => Prefix(n + 1) = Append(Prefix(n), Source[n + 1])
<1>1. \A i \in 1 .. n : Source[i] \in Data
  BY PlayBufferAssumption
<1>2. Prefix(n) \in Seq(Data) /\ Len(Prefix(n)) = n
  BY <1>1 DEF Prefix
<1>3. ASSUME n < Len(Source)
      PROVE  Prefix(n + 1) = Append(Prefix(n), Source[n + 1])
  BY <1>2, <1>3, PlayBufferAssumption DEF Prefix
<1>4. QED
  BY <1>2, <1>3

(* A step of the two tasks is a step of the pipe, or none.                 *)
LEMMA StepImplements == IInv /\ [Next]_vars => [Pipe!Next]_(Pipe!pipeVars)
<1> SUFFICES ASSUME IInv, [Next]_vars PROVE [Pipe!Next]_(Pipe!pipeVars)
  OBVIOUS
<1> USE DEF IInv, TypeOK, ring, flags, reader, decoder, Pipe!pipeVars
<1>1. CASE ReaderCopies
  <2>1. Len(Prefix(pushed)) - Len(delivered) < cap /\ pushed < Len(Source)
    BY <1>1, PrefixGrows, PlayBufferAssumption
       DEF ReaderCopies, HasRoom, LockInv, RingInv, Occupied
  <2>2. Prefix(pushed') = Append(Prefix(pushed), Source[pushed + 1])
    BY <1>1, <2>1, PrefixGrows DEF ReaderCopies
  <2>3. ~readDone /\ Source[pushed + 1] \in Data
    BY <1>1, <2>1, PlayBufferAssumption DEF ReaderCopies, EndInv
  <2>4. Pipe!Produce
    BY <1>1, <2>1, <2>2, <2>3 DEF ReaderCopies, Pipe!Produce, Prefix
  <2>5. QED
    BY <2>4 DEF Pipe!Next
<1>2. CASE DecoderCopies
  <2>1. buf[tail] = Source[Len(delivered) + 1] /\ Len(delivered) < pushed
    <3>1. Occupied > 0 /\ Slot(tail, 0) = tail
      BY <1>2, PlayBufferAssumption
         DEF DecoderCopies, WantsMore, LockInv, RingInv, Occupied, Slot, Slots
    <3>2. 0 \in 0 .. Occupied - 1 /\ Len(delivered) + 0 + 1 = Len(delivered) + 1
      BY <3>1, PlayBufferAssumption DEF RingInv
    <3>3. QED
      BY <3>1, <3>2, PlayBufferAssumption DEF RingInv
  <2>2. Len(Prefix(pushed)) = pushed
        /\ Prefix(pushed)[Len(delivered) + 1] = Source[Len(delivered) + 1]
    BY <2>1, PrefixGrows, PlayBufferAssumption DEF Prefix
  <2>3. outcome = "NONE"
    BY <1>2 DEF DecoderCopies, EndInv
  <2>4. Pipe!Deliver
    BY <1>2, <2>1, <2>2, <2>3 DEF DecoderCopies, Pipe!Deliver, Prefix
  <2>5. QED
    BY <2>4 DEF Pipe!Next
<1>3. CASE ReaderFinishes
  BY <1>3 DEF ReaderFinishes, EndInv, Pipe!Next, Pipe!Close
<1>4. CASE DecoderEnds
  <2>1. outcome = "NONE"
    BY <1>4 DEF DecoderEnds, EndInv
  <2>2. CASE stopRequested
    BY <1>4, <2>1, <2>2 DEF DecoderEnds, Pipe!Next, Pipe!Abort
  <2>3. CASE ~stopRequested
    <3>1. readDone /\ Len(delivered) = Len(Prefix(pushed))
      BY <1>4, <2>3, PrefixGrows, PlayBufferAssumption
         DEF DecoderEnds, EndInv, LockInv, RingInv, Occupied
    <3>2. QED
      BY <1>4, <2>1, <2>3, <3>1 DEF DecoderEnds, Pipe!Next, Pipe!Finish, Prefix
  <2>4. QED
    BY <2>2, <2>3
<1>5. CASE ReaderFetch
  BY <1>5 DEF ReaderFetch
<1>6. CASE ReaderSourceEnds
  BY <1>6 DEF ReaderSourceEnds
<1>6a. CASE ReaderTakesErrorForEnd
  BY <1>6a DEF ReaderTakesErrorForEnd
<1>7. CASE ReaderTakesLock
  BY <1>7 DEF ReaderTakesLock
<1>8. CASE ReaderDropsChunk
  BY <1>8 DEF ReaderDropsChunk
<1>9. CASE ReaderCounts
  BY <1>9 DEF ReaderCounts
<1>10. CASE ReaderGivesLock
  BY <1>10 DEF ReaderGivesLock
<1>11. CASE DecoderPolls
  BY <1>11 DEF DecoderPolls
<1>11a. CASE DecoderLeavesPause
  BY <1>11a DEF DecoderLeavesPause
<1>12. CASE DecoderTakesLock
  BY <1>12 DEF DecoderTakesLock
<1>13. CASE DecoderLockTimesOut
  BY <1>13 DEF DecoderLockTimesOut
<1>14. CASE DecoderCounts
  BY <1>14 DEF DecoderCounts
<1>15. CASE DecoderGivesLock
  BY <1>15 DEF DecoderGivesLock
<1>16. CASE DecoderTestsDone
  BY <1>16 DEF DecoderTestsDone, AtEndOfStream
<1>17. CASE DecoderTestsCount
  BY <1>17 DEF DecoderTestsCount, AtEndOfStream
<1>18. CASE DecoderProcesses
  BY <1>18 DEF DecoderProcesses
<1>19. CASE AppRequestsStop
  BY <1>19 DEF AppRequestsStop
<1>19a. CASE AppPauses
  BY <1>19a DEF AppPauses
<1>19b. CASE AppResumes
  BY <1>19b DEF AppResumes
<1>20. CASE AppStopsReader
  BY <1>20 DEF AppStopsReader
<1>21. CASE UNCHANGED vars
  BY <1>21 DEF vars
<1>22. QED
  BY <1>1, <1>2, <1>3, <1>4, <1>5, <1>6, <1>6a, <1>7, <1>8, <1>9, <1>10, <1>11, <1>11a, <1>12, <1>13, <1>14, <1>15, <1>16, <1>17, <1>18, <1>19, <1>19a, <1>19b, <1>20, <1>21
     DEF Next, Reader, Decoder

(* The ring with its two tasks implements the bounded pipe.                *)
THEOREM RingImplementsPipe == Spec => ImplementsPipe
<1>1. Init => Pipe!Init
  BY DEF Init, Pipe!Init
<1>2. IInv /\ [Next]_vars => [Pipe!Next]_(Pipe!pipeVars)
  BY StepImplements
<1>3. QED
  BY Invariance, <1>1, <1>2, PTL DEF Spec, ImplementsPipe, Pipe!Spec
===============================================================================
