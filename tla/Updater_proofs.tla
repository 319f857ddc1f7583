------------------------------ MODULE Updater_proofs ------------------------------
(***************************************************************************)
(* What Updater promises, for partitions and images of every size, wherever *)
(* the partition lies and however often an update is begun.  The inductive *)
(* invariant follows the image: what was handed over is on the flash up to *)
(* _progress and in the buffer behind it, what the next chunks need and was *)
(* erased in advance is still erased, and a firmware's first cell is held  *)
(* back until all the rest is written.                                     *)
(***************************************************************************)
EXTENDS Updater, SequenceTheorems, TLAPS

Cell == (Images \X Nat) \union {Blank, Bad}

(* An update runs: begun, neither aborted nor ended.                       *)
Live == ~error /\ (pc # "idle" \/ size > 0)
Flushing == pc \in {"flush", "erase", "program"}
Ending == pc \in {"check", "enabled"}

BoolInv == error \in BOOLEAN /\ hasMd5 \in BOOLEAN

ScalarInv ==
  /\ kind \in {"app", "data"} /\ address \in Addresses
  /\ boot \in {"running", "target"}
  /\ size \in 0 .. PartitionLen /\ progress \in 0 .. PartitionLen
  /\ command \in {"app", "data"}
  /\ pc \in {"idle", "fill", "read", "flush", "erase", "program", "check", "enabled"}
  /\ call \in {"none", "write", "stream", "end"}
  /\ left \in 0 .. PartitionLen
  /\ session \in Images /\ want \in 0 .. PartitionLen
  /\ total \in [Images -> Nat]

DataInv ==
  /\ flash \in [Cells -> Cell]
  /\ buffer \in Seq(Cell) /\ Len(buffer) <= SectorLen
  /\ stash \in Seq(Cell) /\ Len(stash) <= 1
  /\ digest \in Seq(Cell)

(* _abort() has cleared the object whenever an error is set; only end()    *)
(* goes on after that, to its checks.                                      *)
ResetInv ==
  error => /\ pc \in {"idle", "check"}
           /\ size = 0 /\ progress = 0 /\ command = "app"
           /\ buffer = << >> /\ stash = << >>

(* Which call is at which step.                                            *)
CallInv ==
  /\ pc = "idle" => call = "none"
  /\ pc = "fill" => call = "write"
  /\ pc = "read" => call = "stream"
  /\ Ending => call = "end"
  /\ Flushing => call # "none"
  /\ call # "write" => left = 0
  /\ pc \in {"fill", "read"} \/ Flushing => size > 0

(* Every cell handed over is behind _progress or in the buffer, and there  *)
(* are no more of them than were announced.                                *)
CountInv ==
  Live =>
    /\ session > 0 /\ command = kind
    /\ total[session] = progress + Len(buffer)
    /\ total[session] + left <= want
    /\ ~Ending => want <= size
    /\ Len(digest) = progress

(* The ghost of the other images.                                          *)
TotalsInv ==
  /\ total[0] = PartitionLen
  /\ \A s \in Images : s > session => total[s] = 0

(* end() has written the buffer out, unless it could not hold a cell back. *)
EndInv ==
  Live /\ Ending => buffer = << >> \/ (stash = << >> /\ command = "app")

(* Chunks are whole sectors up to the last one.                            *)
ChunkInv ==
  /\ Live /\ ~Ending => progress = size \/ progress % SectorLen = 0
  /\ Flushing => \/ Len(buffer) = SectorLen
                 \/ Len(buffer) = size - progress
                 \/ call = "end"
  /\ Flushing => buffer # << >> \/ progress > 0

(* The buffer holds the image from _progress on.                           *)
BufferInv ==
  Live => \A i \in 1 .. Len(buffer) : buffer[i] = Image(session, progress + i - 1)

(* The flash holds the image up to _progress, but for a firmware's first   *)
(* cell and one that was overlooked.                                       *)
Excepted(c) == command = "app" /\ Overlooked(session, c)
WrittenInv ==
  Live => \A c \in Cells : c < progress /\ (c > 0 \/ command = "data")
                             => flash[c] = Image(session, c) \/ Excepted(c)

(* That cell is held back, and put in its place by end() only.             *)
FirstInv ==
  Live /\ command = "app" =>
    /\ stash = IF progress > 0 \/ pc \in {"erase", "program"}
               THEN <<Image(session, 0)>> ELSE << >>
    /\ progress > 0 => flash[0] = IF pc = "enabled" THEN Image(session, 0) ELSE Blank

(* A chunk goes to erased cells; and inside a block that was erased as a   *)
(* whole, the rest of the block still is.                                  *)
BlockAfter(o) == (o \div BlockLen + 1) * BlockLen
BlockEnd == BlockAfter(FlashOffset)
InErasedBlock ==
  /\ Live /\ ~Ending /\ ~InHeadBlock /\ ~InTailBlock
  /\ pc = "program" \/ FlashOffset % BlockLen # 0

ErasesInv == pc = "erase" => Erases
ChunkErased ==
  pc = "program" =>
    \A c \in Cells : c \in progress .. progress + Len(buffer) - 1 => flash[c] = Blank
RestErased ==
  InErasedBlock =>
    \A c \in Cells : c >= progress /\ address + c < BlockEnd => flash[c] = Blank

(* What has the magic byte is complete, and not the image being written.   *)
BootInv ==
  kind = "app" /\ HasMagic =>
    /\ flash[0] \in Images \X {0} /\ flash[0][1] <= session
    /\ Holds(flash[0][1])
    /\ Live /\ pc # "enabled" => flash[0][1] # session

IInv ==
  /\ BoolInv /\ ScalarInv /\ DataInv
  /\ ResetInv /\ CallInv /\ CountInv /\ TotalsInv /\ EndInv /\ ChunkInv
  /\ BufferInv /\ WrittenInv /\ FirstInv
  /\ ErasesInv /\ ChunkErased /\ RestErased
  /\ BootInv

-------------------------------------------------------------------------------

(* The two flags keep their type.                                         *)
LEMMA BoolStep ==
  ASSUME BoolInv, [Next]_vars
  PROVE  BoolInv'
<1> USE DEF BoolInv, slot, object, md5, frame, source, Calls, Goes, Returns,
    Reset, Aborts, Idle
<1>1. ASSUME NEW length \in Lengths, NEW known \in BOOLEAN, Begin(length, known)
     PROVE BoolInv'
  BY <1>1 DEF Begin
<1>2. CASE BeginFails  BY <1>2 DEF BeginFails
<1>3. CASE SetMD5  BY <1>3 DEF SetMD5
<1>4. CASE Abort  BY <1>4 DEF Abort
<1>5. CASE ClearError  BY <1>5 DEF ClearError
<1>6. CASE RollBack  BY <1>6 DEF RollBack
<1>7. ASSUME NEW len \in 0 .. PartitionLen, CallWrite(len) PROVE BoolInv'
  BY <1>7 DEF CallWrite
<1>8. CASE CallWritesTooMuch  BY <1>8 DEF CallWritesTooMuch
<1>9. CASE WriteFills  BY <1>9 DEF WriteFills, Takes
<1>10. CASE WriteKeeps  BY <1>10 DEF WriteKeeps, Takes
<1>11. CASE CallStream  BY <1>11 DEF CallStream
<1>12. CASE StreamHasNoMagic  BY <1>12 DEF StreamHasNoMagic
<1>13. ASSUME NEW n \in 1 .. SectorLen, StreamReads(n) PROVE BoolInv'
  BY <1>13 DEF StreamReads, Takes
<1>14. CASE StreamTimesOut  BY <1>14 DEF StreamTimesOut
<1>15. CASE FlushFindsNoMagic  BY <1>15 DEF FlushFindsNoMagic, ReturnsFalse
<1>16. CASE FlushCannotStash  BY <1>16 DEF FlushCannotStash, ReturnsFalse
<1>17. CASE FlushPrepares  BY <1>17 DEF FlushPrepares
<1>18. CASE FlushErases  BY <1>18 DEF FlushErases
<1>19. CASE FlushCannotErase  BY <1>19 DEF FlushCannotErase, ReturnsFalse
<1>20. CASE FlushPrograms  BY <1>20 DEF FlushPrograms, ReturnsTrue
<1>21. CASE FlushCannotProgram  BY <1>21 DEF FlushCannotProgram, ReturnsFalse
<1>22. CASE EndIsPremature  BY <1>22 DEF EndIsPremature
<1>23. CASE EndFlushes  BY <1>23 DEF EndFlushes
<1>24. CASE EndChecks  BY <1>24 DEF EndChecks
<1>25. CASE EndFindsWrongMd5  BY <1>25 DEF EndFindsWrongMd5
<1>26. CASE EndOfData  BY <1>26 DEF EndOfData
<1>27. CASE EndEnables  BY <1>27 DEF EndEnables
<1>28. CASE EndCannotEnable  BY <1>28 DEF EndCannotEnable
<1>29. CASE EndActivates  BY <1>29 DEF EndActivates
<1>30. CASE EndCannotActivate  BY <1>30 DEF EndCannotActivate
<1>31. CASE PowerLoss  BY <1>31 DEF PowerLoss
<1>32. CASE UNCHANGED vars  BY <1>32 DEF vars
<1>33. QED
  BY <1>1, <1>2, <1>3, <1>4, <1>5, <1>6, <1>7, <1>8, <1>9, <1>10, <1>11,
     <1>12, <1>13, <1>14, <1>15, <1>16, <1>17, <1>18, <1>19, <1>20, <1>21,
     <1>22, <1>23, <1>24, <1>25, <1>26, <1>27, <1>28, <1>29, <1>30, <1>31,
     <1>32
  DEF Next

(* An error clears the object.                                             *)
LEMMA ResetStep ==
  ASSUME BoolInv, ResetInv, CallInv, [Next]_vars
  PROVE  ResetInv'
<1> USE DEF BoolInv, ResetInv, CallInv, Ending, Flushing, slot, object, md5,
    frame, source, Calls, Goes, Returns, Reset, Aborts, Idle
<1>1. ASSUME NEW length \in Lengths, NEW known \in BOOLEAN, Begin(length, known)
     PROVE ResetInv'
  BY <1>1 DEF Begin
<1>2. CASE BeginFails  BY <1>2 DEF BeginFails
<1>3. CASE SetMD5  BY <1>3 DEF SetMD5
<1>4. CASE Abort  BY <1>4 DEF Abort
<1>5. CASE ClearError  BY <1>5 DEF ClearError
<1>6. CASE RollBack  BY <1>6 DEF RollBack
<1>7. ASSUME NEW len \in 0 .. PartitionLen, CallWrite(len) PROVE ResetInv'
  BY <1>7 DEF CallWrite
<1>8. CASE CallWritesTooMuch  BY <1>8 DEF CallWritesTooMuch
<1>9. CASE WriteFills  BY <1>9 DEF WriteFills, Takes
<1>10. CASE WriteKeeps  BY <1>10 DEF WriteKeeps, Takes
<1>11. CASE CallStream  BY <1>11 DEF CallStream
<1>12. CASE StreamHasNoMagic  BY <1>12 DEF StreamHasNoMagic
<1>13. ASSUME NEW n \in 1 .. SectorLen, StreamReads(n) PROVE ResetInv'
  BY <1>13 DEF StreamReads, Takes
<1>14. CASE StreamTimesOut  BY <1>14 DEF StreamTimesOut
<1>15. CASE FlushFindsNoMagic  BY <1>15 DEF FlushFindsNoMagic, ReturnsFalse
<1>16. CASE FlushCannotStash  BY <1>16 DEF FlushCannotStash, ReturnsFalse
<1>17. CASE FlushPrepares  BY <1>17 DEF FlushPrepares
<1>18. CASE FlushErases  BY <1>18 DEF FlushErases
<1>19. CASE FlushCannotErase  BY <1>19 DEF FlushCannotErase, ReturnsFalse
<1>20. CASE FlushPrograms  BY <1>20 DEF FlushPrograms, ReturnsTrue
<1>21. CASE FlushCannotProgram  BY <1>21 DEF FlushCannotProgram, ReturnsFalse
<1>22. CASE EndIsPremature  BY <1>22 DEF EndIsPremature
<1>23. CASE EndFlushes  BY <1>23 DEF EndFlushes
<1>24. CASE EndChecks  BY <1>24 DEF EndChecks
<1>25. CASE EndFindsWrongMd5  BY <1>25 DEF EndFindsWrongMd5
<1>26. CASE EndOfData  BY <1>26 DEF EndOfData
<1>27. CASE EndEnables  BY <1>27 DEF EndEnables
<1>28. CASE EndCannotEnable  BY <1>28 DEF EndCannotEnable
<1>29. CASE EndActivates  BY <1>29 DEF EndActivates
<1>30. CASE EndCannotActivate  BY <1>30 DEF EndCannotActivate
<1>31. CASE PowerLoss  BY <1>31 DEF PowerLoss
<1>32. CASE UNCHANGED vars  BY <1>32 DEF vars
<1>33. QED
  BY <1>1, <1>2, <1>3, <1>4, <1>5, <1>6, <1>7, <1>8, <1>9, <1>10, <1>11,
     <1>12, <1>13, <1>14, <1>15, <1>16, <1>17, <1>18, <1>19, <1>20, <1>21,
     <1>22, <1>23, <1>24, <1>25, <1>26, <1>27, <1>28, <1>29, <1>30, <1>31,
     <1>32
  DEF Next

(* Which call is at which step.                                            *)
LEMMA CallStep ==
  ASSUME CallInv, [Next]_vars
  PROVE  CallInv'
<1> USE DEF CallInv, Ending, Flushing, slot, object, md5, frame, source,
    Calls, Goes, Returns, Reset, Aborts, Idle
<1>1. ASSUME NEW length \in Lengths, NEW known \in BOOLEAN, Begin(length, known)
     PROVE CallInv'
  BY <1>1 DEF Begin
<1>2. CASE BeginFails  BY <1>2 DEF BeginFails
<1>3. CASE SetMD5  BY <1>3 DEF SetMD5
<1>4. CASE Abort  BY <1>4 DEF Abort
<1>5. CASE ClearError  BY <1>5 DEF ClearError
<1>6. CASE RollBack  BY <1>6 DEF RollBack
<1>7. ASSUME NEW len \in 0 .. PartitionLen, CallWrite(len) PROVE CallInv'
  BY <1>7 DEF CallWrite
<1>8. CASE CallWritesTooMuch  BY <1>8 DEF CallWritesTooMuch
<1>9. CASE WriteFills  BY <1>9 DEF WriteFills, Takes
<1>10. CASE WriteKeeps  BY <1>10 DEF WriteKeeps, Takes
<1>11. CASE CallStream  BY <1>11 DEF CallStream
<1>12. CASE StreamHasNoMagic  BY <1>12 DEF StreamHasNoMagic
<1>13. ASSUME NEW n \in 1 .. SectorLen, StreamReads(n) PROVE CallInv'
  BY <1>13 DEF StreamReads, Takes
<1>14. CASE StreamTimesOut  BY <1>14 DEF StreamTimesOut
<1>15. CASE FlushFindsNoMagic  BY <1>15 DEF FlushFindsNoMagic, ReturnsFalse
<1>16. CASE FlushCannotStash  BY <1>16 DEF FlushCannotStash, ReturnsFalse
<1>17. CASE FlushPrepares  BY <1>17 DEF FlushPrepares
<1>18. CASE FlushErases  BY <1>18 DEF FlushErases
<1>19. CASE FlushCannotErase  BY <1>19 DEF FlushCannotErase, ReturnsFalse
<1>20. CASE FlushPrograms  BY <1>20 DEF FlushPrograms, ReturnsTrue
<1>21. CASE FlushCannotProgram  BY <1>21 DEF FlushCannotProgram, ReturnsFalse
<1>22. CASE EndIsPremature  BY <1>22 DEF EndIsPremature
<1>23. CASE EndFlushes  BY <1>23 DEF EndFlushes
<1>24. CASE EndChecks  BY <1>24 DEF EndChecks
<1>25. CASE EndFindsWrongMd5  BY <1>25 DEF EndFindsWrongMd5
<1>26. CASE EndOfData  BY <1>26 DEF EndOfData
<1>27. CASE EndEnables  BY <1>27 DEF EndEnables
<1>28. CASE EndCannotEnable  BY <1>28 DEF EndCannotEnable
<1>29. CASE EndActivates  BY <1>29 DEF EndActivates
<1>30. CASE EndCannotActivate  BY <1>30 DEF EndCannotActivate
<1>31. CASE PowerLoss  BY <1>31 DEF PowerLoss
<1>32. CASE UNCHANGED vars  BY <1>32 DEF vars
<1>33. QED
  BY <1>1, <1>2, <1>3, <1>4, <1>5, <1>6, <1>7, <1>8, <1>9, <1>10, <1>11,
     <1>12, <1>13, <1>14, <1>15, <1>16, <1>17, <1>18, <1>19, <1>20, <1>21,
     <1>22, <1>23, <1>24, <1>25, <1>26, <1>27, <1>28, <1>29, <1>30, <1>31,
     <1>32
  DEF Next

(* A cell of an image is a cell, and the first is not blank.               *)
LEMMA ImageIsCell ==
  ASSUME NEW s \in Images, NEW k \in Nat
  PROVE  Image(s, k) \in Cell
BY DEF Image, Cell

LEMMA FirstCell ==
  ASSUME NEW s \in Images
  PROVE  /\ Image(s, 0) = <<s, 0>> /\ Image(s, 0) \notin {Blank, Bad}
         /\ Image(s, 0)[1] = s /\ Image(s, 0)[2] = 0
<1>1. 0 \notin Holes
  BY UpdaterAssumption
<1>2. Image(s, 0) = <<s, 0>>
  BY <1>1 DEF Image
<1>3. s # -1
  BY DEF Images
<1>4. QED
  BY <1>2, <1>3 DEF Blank, Bad

LEMMA BlankAndBad == Blank \in Cell /\ Bad \in Cell /\ Blank # Bad
BY DEF Cell, Blank, Bad

(* Programming a cell gives a cell; on a blank one, the cell programmed.   *)
LEMMA ProgrammedCell ==
  ASSUME NEW old \in Cell, NEW new \in Cell
  PROVE  Programmed(old, new) \in Cell
BY BlankAndBad DEF Programmed

LEMMA ProgrammedOnBlank == \A new : Programmed(Blank, new) = new
BY DEF Programmed

(* What write() and writeStream() do to the buffer and the ghost.          *)
LEMMA TakesCells ==
  ASSUME ScalarInv, DataInv, NEW n \in Nat, Takes(n)
  PROVE  /\ buffer' \in Seq(Cell) /\ Len(buffer') = Len(buffer) + n
         /\ \A i \in 1 .. Len(buffer) : buffer'[i] = buffer[i]
         /\ \A i \in Len(buffer) + 1 .. Len(buffer) + n :
              buffer'[i] = Image(session, total[session] + (i - Len(buffer)) - 1)
         /\ total' \in [Images -> Nat]
         /\ total'[session] = total[session] + n
         /\ \A s \in Images : s # session => total'[s] = total[s]
<1> DEFINE new == [i \in 1 .. n |-> Image(session, total[session] + i - 1)]
<1>1. session \in Images /\ total \in [Images -> Nat] /\ total[session] \in Nat
  BY DEF ScalarInv
<1>2. \A i \in 1 .. n : total[session] + i - 1 \in Nat
  BY <1>1
<1>3. new \in [1 .. n -> Cell]
  BY <1>1, <1>2, ImageIsCell
<1>4. new \in Seq(Cell) /\ Len(new) = n
  BY <1>3
<1>5. buffer \in Seq(Cell) /\ buffer' = buffer \o new
  BY DEF DataInv, Takes
<1>6. /\ buffer' \in Seq(Cell) /\ Len(buffer') = Len(buffer) + n
      /\ \A i \in 1 .. Len(buffer') :
           buffer'[i] = IF i <= Len(buffer) THEN buffer[i] ELSE new[i - Len(buffer)]
  <2> HIDE DEF new
  <2>1. /\ buffer \o new \in Seq(Cell) /\ Len(buffer \o new) = Len(buffer) + Len(new)
        /\ \A i \in 1 .. Len(buffer) + Len(new) :
             (buffer \o new)[i] = IF i <= Len(buffer) THEN buffer[i] ELSE new[i - Len(buffer)]
    BY <1>4, <1>5, ConcatProperties
  <2>2. QED  BY <1>4, <1>5, <2>1
<1>7. Len(buffer) \in Nat
  BY <1>5
<1>8. \A i \in Len(buffer) + 1 .. Len(buffer) + n :
        buffer'[i] = Image(session, total[session] + (i - Len(buffer)) - 1)
  <2>1. TAKE i \in Len(buffer) + 1 .. Len(buffer) + n
  <2>2. i \in 1 .. Len(buffer') /\ ~(i <= Len(buffer)) /\ i - Len(buffer) \in 1 .. n
    BY <1>6, <1>7
  <2>3. buffer'[i] = new[i - Len(buffer)]
    <3> HIDE DEF new
    <3> QED  BY <1>6, <2>2
  <2>4. QED  BY <2>2, <2>3
<1>9. total' = [total EXCEPT ![session] = total[session] + n]
  BY DEF Takes
<1>10. total' \in [Images -> Nat]
  BY <1>1, <1>9
<1>11. QED
  <2> HIDE DEF new
  <2>1. \A i \in 1 .. Len(buffer) : i \in 1 .. Len(buffer') /\ i <= Len(buffer)
    BY <1>6, <1>7
  <2>2. QED  BY <1>1, <1>6, <1>8, <1>9, <1>10, <2>1

LEMMA SmallModulo ==
  ASSUME NEW a \in Nat, NEW b \in Nat, a < b
  PROVE  a % b = a
OBVIOUS

(* While the call may still flush, remaining() is what it says.            *)
LEMMA RemainingIs ==
  ASSUME ScalarInv, DataInv, CountInv, Live, ~Ending
  PROVE  /\ Remaining = size - progress /\ Remaining \in 0 .. PartitionLen
         /\ progress + Len(buffer) <= size
<1>1. Len(buffer) \in Nat /\ session \in Images /\ left \in Nat /\ total[session] \in Nat
  BY DEF ScalarInv, DataInv
<1>2. progress + Len(buffer) <= size
  BY <1>1 DEF ScalarInv, CountInv
<1>3. PartitionLen \in Nat /\ PartitionLen < 65536
  BY UpdaterAssumption DEF Wrap
<1>4. size - progress \in 0 .. PartitionLen
  BY <1>1, <1>2, <1>3 DEF ScalarInv
<1>5. (size - progress) % Wrap = size - progress
  <2> DEFINE x == size - progress
  <2>1. x \in Nat /\ Wrap \in Nat /\ x < Wrap
    BY <1>3, <1>4 DEF Wrap
  <2> HIDE DEF x
  <2>2. x % Wrap = x
    BY <2>1, SmallModulo
  <2>3. QED  BY <2>2 DEF x
<1>6. QED
  BY <1>2, <1>4, <1>5 DEF Remaining

(* What begin() sets when it succeeds.                                     *)
LEMMA BeginSets ==
  ASSUME ScalarInv, NEW length \in Lengths, NEW known \in BOOLEAN, Begin(length, known)
  PROVE  /\ size' \in {length, PartitionLen} /\ length \in 1 .. PartitionLen
         /\ progress' = 0 /\ buffer' = << >> /\ stash' = << >> /\ digest' = << >>
         /\ pc' = "idle" /\ left' = left /\ call' = call /\ error' = FALSE
         /\ session' \in Images /\ session' > session /\ session' # session
         /\ want' = length /\ command' = kind
         /\ UNCHANGED <<kind, address, flash, boot, total>>
<1>1. length \in 1 .. PartitionLen
  BY UpdaterAssumption
<1>2. session \in 0 .. MaxSessions /\ session < MaxSessions /\ session' = session + 1
  BY DEF ScalarInv, Begin, Images
<1>3. session' \in Images /\ session' > session /\ session' # session
  BY <1>2, UpdaterAssumption DEF Images
<1>4. size' \in {length, PartitionLen}
  BY DEF Begin
<1>5. QED
  BY <1>1, <1>3, <1>4 DEF Begin, frame, slot

(* Totals of other images do not change.                                   *)
LEMMA TotalsStep ==
  ASSUME ScalarInv, DataInv, CountInv, TotalsInv,
    CallInv, ResetInv, [Next]_vars
  PROVE  TotalsInv'
<1> USE UpdaterAssumption DEF ScalarInv, TotalsInv, Images, CallInv, slot,
    object, md5, frame, source, Calls, Goes, Returns, Reset, Aborts, Idle
<1>1. ASSUME NEW length \in Lengths, NEW known \in BOOLEAN, Begin(length, known)
     PROVE TotalsInv'
  BY <1>1 DEF Begin
<1>2. CASE BeginFails  BY <1>2 DEF BeginFails
<1>3. CASE SetMD5  BY <1>3 DEF SetMD5
<1>4. CASE Abort  BY <1>4 DEF Abort
<1>5. CASE ClearError  BY <1>5 DEF ClearError
<1>6. CASE RollBack  BY <1>6 DEF RollBack
<1>7. ASSUME NEW len \in 0 .. PartitionLen, CallWrite(len) PROVE TotalsInv'
  BY <1>7 DEF CallWrite
<1>8. CASE CallWritesTooMuch  BY <1>8 DEF CallWritesTooMuch
<1>9. CASE WriteFills
  <2>1. SectorLen - Len(buffer) \in Nat /\ Takes(SectorLen - Len(buffer)) /\ Len(buffer) \in Nat
    BY <1>9 DEF WriteFills, DataInv, ScalarInv
  <2>2. /\ Len(buffer') = Len(buffer) + SectorLen - Len(buffer)
        /\ total' \in [Images -> Nat] /\ total'[session] = total[session] + SectorLen - Len(buffer)
        /\ \A s \in Images : s # session => total'[s] = total[s]
    BY <2>1, TakesCells
  <2>3. UNCHANGED <<error, size, progress, command, stash, session, want>>
    BY <2>1 DEF Takes
  <2>4. session > 0 /\ session' = session
    BY <1>9, <2>3 DEF WriteFills, CountInv, Live, ResetInv
  <2>5. 0 \in Images /\ \A s \in Images : s > session => s # session
    BY <2>4
  <2>6. QED  BY <2>2, <2>4, <2>5
<1>10. CASE WriteKeeps
  <2>1. left \in Nat /\ Takes(left) /\ Len(buffer) \in Nat
    BY <1>10 DEF WriteKeeps, DataInv, ScalarInv
  <2>2. /\ Len(buffer') = Len(buffer) + left
        /\ total' \in [Images -> Nat] /\ total'[session] = total[session] + left
        /\ \A s \in Images : s # session => total'[s] = total[s]
    BY <2>1, TakesCells
  <2>3. UNCHANGED <<error, size, progress, command, stash, session, want>>
    BY <2>1 DEF Takes
  <2>4. session > 0 /\ session' = session
    BY <1>10, <2>3 DEF WriteKeeps, CountInv, Live, ResetInv
  <2>5. 0 \in Images /\ \A s \in Images : s > session => s # session
    BY <2>4
  <2>6. QED  BY <2>2, <2>4, <2>5
<1>11. CASE CallStream  BY <1>11 DEF CallStream
<1>12. CASE StreamHasNoMagic  BY <1>12 DEF StreamHasNoMagic
<1>13. ASSUME NEW n \in 1 .. SectorLen, StreamReads(n) PROVE TotalsInv'
  <2>1. n \in Nat /\ Takes(n) /\ Len(buffer) \in Nat
    BY <1>13 DEF StreamReads, DataInv, ScalarInv
  <2>2. /\ Len(buffer') = Len(buffer) + n
        /\ total' \in [Images -> Nat] /\ total'[session] = total[session] + n
        /\ \A s \in Images : s # session => total'[s] = total[s]
    BY <2>1, TakesCells
  <2>3. UNCHANGED <<error, size, progress, command, stash, session, want>>
    BY <2>1 DEF Takes
  <2>4. session > 0 /\ session' = session
    BY <1>13, <2>3 DEF StreamReads, CountInv, Live, ResetInv
  <2>5. 0 \in Images /\ \A s \in Images : s > session => s # session
    BY <2>4
  <2>6. QED  BY <2>2, <2>4, <2>5
<1>14. CASE StreamTimesOut  BY <1>14 DEF StreamTimesOut
<1>15. CASE FlushFindsNoMagic  BY <1>15 DEF FlushFindsNoMagic, ReturnsFalse
<1>16. CASE FlushCannotStash  BY <1>16 DEF FlushCannotStash, ReturnsFalse
<1>17. CASE FlushPrepares  BY <1>17 DEF FlushPrepares
<1>18. CASE FlushErases  BY <1>18 DEF FlushErases
<1>19. CASE FlushCannotErase  BY <1>19 DEF FlushCannotErase, ReturnsFalse
<1>20. CASE FlushPrograms  BY <1>20 DEF FlushPrograms, ReturnsTrue
<1>21. CASE FlushCannotProgram  BY <1>21 DEF FlushCannotProgram, ReturnsFalse
<1>22. CASE EndIsPremature  BY <1>22 DEF EndIsPremature
<1>23. CASE EndFlushes  BY <1>23 DEF EndFlushes
<1>24. CASE EndChecks  BY <1>24 DEF EndChecks
<1>25. CASE EndFindsWrongMd5  BY <1>25 DEF EndFindsWrongMd5
<1>26. CASE EndOfData  BY <1>26 DEF EndOfData
<1>27. CASE EndEnables  BY <1>27 DEF EndEnables
<1>28. CASE EndCannotEnable  BY <1>28 DEF EndCannotEnable
<1>29. CASE EndActivates  BY <1>29 DEF EndActivates
<1>30. CASE EndCannotActivate  BY <1>30 DEF EndCannotActivate
<1>31. CASE PowerLoss  BY <1>31 DEF PowerLoss
<1>32. CASE UNCHANGED vars  BY <1>32 DEF vars
<1>33. QED
  BY <1>1, <1>2, <1>3, <1>4, <1>5, <1>6, <1>7, <1>8, <1>9, <1>10, <1>11,
     <1>12, <1>13, <1>14, <1>15, <1>16, <1>17, <1>18, <1>19, <1>20, <1>21,
     <1>22, <1>23, <1>24, <1>25, <1>26, <1>27, <1>28, <1>29, <1>30, <1>31,
     <1>32
  DEF Next

(* No more is handed over than was announced.                              *)
LEMMA CountStep ==
  ASSUME ~Surplus, ScalarInv, DataInv, ResetInv, CallInv,
    TotalsInv, CountInv, [Next]_vars
  PROVE  CountInv'
<1> USE UpdaterAssumption DEF ScalarInv, DataInv, ResetInv, CallInv,
    TotalsInv, CountInv, Live, Ending, Flushing, slot, object, md5, frame,
    source, Calls, Goes, Returns, Reset, Aborts, Idle
<1>1. ASSUME NEW length \in Lengths, NEW known \in BOOLEAN, Begin(length, known)
     PROVE CountInv'
  <2>1. /\ size' \in {length, PartitionLen} /\ length \in 1 .. PartitionLen
        /\ progress' = 0 /\ buffer' = << >> /\ digest' = << >> /\ left' = left
        /\ session' \in Images /\ session' > session /\ want' = length
        /\ command' = kind /\ UNCHANGED <<kind, total>>
    BY <1>1, BeginSets
  <2>2. total[session'] = 0
    <3>1. \A s \in Images : s > session => total[s] = 0
      OBVIOUS
    <3>2. QED  BY <2>1, <3>1
  <2>3. left = 0 /\ Len(buffer') = 0 /\ Len(digest') = 0
    BY <1>1, <2>1 DEF Begin
  <2>4. session' > 0
    BY <2>1 DEF Images
  <2>5. QED  BY <2>1, <2>2, <2>3, <2>4, UpdaterAssumption
<1>2. CASE BeginFails  BY <1>2 DEF BeginFails
<1>3. CASE SetMD5  BY <1>3 DEF SetMD5
<1>4. CASE Abort  BY <1>4 DEF Abort
<1>5. CASE ClearError  BY <1>5 DEF ClearError
<1>6. CASE RollBack  BY <1>6 DEF RollBack
<1>7. ASSUME NEW len \in 0 .. PartitionLen, CallWrite(len) PROVE CountInv'
  BY <1>7 DEF CallWrite, Supply
<1>8. CASE CallWritesTooMuch  BY <1>8 DEF CallWritesTooMuch
<1>9. CASE WriteFills
  <2>1. SectorLen - Len(buffer) \in Nat /\ Takes(SectorLen - Len(buffer)) /\ Len(buffer) \in Nat
    BY <1>9 DEF WriteFills, DataInv, ScalarInv
  <2>2. /\ Len(buffer') = Len(buffer) + SectorLen - Len(buffer)
        /\ total' \in [Images -> Nat] /\ total'[session] = total[session] + SectorLen - Len(buffer)
        /\ \A s \in Images : s # session => total'[s] = total[s]
    BY <2>1, TakesCells
  <2>3. UNCHANGED <<error, size, progress, command, stash, session, want>>
    BY <2>1 DEF Takes
  <2>4. QED  BY <1>9, <2>1, <2>2, <2>3 DEF WriteFills, Supply
<1>10. CASE WriteKeeps
  <2>1. left \in Nat /\ Takes(left) /\ Len(buffer) \in Nat
    BY <1>10 DEF WriteKeeps, DataInv, ScalarInv
  <2>2. /\ Len(buffer') = Len(buffer) + left
        /\ total' \in [Images -> Nat] /\ total'[session] = total[session] + left
        /\ \A s \in Images : s # session => total'[s] = total[s]
    BY <2>1, TakesCells
  <2>3. UNCHANGED <<error, size, progress, command, stash, session, want>>
    BY <2>1 DEF Takes
  <2>4. QED  BY <1>10, <2>1, <2>2, <2>3 DEF WriteKeeps, Supply
<1>11. CASE CallStream  BY <1>11 DEF CallStream
<1>12. CASE StreamHasNoMagic  BY <1>12 DEF StreamHasNoMagic
<1>13. ASSUME NEW n \in 1 .. SectorLen, StreamReads(n) PROVE CountInv'
  <2>1. n \in Nat /\ Takes(n) /\ Len(buffer) \in Nat
    BY <1>13 DEF StreamReads, DataInv, ScalarInv
  <2>2. /\ Len(buffer') = Len(buffer) + n
        /\ total' \in [Images -> Nat] /\ total'[session] = total[session] + n
        /\ \A s \in Images : s # session => total'[s] = total[s]
    BY <2>1, TakesCells
  <2>3. UNCHANGED <<error, size, progress, command, stash, session, want>>
    BY <2>1 DEF Takes
  <2>4. QED  BY <1>13, <2>1, <2>2, <2>3 DEF StreamReads, Supply
<1>14. CASE StreamTimesOut  BY <1>14 DEF StreamTimesOut
<1>15. CASE FlushFindsNoMagic  BY <1>15 DEF FlushFindsNoMagic, ReturnsFalse
<1>16. CASE FlushCannotStash  BY <1>16 DEF FlushCannotStash, ReturnsFalse
<1>17. CASE FlushPrepares  BY <1>17 DEF FlushPrepares
<1>18. CASE FlushErases  BY <1>18 DEF FlushErases
<1>19. CASE FlushCannotErase  BY <1>19 DEF FlushCannotErase, ReturnsFalse
<1>20. CASE FlushPrograms
  <2>1. Live /\ ~Ending /\ Len(buffer) \in Nat /\ Len(digest) \in Nat
    <3>1. pc = "program"
      BY <1>20 DEF FlushPrograms
    <3>2. Len(buffer) \in Nat /\ Len(digest) \in Nat
      OBVIOUS
    <3>3. QED  BY <3>1, <3>2
  <2>2. Len(digest') = Len(digest) + Len(buffer) /\ Len(buffer') = 0
    <3>1. digest' = digest \o buffer /\ buffer' = << >>
      BY <1>20 DEF FlushPrograms
    <3>2. digest \in Seq(Cell) /\ buffer \in Seq(Cell)
      OBVIOUS
    <3>3. Len(digest \o buffer) = Len(digest) + Len(buffer) /\ Len(<< >>) = 0
      BY <3>2, ConcatProperties, EmptySeq
    <3>4. QED  BY <3>1, <3>3
  <2>3. left' \in {0, left} /\ (~Ending' => size' = size)
    BY <1>20 DEF FlushPrograms, ReturnsTrue
  <2>4. total[session] = progress' + Len(buffer') /\ Len(digest') = progress'
    <3>1. progress' = progress + Len(buffer)
      BY <1>20 DEF FlushPrograms
    <3>2. total[session] = progress + Len(buffer) /\ Len(digest) = progress
      BY <2>1
    <3>3. QED  BY <2>1, <2>2, <3>1, <3>2
  <2>5. total[session] \in Nat /\ total[session] + left' <= want
    BY <2>1, <2>3
  <2>6. QED  BY <1>20, <2>1, <2>3, <2>4, <2>5 DEF FlushPrograms
<1>21. CASE FlushCannotProgram  BY <1>21 DEF FlushCannotProgram, ReturnsFalse
<1>22. CASE EndIsPremature  BY <1>22 DEF EndIsPremature
<1>23. CASE EndFlushes  BY <1>23 DEF EndFlushes
<1>24. CASE EndChecks  BY <1>24 DEF EndChecks
<1>25. CASE EndFindsWrongMd5  BY <1>25 DEF EndFindsWrongMd5
<1>26. CASE EndOfData  BY <1>26 DEF EndOfData
<1>27. CASE EndEnables  BY <1>27 DEF EndEnables
<1>28. CASE EndCannotEnable  BY <1>28 DEF EndCannotEnable
<1>29. CASE EndActivates  BY <1>29 DEF EndActivates
<1>30. CASE EndCannotActivate  BY <1>30 DEF EndCannotActivate
<1>31. CASE PowerLoss  BY <1>31 DEF PowerLoss
<1>32. CASE UNCHANGED vars  BY <1>32 DEF vars
<1>33. QED
  BY <1>1, <1>2, <1>3, <1>4, <1>5, <1>6, <1>7, <1>8, <1>9, <1>10, <1>11,
     <1>12, <1>13, <1>14, <1>15, <1>16, <1>17, <1>18, <1>19, <1>20, <1>21,
     <1>22, <1>23, <1>24, <1>25, <1>26, <1>27, <1>28, <1>29, <1>30, <1>31,
     <1>32
  DEF Next

(* The scalars keep their types.                                           *)
LEMMA ScalarStep ==
  ASSUME ~Surplus, ScalarInv, DataInv, ResetInv, CallInv,
    CountInv, [Next]_vars
  PROVE  ScalarInv'
<1> USE UpdaterAssumption DEF ScalarInv, Images, slot, object, md5, frame,
    source, Calls, Goes, Returns, Reset, Aborts, Idle
<1>1. ASSUME NEW length \in Lengths, NEW known \in BOOLEAN, Begin(length, known)
     PROVE ScalarInv'
  BY <1>1 DEF Begin
<1>2. CASE BeginFails  BY <1>2 DEF BeginFails
<1>3. CASE SetMD5  BY <1>3 DEF SetMD5
<1>4. CASE Abort  BY <1>4 DEF Abort
<1>5. CASE ClearError  BY <1>5 DEF ClearError
<1>6. CASE RollBack  BY <1>6 DEF RollBack
<1>7. ASSUME NEW len \in 0 .. PartitionLen, CallWrite(len) PROVE ScalarInv'
  BY <1>7 DEF CallWrite
<1>8. CASE CallWritesTooMuch  BY <1>8 DEF CallWritesTooMuch
<1>9. CASE WriteFills
  <2>1. SectorLen - Len(buffer) \in Nat /\ Takes(SectorLen - Len(buffer)) /\ Len(buffer) \in Nat
    BY <1>9 DEF WriteFills, DataInv
  <2>2. total' \in [Images -> Nat]
    BY <2>1, TakesCells
  <2>3. UNCHANGED <<error, size, progress, command, stash, session, want>>
    BY <2>1 DEF Takes
  <2>4. left' \in 0 .. PartitionLen /\ pc' = "flush" /\ call' = call
    BY <1>9, <2>1 DEF WriteFills
  <2>5. QED  BY <1>9, <2>2, <2>3, <2>4 DEF WriteFills
<1>10. CASE WriteKeeps
  <2>1. left \in Nat /\ Takes(left)
    BY <1>10 DEF WriteKeeps
  <2>2. total' \in [Images -> Nat]
    BY <2>1, TakesCells
  <2>3. UNCHANGED <<error, size, progress, command, stash, session, want>>
    BY <2>1 DEF Takes
  <2>4. left' = 0 /\ pc' \in {"flush", "idle"} /\ call' \in {"write", "none"}
    BY <1>10 DEF WriteKeeps
  <2>5. QED  BY <1>10, <2>2, <2>3, <2>4 DEF WriteKeeps
<1>11. CASE CallStream  BY <1>11 DEF CallStream
<1>12. CASE StreamHasNoMagic  BY <1>12 DEF StreamHasNoMagic
<1>13. ASSUME NEW n \in 1 .. SectorLen, StreamReads(n) PROVE ScalarInv'
  <2>1. n \in Nat /\ Takes(n) /\ Len(buffer) \in Nat
    BY <1>13 DEF StreamReads, DataInv, ScalarInv
  <2>2. /\ Len(buffer') = Len(buffer) + n
        /\ total' \in [Images -> Nat] /\ total'[session] = total[session] + n
        /\ \A s \in Images : s # session => total'[s] = total[s]
    BY <2>1, TakesCells
  <2>3. UNCHANGED <<error, size, progress, command, stash, session, want>>
    BY <2>1 DEF Takes
  <2>4. QED  BY <1>13, <2>1, <2>2, <2>3 DEF StreamReads, Supply, CountInv
<1>14. CASE StreamTimesOut  BY <1>14 DEF StreamTimesOut
<1>15. CASE FlushFindsNoMagic  BY <1>15 DEF FlushFindsNoMagic, ReturnsFalse
<1>16. CASE FlushCannotStash  BY <1>16 DEF FlushCannotStash, ReturnsFalse
<1>17. CASE FlushPrepares  BY <1>17 DEF FlushPrepares
<1>18. CASE FlushErases  BY <1>18 DEF FlushErases
<1>19. CASE FlushCannotErase  BY <1>19 DEF FlushCannotErase, ReturnsFalse
<1>20. CASE FlushPrograms
  <2>1. Live /\ ~Ending /\ Len(buffer) \in Nat
    BY <1>20 DEF FlushPrograms, Live, Ending, ResetInv, DataInv
  <2>2. progress' \in 0 .. PartitionLen
    BY <1>20, <2>1 DEF FlushPrograms, CountInv
  <2>3. left' \in {0, left} /\ size' \in {size, progress'}
    BY <1>20 DEF FlushPrograms, ReturnsTrue
  <2>4. pc' \in {"idle", "fill", "read", "check"} /\ call' \in {call, "none"}
    BY <1>20 DEF FlushPrograms, ReturnsTrue
  <2>5. UNCHANGED <<kind, address, boot, command, session, want, total>>
    BY <1>20 DEF FlushPrograms
  <2>6. QED  BY <2>2, <2>3, <2>4, <2>5
<1>21. CASE FlushCannotProgram  BY <1>21 DEF FlushCannotProgram, ReturnsFalse
<1>22. CASE EndIsPremature  BY <1>22 DEF EndIsPremature
<1>23. CASE EndFlushes  BY <1>23 DEF EndFlushes
<1>24. CASE EndChecks  BY <1>24 DEF EndChecks
<1>25. CASE EndFindsWrongMd5  BY <1>25 DEF EndFindsWrongMd5
<1>26. CASE EndOfData  BY <1>26 DEF EndOfData
<1>27. CASE EndEnables  BY <1>27 DEF EndEnables
<1>28. CASE EndCannotEnable  BY <1>28 DEF EndCannotEnable
<1>29. CASE EndActivates  BY <1>29 DEF EndActivates
<1>30. CASE EndCannotActivate  BY <1>30 DEF EndCannotActivate
<1>31. CASE PowerLoss  BY <1>31 DEF PowerLoss
<1>32. CASE UNCHANGED vars  BY <1>32 DEF vars
<1>33. QED
  BY <1>1, <1>2, <1>3, <1>4, <1>5, <1>6, <1>7, <1>8, <1>9, <1>10, <1>11,
     <1>12, <1>13, <1>14, <1>15, <1>16, <1>17, <1>18, <1>19, <1>20, <1>21,
     <1>22, <1>23, <1>24, <1>25, <1>26, <1>27, <1>28, <1>29, <1>30, <1>31,
     <1>32
  DEF Next

(* end() goes on with an empty buffer, or has nothing held back.           *)
LEMMA EndStep ==
  ASSUME ~Surplus, ScalarInv, DataInv, ResetInv, CallInv,
    CountInv, EndInv, [Next]_vars
  PROVE  EndInv'
<1> USE UpdaterAssumption DEF EndInv, Live, Ending, CallInv, Flushing, slot,
    object, md5, frame, source, Calls, Goes, Returns, Reset, Aborts, Idle
<1>1. ASSUME NEW length \in Lengths, NEW known \in BOOLEAN, Begin(length, known)
     PROVE EndInv'
  BY <1>1 DEF Begin
<1>2. CASE BeginFails  BY <1>2 DEF BeginFails
<1>3. CASE SetMD5  BY <1>3 DEF SetMD5
<1>4. CASE Abort  BY <1>4 DEF Abort
<1>5. CASE ClearError  BY <1>5 DEF ClearError
<1>6. CASE RollBack  BY <1>6 DEF RollBack
<1>7. ASSUME NEW len \in 0 .. PartitionLen, CallWrite(len) PROVE EndInv'
  BY <1>7 DEF CallWrite
<1>8. CASE CallWritesTooMuch  BY <1>8 DEF CallWritesTooMuch
<1>9. CASE WriteFills  BY <1>9 DEF WriteFills, Takes
<1>10. CASE WriteKeeps  BY <1>10 DEF WriteKeeps, Takes
<1>11. CASE CallStream  BY <1>11 DEF CallStream
<1>12. CASE StreamHasNoMagic  BY <1>12 DEF StreamHasNoMagic
<1>13. ASSUME NEW n \in 1 .. SectorLen, StreamReads(n) PROVE EndInv'
  BY <1>13 DEF StreamReads, Takes
<1>14. CASE StreamTimesOut  BY <1>14 DEF StreamTimesOut
<1>15. CASE FlushFindsNoMagic  BY <1>15 DEF FlushFindsNoMagic, ReturnsFalse
<1>16. CASE FlushCannotStash  BY <1>16 DEF FlushCannotStash, ReturnsFalse, FirstOfFirmware
<1>17. CASE FlushPrepares  BY <1>17 DEF FlushPrepares
<1>18. CASE FlushErases  BY <1>18 DEF FlushErases
<1>19. CASE FlushCannotErase  BY <1>19 DEF FlushCannotErase, ReturnsFalse
<1>20. CASE FlushPrograms  BY <1>20 DEF FlushPrograms, ReturnsTrue, DataInv
<1>21. CASE FlushCannotProgram  BY <1>21 DEF FlushCannotProgram, ReturnsFalse
<1>22. CASE EndIsPremature  BY <1>22 DEF EndIsPremature
<1>23. CASE EndFlushes  BY <1>23 DEF EndFlushes
<1>24. CASE EndChecks  BY <1>24 DEF EndChecks, CountInv, DataInv, ScalarInv
<1>25. CASE EndFindsWrongMd5  BY <1>25 DEF EndFindsWrongMd5
<1>26. CASE EndOfData  BY <1>26 DEF EndOfData
<1>27. CASE EndEnables  BY <1>27 DEF EndEnables
<1>28. CASE EndCannotEnable  BY <1>28 DEF EndCannotEnable
<1>29. CASE EndActivates  BY <1>29 DEF EndActivates
<1>30. CASE EndCannotActivate  BY <1>30 DEF EndCannotActivate
<1>31. CASE PowerLoss  BY <1>31 DEF PowerLoss
<1>32. CASE UNCHANGED vars  BY <1>32 DEF vars
<1>33. QED
  BY <1>1, <1>2, <1>3, <1>4, <1>5, <1>6, <1>7, <1>8, <1>9, <1>10, <1>11,
     <1>12, <1>13, <1>14, <1>15, <1>16, <1>17, <1>18, <1>19, <1>20, <1>21,
     <1>22, <1>23, <1>24, <1>25, <1>26, <1>27, <1>28, <1>29, <1>30, <1>31,
     <1>32
  DEF Next

(* Erasing, programming, and what either leaves when it is cut off.        *)
LEMMA ErasedCells ==
  ASSUME ScalarInv, DataInv, NEW n \in Int
  PROVE  /\ Erased(n) \in [Cells -> Cell]
         /\ \A c \in Cells : c < progress \/ c >= progress + n => Erased(n)[c] = flash[c]
         /\ \A c \in Cells : c >= progress /\ c < progress + n => Erased(n)[c] = Blank
<1>1. Erased(n) = [c \in Cells |-> IF c \in progress .. progress + n - 1 THEN Blank ELSE flash[c]]
  BY DEF Erased
<1>2. \A c \in Cells : flash[c] \in Cell
  BY DEF DataInv
<1>3. Erased(n) \in [Cells -> Cell]
  BY <1>1, <1>2, BlankAndBad
<1>4. progress \in Int /\ \A c \in Cells : c \in Int
  BY DEF ScalarInv, Cells
<1>5. \A c \in Cells : Erased(n)[c] = IF c \in progress .. progress + n - 1 THEN Blank ELSE flash[c]
  BY <1>1
<1>6. QED
  BY <1>3, <1>4, <1>5

LEMMA EraseLenIs == EraseLen \in Nat \ {0} /\ BlockLen \in Nat \ {0} /\ SectorLen <= EraseLen
<1>1. SectorLen \in Nat \ {0} /\ BlockSectors \in Nat \ {0}
  BY UpdaterAssumption
<1>2. BlockLen \in Nat \ {0} /\ SectorLen <= BlockLen
  BY <1>1 DEF BlockLen
<1>3. QED
  BY <1>1, <1>2 DEF EraseLen

LEMMA CutEraseCells ==
  ASSUME ScalarInv, DataInv, NEW f \in CutErase
  PROVE  /\ f \in [Cells -> Cell]
         /\ \A c \in Cells : c < progress => f[c] = flash[c]
         /\ f = flash \/ (progress \in Cells => f[progress] \in {Blank, Bad})
<1>1. CASE f = flash
  BY <1>1 DEF DataInv
<1>2. CASE f # flash
  <2>1. PICK n \in 0 .. EraseLen - 1 :
          f = [c \in Cells |-> IF c \in progress + n .. progress + n + SectorLen - 1
                               THEN Bad ELSE Erased(n)[c]]
    BY <1>2 DEF CutErase
  <2>2. n \in Nat /\ SectorLen \in Nat \ {0} /\ progress \in Nat
    BY EraseLenIs, UpdaterAssumption DEF ScalarInv
  <2>3. \A c \in Cells : c \in Int /\ Erased(n)[c] \in Cell
    <3>1. n \in Int /\ Erased(n) \in [Cells -> Cell]
      BY <2>2, ErasedCells
    <3>2. QED  BY <3>1 DEF Cells
  <2>4. f \in [Cells -> Cell]
    BY <2>1, <2>3, BlankAndBad
  <2>5. \A c \in Cells : f[c] = IF c \in progress + n .. progress + n + SectorLen - 1
                                THEN Bad ELSE Erased(n)[c]
    BY <2>1
  <2>6. \A c \in Cells : c < progress => f[c] = flash[c]
    BY <2>2, <2>3, <2>5, ErasedCells
  <2>7. progress \in Cells => f[progress] \in {Blank, Bad}
    <3>1. CASE n = 0
      BY <2>2, <2>5, <3>1
    <3>2. CASE n # 0
      <4>1. progress \in Cells => Erased(n)[progress] = Blank
        BY <2>2, <3>2, ErasedCells
      <4>2. QED  BY <2>2, <2>5, <4>1
    <3>3. QED  BY <3>1, <3>2
  <2>8. QED  BY <2>4, <2>6, <2>7
<1>3. QED
  BY <1>1, <1>2

(* The chunk is what the buffer holds behind the cell held back.           *)
LEMMA ChunkIs ==
  ASSUME ScalarInv, DataInv, ChunkInv, Flushing
  PROVE  /\ Skip \in {0, 1} /\ Skip <= Len(buffer)
         /\ Chunk \in Seq(Cell) /\ Len(Chunk) = Len(buffer) - Skip
         /\ \A i \in 1 .. Len(Chunk) : Chunk[i] = buffer[i + Skip]
         /\ Skip = 1 <=> FirstOfFirmware
<1>1. Len(buffer) \in Nat /\ buffer \in Seq(Cell) /\ (buffer # << >> => Len(buffer) > 0)
  BY EmptySeq DEF DataInv
<1>2. Skip \in {0, 1} /\ (Skip = 1 <=> FirstOfFirmware)
  BY DEF Skip
<1>3. Skip <= Len(buffer)
  BY <1>1, <1>2 DEF ChunkInv, FirstOfFirmware
<1>4. Skip + 1 \in 1 .. Len(buffer) + 1 /\ Len(buffer) \in Skip + 1 - 1 .. Len(buffer)
  BY <1>1, <1>2, <1>3
<1>5. /\ Chunk \in Seq(Cell) /\ Len(Chunk) = Len(buffer) - (Skip + 1) + 1
      /\ \A i \in 1 .. Len(buffer) - (Skip + 1) + 1 : Chunk[i] = buffer[Skip + 1 + i - 1]
  <2> DEFINE m == Skip + 1
  <2>1. m \in 1 .. Len(buffer) + 1 /\ Len(buffer) \in m - 1 .. Len(buffer)
    BY <1>4
  <2>2. Chunk = SubSeq(buffer, m, Len(buffer))
    BY DEF Chunk
  <2> HIDE DEF m
  <2>3. /\ Chunk \in Seq(Cell) /\ Len(Chunk) = Len(buffer) - m + 1
        /\ \A i \in 1 .. Len(buffer) - m + 1 : Chunk[i] = buffer[m + i - 1]
    BY <1>1, <2>1, <2>2, SubSeqProperties
  <2>4. QED  BY <2>3 DEF m
<1>6. \A i \in 1 .. Len(Chunk) : Chunk[i] = buffer[i + Skip]
  <2>1. TAKE i \in 1 .. Len(Chunk)
  <2>2. Skip + 1 + i - 1 = i + Skip
    BY <1>1, <1>2, <1>5
  <2>3. QED  BY <1>5, <2>2
<1>7. Len(Chunk) = Len(buffer) - Skip
  BY <1>1, <1>2, <1>5
<1>8. QED
  BY <1>2, <1>3, <1>5, <1>6, <1>7

LEMMA WithChunkCells ==
  ASSUME ScalarInv, DataInv, ChunkInv, Flushing, NEW n \in 0 .. Len(Chunk)
  PROVE  /\ WithChunk(n) \in [Cells -> Cell]
         /\ \A c \in Cells : c < progress + Skip \/ c >= progress + Skip + n
                               => WithChunk(n)[c] = flash[c]
         /\ \A c \in Cells : c >= progress + Skip /\ c < progress + Skip + n
                               => WithChunk(n)[c] = Programmed(flash[c], buffer[c - progress + 1])
<1>1. /\ progress \in Nat /\ Skip \in {0, 1} /\ Len(Chunk) \in Nat /\ n \in Nat
      /\ \A c \in Cells : c \in Int /\ flash[c] \in Cell
  <2>1. Skip \in {0, 1} /\ Chunk \in Seq(Cell)
    BY ChunkIs
  <2>2. QED  BY <2>1 DEF ScalarInv, DataInv, Cells
<1>2. \A c \in Cells : c \in progress + Skip .. progress + Skip + n - 1
        => /\ c - progress - Skip + 1 \in 1 .. Len(Chunk)
           /\ c - progress - Skip + 1 + Skip = c - progress + 1
  BY <1>1
<1>3. \A c \in Cells : c \in progress + Skip .. progress + Skip + n - 1
        => /\ Chunk[c - progress - Skip + 1] = buffer[c - progress + 1]
           /\ Chunk[c - progress - Skip + 1] \in Cell
  <2>1. SUFFICES ASSUME NEW c \in Cells, NEW i, i = c - progress - Skip + 1,
                        c \in progress + Skip .. progress + Skip + n - 1
                 PROVE  Chunk[i] = buffer[c - progress + 1] /\ Chunk[i] \in Cell
    OBVIOUS
  <2>2. i \in 1 .. Len(Chunk) /\ i + Skip = c - progress + 1
    BY <1>2, <2>1
  <2>3. Chunk \in Seq(Cell) /\ Chunk[i] = buffer[i + Skip]
    BY <2>2, ChunkIs
  <2>4. QED  BY <2>2, <2>3, ElementOfSeq
<1>4. WithChunk(n) \in [Cells -> Cell]
  BY <1>1, <1>3, ProgrammedCell DEF WithChunk
<1>5. \A c \in Cells : WithChunk(n)[c] =
        IF c \in progress + Skip .. progress + Skip + n - 1
        THEN Programmed(flash[c], Chunk[c - progress - Skip + 1]) ELSE flash[c]
  BY DEF WithChunk
<1>6. \A c \in Cells : WithChunk(n)[c] =
        IF c \in progress + Skip .. progress + Skip + n - 1
        THEN Programmed(flash[c], buffer[c - progress + 1]) ELSE flash[c]
  BY <1>3, <1>5
<1>7. QED
  BY <1>1, <1>4, <1>6

LEMMA CutFlashCells ==
  ASSUME ScalarInv, DataInv, ChunkInv, NEW f \in CutFlash
  PROVE  f \in [Cells -> Cell]
<1>1. CASE pc = "erase" /\ CanErase
  <2>1. f \in CutErase
    BY <1>1 DEF CutFlash
  <2>2. QED  BY <2>1, CutEraseCells
<1>2. CASE pc = "program" /\ HasData /\ CanProgram
  <2>1. PICK n \in 0 .. Len(Chunk) : f = WithChunk(n)
    BY <1>2 DEF CutFlash
  <2>2. QED  BY <1>2, <2>1, WithChunkCells DEF Flushing
<1>3. CASE ~(pc = "erase" /\ CanErase) /\ ~(pc = "program" /\ HasData /\ CanProgram)
  <2>1. f = flash
    BY <1>3 DEF CutFlash
  <2>2. QED  BY <2>1 DEF DataInv
<1>4. QED
  BY <1>1, <1>2, <1>3

(* The flash and the buffers hold cells, no more than they can.            *)
LEMMA DataStep ==
  ASSUME ScalarInv, DataInv, ResetInv, CallInv, CountInv,
    ChunkInv, [Next]_vars
  PROVE  DataInv'
<1> USE UpdaterAssumption DEF DataInv, slot, object, md5, frame, source,
    Calls, Goes, Returns, Reset, Aborts, Idle
<1>1. ASSUME NEW length \in Lengths, NEW known \in BOOLEAN, Begin(length, known)
     PROVE DataInv'
  BY <1>1 DEF Begin
<1>2. CASE BeginFails  BY <1>2 DEF BeginFails
<1>3. CASE SetMD5  BY <1>3 DEF SetMD5
<1>4. CASE Abort  BY <1>4 DEF Abort
<1>5. CASE ClearError  BY <1>5 DEF ClearError
<1>6. CASE RollBack  BY <1>6 DEF RollBack
<1>7. ASSUME NEW len \in 0 .. PartitionLen, CallWrite(len) PROVE DataInv'
  BY <1>7 DEF CallWrite
<1>8. CASE CallWritesTooMuch  BY <1>8 DEF CallWritesTooMuch
<1>9. CASE WriteFills
  <2>1. SectorLen - Len(buffer) \in Nat /\ Takes(SectorLen - Len(buffer)) /\ Len(buffer) \in Nat
    BY <1>9 DEF WriteFills, ScalarInv
  <2>2. buffer' \in Seq(Cell) /\ Len(buffer') = Len(buffer) + SectorLen - Len(buffer)
    BY <2>1, TakesCells
  <2>3. Len(buffer) + SectorLen - Len(buffer) <= SectorLen
    BY <1>9, <2>1 DEF WriteFills
  <2>4. UNCHANGED <<stash, flash, digest>>
    BY <1>9, <2>1 DEF WriteFills, Takes
  <2>5. QED  BY <2>2, <2>3, <2>4
<1>10. CASE WriteKeeps
  <2>1. left \in Nat /\ Takes(left) /\ Len(buffer) \in Nat
    BY <1>10 DEF WriteKeeps, ScalarInv
  <2>2. buffer' \in Seq(Cell) /\ Len(buffer') = Len(buffer) + left
    BY <2>1, TakesCells
  <2>3. Len(buffer) + left <= SectorLen
    BY <1>10, <2>1 DEF WriteKeeps
  <2>4. UNCHANGED <<stash, flash, digest>>
    BY <1>10, <2>1 DEF WriteKeeps, Takes
  <2>5. QED  BY <2>2, <2>3, <2>4
<1>11. CASE CallStream  BY <1>11 DEF CallStream
<1>12. CASE StreamHasNoMagic  BY <1>12 DEF StreamHasNoMagic
<1>13. ASSUME NEW n \in 1 .. SectorLen, StreamReads(n) PROVE DataInv'
  <2>1. n \in Nat /\ Takes(n) /\ Len(buffer) \in Nat
    BY <1>13 DEF StreamReads, ScalarInv
  <2>2. buffer' \in Seq(Cell) /\ Len(buffer') = Len(buffer) + n
    BY <2>1, TakesCells
  <2>3. Len(buffer) + n <= SectorLen
    <3>1. Remaining = size - progress /\ Remaining \in Nat
      BY <1>13, RemainingIs DEF StreamReads, Live, Ending, ResetInv
    <3>2. QED  BY <1>13, <2>1, <3>1 DEF StreamReads, BytesToRead
  <2>4. UNCHANGED <<stash, flash, digest>>
    BY <1>13, <2>1 DEF StreamReads, Takes
  <2>5. QED  BY <2>2, <2>3, <2>4
<1>14. CASE StreamTimesOut  BY <1>14 DEF StreamTimesOut
<1>15. CASE FlushFindsNoMagic  BY <1>15 DEF FlushFindsNoMagic, ReturnsFalse
<1>16. CASE FlushCannotStash  BY <1>16 DEF FlushCannotStash, ReturnsFalse
<1>17. CASE FlushPrepares
  <2>1. ASSUME FirstOfFirmware PROVE <<buffer[1]>> \in Seq(Cell) /\ Len(<<buffer[1]>>) = 1
    <3>1. buffer # << >>
      BY <1>17, <2>1 DEF FlushPrepares, ChunkInv, Flushing, FirstOfFirmware, ScalarInv
    <3>2. 1 \in 1 .. Len(buffer)
      BY <3>1, EmptySeq
    <3>3. buffer[1] \in Cell
      BY <3>2, ElementOfSeq
    <3>4. QED  BY <3>3
  <2>2. stash' \in Seq(Cell) /\ Len(stash') <= 1
    BY <1>17, <2>1 DEF FlushPrepares
  <2>3. QED  BY <1>17, <2>2 DEF FlushPrepares
<1>18. CASE FlushErases
  <2>1. Erased(EraseLen) \in [Cells -> Cell]
    BY ErasedCells, EraseLenIs
  <2>2. QED  BY <1>18, <2>1 DEF FlushErases
<1>19. CASE FlushCannotErase
  <2>1. flash' \in [Cells -> Cell]
    BY <1>19, CutEraseCells DEF FlushCannotErase
  <2>2. QED  BY <1>19, <2>1 DEF FlushCannotErase
<1>20. CASE FlushPrograms
  <2>1. WithChunk(Len(Chunk)) \in [Cells -> Cell]
    <3>1. Flushing
      BY <1>20 DEF FlushPrograms, Flushing
    <3>2. Len(Chunk) \in 0 .. Len(Chunk)
      BY <3>1, ChunkIs
    <3>3. QED  BY <3>1, <3>2, WithChunkCells
  <2>2. flash' \in [Cells -> Cell]
    BY <1>20, <2>1 DEF FlushPrograms
  <2>3. digest' \in Seq(Cell) /\ buffer' = << >> /\ stash' = stash
    BY <1>20, ConcatProperties DEF FlushPrograms
  <2>4. QED  BY <2>2, <2>3
<1>21. CASE FlushCannotProgram
  <2>1. Flushing /\ Len(Chunk) \in Nat
    <3>1. Flushing
      BY <1>21 DEF FlushCannotProgram, Flushing
    <3>2. QED  BY <3>1, ChunkIs
  <2>2. PICK n \in 0 .. Len(Chunk) : flash' = WithChunk(n)
    BY <1>21, <2>1 DEF FlushCannotProgram
  <2>3. flash' \in [Cells -> Cell]
    BY <2>1, <2>2, WithChunkCells
  <2>4. QED  BY <1>21, <2>3 DEF FlushCannotProgram
<1>22. CASE EndIsPremature  BY <1>22 DEF EndIsPremature
<1>23. CASE EndFlushes  BY <1>23 DEF EndFlushes
<1>24. CASE EndChecks  BY <1>24 DEF EndChecks
<1>25. CASE EndFindsWrongMd5  BY <1>25 DEF EndFindsWrongMd5
<1>26. CASE EndOfData  BY <1>26 DEF EndOfData
<1>27. CASE EndEnables
  <2>1. stash[1] \in Cell
    BY <1>27, EmptySeq, ElementOfSeq DEF EndEnables
  <2>2. 0 \in Cells
    BY DEF Cells
  <2>3. Programmed(flash[0], stash[1]) \in Cell
    BY <2>1, <2>2, ProgrammedCell
  <2>4. flash' \in [Cells -> Cell]
    BY <1>27, <2>3 DEF EndEnables
  <2>5. QED  BY <1>27, <2>4 DEF EndEnables
<1>28. CASE EndCannotEnable  BY <1>28 DEF EndCannotEnable
<1>29. CASE EndActivates  BY <1>29 DEF EndActivates
<1>30. CASE EndCannotActivate  BY <1>30 DEF EndCannotActivate
<1>31. CASE PowerLoss
  <2>1. [c \in Cells |-> Image(0, c)] \in [Cells -> Cell]
    <3>1. 0 \in Images /\ \A c \in Cells : c \in Nat
      BY DEF Images, Cells
    <3>2. QED  BY <3>1, ImageIsCell
  <2>2. flash' \in [Cells -> Cell]
    BY <1>31, <2>1, CutFlashCells DEF PowerLoss
  <2>3. QED  BY <1>31, <2>2 DEF PowerLoss
<1>32. CASE UNCHANGED vars  BY <1>32 DEF vars
<1>33. QED
  BY <1>1, <1>2, <1>3, <1>4, <1>5, <1>6, <1>7, <1>8, <1>9, <1>10, <1>11,
     <1>12, <1>13, <1>14, <1>15, <1>16, <1>17, <1>18, <1>19, <1>20, <1>21,
     <1>22, <1>23, <1>24, <1>25, <1>26, <1>27, <1>28, <1>29, <1>30, <1>31,
     <1>32
  DEF Next

LEMMA SectorModulo ==
  ASSUME NEW b \in Nat \ {0}
  PROVE  0 % b = 0 /\ \A a \in Nat : a % b = 0 => (a + b) % b = 0
<1>1. ASSUME NEW q \in Nat PROVE (q * b) % b = 0
  BY SMT
<1>2. ASSUME NEW a \in Nat, a % b = 0 PROVE (a + b) % b = 0
  <2>1. PICK q \in Nat : a = q * b
    <3>1. a \div b \in Nat /\ a = (a \div b) * b
      BY <1>2, SMT
    <3>2. QED  BY <3>1
  <2>2. PICK r \in Nat : a + b = r * b
    <3>1. q + 1 \in Nat /\ a + b = (q + 1) * b
      BY <2>1, SMT
    <3>2. QED  BY <3>1
  <2>3. (r * b) % b = 0
    BY <1>1
  <2>4. QED  BY <2>2, <2>3
<1>3. 0 % b = 0
  <2>1. 0 * b = 0
    BY SMT
  <2>2. QED  BY <1>1, <2>1
<1>4. QED
  BY <1>2, <1>3

(* Chunks are whole sectors up to the last one.                            *)
LEMMA ChunkStep ==
  ASSUME ScalarInv, DataInv, ResetInv, CallInv, CountInv,
    ChunkInv, [Next]_vars
  PROVE  ChunkInv'
<1> USE DEF ChunkInv, Live, Ending, Flushing, slot, object, md5, frame,
    source, Calls, Goes, Returns, Reset, Aborts, Idle
<1>1. ASSUME NEW length \in Lengths, NEW known \in BOOLEAN, Begin(length, known)
     PROVE ChunkInv'
  <2>1. progress' = 0 /\ pc' = "idle"
    BY <1>1, BeginSets
  <2>2. 0 % SectorLen = 0
    BY SectorModulo, UpdaterAssumption
  <2>3. QED  BY <2>1, <2>2
<1>2. CASE BeginFails  BY <1>2 DEF BeginFails
<1>3. CASE SetMD5  BY <1>3 DEF SetMD5
<1>4. CASE Abort  BY <1>4 DEF Abort
<1>5. CASE ClearError  BY <1>5 DEF ClearError, ResetInv
<1>6. CASE RollBack  BY <1>6 DEF RollBack
<1>7. ASSUME NEW len \in 0 .. PartitionLen, CallWrite(len) PROVE ChunkInv'
  BY <1>7 DEF CallWrite
<1>8. CASE CallWritesTooMuch  BY <1>8 DEF CallWritesTooMuch
<1>9. CASE WriteFills
  <2>1. SectorLen - Len(buffer) \in Nat /\ Takes(SectorLen - Len(buffer)) /\ Len(buffer) \in Nat
    BY <1>9, UpdaterAssumption DEF WriteFills, ScalarInv, DataInv
  <2>2. /\ Len(buffer') = Len(buffer) + SectorLen - Len(buffer)
        /\ UNCHANGED <<error, size, progress>>
    BY <2>1, TakesCells DEF Takes
  <2>3. (pc' = "flush" => Len(buffer') > 0) => (pc' = "flush" => buffer' # << >>)
    OBVIOUS
  <2>4. QED  BY <1>9, <2>1, <2>2, <2>3, UpdaterAssumption DEF WriteFills, ScalarInv, DataInv, ResetInv
<1>10. CASE WriteKeeps
  <2>1. left \in Nat /\ Takes(left) /\ Len(buffer) \in Nat
    BY <1>10, UpdaterAssumption DEF WriteKeeps, ScalarInv, DataInv
  <2>2. /\ Len(buffer') = Len(buffer) + left
        /\ UNCHANGED <<error, size, progress>>
    BY <2>1, TakesCells DEF Takes
  <2>3. (pc' = "flush" => Len(buffer') > 0) => (pc' = "flush" => buffer' # << >>)
    OBVIOUS
  <2>4. Remaining = size - progress
    BY <1>10, RemainingIs DEF WriteKeeps, ResetInv
  <2>5. QED  BY <1>10, <2>1, <2>2, <2>3, <2>4 DEF WriteKeeps, ScalarInv, ResetInv, CallInv
<1>11. CASE CallStream  BY <1>11 DEF CallStream
<1>12. CASE StreamHasNoMagic  BY <1>12 DEF StreamHasNoMagic
<1>13. ASSUME NEW n \in 1 .. SectorLen, StreamReads(n) PROVE ChunkInv'
  <2>1. n \in Nat /\ Takes(n) /\ Len(buffer) \in Nat
    BY <1>13, UpdaterAssumption DEF StreamReads, ScalarInv, DataInv
  <2>2. /\ Len(buffer') = Len(buffer) + n
        /\ UNCHANGED <<error, size, progress>>
    BY <2>1, TakesCells DEF Takes
  <2>3. (pc' = "flush" => Len(buffer') > 0) => (pc' = "flush" => buffer' # << >>)
    OBVIOUS
  <2>4. Remaining = size - progress
    BY <1>13, RemainingIs DEF StreamReads, ResetInv
  <2>5. QED  BY <1>13, <2>1, <2>2, <2>3, <2>4 DEF StreamReads, ResetInv
<1>14. CASE StreamTimesOut  BY <1>14 DEF StreamTimesOut
<1>15. CASE FlushFindsNoMagic  BY <1>15 DEF FlushFindsNoMagic, ReturnsFalse
<1>16. CASE FlushCannotStash  BY <1>16 DEF FlushCannotStash, ReturnsFalse, CallInv
<1>17. CASE FlushPrepares  BY <1>17 DEF FlushPrepares
<1>18. CASE FlushErases  BY <1>18 DEF FlushErases
<1>19. CASE FlushCannotErase  BY <1>19 DEF FlushCannotErase, ReturnsFalse
<1>20. CASE FlushPrograms
  <2>1. /\ Live /\ ~Ending /\ Len(buffer) \in Nat /\ progress \in Nat /\ size \in Nat
        /\ progress' = progress + Len(buffer)
    BY <1>20 DEF FlushPrograms, ResetInv, DataInv, ScalarInv
  <2>2. progress + Len(buffer) <= size /\ SectorLen \in Nat \ {0}
    BY <2>1, RemainingIs, UpdaterAssumption
  <2>3. /\ pc' \notin {"flush", "erase", "program"}
        /\ call = "end" => pc' = "check"
        /\ call # "end" => size' = size
    BY <1>20 DEF FlushPrograms, ReturnsTrue
  <2>4. ASSUME call # "end" PROVE progress' = size \/ progress' % SectorLen = 0
    <3>1. CASE Len(buffer) = size - progress
      BY <2>1, <3>1
    <3>2. CASE Len(buffer) = SectorLen
      <4>1. progress % SectorLen = 0
        BY <2>1, <2>2, <3>2
      <4>2. QED  BY <2>1, <2>2, <3>2, <4>1, SectorModulo
    <3>3. QED  BY <1>20, <2>4, <3>1, <3>2 DEF FlushPrograms
  <2>5. QED  BY <2>3, <2>4
<1>21. CASE FlushCannotProgram  BY <1>21 DEF FlushCannotProgram, ReturnsFalse
<1>22. CASE EndIsPremature  BY <1>22 DEF EndIsPremature
<1>23. CASE EndFlushes  BY <1>23 DEF EndFlushes
<1>24. CASE EndChecks  BY <1>24 DEF EndChecks
<1>25. CASE EndFindsWrongMd5  BY <1>25 DEF EndFindsWrongMd5
<1>26. CASE EndOfData  BY <1>26 DEF EndOfData
<1>27. CASE EndEnables  BY <1>27 DEF EndEnables
<1>28. CASE EndCannotEnable  BY <1>28 DEF EndCannotEnable
<1>29. CASE EndActivates  BY <1>29 DEF EndActivates
<1>30. CASE EndCannotActivate  BY <1>30 DEF EndCannotActivate
<1>31. CASE PowerLoss  BY <1>31 DEF PowerLoss
<1>32. CASE UNCHANGED vars  BY <1>32 DEF vars
<1>33. QED
  BY <1>1, <1>2, <1>3, <1>4, <1>5, <1>6, <1>7, <1>8, <1>9, <1>10, <1>11,
     <1>12, <1>13, <1>14, <1>15, <1>16, <1>17, <1>18, <1>19, <1>20, <1>21,
     <1>22, <1>23, <1>24, <1>25, <1>26, <1>27, <1>28, <1>29, <1>30, <1>31,
     <1>32
  DEF Next

(* More of the image into the buffer continues what is there.              *)
LEMMA BufferTakes ==
  ASSUME ScalarInv, DataInv, CountInv, BufferInv, Live, NEW n \in Nat, Takes(n)
  PROVE  BufferInv'
<1>1. /\ Len(buffer) \in Nat /\ progress \in Nat /\ Len(buffer') = Len(buffer) + n
      /\ total[session] = progress + Len(buffer)
      /\ session' = session /\ progress' = progress
  BY TakesCells DEF ScalarInv, DataInv, CountInv, Takes
<1>2. SUFFICES ASSUME NEW i \in 1 .. Len(buffer')
               PROVE  buffer'[i] = Image(session, progress + i - 1)
  BY <1>1 DEF BufferInv
<1>3. CASE i \in 1 .. Len(buffer)
  BY <1>3, TakesCells DEF BufferInv
<1>4. CASE i \in Len(buffer) + 1 .. Len(buffer) + n
  <2>1. buffer'[i] = Image(session, total[session] + (i - Len(buffer)) - 1)
    BY <1>4, TakesCells
  <2>2. total[session] + (i - Len(buffer)) - 1 = progress + i - 1
    BY <1>1
  <2>3. QED  BY <2>1, <2>2
<1>5. QED
  BY <1>1, <1>3, <1>4

(* The buffer holds the image from _progress on.                           *)
LEMMA BufferStep ==
  ASSUME ScalarInv, DataInv, ResetInv, CallInv, CountInv,
    ChunkInv, BufferInv, [Next]_vars
  PROVE  BufferInv'
<1> USE DEF slot, object, md5, frame, source, Calls, Goes, Returns, Reset,
    Aborts, Idle
<1>1. ASSUME NEW length \in Lengths, NEW known \in BOOLEAN, Begin(length, known)
     PROVE BufferInv'
  <2>1. buffer' = << >>
    BY <1>1, BeginSets
  <2>2. 1 .. Len(buffer') = {}
    BY <2>1
  <2>3. QED  BY <2>2 DEF BufferInv
<1>2. CASE BeginFails  BY <1>2 DEF BeginFails, BufferInv, Live, Ending, ResetInv
<1>3. CASE SetMD5  BY <1>3 DEF SetMD5, BufferInv, Live, Ending, ResetInv
<1>4. CASE Abort  BY <1>4 DEF Abort, BufferInv, Live, Ending, ResetInv
<1>5. CASE ClearError  BY <1>5 DEF ClearError, BufferInv, Live, Ending, ResetInv
<1>6. CASE RollBack  BY <1>6 DEF RollBack, BufferInv, Live, Ending, ResetInv
<1>7. ASSUME NEW len \in 0 .. PartitionLen, CallWrite(len) PROVE BufferInv'
  BY <1>7 DEF CallWrite, BufferInv, Live, Ending, ResetInv
<1>8. CASE CallWritesTooMuch  BY <1>8 DEF CallWritesTooMuch, BufferInv, Live, Ending, ResetInv
<1>9. CASE WriteFills
  <2>1. SectorLen - Len(buffer) \in Nat /\ Takes(SectorLen - Len(buffer))
    BY <1>9, UpdaterAssumption DEF WriteFills, ScalarInv, DataInv
  <2>2. UNCHANGED <<error, size, progress, session>> /\ Live
    BY <1>9, <2>1 DEF WriteFills, Takes, Live, ResetInv
  <2>3. QED  BY <2>1, <2>2, BufferTakes
<1>10. CASE WriteKeeps
  <2>1. left \in Nat /\ Takes(left)
    BY <1>10, UpdaterAssumption DEF WriteKeeps, ScalarInv, DataInv
  <2>2. UNCHANGED <<error, size, progress, session>> /\ Live
    BY <1>10, <2>1 DEF WriteKeeps, Takes, Live, ResetInv
  <2>3. QED  BY <2>1, <2>2, BufferTakes
<1>11. CASE CallStream  BY <1>11 DEF CallStream, BufferInv, Live, Ending, ResetInv
<1>12. CASE StreamHasNoMagic  BY <1>12 DEF StreamHasNoMagic, BufferInv, Live, Ending, ResetInv
<1>13. ASSUME NEW n \in 1 .. SectorLen, StreamReads(n) PROVE BufferInv'
  <2>1. n \in Nat /\ Takes(n)
    BY <1>13, UpdaterAssumption DEF StreamReads, ScalarInv, DataInv
  <2>2. UNCHANGED <<error, size, progress, session>> /\ Live
    BY <1>13, <2>1 DEF StreamReads, Takes, Live, ResetInv
  <2>3. QED  BY <2>1, <2>2, BufferTakes
<1>14. CASE StreamTimesOut  BY <1>14 DEF StreamTimesOut, BufferInv, Live, Ending, ResetInv
<1>15. CASE FlushFindsNoMagic
  BY <1>15 DEF FlushFindsNoMagic, ReturnsFalse, BufferInv, Live, Ending, ResetInv
<1>16. CASE FlushCannotStash
  BY <1>16 DEF FlushCannotStash, ReturnsFalse, BufferInv, Live, Ending, ResetInv
<1>17. CASE FlushPrepares  BY <1>17 DEF FlushPrepares, BufferInv, Live, Ending, ResetInv
<1>18. CASE FlushErases  BY <1>18 DEF FlushErases, BufferInv, Live, Ending, ResetInv
<1>19. CASE FlushCannotErase
  BY <1>19 DEF FlushCannotErase, ReturnsFalse, BufferInv, Live, Ending, ResetInv
<1>20. CASE FlushPrograms
  <2>1. buffer' = << >> /\ 1 .. Len(buffer') = {}
    BY <1>20 DEF FlushPrograms
  <2>2. QED  BY <2>1 DEF BufferInv
<1>21. CASE FlushCannotProgram
  BY <1>21 DEF FlushCannotProgram, ReturnsFalse, BufferInv, Live, Ending, ResetInv
<1>22. CASE EndIsPremature  BY <1>22 DEF EndIsPremature, BufferInv, Live, Ending, ResetInv
<1>23. CASE EndFlushes  BY <1>23 DEF EndFlushes, BufferInv, Live, Ending, ResetInv
<1>24. CASE EndChecks  BY <1>24 DEF EndChecks, BufferInv, Live, Ending, ResetInv
<1>25. CASE EndFindsWrongMd5  BY <1>25 DEF EndFindsWrongMd5, BufferInv, Live, Ending, ResetInv
<1>26. CASE EndOfData  BY <1>26 DEF EndOfData, BufferInv, Live, Ending, ResetInv
<1>27. CASE EndEnables  BY <1>27 DEF EndEnables, BufferInv, Live, Ending, ResetInv
<1>28. CASE EndCannotEnable  BY <1>28 DEF EndCannotEnable, BufferInv, Live, Ending, ResetInv
<1>29. CASE EndActivates  BY <1>29 DEF EndActivates, BufferInv, Live, Ending, ResetInv
<1>30. CASE EndCannotActivate  BY <1>30 DEF EndCannotActivate, BufferInv, Live, Ending, ResetInv
<1>31. CASE PowerLoss  BY <1>31 DEF PowerLoss, BufferInv, Live, Ending, ResetInv
<1>32. CASE UNCHANGED vars  BY <1>32 DEF vars, BufferInv, Live, Ending, ResetInv
<1>33. QED
  BY <1>1, <1>2, <1>3, <1>4, <1>5, <1>6, <1>7, <1>8, <1>9, <1>10, <1>11,
     <1>12, <1>13, <1>14, <1>15, <1>16, <1>17, <1>18, <1>19, <1>20, <1>21,
     <1>22, <1>23, <1>24, <1>25, <1>26, <1>27, <1>28, <1>29, <1>30, <1>31,
     <1>32
  DEF Next

(* Programming a chunk on erased cells leaves the image there, but for the *)
(* cell held back; a chunk of ones needs no programming.                   *)
LEMMA ChunkWritten ==
  ASSUME ScalarInv, DataInv, ResetInv, CountInv, ChunkInv, BufferInv, ChunkErased, FlushPrograms
  PROVE  /\ \A c \in Cells : c < progress + Skip \/ c >= progress + Len(buffer)
                               => flash'[c] = flash[c]
         /\ \A c \in Cells : c >= progress + Skip /\ c < progress + Len(buffer)
                               => flash'[c] = Image(session, c) \/ Excepted(c)
<1>1. pc = "program" /\ Flushing /\ Live
  BY DEF FlushPrograms, Flushing, Live, ResetInv
<1>2. /\ progress \in Nat /\ Skip \in {0, 1} /\ Len(buffer) \in Nat /\ Skip <= Len(buffer)
      /\ Len(Chunk) = Len(buffer) - Skip /\ Len(Chunk) \in 0 .. Len(Chunk)
      /\ \A i \in 1 .. Len(Chunk) : Chunk[i] = buffer[i + Skip]
  <2>1. /\ Skip \in {0, 1} /\ Skip <= Len(buffer) /\ Chunk \in Seq(Cell)
        /\ Len(Chunk) = Len(buffer) - Skip
        /\ \A i \in 1 .. Len(Chunk) : Chunk[i] = buffer[i + Skip]
    BY <1>1, ChunkIs
  <2>2. progress \in Nat /\ Len(buffer) \in Nat
    BY DEF ScalarInv, DataInv
  <2>3. Len(Chunk) \in 0 .. Len(Chunk)
    BY <2>1, <2>2
  <2>4. QED  BY <2>1, <2>2, <2>3
<1>3. \A c \in Cells : c \in Nat
  BY DEF Cells
<1>4. \A c \in Cells : c >= progress /\ c < progress + Len(buffer)
        => flash[c] = Blank /\ buffer[c - progress + 1] = Image(session, c)
  <2>1. SUFFICES ASSUME NEW c \in Cells, c >= progress, c < progress + Len(buffer)
                 PROVE  flash[c] = Blank /\ buffer[c - progress + 1] = Image(session, c)
    OBVIOUS
  <2>2. c \in progress .. progress + Len(buffer) - 1
    BY <1>2, <1>3, <2>1
  <2>3. flash[c] = Blank
    BY <1>1, <2>2 DEF ChunkErased
  <2>4. PICK i \in 1 .. Len(buffer) : i = c - progress + 1
    BY <1>2, <1>3, <2>1
  <2>5. progress + i - 1 = c
    BY <1>2, <1>3, <2>4
  <2>6. buffer[i] = Image(session, progress + i - 1)
    BY <1>1 DEF BufferInv
  <2>7. QED  BY <2>3, <2>4, <2>5, <2>6
<1>5. CASE HasData
  <2>1. flash' = WithChunk(Len(Chunk))
    BY <1>5 DEF FlushPrograms
  <2>2. \A c \in Cells :
          /\ c < progress + Skip \/ c >= progress + Skip + Len(Chunk) => flash'[c] = flash[c]
          /\ c >= progress + Skip /\ c < progress + Skip + Len(Chunk)
               => flash'[c] = Programmed(flash[c], buffer[c - progress + 1])
    BY <1>1, <1>2, <2>1, WithChunkCells
  <2>3. progress + Skip + Len(Chunk) = progress + Len(buffer)
    BY <1>2
  <2>4. \A c \in Cells : c >= progress + Skip => c >= progress
    BY <1>2, <1>3
  <2>5. QED  BY <1>4, <2>2, <2>3, <2>4, ProgrammedOnBlank
<1>6. CASE ~HasData /\ ~FirstOfFirmware
  <2>1. flash' = flash /\ \A i \in 1 .. Len(Chunk) : Chunk[i] = Blank
    BY <1>6 DEF FlushPrograms, HasData
  <2>2. ASSUME NEW c \in Cells, c >= progress + Skip, c < progress + Len(buffer)
        PROVE  flash[c] = Image(session, c)
    <3>1. PICK i \in 1 .. Len(Chunk) : i + Skip = c - progress + 1
      <4>1. c - progress - Skip + 1 \in 1 .. Len(Chunk)
        BY <1>2, <1>3, <2>2
      <4>2. c - progress - Skip + 1 + Skip = c - progress + 1
        BY <1>2, <1>3
      <4>3. QED  BY <4>1, <4>2
    <3>2. buffer[c - progress + 1] = Blank
      BY <1>2, <2>1, <3>1
    <3>3. c >= progress
      BY <1>2, <1>3, <2>2
    <3>4. QED  BY <1>4, <2>2, <3>2, <3>3
  <2>3. QED  BY <2>1, <2>2
<1>7. CASE ~HasData /\ FirstOfFirmware
  <2>1. /\ flash' = flash /\ session \in Headless /\ Chunk # << >>
        /\ \A i \in 2 .. Len(buffer) - 1 : buffer[i] = Blank
        /\ FirstWordIsBlank(buffer[Len(buffer)])
    BY <1>7 DEF FlushPrograms, HasData
  <2>2. /\ progress = 0 /\ command = "app" /\ Skip = 1
    BY <1>7 DEF FirstOfFirmware, Skip
  <2>3. Len(buffer) <= SectorLen /\ SectorLen \in Nat
    BY UpdaterAssumption DEF ScalarInv, DataInv
  <2>4. ASSUME NEW c \in Cells, c >= 1, c < Len(buffer)
        PROVE  flash[c] = Image(session, c) \/ Excepted(c)
    <3>1. flash[c] = Blank /\ buffer[c - progress + 1] = Image(session, c)
      BY <1>2, <1>3, <1>4, <2>2, <2>4
    <3>2. flash[c] = Blank /\ buffer[c + 1] = Image(session, c) /\ c \in Nat
      BY <1>3, <2>2, <3>1
    <3>3. CASE c + 1 \in 2 .. Len(buffer) - 1
      BY <2>1, <3>2, <3>3
    <3>4. CASE c + 1 = Len(buffer)
      <4>1. FirstWordIsBlank(Image(session, c))
        BY <2>1, <3>2, <3>4
      <4>2. CASE Image(session, c) = Blank
        BY <3>2, <4>2
      <4>3. CASE Image(session, c) # Blank
        <5>1. Image(session, c) = <<session, c>> /\ c \in Ragged
          BY <4>1, <4>3 DEF FirstWordIsBlank, Image
        <5>2. c < SectorLen
          BY <1>2, <2>3, <2>4, <3>2
        <5>3. QED  BY <2>1, <2>2, <5>1, <5>2 DEF Excepted, Overlooked
      <4>4. QED  BY <4>2, <4>3
    <3>5. QED  BY <1>2, <2>4, <3>2, <3>3, <3>4
  <2>5. QED  BY <1>2, <1>3, <2>1, <2>2, <2>4
<1>8. QED
  BY <1>5, <1>6, <1>7

(* The flash holds the image up to _progress.                              *)
LEMMA WrittenStep ==
  ASSUME ScalarInv, DataInv, ResetInv, CallInv,
    CountInv, ChunkInv, BufferInv, ChunkErased, WrittenInv, [Next]_vars
  PROVE  WrittenInv'
<1> USE DEF slot, object, md5, frame, source, Calls, Goes, Returns, Reset,
    Aborts, Idle, Excepted
<1>1. ASSUME NEW length \in Lengths, NEW known \in BOOLEAN, Begin(length, known)
     PROVE WrittenInv'
  <2>1. progress' = 0
    BY <1>1, BeginSets
  <2>2. \A c \in Cells : ~(c < 0)
    BY DEF Cells
  <2>3. QED  BY <2>1, <2>2 DEF WrittenInv
<1>2. CASE BeginFails  BY <1>2 DEF BeginFails, WrittenInv, Live, Ending, ResetInv
<1>3. CASE SetMD5  BY <1>3 DEF SetMD5, WrittenInv, Live, Ending, ResetInv
<1>4. CASE Abort  BY <1>4 DEF Abort, WrittenInv, Live, Ending, ResetInv
<1>5. CASE ClearError  BY <1>5 DEF ClearError, WrittenInv, Live, Ending, ResetInv
<1>6. CASE RollBack  BY <1>6 DEF RollBack, WrittenInv, Live, Ending, ResetInv
<1>7. ASSUME NEW len \in 0 .. PartitionLen, CallWrite(len) PROVE WrittenInv'
  BY <1>7 DEF CallWrite, WrittenInv, Live, Ending, ResetInv
<1>8. CASE CallWritesTooMuch  BY <1>8 DEF CallWritesTooMuch, WrittenInv, Live, Ending, ResetInv
<1>9. CASE WriteFills  BY <1>9 DEF WriteFills, Takes, WrittenInv, Live, Ending, ResetInv
<1>10. CASE WriteKeeps  BY <1>10 DEF WriteKeeps, Takes, WrittenInv, Live, Ending, ResetInv
<1>11. CASE CallStream  BY <1>11 DEF CallStream, WrittenInv, Live, Ending, ResetInv
<1>12. CASE StreamHasNoMagic  BY <1>12 DEF StreamHasNoMagic, WrittenInv, Live, Ending, ResetInv
<1>13. ASSUME NEW n \in 1 .. SectorLen, StreamReads(n) PROVE WrittenInv'
  BY <1>13 DEF StreamReads, Takes, WrittenInv, Live, Ending, ResetInv
<1>14. CASE StreamTimesOut  BY <1>14 DEF StreamTimesOut, WrittenInv, Live, Ending, ResetInv
<1>15. CASE FlushFindsNoMagic
  BY <1>15 DEF FlushFindsNoMagic, ReturnsFalse, WrittenInv, Live, Ending, ResetInv
<1>16. CASE FlushCannotStash
  BY <1>16 DEF FlushCannotStash, ReturnsFalse, WrittenInv, Live, Ending, ResetInv
<1>17. CASE FlushPrepares  BY <1>17 DEF FlushPrepares, WrittenInv, Live, Ending, ResetInv
<1>18. CASE FlushErases
  <2>1. \A c \in Cells : c < progress => flash'[c] = flash[c]
    BY <1>18, ErasedCells, EraseLenIs DEF FlushErases
  <2>2. QED  BY <1>18, <2>1 DEF FlushErases, WrittenInv, Live
<1>19. CASE FlushCannotErase
  BY <1>19 DEF FlushCannotErase, ReturnsFalse, WrittenInv, Live, Ending, ResetInv
<1>20. CASE FlushPrograms
  <2>1. /\ progress' = progress + Len(buffer) /\ session' = session /\ command' = command
        /\ progress \in Nat /\ Len(buffer) \in Nat /\ Live
    BY <1>20 DEF FlushPrograms, ScalarInv, DataInv, Live, ResetInv
  <2>2. SUFFICES ASSUME NEW c \in Cells, c < progress', c > 0 \/ command = "data"
                 PROVE  flash'[c] = Image(session, c) \/ Excepted(c)
    BY <2>1 DEF WrittenInv, Excepted
  <2>3. c \in Nat /\ Skip \in {0, 1} /\ (Skip = 1 <=> FirstOfFirmware)
    <3>1. Flushing
      BY <1>20 DEF FlushPrograms, Flushing
    <3>2. QED  BY <3>1, ChunkIs DEF Cells
  <2>4. CASE c >= progress + Skip
    BY <1>20, <2>1, <2>2, <2>4, ChunkWritten
  <2>5. CASE c < progress + Skip
    <3>1. c < progress
      BY <2>1, <2>2, <2>3, <2>5 DEF FirstOfFirmware
    <3>2. flash'[c] = flash[c]
      BY <1>20, <2>5, ChunkWritten
    <3>3. QED  BY <2>1, <2>2, <3>1, <3>2 DEF WrittenInv
  <2>6. QED  BY <2>1, <2>3, <2>4, <2>5
<1>21. CASE FlushCannotProgram
  BY <1>21 DEF FlushCannotProgram, ReturnsFalse, WrittenInv, Live, Ending, ResetInv
<1>22. CASE EndIsPremature  BY <1>22 DEF EndIsPremature, WrittenInv, Live, Ending, ResetInv
<1>23. CASE EndFlushes  BY <1>23 DEF EndFlushes, WrittenInv, Live, Ending, ResetInv
<1>24. CASE EndChecks  BY <1>24 DEF EndChecks, WrittenInv, Live, Ending, ResetInv
<1>25. CASE EndFindsWrongMd5  BY <1>25 DEF EndFindsWrongMd5, WrittenInv, Live, Ending, ResetInv
<1>26. CASE EndOfData  BY <1>26 DEF EndOfData, WrittenInv, Live, Ending, ResetInv
<1>27. CASE EndEnables
  <2>1. \A c \in Cells : c # 0 => flash'[c] = flash[c]
    BY <1>27 DEF EndEnables, DataInv
  <2>2. \A c \in Cells : c > 0 => c # 0
    BY DEF Cells
  <2>3. QED  BY <1>27, <2>1, <2>2 DEF EndEnables, WrittenInv, Live
<1>28. CASE EndCannotEnable  BY <1>28 DEF EndCannotEnable, WrittenInv, Live, Ending, ResetInv
<1>29. CASE EndActivates  BY <1>29 DEF EndActivates, WrittenInv, Live, Ending, ResetInv
<1>30. CASE EndCannotActivate  BY <1>30 DEF EndCannotActivate, WrittenInv, Live, Ending, ResetInv
<1>31. CASE PowerLoss  BY <1>31 DEF PowerLoss, WrittenInv, Live, Ending, ResetInv
<1>32. CASE UNCHANGED vars  BY <1>32 DEF vars, WrittenInv, Live, Ending, ResetInv
<1>33. QED
  BY <1>1, <1>2, <1>3, <1>4, <1>5, <1>6, <1>7, <1>8, <1>9, <1>10, <1>11,
     <1>12, <1>13, <1>14, <1>15, <1>16, <1>17, <1>18, <1>19, <1>20, <1>21,
     <1>22, <1>23, <1>24, <1>25, <1>26, <1>27, <1>28, <1>29, <1>30, <1>31,
     <1>32
  DEF Next

(* A firmware's first cell is held back.                                   *)
LEMMA FirstStep ==
  ASSUME ScalarInv, DataInv, ResetInv, CallInv, CountInv,
    ChunkInv, BufferInv, ChunkErased, FirstInv, [Next]_vars
  PROVE  FirstInv'
<1> USE DEF slot, object, md5, frame, source, Calls, Goes, Returns, Reset,
    Aborts, Idle
<1>1. ASSUME NEW length \in Lengths, NEW known \in BOOLEAN, Begin(length, known)
     PROVE FirstInv'
  <2>1. progress' = 0 /\ stash' = << >> /\ pc' = "idle"
    BY <1>1, BeginSets
  <2>2. QED  BY <2>1 DEF FirstInv
<1>2. CASE BeginFails  BY <1>2 DEF BeginFails, FirstInv, Live, Ending, ResetInv
<1>3. CASE SetMD5  BY <1>3 DEF SetMD5, FirstInv, Live, Ending, ResetInv
<1>4. CASE Abort  BY <1>4 DEF Abort, FirstInv, Live, Ending, ResetInv
<1>5. CASE ClearError  BY <1>5 DEF ClearError, FirstInv, Live, Ending, ResetInv
<1>6. CASE RollBack  BY <1>6 DEF RollBack, FirstInv, Live, Ending, ResetInv
<1>7. ASSUME NEW len \in 0 .. PartitionLen, CallWrite(len) PROVE FirstInv'
  BY <1>7 DEF CallWrite, FirstInv, Live, Ending, ResetInv
<1>8. CASE CallWritesTooMuch  BY <1>8 DEF CallWritesTooMuch, FirstInv, Live, Ending, ResetInv
<1>9. CASE WriteFills  BY <1>9 DEF WriteFills, Takes, FirstInv, Live, Ending, ResetInv
<1>10. CASE WriteKeeps  BY <1>10 DEF WriteKeeps, Takes, FirstInv, Live, Ending, ResetInv
<1>11. CASE CallStream  BY <1>11 DEF CallStream, FirstInv, Live, Ending, ResetInv
<1>12. CASE StreamHasNoMagic  BY <1>12 DEF StreamHasNoMagic, FirstInv, Live, Ending, ResetInv
<1>13. ASSUME NEW n \in 1 .. SectorLen, StreamReads(n) PROVE FirstInv'
  BY <1>13 DEF StreamReads, Takes, FirstInv, Live, Ending, ResetInv
<1>14. CASE StreamTimesOut  BY <1>14 DEF StreamTimesOut, FirstInv, Live, Ending, ResetInv
<1>15. CASE FlushFindsNoMagic
  BY <1>15 DEF FlushFindsNoMagic, ReturnsFalse, FirstInv, Live, Ending, ResetInv
<1>16. CASE FlushCannotStash
  BY <1>16 DEF FlushCannotStash, ReturnsFalse, FirstOfFirmware, FirstInv, Live, Ending, ResetInv
<1>17. CASE FlushPrepares
  <2>1. /\ pc' \in {"erase", "program"} /\ Live /\ Flushing
        /\ UNCHANGED <<command, session, progress, flash>>
    BY <1>17 DEF FlushPrepares, Live, Flushing, ResetInv
  <2>2. ASSUME command = "app" PROVE stash' = <<Image(session, 0)>>
    <3>1. CASE progress > 0
      BY <1>17, <2>1, <2>2, <3>1 DEF FlushPrepares, FirstInv, FirstOfFirmware
    <3>2. CASE ~(progress > 0)
      <4>1. progress = 0 /\ buffer # << >>
        BY <2>1, <3>2 DEF ScalarInv, ChunkInv
      <4>2. 1 \in 1 .. Len(buffer)
        BY <4>1, EmptySeq DEF DataInv
      <4>3. buffer[1] = Image(session, 0 + 1 - 1)
        BY <2>1, <4>1, <4>2 DEF BufferInv
      <4>4. QED  BY <1>17, <2>2, <4>1, <4>3 DEF FlushPrepares, FirstOfFirmware
    <3>3. QED  BY <3>1, <3>2
  <2>3. QED  BY <1>17, <2>1, <2>2 DEF FirstInv, FlushPrepares
<1>18. CASE FlushErases
  <2>1. progress > 0 => flash'[0] = flash[0]
    <3>1. 0 \in Cells
      BY UpdaterAssumption DEF Cells
    <3>2. QED  BY <1>18, <3>1, ErasedCells, EraseLenIs DEF FlushErases
  <2>2. QED  BY <1>18, <2>1 DEF FlushErases, FirstInv, Live
<1>19. CASE FlushCannotErase
  BY <1>19 DEF FlushCannotErase, ReturnsFalse, FirstInv, Live, Ending, ResetInv
<1>20. CASE FlushPrograms
  <2>1. /\ progress' = progress + Len(buffer) /\ UNCHANGED <<session, command, stash>>
        /\ progress \in Nat /\ Len(buffer) \in Nat /\ Live /\ Flushing /\ pc = "program"
        /\ pc' # "enabled" /\ (buffer # << >> => Len(buffer) > 0)
    BY <1>20, EmptySeq
    DEF FlushPrograms, ReturnsTrue, ScalarInv, DataInv, Live, Flushing, ResetInv
  <2>2. progress' > 0
    BY <2>1 DEF ChunkInv
  <2>3. ASSUME command = "app"
        PROVE  stash = <<Image(session, 0)>> /\ flash'[0] = Blank
    <3>1. stash = <<Image(session, 0)>>
      BY <2>1, <2>3 DEF FirstInv
    <3>2. 0 \in Cells /\ 0 < progress + Skip
      BY <2>1, <2>3, ChunkIs, UpdaterAssumption DEF Cells, FirstOfFirmware
    <3>3. flash'[0] = flash[0]
      BY <1>20, <3>2, ChunkWritten
    <3>4. flash[0] = Blank
      <4>1. CASE progress > 0
        BY <2>1, <2>3, <4>1 DEF FirstInv
      <4>2. CASE progress = 0
        <5>1. 0 \in progress .. progress + Len(buffer) - 1
          BY <2>1, <2>2, <4>2
        <5>2. QED  BY <2>1, <3>2, <5>1 DEF ChunkErased
      <4>3. QED  BY <2>1, <4>1, <4>2
    <3>5. QED  BY <3>1, <3>3, <3>4
  <2>4. QED  BY <2>1, <2>2, <2>3 DEF FirstInv
<1>21. CASE FlushCannotProgram
  BY <1>21 DEF FlushCannotProgram, ReturnsFalse, FirstInv, Live, Ending, ResetInv
<1>22. CASE EndIsPremature  BY <1>22 DEF EndIsPremature, FirstInv, Live, Ending, ResetInv
<1>23. CASE EndFlushes  BY <1>23 DEF EndFlushes, FirstInv, Live, Ending, ResetInv
<1>24. CASE EndChecks  BY <1>24 DEF EndChecks, FirstInv, Live, Ending, ResetInv
<1>25. CASE EndFindsWrongMd5  BY <1>25 DEF EndFindsWrongMd5, FirstInv, Live, Ending, ResetInv
<1>26. CASE EndOfData  BY <1>26 DEF EndOfData, FirstInv, Live, Ending, ResetInv
<1>27. CASE EndEnables
  <2>1. /\ Live /\ command = "app" /\ pc = "check" /\ pc' = "enabled" /\ stash # << >>
        /\ UNCHANGED <<session, command, stash, progress>>
    BY <1>27 DEF EndEnables, Live, ResetInv
  <2>2. stash = <<Image(session, 0)>> /\ stash[1] = Image(session, 0) /\ flash[0] = Blank
    BY <2>1 DEF FirstInv
  <2>3. flash'[0] = Programmed(flash[0], stash[1])
    <3>1. 0 \in Cells
      BY UpdaterAssumption DEF Cells
    <3>2. QED  BY <1>27, <3>1 DEF EndEnables, DataInv
  <2>4. flash'[0] = Image(session, 0)
    BY <2>2, <2>3, ProgrammedOnBlank
  <2>5. progress > 0
    BY <2>1 DEF FirstInv
  <2>6. QED  BY <2>1, <2>2, <2>4, <2>5 DEF FirstInv
<1>28. CASE EndCannotEnable  BY <1>28 DEF EndCannotEnable, FirstInv, Live, Ending, ResetInv
<1>29. CASE EndActivates  BY <1>29 DEF EndActivates, FirstInv, Live, Ending, ResetInv
<1>30. CASE EndCannotActivate  BY <1>30 DEF EndCannotActivate, FirstInv, Live, Ending, ResetInv
<1>31. CASE PowerLoss  BY <1>31 DEF PowerLoss, FirstInv, Live, Ending, ResetInv
<1>32. CASE UNCHANGED vars  BY <1>32 DEF vars, FirstInv, Live, Ending, ResetInv
<1>33. QED
  BY <1>1, <1>2, <1>3, <1>4, <1>5, <1>6, <1>7, <1>8, <1>9, <1>10, <1>11,
     <1>12, <1>13, <1>14, <1>15, <1>16, <1>17, <1>18, <1>19, <1>20, <1>21,
     <1>22, <1>23, <1>24, <1>25, <1>26, <1>27, <1>28, <1>29, <1>30, <1>31,
     <1>32
  DEF Next

-------------------------------------------------------------------------------
(* Sectors and blocks.                                                     *)
LEMMA Multiples ==
  ASSUME NEW a \in Nat, NEW b \in Nat, NEW s \in Nat, a < b
  PROVE  a * s + s <= b * s
<1>1. PICK d \in Nat : b = a + 1 + d
  <2>1. b - a - 1 \in Nat
    BY SMT
  <2>2. QED  BY <2>1, SMT
<1>2. b * s = a * s + s + d * s
  BY <1>1, SMT
<1>3. d * s >= 0 /\ d * s \in Int /\ a * s \in Int /\ b * s \in Int
  BY SMT
<1>4. QED
  BY <1>2, <1>3, SMT

LEMMA Division ==
  ASSUME NEW a \in Nat, NEW b \in Nat \ {0}
  PROVE  /\ a \div b \in Nat /\ (a \div b) * b \in Nat
         /\ (a \div b) * b <= a /\ a < (a \div b) * b + b
         /\ a % b = 0 <=> a = (a \div b) * b
BY SMT

LEMMA QuotientIs ==
  ASSUME NEW a \in Nat, NEW b \in Nat \ {0}, NEW q \in Nat, q * b <= a, a < q * b + b
  PROVE  a \div b = q
BY Multiples, Division, SMT

LEMMA MultipleModulo ==
  ASSUME NEW q \in Nat, NEW b \in Nat \ {0}
  PROVE  (q * b) % b = 0
BY SMT

LEMMA SumModulo ==
  ASSUME NEW a \in Nat, NEW b \in Nat, NEW s \in Nat \ {0}, a % s = 0, b % s = 0
  PROVE  (a + b) % s = 0
<1>1. PICK m \in Nat : a = m * s
  BY Division
<1>2. PICK n \in Nat : b = n * s
  BY Division
<1>3. PICK r \in Nat : a + b = r * s
  <2>1. m + n \in Nat /\ a + b = (m + n) * s
    BY <1>1, <1>2, SMT
  <2>2. QED  BY <2>1
<1>4. QED
  BY <1>3, MultipleModulo

LEMMA BlockAfterIs ==
  ASSUME NEW o \in Nat
  PROVE  /\ BlockAfter(o) \in Nat /\ BlockAfter(o) % BlockLen = 0
         /\ o < BlockAfter(o) /\ BlockAfter(o) <= o + BlockLen
         /\ o % BlockLen = 0 => BlockAfter(o) = o + BlockLen
         /\ \A m \in Nat : o < m * BlockLen => BlockAfter(o) <= m * BlockLen
<1> DEFINE q == o \div BlockLen
<1>1. BlockLen \in Nat \ {0}
  BY EraseLenIs
<1>2. /\ q \in Nat /\ q * BlockLen \in Nat /\ q * BlockLen <= o
      /\ o < q * BlockLen + BlockLen
      /\ o % BlockLen = 0 => o = q * BlockLen
  BY <1>1, Division
<1>3. BlockAfter(o) = (q + 1) * BlockLen
  BY DEF BlockAfter
<1> HIDE DEF q
<1>4. (q + 1) * BlockLen = q * BlockLen + BlockLen
  BY <1>1, <1>2, SMT
<1>5. (q + 1) * BlockLen % BlockLen = 0
  <2>1. PICK r \in Nat : r = q + 1
    BY <1>2
  <2>2. QED  BY <1>1, <2>1, MultipleModulo
<1>6. ASSUME NEW m \in Nat, o < m * BlockLen
      PROVE  BlockAfter(o) <= m * BlockLen
  <2>1. CASE q < m
    BY <1>1, <1>2, <1>3, <1>4, <2>1, Multiples
  <2>2. CASE m <= q
    <3>1. m * BlockLen <= q * BlockLen
      <4>1. CASE m = q
        BY <1>1, <1>2, <4>1
      <4>2. CASE m < q
        <5>1. m * BlockLen + BlockLen <= q * BlockLen
          BY <1>1, <1>2, <4>2, Multiples
        <5>2. m * BlockLen \in Int
          BY <1>1, SMT
        <5>3. QED  BY <1>1, <1>2, <5>1, <5>2
      <4>3. QED  BY <1>2, <2>2, <4>1, <4>2
    <3>2. m * BlockLen \in Int
      BY <1>1, SMT
    <3>3. QED  BY <1>2, <1>6, <3>1, <3>2
  <2>3. QED  BY <1>2, <2>1, <2>2
<1>7. QED
  BY <1>1, <1>2, <1>3, <1>4, <1>5, <1>6

(* Addresses before that end are in the same block.                        *)
LEMMA SameBlock ==
  ASSUME NEW o \in Nat, NEW p \in Nat, o <= p, p < BlockAfter(o)
  PROVE  BlockAfter(p) = BlockAfter(o)
<1> DEFINE q == o \div BlockLen
<1>1. BlockLen \in Nat \ {0}
  BY EraseLenIs
<1>2. q \in Nat /\ q * BlockLen \in Nat /\ q * BlockLen <= o
  BY <1>1, Division
<1>3. BlockAfter(o) = (q + 1) * BlockLen
  BY DEF BlockAfter
<1>4. p \div BlockLen = q
  <2> HIDE DEF q
  <2>1. (q + 1) * BlockLen = q * BlockLen + BlockLen
    BY <1>1, <1>2, SMT
  <2>2. q * BlockLen <= p /\ p < q * BlockLen + BlockLen
    BY <1>1, <1>2, <1>3, <2>1
  <2>3. QED  BY <1>1, <1>2, <2>2, QuotientIs
<1>5. QED
  BY <1>4 DEF BlockAfter

(* A sector does not reach over the end of a block.                        *)
LEMMA SectorInBlock ==
  ASSUME NEW o \in Nat, o % SectorLen = 0
  PROVE  o + SectorLen <= BlockAfter(o)
<1>1. SectorLen \in Nat \ {0} /\ BlockSectors \in Nat \ {0} /\ BlockLen = BlockSectors * SectorLen
  BY UpdaterAssumption DEF BlockLen
<1>2. PICK n \in Nat : o = n * SectorLen
  BY <1>1, Division
<1>3. PICK m \in Nat : BlockAfter(o) = m * SectorLen
  <2>1. PICK q \in Nat : q = o \div BlockLen + 1
    <3>1. o \div BlockLen \in Nat
      BY EraseLenIs, Division
    <3>2. QED  BY <3>1
  <2>2. BlockAfter(o) = q * (BlockSectors * SectorLen)
    BY <1>1, <2>1 DEF BlockAfter
  <2>3. q * BlockSectors \in Nat /\ q * (BlockSectors * SectorLen) = (q * BlockSectors) * SectorLen
    BY <1>1, SMT
  <2>4. QED  BY <2>2, <2>3
<1>4. n < m
  <2>1. ASSUME m <= n PROVE FALSE
    <3>1. m * SectorLen <= n * SectorLen
      <4>1. CASE m = n
        BY <1>1, <4>1, SMT
      <4>2. CASE m < n
        BY <1>1, <4>2, Multiples, SMT
      <4>3. QED  BY <2>1, <4>1, <4>2
    <3>2. o < BlockAfter(o) /\ BlockAfter(o) \in Nat
      BY BlockAfterIs
    <3>3. QED  BY <1>2, <1>3, <3>1, <3>2
  <2>2. QED  BY <2>1
<1>5. QED
  BY <1>1, <1>2, <1>3, <1>4, Multiples

(* Where the next chunk goes.                                              *)
LEMMA PlaceIs ==
  ASSUME ScalarInv
  PROVE  /\ address \in Nat /\ address % SectorLen = 0
         /\ FlashOffset = address + progress /\ FlashOffset \in Nat
         /\ progress % SectorLen = 0 => FlashOffset % SectorLen = 0
<1>1. address \in Nat /\ address % SectorLen = 0 /\ progress \in Nat /\ SectorLen \in Nat \ {0}
  BY UpdaterAssumption DEF ScalarInv
<1>2. progress % SectorLen = 0 => (address + progress) % SectorLen = 0
  BY <1>1, SumModulo
<1>3. QED
  BY <1>1, <1>2 DEF FlashOffset

LEMMA SamePlace ==
  ASSUME UNCHANGED <<address, size, progress>>
  PROVE  /\ FlashOffset' = FlashOffset /\ BlockEnd' = BlockEnd
         /\ Remaining' = Remaining
         /\ InHeadBlock' <=> InHeadBlock
         /\ InTailBlock' <=> InTailBlock
         /\ Erases' <=> Erases
BY DEF FlashOffset, BlockEnd, BlockAfter, Remaining, InHeadBlock, InTailBlock, Erases, ErasesBlock

(* The tail begins at the end of a block, not after the image.             *)
LEMMA TailIs ==
  ASSUME ScalarInv
  PROVE  /\ progress = size => InTailBlock
         /\ \A q \in Nat : size < progress + q /\ FlashOffset % BlockLen = 0 /\ q = BlockLen
              => InTailBlock
<1> DEFINE t == (address + size) \div BlockLen
<1>1. /\ address \in Nat /\ size \in Nat /\ progress \in Nat /\ BlockLen \in Nat \ {0}
      /\ FlashOffset = address + progress
  BY PlaceIs, EraseLenIs DEF ScalarInv
<1>2. t \in Nat /\ t * BlockLen \in Nat /\ t * BlockLen <= address + size
  <2>1. address + size \in Nat
    BY <1>1
  <2>2. QED  BY <1>1, <2>1, Division
<1>3. InTailBlock <=> FlashOffset >= t * BlockLen
  BY DEF InTailBlock
<1> HIDE DEF t
<1>4. ASSUME size < progress + BlockLen, FlashOffset % BlockLen = 0
      PROVE  InTailBlock
  <2>1. BlockAfter(FlashOffset) = FlashOffset + BlockLen
    BY <1>1, <1>4, PlaceIs, BlockAfterIs
  <2>2. ~(FlashOffset < t * BlockLen)
    BY <1>1, <1>2, <1>4, <2>1, PlaceIs, BlockAfterIs
  <2>3. QED  BY <1>1, <1>2, <1>3, <2>2
<1>5. progress = size => InTailBlock
  BY <1>1, <1>2, <1>3
<1>6. QED
  BY <1>4, <1>5

(* What _writeBuffer() does not erase, it has erased with its block.       *)
LEMMA NotErasedNow ==
  ASSUME ScalarInv, DataInv, CountInv, Live, ~Ending, ~Erases
  PROVE  ~InHeadBlock /\ ~InTailBlock /\ FlashOffset % BlockLen # 0 /\ progress # size
<1>1. ~InHeadBlock /\ ~InTailBlock /\ ~ErasesBlock
  BY DEF Erases
<1>2. progress # size
  BY <1>1, TailIs
<1>3. ASSUME FlashOffset % BlockLen = 0 PROVE FALSE
  <2>1. ~(Remaining >= BlockLen) /\ Remaining = size - progress
    BY <1>1, <1>3, RemainingIs DEF ErasesBlock
  <2>2. size < progress + BlockLen /\ BlockLen \in Nat
    BY <2>1, EraseLenIs DEF ScalarInv
  <2>3. QED  BY <1>1, <1>3, <2>2, TailIs
<1>4. QED
  BY <1>1, <1>2, <1>3

(* A chunk in a block that was erased as a whole lies inside it.           *)
LEMMA ChunkInBlock ==
  ASSUME ScalarInv, DataInv, CountInv, ChunkInv, Live, Flushing, buffer # << >>
  PROVE  /\ progress # size /\ FlashOffset % SectorLen = 0
         /\ address + progress + Len(buffer) <= BlockEnd
<1>1. /\ Len(buffer) \in Nat \ {0} /\ Len(buffer) <= SectorLen /\ SectorLen \in Nat
      /\ progress \in Nat /\ size \in Nat /\ address \in Nat
  BY PlaceIs, EmptySeq, UpdaterAssumption DEF DataInv, ScalarInv
<1>2. ~Ending
  BY DEF Flushing, Ending
<1>3. progress + Len(buffer) <= size
  BY <1>2, RemainingIs
<1>4. progress # size
  BY <1>1, <1>3
<1>5. FlashOffset % SectorLen = 0 /\ FlashOffset = address + progress /\ FlashOffset \in Nat
  BY <1>2, <1>4, PlaceIs DEF ChunkInv
<1>6. FlashOffset + SectorLen <= BlockEnd /\ BlockEnd \in Nat
  BY <1>5, SectorInBlock, BlockAfterIs DEF BlockEnd
<1>7. QED
  BY <1>1, <1>4, <1>5, <1>6

(* An erase is one that was called for.                                    *)
LEMMA ErasesStep ==
  ASSUME ScalarInv, CallInv, ErasesInv, [Next]_vars
  PROVE  ErasesInv'
<1> USE DEF slot, object, md5, frame, source, Calls, Goes, Returns, Reset,
    Aborts, Idle
<1>1. ASSUME NEW length \in Lengths, NEW known \in BOOLEAN, Begin(length, known)
     PROVE ErasesInv'
  BY <1>1 DEF Begin, ErasesInv
<1>2. CASE BeginFails  BY <1>2 DEF BeginFails, ErasesInv
<1>3. CASE SetMD5  BY <1>3 DEF SetMD5, ErasesInv
<1>4. CASE Abort  BY <1>4 DEF Abort, ErasesInv
<1>5. CASE ClearError  BY <1>5 DEF ClearError, ErasesInv
<1>6. CASE RollBack  BY <1>6 DEF RollBack, ErasesInv
<1>7. ASSUME NEW len \in 0 .. PartitionLen, CallWrite(len) PROVE ErasesInv'
  BY <1>7 DEF CallWrite, ErasesInv
<1>8. CASE CallWritesTooMuch  BY <1>8 DEF CallWritesTooMuch, ErasesInv
<1>9. CASE WriteFills  BY <1>9 DEF WriteFills, Takes, ErasesInv
<1>10. CASE WriteKeeps  BY <1>10 DEF WriteKeeps, Takes, ErasesInv
<1>11. CASE CallStream  BY <1>11 DEF CallStream, ErasesInv
<1>12. CASE StreamHasNoMagic  BY <1>12 DEF StreamHasNoMagic, ErasesInv
<1>13. ASSUME NEW n \in 1 .. SectorLen, StreamReads(n) PROVE ErasesInv'
  BY <1>13 DEF StreamReads, Takes, ErasesInv
<1>14. CASE StreamTimesOut  BY <1>14 DEF StreamTimesOut, ErasesInv
<1>15. CASE FlushFindsNoMagic  BY <1>15 DEF FlushFindsNoMagic, ReturnsFalse, ErasesInv
<1>16. CASE FlushCannotStash  BY <1>16 DEF FlushCannotStash, ReturnsFalse, ErasesInv
<1>17. CASE FlushPrepares
  <2>1. UNCHANGED <<address, size, progress>> /\ (pc' = "erase" => Erases)
    BY <1>17 DEF FlushPrepares
  <2>2. QED  BY <2>1, SamePlace DEF ErasesInv
<1>18. CASE FlushErases  BY <1>18 DEF FlushErases, ErasesInv
<1>19. CASE FlushCannotErase  BY <1>19 DEF FlushCannotErase, ReturnsFalse, ErasesInv
<1>20. CASE FlushPrograms
  BY <1>20 DEF FlushPrograms, ReturnsTrue, CallInv, Flushing, Ending, ErasesInv
<1>21. CASE FlushCannotProgram  BY <1>21 DEF FlushCannotProgram, ReturnsFalse, ErasesInv
<1>22. CASE EndIsPremature  BY <1>22 DEF EndIsPremature, ErasesInv
<1>23. CASE EndFlushes  BY <1>23 DEF EndFlushes, ErasesInv
<1>24. CASE EndChecks  BY <1>24 DEF EndChecks, ErasesInv
<1>25. CASE EndFindsWrongMd5  BY <1>25 DEF EndFindsWrongMd5, ErasesInv
<1>26. CASE EndOfData  BY <1>26 DEF EndOfData, ErasesInv
<1>27. CASE EndEnables  BY <1>27 DEF EndEnables, ErasesInv
<1>28. CASE EndCannotEnable  BY <1>28 DEF EndCannotEnable, ErasesInv
<1>29. CASE EndActivates  BY <1>29 DEF EndActivates, ErasesInv
<1>30. CASE EndCannotActivate  BY <1>30 DEF EndCannotActivate, ErasesInv
<1>31. CASE PowerLoss  BY <1>31 DEF PowerLoss, ErasesInv
<1>32. CASE UNCHANGED vars  BY <1>32, SamePlace DEF vars, ErasesInv
<1>33. QED
  BY <1>1, <1>2, <1>3, <1>4, <1>5, <1>6, <1>7, <1>8, <1>9, <1>10, <1>11,
     <1>12, <1>13, <1>14, <1>15, <1>16, <1>17, <1>18, <1>19, <1>20, <1>21,
     <1>22, <1>23, <1>24, <1>25, <1>26, <1>27, <1>28, <1>29, <1>30, <1>31,
     <1>32
  DEF Next

(* A chunk is programmed on erased cells.                                  *)
LEMMA ChunkErasedStep ==
  ASSUME ScalarInv, DataInv, ResetInv, CallInv,
    CountInv, ChunkInv, RestErased, ChunkErased, [Next]_vars
  PROVE  ChunkErased'
<1> USE DEF slot, object, md5, frame, source, Calls, Goes, Returns, Reset,
    Aborts, Idle
<1>1. ASSUME NEW length \in Lengths, NEW known \in BOOLEAN, Begin(length, known)
     PROVE ChunkErased'
  BY <1>1 DEF Begin, ChunkErased
<1>2. CASE BeginFails  BY <1>2 DEF BeginFails, ChunkErased
<1>3. CASE SetMD5  BY <1>3 DEF SetMD5, ChunkErased
<1>4. CASE Abort  BY <1>4 DEF Abort, ChunkErased
<1>5. CASE ClearError  BY <1>5 DEF ClearError, ChunkErased
<1>6. CASE RollBack  BY <1>6 DEF RollBack, HasMagic, ChunkErased
<1>7. ASSUME NEW len \in 0 .. PartitionLen, CallWrite(len) PROVE ChunkErased'
  BY <1>7 DEF CallWrite, ChunkErased
<1>8. CASE CallWritesTooMuch  BY <1>8 DEF CallWritesTooMuch, ChunkErased
<1>9. CASE WriteFills  BY <1>9 DEF WriteFills, Takes, ChunkErased
<1>10. CASE WriteKeeps  BY <1>10 DEF WriteKeeps, Takes, ChunkErased
<1>11. CASE CallStream  BY <1>11 DEF CallStream, ChunkErased
<1>12. CASE StreamHasNoMagic  BY <1>12 DEF StreamHasNoMagic, ChunkErased
<1>13. ASSUME NEW n \in 1 .. SectorLen, StreamReads(n) PROVE ChunkErased'
  BY <1>13 DEF StreamReads, Takes, ChunkErased
<1>14. CASE StreamTimesOut  BY <1>14 DEF StreamTimesOut, ChunkErased
<1>15. CASE FlushFindsNoMagic  BY <1>15 DEF FlushFindsNoMagic, ReturnsFalse, ChunkErased
<1>16. CASE FlushCannotStash  BY <1>16 DEF FlushCannotStash, ReturnsFalse, ChunkErased
<1>17. CASE FlushPrepares
  <2>1. /\ Live /\ ~Ending /\ Flushing /\ pc' \in {"erase", "program"}
        /\ pc' = "program" => ~Erases
        /\ UNCHANGED <<flash, progress, buffer>>
    BY <1>17 DEF FlushPrepares, Live, Ending, Flushing, ResetInv
  <2>2. SUFFICES ASSUME pc' = "program",
                        NEW c \in Cells, c \in progress .. progress + Len(buffer) - 1
                 PROVE  flash[c] = Blank
    BY <2>1 DEF ChunkErased
  <2>3. /\ ~InHeadBlock /\ ~InTailBlock /\ FlashOffset % BlockLen # 0
    BY <2>1, <2>2, NotErasedNow
  <2>4. /\ c \in Nat /\ progress \in Nat /\ address \in Nat /\ Len(buffer) \in Nat
        /\ buffer # << >>
    BY <2>2, PlaceIs DEF Cells, ScalarInv, DataInv
  <2>5. address + progress + Len(buffer) <= BlockEnd /\ BlockEnd \in Nat
    <3>1. BlockEnd \in Nat
      BY PlaceIs, BlockAfterIs DEF BlockEnd
    <3>2. QED  BY <2>1, <2>4, <3>1, ChunkInBlock
  <2>6. c >= progress /\ address + c < BlockEnd
    BY <2>2, <2>4, <2>5
  <2>7. QED  BY <2>1, <2>3, <2>6 DEF RestErased, InErasedBlock
<1>18. CASE FlushErases
  <2>1. \A c \in Cells : c >= progress /\ c < progress + EraseLen => flash'[c] = Blank
    BY <1>18, ErasedCells, EraseLenIs DEF FlushErases
  <2>2. /\ SectorLen <= EraseLen /\ EraseLen \in Nat /\ SectorLen \in Nat
        /\ Len(buffer) \in Nat /\ Len(buffer) <= SectorLen /\ progress \in Nat
        /\ UNCHANGED <<progress, buffer>>
    BY <1>18, EraseLenIs, UpdaterAssumption DEF DataInv, ScalarInv, FlushErases
  <2>3. \A c \in Cells : c \in progress .. progress + Len(buffer) - 1
          => c >= progress /\ c < progress + EraseLen
    BY <2>2 DEF Cells
  <2>4. QED  BY <2>1, <2>2, <2>3 DEF ChunkErased
<1>19. CASE FlushCannotErase  BY <1>19 DEF FlushCannotErase, ReturnsFalse, ChunkErased
<1>20. CASE FlushPrograms
  BY <1>20 DEF FlushPrograms, ReturnsTrue, CallInv, Flushing, Ending, ChunkErased
<1>21. CASE FlushCannotProgram  BY <1>21 DEF FlushCannotProgram, ReturnsFalse, ChunkErased
<1>22. CASE EndIsPremature  BY <1>22 DEF EndIsPremature, ChunkErased
<1>23. CASE EndFlushes  BY <1>23 DEF EndFlushes, ChunkErased
<1>24. CASE EndChecks  BY <1>24 DEF EndChecks, ChunkErased
<1>25. CASE EndFindsWrongMd5  BY <1>25 DEF EndFindsWrongMd5, ChunkErased
<1>26. CASE EndOfData  BY <1>26 DEF EndOfData, ChunkErased
<1>27. CASE EndEnables  BY <1>27 DEF EndEnables, ChunkErased
<1>28. CASE EndCannotEnable  BY <1>28 DEF EndCannotEnable, ChunkErased
<1>29. CASE EndActivates  BY <1>29 DEF EndActivates, ChunkErased
<1>30. CASE EndCannotActivate  BY <1>30 DEF EndCannotActivate, ChunkErased
<1>31. CASE PowerLoss  BY <1>31 DEF PowerLoss, ChunkErased
<1>32. CASE UNCHANGED vars  BY <1>32 DEF vars, ChunkErased
<1>33. QED
  BY <1>1, <1>2, <1>3, <1>4, <1>5, <1>6, <1>7, <1>8, <1>9, <1>10, <1>11,
     <1>12, <1>13, <1>14, <1>15, <1>16, <1>17, <1>18, <1>19, <1>20, <1>21,
     <1>22, <1>23, <1>24, <1>25, <1>26, <1>27, <1>28, <1>29, <1>30, <1>31,
     <1>32
  DEF Next

(* Nothing changes for the block while neither the flash nor the place do. *)
LEMMA RestStays ==
  ASSUME RestErased, UNCHANGED <<flash, address, size, progress>>, pc' # "program",
         Live' => Live /\ ~Ending
  PROVE  RestErased'
<1>1. InErasedBlock' => InErasedBlock
  BY SamePlace DEF InErasedBlock
<1>2. QED
  BY <1>1, SamePlace DEF RestErased

(* The rest of a block that was erased as a whole still is.                *)
LEMMA RestErasedStep ==
  ASSUME ScalarInv, DataInv, ResetInv, CallInv,
    CountInv, ChunkInv, BufferInv, ErasesInv, ChunkErased, RestErased,
    [Next]_vars
  PROVE  RestErased'
<1> USE DEF slot, object, md5, frame, source, Calls, Goes, Returns, Reset,
    Aborts, Idle
<1>1. ASSUME NEW length \in Lengths, NEW known \in BOOLEAN, Begin(length, known)
     PROVE RestErased'
  <2>1. progress' = 0 /\ address' = address /\ pc' = "idle" /\ address \in Nat
    BY <1>1, BeginSets, PlaceIs
  <2>2. FlashOffset' = address
    BY <2>1 DEF FlashOffset
  <2>3. address < (address \div BlockLen + 1) * BlockLen
    BY <2>1, BlockAfterIs DEF BlockAfter
  <2>4. InHeadBlock' \/ FlashOffset' % BlockLen = 0
    BY <2>1, <2>2, <2>3 DEF InHeadBlock
  <2>5. ~InErasedBlock'
    BY <2>1, <2>4 DEF InErasedBlock
  <2>6. QED  BY <2>5 DEF RestErased
<1>2. CASE BeginFails  BY <1>2 DEF BeginFails, RestErased, InErasedBlock, Live, Ending
<1>3. CASE SetMD5
  <2>1. /\ UNCHANGED <<flash, address, size, progress>> /\ pc' # "program"
        /\ Live' => Live /\ ~Ending
    BY <1>3 DEF SetMD5, Live, Ending, ResetInv
  <2>2. QED  BY <2>1, RestStays
<1>4. CASE Abort  BY <1>4 DEF Abort, RestErased, InErasedBlock, Live, Ending
<1>5. CASE ClearError  BY <1>5 DEF ClearError, RestErased, InErasedBlock, Live, Ending, ResetInv
<1>6. CASE RollBack
  <2>1. /\ UNCHANGED <<flash, address, size, progress>> /\ pc' # "program"
        /\ Live' => Live /\ ~Ending
    BY <1>6 DEF RollBack, Live, Ending, ResetInv
  <2>2. QED  BY <2>1, RestStays
<1>7. ASSUME NEW len \in 0 .. PartitionLen, CallWrite(len) PROVE RestErased'
  <2>1. /\ UNCHANGED <<flash, address, size, progress>> /\ pc' # "program"
        /\ Live' => Live /\ ~Ending
    BY <1>7 DEF CallWrite, Live, Ending, ResetInv
  <2>2. QED  BY <2>1, RestStays
<1>8. CASE CallWritesTooMuch
  BY <1>8 DEF CallWritesTooMuch, RestErased, InErasedBlock, Live, Ending
<1>9. CASE WriteFills
  <2>1. /\ UNCHANGED <<flash, address, size, progress>> /\ pc' # "program"
        /\ Live' => Live /\ ~Ending
    BY <1>9 DEF WriteFills, Live, Ending, ResetInv, Takes
  <2>2. QED  BY <2>1, RestStays
<1>10. CASE WriteKeeps
  <2>1. /\ UNCHANGED <<flash, address, size, progress>> /\ pc' # "program"
        /\ Live' => Live /\ ~Ending
    BY <1>10 DEF WriteKeeps, Live, Ending, ResetInv, Takes
  <2>2. QED  BY <2>1, RestStays
<1>11. CASE CallStream
  <2>1. /\ UNCHANGED <<flash, address, size, progress>> /\ pc' # "program"
        /\ Live' => Live /\ ~Ending
    BY <1>11 DEF CallStream, Live, Ending, ResetInv
  <2>2. QED  BY <2>1, RestStays
<1>12. CASE StreamHasNoMagic
  BY <1>12 DEF StreamHasNoMagic, RestErased, InErasedBlock, Live, Ending
<1>13. ASSUME NEW n \in 1 .. SectorLen, StreamReads(n) PROVE RestErased'
  <2>1. /\ UNCHANGED <<flash, address, size, progress>> /\ pc' # "program"
        /\ Live' => Live /\ ~Ending
    BY <1>13 DEF StreamReads, Live, Ending, ResetInv, Takes
  <2>2. QED  BY <2>1, RestStays
<1>14. CASE StreamTimesOut  BY <1>14 DEF StreamTimesOut, RestErased, InErasedBlock, Live, Ending
<1>15. CASE FlushFindsNoMagic
  BY <1>15 DEF FlushFindsNoMagic, ReturnsFalse, RestErased, InErasedBlock, Live, Ending
<1>16. CASE FlushCannotStash
  <2>1. CASE call = "end"
    BY <1>16, <2>1 DEF FlushCannotStash, ReturnsFalse, RestErased, InErasedBlock, Ending
  <2>2. CASE call # "end"
    <3>1. /\ UNCHANGED <<flash, address, size, progress>> /\ pc' # "program"
          /\ Live' => Live /\ ~Ending
      BY <1>16, <2>2 DEF FlushCannotStash, ReturnsFalse, Live, Ending, ResetInv
    <3>2. QED  BY <3>1, RestStays
  <2>3. QED  BY <2>1, <2>2
<1>17. CASE FlushPrepares
  <2>1. /\ Live /\ ~Ending /\ pc' \in {"erase", "program"}
        /\ pc' = "program" => ~Erases
        /\ UNCHANGED <<flash, address, size, progress>>
    BY <1>17 DEF FlushPrepares, Live, Ending, ResetInv
  <2>2. InErasedBlock' => InErasedBlock
    <3>1. CASE pc' = "erase"
      BY <2>1, <3>1, SamePlace DEF InErasedBlock
    <3>2. CASE pc' = "program"
      BY <2>1, <3>2, NotErasedNow DEF InErasedBlock
    <3>3. QED  BY <2>1, <3>1, <3>2
  <2>3. QED  BY <2>1, <2>2, SamePlace DEF RestErased
<1>18. CASE FlushErases
  <2>1. /\ Live /\ ~Ending /\ Erases /\ UNCHANGED <<address, size, progress>>
    BY <1>18 DEF FlushErases, Live, Ending, ResetInv, ErasesInv
  <2>2. SUFFICES ASSUME InErasedBlock',
                        NEW c \in Cells, c >= progress, address + c < BlockEnd
                 PROVE  flash'[c] = Blank
    BY <2>1, SamePlace DEF RestErased
  <2>3. ErasesBlock
    BY <2>1, <2>2, SamePlace DEF InErasedBlock, Erases
  <2>4. EraseLen = BlockLen /\ FlashOffset % BlockLen = 0
    BY <2>3 DEF EraseLen, ErasesBlock
  <2>5. FlashOffset = address + progress /\ FlashOffset \in Nat /\ address \in Nat /\ BlockLen \in Nat
    BY PlaceIs, EraseLenIs
  <2>6. BlockEnd = address + progress + BlockLen
    BY <2>4, <2>5, BlockAfterIs DEF BlockEnd
  <2>7. c < progress + EraseLen
    BY <2>2, <2>4, <2>5, <2>6 DEF Cells, ScalarInv
  <2>8. QED  BY <1>18, <2>2, <2>7, ErasedCells, EraseLenIs DEF FlushErases
<1>19. CASE FlushCannotErase
  BY <1>19 DEF FlushCannotErase, ReturnsFalse, RestErased, InErasedBlock, Live, Ending
<1>20. CASE FlushPrograms
  <2> DEFINE next == address + progress + Len(buffer)
  <2>1. SUFFICES ASSUME InErasedBlock',
                        NEW c \in Cells, c >= progress', address' + c < BlockEnd'
                 PROVE  flash'[c] = Blank
    BY DEF RestErased
  <2>2. /\ pc = "program" /\ Live /\ ~Ending /\ Flushing /\ address' = address
        /\ progress' = progress + Len(buffer)
        /\ pc' # "program" /\ call # "end" /\ size' = size
    <3>1. /\ pc = "program" /\ address' = address /\ progress' = progress + Len(buffer)
          /\ call = "end" => pc' = "check"
          /\ call # "end" => size' = size
          /\ pc' \in {"check", "fill", "read", "idle"}
      BY <1>20 DEF FlushPrograms, ReturnsTrue
    <3>2. call # "end"
      BY <2>1, <3>1 DEF InErasedBlock, Ending
    <3>3. QED  BY <3>1, <3>2 DEF Live, Ending, Flushing, ResetInv
  <2>3. /\ address \in Nat /\ progress \in Nat /\ size \in Nat /\ Len(buffer) \in Nat
        /\ c \in Nat /\ SectorLen \in Nat \ {0} /\ BlockLen \in Nat \ {0} /\ next \in Nat
        /\ FlashOffset = address + progress /\ FlashOffset \in Nat /\ BlockEnd \in Nat
    <3>1. FlashOffset = address + progress /\ FlashOffset \in Nat /\ BlockEnd \in Nat
      BY PlaceIs, BlockAfterIs DEF BlockEnd
    <3>2. QED  BY <3>1, PlaceIs, EraseLenIs, UpdaterAssumption DEF ScalarInv, DataInv, Cells
  <2>4. FlashOffset' = next /\ next % BlockLen # 0
    BY <2>1, <2>2, <2>3 DEF FlashOffset, InErasedBlock
  <2>5. /\ ~(next >= ((address + size) \div BlockLen) * BlockLen)
        /\ address % BlockLen # 0 => ~(next < (address \div BlockLen + 1) * BlockLen)
    BY <2>1, <2>2, <2>4 DEF InErasedBlock, InTailBlock, InHeadBlock
  <2>6. buffer # << >>
    <3>1. SUFFICES ASSUME buffer = << >> PROVE FALSE
      OBVIOUS
    <3>2. next = FlashOffset
      BY <2>3, <3>1
    <3>3. ~InTailBlock /\ ~InHeadBlock
      BY <2>5, <3>2 DEF InTailBlock, InHeadBlock
    <3>4. progress # size
      BY <3>3, TailIs
    <3>5. Len(buffer) = 0
      BY <3>1
    <3>6. QED  BY <2>2, <2>3, <3>4, <3>5 DEF ChunkInv
  <2>7. next <= BlockEnd /\ progress # size
    BY <2>2, <2>3, <2>6, ChunkInBlock
  <2>8. next < BlockEnd
    <3>1. BlockEnd % BlockLen = 0
      BY <2>3, BlockAfterIs DEF BlockEnd
    <3>2. QED  BY <2>3, <2>4, <2>7, <3>1
  <2>9. BlockEnd' = BlockEnd
    <3>1. BlockAfter(next) = BlockAfter(FlashOffset)
      BY <2>3, <2>8, SameBlock DEF BlockEnd
    <3>2. BlockEnd' = BlockAfter(FlashOffset')
      BY DEF BlockEnd, BlockAfter
    <3>3. QED  BY <2>4, <3>1, <3>2 DEF BlockEnd
  <2>10. ~InHeadBlock
    <3>1. SUFFICES ASSUME InHeadBlock PROVE FALSE
      OBVIOUS
    <3>2. PICK m \in Nat : m = address \div BlockLen + 1
      <4>1. address \div BlockLen \in Nat
        BY <2>3, Division
      <4>2. QED  BY <4>1
    <3>3. FlashOffset < m * BlockLen /\ ~(next < m * BlockLen)
      BY <2>5, <3>1, <3>2 DEF InHeadBlock
    <3>4. BlockEnd <= m * BlockLen /\ m * BlockLen \in Int
      BY <2>3, <3>3, BlockAfterIs DEF BlockEnd
    <3>5. QED  BY <2>3, <2>8, <3>3, <3>4
  <2>11. ~InTailBlock
    <3>1. SUFFICES ASSUME InTailBlock PROVE FALSE
      OBVIOUS
    <3>2. PICK t \in Int : t = ((address + size) \div BlockLen) * BlockLen
      <4>1. address + size \in Nat
        BY <2>3
      <4>2. QED  BY <2>3, <4>1, Division
    <3>3. QED  BY <2>3, <2>5, <3>1, <3>2 DEF InTailBlock
  <2>12. flash[c] = Blank
    <3>1. c >= progress /\ address + c < BlockEnd
      BY <2>1, <2>2, <2>3, <2>9
    <3>2. QED  BY <2>2, <2>10, <2>11, <3>1 DEF RestErased, InErasedBlock
  <2>13. c >= progress + Len(buffer)
    BY <2>1, <2>2
  <2>14. QED  BY <1>20, <2>12, <2>13, ChunkWritten
<1>21. CASE FlushCannotProgram
  BY <1>21 DEF FlushCannotProgram, ReturnsFalse, RestErased, InErasedBlock, Live, Ending
<1>22. CASE EndIsPremature  BY <1>22 DEF EndIsPremature, RestErased, InErasedBlock, Live, Ending
<1>23. CASE EndFlushes
  <2>1. /\ UNCHANGED <<flash, address, size, progress>> /\ pc' # "program"
        /\ Live' => Live /\ ~Ending
    BY <1>23 DEF EndFlushes, Live, Ending, ResetInv
  <2>2. QED  BY <2>1, RestStays
<1>24. CASE EndChecks  BY <1>24 DEF EndChecks, RestErased, InErasedBlock, Live, Ending
<1>25. CASE EndFindsWrongMd5
  BY <1>25 DEF EndFindsWrongMd5, RestErased, InErasedBlock, Live, Ending
<1>26. CASE EndOfData  BY <1>26 DEF EndOfData, RestErased, InErasedBlock, Live, Ending
<1>27. CASE EndEnables
  BY <1>27 DEF EndEnables, RestErased, InErasedBlock, Live, Ending, ResetInv
<1>28. CASE EndCannotEnable
  BY <1>28 DEF EndCannotEnable, RestErased, InErasedBlock, Live, Ending
<1>29. CASE EndActivates  BY <1>29 DEF EndActivates, RestErased, InErasedBlock, Live, Ending
<1>30. CASE EndCannotActivate
  BY <1>30 DEF EndCannotActivate, RestErased, InErasedBlock, Live, Ending
<1>31. CASE PowerLoss  BY <1>31 DEF PowerLoss, RestErased, InErasedBlock, Live, Ending
<1>32. CASE UNCHANGED vars
  <2>1. /\ UNCHANGED <<flash, address, size, progress, pc>> /\ (Live' => Live) /\ (Ending' <=> Ending)
    BY <1>32 DEF vars, slot, object, frame, Live, Ending
  <2>2. InErasedBlock' => InErasedBlock
    BY <2>1, SamePlace DEF InErasedBlock
  <2>3. QED  BY <2>1, <2>2, SamePlace DEF RestErased
<1>33. QED
  BY <1>1, <1>2, <1>3, <1>4, <1>5, <1>6, <1>7, <1>8, <1>9, <1>10, <1>11,
     <1>12, <1>13, <1>14, <1>15, <1>16, <1>17, <1>18, <1>19, <1>20, <1>21,
     <1>22, <1>23, <1>24, <1>25, <1>26, <1>27, <1>28, <1>29, <1>30, <1>31,
     <1>32
  DEF Next

-------------------------------------------------------------------------------
(* Cell 0 of a partition whose firmware is being written.                  *)
LEMMA FirstIsBlank ==
  ASSUME ScalarInv, CountInv, ChunkInv, ChunkErased, FirstInv,
         Live, kind = "app", pc # "enabled", progress > 0 \/ pc = "program"
  PROVE  flash[0] = Blank
<1>1. 0 \in Cells /\ command = "app"
  BY UpdaterAssumption DEF Cells, CountInv
<1>2. CASE progress > 0
  BY <1>1, <1>2 DEF FirstInv
<1>3. CASE ~(progress > 0) /\ pc = "program"
  <2>1. progress = 0 /\ buffer # << >> /\ Flushing
    BY <1>3 DEF ScalarInv, ChunkInv, Flushing
  <2>2. total[session] = progress + Len(buffer) /\ total[session] \in Nat
    BY DEF CountInv, ScalarInv
  <2>3. CASE 0 \in progress .. progress + Len(buffer) - 1
    BY <1>1, <1>3, <2>3 DEF ChunkErased
  <2>4. QED  BY <2>1, <2>2, <2>3
<1>4. QED
  BY <1>2, <1>3

LEMMA BootStays ==
  ASSUME BootInv, UNCHANGED <<kind, flash, session, total>>,
         Live' /\ pc' # "enabled" => Live /\ pc # "enabled"
  PROVE  BootInv'
BY DEF BootInv, HasMagic, Holds

(* Without the magic byte nothing is promised.                             *)
LEMMA BootVoid ==
  ASSUME flash'[0] \in {Blank, Bad} \/ kind' # "app"
  PROVE  BootInv'
BY DEF BootInv, HasMagic

LEMMA BootTakes ==
  ASSUME ScalarInv, DataInv, BootInv, Live, pc # "enabled", NEW n \in Nat, Takes(n),
         UNCHANGED <<kind, flash>>
  PROVE  BootInv'
<1>1. session' = session /\ \A s \in Images : s # session => total'[s] = total[s]
  BY TakesCells DEF Takes
<1>2. SUFFICES ASSUME kind = "app", HasMagic
               PROVE  /\ flash[0] \in Images \X {0} /\ flash[0][1] <= session
                      /\ Holds(flash[0][1])' /\ flash[0][1] # session
  BY <1>1 DEF BootInv, HasMagic
<1>3. /\ flash[0] \in Images \X {0} /\ flash[0][1] <= session
      /\ Holds(flash[0][1]) /\ flash[0][1] # session
  BY <1>2 DEF BootInv
<1>4. flash[0][1] \in Images
  BY <1>3
<1>5. QED
  BY <1>1, <1>3, <1>4 DEF Holds

(* Cutting off an erase or a write keeps a complete firmware or spoils its *)
(* first cell.                                                             *)
LEMMA CutEraseBoot ==
  ASSUME ScalarInv, DataInv, CountInv, ChunkInv, ChunkErased, FirstInv,
         Live, kind = "app", pc # "enabled", NEW f \in CutErase
  PROVE  f = flash \/ f[0] \in {Blank, Bad}
<1>1. 0 \in Cells
  BY UpdaterAssumption DEF Cells
<1>2. CASE progress > 0
  BY <1>1, <1>2, FirstIsBlank, CutEraseCells
<1>3. CASE progress = 0
  BY <1>1, <1>3, CutEraseCells
<1>4. QED
  BY <1>2, <1>3 DEF ScalarInv

LEMMA WithChunkBoot ==
  ASSUME ScalarInv, DataInv, CountInv, ChunkInv, ChunkErased, FirstInv,
         Live, kind = "app", pc = "program", NEW n \in 0 .. Len(Chunk)
  PROVE  WithChunk(n)[0] = Blank
<1>1. 0 \in Cells /\ Flushing /\ command = "app" /\ progress \in Nat
  BY UpdaterAssumption DEF Cells, Flushing, CountInv, ScalarInv
<1>2. Skip \in {0, 1} /\ (Skip = 1 <=> FirstOfFirmware)
  BY <1>1, ChunkIs
<1>3. 0 < progress + Skip
  BY <1>1, <1>2 DEF FirstOfFirmware
<1>4. flash[0] = Blank
  BY FirstIsBlank
<1>5. QED
  BY <1>1, <1>3, <1>4, WithChunkCells

LEMMA CutFlashBoot ==
  ASSUME ScalarInv, DataInv, ResetInv, CountInv, ChunkInv, ChunkErased, FirstInv,
         kind = "app", NEW f \in CutFlash
  PROVE  f = flash \/ f[0] \in {Blank, Bad}
<1>1. CASE pc = "erase" /\ CanErase
  <2>1. f \in CutErase /\ Live
    BY <1>1 DEF CutFlash, Live, ResetInv
  <2>2. QED  BY <1>1, <2>1, CutEraseBoot
<1>2. CASE pc = "program" /\ HasData /\ CanProgram
  <2>1. PICK n \in 0 .. Len(Chunk) : f = WithChunk(n)
    BY <1>2 DEF CutFlash
  <2>2. Live
    BY <1>2 DEF Live, ResetInv
  <2>3. QED  BY <1>2, <2>1, <2>2, WithChunkBoot
<1>3. CASE ~(pc = "erase" /\ CanErase) /\ ~(pc = "program" /\ HasData /\ CanProgram)
  BY <1>3 DEF CutFlash
<1>4. QED
  BY <1>1, <1>2, <1>3

(* What has the magic byte is complete.                                    *)
LEMMA BootStep ==
  ASSUME ScalarInv, DataInv, ResetInv, CallInv, CountInv,
    TotalsInv, EndInv, ChunkInv, BufferInv, WrittenInv, FirstInv, ErasesInv,
    ChunkErased, BootInv, [Next]_vars
  PROVE  BootInv'
<1> USE DEF slot, object, md5, frame, source, Calls, Goes, Returns, Reset,
    Aborts, Idle
<1>1. ASSUME NEW length \in Lengths, NEW known \in BOOLEAN, Begin(length, known)
     PROVE BootInv'
  <2>1. /\ session' > session /\ UNCHANGED <<kind, flash, total>>
        /\ session \in Images /\ session' \in Images
    BY <1>1, BeginSets DEF ScalarInv
  <2>2. \A s \in Images : s <= session => s <= session' /\ s # session'
    BY <2>1 DEF Images
  <2>3. SUFFICES ASSUME kind = "app", HasMagic
                 PROVE  /\ flash[0] \in Images \X {0} /\ flash[0][1] <= session'
                        /\ Holds(flash[0][1])' /\ flash[0][1] # session'
    BY <2>1 DEF BootInv, HasMagic
  <2>4. /\ flash[0] \in Images \X {0} /\ flash[0][1] <= session /\ Holds(flash[0][1])
    BY <2>3 DEF BootInv
  <2>5. flash[0][1] \in Images
    BY <2>4
  <2>6. QED  BY <2>1, <2>2, <2>4, <2>5 DEF Holds
<1>2. CASE BeginFails  BY <1>2, BootStays DEF BeginFails, Live
<1>3. CASE SetMD5  BY <1>3, BootStays DEF SetMD5, Live
<1>4. CASE Abort  BY <1>4, BootStays DEF Abort, Live
<1>5. CASE ClearError  BY <1>5, BootStays DEF ClearError, Live, ResetInv
<1>6. CASE RollBack  BY <1>6, BootStays DEF RollBack, Live
<1>7. ASSUME NEW len \in 0 .. PartitionLen, CallWrite(len) PROVE BootInv'
  BY <1>7, BootStays DEF CallWrite, Live
<1>8. CASE CallWritesTooMuch  BY <1>8, BootStays DEF CallWritesTooMuch, Live
<1>9. CASE WriteFills
  <2>1. SectorLen - Len(buffer) \in Nat /\ Takes(SectorLen - Len(buffer)) /\ Live /\ pc # "enabled" /\ UNCHANGED <<kind, flash>>
    BY <1>9, UpdaterAssumption DEF WriteFills, ScalarInv, DataInv, Live, ResetInv
  <2>2. QED  BY <2>1, BootTakes
<1>10. CASE WriteKeeps
  <2>1. left \in Nat /\ Takes(left) /\ Live /\ pc # "enabled" /\ UNCHANGED <<kind, flash>>
    BY <1>10, UpdaterAssumption DEF WriteKeeps, ScalarInv, DataInv, Live, ResetInv
  <2>2. QED  BY <2>1, BootTakes
<1>11. CASE CallStream  BY <1>11, BootStays DEF CallStream, Live
<1>12. CASE StreamHasNoMagic  BY <1>12, BootStays DEF StreamHasNoMagic, Live
<1>13. ASSUME NEW n \in 1 .. SectorLen, StreamReads(n) PROVE BootInv'
  <2>1. n \in Nat /\ Takes(n) /\ Live /\ pc # "enabled" /\ UNCHANGED <<kind, flash>>
    BY <1>13, UpdaterAssumption DEF StreamReads, ScalarInv, DataInv, Live, ResetInv
  <2>2. QED  BY <2>1, BootTakes
<1>14. CASE StreamTimesOut  BY <1>14, BootStays DEF StreamTimesOut, Live
<1>15. CASE FlushFindsNoMagic  BY <1>15, BootStays DEF FlushFindsNoMagic, ReturnsFalse, Live
<1>16. CASE FlushCannotStash
  BY <1>16, BootStays DEF FlushCannotStash, ReturnsFalse, Live, ResetInv
<1>17. CASE FlushPrepares  BY <1>17, BootStays DEF FlushPrepares, Live, ResetInv
<1>18. CASE FlushErases
  <2>1. ASSUME kind = "app" PROVE flash'[0] = Blank
    <3>1. 0 \in Cells /\ Live /\ pc # "enabled" /\ progress \in Nat
      BY <1>18, UpdaterAssumption DEF FlushErases, Cells, Live, ResetInv, ScalarInv
    <3>2. CASE progress > 0
      <4>1. flash[0] = Blank
        BY <2>1, <3>1, <3>2, FirstIsBlank
      <4>2. QED  BY <1>18, <3>1, <3>2, <4>1, ErasedCells, EraseLenIs DEF FlushErases
    <3>3. CASE progress = 0
      BY <1>18, <3>1, <3>3, ErasedCells, EraseLenIs DEF FlushErases
    <3>4. QED  BY <3>1, <3>2, <3>3
  <2>2. QED  BY <1>18, <2>1, BootVoid DEF FlushErases
<1>19. CASE FlushCannotErase
  <2>1. /\ Live /\ pc # "enabled" /\ ~Live' /\ UNCHANGED <<kind, session, total>>
    BY <1>19 DEF FlushCannotErase, Live, ResetInv
  <2>2. CASE flash' = flash
    BY <2>1, <2>2, BootStays
  <2>3. CASE flash' # flash /\ kind = "app"
    <3>1. flash' \in CutErase
      BY <1>19, <2>3 DEF FlushCannotErase
    <3>2. flash'[0] \in {Blank, Bad}
      BY <2>1, <2>3, <3>1, CutEraseBoot
    <3>3. QED  BY <3>2, BootVoid
  <2>4. QED  BY <2>1, <2>2, <2>3, BootVoid
<1>20. CASE FlushPrograms
  <2>1. /\ pc = "program" /\ Live /\ Flushing /\ kind' = kind /\ UNCHANGED <<session, total>>
        /\ pc' # "enabled"
    BY <1>20 DEF FlushPrograms, ReturnsTrue, Live, Flushing, ResetInv
  <2>2. CASE kind # "app"
    BY <2>1, <2>2, BootVoid
  <2>3. CASE kind = "app"
    <3>1. Len(Chunk) \in 0 .. Len(Chunk)
      BY <2>1, ChunkIs
    <3>2. WithChunk(Len(Chunk))[0] = Blank /\ flash[0] = Blank
      BY <2>1, <2>3, <3>1, WithChunkBoot, FirstIsBlank
    <3>3. flash'[0] = Blank
      BY <1>20, <3>2 DEF FlushPrograms
    <3>4. QED  BY <3>3, BootVoid
  <2>4. QED  BY <2>2, <2>3
<1>21. CASE FlushCannotProgram
  <2>1. /\ pc = "program" /\ Live /\ Flushing /\ kind' = kind
    BY <1>21 DEF FlushCannotProgram, Live, Flushing, ResetInv
  <2>2. CASE kind # "app"
    BY <2>1, <2>2, BootVoid
  <2>3. CASE kind = "app"
    <3>1. Len(Chunk) \in Nat
      BY <2>1, ChunkIs
    <3>2. PICK n \in 0 .. Len(Chunk) : flash' = WithChunk(n)
      BY <1>21, <3>1 DEF FlushCannotProgram
    <3>3. flash'[0] = Blank
      BY <2>1, <2>3, <3>2, WithChunkBoot
    <3>4. QED  BY <3>3, BootVoid
  <2>4. QED  BY <2>2, <2>3
<1>22. CASE EndIsPremature  BY <1>22, BootStays DEF EndIsPremature, Live
<1>23. CASE EndFlushes  BY <1>23, BootStays DEF EndFlushes, Live
<1>24. CASE EndChecks  BY <1>24, BootStays DEF EndChecks, Live
<1>25. CASE EndFindsWrongMd5  BY <1>25, BootStays DEF EndFindsWrongMd5, Live
<1>26. CASE EndOfData  BY <1>26, BootStays DEF EndOfData, Live
<1>27. CASE EndEnables
  <2>1. /\ Live /\ command = "app" /\ pc = "check" /\ pc' = "enabled" /\ stash # << >>
        /\ UNCHANGED <<kind, session, total>>
    BY <1>27 DEF EndEnables, Live, ResetInv
  <2>2. /\ stash = <<Image(session, 0)>> /\ stash[1] = Image(session, 0) /\ flash[0] = Blank
        /\ session \in Images /\ 0 \in Cells
    BY <2>1, UpdaterAssumption DEF FirstInv, ScalarInv, Cells
  <2>3. /\ flash'[0] = Image(session, 0)
        /\ \A c \in Cells : c # 0 => flash'[c] = flash[c]
    <3>1. flash'[0] = Programmed(flash[0], stash[1])
      BY <1>27, <2>2 DEF EndEnables, DataInv
    <3>2. \A c \in Cells : c # 0 => flash'[c] = flash[c]
      BY <1>27 DEF EndEnables, DataInv
    <3>3. QED  BY <2>2, <3>1, <3>2, ProgrammedOnBlank
  <2>4. flash'[0] \in Images \X {0} /\ flash'[0][1] = session
    BY <2>2, <2>3, FirstCell
  <2>5. total[session] = progress /\ progress \in 0 .. PartitionLen
    BY <2>1 DEF CountInv, EndInv, Ending, ScalarInv
  <2>6. ASSUME NEW c \in 0 .. total[session] - 1
        PROVE  c \in Cells /\ (flash'[c] = Image(session, c) \/ Overlooked(session, c))
    <3>1. c \in Cells /\ c < progress /\ (c = 0 \/ c > 0)
      BY <2>5, <2>6, UpdaterAssumption DEF Cells
    <3>2. c > 0 => (flash[c] = Image(session, c) \/ Overlooked(session, c)) /\ c # 0
      BY <2>1, <3>1 DEF WrittenInv, Excepted
    <3>3. QED  BY <2>3, <3>1, <3>2
  <2>7. Holds(session)'
    BY <2>1, <2>6 DEF Holds
  <2>8. session' <= session'
    BY <2>1, <2>2 DEF Images
  <2>9. QED  BY <2>1, <2>4, <2>7, <2>8 DEF BootInv, Holds
<1>28. CASE EndCannotEnable  BY <1>28, BootStays DEF EndCannotEnable, Live
<1>29. CASE EndActivates  BY <1>29, BootStays DEF EndActivates, Live
<1>30. CASE EndCannotActivate  BY <1>30, BootStays DEF EndCannotActivate, Live
<1>31. CASE PowerLoss
  <2>1. ~Live' /\ UNCHANGED <<kind, session, total>>
    BY <1>31 DEF PowerLoss, Live
  <2>2. CASE flash' = [c \in Cells |-> Image(0, c)]
    <3>1. 0 \in Images /\ 0 \in Cells /\ 0 <= session
      BY UpdaterAssumption DEF Images, Cells, ScalarInv
    <3>2. flash'[0] \in Images \X {0} /\ flash'[0][1] = 0
      BY <2>2, <3>1, FirstCell
    <3>3. Holds(0)'
      BY <2>1, <2>2 DEF Holds, TotalsInv, Cells
    <3>4. QED  BY <2>1, <3>1, <3>2, <3>3 DEF BootInv, Holds
  <2>3. CASE flash' = flash
    BY <2>1, <2>3, BootStays
  <2>4. CASE flash' # flash /\ flash' \in CutFlash
    <3>1. kind = "app" => flash'[0] \in {Blank, Bad}
      BY <2>4, CutFlashBoot
    <3>2. QED  BY <2>1, <3>1, BootVoid
  <2>5. QED  BY <1>31, <2>2, <2>3, <2>4 DEF PowerLoss
<1>32. CASE UNCHANGED vars  BY <1>32, BootStays DEF vars, Live
<1>33. QED
  BY <1>1, <1>2, <1>3, <1>4, <1>5, <1>6, <1>7, <1>8, <1>9, <1>10, <1>11,
     <1>12, <1>13, <1>14, <1>15, <1>16, <1>17, <1>18, <1>19, <1>20, <1>21,
     <1>22, <1>23, <1>24, <1>25, <1>26, <1>27, <1>28, <1>29, <1>30, <1>31,
     <1>32
  DEF Next

-------------------------------------------------------------------------------
LEMMA InitHolds == Init => IInv
<1> SUFFICES ASSUME Init PROVE IInv
  OBVIOUS
<1> USE UpdaterAssumption
<1>1. /\ error = FALSE /\ size = 0 /\ progress = 0 /\ command = "app"
      /\ buffer = << >> /\ stash = << >> /\ hasMd5 = FALSE /\ digest = << >>
      /\ pc = "idle" /\ call = "none" /\ left = 0 /\ session = 0 /\ want = 0
      /\ kind \in {"app", "data"} /\ address \in Addresses /\ boot = "running"
  BY DEF Init
<1>2. 0 \in Images /\ 0 \in Cells
  BY DEF Images, Cells
<1>3. flash = [c \in Cells |-> Image(0, c)] /\ flash \in [Cells -> Cell]
  <2>1. \A c \in Cells : c \in Nat
    BY DEF Cells
  <2>2. QED  BY <1>2, <2>1, ImageIsCell DEF Init
<1>4. /\ total \in [Images -> Nat] /\ total[0] = PartitionLen
      /\ \A s \in Images : s > 0 => total[s] = 0
  BY <1>2 DEF Init, Images
<1>5. BoolInv /\ ScalarInv
  <2>1. BoolInv
    BY <1>1, Zenon DEF BoolInv
  <2>2. 0 \in 0 .. PartitionLen
    OBVIOUS
  <2>3. QED  BY <1>1, <1>2, <1>4, <2>1, <2>2 DEF ScalarInv
<1>6. DataInv
  BY <1>1, <1>3 DEF DataInv
<1>7. ~Live /\ ~Ending /\ ~Flushing
  BY <1>1 DEF Live, Ending, Flushing
<1>8. ResetInv /\ CallInv /\ CountInv /\ EndInv /\ ChunkInv /\ BufferInv /\ WrittenInv /\ FirstInv
  BY <1>1, <1>7 DEF ResetInv, CallInv, CountInv, EndInv, ChunkInv, BufferInv, WrittenInv,
                    FirstInv
<1>9. TotalsInv
  BY <1>1, <1>4 DEF TotalsInv
<1>10. ErasesInv /\ ChunkErased /\ RestErased
  BY <1>1, <1>7 DEF ErasesInv, ChunkErased, RestErased, InErasedBlock
<1>11. BootInv
  <2>1. flash[0] \in Images \X {0} /\ flash[0][1] = 0
    BY <1>2, <1>3, FirstCell
  <2>2. Holds(0)
    BY <1>3, <1>4 DEF Holds, Cells
  <2>3. QED  BY <1>1, <1>7, <2>1, <2>2 DEF BootInv
<1>12. QED
  BY <1>5, <1>6, <1>8, <1>9, <1>10, <1>11 DEF IInv

(* The invariant holds as long as the source holds no more than the image. *)
THEOREM Invariance ==
  ASSUME ~Surplus
  PROVE  Spec => []IInv
<1>1. IInv /\ [Next]_vars => IInv'
  <2> SUFFICES ASSUME IInv, [Next]_vars PROVE IInv'
    OBVIOUS
  <2>1. /\ BoolInv /\ ScalarInv /\ DataInv
        /\ ResetInv /\ CallInv /\ CountInv /\ TotalsInv /\ EndInv /\ ChunkInv
        /\ BufferInv /\ WrittenInv /\ FirstInv
        /\ ErasesInv /\ ChunkErased /\ RestErased
        /\ BootInv
    BY DEF IInv
  <2>2. BoolInv' /\ ResetInv' /\ CallInv'
    BY <2>1, BoolStep, ResetStep, CallStep
  <2>3. ScalarInv' /\ DataInv'
    BY <2>1, ScalarStep, DataStep
  <2>4. CountInv' /\ TotalsInv' /\ EndInv' /\ ChunkInv'
    BY <2>1, CountStep, TotalsStep, EndStep, ChunkStep
  <2>5. BufferInv' /\ WrittenInv' /\ FirstInv'
    BY <2>1, BufferStep, WrittenStep, FirstStep
  <2>6. ErasesInv' /\ ChunkErased' /\ RestErased'
    BY <2>1, ErasesStep, ChunkErasedStep, RestErasedStep
  <2>7. BootInv'
    BY <2>1, BootStep
  <2>8. QED
    BY <2>2, <2>3, <2>4, <2>5, <2>6, <2>7 DEF IInv
<1>2. QED
  BY <1>1, InitHolds, PTL DEF Spec

(* Every variable has its type: no counter of the object passes the end of *)
(* the partition, and the buffer never holds more than a sector.           *)
THEOREM TypeCorrect ==
  ASSUME ~Surplus
  PROVE  Spec => []TypeOK
<1>1. IInv => TypeOK
  BY DEF IInv, BoolInv, ScalarInv, DataInv, TypeOK, Cell
<1>2. QED
  BY <1>1, Invariance, PTL

(* Whatever the sizes, wherever the power fails and however often it does: *)
(* a partition with the magic byte of a firmware holds all that was handed *)
(* to write() and writeStream() for one image.                             *)
THEOREM OnlyCompleteBoots ==
  ASSUME ~Surplus
  PROVE  Spec => []BootableIsComplete
<1>1. IInv => BootableIsComplete
  BY DEF IInv, BootInv, BootableIsComplete
<1>2. QED
  BY <1>1, Invariance, PTL

(* What _writeBuffer() programs lands on erased cells, for every way the   *)
(* partition can lie across the blocks of the flash.                       *)
THEOREM LandsOnErased ==
  ASSUME ~Surplus
  PROVE  Spec => []ProgramsErased
<1>1. IInv => ProgramsErased
  <2> SUFFICES ASSUME IInv, pc = "program", NEW c \in Cells,
                      c \in progress + Skip .. progress + Len(buffer) - 1
               PROVE  flash[c] = Blank
    BY DEF ProgramsErased
  <2>1. Skip \in {0, 1} /\ progress \in Nat /\ Len(buffer) \in Nat
    BY DEF IInv, ScalarInv, DataInv, Skip
  <2>2. c \in progress .. progress + Len(buffer) - 1
    BY <2>1
  <2>3. QED  BY <2>2 DEF IInv, ChunkErased
<1>2. QED
  BY <1>1, Invariance, PTL

(* When end() is about to succeed, all that was handed over is on the      *)
(* flash or held back; with a digest, that is the whole image.             *)
THEOREM TruthfulEnd ==
  ASSUME ~Surplus
  PROVE  Spec => []EndIsTruthful
<1>1. IInv => EndIsTruthful
  <2> SUFFICES ASSUME IInv, pc = "check", Md5Matches, command = "data" \/ stash # << >>
               PROVE  /\ \A c \in 0 .. total[session] - 1 :
                           /\ c \in Cells
                           /\ \/ (IF c = 0 /\ command = "app" THEN stash[1] ELSE flash[c])
                                   = Image(session, c)
                              \/ Excepted(c)
                      /\ hasMd5 => total[session] = want
    BY DEF EndIsTruthful, Excepted
  <2>1. Live /\ Ending
    BY DEF IInv, ResetInv, Live, Ending
  <2>2. buffer = << >>
    BY <2>1 DEF IInv, EndInv, ScalarInv
  <2>3. /\ total[session] = progress /\ Len(digest) = progress
        /\ progress \in 0 .. PartitionLen /\ command \in {"app", "data"}
    BY <2>1, <2>2 DEF IInv, CountInv, ScalarInv
  <2>4. ASSUME NEW c \in 0 .. total[session] - 1
        PROVE  /\ c \in Cells
               /\ \/ (IF c = 0 /\ command = "app" THEN stash[1] ELSE flash[c]) = Image(session, c)
                  \/ Excepted(c)
    <3>1. c \in Cells /\ c < progress /\ (c # 0 => c > 0)
      BY <2>3, <2>4, UpdaterAssumption DEF Cells
    <3>2. CASE c = 0 /\ command = "app"
      <4>1. stash # << >> /\ FirstInv
        BY <3>2 DEF IInv
      <4>2. stash = <<Image(session, 0)>>
        BY <2>1, <3>2, <4>1 DEF FirstInv
      <4>3. QED  BY <3>1, <3>2, <4>2
    <3>3. CASE c > 0 \/ command = "data"
      BY <2>1, <3>1, <3>3 DEF IInv, WrittenInv
    <3>4. QED  BY <2>3, <3>1, <3>2, <3>3
  <2>5. ASSUME hasMd5 PROVE total[session] = want
    <3>1. digest = Expected
      BY <2>5 DEF Md5Matches
    <3>2. Len(Expected) = want
      BY DEF Expected, IInv, ScalarInv
    <3>3. QED  BY <2>3, <3>1, <3>2
  <2>6. QED  BY <2>4, <2>5
<1>2. QED
  BY <1>1, Invariance, PTL

(* After an error nothing of the update is left, whatever the source       *)
(* holds: the next call starts anew.                                       *)
THEOREM ErrorsClear == Spec => []ErrorClears
<1>1. Init => BoolInv /\ ResetInv /\ CallInv
  BY InitHolds DEF IInv
<1>2. BoolInv /\ ResetInv /\ CallInv /\ [Next]_vars => (BoolInv /\ ResetInv /\ CallInv)'
  BY BoolStep, ResetStep, CallStep
<1>3. ResetInv => ErrorClears
  BY DEF ResetInv, ErrorClears
<1>4. QED
  BY <1>1, <1>2, <1>3, PTL DEF Spec
===================================================================================
