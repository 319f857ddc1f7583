-------------------------------- MODULE Updater --------------------------------
(***************************************************************************)
(* UpdateClass (Updater.cpp, Update.h): writing a new image to a partition *)
(* of the flash.  The object keeps a buffer of one flash sector, erases    *)
(* ahead of what it programs, by whole blocks where it can, and holds the  *)
(* first 16 bytes of a firmware back until end(), so that a partition on   *)
(* which an update was cut off is not bootable.  Every flash operation is  *)
(* a step of its own; the power may fail before, in and after each.        *)
(*                                                                         *)
(* The unit is a cell of ENCRYPTED_BLOCK_SIZE (16) bytes, taken to be      *)
(* programmed as a whole.  A cell holds <<s, k>>, the k-th cell of the     *)
(* image of session s, or is Blank (all ones, as after an erase), or Bad:  *)
(* programmed over something else, or in a sector whose erase was cut off. *)
(* Image 0 is a firmware that was on the partition before.                 *)
(*                                                                         *)
(* The partition is not encrypted and the image needs no decryption.       *)
(***************************************************************************)
EXTENDS Integers, Sequences

CONSTANTS
  SectorLen,    \* SPI_FLASH_SEC_SIZE, in cells
  BlockSectors, \* SPI_SECTORS_PER_BLOCK
  Addresses,    \* where a data partition may lie; a firmware's is aligned
  PartitionLen, \* _partition->size, in cells
  Holes,        \* the cells of an image that are all ones
  Ragged,       \* the cells of an image of which only the first word is
  Headless,     \* the images whose first cell is all ones but for its first
                \* word (no entry address, no chip: not a valid firmware)
  Lengths,      \* bound: how long an image may be, in cells
  MaxSessions,  \* bound: how many updates are begun
  Surplus       \* the source may hold more than the image

Wrap == 65536 \* bound: 2^32 of size_t, larger than any partition

ASSUME UpdaterAssumption ==
  /\ SectorLen \in Nat \ {0} /\ BlockSectors \in Nat \ {0}
  /\ Addresses \subseteq {a \in Nat : a % SectorLen = 0}
  /\ PartitionLen \in Nat \ {0} /\ PartitionLen % SectorLen = 0
  /\ Holes \subseteq Nat \ {0} /\ Ragged \subseteq Nat \ (Holes \union {0})
  /\ Headless \subseteq Nat \ {0}
  /\ PartitionLen < Wrap
  /\ Lengths \subseteq 1 .. PartitionLen
  /\ MaxSessions \in Nat
  /\ Surplus \in BOOLEAN

VARIABLES
  kind, address, \* of the partition: "app" or "data", and where it starts
  flash,    \* its cells
  boot,     \* the slot the device boots from next: "running" or "target"
  error,    \* _error is not UPDATE_ERROR_OK
  size, progress, command, \* _size, _progress, _command
  buffer,   \* _buffer[0 .. _bufferLen)
  stash,    \* _skipBuffer: << >> for nullptr, or one cell
  hasMd5,   \* _target_md5 is set, to the digest of the whole image
  digest,   \* what _md5 was given
  pc,       \* where the call is
  call,     \* "write", "stream", "end", or "none"
  left,     \* left in write()
  session,  \* number of the current image
  want,     \* its length
  total     \* ghost: per image, its cells handed over so far

slot == <<kind, address>>
object == <<error, size, progress, command, buffer, stash>>
md5 == <<hasMd5, digest>>
frame == <<pc, call, left>>
source == <<session, want, total>>
vars == <<slot, flash, boot, object, md5, frame, source>>

BlockLen == BlockSectors * SectorLen
Cells == 0 .. PartitionLen - 1
Images == 0 .. MaxSessions
Blank == <<-1, 0>>
Bad == <<-1, 1>>
Image(s, k) == IF k \in Holes THEN Blank ELSE <<s, k>>

(* NOR flash only clears bits: ones leave a cell as it is.                 *)
Programmed(old, new) ==
  IF new = Blank THEN old ELSE IF old = Blank THEN new ELSE Bad

Remaining == (size - progress) % Wrap

Init ==
  /\ kind \in {"app", "data"}
  /\ address \in Addresses
  /\ kind = "app" => address % BlockLen = 0
  /\ flash = [c \in Cells |-> Image(0, c)]
  /\ boot = "running"
  /\ error = FALSE /\ size = 0 /\ progress = 0 /\ command = "app"
  /\ buffer = << >> /\ stash = << >>
  /\ hasMd5 = FALSE /\ digest = << >>
  /\ pc = "idle" /\ call = "none" /\ left = 0
  /\ session = 0 /\ want = 0
  /\ total = [s \in Images |-> IF s = 0 THEN PartitionLen ELSE 0]

(* A call begins, goes on within itself, or returns.                      *)
Calls(name, to) == pc' = to /\ call' = name /\ left' = 0
Goes(from, to) == pc = from /\ pc' = to /\ UNCHANGED <<call, left>>
Returns == pc' = "idle" /\ call' = "none" /\ left' = 0

(* Faulty variants of a definition stand before it, named ...Mutant.  TLC  *)
(* is run with each of them in place of the definition, to see that a      *)
(* property notices.  This one leaves _skipBuffer to the next begin().     *)
ResetMutant ==
  /\ buffer' = << >>
  /\ progress' = 0 /\ size' = 0 /\ command' = "app"
  /\ UNCHANGED stash

(* _reset().                                                               *)
Reset ==
  /\ buffer' = << >> /\ stash' = << >>
  /\ progress' = 0 /\ size' = 0 /\ command' = "app"

(* _abort(err); which error it is makes no difference here.               *)
Aborts == Reset /\ error' = TRUE

-------------------------------------------------------------------------------
(* Calls of the application that touch no flash.                           *)

Begin(length, known) ==
  /\ pc = "idle" /\ size = 0 /\ session < MaxSessions
  /\ size' = IF known THEN length ELSE PartitionLen
  /\ error' = FALSE
  /\ progress' = 0 /\ buffer' = << >> /\ stash' = << >>
  /\ command' = kind
  /\ hasMd5' = FALSE /\ digest' = << >>
  /\ session' = session + 1 /\ want' = length
  /\ UNCHANGED <<slot, flash, boot, frame, total>>

(* A size of zero, no partition, too large; or no memory, which sets no    *)
(* error.                                                                  *)
BeginFails ==
  /\ pc = "idle" /\ size = 0
  /\ Reset
  /\ error' \in BOOLEAN
  /\ hasMd5' = FALSE /\ digest' = << >>
  /\ UNCHANGED <<slot, flash, boot, frame, source>>

(* begin() forgets a digest that was set before it.                        *)
SetMD5 ==
  /\ pc = "idle" /\ size > 0 /\ ~hasMd5
  /\ hasMd5' = TRUE
  /\ UNCHANGED <<slot, flash, boot, object, digest, frame, source>>

Abort ==
  /\ pc = "idle"
  /\ Aborts
  /\ UNCHANGED <<slot, flash, boot, md5, frame, source>>

ClearError ==
  /\ pc = "idle" /\ error
  /\ error' = FALSE
  /\ UNCHANGED <<slot, flash, boot, size, progress, command, buffer, stash, md5, frame, source>>

HasMagic == flash[0] \notin {Blank, Bad}

(* rollBack() when no update runs: the magic byte, then the validation in  *)
(* esp_ota_set_boot_partition.                                             *)
RollBack ==
  /\ pc = "idle" /\ size = 0 /\ kind = "app" /\ HasMagic
  /\ boot' = "target"
  /\ UNCHANGED <<slot, flash, object, md5, frame, source>>

Idle == pc = "idle" /\ ~error /\ size > 0

(* What the source still holds.                                            *)
Supply == (IF Surplus THEN PartitionLen + SectorLen ELSE want) - total[session]

(* n more cells of the image into the buffer.                              *)
Takes(n) ==
  /\ buffer' = buffer \o [i \in 1 .. n |-> Image(session, total[session] + i - 1)]
  /\ total' = [total EXCEPT ![session] = @ + n]
  /\ UNCHANGED <<error, size, progress, command, stash, session, want>>

-------------------------------------------------------------------------------
(* write(data, len).  The template write(T &) cuts what is available down  *)
(* to what the update still needs, and is then the same.                   *)

CallWrite(len) ==
  /\ Idle /\ len <= Supply /\ len <= Remaining
  /\ pc' = "fill" /\ call' = "write" /\ left' = len
  /\ UNCHANGED <<slot, flash, boot, object, md5, source>>

CallWritesTooMuch ==
  /\ Idle
  /\ Aborts
  /\ UNCHANGED <<slot, flash, boot, md5, frame, source>>

(* Faulty: copies a whole sector behind what the buffer holds.             *)
WriteFillsMutant ==
  /\ pc = "fill" /\ Len(buffer) + left > SectorLen
  /\ Takes(IF left > SectorLen THEN SectorLen ELSE left)
  /\ pc' = "flush" /\ call' = call
  /\ left' = IF left > SectorLen THEN left - SectorLen ELSE 0
  /\ UNCHANGED <<slot, flash, boot, md5>>

(* The buffer is full and more is to come.                                 *)
WriteFills ==
  /\ pc = "fill" /\ Len(buffer) + left > SectorLen
  /\ Takes(SectorLen - Len(buffer))
  /\ pc' = "flush" /\ call' = call
  /\ left' = left - (SectorLen - Len(buffer))
  /\ UNCHANGED <<slot, flash, boot, md5>>

(* The rest fits: it is written now only if it is the last of the update.  *)
WriteKeeps ==
  /\ pc = "fill" /\ Len(buffer) + left <= SectorLen
  /\ Takes(left)
  /\ IF Len(buffer) + left = Remaining THEN Calls("write", "flush") ELSE Returns
  /\ UNCHANGED <<slot, flash, boot, md5>>

-------------------------------------------------------------------------------
(* writeStream(data).                                                      *)

CallStream ==
  /\ Idle
  /\ IF Remaining = 0 THEN Returns ELSE Calls("stream", "read")
  /\ UNCHANGED <<slot, flash, boot, object, md5, source>>

(* The stream's next byte is not the magic one.                            *)
StreamHasNoMagic ==
  /\ Idle /\ command = "app"
  /\ Aborts
  /\ UNCHANGED <<slot, flash, boot, md5, frame, source>>

BytesToRead ==
  IF SectorLen - Len(buffer) > Remaining THEN Remaining ELSE SectorLen - Len(buffer)

(* readBytes returns what came in before its timeout.                      *)
StreamReads(n) ==
  /\ n <= BytesToRead /\ n <= Supply
  /\ Goes("read", IF Len(buffer) + n \in {Remaining, SectorLen} THEN "flush" ELSE "read")
  /\ Takes(n)
  /\ UNCHANGED <<slot, flash, boot, md5>>

StreamTimesOut ==
  /\ pc = "read" /\ Returns
  /\ Aborts
  /\ UNCHANGED <<slot, flash, boot, md5, source>>

-------------------------------------------------------------------------------
(* _writeBuffer(), and where its callers go on.  end() does not look at    *)
(* its result.                                                             *)

ReturnsTrue ==
  /\ size' = IF call = "end" THEN progress' ELSE size
  /\ CASE call = "write" /\ left > 0 -> Goes(pc, "fill")
       [] call = "stream" /\ (size - progress') % Wrap # 0 -> Goes(pc, "read")
       [] call = "end" -> Goes(pc, "check")
       [] OTHER -> Returns

ReturnsFalse == IF call = "end" THEN Goes(pc, "check") ELSE Returns

FirstOfFirmware == progress = 0 /\ command = "app"

(* Faulty: the whole first chunk is programmed at once.                    *)
SkipMutant == 0

Skip == IF FirstOfFirmware THEN 1 ELSE 0

FlushFindsNoMagic ==
  /\ pc = "flush" /\ FirstOfFirmware
  /\ Aborts /\ ReturnsFalse
  /\ UNCHANGED <<slot, flash, boot, md5, source>>

(* No memory for _skipBuffer: false, without an abort.                     *)
FlushCannotStash ==
  /\ pc = "flush" /\ FirstOfFirmware
  /\ ReturnsFalse
  /\ stash' = << >>
  /\ size' = IF call = "end" THEN progress ELSE size
  /\ UNCHANGED <<slot, flash, boot, error, progress, command, buffer, md5, source>>

FlashOffset == address + progress
ErasesBlock == Remaining >= BlockLen /\ FlashOffset % BlockLen = 0
InHeadBlock ==
  /\ address % BlockLen # 0
  /\ FlashOffset < (address \div BlockLen + 1) * BlockLen

(* Faulty: the tail begins one block too late.                             *)
InTailBlockMutant == FlashOffset >= ((address + size) \div BlockLen + 1) * BlockLen

InTailBlock == FlashOffset >= ((address + size) \div BlockLen) * BlockLen

Erases == ErasesBlock \/ InHeadBlock \/ InTailBlock
EraseLen == IF ErasesBlock THEN BlockLen ELSE SectorLen

FlushPrepares ==
  /\ Goes("flush", IF Erases THEN "erase" ELSE "program")
  /\ stash' = IF FirstOfFirmware THEN <<buffer[1]>> ELSE stash
  /\ UNCHANGED <<slot, flash, boot, error, size, progress, command, buffer, md5, source>>

(* The driver refuses what is not aligned or not inside the partition.     *)
CanErase == progress % SectorLen = 0 /\ progress + EraseLen <= PartitionLen

Erased(n) ==
  [c \in Cells |-> IF c \in progress .. progress + n - 1 THEN Blank ELSE flash[c]]

(* An erase goes sector by sector; the one it was cut off in is garbage.   *)
CutErase ==
  {flash} \union
  {[c \in Cells |-> IF c \in progress + n .. progress + n + SectorLen - 1
                    THEN Bad ELSE Erased(n)[c]] :
     n \in {m \in 0 .. EraseLen - 1 : m % SectorLen = 0}}

FlushErases ==
  /\ Goes("erase", "program") /\ CanErase
  /\ flash' = Erased(EraseLen)
  /\ UNCHANGED <<slot, boot, object, md5, source>>

FlushCannotErase ==
  /\ pc = "erase"
  /\ flash' \in IF CanErase THEN CutErase ELSE {flash}
  /\ Aborts /\ ReturnsFalse
  /\ UNCHANGED <<slot, boot, md5, source>>

Chunk == SubSeq(buffer, Skip + 1, Len(buffer))
CanProgram == progress + Len(buffer) <= PartitionLen

(* _chkDataInBlock: a chunk of ones only is not programmed.  For the first *)
(* chunk of a firmware the pointer it gets is a byte pointer advanced by a *)
(* number of words: the test begins in the second word of the cell that is *)
(* held back, and ends with the first word of the chunk's last cell.       *)
FirstWordIsBlank(cell) == cell = Blank \/ cell[2] \in Ragged
HasData ==
  \/ Chunk = << >>
  \/ /\ ~FirstOfFirmware
     /\ \E i \in 1 .. Len(Chunk) : Chunk[i] # Blank
  \/ /\ FirstOfFirmware
     /\ \/ session \notin Headless
        \/ \E i \in 2 .. Len(buffer) - 1 : buffer[i] # Blank
        \/ ~FirstWordIsBlank(buffer[Len(buffer)])

(* The first n cells of the chunk are programmed.                          *)
WithChunk(n) ==
  [c \in Cells |->
     IF c \in progress + Skip .. progress + Skip + n - 1
     THEN Programmed(flash[c], Chunk[c - progress - Skip + 1])
     ELSE flash[c]]

FlushPrograms ==
  /\ pc = "program" /\ (HasData => CanProgram)
  /\ flash' = IF HasData THEN WithChunk(Len(Chunk)) ELSE flash
  /\ digest' = digest \o buffer
  /\ progress' = progress + Len(buffer)
  /\ buffer' = << >>
  /\ ReturnsTrue
  /\ UNCHANGED <<slot, boot, error, command, stash, hasMd5, source>>

FlushCannotProgram ==
  /\ pc = "program" /\ HasData
  /\ \E n \in IF CanProgram THEN 0 .. Len(Chunk) ELSE {0} : flash' = WithChunk(n)
  /\ Aborts /\ ReturnsFalse
  /\ UNCHANGED <<slot, boot, md5, source>>

-------------------------------------------------------------------------------
(* end(evenIfRemaining).                                                   *)

EndIsPremature ==
  /\ Idle /\ progress # size
  /\ Aborts
  /\ UNCHANGED <<slot, flash, boot, md5, frame, source>>

(* Faulty: what is left in the buffer is forgotten.                        *)
EndFlushesMutant ==
  /\ Idle /\ buffer # << >>
  /\ Calls("end", "check")
  /\ size' = progress
  /\ UNCHANGED <<slot, flash, boot, error, progress, command, buffer, stash, md5, source>>

(* end(true) with something left in the buffer.                            *)
EndFlushes ==
  /\ Idle /\ buffer # << >>
  /\ Calls("end", "flush")
  /\ UNCHANGED <<slot, flash, boot, object, md5, source>>

(* end() of a finished update, or end(true) with an empty buffer.          *)
EndChecks ==
  /\ Idle
  /\ progress = size \/ buffer = << >>
  /\ Calls("end", "check")
  /\ size' = progress
  /\ UNCHANGED <<slot, flash, boot, error, progress, command, buffer, stash, md5, source>>

Expected == [i \in 1 .. want |-> Image(session, i - 1)]
Md5Matches == hasMd5 => digest = Expected

EndFindsWrongMd5 ==
  /\ pc = "check" /\ Returns /\ ~Md5Matches
  /\ Aborts
  /\ UNCHANGED <<slot, flash, boot, md5, source>>

EndOfData ==
  /\ pc = "check" /\ Returns /\ Md5Matches /\ command = "data"
  /\ Reset
  /\ UNCHANGED <<slot, flash, boot, error, md5, source>>

(* _enablePartition writes the 16 bytes held back; the driver refuses a    *)
(* null pointer.                                                           *)
EndEnables ==
  /\ Goes("check", "enabled") /\ Md5Matches /\ command = "app"
  /\ stash # << >>
  /\ flash' = [flash EXCEPT ![0] = Programmed(@, stash[1])]
  /\ UNCHANGED <<slot, boot, object, md5, source>>

EndCannotEnable ==
  /\ pc = "check" /\ Returns /\ Md5Matches /\ command = "app"
  /\ Aborts
  /\ UNCHANGED <<slot, flash, boot, md5, source>>

(* _partitionIsBootable, then esp_ota_set_boot_partition.                  *)
EndActivates ==
  /\ pc = "enabled" /\ Returns /\ HasMagic
  /\ boot' = "target"
  /\ Reset
  /\ UNCHANGED <<slot, flash, error, md5, source>>

EndCannotActivate ==
  /\ pc = "enabled" /\ Returns
  /\ Aborts
  /\ UNCHANGED <<slot, flash, boot, md5, source>>

-------------------------------------------------------------------------------
(* Power loss: the flash operation in progress is cut off, the object is   *)
(* new.  When the device then boots from the partition just written, the   *)
(* other slot, with the complete firmware it ran until now, becomes the    *)
(* target of the next update.                                              *)

CutFlash ==
  CASE pc = "erase" /\ CanErase -> CutErase
    [] pc = "program" /\ HasData /\ CanProgram -> {WithChunk(n) : n \in 0 .. Len(Chunk)}
    [] OTHER -> {flash}

PowerLoss ==
  /\ flash' \in IF boot = "target" /\ HasMagic
                THEN {[c \in Cells |-> Image(0, c)]} ELSE CutFlash
  /\ boot' = "running"
  /\ Reset /\ error' = FALSE
  /\ hasMd5' = FALSE /\ digest' = << >>
  /\ Returns
  /\ UNCHANGED <<slot, source>>

Next ==
  \/ \E length \in Lengths, known \in BOOLEAN : Begin(length, known)
  \/ BeginFails \/ SetMD5 \/ Abort \/ ClearError \/ RollBack
  \/ \E len \in 0 .. PartitionLen : CallWrite(len)
  \/ CallWritesTooMuch \/ WriteFills \/ WriteKeeps
  \/ CallStream \/ StreamHasNoMagic
  \/ \E n \in 1 .. SectorLen : StreamReads(n)
  \/ StreamTimesOut
  \/ FlushFindsNoMagic \/ FlushCannotStash \/ FlushPrepares
  \/ FlushErases \/ FlushCannotErase
  \/ FlushPrograms \/ FlushCannotProgram
  \/ EndIsPremature \/ EndFlushes \/ EndChecks
  \/ EndFindsWrongMd5 \/ EndOfData
  \/ EndEnables \/ EndCannotEnable \/ EndActivates \/ EndCannotActivate
  \/ PowerLoss

Spec == Init /\ [][Next]_vars

-------------------------------------------------------------------------------
(* Every variable has its type.                                            *)
TypeOK ==
  /\ kind \in {"app", "data"} /\ address \in Addresses
  /\ flash \in [Cells -> (Images \X Nat) \union {Blank, Bad}]
  /\ boot \in {"running", "target"}
  /\ error \in BOOLEAN
  /\ size \in 0 .. PartitionLen /\ progress \in 0 .. PartitionLen
  /\ command \in {"app", "data"}
  /\ Len(buffer) <= SectorLen /\ Len(stash) <= 1
  /\ hasMd5 \in BOOLEAN
  /\ pc \in {"idle", "fill", "read", "flush", "erase", "program", "check", "enabled"}
  /\ call \in {"none", "write", "stream", "end"}
  /\ left \in 0 .. PartitionLen
  /\ session \in Images /\ want \in 0 .. PartitionLen
  /\ total \in [Images -> Nat]

(* What the test of the first chunk overlooks: a cell that ends the chunk  *)
(* and has data only behind its first word, in an image that begins with   *)
(* a blank head.  No valid firmware has one.                               *)
Overlooked(s, c) == s \in Headless /\ c \in Ragged /\ c < SectorLen

(* "Partially written firmware will not be bootable": whenever the power   *)
(* may fail, a partition with the magic byte holds all of one image, every *)
(* cell that was handed to write() or writeStream() for it, but for the    *)
(* one cell the test of the first chunk may overlook.                      *)
Holds(s) ==
  \A c \in 0 .. total[s] - 1 :
    c \in Cells /\ (flash[c] = Image(s, c) \/ Overlooked(s, c))
BootableIsComplete ==
  kind = "app" /\ HasMagic => flash[0][2] = 0 /\ Holds(flash[0][1])

(* What is programmed lands on erased cells only, wherever the partition   *)
(* lies and however long the image is, although one erase of a block       *)
(* serves the chunks of sixteen calls.                                     *)
ProgramsErased ==
  pc = "program" =>
    \A c \in Cells : c \in progress + Skip .. progress + Len(buffer) - 1
                       => flash[c] = Blank

(* When end() is about to succeed, on firmware or on data, everything that *)
(* was handed over is on the flash or (its first cell) held back, also     *)
(* when a write failed on the way; with a digest that is the whole image.  *)
(* The cell the test of a firmware's first chunk may overlook is excepted: *)
(* the digest is of what was handed over, not of what is on the flash.     *)
EndIsTruthful ==
  pc = "check" /\ Md5Matches /\ (command = "data" \/ stash # << >>) =>
    /\ \A c \in 0 .. total[session] - 1 :
         /\ c \in Cells
         /\ \/ (IF c = 0 /\ command = "app" THEN stash[1] ELSE flash[c]) = Image(session, c)
            \/ command = "app" /\ Overlooked(session, c)
    /\ hasMd5 => total[session] = want

(* An error has cleared everything: no later call goes on with it.         *)
ErrorClears == error /\ pc = "idle" => size = 0 /\ buffer = << >> /\ stash = << >>

(* "Writes the remaining bytes from the Stream", returning the bytes       *)
(* written, which "should be equal to the remaining bytes when called":    *)
(* writeStream() never writes past the announced size.                     *)
StreamKeepsToSize == pc = "read" => progress <= size
===============================================================================
