------------------------------- MODULE BytePipe -------------------------------
(***************************************************************************)
(* What the playback buffer of Audio.cpp promises to its two users: a      *)
(* bounded pipe of bytes from the read task to the decode task.  Bytes     *)
(* come out in the order they went in, none is lost, none is invented, no  *)
(* more than Capacity bytes are inside at any time, and the decode task    *)
(* may announce a complete playback only when the read task has closed its *)
(* end and nothing is left inside.                                         *)
(***************************************************************************)
EXTENDS Integers, Sequences

CONSTANTS
  Data,      \* the bytes
  Capacity   \* how many bytes the pipe holds

VARIABLES
  produced,  \* every byte put in so far
  delivered, \* every byte taken out so far
  closed,    \* the producer has put its last byte
  outcome    \* "NONE" while the consumer works, then how it ended

pipeVars == <<produced, delivered, closed, outcome>>

Init ==
  /\ produced = << >>
  /\ delivered = << >>
  /\ closed = FALSE
  /\ outcome = "NONE"

Produce ==
  /\ ~closed
  /\ Len(produced) - Len(delivered) < Capacity
  /\ \E b \in Data : produced' = Append(produced, b)
  /\ UNCHANGED <<delivered, closed, outcome>>

Deliver ==
  /\ outcome = "NONE"
  /\ Len(delivered) < Len(produced)
  /\ delivered' = Append(delivered, produced[Len(delivered) + 1])
  /\ UNCHANGED <<produced, closed, outcome>>

Close ==
  /\ ~closed
  /\ closed' = TRUE
  /\ UNCHANGED <<produced, delivered, outcome>>

(* The consumer ends having seen everything ...                            *)
Finish ==
  /\ outcome = "NONE"
  /\ closed
  /\ Len(delivered) = Len(produced)
  /\ outcome' = "IDLE"
  /\ UNCHANGED <<produced, delivered, closed>>

(* ... or because it was told to stop, or failed.                          *)
Abort ==
  /\ outcome = "NONE"
  /\ outcome' = "STOPPED"
  /\ UNCHANGED <<produced, delivered, closed>>

Next == Produce \/ Deliver \/ Close \/ Finish \/ Abort

Spec == Init /\ [][Next]_pipeVars
===============================================================================
