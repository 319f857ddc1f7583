----------------------------- MODULE MCPlayBuffer -----------------------------
(* Instance for TLC: five distinct bytes through a ring of two slots, read *)
(* in chunks of up to three and decoded in batches of up to two: head and  *)
(* tail wrap twice, a chunk meets a full ring, a batch meets an empty one. *)
EXTENDS PlayBuffer

MCSource == <<1, 2, 3, 4, 5>>
MCData == 1 .. 5
===============================================================================
