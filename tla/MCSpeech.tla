-------------------------------- MODULE MCSpeech --------------------------------
(* Instance of Speech for TLC: speeches, and recognitions, are              *)
(* interchangeable.                                                         *)
EXTENDS Speech, TLC

Interchangeable ==
  {p @@ q : p \in Permutations(Speeches), q \in Permutations(Runs)}
================================================================================
