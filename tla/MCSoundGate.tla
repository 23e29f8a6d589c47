----------------------------- MODULE MCSoundGate -----------------------------
(***************************************************************************)
(* sound0 alone, with the replay pool of rtconfig.h (two blocks), for the  *)
(* two things its comments promise and the code does not keep.             *)
(***************************************************************************)
EXTENDS SoundGate

SafeSpec == Init /\ [][Next]_vars
=============================================================================
