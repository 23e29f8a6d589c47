----------------------------- MODULE DacOwnership -----------------------------
(***************************************************************************)
(* What the board promises about its one DAC: at any time it belongs to    *)
(* nobody, to a PCM client of sound0, or to the FM receiver, and it never  *)
(* passes from one to the other without having been given back.            *)
(***************************************************************************)
VARIABLE owner

Owners == {"none", "pcm", "fm"}

Init == owner = "none"

Take(o) == owner = "none" /\ owner' = o

Give == owner # "none" /\ owner' = "none"

Next == Take("pcm") \/ Take("fm") \/ Give

Spec == Init /\ [][Next]_owner
=============================================================================
