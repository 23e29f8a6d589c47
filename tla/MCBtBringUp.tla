---------------------------- MODULE MCBtBringUp ----------------------------
(* One frequency and two volumes; two workers, which is one more than the   *)
(* code means to create.                                                    *)
EXTENDS BtBringUp
=============================================================================
