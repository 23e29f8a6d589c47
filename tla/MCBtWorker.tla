----------------------------- MODULE MCBtWorker -----------------------------
(* One ACL buffer and one command for a job queue of one: both can be full. *)
EXTENDS BtWorker
=============================================================================
