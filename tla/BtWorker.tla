------------------------------- MODULE BtWorker -------------------------------
(***************************************************************************)
(* bt_worker_entry (drv_btctrl.c) after the bring-up: with a host it runs  *)
(* the host's jobs, without one it serves the diagnostic commands.  The    *)
(* mode is fixed until the reboot: host_receive is set before the worker   *)
(* is created.                                                             *)
(***************************************************************************)
EXTENDS NimbleHost, BtCommands

VARIABLE host_receive

allvars == <<vars, cmdvars, host_receive>>

WorkerInit == Init /\ CmdInit /\ host_receive \in BOOLEAN

WorkerNext ==
    \/ host_receive /\ Next /\ UNCHANGED <<cmdvars, host_receive>>
    \/ ~host_receive /\ CmdNext /\ UNCHANGED <<vars, host_receive>>

\* The worker's loop goes on.  In the mode that has a host, each thread goes on when it has the processor,
\* and the handlers end.  The threads above the shell leave it some of the
\* processor: the worker sleeps a tick when it has no job, and the radio leaves
\* the host idle now and then.
WorkerSpec ==
    /\ WorkerInit /\ [][WorkerNext]_allvars
    /\ WF_allvars(host_receive /\ (Put("timer") \/ Put("btctrl") \/ Worker) /\ UNCHANGED <<cmdvars, host_receive>>)
    /\ SF_allvars(host_receive /\ (Put("nimble") \/ HostStep) /\ UNCHANGED <<cmdvars, host_receive>>)
    /\ SF_allvars(host_receive /\ Put("shell") /\ UNCHANGED <<cmdvars, host_receive>>)
    /\ []<>(host_receive => MayRun("shell"))
    /\ WF_allvars(~host_receive /\ DiagnosticStep /\ UNCHANGED <<vars, host_receive>>)
=============================================================================
