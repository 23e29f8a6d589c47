----------------------------- MODULE HciTransport -----------------------------
(***************************************************************************)
(* The HCI transport of the NimBLE port (transport_ab32.c) and the job     *)
(* loop of the controller's worker (drv_btctrl.c).  The host copies a      *)
(* command or an ACL packet into a buffer and submits a job; the worker    *)
(* (btctrl, priority 5) runs one job at a time, pumps the controller and   *)
(* copies what the controller received into the host's pools.              *)
(***************************************************************************)
EXTENDS NplQueue

CONSTANTS
    Slots,              \* the buffers of acl_tx: six
    JOBS                \* the length of host_jobs: eight

Command == "command"

ASSUME TransportAssumption == JOBS \in Nat \ {0} /\ {Command, None} \cap Slots = {}

VARIABLES
    used,               \* acl_tx[slot].used
    jobs,               \* host_jobs: commands and the slots of ACL packets
    slot,               \* the slot the host is filling, or None
    cmd                 \* the host's command buffers not given back: 0 or 1

hcivars == <<used, jobs, slot, cmd>>

HciInit ==
    /\ used = [s \in Slots |-> FALSE] /\ jobs = <<>>
    /\ slot = None /\ cmd = 0

-----------------------------------------------------------------------------
(* The host, in one of its handlers.                                       *)

\* ab32_btctrl_submit: rt_mq_send refuses when the queue is full.
Submit(j) == Len(jobs) < JOBS /\ jobs' = Append(jobs, j)
Refused == Len(jobs) = JOBS /\ UNCHANGED jobs

\* A command: the worker frees its buffer, or to_ll_cmd when it is refused.
ble_transport_to_ll_cmd_impl ==
    /\ At("nimble", "run") /\ cmd = 0
    /\ \/ Submit(Command) /\ cmd' = 1
       \/ Refused /\ UNCHANGED cmd
    /\ UNCHANGED <<nplvars, used, slot>>

\* alloc_acl, or no slot: ENOMEM.  A packet of a bad size is refused before.
alloc_acl ==
    /\ At("nimble", "run")
    /\ \E s \in Slots : ~used[s] /\ slot' = s /\ used' = [used EXCEPT ![s] = TRUE]
    /\ Goto("nimble", "acl")
    /\ UNCHANGED <<evq, wake, posting, releasing, ev, armed, stopped, jobs, cmd>>

\* An error path that forgets the slot: a mutant.
to_ll_acl_leaks ==
    /\ At("nimble", "acl")
    /\ \/ Submit(slot) \/ UNCHANGED jobs
    /\ slot' = None /\ Goto("nimble", "run")
    /\ UNCHANGED <<evq, wake, posting, releasing, ev, armed, stopped, used, cmd>>

\* Copy and submit; bad data and a full queue give the slot back.
to_ll_acl ==
    /\ At("nimble", "acl")
    /\ \/ Submit(slot) /\ UNCHANGED used
       \/ UNCHANGED jobs /\ used' = [used EXCEPT ![slot] = FALSE]
    /\ slot' = None /\ Goto("nimble", "run")
    /\ UNCHANGED <<evq, wake, posting, releasing, ev, armed, stopped, cmd>>

-----------------------------------------------------------------------------
(* The worker.  The host does not run before it sleeps.                    *)

\* fault() makes the host reset itself.
Fault == Post("btctrl", "reset")

\* One job: send_command and send_acl give the buffer back, whatever the
\* controller says.
RunJob ==
    /\ At("btctrl", "loop")
    /\ \/ jobs = <<>> /\ UNCHANGED <<jobs, posting, cmd, used>>
       \/ /\ jobs # <<>> /\ jobs' = Tail(jobs)
          /\ cmd' = IF Head(jobs) = Command THEN 0 ELSE cmd
          /\ used' = IF Head(jobs) = Command THEN used
                     ELSE [used EXCEPT ![Head(jobs)] = FALSE]
          /\ Fault \/ UNCHANGED posting
    /\ Goto("btctrl", "pump")
    /\ UNCHANGED <<evq, wake, releasing, ev, armed, stopped, slot>>

\* pump: nothing, a packet copied for the host, or a bad one or no buffer.
\* Then the next job, or a sleep that a submit, the radio or the tick ends.
Pump ==
    /\ At("btctrl", "pump")
    /\ UNCHANGED posting \/ Post("btctrl", "rx") \/ Fault
    /\ Goto("btctrl", IF jobs = <<>> THEN "sleep" ELSE "loop")
    /\ UNCHANGED <<evq, wake, releasing, ev, armed, stopped, hcivars>>

Woken ==
    /\ At("btctrl", "sleep")
    /\ Goto("btctrl", "loop")
    /\ UNCHANGED <<evq, wake, posting, releasing, ev, armed, stopped, hcivars>>

-----------------------------------------------------------------------------
HciTypeOK ==
    /\ used \in [Slots -> BOOLEAN] /\ jobs \in Seq(Slots \cup {Command})
    /\ slot \in Slots \cup {None} /\ cmd \in 0..1

\* Where a slot is: in the host's hands (0) or in the queue.
Places(s) ==
    {p \in 0..Len(jobs) : IF p = 0 THEN slot = s ELSE jobs[p] = s}

\* Each buffer in use is in exactly one place and will be given back there; a
\* free one is nowhere: no error path loses a slot or gives it back twice.
SlotsAccounted ==
    \A s \in Slots : IF used[s] THEN \E p \in 0..Len(jobs) : Places(s) = {p}
                     ELSE Places(s) = {}
=============================================================================
