------------------------------ MODULE BtBringUp ------------------------------
(***************************************************************************)
(* The Bluetooth controller takes the RF from FM (drv_btctrl.c).  Either   *)
(* the shell's "btctl test" or the NimBLE host thread of "ble start" stops *)
(* FM, creates the controller's worker, and the worker claims the RF from  *)
(* fm0 and brings the controller up.  Between those steps the main thread  *)
(* and the shell go on using fm0.                                          *)
(***************************************************************************)
EXTENDS FmReceiver, Naturals

CONSTANTS
    Commands,           \* what is typed: a subset of {"ble start", "btctl test"}
    Workers             \* threads the two callers can create

ASSUME BtAssumption ==
    /\ Commands \subseteq {"ble start", "btctl test"}
    /\ Callers = {"main", "shell", "nimble"} /\ "none" \notin Workers

VARIABLES
    worker,             \* the thread last created, or "none"
    host_receive, ready, bt_ready,
    started,            \* the semaphore start_host waits on
    bt_rf,              \* bb_init has powered the radio
    place,              \* shell and nimble: where they are
    wpc                 \* workers: where they are

btvars == <<worker, host_receive, ready, bt_ready, started, bt_rf, place, wpc>>

BtInit ==
    /\ FmInit
    /\ worker = "none" /\ host_receive = FALSE /\ ready = FALSE /\ bt_ready = FALSE
    /\ started = 0 /\ bt_rf = FALSE
    /\ place = [t \in {"shell", "nimble"} |-> "idle"]
    /\ wpc = [w \in Workers |-> "none"]

Goto(t, p) == place' = [place EXCEPT ![t] = p]
Returned(t) == fm_lock # t
ShellPrompt == place["shell"] = "idle" /\ Returned("shell")

-----------------------------------------------------------------------------
\* "ble start" creates the NimBLE host thread once.
ble_start ==
    /\ "ble start" \in Commands /\ ShellPrompt
    /\ place["nimble"] = "idle" /\ worker = "none"
    /\ Goto("nimble", "check")
    /\ UNCHANGED <<fmvars, worker, host_receive, ready, bt_ready, started, bt_rf, wpc>>

btctl_test ==
    /\ "btctl test" \in Commands /\ ShellPrompt
    /\ Goto("shell", "check")
    /\ UNCHANGED <<fmvars, worker, host_receive, ready, bt_ready, started, bt_rf, wpc>>

Refused(t) == IF t = "shell" THEN "idle" ELSE "failed"

\* ab32_btctrl_start_host and btctl test begin alike: is there a worker yet?
CheckWorker(t) ==
    /\ place[t] = "check"
    /\ Goto(t, IF worker = "none" THEN "stop" ELSE Refused(t))
    /\ UNCHANGED <<fmvars, worker, host_receive, ready, bt_ready, started, bt_rf, wpc>>

StopFm(t) ==
    /\ place[t] = "stop"
    /\ Stop(t)
    /\ Goto(t, "create")
    /\ UNCHANGED <<worker, host_receive, ready, bt_ready, started, bt_rf, wpc>>

\* FM is off: initialise the semaphores, create and start the worker.
CreateWorker(t, w) ==
    /\ place[t] = "create" /\ Returned(t) /\ wpc[w] = "none"
    /\ worker' = w /\ wpc' = [wpc EXCEPT ![w] = "init"]
    /\ IF t = "nimble"
       THEN host_receive' = TRUE /\ started' = 0 /\ Goto(t, "wait")
       ELSE UNCHANGED <<host_receive, started>> /\ Goto(t, "idle")
    /\ UNCHANGED <<fmvars, ready, bt_ready, bt_rf>>

\* No memory for the thread or the job queue.
CreateFails(t) ==
    /\ place[t] = "create" /\ Returned(t)
    /\ worker' = "none" /\ Goto(t, Refused(t))
    /\ host_receive' = IF t = "nimble" THEN FALSE ELSE host_receive
    /\ UNCHANGED <<fmvars, ready, bt_ready, started, bt_rf, wpc>>

\* start_host waits five seconds for the worker's verdict.
HostStarted ==
    /\ place["nimble"] = "wait" /\ started > 0
    /\ started' = started - 1
    /\ Goto("nimble", IF ready THEN "running" ELSE "failed")
    /\ UNCHANGED <<fmvars, worker, host_receive, ready, bt_ready, bt_rf, wpc>>

HostTimedOut ==
    /\ place["nimble"] = "wait" /\ started = 0
    /\ Goto("nimble", "failed")
    /\ UNCHANGED <<fmvars, worker, host_receive, ready, bt_ready, started, bt_rf, wpc>>

-----------------------------------------------------------------------------
\* bt_worker_entry. What drv_bt_init returns is published before the verdict.
Publish(w, ok) ==
    /\ ready' = ok
    /\ started' = IF host_receive THEN started + 1 ELSE started
    /\ wpc' = [wpc EXCEPT ![w] = IF ok THEN "loop" ELSE "rejected"]

drv_bt_init(w) ==
    /\ wpc[w] = "init"
    /\ \/ bt_ready /\ Publish(w, FALSE)
       \/ ~bt_ready /\ wpc' = [wpc EXCEPT ![w] = "claim"] /\ UNCHANGED <<ready, started>>
    /\ UNCHANGED <<fmvars, worker, host_receive, bt_ready, bt_rf, place>>

\* A worker that powers up before the claim: a mutant.
drv_bt_platform_init_early(w) ==
    /\ wpc[w] = "claim"
    /\ bt_rf' = TRUE
    /\ \/ ab32_fmrx_bt_claim /\ wpc' = [wpc EXCEPT ![w] = "bb_init"] /\ UNCHANGED <<ready, started>>
       \/ Idle /\ playing /\ Publish(w, FALSE) /\ UNCHANGED fmvars
    /\ UNCHANGED <<worker, host_receive, bt_ready, place>>

drv_bt_platform_init(w) ==
    /\ wpc[w] = "claim"
    /\ \/ ab32_fmrx_bt_claim /\ wpc' = [wpc EXCEPT ![w] = "bb_init"] /\ UNCHANGED <<ready, started>>
       \/ Idle /\ playing /\ Publish(w, FALSE) /\ UNCHANGED fmvars
    /\ UNCHANGED <<worker, host_receive, bt_ready, bt_rf, place>>

bb_init(w) ==
    /\ wpc[w] = "bb_init"
    /\ bt_rf' = TRUE /\ bt_ready' = TRUE
    /\ Publish(w, TRUE)
    /\ UNCHANGED <<fmvars, worker, host_receive, place>>

-----------------------------------------------------------------------------
\* fm0 as the main thread, the shell between commands and the others use it.
FmUse ==
    /\ \/ Command("main") \/ (ShellPrompt /\ Command("shell"))
       \/ PllLocks \/ Wake \/ Instant \/ Pcm
    /\ UNCHANGED btvars

BringUp(t) ==
    \/ CheckWorker(t) \/ StopFm(t)
    \/ \E w \in Workers : CreateWorker(t, w)
    \/ CreateFails(t)
HostWait == HostStarted \/ HostTimedOut
Worker(w) == drv_bt_init(w) \/ drv_bt_platform_init(w) \/ bb_init(w)

BtNext ==
    \/ ble_start \/ btctl_test
    \/ \E t \in {"shell", "nimble"} : BringUp(t)
    \/ HostWait
    \/ \E w \in Workers : Worker(w)
    \/ FmUse

allvars == <<fmvars, btvars>>
BtSafeSpec == BtInit /\ [][BtNext]_allvars

\* fm_lock is handed to the waiter of the highest priority when it is given
\* back, and the controller (5) and the host (9) are above the shell and main
\* (20, 10): they get it however often the others come back.
BtSpec ==
    /\ BtSafeSpec
    /\ WF_allvars(Wake /\ UNCHANGED btvars)
    /\ SF_allvars(BringUp("nimble")) /\ WF_allvars(HostWait)
    /\ \A w \in Workers : SF_allvars(Worker(w))

-----------------------------------------------------------------------------
BtTypeOK ==
    /\ worker \in Workers \cup {"none"} /\ host_receive \in BOOLEAN
    /\ ready \in BOOLEAN /\ bt_ready \in BOOLEAN /\ bt_rf \in BOOLEAN /\ started \in Nat
    /\ place \in [{"shell", "nimble"} -> {"idle", "check", "stop", "create", "wait",
                                          "running", "failed"}]
    /\ wpc \in [Workers -> {"none", "init", "claim", "bb_init", "loop", "rejected"}]

\* FM and Bluetooth never drive the RF together, whoever starts FM between the
\* STOP that precedes the bring-up and the claim.
RfExclusive == ~(rf /\ bt_rf)

\* A bring-up that claimed the RF keeps FM out until the reboot, also before
\* the radio is powered.
ClaimKeepsFmOut == \A w \in Workers : wpc[w] \in {"bb_init", "loop"} => bt_claimed /\ ~rf

\* One bring-up until the reboot: "ble start" or "btctl test", not both
\* (docs/rtt/NIMBLE.md:52 and the answer of the commands themselves).
OneBringUp == \A v, w \in Workers : wpc[v] # "none" /\ wpc[w] # "none" => v = w

\* A worker decides: it claims the RF or is refused, whatever FM does.
WorkerDecides == \A w \in Workers : wpc[w] = "init" ~> wpc[w] \in {"loop", "rejected"}

=============================================================================
