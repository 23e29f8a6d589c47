------------------------------ MODULE NimbleHost ------------------------------
(***************************************************************************)
(* The NimBLE application (app_nimble.c) on its event queue and transport: *)
(* one advertised service, one connection, and the shell's "ble adv" and   *)
(* "ble stop".  Of the NimBLE stack (vendored) only what the application   *)
(* sees is here: it synchronises or resets, a connection ends the          *)
(* advertising, starting and stopping it may fail.                         *)
(***************************************************************************)
EXTENDS HciTransport

VARIABLES
    synced, connected,
    adv_active,         \* ble_gap_adv_active
    failed,             \* last_error # 0
    action,             \* the shell's request, or None
    by_shell            \* history: the shell's stop ended the advertising

appvars == <<synced, connected, adv_active, failed, action, by_shell>>
vars == <<nplvars, hcivars, appvars>>

Init ==
    /\ NplInit /\ HciInit
    /\ synced = FALSE /\ connected = FALSE /\ adv_active = FALSE
    /\ failed = FALSE /\ action = None /\ by_shell = FALSE

\* advertise, in the state the callback has just reached.
Advertise(isSynced, isConnected, isActive, error) ==
    IF isSynced /\ ~isConnected /\ ~isActive
    THEN /\ failed' \in BOOLEAN /\ adv_active' = ~failed'
         /\ by_shell' = (by_shell /\ failed')
    ELSE adv_active' = isActive /\ failed' = error /\ UNCHANGED by_shell

-----------------------------------------------------------------------------
(* What the host does with the event it has taken.                         *)
on_sync ==
    /\ ev = "rx" /\ ~synced
    /\ \E error \in BOOLEAN :
        synced' = ~error /\ Advertise(~error, connected, adv_active, error)
    /\ UNCHANGED <<connected, action>>

on_reset ==
    /\ ev = "reset"
    /\ synced' = FALSE /\ connected' = FALSE /\ adv_active' = FALSE /\ failed' = TRUE
    /\ UNCHANGED <<action, by_shell>>

Connect ==
    /\ ev = "rx" /\ adv_active
    /\ \/ /\ connected' = TRUE /\ adv_active' = FALSE /\ failed' = FALSE
          /\ UNCHANGED by_shell
       \/ Advertise(synced, connected, FALSE, TRUE) /\ UNCHANGED connected
    /\ UNCHANGED <<synced, action>>

\* A disconnection seen before the handle is forgotten: a mutant.
Disconnect_early ==
    /\ ev = "rx" /\ connected
    /\ connected' = FALSE /\ Advertise(synced, connected, adv_active, failed)
    /\ UNCHANGED <<synced, action>>

Disconnect ==
    /\ ev = "rx" /\ connected
    /\ connected' = FALSE /\ Advertise(synced, FALSE, adv_active, failed)
    /\ UNCHANGED <<synced, action>>

AdvComplete ==
    /\ ev = "rx" /\ adv_active
    /\ Advertise(synced, connected, FALSE, failed)
    /\ UNCHANGED <<synced, connected, action>>

\* A control that does not accept the next request: a mutant.
control_keeps ==
    /\ ev = "control"
    /\ \/ action = "adv" /\ Advertise(synced, connected, adv_active, failed)
       \/ action = "stop" /\ failed' = ~adv_active /\ adv_active' = FALSE
          /\ by_shell' = (by_shell \/ adv_active)
    /\ UNCHANGED <<synced, connected, action>>

\* The event of ble adv and ble stop.
control ==
    /\ ev = "control"
    /\ action' = None
    /\ \/ action = "adv" /\ Advertise(synced, connected, adv_active, failed)
       \/ action = "stop" /\ failed' = ~adv_active /\ adv_active' = FALSE
          /\ by_shell' = (by_shell \/ adv_active)
    /\ UNCHANGED <<synced, connected>>

\* Data, a callout that ran out, a notification: nothing of the application.
Other == ev \in {"rx", "callout", "notify"} /\ UNCHANGED appvars

Handle ==
    /\ At("nimble", "run") /\ ev # None
    /\ on_sync \/ on_reset \/ Connect \/ Disconnect \/ AdvComplete \/ control \/ Other
    /\ ev' = None
    /\ UNCHANGED <<evq, wake, posting, releasing, place, armed, stopped, hcivars>>

\* What the stack does on the way: callouts, a notification to itself.
Callout ==
    /\ At("nimble", "run") /\ ev = None
    /\ callout_stop \/ callout_reset
    /\ UNCHANGED <<wake, posting, releasing, place, ev, hcivars, appvars>>

Notify ==
    /\ At("nimble", "run") /\ ev = None
    /\ Post("nimble", "notify")
    /\ UNCHANGED <<evq, wake, releasing, place, ev, armed, stopped, hcivars, appvars>>

Transmit ==
    /\ ev = None
    /\ ble_transport_to_ll_cmd_impl \/ alloc_acl \/ to_ll_acl
    /\ UNCHANGED appvars

Handled ==
    /\ At("nimble", "run") /\ ev = None
    /\ Goto("nimble", "get")
    /\ UNCHANGED <<evq, wake, posting, releasing, ev, armed, stopped, hcivars, appvars>>

-----------------------------------------------------------------------------
\* ble adv and ble stop: not before the host is synchronised, one at a time.
ble ==
    /\ Steps("shell")
    /\ synced /\ action = None
    /\ action' \in {"adv", "stop"}
    /\ Post("shell", "control")
    /\ UNCHANGED <<evq, wake, releasing, place, ev, armed, stopped, hcivars,
                   synced, connected, adv_active, failed, by_shell>>

Put(t) ==
    /\ ble_npl_eventq_put(t) \/ sem_release(t)
    /\ UNCHANGED <<hcivars, appvars>>

Loop == (ble_npl_eventq_get \/ sem_take_0 \/ sem_take) /\ UNCHANGED <<hcivars, appvars>>
Host == Loop \/ Handle \/ Callout \/ Notify \/ Transmit \/ Handled
Timer == callout_fire /\ UNCHANGED <<hcivars, appvars>>
Worker ==
    /\ RunJob \/ Pump \/ Woken
    /\ UNCHANGED appvars

Next == (\E t \in Threads : Put(t)) \/ Host \/ Timer \/ Worker \/ ble

\* The host's loop and what its handlers must do; the rest they may do.
HostStep == Loop \/ Handle \/ Handled \/ (Transmit /\ place["nimble"] = "acl")

SafeSpec == Init /\ [][Next]_vars

-----------------------------------------------------------------------------
AppTypeOK ==
    /\ synced \in BOOLEAN /\ connected \in BOOLEAN /\ adv_active \in BOOLEAN
    /\ failed \in BOOLEAN /\ action \in {None, "adv", "stop"} /\ by_shell \in BOOLEAN

\* A synchronised host without a connection advertises, unless the shell
\* stopped it or the last start failed (docs/rtt/NIMBLE.md: a disconnected
\* board advertises again).
NeverDark == synced /\ ~connected /\ ~adv_active => by_shell \/ failed

\* Every ble adv and ble stop that was accepted is served, and the next one
\* can be accepted, whatever the timer, the radio and the host itself post.
RequestServed == action # None ~> action = None

=============================================================================
