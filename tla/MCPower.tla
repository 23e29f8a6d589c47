------------------------------- MODULE MCPower -------------------------------
(***************************************************************************)
(* The two long commands of power0 side by side: a behaviour is one of     *)
(* sleeps or one of shutdowns.                                             *)
(***************************************************************************)
EXTENDS PowerSleep, PowerOff

VARIABLE part

powervars == <<vars, offvars, part>>

OnlySleep == part = "sleep" /\ UNCHANGED <<offvars, part>>
OnlyOff == part = "off" /\ UNCHANGED <<vars, part>>

\* The part that stands still starts in one state.
PowerInit ==
    /\ Init /\ OffInit
    /\ \/ part = "sleep" /\ off_policy = {} /\ regs = [r \in Registers |-> {}]
       \/ part = "off" /\ policy = {} /\ ~running

\* The fairness is that of the sleep, where there is one.
PowerSpec ==
    /\ PowerInit
    /\ [][(OnlySleep /\ Next) \/ (OnlyOff /\ OffNext)]_powervars
    /\ WF_powervars(OnlySleep /\ Tick)
    /\ WF_powervars(OnlySleep /\ RtcSecond)
    /\ WF_powervars(OnlySleep /\ Sleep)
=============================================================================
