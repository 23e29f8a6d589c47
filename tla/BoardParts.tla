------------------------------ MODULE BoardParts ------------------------------
(***************************************************************************)
(* Five parts that share no state: the time of the board keys, the UART    *)
(* receiver, the pin interrupts, the clock, and the host's downloader.     *)
(* A behaviour is one of any of them; part says which.                     *)
(***************************************************************************)
EXTENDS BoardKeys, UartRx, PinIrq, RtcClock, Downloader

VARIABLE part

partvars == <<keyvars, uartvars, pinvars, rtcvars, dlvars, part>>

PartsInit ==
    /\ KeysInit /\ UartInit /\ PinInit /\ RtcInit /\ DlInit
    /\ part \in {"keys", "uart", "pins", "rtc", "downloader"}

OnlyKeys == part = "keys" /\ UNCHANGED <<uartvars, pinvars, rtcvars, dlvars, part>>
OnlyUart == part = "uart" /\ UNCHANGED <<keyvars, pinvars, rtcvars, dlvars, part>>
OnlyPins == part = "pins" /\ UNCHANGED <<keyvars, uartvars, rtcvars, dlvars, part>>
OnlyRtc == part = "rtc" /\ UNCHANGED <<keyvars, uartvars, pinvars, dlvars, part>>
OnlyDownloader == part = "downloader" /\ UNCHANGED <<keyvars, uartvars, pinvars, rtcvars, part>>

PartsNext ==
    \/ OnlyKeys /\ KeysNext
    \/ OnlyUart /\ UartNext
    \/ OnlyPins /\ PinNext
    \/ OnlyRtc /\ RtcNext
    \/ OnlyDownloader /\ DlNext

\* The fairness of the keys, where there are keys: main() polls for ever and
\* the tick interrupt is served.
PartsSpec ==
    /\ PartsInit /\ [][PartsNext]_partvars
    /\ WF_partvars(Tick /\ OnlyKeys)
    /\ WF_partvars((board_keys_poll \/ LockAndSample \/ keys_sample) /\ OnlyKeys)

=============================================================================
