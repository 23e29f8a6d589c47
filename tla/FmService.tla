------------------------------ MODULE FmService ------------------------------
(***************************************************************************)
(* What fm0 promises its clients (drv_fmrx.h): a receiver that is off or   *)
(* plays one frequency, a volume that outlives a session, the result of    *)
(* the last command, and the Bluetooth claim that keeps FM off until the   *)
(* next reboot.                                                            *)
(***************************************************************************)
CONSTANTS Frequencies, Volumes, BootVolume

VARIABLES running, frequency, volume, last_error, bt_claimed

Off == "0 kHz"
Errors == {"EBUSY", "EINVAL", "EIO", "ETIMEOUT"}

service == <<running, frequency, volume, last_error, bt_claimed>>

Init ==
    /\ running = FALSE /\ frequency = Off /\ volume = BootVolume
    /\ last_error = "EOK" /\ bt_claimed = FALSE

Play(f) ==
    /\ ~bt_claimed
    /\ running' = TRUE /\ frequency' = f /\ last_error' = "EOK"
    /\ UNCHANGED <<volume, bt_claimed>>

\* START only of a receiver that is off, TUNE only of one that plays.
Start(f) == ~running /\ Play(f)
Tune(f) == running /\ Play(f)

Silence ==
    /\ running
    /\ running' = FALSE /\ frequency' = Off
    /\ UNCHANGED <<volume, bt_claimed>>

Stop ==
    /\ last_error' = "EOK"
    /\ \/ Silence
       \/ ~running /\ UNCHANGED <<running, frequency, volume, bt_claimed>>

\* A retune whose calibration times out turns the receiver off.
LoseStation == Silence /\ last_error' = "ETIMEOUT"

\* The DAC test tone turns it off and is no command.
Interrupt == Silence /\ UNCHANGED last_error

SetVolume(v) ==
    /\ volume' = v /\ last_error' = "EOK"
    /\ UNCHANGED <<running, frequency, bt_claimed>>

\* A refused command leaves everything but last_error as it was.
Refuse(e) ==
    /\ last_error' = e
    /\ UNCHANGED <<running, frequency, volume, bt_claimed>>

Claim ==
    /\ ~running
    /\ bt_claimed' = TRUE
    /\ UNCHANGED <<running, frequency, volume, last_error>>

Next ==
    \/ \E f \in Frequencies : Start(f) \/ Tune(f)
    \/ Stop \/ LoseStation \/ Interrupt
    \/ \E v \in Volumes : SetVolume(v)
    \/ \E e \in Errors : Refuse(e)
    \/ Claim

Spec == Init /\ [][Next]_service
=============================================================================
