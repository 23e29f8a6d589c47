----------------------------- MODULE FmReceiver -----------------------------
(***************************************************************************)
(* fm0 (drv_fmrx.c): the lifecycle of the FM receiver around its recovered *)
(* analog and digital code.  Every operation holds fm_lock from its first  *)
(* check to its result, and sleeps with it held while the DAC is switched  *)
(* over and while the PLL calibrates.  What can happen meanwhile is that   *)
(* a PCM client takes or gives back the DAC (an abstract DacOwnership      *)
(* here) and that somebody looks without the lock.                         *)
(***************************************************************************)
CONSTANTS
    Callers,            \* threads that call into fm0
    Frequencies,        \* valid frequencies: 76 to 108 MHz in steps of 10 kHz
    FmVolumes, FmBootVolume, \* 0 to 100; the volume after a reset
    Mute                \* volume 0

ASSUME FmAssumption ==
    /\ Frequencies # {} /\ FmBootVolume \in FmVolumes /\ Mute \in FmVolumes
    /\ "0 kHz" \notin Frequencies /\ "free" \notin Callers

VARIABLES
    playing, frequency, volume, last_error, bt_claimed,     \* fm_status, bt_claimed
    fm_lock,            \* its owner, or "free"
    at, wish,           \* where the owner sleeps; the frequency it wants
    pll_error,          \* the sticky calibration error
    rf, route,          \* receiver powered; its output routed to the DAC
    dac_owner,              \* of the DAC
    hw_volume,          \* the DAC volume register while FM owns it
    dac_sync            \* the rate correction of fmrx_dac_sync is applied

Off == "0 kHz"

status == <<playing, frequency, volume, last_error>>
receiver  == <<rf, route, pll_error>>
dac    == <<dac_owner, hw_volume, dac_sync>>
fmvars == <<status, bt_claimed, fm_lock, at, wish, receiver, dac>>

FmInit ==
    /\ playing = FALSE /\ frequency = Off /\ volume = FmBootVolume /\ last_error = "EOK"
    /\ bt_claimed = FALSE
    /\ fm_lock = "free" /\ at = "out" /\ wish = Off
    /\ pll_error = FALSE /\ rf = FALSE /\ route = FALSE
    /\ dac_owner = "none" /\ hw_volume = Mute /\ dac_sync = FALSE

Take(c, place) == fm_lock = "free" /\ fm_lock' = c /\ at' = place
Return == fm_lock' = "free" /\ at' = "out" /\ wish' = Off
Move(place) == at' = place /\ UNCHANGED <<fm_lock, wish>>
Idle == fm_lock = "free" /\ UNCHANGED <<fm_lock, at, wish>>

-----------------------------------------------------------------------------
(* START, TUNE, STOP and VOLUME.                                           *)

\* The refusals of fm_control that come before any side effect.
fm_control_refused(e) ==
    /\ \/ e = "EBUSY" /\ (bt_claimed \/ playing)        \* START
       \/ e = "EINVAL"                                  \* a bad argument
       \/ e = "EIO" /\ ~bt_claimed /\ ~playing          \* TUNE
    /\ Idle
    /\ last_error' = e
    /\ UNCHANGED <<playing, frequency, volume, bt_claimed, receiver, dac>>

\* START: the DAC first, which sleeps in its own PLL setup.
Start(c, f) ==
    /\ ~bt_claimed /\ ~playing /\ dac_owner = "none"
    /\ Take(c, "acquire") /\ wish' = f
    /\ dac_owner' = "fm" /\ hw_volume' = Mute
    /\ UNCHANGED <<status, bt_claimed, receiver, dac_sync>>

StartRefused ==
    /\ ~bt_claimed /\ ~playing /\ dac_owner # "none"
    /\ Idle
    /\ last_error' = "EBUSY"
    /\ UNCHANGED <<playing, frequency, volume, bt_claimed, receiver, dac>>

\* fmrx_power_on calibrates the PLL at its default frequency.
fmrx_power_on ==
    /\ at = "acquire"
    /\ rf' = TRUE /\ pll_error' = FALSE /\ Move("power_on")
    /\ UNCHANGED <<status, bt_claimed, route, dac>>

\* A TUNE that does not mute: a mutant.
Tune_loud(c, f) ==
    /\ ~bt_claimed /\ playing
    /\ Take(c, "set_pll") /\ wish' = f
    /\ pll_error' = FALSE
    /\ UNCHANGED <<status, bt_claimed, rf, route, dac>>

\* TUNE: mute, then calibrate; the route to the DAC stays.
Tune(c, f) ==
    /\ ~bt_claimed /\ playing
    /\ Take(c, "set_pll") /\ wish' = f
    /\ hw_volume' = Mute /\ pll_error' = FALSE
    /\ UNCHANGED <<status, bt_claimed, rf, route, dac_owner, dac_sync>>

\* ab32_fmrx_wait_pll: the PLL locks or 100 ms pass, at power-on ...
PowerOnLocked ==
    /\ at = "power_on" /\ Move("set_pll")
    /\ UNCHANGED <<status, bt_claimed, receiver, dac>>

\* ... or at the frequency asked for: the receiver plays.
SetPllLocked ==
    /\ at = "set_pll" /\ ~pll_error
    /\ route' = TRUE
    /\ playing' = TRUE /\ frequency' = wish /\ last_error' = "EOK"
    /\ hw_volume' = volume
    /\ Return
    /\ UNCHANGED <<volume, bt_claimed, rf, pll_error, dac_owner, dac_sync>>

\* fm_shutdown up to the release, which sleeps in the DAC's PLL setup.
Shutdown(then) ==
    /\ hw_volume' = Mute /\ rf' = FALSE /\ route' = FALSE /\ at' = then

\* A calibration that waits for the PLL only: a mutant.
PllTimeout_never == FALSE /\ UNCHANGED fmvars

PllTimeout ==
    /\ at \in {"power_on", "set_pll"}
    /\ pll_error' = TRUE
    /\ Shutdown("unwind")
    /\ UNCHANGED <<status, bt_claimed, fm_lock, wish, dac_owner, dac_sync>>

Stop(c) ==
    /\ fm_lock = "free"
    /\ \/ /\ playing
          /\ Shutdown("stop") /\ fm_lock' = c
          /\ UNCHANGED <<status, wish, pll_error, dac_owner, dac_sync>>
       \/ /\ ~playing
          /\ last_error' = "EOK"
          /\ UNCHANGED <<playing, frequency, volume, fm_lock, at, wish, receiver, dac>>
    /\ UNCHANGED bt_claimed

\* The release restores the PCM format and drops the rate correction.
Release == dac_owner' = "none" /\ dac_sync' = FALSE /\ UNCHANGED hw_volume

\* Its end, with the result of the command.
ShutdownDone ==
    /\ at \in {"unwind", "stop"}
    /\ Release
    /\ playing' = FALSE /\ frequency' = Off
    /\ last_error' = IF at = "unwind" THEN "ETIMEOUT" ELSE "EOK"
    /\ Return
    /\ UNCHANGED <<volume, bt_claimed, receiver>>

\* A volume that reaches the DAC at the next START or TUNE only: a mutant.
Volume_later(v) ==
    /\ Idle
    /\ volume' = v /\ last_error' = "EOK"
    /\ UNCHANGED <<playing, frequency, bt_claimed, receiver, dac>>

Volume(v) ==
    /\ Idle
    /\ volume' = v /\ last_error' = "EOK"
    /\ hw_volume' = IF playing THEN v ELSE hw_volume
    /\ UNCHANGED <<playing, frequency, bt_claimed, receiver, dac_owner, dac_sync>>

-----------------------------------------------------------------------------
(* The others under fm_lock.                                               *)

\* The shell's test tone turns FM off and plays for ten seconds.
Tone(c) ==
    /\ fm_lock = "free" /\ fm_lock' = c
    /\ \/ playing /\ Shutdown("tone_stop")
       \/ ~playing /\ at' = "tone_start" /\ UNCHANGED <<hw_volume, rf, route>>
    /\ UNCHANGED <<status, bt_claimed, wish, pll_error, dac_owner, dac_sync>>

ToneStopped ==
    /\ at = "tone_stop"
    /\ Release
    /\ playing' = FALSE /\ frequency' = Off
    /\ Move("tone_start")
    /\ UNCHANGED <<volume, last_error, bt_claimed, receiver>>

\* A tone that is refused the DAC and keeps the lock: a mutant.
ToneStart_keepsLock ==
    /\ at = "tone_start"
    /\ \/ dac_owner = "none" /\ dac_owner' = "fm" /\ Move("tone")
          /\ \E v \in FmVolumes : hw_volume' = v
       \/ dac_owner # "none" /\ at' = "out" /\ UNCHANGED <<fm_lock, wish, dac_owner, hw_volume>>
    /\ UNCHANGED <<status, bt_claimed, receiver, dac_sync>>

ToneStart ==
    /\ at = "tone_start"
    /\ \/ dac_owner = "none" /\ dac_owner' = "fm" /\ Move("tone")
          /\ \E v \in FmVolumes : hw_volume' = v
       \/ dac_owner # "none" /\ Return /\ UNCHANGED <<dac_owner, hw_volume>>
    /\ UNCHANGED <<status, bt_claimed, receiver, dac_sync>>

ToneDone ==
    /\ at = "tone"
    /\ dac_owner' = "none" /\ dac_sync' = FALSE /\ hw_volume' = Mute
    /\ Return
    /\ UNCHANGED <<status, bt_claimed, receiver>>

\* The shell's rssi, which sleeps while the receiver measures.
Rssi(c) ==
    /\ playing
    /\ Take(c, "rssi")
    /\ UNCHANGED <<status, bt_claimed, wish, receiver, dac>>

RssiDone ==
    /\ at = "rssi" /\ Return
    /\ UNCHANGED <<status, bt_claimed, receiver, dac>>

\* The fm_sync thread adjusts the DAC rate ten times a second.
fm_sync_once ==
    /\ Idle
    /\ playing /\ dac_sync' \in BOOLEAN
    /\ UNCHANGED <<status, bt_claimed, receiver, dac_owner, hw_volume>>

\* A claim that does not look whether FM plays: a mutant.
ab32_fmrx_bt_claim_always ==
    /\ Idle
    /\ bt_claimed' = TRUE
    /\ UNCHANGED <<status, receiver, dac>>

ab32_fmrx_bt_claim ==
    /\ Idle
    /\ ~playing                     \* else -RT_EBUSY
    /\ bt_claimed' = TRUE
    /\ UNCHANGED <<status, receiver, dac>>

\* A PCM client at the other side of the DAC.
PcmTakesDac == dac_owner = "none" /\ dac_owner' = "pcm"
PcmGivesDac == dac_owner = "pcm" /\ dac_owner' = "none"

Pcm ==
    /\ PcmTakesDac \/ PcmGivesDac
    /\ UNCHANGED <<status, bt_claimed, fm_lock, at, wish, receiver, hw_volume, dac_sync>>

-----------------------------------------------------------------------------
Command(c) ==
    \/ \E f \in Frequencies : Start(c, f) \/ Tune(c, f)
    \/ Stop(c) \/ Tone(c) \/ Rssi(c)

PllLocks == PowerOnLocked \/ SetPllLocked

\* The owner of the lock wakes up from a sleep that has a limit.
Wake ==
    \/ fmrx_power_on \/ PllTimeout \/ ShutdownDone
    \/ ToneStopped \/ ToneStart \/ ToneDone \/ RssiDone

Instant ==
    \/ \E e \in {"EBUSY", "EINVAL", "EIO"} : fm_control_refused(e)
    \/ StartRefused
    \/ \E v \in FmVolumes : Volume(v)
    \/ fm_sync_once

FmNext ==
    \/ \E c \in Callers : Command(c)
    \/ PllLocks \/ Wake \/ Instant \/ ab32_fmrx_bt_claim \/ Pcm

\* A sleep with a limit ends.  The PLL need not lock.
FmSpec == FmInit /\ [][FmNext]_fmvars /\ WF_fmvars(Wake)

-----------------------------------------------------------------------------
Places == {"out", "acquire", "power_on", "set_pll", "unwind", "stop",
           "tone_stop", "tone_start", "tone", "rssi"}

FmTypeOK ==
    /\ playing \in BOOLEAN /\ frequency \in Frequencies \cup {Off} /\ volume \in FmVolumes
    /\ last_error \in {"EOK", "EBUSY", "EINVAL", "EIO", "ETIMEOUT"}
    /\ bt_claimed \in BOOLEAN
    /\ fm_lock \in Callers \cup {"free"} /\ at \in Places
    /\ wish \in Frequencies \cup {Off}
    /\ pll_error \in BOOLEAN /\ rf \in BOOLEAN /\ route \in BOOLEAN
    /\ dac_owner \in {"none", "pcm", "fm"} /\ hw_volume \in FmVolumes /\ dac_sync \in BOOLEAN

Free == fm_lock = "free"

\* Between operations the status is what the hardware does: running exactly
\* when the receiver is powered, routed to a DAC that FM owns, on a frequency,
\* at the volume reported, whatever timed out on the way here.
StatusHonest == Free =>
    /\ playing <=> rf
    /\ playing <=> route
    /\ playing <=> dac_owner = "fm"
    /\ playing <=> frequency # Off
    /\ playing => hw_volume = volume /\ ~pll_error

\* Nothing but a calibrated receiver is heard: while the output is routed, the
\* DAC is muted until the PLL locked (comment above ab32_fmrx_wait_pll), and
\* FM owns the DAC it is routed to.
NoiseNeverHeard == route => dac_owner = "fm" /\ rf
                            /\ (at = "set_pll" \/ pll_error => hw_volume = Mute)

\* A busy test without the lock: a mutant.
ab32_fmrx_power_busy_running == playing

\* ab32_fmrx_power_busy, and what it must cover: no clock is gated while the
\* receiver is powered or FM is in the DAC, mid-operation too.
ab32_fmrx_power_busy == playing \/ fm_lock # "free"
PowerBusyCovers == rf \/ route \/ dac_owner = "fm" => ab32_fmrx_power_busy

\* Once Bluetooth claimed the RF the receiver is never powered again.
BtOwnsRf == bt_claimed => ~rf /\ ~playing

\* The lock comes back: no operation keeps it, not with a PLL that never locks.
LockReturns == ~Free ~> Free

\* The lifecycle implements the service its header describes.
Service == INSTANCE FmService WITH
              Volumes <- FmVolumes, BootVolume <- FmBootVolume, running <- playing
ImplementsFmService == Service!Spec
=============================================================================
