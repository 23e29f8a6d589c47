-------------------------- MODULE FmReceiverProofs --------------------------
(***************************************************************************)
(* The FM receiver keeps its status honest, is heard only when calibrated  *)
(* and implements FmService, and FM and Bluetooth never drive the RF       *)
(* together: for every set of frequencies, volumes and calling threads.    *)
(***************************************************************************)
EXTENDS BtBringUp, TLAPS

Playing == playing /\ rf /\ route /\ dac_owner = "fm" /\ hw_volume = volume /\ ~pll_error
Powered == rf /\ dac_owner = "fm" /\ hw_volume = Mute /\ ~bt_claimed
Unrouted == ~rf /\ ~route
Silent == ~playing /\ Unrouted /\ ~dac_sync

\* What is true of the hardware at each place where the lock's owner sleeps.
AtPlace ==
    /\ at = "out" <=> fm_lock = "free"
    /\ at = "out" => Playing \/ (Silent /\ dac_owner # "fm")
    /\ at = "acquire" => Silent /\ dac_owner = "fm" /\ ~bt_claimed /\ hw_volume = Mute
    /\ at = "power_on" => Powered /\ ~playing /\ ~route /\ ~dac_sync /\ ~pll_error
    /\ at = "set_pll" => Powered /\ ~pll_error /\ (route <=> playing)
    /\ at = "unwind" => Unrouted /\ dac_owner = "fm" /\ ~bt_claimed
    /\ at \in {"stop", "tone_stop"} => playing /\ Unrouted /\ dac_owner = "fm"
    /\ at = "tone_start" => Silent /\ dac_owner # "fm"
    /\ at = "tone" => Silent /\ dac_owner = "fm"
    /\ at = "rssi" => Playing

\* And at every place.
Always ==
    /\ at \in {"acquire", "power_on", "set_pll"} => wish # Off
    /\ frequency # Off <=> playing
    /\ playing => ~bt_claimed
    /\ dac_sync => playing /\ dac_owner = "fm"

FmIInv == FmTypeOK /\ AtPlace /\ Always

-----------------------------------------------------------------------------
\* The boot state is silent.
LEMMA FmInitIInv == FmInit => FmIInv
<1>. SUFFICES ASSUME FmInit PROVE FmIInv
  OBVIOUS
<1>. USE FmAssumption DEF FmInit, Off
<1>1. FmTypeOK
  BY DEF FmTypeOK, Places
<1>2. AtPlace /\ Always
  BY DEF AtPlace, Always, Silent, Unrouted
<1>. QED
  BY <1>1, <1>2 DEF FmIInv

\* Every step of fm0, its environment or nobody keeps the invariant.
LEMMA FmStepIInv == FmIInv /\ [FmNext]_fmvars => FmIInv'
<1>. SUFFICES ASSUME FmIInv, [FmNext]_fmvars
              PROVE  FmIInv'
  OBVIOUS
<1>. USE FmAssumption DEF FmIInv, FmTypeOK, Places, AtPlace, Always, Playing, Powered, Unrouted, Silent,
                          Off, status, receiver, dac, Take, Return, Move, Idle
<1>1. ASSUME NEW c \in Callers, NEW f \in Frequencies, Start(c, f) PROVE FmIInv'
  <2>1. FmTypeOK'
    BY <1>1 DEF Start
  <2>2. AtPlace'
    BY <1>1 DEF Start
  <2>3. Always'
    BY <1>1 DEF Start
  <2>. QED
    BY <2>1, <2>2, <2>3
<1>2. ASSUME NEW c \in Callers, NEW f \in Frequencies, Tune(c, f) PROVE FmIInv'
  <2>1. FmTypeOK'
    BY <1>2 DEF Tune
  <2>2. AtPlace'
    BY <1>2 DEF Tune
  <2>3. Always'
    BY <1>2 DEF Tune
  <2>. QED
    BY <2>1, <2>2, <2>3
<1>3. ASSUME NEW c \in Callers, Stop(c) PROVE FmIInv'
  <2>1. at = "out" /\ c # "free" /\ fm_lock = "free"
    BY <1>3 DEF Stop
  <2>2. CASE playing
    <3>1. /\ at' = "stop" /\ fm_lock' = c /\ rf' = FALSE /\ route' = FALSE /\ hw_volume' = Mute
          /\ UNCHANGED <<playing, frequency, volume, last_error, bt_claimed, wish, pll_error, dac_owner, dac_sync>>
      BY <1>3, <2>2 DEF Stop, Shutdown
    <3>2. Playing
      BY <2>1, <2>2
    <3>3. FmTypeOK' /\ Always'
      BY <2>1, <2>2, <3>1, <3>2
    <3>4. AtPlace'
      BY <2>1, <2>2, <3>1, <3>2
    <3>. QED
      BY <3>3, <3>4
  <2>3. CASE ~playing
    <3>1. /\ last_error' = "EOK" /\ UNCHANGED <<at, fm_lock, rf, route, hw_volume>>
          /\ UNCHANGED <<playing, frequency, volume, bt_claimed, wish, pll_error, dac_owner, dac_sync>>
      BY <1>3, <2>3 DEF Stop
    <3>2. Silent /\ dac_owner # "fm"
      BY <2>1, <2>3
    <3>3. FmTypeOK' /\ Always'
      BY <2>1, <2>3, <3>1, <3>2
    <3>4. AtPlace'
      BY <2>1, <2>3, <3>1, <3>2
    <3>. QED
      BY <3>3, <3>4
  <2>. QED
    BY <2>2, <2>3
<1>4. ASSUME NEW c \in Callers, Tone(c) PROVE FmIInv'
  <2>1. at = "out" /\ c # "free" /\ fm_lock = "free"
    BY <1>4 DEF Tone
  <2>2. CASE playing
    <3>1. /\ at' = "tone_stop" /\ fm_lock' = c /\ rf' = FALSE /\ route' = FALSE /\ hw_volume' = Mute
          /\ UNCHANGED <<playing, frequency, volume, last_error, bt_claimed, wish, pll_error, dac_owner, dac_sync>>
      BY <1>4, <2>2 DEF Tone, Shutdown
    <3>2. Playing
      BY <2>1, <2>2
    <3>3. FmTypeOK' /\ Always'
      BY <2>1, <2>2, <3>1, <3>2
    <3>4. AtPlace'
      BY <2>1, <2>2, <3>1, <3>2
    <3>. QED
      BY <3>3, <3>4
  <2>3. CASE ~playing
    <3>1. /\ at' = "tone_start" /\ fm_lock' = c /\ UNCHANGED <<last_error, rf, route, hw_volume>>
          /\ UNCHANGED <<playing, frequency, volume, bt_claimed, wish, pll_error, dac_owner, dac_sync>>
      BY <1>4, <2>3 DEF Tone
    <3>2. Silent /\ dac_owner # "fm"
      BY <2>1, <2>3
    <3>3. FmTypeOK' /\ Always'
      BY <2>1, <2>3, <3>1, <3>2
    <3>4. AtPlace'
      BY <2>1, <2>3, <3>1, <3>2
    <3>. QED
      BY <3>3, <3>4
  <2>. QED
    BY <2>2, <2>3
<1>5. ASSUME NEW c \in Callers, Rssi(c) PROVE FmIInv'
  BY <1>5 DEF Rssi
<1>6. ASSUME fmrx_power_on PROVE FmIInv'
  BY <1>6 DEF fmrx_power_on
<1>7. ASSUME PowerOnLocked PROVE FmIInv'
  BY <1>7 DEF PowerOnLocked
<1>8. ASSUME SetPllLocked PROVE FmIInv'
  <2>1. FmTypeOK'
    BY <1>8 DEF SetPllLocked
  <2>2. AtPlace'
    BY <1>8 DEF SetPllLocked
  <2>3. Always'
    BY <1>8 DEF SetPllLocked
  <2>. QED
    BY <2>1, <2>2, <2>3
<1>9. ASSUME PllTimeout PROVE FmIInv'
  <2>1. FmTypeOK'
    BY <1>9 DEF PllTimeout, Shutdown
  <2>2. AtPlace'
    BY <1>9 DEF PllTimeout, Shutdown
  <2>3. Always'
    BY <1>9 DEF PllTimeout, Shutdown
  <2>. QED
    BY <2>1, <2>2, <2>3
<1>10. ASSUME ShutdownDone PROVE FmIInv'
  <2>1. FmTypeOK'
    BY <1>10 DEF ShutdownDone, Release
  <2>2. AtPlace'
    BY <1>10 DEF ShutdownDone, Release
  <2>3. Always'
    BY <1>10 DEF ShutdownDone, Release
  <2>. QED
    BY <2>1, <2>2, <2>3
<1>11. ASSUME ToneStopped PROVE FmIInv'
  BY <1>11 DEF ToneStopped, Release
<1>12. ASSUME ToneStart PROVE FmIInv'
  <2>1. FmTypeOK'
    BY <1>12 DEF ToneStart
  <2>2. AtPlace'
    BY <1>12 DEF ToneStart
  <2>3. Always'
    BY <1>12 DEF ToneStart
  <2>. QED
    BY <2>1, <2>2, <2>3
<1>13. ASSUME ToneDone PROVE FmIInv'
  BY <1>13 DEF ToneDone
<1>14. ASSUME RssiDone PROVE FmIInv'
  BY <1>14 DEF RssiDone
<1>15. ASSUME NEW e \in {"EBUSY", "EINVAL", "EIO"}, fm_control_refused(e) PROVE FmIInv'
  BY <1>15 DEF fm_control_refused
<1>16. ASSUME StartRefused PROVE FmIInv'
  BY <1>16 DEF StartRefused
<1>17. ASSUME NEW v \in FmVolumes, Volume(v) PROVE FmIInv'
  <2>1. FmTypeOK'
    BY <1>17 DEF Volume
  <2>2. AtPlace'
    BY <1>17 DEF Volume
  <2>3. Always'
    BY <1>17 DEF Volume
  <2>. QED
    BY <2>1, <2>2, <2>3
<1>18. ASSUME fm_sync_once PROVE FmIInv'
  BY <1>18 DEF fm_sync_once
<1>19. ASSUME ab32_fmrx_bt_claim PROVE FmIInv'
  BY <1>19 DEF ab32_fmrx_bt_claim
<1>20. ASSUME Pcm PROVE FmIInv'
  <2>1. FmTypeOK'
    BY <1>20 DEF Pcm, PcmTakesDac, PcmGivesDac
  <2>2. AtPlace'
    BY <1>20 DEF Pcm, PcmTakesDac, PcmGivesDac
  <2>3. Always'
    BY <1>20 DEF Pcm, PcmTakesDac, PcmGivesDac
  <2>. QED
    BY <2>1, <2>2, <2>3
<1>21. ASSUME UNCHANGED fmvars PROVE FmIInv'
  <2>1. UNCHANGED <<playing, frequency, volume, last_error, bt_claimed, fm_lock, at, wish,
                    pll_error, rf, route, dac_owner, hw_volume, dac_sync>>
    BY <1>21 DEF fmvars
  <2>2. FmTypeOK'
    BY <2>1
  <2>3. AtPlace'
    BY <2>1
  <2>4. Always'
    BY <2>1
  <2>. QED
    BY <2>2, <2>3, <2>4
<1>. HIDE DEF FmIInv, FmTypeOK, Places, AtPlace, Always, Playing, Powered, Unrouted, Silent,
              Off, status, receiver, dac, Take, Return, Move, Idle
<1>22. ASSUME NEW c \in Callers, Command(c) PROVE FmIInv'
  BY <1>1, <1>2, <1>3, <1>4, <1>5, <1>22 DEF Command
<1>23. CASE PllLocks \/ Wake
  BY <1>6, <1>7, <1>8, <1>9, <1>10, <1>11, <1>12, <1>13, <1>14, <1>23 DEF PllLocks, Wake
<1>24. CASE Instant
  BY <1>15, <1>16, <1>17, <1>18, <1>24 DEF Instant
<1>. QED
  BY <1>19, <1>20, <1>21, <1>22, <1>23, <1>24 DEF FmNext

\* The inductive invariant of fm0 holds in every reachable state.
THEOREM FmInvariant == FmSpec => []FmIInv
BY FmInitIInv, FmStepIInv, PTL DEF FmSpec

-----------------------------------------------------------------------------
\* Type correctness of the receiver.
THEOREM TypeCorrect == FmSpec => []FmTypeOK
<1>1. FmIInv => FmTypeOK
  BY DEF FmIInv
<1>. QED
  BY <1>1, FmInvariant, PTL

\* Between operations the status is what the hardware does.
THEOREM StatusIsHonest == FmSpec => []StatusHonest
<1>1. FmIInv => StatusHonest
  BY DEF FmIInv, AtPlace, Always, StatusHonest, Free, Playing, Silent, Unrouted
<1>. QED
  BY <1>1, FmInvariant, PTL

\* Nothing uncalibrated is heard.
THEOREM NoiseIsNeverHeard == FmSpec => []NoiseNeverHeard
<1>1. FmIInv => NoiseNeverHeard
  BY DEF FmIInv, FmTypeOK, Places, AtPlace, NoiseNeverHeard, Playing, Powered, Silent, Unrouted
<1>. QED
  BY <1>1, FmInvariant, PTL

\* The power driver sees every use of the receiver and its DAC.
THEOREM PowerBusyIsHonest == FmSpec => []PowerBusyCovers
<1>1. FmIInv => PowerBusyCovers
  BY DEF FmIInv, FmTypeOK, Places, AtPlace, PowerBusyCovers, ab32_fmrx_power_busy,
         Playing, Powered, Silent, Unrouted
<1>. QED
  BY <1>1, FmInvariant, PTL

\* After the claim the receiver stays off.
LEMMA ClaimedIsOff == FmIInv => BtOwnsRf
BY DEF FmIInv, FmTypeOK, Places, AtPlace, Always, BtOwnsRf, Playing, Powered, Silent, Unrouted

\* Every behaviour of the receiver is one of the service in drv_fmrx.h.
THEOREM FmImplementsService == FmSpec => ImplementsFmService
<1>1. FmInit => Service!Init
  BY DEF FmInit, Service!Init, Service!Off, Off
<1>2. ASSUME FmIInv, [FmNext]_fmvars
      PROVE  [Service!Next]_(Service!service)
  <2>. USE <1>2 DEF FmIInv, FmTypeOK, AtPlace, Always, Off, status, receiver, dac,
                    Take, Return, Move, Idle, Shutdown, Release, Service!service
  <2>1. CASE \E c \in Callers : Command(c) /\ ~Stop(c)
    BY <2>1 DEF Command, Start, Tune, Tone, Rssi
  <2>2. CASE \E c \in Callers : Stop(c)
    BY <2>2 DEF Stop, Service!Next, Service!Stop, Service!Silence, Service!Off
  <2>3. CASE SetPllLocked
    <3>1. wish \in Frequencies /\ ~bt_claimed
      BY <2>3 DEF SetPllLocked, Powered
    <3>2. Service!Start(wish) \/ Service!Tune(wish)
      BY <2>3, <3>1 DEF SetPllLocked, Service!Start, Service!Tune, Service!Play
    <3>. QED
      BY <3>1, <3>2 DEF Service!Next
  <2>4. CASE ShutdownDone
    <3>1. CASE at = "stop"
      BY <2>4, <3>1 DEF ShutdownDone, Service!Next, Service!Stop, Service!Silence, Service!Off
    <3>2. CASE at = "unwind" /\ playing
      BY <2>4, <3>2 DEF ShutdownDone, Service!Next, Service!LoseStation, Service!Silence, Service!Off
    <3>3. CASE at = "unwind" /\ ~playing
      <4>1. Service!Refuse("ETIMEOUT")
        BY <2>4, <3>3 DEF ShutdownDone, Service!Refuse
      <4>. QED
        BY <4>1 DEF Service!Next, Service!Errors
    <3>. QED
      BY <2>4, <3>1, <3>2, <3>3 DEF ShutdownDone
  <2>5. CASE ToneStopped
    BY <2>5 DEF ToneStopped, Service!Next, Service!Interrupt, Service!Silence, Service!Off
  <2>6. CASE fmrx_power_on \/ PowerOnLocked \/ PllTimeout \/ ToneStart \/ ToneDone \/ RssiDone
    BY <2>6 DEF fmrx_power_on, PowerOnLocked, PllTimeout, ToneStart, ToneDone, RssiDone
  <2>7. ASSUME NEW e \in {"EBUSY", "EINVAL", "EIO"}, fm_control_refused(e)
        PROVE  Service!Next
    <3>1. Service!Refuse(e)
      BY <2>7 DEF fm_control_refused, Service!Refuse
    <3>. QED
      BY <3>1 DEF Service!Next, Service!Errors
  <2>8. CASE StartRefused
    <3>1. Service!Refuse("EBUSY")
      BY <2>8 DEF StartRefused, Service!Refuse
    <3>. QED
      BY <3>1 DEF Service!Next, Service!Errors
  <2>9. ASSUME NEW v \in FmVolumes, Volume(v)
        PROVE  Service!Next
    BY <2>9 DEF Volume, Service!Next, Service!SetVolume
  <2>10. CASE fm_sync_once \/ Pcm \/ UNCHANGED fmvars
    BY <2>10 DEF fm_sync_once, Pcm, fmvars
  <2>11. CASE ab32_fmrx_bt_claim
    BY <2>11 DEF ab32_fmrx_bt_claim, Service!Next, Service!Claim
  <2>. QED
    BY <1>2, <2>1, <2>2, <2>3, <2>4, <2>5, <2>6, <2>7, <2>8, <2>9, <2>10, <2>11
       DEF FmNext, Command, PllLocks, Wake, Instant
<1>. QED
  BY <1>1, <1>2, FmInvariant, PTL DEF FmSpec, ImplementsFmService, Service!Spec

-----------------------------------------------------------------------------
(* FM and Bluetooth together.                                              *)

\* A worker past its claim, and a powered radio, hold the claim.
ClaimHeld ==
    /\ \A w \in Workers : wpc[w] \in {"bb_init", "loop"} => bt_claimed
    /\ bt_rf => bt_claimed

Stages == {"none", "init", "claim", "bb_init", "loop", "rejected"}

BtIInv == FmIInv /\ wpc \in [Workers -> Stages] /\ bt_rf \in BOOLEAN /\ ClaimHeld

\* No step of fm0 takes the claim back.
LEMMA ClaimStays == FmIInv /\ [FmNext]_fmvars /\ bt_claimed => bt_claimed'
<1>. SUFFICES ASSUME FmIInv, [FmNext]_fmvars, bt_claimed
              PROVE  bt_claimed'
  OBVIOUS
<1>1. ASSUME NEW c \in Callers, Command(c) PROVE bt_claimed'
  BY <1>1 DEF Command, Start, Tune, Stop, Tone, Rssi
<1>2. CASE PllLocks \/ Wake
  BY <1>2 DEF PllLocks, Wake, PowerOnLocked, SetPllLocked, fmrx_power_on, PllTimeout, ShutdownDone,
              ToneStopped, ToneStart, ToneDone, RssiDone
<1>3. CASE Instant
  BY <1>3 DEF Instant, fm_control_refused, StartRefused, Volume, fm_sync_once
<1>4. CASE ab32_fmrx_bt_claim \/ Pcm \/ UNCHANGED fmvars
  BY <1>4 DEF ab32_fmrx_bt_claim, Pcm, fmvars
<1>. QED
  BY <1>1, <1>2, <1>3, <1>4 DEF FmNext

\* A step of the bring-up is, for fm0, one of its own steps or none.
LEMMA BringUpIsFmStep == [BtNext]_allvars => [FmNext]_fmvars
<1>. SUFFICES ASSUME [BtNext]_allvars PROVE [FmNext]_fmvars
  OBVIOUS
<1>1. {"main", "shell", "nimble"} \subseteq Callers
  BY BtAssumption
<1>2. CASE FmUse
  <2>1. Command("main") \/ Command("shell") => FmNext
    BY <1>1 DEF FmNext
  <2>. QED
    BY <1>2, <2>1 DEF FmUse, FmNext
<1>3. ASSUME NEW t \in {"shell", "nimble"}, BringUp(t) PROVE [FmNext]_fmvars
  <2>1. Stop(t) => FmNext
    BY <1>1 DEF FmNext, Command
  <2>. QED
    BY <1>3, <2>1 DEF BringUp, CheckWorker, StopFm, CreateWorker, CreateFails
<1>4. CASE HostWait \/ ble_start \/ btctl_test
  BY <1>4 DEF HostWait, HostStarted, HostTimedOut, ble_start, btctl_test
<1>5. ASSUME NEW w \in Workers, Worker(w) PROVE [FmNext]_fmvars
  <2>1. ab32_fmrx_bt_claim => FmNext
    BY DEF FmNext
  <2>. QED
    BY <1>5, <2>1 DEF Worker, drv_bt_init, drv_bt_platform_init, bb_init
<1>6. CASE UNCHANGED allvars
  BY <1>6 DEF allvars
<1>. QED
  BY <1>2, <1>3, <1>4, <1>5, <1>6 DEF BtNext

\* Every step of the bring-up keeps the claim where it is needed.
LEMMA BtStepIInv == BtIInv /\ [BtNext]_allvars => BtIInv'
<1>. SUFFICES ASSUME BtIInv, [BtNext]_allvars PROVE BtIInv'
  OBVIOUS
<1>1. FmIInv' /\ (bt_claimed => bt_claimed')
  BY FmStepIInv, ClaimStays, BringUpIsFmStep DEF BtIInv
<1>. USE <1>1 DEF BtIInv, ClaimHeld, Stages
<1>2. CASE FmUse \/ UNCHANGED allvars
  BY <1>2 DEF FmUse, allvars, btvars
<1>3. ASSUME NEW t \in {"shell", "nimble"}, BringUp(t) PROVE BtIInv'
  <2>1. CASE UNCHANGED <<wpc, bt_rf>>
    BY <2>1
  <2>2. ASSUME NEW w \in Workers, CreateWorker(t, w) PROVE BtIInv'
    BY <2>2 DEF CreateWorker
  <2>3. CheckWorker(t) \/ StopFm(t) \/ CreateFails(t) => UNCHANGED <<wpc, bt_rf>>
    BY DEF CheckWorker, StopFm, CreateFails
  <2>. QED
    BY <1>3, <2>1, <2>2, <2>3 DEF BringUp
<1>4. CASE HostWait \/ ble_start \/ btctl_test
  <2>1. UNCHANGED <<wpc, bt_rf>>
    BY <1>4 DEF HostWait, HostStarted, HostTimedOut, ble_start, btctl_test
  <2>. QED
    BY <2>1
<1>5. ASSUME NEW w \in Workers, Worker(w) PROVE BtIInv'
  <2>1. CASE drv_bt_init(w)
    BY <2>1 DEF drv_bt_init, Publish
  <2>2. CASE drv_bt_platform_init(w)
    <3>1. CASE ab32_fmrx_bt_claim /\ wpc' = [wpc EXCEPT ![w] = "bb_init"]
      BY <2>2, <3>1 DEF drv_bt_platform_init, ab32_fmrx_bt_claim
    <3>2. CASE Publish(w, FALSE)
      BY <2>2, <3>2 DEF drv_bt_platform_init, Publish
    <3>. QED
      BY <2>2, <3>1, <3>2 DEF drv_bt_platform_init
  <2>3. CASE bb_init(w)
    BY <2>3 DEF bb_init, Publish
  <2>. QED
    BY <1>5, <2>1, <2>2, <2>3 DEF Worker
<1>. QED
  BY <1>2, <1>3, <1>4, <1>5 DEF BtNext

\* The inductive invariant of the bring-up.
THEOREM BtInvariant == BtSafeSpec => []BtIInv
<1>1. BtInit => BtIInv
  BY FmInitIInv DEF BtInit, BtIInv, ClaimHeld, Stages
<1>. QED
  BY <1>1, BtStepIInv, PTL DEF BtSafeSpec

\* FM and Bluetooth never drive the RF together (drv_bt_platform_init).
THEOREM RfIsExclusive == BtSafeSpec => []RfExclusive
<1>1. BtIInv => RfExclusive
  BY ClaimedIsOff DEF BtIInv, ClaimHeld, RfExclusive, BtOwnsRf
<1>. QED
  BY <1>1, BtInvariant, PTL

\* A worker that claimed the RF finds FM off until the reboot.
THEOREM ClaimIsKept == BtSafeSpec => []ClaimKeepsFmOut
<1>1. BtIInv => ClaimKeepsFmOut
  BY ClaimedIsOff DEF BtIInv, ClaimHeld, ClaimKeepsFmOut, BtOwnsRf
<1>. QED
  BY <1>1, BtInvariant, PTL
=============================================================================
