--------------------------- MODULE SoundGateProofs ---------------------------
(***************************************************************************)
(* The DAC has one owner at a time, an active stream is one the hardware   *)
(* plays, and the client's settings survive FM, for every set of formats   *)
(* and volumes, every pool and every frame length.  The gate implements    *)
(* DacOwnership.                                                           *)
(***************************************************************************)
EXTENDS SoundGate, TLAPS

\* Where the client's call stands fixes what it holds of the device.
ClientHolds ==
    /\ pcm_open <=> pc # "out"
    /\ ref_count = IF pc \in {"out", "opened"} \/ closing THEN 0 ELSE 1
    /\ closing => pc \in {"stop", "arm", "wait", "halt", "halted", "shut"}
    /\ pc \in {"out", "opened", "started", "shut"} => ~activated
    /\ pc = "shut" => closing
    /\ pc \in {"arm", "wait", "halt", "halted"} => activated
    /\ pc # "out" => ready

\* Where FM stands fixes what it holds, and FM and the client exclude each other.
FmHolds ==
    /\ dma_to_aubuf <=> fpc # "off"
    /\ Locked <=> (fpc \in {"acquire", "release"})
    /\ dma_to_aubuf => pc = "out"
    /\ fpc = "own" => running

\* A stream that has been started runs until it is halted.
StreamRuns ==
    /\ NoDeadStream
    /\ pc = "started" => running

\* The pool's blocks are queued, being filled or free; a write that is under
\* way has a block left to copy into, and a push a word.
WithinBounds ==
    /\ partial => queue < POOL
    /\ pc = "write" => rest > 0
    /\ wpc = "push" => left > 0

IInv == TypeOK /\ ClientHolds /\ FmHolds /\ StreamRuns /\ WithinBounds /\ ConfigRestored

-----------------------------------------------------------------------------
\* A saturating release keeps the semaphore in range.
LEMMA SemReleaseRange == \A s \in 0..SEM_MAX : SemRelease(s) \in 0..SEM_MAX
BY SoundAssumption DEF SemRelease

\* The boot state holds nothing and runs nothing.
LEMMA InitIInv == Init => IInv
<1>. SUFFICES ASSUME Init PROVE IInv
  OBVIOUS
<1>. USE SoundAssumption DEF Init
<1>1. DeviceType
  <2>1. config \in Settings /\ hw \in Registers
    BY DEF Settings
  <2>2. ref_count \in 0..1
    OBVIOUS
  <2>3. /\ sound_lock \in {"free", "fm"} /\ running \in BOOLEAN /\ dma_to_aubuf \in BOOLEAN
        /\ pcm_open \in BOOLEAN /\ ready \in BOOLEAN
    OBVIOUS
  <2>. QED
    BY <2>1, <2>2, <2>3 DEF DeviceType
<1>2. queue \in 0..POOL /\ sem \in 0..SEM_MAX /\ left \in 0..WORDS /\ rest \in 0..WRITE
  OBVIOUS
<1>3. StreamType
  BY <1>2 DEF StreamType
<1>4. PlaceType
  BY DEF PlaceType
<1>5. ClientHolds /\ FmHolds
  BY DEF ClientHolds, FmHolds, Locked
<1>6. StreamRuns /\ WithinBounds /\ ConfigRestored
  BY DEF StreamRuns, NoDeadStream, WithinBounds, ConfigRestored
<1>. QED
  BY <1>1, <1>3, <1>4, <1>5, <1>6 DEF IInv, TypeOK

\* Every step of the client, the worker, the DAC and FM keeps the invariant.
LEMMA StepIInv == IInv /\ [Next]_vars => IInv'
<1>. SUFFICES ASSUME IInv, [Next]_vars
              PROVE  IInv'
  OBVIOUS
<1>. USE SoundAssumption DEF IInv, TypeOK, DeviceType, StreamType, PlaceType, ClientHolds, FmHolds, StreamRuns, NoDeadStream, WithinBounds, ConfigRestored, Locked,
                             hal, gate, frame, fifo, client, others, user, pcm,
                             Settings, Registers
<1>1. ASSUME sound_device_init PROVE IInv'
  <2>1. TypeOK'
    BY <1>1 DEF sound_device_init
  <2>2. ClientHolds' /\ FmHolds'
    BY <1>1 DEF sound_device_init
  <2>3. StreamRuns' /\ WithinBounds' /\ ConfigRestored'
    BY <1>1 DEF sound_device_init
  <2>. QED
    BY <2>1, <2>2, <2>3
<1>2. ASSUME sound_device_open PROVE IInv'
  <2>1. TypeOK'
    BY <1>2 DEF sound_device_open
  <2>2. ClientHolds' /\ FmHolds'
    BY <1>2 DEF sound_device_open
  <2>3. StreamRuns' /\ WithinBounds' /\ ConfigRestored'
    BY <1>2 DEF sound_device_open
  <2>. QED
    BY <2>1, <2>2, <2>3
<1>3. ASSUME rt_device_open PROVE IInv'
  <2>1. TypeOK'
    BY <1>3 DEF rt_device_open
  <2>2. ClientHolds' /\ FmHolds'
    BY <1>3 DEF rt_device_open
  <2>3. StreamRuns' /\ WithinBounds' /\ ConfigRestored'
    BY <1>3 DEF rt_device_open
  <2>. QED
    BY <2>1, <2>2, <2>3
<1>4. ASSUME sound_device_write PROVE IInv'
  <2>1. TypeOK'
    BY <1>4 DEF sound_device_write, GateOpen, InWrite
  <2>2. ClientHolds' /\ FmHolds'
    BY <1>4 DEF sound_device_write, GateOpen, InWrite
  <2>3. StreamRuns' /\ WithinBounds' /\ ConfigRestored'
    BY <1>4 DEF sound_device_write, GateOpen, InWrite
  <2>. QED
    BY <2>1, <2>2, <2>3
<1>5. ASSUME WriteBlock PROVE IInv'
  <2>1. TypeOK'
    <3>1. DeviceType'
      BY <1>5 DEF WriteBlock, InWrite
    <3>2. StreamType'
      <4>1. queue' \in 0..POOL
        BY <1>5 DEF WriteBlock, InWrite
      <4>2. activated' \in BOOLEAN /\ stop_event' \in BOOLEAN /\ done' \in BOOLEAN
            /\ partial' \in BOOLEAN /\ full' \in BOOLEAN /\ irq_on' \in BOOLEAN
        BY <1>5 DEF WriteBlock, InWrite
      <4>3. sem' \in 0..SEM_MAX /\ left' \in 0..WORDS /\ rest' \in 0..WRITE
        BY <1>5 DEF WriteBlock, InWrite
      <4>. QED
        BY <4>1, <4>2, <4>3
    <3>3. PlaceType'
      BY <1>5 DEF WriteBlock, InWrite
    <3>. QED
      BY <3>1, <3>2, <3>3
  <2>2. ClientHolds'
    BY <1>5 DEF WriteBlock, InWrite
  <2>3. FmHolds'
    BY <1>5 DEF WriteBlock, InWrite
  <2>4. StreamRuns'
    BY <1>5 DEF WriteBlock, InWrite
  <2>5. WithinBounds'
    BY <1>5 DEF WriteBlock, InWrite
  <2>6. ConfigRestored'
    BY <1>5 DEF WriteBlock, InWrite
  <2>. QED
    BY <2>1, <2>2, <2>3, <2>4, <2>5, <2>6
<1>6. ASSUME sound_start PROVE IInv'
  <2>1. TypeOK'
    <3>1. DeviceType'
      BY <1>6 DEF sound_start
    <3>2. StreamType'
      BY <1>6 DEF sound_start
    <3>3. PlaceType'
      BY <1>6 DEF sound_start
    <3>. QED
      BY <3>1, <3>2, <3>3
  <2>2. ClientHolds'
    BY <1>6 DEF sound_start
  <2>3. FmHolds'
    BY <1>6 DEF sound_start
  <2>4. StreamRuns'
    BY <1>6 DEF sound_start
  <2>5. WithinBounds'
    BY <1>6 DEF sound_start
  <2>6. ConfigRestored'
    BY <1>6 DEF sound_start
  <2>. QED
    BY <2>1, <2>2, <2>3, <2>4, <2>5, <2>6
<1>7. ASSUME ReplayActivated PROVE IInv'
  <2>1. TypeOK'
    BY <1>7 DEF ReplayActivated
  <2>2. ClientHolds' /\ FmHolds'
    BY <1>7 DEF ReplayActivated
  <2>3. StreamRuns' /\ WithinBounds' /\ ConfigRestored'
    BY <1>7 DEF ReplayActivated
  <2>. QED
    BY <2>1, <2>2, <2>3
<1>8. ASSUME sound_configure PROVE IInv'
  <2>1. TypeOK'
    BY <1>8 DEF sound_configure
  <2>2. ClientHolds' /\ FmHolds'
    BY <1>8 DEF sound_configure
  <2>3. StreamRuns' /\ WithinBounds' /\ ConfigRestored'
    BY <1>8 DEF sound_configure
  <2>. QED
    BY <2>1, <2>2, <2>3
<1>9. ASSUME rt_device_close PROVE IInv'
  <2>1. TypeOK'
    BY <1>9 DEF rt_device_close
  <2>2. ClientHolds' /\ FmHolds'
    BY <1>9 DEF rt_device_close
  <2>3. StreamRuns' /\ WithinBounds' /\ ConfigRestored'
    BY <1>9 DEF rt_device_close
  <2>. QED
    BY <2>1, <2>2, <2>3
<1>10. ASSUME ReplayStop PROVE IInv'
  <2>1. TypeOK'
    <3>1. DeviceType'
      BY <1>10 DEF ReplayStop, StopDone
    <3>2. StreamType'
      <4>1. queue' \in 0..POOL
        BY <1>10 DEF ReplayStop
      <4>2. activated' \in BOOLEAN /\ stop_event' \in BOOLEAN /\ done' \in BOOLEAN
            /\ partial' \in BOOLEAN /\ full' \in BOOLEAN /\ irq_on' \in BOOLEAN
        BY <1>10 DEF ReplayStop
      <4>3. sem' \in 0..SEM_MAX /\ left' \in 0..WORDS /\ rest' \in 0..WRITE
        BY <1>10 DEF ReplayStop
      <4>. QED
        BY <4>1, <4>2, <4>3
    <3>3. PlaceType'
      BY <1>10 DEF ReplayStop, StopDone
    <3>. QED
      BY <3>1, <3>2, <3>3
  <2>2. ClientHolds'
    BY <1>10 DEF ReplayStop, StopDone
  <2>3. FmHolds'
    BY <1>10 DEF ReplayStop, StopDone
  <2>4. StreamRuns'
    BY <1>10 DEF ReplayStop, StopDone
  <2>5. WithinBounds'
    BY <1>10 DEF ReplayStop, StopDone
  <2>6. ConfigRestored'
    BY <1>10 DEF ReplayStop, StopDone
  <2>. QED
    BY <2>1, <2>2, <2>3, <2>4, <2>5, <2>6
<1>11. ASSUME ArmCompletion PROVE IInv'
  <2>1. TypeOK'
    <3>1. DeviceType'
      BY <1>11 DEF ArmCompletion
    <3>2. StreamType'
      BY <1>11 DEF ArmCompletion
    <3>3. PlaceType'
      BY <1>11 DEF ArmCompletion
    <3>. QED
      BY <3>1, <3>2, <3>3
  <2>2. ClientHolds'
    BY <1>11 DEF ArmCompletion
  <2>3. FmHolds'
    BY <1>11 DEF ArmCompletion
  <2>4. StreamRuns'
    BY <1>11 DEF ArmCompletion
  <2>5. WithinBounds'
    BY <1>11 DEF ArmCompletion
  <2>6. ConfigRestored'
    BY <1>11 DEF ArmCompletion
  <2>. QED
    BY <2>1, <2>2, <2>3, <2>4, <2>5, <2>6
<1>12. ASSUME StopAcked PROVE IInv'
  <2>1. TypeOK'
    BY <1>12 DEF StopAcked
  <2>2. ClientHolds' /\ FmHolds'
    BY <1>12 DEF StopAcked
  <2>3. StreamRuns' /\ WithinBounds' /\ ConfigRestored'
    BY <1>12 DEF StopAcked
  <2>. QED
    BY <2>1, <2>2, <2>3
<1>13. ASSUME sound_stop PROVE IInv'
  <2>1. TypeOK'
    <3>1. DeviceType'
      BY <1>13 DEF sound_stop, SemRelease
    <3>2. StreamType'
      BY <1>13, SemReleaseRange DEF sound_stop
    <3>3. PlaceType'
      BY <1>13 DEF sound_stop, SemRelease
    <3>. QED
      BY <3>1, <3>2, <3>3
  <2>2. ClientHolds'
    BY <1>13 DEF sound_stop, SemRelease
  <2>3. FmHolds'
    BY <1>13 DEF sound_stop, SemRelease
  <2>4. StreamRuns'
    BY <1>13 DEF sound_stop, SemRelease
  <2>5. WithinBounds'
    BY <1>13 DEF sound_stop, SemRelease
  <2>6. ConfigRestored'
    BY <1>13 DEF sound_stop, SemRelease
  <2>. QED
    BY <2>1, <2>2, <2>3, <2>4, <2>5, <2>6
<1>14. ASSUME ReplayStopped PROVE IInv'
  <2>1. TypeOK'
    <3>1. DeviceType'
      BY <1>14 DEF ReplayStopped, StopDone
    <3>2. StreamType'
      BY <1>14 DEF ReplayStopped, StopDone
    <3>3. PlaceType'
      BY <1>14 DEF ReplayStopped, StopDone
    <3>. QED
      BY <3>1, <3>2, <3>3
  <2>2. ClientHolds'
    BY <1>14 DEF ReplayStopped, StopDone
  <2>3. FmHolds'
    BY <1>14 DEF ReplayStopped, StopDone
  <2>4. StreamRuns'
    BY <1>14 DEF ReplayStopped, StopDone
  <2>5. WithinBounds'
    BY <1>14 DEF ReplayStopped, StopDone
  <2>6. ConfigRestored'
    BY <1>14 DEF ReplayStopped, StopDone
  <2>. QED
    BY <2>1, <2>2, <2>3, <2>4, <2>5, <2>6
<1>15. ASSUME sound_device_close PROVE IInv'
  <2>1. TypeOK'
    <3>1. DeviceType'
      BY <1>15 DEF sound_device_close
    <3>2. StreamType'
      BY <1>15 DEF sound_device_close
    <3>3. PlaceType'
      BY <1>15 DEF sound_device_close
    <3>. QED
      BY <3>1, <3>2, <3>3
  <2>2. ClientHolds'
    BY <1>15 DEF sound_device_close
  <2>3. FmHolds'
    BY <1>15 DEF sound_device_close
  <2>4. StreamRuns'
    BY <1>15 DEF sound_device_close
  <2>5. WithinBounds'
    BY <1>15 DEF sound_device_close
  <2>6. ConfigRestored'
    BY <1>15 DEF sound_device_close
  <2>. QED
    BY <2>1, <2>2, <2>3, <2>4, <2>5, <2>6
<1>16. ASSUME audio_thread_entry PROVE IInv'
  <2>1. TypeOK'
    BY <1>16 DEF audio_thread_entry
  <2>2. ClientHolds' /\ FmHolds'
    BY <1>16 DEF audio_thread_entry
  <2>3. StreamRuns' /\ WithinBounds' /\ ConfigRestored'
    BY <1>16 DEF audio_thread_entry
  <2>. QED
    BY <2>1, <2>2, <2>3
<1>17. ASSUME SendFrame PROVE IInv'
  <2>1. TypeOK'
    BY <1>17 DEF SendFrame
  <2>2. ClientHolds' /\ FmHolds'
    BY <1>17 DEF SendFrame
  <2>3. StreamRuns' /\ WithinBounds' /\ ConfigRestored'
    BY <1>17 DEF SendFrame
  <2>. QED
    BY <2>1, <2>2, <2>3
<1>18. ASSUME sound_transmit PROVE IInv'
  <2>1. TypeOK'
    BY <1>18 DEF sound_transmit
  <2>2. ClientHolds' /\ FmHolds'
    BY <1>18 DEF sound_transmit
  <2>3. StreamRuns' /\ WithinBounds' /\ ConfigRestored'
    BY <1>18 DEF sound_transmit
  <2>. QED
    BY <2>1, <2>2, <2>3
<1>19. ASSUME FrameDone PROVE IInv'
  <2>1. TypeOK'
    BY <1>19 DEF FrameDone
  <2>2. ClientHolds' /\ FmHolds'
    BY <1>19 DEF FrameDone
  <2>3. StreamRuns' /\ WithinBounds' /\ ConfigRestored'
    BY <1>19 DEF FrameDone
  <2>. QED
    BY <2>1, <2>2, <2>3
<1>20. ASSUME BufferFull PROVE IInv'
  <2>1. TypeOK'
    BY <1>20 DEF BufferFull
  <2>2. ClientHolds' /\ FmHolds'
    BY <1>20 DEF BufferFull
  <2>3. StreamRuns' /\ WithinBounds' /\ ConfigRestored'
    BY <1>20 DEF BufferFull
  <2>. QED
    BY <2>1, <2>2, <2>3
<1>21. ASSUME BufferFree PROVE IInv'
  <2>1. TypeOK'
    BY <1>21 DEF BufferFree
  <2>2. ClientHolds' /\ FmHolds'
    BY <1>21 DEF BufferFree
  <2>3. StreamRuns' /\ WithinBounds' /\ ConfigRestored'
    BY <1>21 DEF BufferFree
  <2>. QED
    BY <2>1, <2>2, <2>3
<1>22. ASSUME PushWord PROVE IInv'
  <2>1. TypeOK'
    BY <1>22 DEF PushWord
  <2>2. ClientHolds' /\ FmHolds'
    BY <1>22 DEF PushWord
  <2>3. StreamRuns' /\ WithinBounds' /\ ConfigRestored'
    BY <1>22 DEF PushWord
  <2>. QED
    BY <2>1, <2>2, <2>3
<1>23. ASSUME audio_sem_pend PROVE IInv'
  <2>1. TypeOK'
    BY <1>23 DEF audio_sem_pend
  <2>2. ClientHolds' /\ FmHolds'
    BY <1>23 DEF audio_sem_pend
  <2>3. StreamRuns' /\ WithinBounds' /\ ConfigRestored'
    BY <1>23 DEF audio_sem_pend
  <2>. QED
    BY <2>1, <2>2, <2>3
<1>24. ASSUME audio_isr PROVE IInv'
  <2>1. TypeOK'
    <3>1. DeviceType'
      BY <1>24 DEF audio_isr, SemRelease
    <3>2. StreamType'
      BY <1>24, SemReleaseRange DEF audio_isr
    <3>3. PlaceType'
      BY <1>24 DEF audio_isr, SemRelease
    <3>. QED
      BY <3>1, <3>2, <3>3
  <2>2. ClientHolds'
    BY <1>24 DEF audio_isr, SemRelease
  <2>3. FmHolds'
    BY <1>24 DEF audio_isr, SemRelease
  <2>4. StreamRuns'
    BY <1>24 DEF audio_isr, SemRelease
  <2>5. WithinBounds'
    BY <1>24 DEF audio_isr, SemRelease
  <2>6. ConfigRestored'
    BY <1>24 DEF audio_isr, SemRelease
  <2>. QED
    BY <2>1, <2>2, <2>3, <2>4, <2>5, <2>6
<1>25. ASSUME ab32_sound_fm_acquire PROVE IInv'
  <2>1. TypeOK'
    BY <1>25 DEF ab32_sound_fm_acquire, DacBusy
  <2>2. ClientHolds' /\ FmHolds'
    BY <1>25 DEF ab32_sound_fm_acquire, DacBusy
  <2>3. StreamRuns' /\ WithinBounds' /\ ConfigRestored'
    BY <1>25 DEF ab32_sound_fm_acquire, DacBusy
  <2>. QED
    BY <2>1, <2>2, <2>3
<1>26. ASSUME FmAcquired PROVE IInv'
  <2>1. TypeOK'
    BY <1>26 DEF FmAcquired
  <2>2. ClientHolds' /\ FmHolds'
    BY <1>26 DEF FmAcquired
  <2>3. StreamRuns' /\ WithinBounds' /\ ConfigRestored'
    BY <1>26 DEF FmAcquired
  <2>. QED
    BY <2>1, <2>2, <2>3
<1>27. ASSUME ab32_sound_fm_volume PROVE IInv'
  <2>1. TypeOK'
    BY <1>27 DEF ab32_sound_fm_volume
  <2>2. ClientHolds' /\ FmHolds'
    BY <1>27 DEF ab32_sound_fm_volume
  <2>3. StreamRuns' /\ WithinBounds' /\ ConfigRestored'
    BY <1>27 DEF ab32_sound_fm_volume
  <2>. QED
    BY <2>1, <2>2, <2>3
<1>28. ASSUME ab32_sound_fm_release PROVE IInv'
  <2>1. TypeOK'
    <3>1. DeviceType'
      BY <1>28 DEF ab32_sound_fm_release, SemRelease
    <3>2. StreamType'
      BY <1>28, SemReleaseRange DEF ab32_sound_fm_release
    <3>3. PlaceType'
      BY <1>28 DEF ab32_sound_fm_release, SemRelease
    <3>. QED
      BY <3>1, <3>2, <3>3
  <2>2. ClientHolds'
    BY <1>28 DEF ab32_sound_fm_release, SemRelease
  <2>3. FmHolds'
    BY <1>28 DEF ab32_sound_fm_release, SemRelease
  <2>4. StreamRuns'
    BY <1>28 DEF ab32_sound_fm_release, SemRelease
  <2>5. WithinBounds'
    BY <1>28 DEF ab32_sound_fm_release, SemRelease
  <2>6. ConfigRestored'
    BY <1>28 DEF ab32_sound_fm_release, SemRelease
  <2>. QED
    BY <2>1, <2>2, <2>3, <2>4, <2>5, <2>6
<1>29. ASSUME FmReleased PROVE IInv'
  <2>1. TypeOK'
    <3>1. DeviceType'
      BY <1>29 DEF FmReleased
    <3>2. StreamType'
      BY <1>29 DEF FmReleased
    <3>3. PlaceType'
      BY <1>29 DEF FmReleased
    <3>. QED
      BY <3>1, <3>2, <3>3
  <2>2. ClientHolds'
    BY <1>29 DEF FmReleased
  <2>3. FmHolds'
    BY <1>29 DEF FmReleased
  <2>4. StreamRuns'
    BY <1>29 DEF FmReleased
  <2>5. WithinBounds'
    BY <1>29 DEF FmReleased
  <2>6. ConfigRestored'
    BY <1>29 DEF FmReleased
  <2>. QED
    BY <2>1, <2>2, <2>3, <2>4, <2>5, <2>6
<1>30. ASSUME NEW call \in {"start", "stop", "configure"}, sound_device_control(call) PROVE IInv'
  <2>1. TypeOK'
    BY <1>30 DEF sound_device_control, GateOpen
  <2>2. ClientHolds' /\ FmHolds'
    BY <1>30 DEF sound_device_control, GateOpen
  <2>3. StreamRuns' /\ WithinBounds' /\ ConfigRestored'
    BY <1>30 DEF sound_device_control, GateOpen
  <2>. QED
    BY <2>1, <2>2, <2>3
<1>31. ASSUME UNCHANGED vars PROVE IInv'
  <2>1. TypeOK'
    BY <1>31 DEF vars
  <2>2. ClientHolds' /\ FmHolds'
    BY <1>31 DEF vars
  <2>3. StreamRuns' /\ WithinBounds' /\ ConfigRestored'
    BY <1>31 DEF vars
  <2>. QED
    BY <2>1, <2>2, <2>3
<1>. QED
  BY <1>1, <1>2, <1>3, <1>4, <1>5, <1>6, <1>7, <1>8, <1>9, <1>10, <1>11, <1>12, <1>13, <1>14, <1>15, <1>16, <1>17, <1>18, <1>19, <1>20, <1>21, <1>22, <1>23, <1>24, <1>25, <1>26, <1>27, <1>28, <1>29, <1>30, <1>31
     DEF Next, Client, ClientCall, Worker, FmSteps, FmInside

\* The invariant holds in every reachable state.
THEOREM Invariant == Spec => []IInv
<1>. QED
  BY InitIInv, StepIInv, PTL DEF Spec

\* Every variable of the sound device keeps its type.
THEOREM TypeCorrect == Spec => []TypeOK
<1>1. IInv => TypeOK
  BY DEF IInv
<1>. QED
  BY <1>1, Invariant, PTL

\* FM never has the DAC while a PCM client is anywhere inside the device, not
\* even between the two halves of an open or of a close.
THEOREM DacIsExclusive == Spec => []DacExclusive
<1>1. IInv => DacExclusive
  BY DEF IInv, ClientHolds, FmHolds, DacExclusive, TypeOK, PlaceType
<1>. QED
  BY <1>1, Invariant, PTL

\* A stream marked active is one the hardware plays.
THEOREM StreamsAlive == Spec => []NoDeadStream
<1>1. IInv => NoDeadStream
  BY DEF IInv, StreamRuns
<1>. QED
  BY <1>1, Invariant, PTL

\* Whenever FM is not in the DAC its registers hold the client's settings.
THEOREM ConfigIsRestored == Spec => []ConfigRestored
<1>1. IInv => ConfigRestored
  BY DEF IInv
<1>. QED
  BY <1>1, Invariant, PTL

-----------------------------------------------------------------------------
\* The gate implements the abstract ownership of the DAC: every step takes the
\* DAC from nobody, gives it back, or leaves its owner alone.
THEOREM OwnershipImplemented == Spec => ImplementsDacOwnership
<1>1. Init => Dac!Init
  BY DEF Init, Dac!Init, owner
<1>2. IInv /\ [Next]_vars => [Dac!Next]_owner
  <2>. SUFFICES ASSUME IInv, [Next]_vars
                PROVE  [Dac!Next]_owner
    OBVIOUS
  <2>. USE DEF IInv, ClientHolds, FmHolds, owner,
               hal, gate, frame, fifo, client, others, user, pcm
  <2>1. ASSUME sound_device_open PROVE Dac!Take("pcm")
    BY <2>1 DEF sound_device_open, Dac!Take
  <2>2. ASSUME sound_device_close PROVE Dac!Give
    BY <2>2 DEF sound_device_close, Dac!Give
  <2>3. ASSUME ab32_sound_fm_acquire PROVE Dac!Take("fm")
    BY <2>3 DEF ab32_sound_fm_acquire, DacBusy, Dac!Take
  <2>4. ASSUME FmReleased PROVE Dac!Give
    BY <2>4 DEF FmReleased, Dac!Give
  <2>5. ASSUME \/ Worker \/ audio_isr
               \/ FmAcquired \/ ab32_sound_fm_volume \/ ab32_sound_fm_release
        PROVE  UNCHANGED owner
    <3>1. UNCHANGED <<dma_to_aubuf, pcm_open>>
      BY <2>5
         DEF Worker, audio_thread_entry, SendFrame, sound_transmit, FrameDone,
             BufferFull, BufferFree, PushWord, audio_sem_pend, audio_isr,
             FmAcquired, ab32_sound_fm_volume, ab32_sound_fm_release
    <3>. QED
      BY <3>1
  <2>6. ASSUME \/ sound_device_init \/ sound_device_write
               \/ \E call \in {"start", "stop", "configure"} : sound_device_control(call)
               \/ rt_device_close \/ rt_device_open \/ WriteBlock \/ sound_start
               \/ ReplayActivated \/ sound_configure \/ ReplayStop \/ ArmCompletion
               \/ StopAcked \/ sound_stop \/ ReplayStopped \/ UNCHANGED vars
        PROVE  UNCHANGED owner
    <3>1. UNCHANGED <<dma_to_aubuf, pcm_open>>
      BY <2>6
         DEF sound_device_init, sound_device_write, sound_device_control, rt_device_close,
             rt_device_open, WriteBlock, sound_start, ReplayActivated, sound_configure,
             ReplayStop, ArmCompletion, StopAcked, sound_stop, ReplayStopped, vars
    <3>. QED
      BY <3>1
  <2>. QED
    BY <2>1, <2>2, <2>3, <2>4, <2>5, <2>6
       DEF Next, Client, ClientCall, Worker, FmSteps, FmInside, Dac!Next
<1>. QED
  BY <1>1, <1>2, Invariant, PTL DEF Spec, ImplementsDacOwnership, Dac!Spec
=============================================================================
