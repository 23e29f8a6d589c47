------------------------------ MODULE SoundGate ------------------------------
(***************************************************************************)
(* sound0 and its FM gate (drv_sound.c): a PCM client that opens, writes,  *)
(* configures, starts, stops and closes the device through the audio       *)
(* framework, the "audio" worker thread that feeds the DAC buffer, and the *)
(* FM receiver that takes the whole DAC for itself.                        *)
(*                                                                         *)
(* sound_lock guards the HAL; the worker runs without it, and the          *)
(* framework's own flags (activated, event, cmp) change outside it.  A     *)
(* step is what runs between two points where another thread can see a     *)
(* difference.  There is one PCM client thread, as in the repository (the  *)
(* shell's pcmcheck); FM operations are serialised by fm_lock, so the FM   *)
(* receiver is one process here.                                           *)
(***************************************************************************)
EXTENDS Integers

CONSTANTS
    Formats, Volumes,   \* PCM rate/channels settings; mixer volumes
    FmFormat,           \* 38 kHz stereo
    BootFormat, BootVolume,
    POOL,               \* blocks of the replay memory pool, eight frames each in
                        \*   the code; the worker sends a block as one frame here
    WRITE,              \* the longest write, in blocks it touches: under 64 KiB,
                        \*   where the 16-bit index of the copy would come round
    WORDS,              \* words of one frame
    SEM_MAX             \* RT_SEM_VALUE_MAX

ASSUME SoundAssumption ==
    /\ FmFormat \notin Formats
    /\ BootFormat \in Formats /\ BootVolume \in Volumes
    /\ POOL \in Nat \ {0} /\ WRITE \in Nat /\ WORDS \in Nat \ {0} /\ SEM_MAX \in Nat \ {0}

VARIABLES
    sound_lock,         \* "free", or "fm" while FM sleeps inside the lock
    running, dma_to_aubuf, pcm_open, ref_count,
    config,             \* replay_config and volume: what the client asked for
    hw,                 \* DAC format and volume registers
    ready,              \* RT_DEVICE_FLAG_ACTIVATED: the deferred init has run
    activated, stop_event, done,        \* framework: replay->activated, event, cmp
    queue, partial,     \* blocks queued for the worker; a block being filled
    sem,                \* snd_dev.semaphore
    full, irq_on,       \* AUBUFCON BIT(8) buffer full, BIT(4) interrupt enable
    pc, closing,        \* PCM client: where it is, is this stop a close
    rest,               \* blocks its write has still to copy into
    wpc, left,          \* worker: where it is, words left of its frame
    fpc                 \* FM receiver: where it is

hal   == <<sound_lock, running, dma_to_aubuf, config, hw>>
gate  == <<pcm_open, ref_count, ready>>
frame == <<activated, stop_event, done, queue, partial>>
fifo  == <<sem, full, irq_on>>
vars  == <<hal, gate, frame, fifo, pc, closing, rest, wpc, left, fpc>>

Settings == [format : Formats, volume : Volumes]
Registers == [format : Formats \cup {FmFormat}, volume : Volumes \cup {0}]

Init ==
    /\ sound_lock = "free" /\ running = FALSE /\ dma_to_aubuf = FALSE
    /\ pcm_open = FALSE /\ ref_count = 0 /\ ready = FALSE
    /\ config = [format |-> BootFormat, volume |-> BootVolume]
    /\ hw \in Registers
    /\ activated = FALSE /\ stop_event = FALSE /\ done = FALSE
    /\ queue = 0 /\ partial = FALSE
    /\ sem = 0 /\ full = FALSE /\ irq_on = FALSE
    /\ pc = "out" /\ closing = FALSE /\ rest = 0
    /\ wpc = "idle" /\ left = 0 /\ fpc = "off"

Locked == sound_lock # "free"
SemRelease(s) == IF s < SEM_MAX THEN s + 1 ELSE s

-----------------------------------------------------------------------------
(* The PCM client.                                                         *)

client == <<pc, closing, rest>>
others == <<wpc, left, fpc>>

\* The deferred init of the first rt_device_open, in a lock section of its own.
sound_device_init ==
    /\ pc = "out" /\ ~ready /\ ~Locked /\ ~dma_to_aubuf
    /\ ready' = TRUE /\ hw' = config
    /\ UNCHANGED <<sound_lock, running, dma_to_aubuf, config, pcm_open, ref_count,
                   frame, fifo, client, others>>

\* An open that does not ask whether FM has the DAC: a mutant.
sound_device_open_unchecked ==
    /\ pc = "out" /\ ready /\ ~Locked
    /\ pcm_open' = TRUE /\ pc' = "opened"
    /\ stop_event' = IF activated THEN stop_event ELSE FALSE
    /\ UNCHANGED <<hal, ref_count, ready, activated, done, queue, partial, fifo, closing, rest, others>>

\* sound_device_open, under the lock.
sound_device_open ==
    /\ pc = "out" /\ ready /\ ~Locked
    /\ ~dma_to_aubuf            \* else -RT_EBUSY, and the client is still out
    /\ pcm_open' = TRUE /\ pc' = "opened"
    /\ stop_event' = IF activated THEN stop_event ELSE FALSE
    /\ UNCHANGED <<hal, ref_count, ready, activated, done, queue, partial, fifo, closing, rest, others>>

\* rt_device_open counts the reference after the driver's open returned.
rt_device_open ==
    /\ pc = "opened"
    /\ ref_count' = ref_count + 1 /\ pc' = "in"
    /\ UNCHANGED <<hal, pcm_open, ready, frame, fifo, closing, rest, others>>

\* The gates of write (no lock) and of control (lock taken and dropped).
GateOpen == pcm_open /\ ~dma_to_aubuf

InWrite == IF rest' = 0 THEN "start" ELSE "write"

\* A write of any length, nothing at all included.
sound_device_write ==
    /\ pc = "in" /\ GateOpen
    /\ rest' \in 0 .. WRITE /\ pc' = InWrite
    /\ UNCHANGED <<hal, gate, frame, fifo, closing, others>>

sound_device_control(next) ==
    /\ pc = "in" /\ ~Locked /\ GateOpen
    /\ pc' = next
    /\ UNCHANGED <<hal, gate, frame, fifo, closing, rest, others>>

\* One iteration of the loop in _audio_dev_write: with no block begun it takes
\* one from the pool, and waits there for ever if the worker frees none; it
\* fills the block up, and may leave only the last one partly filled.  The
\* replay is started after the loop.
WriteBlock ==
    /\ pc = "write"
    /\ partial \/ queue < POOL
    /\ partial' \in (IF rest = 1 THEN BOOLEAN ELSE {FALSE})
    /\ queue' = IF partial' THEN queue ELSE queue + 1
    /\ rest' = rest - 1 /\ pc' = InWrite
    /\ UNCHANGED <<hal, gate, activated, stop_event, done, fifo, closing, others>>

\* sound_start through SOUND_CALL; the framework ignores what it returns.
sound_start ==
    /\ pc = "start"
    /\ \/ activated /\ pc' = "in" /\ UNCHANGED running
       \/ ~activated /\ ~Locked
          /\ running' = (running \/ ~dma_to_aubuf) /\ pc' = "started"
    /\ UNCHANGED <<sound_lock, dma_to_aubuf, config, hw, gate, frame, fifo, closing, rest, others>>

ReplayActivated ==
    /\ pc = "started"
    /\ activated' = TRUE /\ pc' = "in"
    /\ UNCHANGED <<hal, gate, stop_event, done, queue, partial, fifo, closing, rest, others>>

\* sound_configure through SOUND_CALL: a format only while not running.
sound_configure ==
    /\ pc = "configure" /\ ~Locked
    /\ \/ \E v \in Volumes : /\ ~dma_to_aubuf
                              /\ config' = [config EXCEPT !.volume = v]
                              /\ hw' = [hw EXCEPT !.volume = v]
       \/ \E f \in Formats : /\ ~dma_to_aubuf /\ ~running
                              /\ config' = [config EXCEPT !.format = f]
                              /\ hw' = [hw EXCEPT !.format = f]
       \/ (dma_to_aubuf \/ running) /\ UNCHANGED <<config, hw>>
    /\ pc' = "in"
    /\ UNCHANGED <<sound_lock, running, dma_to_aubuf, gate, frame, fifo, closing, rest, others>>

\* rt_device_close drops the reference before it calls the driver.
rt_device_close ==
    /\ pc = "in"
    /\ ref_count' = ref_count - 1 /\ closing' = TRUE /\ pc' = "stop"
    /\ UNCHANGED <<hal, pcm_open, ready, frame, fifo, rest, others>>

StopDone == IF closing THEN "shut" ELSE "in"

\* _aduio_replay_stop: flush, raise the event, arm the completion, wait.
ReplayStop ==
    /\ pc = "stop"
    /\ \/ /\ activated
          /\ queue' = (IF partial THEN queue + 1 ELSE queue) /\ partial' = FALSE
          /\ stop_event' = TRUE /\ pc' = "arm"
       \/ ~activated /\ UNCHANGED <<queue, partial, stop_event>> /\ pc' = StopDone
    /\ UNCHANGED <<hal, gate, activated, done, fifo, closing, rest, others>>

ArmCompletion ==
    /\ pc = "arm"
    /\ done' = FALSE /\ pc' = "wait"
    /\ UNCHANGED <<hal, gate, activated, stop_event, queue, partial, fifo, closing, rest, others>>

StopAcked ==
    /\ pc = "wait" /\ done
    /\ stop_event' = FALSE /\ pc' = "halt"
    /\ UNCHANGED <<hal, gate, activated, done, queue, partial, fifo, closing, rest, others>>

\* sound_stop through SOUND_CALL; the semaphore wakes a blocked transmit.
sound_stop ==
    /\ pc = "halt" /\ ~Locked
    /\ \/ dma_to_aubuf /\ UNCHANGED <<running, sem, irq_on>>
       \/ ~dma_to_aubuf /\ running' = FALSE /\ sem' = SemRelease(sem) /\ irq_on' = FALSE
    /\ pc' = "halted"
    /\ UNCHANGED <<sound_lock, dma_to_aubuf, config, hw, gate, frame, full, closing, rest, others>>

ReplayStopped ==
    /\ pc = "halted"
    /\ activated' = FALSE /\ pc' = StopDone
    /\ UNCHANGED <<hal, gate, stop_event, done, queue, partial, fifo, closing, rest, others>>

\* The end of sound_device_close, under the lock again.
sound_device_close ==
    /\ pc = "shut" /\ ~Locked
    /\ pcm_open' = FALSE /\ closing' = FALSE /\ pc' = "out"
    /\ UNCHANGED <<hal, ref_count, ready, frame, fifo, rest, others>>

-----------------------------------------------------------------------------
(* The worker thread and the DAC buffer.                                   *)

user == <<client, fpc>>

audio_thread_entry ==
    /\ wpc = "idle"
    /\ ~dma_to_aubuf /\ running /\ activated
    /\ wpc' = "frame"
    /\ UNCHANGED <<hal, gate, frame, fifo, left, user>>

\* A worker that does not free the block it sent: a mutant.
SendFrame_keepsBlock ==
    /\ wpc = "frame"
    /\ done' = (done \/ (queue = 0 /\ stop_event))
    /\ wpc' = "transmit"
    /\ UNCHANGED <<hal, gate, activated, stop_event, queue, partial, fifo, left, user>>

\* _audio_send_replay_frame: an empty queue acknowledges a pending stop, and
\* a frame of zeros is sent all the same.
SendFrame ==
    /\ wpc = "frame"
    /\ \/ queue > 0 /\ queue' = queue - 1 /\ UNCHANGED done
       \/ queue = 0 /\ done' = (done \/ stop_event) /\ UNCHANGED queue
    /\ wpc' = "transmit"
    /\ UNCHANGED <<hal, gate, activated, stop_event, partial, fifo, left, user>>

sound_transmit ==
    /\ wpc = "transmit"
    /\ \/ running /\ ~dma_to_aubuf /\ wpc' = "word" /\ left' = WORDS
       \/ (~running \/ dma_to_aubuf) /\ wpc' = "idle" /\ UNCHANGED left
    /\ UNCHANGED <<hal, gate, frame, fifo, user>>

\* The loops of sound_transmit look at running only.
FrameDone ==
    /\ wpc = "word" /\ (left = 0 \/ ~running)
    /\ left' = 0 /\ wpc' = "idle"
    /\ UNCHANGED <<hal, gate, frame, fifo, user>>

BufferFull ==
    /\ wpc = "word" /\ left > 0 /\ running /\ full
    /\ irq_on' = TRUE /\ wpc' = "pend"
    /\ UNCHANGED <<hal, gate, frame, sem, full, left, user>>

BufferFree ==
    /\ wpc = "word" /\ left > 0 /\ running /\ ~full
    /\ wpc' = "push"
    /\ UNCHANGED <<hal, gate, frame, fifo, left, user>>

PushWord ==
    /\ wpc = "push"
    /\ full' \in BOOLEAN
    /\ left' = left - 1 /\ wpc' = "word"
    /\ UNCHANGED <<hal, gate, frame, sem, irq_on, user>>

\* audio_sem_pend: a token, or one second gone by.
audio_sem_pend ==
    /\ wpc = "pend"
    /\ \/ sem > 0 /\ sem' = sem - 1 /\ wpc' = "word" /\ UNCHANGED left
       \/ UNCHANGED sem /\ wpc' = "idle" /\ left' = 0
    /\ UNCHANGED <<hal, gate, frame, full, irq_on, user>>

\* The DAC plays its buffer out, and interrupts if that is enabled.
audio_isr ==
    /\ full /\ full' = FALSE
    /\ \/ irq_on /\ irq_on' = FALSE /\ sem' = SemRelease(sem)
       \/ ~irq_on /\ UNCHANGED <<irq_on, sem>>
    /\ UNCHANGED <<hal, gate, frame, wpc, left, user>>

-----------------------------------------------------------------------------
(* The FM receiver, or the DAC test tone: fm_lock is held throughout.      *)

pcm == <<gate, frame, full, client, wpc, left>>

\* The conditions of the acquire without the client's: a mutant.
DacBusy_noClient == running \/ dma_to_aubuf

DacBusy == running \/ dma_to_aubuf \/ pcm_open \/ ref_count # 0

\* ab32_sound_fm_acquire: sound_init sleeps in the PLL setup, lock held.
ab32_sound_fm_acquire ==
    /\ fpc = "off" /\ ~Locked
    /\ ~DacBusy                 \* else -RT_EBUSY, and FM is still off
    /\ dma_to_aubuf' = TRUE /\ sound_lock' = "fm" /\ fpc' = "acquire"
    /\ UNCHANGED <<running, config, hw, pcm, sem, irq_on>>

FmAcquired ==
    /\ fpc = "acquire"
    /\ hw' = [format |-> FmFormat, volume |-> 0]
    /\ running' = TRUE /\ sound_lock' = "free" /\ fpc' = "own"
    /\ UNCHANGED <<dma_to_aubuf, config, pcm, sem, irq_on>>

\* ab32_sound_fm_volume: after START, TUNE and VOLUME, and 0 before a retune or
\* a shutdown.
ab32_sound_fm_volume ==
    /\ fpc = "own" /\ ~Locked
    /\ dma_to_aubuf
    /\ \E v \in Volumes \cup {0} : hw' = [hw EXCEPT !.volume = v]
    /\ UNCHANGED <<sound_lock, running, dma_to_aubuf, config, pcm, sem, irq_on, fpc>>

\* ab32_sound_fm_release: the PLL setup sleeps again, with running cleared.
ab32_sound_fm_release ==
    /\ fpc = "own" /\ ~Locked
    /\ dma_to_aubuf
    /\ hw' = [hw EXCEPT !.volume = 0]
    /\ running' = FALSE /\ sem' = SemRelease(sem) /\ irq_on' = FALSE
    /\ sound_lock' = "fm" /\ fpc' = "release"
    /\ UNCHANGED <<dma_to_aubuf, config, pcm>>

\* A release that forgets the client's settings: a mutant.
FmReleased_noRestore ==
    /\ fpc = "release"
    /\ dma_to_aubuf' = FALSE /\ sound_lock' = "free" /\ fpc' = "off"
    /\ UNCHANGED <<running, config, hw, pcm, sem, irq_on>>

FmReleased ==
    /\ fpc = "release"
    /\ hw' = config
    /\ dma_to_aubuf' = FALSE /\ sound_lock' = "free" /\ fpc' = "off"
    /\ UNCHANGED <<running, config, pcm, sem, irq_on>>

-----------------------------------------------------------------------------
\* The client inside a call: its thread runs until the call returns.
ClientCall ==
    \/ rt_device_open \/ WriteBlock \/ sound_start \/ ReplayActivated
    \/ sound_configure \/ ReplayStop \/ ArmCompletion \/ StopAcked
    \/ sound_stop \/ ReplayStopped \/ sound_device_close

Client ==
    \/ sound_device_init \/ sound_device_open \/ sound_device_write
    \/ \E call \in {"start", "stop", "configure"} : sound_device_control(call)
    \/ rt_device_close
    \/ ClientCall

Worker ==
    \/ audio_thread_entry \/ SendFrame \/ sound_transmit
    \/ FrameDone \/ BufferFull \/ BufferFree \/ PushWord \/ audio_sem_pend

FmInside == FmAcquired \/ FmReleased
FmSteps == ab32_sound_fm_acquire \/ ab32_sound_fm_volume \/ ab32_sound_fm_release \/ FmInside

Next == Client \/ Worker \/ audio_isr \/ FmSteps

\* Threads inside a call and the worker are scheduled, the PLL wait ends.
\* The client need not call, FM need not start or stop, the DAC may stall: a
\* transmit that waits for it gives up after a second.
Fairness == WF_vars(ClientCall) /\ WF_vars(Worker) /\ WF_vars(FmInside)

Spec == Init /\ [][Next]_vars /\ Fairness

-----------------------------------------------------------------------------
DeviceType ==
    /\ sound_lock \in {"free", "fm"}
    /\ running \in BOOLEAN /\ dma_to_aubuf \in BOOLEAN
    /\ pcm_open \in BOOLEAN /\ ready \in BOOLEAN /\ ref_count \in 0..1
    /\ config \in Settings /\ hw \in Registers

StreamType ==
    /\ activated \in BOOLEAN /\ stop_event \in BOOLEAN /\ done \in BOOLEAN
    /\ queue \in 0..POOL /\ partial \in BOOLEAN /\ rest \in 0..WRITE
    /\ sem \in 0..SEM_MAX /\ full \in BOOLEAN /\ irq_on \in BOOLEAN
    /\ left \in 0..WORDS

PlaceType ==
    /\ pc \in {"out", "opened", "in", "write", "start", "started", "configure",
               "stop", "arm", "wait", "halt", "halted", "shut"}
    /\ closing \in BOOLEAN
    /\ wpc \in {"idle", "frame", "transmit", "word", "push", "pend"}
    /\ fpc \in {"off", "acquire", "own", "release"}

TypeOK == DeviceType /\ StreamType /\ PlaceType

\* While FM has the DAC no PCM client is inside the device: not between its
\* open and its reference, not after it dropped the reference and waits for
\* the worker, and no stream is marked active (the gates of open, write,
\* control and close, and the four conditions of ab32_sound_fm_acquire).
DacExclusive == dma_to_aubuf => /\ ~pcm_open /\ ref_count = 0
                                /\ ~activated /\ pc = "out"

\* An active stream is one the hardware plays: the framework never marks a
\* replay active whose start the HAL refused, so the worker feeds it and a
\* later stop can be acknowledged (the comment above sound_device_init).
NoDeadStream == activated => ~dma_to_aubuf /\ (running \/ pc = "halted")

\* Whenever FM is not in the DAC, its registers hold what the client last
\* configured, through any number of FM sessions and volume changes.
ConfigRestored == ready /\ ~Locked /\ ~dma_to_aubuf => hw = config

\* The client's calls return.  A close: the worker drains the queue and
\* acknowledges the stop, whatever the DAC does and whenever the close begins.
\* A write: of any length while the replay is active, since the worker refills
\* the pool it waits for, and else if the pool has room for the rest of it.
CallsReturn ==
    /\ closing ~> pc = "out"
    /\ pc = "write" /\ (activated \/ queue + rest <= POOL) ~> pc = "in"

\* What the comment above _audio_dev_write says: a write of any length puts its
\* data into the replay queue, replays it and returns the length.
WritesReturn == pc = "write" ~> pc = "in"

\* The owner of the DAC, as a client sees it.
owner == IF dma_to_aubuf THEN "fm" ELSE IF pcm_open THEN "pcm" ELSE "none"

Dac == INSTANCE DacOwnership

\* The gate implements the ownership the board promises: the DAC goes from one
\* owner to nobody before it goes to the other.
ImplementsDacOwnership == Dac!Spec

\* What drv_sound.c:555 says of the unlocked transmit: FM cannot have the DAC
\* while the worker transmits, so no PCM word enters the stream FM plays.
PcmQuietUnderFm ==
    [][wpc = "push" /\ wpc' = "word" => ~(dma_to_aubuf /\ running)]_vars
=============================================================================
