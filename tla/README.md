# Verification of the AB32VG1 (Bluetrum) board support

TLA+ models of the firmware in this repository that runs under RT-Thread on
the AB32VG1 board (`src/rtt/bsp`), the TLC runs that check them on small
instances, and proofs that TLAPS checks for every size.

## 1. The system

One core, preemptive priorities, mutexes with priority hand-over, interrupts.
The threads that matter here, highest priority first: the soft timers (4), the
Bluetooth controller `btctrl` (5), the NimBLE host `nimble` (9), `main` (10),
the pin interrupts `gpioirq` (15), the drivers' `drv` (18), the shell and the
audio worker (20, sharing time slices), `fm_sync` (21).

### 1.1 Inventory

Path prefixes: H = `src/rtt/bsp/libraries/hal_drivers`, P =
`src/rtt/bsp/board/ports`, A = `src/rtt/bsp/app`.

| part | state it keeps | operations | talks to | what makes it correct |
|---|---|---|---|---|
| infrared receiver `ir0` (H/drv_irrx.c) | queue of 16 events, pressed key, pending release, time of the last frame, saved pin set-up | ISR (frame, noise, release), `ab32_irrx_poll`, START, STOP, read | main (poll, reader), shell, pin PE6 | well-formed stream whatever overflows, no key stuck, no early release across the tick wrap, pin given back |
| sound device `sound0` (P/audio/drv_sound.c on the audio framework) | `running`, `dma_to_aubuf`, `pcm_open`, settings, worker events, replay queue | open, write, configure, start, stop, close, worker frame, DAC interrupt, FM acquire/volume/release | PCM client, audio worker, DAC interrupt, FM | one owner of the DAC, no dead stream, settings restored after FM, a close returns, and a write with room or a running replay (not every write: see 6) |
| FM receiver `fm0` (P/audio/drv_fmrx.c) | status, `pll_error`, `bt_claimed`, `fm_lock` | START, TUNE, STOP, VOLUME, STATUS, tone, rssi, sync thread, claim | sound0, main, shell, Bluetooth, power | status is honest, noise is never heard, failure undoes a start, the lock comes back |
| Bluetooth controller (P/bluetooth/drv_btctrl.c) | `worker`, `ready`, `host_receive`, job queue, HCI command under way, advertising/scanning | `ab32_btctrl_start_host`, `btctl test`, worker, submit, HCI commands | fm0 (STOP, claim), nimble, mask ROM | RF has one owner, every request is done with; one bring-up per boot and true reports (not kept: see 6) |
| NimBLE platform (P/nimble/npl_rtthread.c) | event queues, semaphores, callouts | put, get, remove, callout reset/stop/fire | host, timers, controller | no lost wake-up, a stopped callout stays silent |
| NimBLE transport (P/nimble/transport_ab32.c) | six ACL slots | command, ACL, receive | host, `btctrl` job queue | every buffer freed once |
| NimBLE application (P/nimble/app_nimble.c) | `synced`, `connection`, pending `action` | `ble start/adv/stop`, GAP events, sync, reset | host, shell | advertises whenever it should |
| board keys (A/board_keys.c) | per key: raw, stable, times, long sent; one ring; dropped | `board_keys_poll`, read, control | main, reader | no press without debounce, a steady key is reported, stream per key well-formed, loss visible |
| radio application (A/app_radio.c), LED (A/board_led.c), main loop (A/main.c) | `wanted`, `running`, pending command, held key, LED | poll every 10 ms, `radio start/stop` | keys, ir0, fm0, LED | never leaves FM on, never takes over a shell session, stops arrive |
| power (H/drv_power.c), RTC (H/drv_rtc.c) | RTC registers, `rtc_initialized`, `rtc_uncertain` | sleep, off, wake policy; get, set, align | observers of every driver | no sleep under a busy driver, full rollback, tick compensated, no torn time, half a set marked as no time |
| GPIO interrupts (H/drv_gpio.c) | enabled and pending pins, last levels, handlers | ISR, `gpioirq`, attach, detach, enable | clients' handlers | each edge served, none delivered to the next subscriber (not kept for a pin's own circuit: see 6) |
| UART reception (H/drv_usart.c, H/drv_common.c) | ring of ten bytes with 8-bit indices, notification bits | ISR, `drv` thread, `getc` | serial framework | no byte left behind; none overwritten (not kept: see 6) |
| USB CDC (P/usb), TF card (P/tf), decoder (H/drv_audec.c), SPI1 (H/drv_spi.c) | endpoints, card state, stream, bus owner | interrupt, callback and thread halves | shell, DFS, recovered HAL | not modelled, see 5 |
| downloader (`src/tools/linux`) | sequence number, attempt | synchronise, send, receive | boot ROM of the device | every packet accepted once, every block read once |
| the rest: flash, watchdog, timers, PWM, ADC, soft I2C, start-up, bare demos, recovered vendor code, vendored kernel and stacks | registers | register access | | not modelled, reasons in PROJECT.json |

### 1.2 What is hard in it

* Work that sleeps with a mutex held (PLL calibration, ten-second tone), while
  the main loop must not wait and Bluetooth must.
* State looked at before, and used after, such a wait (`worker`, `running`).
* A worker thread that runs one step behind `stop` and `close`.
* Interrupts between any two instructions of a read; a tick that wraps.
* Wake-ups given after the critical section that made them due, and one token
  or bit that stands for many events.
* Rings and pools at their limit; failures half-way through a start; an answer
  that comes after its command was given up; a reset between two byte writes.

PROJECT.json "hazards" lists each at its line, with the properties that catch
it.

## 2. The modules

```
EventRing <- IrReceiver  \                         EventRingProofs, RadioProofs
EventRing <- BoardKeys   /  <- MCInputEvents       BoardPartsProofs
DacOwnership <= SoundGate   \                      SoundGateProofs
FmService    <= FmReceiver   > <- MCAudio          FmReceiverProofs
FmService    <- RadioApp    /                      RadioProofs
FmReceiver <- BtBringUp <- MCBtBringUp             FmReceiverProofs
PowerOff, PowerSleep <- MCPower                    PowerOffProofs, PowerSleepProofs
NplQueue <- HciTransport <- NimbleHost \
                            BtCommands  > BtWorker <- MCBtWorker      BtWorkerProofs
BoardKeys, UartRx, PinIrq, RtcClock, Downloader
                                  <- BoardParts <- MCBoardParts       BoardPartsProofs
SoundGate <- MCSoundGate, BtCommands <- MCBtCommands,
UartRx <- MCUartRx, PinIrq <- MCPinIrq             what the code does not keep (6)
```

`<-` is EXTENDS or INSTANCE; `<=` is a refinement: the module on the right is
shown to implement the abstract one on the left.

**EventRing** is the ring that the infrared driver and the key driver both
write by hand: push that throws the oldest event away and counts it, pop,
clear. `head`, `tail` and `queued` are kept as in the code, with the wrap.

**IrReceiver** has one action per critical section: the interrupt with either
or both flags (`irrx_isr`), the poll, START, STOP, and one pop, because a read
opens the interrupts between two events. The hardware offers a frame, a word
that fails the inverse check, or a release; another driver may use pin PE6
while the receiver is off. Noted events (`last`, `missed`) are history
variables of a reader.

**BoardKeys** samples each key in turn, outside the lock where the code is
outside it (the pin read) and inside where it is inside. A read of a pin may
fail. The ring is shared by all keys and drained by one reader.

**SoundGate** is the sound device, the part of the audio framework a PCM
client passes through, the audio worker and the DAC interrupt. Threads have a
program counter for each place where they can be preempted or wait: the lock,
the pool, the completion, the semaphore of the DAC. A write goes round the
loop of `_audio_dev_write` block by block and starts the replay after it. A
block (4096 bytes in the code, eight frames of 512) is sent as one frame here;
what matters is that the worker, and only it, gives blocks back. **DacOwnership** is the
promise: the DAC belongs to nobody, to a PCM client or to FM, and only an idle
one is acquired.

**FmReceiver** splits each operation of `fm_control` where it sleeps with
`fm_lock` held (acquire, power-on, calibration, shutdown, tone, rssi). The
sound device appears as `owner`, `hw_volume` and `dac_sync`, the interface
that SoundGate verifies. **FmService** is what the clients of fm0 rely on.

**BtBringUp** composes FmReceiver with the bring-up of the Bluetooth
controller: `ble start` (host thread) and `btctl test` (shell) test `worker`,
stop FM, create a worker; the worker claims the RF and publishes `ready`.

**RadioApp** is one poll of the radio application, one action per call of fm0,
over FmService: while main is between two calls the Bluetooth threads can run;
the shell can run between polls, and inside one only with the lock in its
hands. The history variable `session` says who started what fm0 plays.

**PowerOff** is the OFF command of `power0` down to single updates of an RTC
register: each may fail, before the write or after it. The wake inputs move at
any time, also between the check and the recheck; nothing else runs, because
the scheduler is locked. The last write ends the life of the firmware, with the
registers of the RTC domain kept. SET_WAKE and SET_INPUT change them between
commands. `unrestored`, the registers whose rollback failed, is history.

**PowerSleep** is the SLEEP command over two clocks. `tick` advances while
Timer0 interrupts are served, `count` when the RTC does, and an RTC second is
`RATE - DRIFT` to `RATE + DRIFT` ticks long. Every place where the thread can
be preempted, or reads a clock, is a place of its own, so that the edge is read
some ticks after the second that it stands for. Drivers start and stop while
the scheduler is open; their observers change in thread context only, so the
scheduler lock alone stops them. `mark` and `passed`, the tick at the last RTC
second seen awake and the seconds since, are history.

**NplQueue** is the event queue of the NimBLE port and one callout. Four
threads put events, the host takes them. A put is two steps, because the
semaphore is released after the critical section; so is a get. The processor
goes to the ready thread of the highest priority (`MayRun`).
**HciTransport** adds the ACL slots, the job queue and the worker's loop in the
mode with a host, **NimbleHost** the application: what it does with
synchronisation, reset, connections and the shell's `ble adv` and `ble stop`.
The NimBLE stack in between is not in the repository; it may post events, start
and stop its callout, and send, at any time its thread runs.
**BtCommands** is the other mode of the worker, `btctl`: commands one by one,
an answer within two seconds or none, and a controller that may execute and
answer a command after it was given up. The controller's transport has five
credits, one for each command that is not answered; without one it drops the
command while `drv_bt_hci_cmd` answers true
(`src/bare/drivers/src/bt_hct_transport_recovered.c`,
`src/docs/lib-analysis/BLUETOOTH_RECOVERY.md`).  **BtWorker** is the two
modes.

**UartRx** has the two indices as they are, modulo `WRAP` (256), over a ring of
`RING` places (ten), with the bytes numbered; the ISR stores a byte whether or
not there is room. **PinIrq** has the ISR with the two kinds
of circuit (a pin's own, or the one that the others share and that is armed for
the opposite of their last level), the thread that visits pin after pin, and
the clients. Its history says whose level moved since it was subscribed or
sampled (`moved`), and for which of them an edge is on its way (`fresh`).
**RtcClock** reads and writes the counter byte by byte; any
transfer may fail, before or after its effect, seconds pass in between, and the
chip may be reset or lose its supply at any step. **Downloader** is the host's
end of the serial protocol against the ROM as the host must assume it.
**BoardParts** puts these four, which share no state, and one key of BoardKeys
beside each other: a behaviour is one of one part.

In every module the actions carry the names of the functions they model, and
PROJECT.json "map" names the lines. Where two modules share a run, the names both
would use carry a prefix in one of them (`ir_tick`, `off_pc`, `radio_volume`). Definitions marked "a mutant" are wrong
variants of the definition that follows them; they belong to no specification
and only serve to show that each property can fail.

## 3. The runs

| run | question | bounds | states |
|---|---|---|---|
| input_events | infrared: stream, reader, loss, pin, release time; keys: two in one ring, the reader not misled | queue 2, counter 2; 2 words (symmetric), 1 noise word, tick mod 4, release after 2 ticks, poll within 1; 2 keys, tick mod 3 | 2.9 M |
| audio | sound0: DAC ownership, refinement, settings, close and write return; fm0: honest status, its lock, its refinement; radio: off is off, no take-over, the session follows what is wanted | 1 format and FM's, 2 volumes, pool of 2 blocks, writes of 0 to 3 blocks, frame of 2 words; 2 callers, 2 stations, 3 volumes | 66 k |
| bt_coexist | RF exclusivity, the worker's verdict | both commands, 3 callers, 1 frequency, 2 workers | 171 k |
| power0 | OFF: commit or complete rollback; SLEEP: busy drivers, the tick after a sleep, return | 1 driver, 2 wake sources, any transfer fails; second of 3 ticks +- 1, a round up to 2 ticks late, preemption up to 5, tick mod 14, RTC mod 4 | 420 k |
| bt_worker | wake-ups, callouts, slots, advertising, requests in both modes | 1 ACL slot, job queue of 1, semaphore of 1, 2 credits | 392 k |
| board_parts | debounce, reception, pin edges, time, download | 1 key (debounce 2, tick mod 5); 2 UARTs, ring 3 and index mod 4; 2 pins, one of each kind; counter of 3 bytes of base 3, 2 seconds in a call, 3 retries; 3 sequence numbers, 5 messages | 596 k |
| sound_stale_transmit | expected violation, see 6 | as in audio, 1 format, 1 volume, writes of 1 block | |
| sound_long_write | expected violation, see 6 | pool of 2 blocks as in the code, writes up to 3 | |
| bt_two_bringups | expected violation, see 6 | both commands | |
| bt_late_answer | expected violation, see 6 | 5 credits as in the code | |
| uart_ring | expected violation, see 6 | ring 10, index mod 256 as in the code, at most 10 bytes unread | |
| pin_old_edge | expected violation, see 6 | 2 pins, one of each kind | |

Three passing runs put parts beside each other that share no state
(input_events, audio, power0), as BoardParts does in its module: a behaviour is
one of a single part, chosen in the initial state, while the others stand still
in one of their initial states. Each part has all the behaviours, and the
fairness, that it has alone.

Why the bounds are enough. A ring of two events already overflows, wraps
`head` and `tail`, and holds two events of different keys; a third slot adds
no comparison the code makes. The tick counter wraps at 4 with a release time
of 2, so that absolute and modular comparison differ; a poll may be as late as
the bound allows, and `2 * release <= wrap` is what the 32-bit tick and 400 ms
guarantee with room to spare. Two keys are the least that can push each other
out; the driver only compares words for equality, which makes them
symmetric. Two frequencies and two or three volumes tell a kept setting from a
lost one. Two workers are one more than the code means to create.
For the keys, input_events uses a VIEW that leaves out what no property or
guard of that run reads, and takes times as differences.

Two blocks are the pool of the code; a write of three is the first that does not
fit it. A write of 64 KiB or more, where the 16-bit index of the copy comes
round, is outside the model (`WRITE`). One slot and a queue of one are both full
after one packet, and a command competes with the packet for the only job; the
semaphore saturates at one. Two credits are the least with which one command
can be given up and another be dropped behind it; bt_late_answer has the five of
the code. A ring of three with an index of four does not divide it, wraps and
overflows with a handful of bytes, which is what `NoStrandedByte` could be
sensitive to; uart_ring has the real sizes, because the wrap at 256 is its
point. Two pins have one before the other in the thread's round. In base 3 a
carry runs through two bytes, and three samples can tear more than once. Three
sequence numbers come round within five messages.

A second of three ticks that is two to four ticks of the other clock, with a
guard of one tick, lets the RTC gain and lose against Timer0 in one sleep; a
preemption of five ticks is longer than a second and the guard together, so
that the sleep meets an edge of the same second that is too old, and of an
earlier second. The tick wraps within one command.

Some bounds cut behaviours off, because the code needs them too. In PowerSleep:
`LATE`, how long the thread stays away from a 1 ms round of the
alignment, and `PREEMPTED`, how long between the edge and the sleep. The
properties must hold with the second one past the guard; past the wrap of a
counter no difference of its values can tell. For the tick that is
`LATE + 2 * RATE < TICKS`, for RTCCNT
`LATE + GUARD < (SECONDS - 1) * (RATE - DRIFT)`: the RTC must not come all the
way round (136 years) within the rounds of an alignment. The proof asked for
the second one, and TLC shows `TickCompensated` violated without it (a rate of
3 with drift 2, guard 2 and a counter of 4). In RtcClock
`ELAPSE < BASE`: a call that took 256 seconds could read two samples torn at
different carries that agree. `MESSAGES` bounds how long a session
is. In the other
models every variable is finite by itself (counters saturate or wrap, as in the
code).

### 3.1 Fairness

* IrReceiver has no fairness: its bound on the release is a step property, with
  the lateness of the poll a constant. In BoardKeys the tick and the main loop's
  poll are weakly fair: main loops without an exit.
* In SoundGate three things are weakly fair: the steps of a client inside an
  operation (`ClientCall`), the audio worker, with the one-second limit of its
  wait for the DAC, and the steps of FM inside the lock (`FmInside`), which wait
  for nothing but time. No client is ever obliged to begin or to end anything,
  and of the DAC and its interrupt nothing is assumed.
* In FmReceiver only sleeps with a limit end (`Wake`). The PLL need never
  lock; the driver's own timeout must get the lock back.
* In BtBringUp the waits of the host and the worker for `fm_lock` are strongly
  fair: the mutex is handed to the waiter of the highest priority, and they
  (5 and 9) are above main and the shell.
* In PowerSleep the two clocks and the command are weakly fair: interrupts of
  hardware that runs, and a thread that the scheduler gets to. `running` is
  chosen at the start: of an RTC that stands still nothing is assumed.
* In BtWorker each thread of the host's mode goes on when it has the processor
  and its handlers end: weakly fair for the timer thread and the worker,
  strongly for the host and the shell, which the higher ones interrupt. That
  the shell gets the processor again and again is assumed: the worker sleeps a
  tick when it has no job, and radio traffic leaves pauses. In the diagnostic
  mode the worker's own steps are weakly fair (`DiagnosticStep`): its wait for an
  answer ends after two seconds. The controller need not answer.
* In BoardParts only the keys' tick and poll are fair.
* In RadioApp main never waits, it tries. `LockFoundFree` states that of infinitely
  many tries of one kind some find the lock free: nothing synchronises the
  other users' operations with the 10 ms loop.

## 4. What is proved

The theorems hold for every value of the constants under the named assumptions
of the modules (`IrAssumption`, `KeysAssumption`, `TransportAssumption`, and so on).

* **EventRingProofs**: what a push, a pop and a clear make of the indices, the
  `Contents` and the loss counter, with and without overflow, for every
  capacity. The proofs of both users of the ring rest on it.
* **RadioProofs**: of the receiver the type, stream, reader, pins,
  `LossIsVisible` and the action property `ReleaseInTime`. The inductive
  invariant adds to the properties that a held key belongs to a running
  receiver, that each link of the queue is a legal succession, and that `age`,
  the true time since the last frame, is congruent to the difference of the
  ticks as long as it is below the wrap. For the loss it says what the counter
  is, `seen_dropped` and the `missed` events on (`Told`), of which the property
  is a corollary: between one and `COUNTER - 1` losses move the counter. Of the
  radio `OffIsOff` and `NoTakeOver`: the invariant says for each place of a
  poll whether the radio can be on there.
* **SoundGateProofs**: type, `DacExclusive`, `NoDeadStream`, `ConfigRestored`
  and the refinement of DacOwnership. The invariant ties the program counters
  to `pcm_open`, the reference count and the lock: who is between which two
  steps explains every half-done state that FM's test must see through.
* **FmReceiverProofs**: type, `StatusHonest`, `NoiseNeverHeard`,
  `PowerBusyCovers`, the refinement of FmService, and for the composition
  `RfExclusive` and `ClaimKeepsFmOut`. The invariant says, per place an
  operation can sleep at, what the receiver, the route and the DAC are
  (`AtPlace`), and that a worker past its claim implies `bt_claimed`, with
  which fm0 is off.

* **PowerOffProofs**: type, `OffCommitted` and the action property
  `OffUndone`. The invariant says, for each place of a shutdown, which
  registers are prepared and which are settled: as they were, or on record as
  lost.
* **PowerSleepProofs**: type, `NoSleepUnderBusy` and the action property
  `TickCompensated`, for every rate, drift, preemption and width of the two
  counters. Nobody is busy from the second look on, and the lent wake policy is
  in RTCCON while asleep only. For the tick, the invariant relates four
  measures at each place of the command (`Awake`, `Aligning`, `Armed`,
  `Asleep`): the ticks since the edge, the RTC seconds since the one the
  alignment started from or found, the phase within the present second, and
  the ticks waited. A second takes `RATE - DRIFT` ticks at least, so
  `Span(n) + phase` is a lower bound of the time n seconds took. It follows
  that past the guard the second found is over, that within it the edge belongs
  to the second found, and that Timer0 is off for two seconds at most.
* **BtWorkerProofs**: `NoLostWake`, `StoppedIsSilent`, `SlotsAccounted`,
  `NeverDark`. For the first, the invariant adds that an event
  is linked once and where the host stands; for the slots, that the one in the
  host's hands is used exactly between `alloc_acl` and the submit. The types of the composition
  follow from these invariants and what they leave open (`HostTyped`,
  `CommandsTyped`).
* **BoardPartsProofs**: `Debounced`, `KeyStreamWellFormed`, `NoStrandedByte`,
  `EdgeIsServed`, `CalledForAnEdge`, `ReadIsTrue`,
  `UnsetIsMarked`, `InStep`. A behaviour of BoardParts is one of each part
  (`PartsAreParts`), so each is proved of its part alone. The debounce rests
  on: what the driver measures, tick wraps and late polls included, is never
  more than the true time since a reading last disagreed (`TimesHonest`). The
  streams of the keys, for any number of keys in one ring: a push moves the
  places of every key's events together (`PushPlaces`), so that only the newest
  of the reported key and the oldest of the lost one can change; the invariant
  adds that a LONG that is still due was neither queued nor read (`Fits`) and
  what the loss counter tells. `CalledForAnEdge` rests on two facts
  about the shared interrupt: the level of an enabled pin that has not moved is
  the one the ISR last sampled, so that the ISR finds no edge of it, and a
  pending bit is set for such an edge only and goes with the disable. `ReadIsTrue` holds for every base and number of bytes: the
  invariant (`ReadInv`) says that the bytes of a sample are those of RTCCNT at
  its last byte (`Ago(count, 0)`), or short of it by the weight of a byte
  (`Short`), if a second fell into the transfer and carried into the bytes
  already read; then the count is a multiple of that weight. A torn sample and
  the count at its end are multiples of `BASE`, and less than `BASE` seconds
  pass in a call, so a torn one never equals or follows the sample before
  (`SamplesAgree`). The downloader's invariant ties every message on the line
  to the present sequence number and says what the target has done with it.

Induction over numbers is used once, for the weights of the bytes (`Weight`, a
recursive function). It is stated for sets (`SetInduction`: a set with 0 and
with the successor of each of its members is `Nat`), from the library's theorem
that `<` is well-founded, so no theorem with an operator parameter is needed.

Each proof follows the same argument: the strengthened invariant holds
initially; each action preserves it, one step per action; it implies the
property; the temporal step combines the three.

## 5. Only model-checked, and not modelled

Liveness (`CallsReturn`, `LockReturns`, `WorkerDecides`, `Follower`,
`SleepReturns`, `RequestServed`, `DiagnosticReturns`, `SessionFollows`) is checked by TLC on the
instances above; fairness and ENABLED are beyond the prover. Every invariant
and action property of a passing run is also proved. The type invariants of the
composed modules hold in the same instances but are part of no run; those of
BtWorker's (`NplTypeOK`, `HciTypeOK`, `AppTypeOK`, `CmdTypeOK`) are proved too,
those of the board parts, the bring-up and the radio (`KeysTypeOK`, ...) are not.

Not modelled: the USB controller and CDC console, the TF card, the decoder and
SPI1 are callers of vendored stacks or of recovered vendor code whose behaviour
the repository does not define (register values polled until they change,
decompiled state machines); a model would be of those assumptions. Flash,
watchdog, timers, PWM, ADC, soft I2C and start-up are register accesses of one
caller at a time. The vendored kernel, NimBLE, CherryUSB and DFS, which make up
nearly all lines of the repository, are other projects' code.

Abstractions worth knowing:

* Sound: one PCM client, as in the repository (`pcmcheck`); the record half of
  the framework is left out. Samples are counted, not valued.
* FM: register sequences are reduced to powered, routed, calibrated. The
  -RT_ENOSYS of an unknown command changes nothing and is left out.
* Radio: `radio_remote` may produce any volume or station; its arithmetic and
  repeat times are left out. The infrared receiver's open and START succeed:
  the driver has no open of its own and its control returns `RT_EOK`
  (`drv_irrx.c:235-242`), so that only the LED can fail a start half-way.
* Power: registers are the sets of bits that power0 changes; the clock
  registers, pull-ups and filter are left out. A counter read answers with the
  count or fails; the reads that tear are in RtcClock.
* Keys: the times and status masks carried to the reader are left out.
* Bluetooth: the mask ROM is external. It executes commands in order and
  answers each once; a late answer can be that of an earlier command with the
  same opcode. A host that is blocked inside a handler counts as busy for the
  scheduler (`Busy`), which only holds lower threads back. The counters, and the sizes of packets, are left out.
* Pins: the ISR's sample and its arming are one step; an edge in between may be
  missed, which the code accepts (`drv_gpio.c:209`).
* Downloader: the search for the token and the local echo are left out; the
  commands above `send` and `receive` only call them in sequence.

## 6. Disagreements between code and documentation

* **sound_stale_transmit** (`drv_sound.c:519`, comment at 555). The comment
  says transmit may stay unlocked because FM cannot acquire while PCM replay
  is running. A worker that was preempted inside the transmit loop is not seen
  by any test: the client stops and closes, FM acquires and sets `running`
  again, and the worker resumes and pushes the rest of its frame.
* **bt_two_bringups** (`drv_btctrl.c:310`, `343`, `docs/rtt/NIMBLE.md:52`).
  `ble start` and `btctl test` exclude each other by `worker`, which both test
  before, and set after, an FM STOP that waits for `fm_lock`.

* **sound_long_write** (`dev_audio.c:555`, comment at 518 and 528). A write
  "into replay data queue and replay it", "return the actually read size". The
  loop takes a block of the pool for every 4096 bytes, waiting for ever, and the
  replay is started after the loop. The pool has two blocks (`rtconfig.h:166`):
  a write of more than 8192 bytes to a stream that is not playing never returns,
  and keeps the lock of the replay. `CallsReturn` says what does hold: a write
  returns if the replay is active, or if what is left fits the pool.
* **bt_late_answer** (`drv_btctrl.c:175`, `194`, `rtt/README.md:364`). An answer
  is matched by its opcode alone. A command given up after two seconds stays
  with the controller, and its late answer passes for that of a later one with
  the same opcode: a scan enable for the disable of the next `scan`. The worker
  prints PASS and takes the controller for silent while it scans.
* **uart_ring** (`drv_usart.c:244`, `drv_common.c:14`: "without losing data").
  The ring is indexed by an 8-bit counter `% 10`, and nobody looks whether there
  is room. 256 is not a multiple of ten, so byte 256 goes to place 0 although
  place 6 is next: with seven unread bytes across the wrap, fewer than the ring
  holds, one is overwritten before it is read; an eleventh unread byte
  overwrites one anywhere.
* **pin_old_edge** (`drv_gpio.c:307`, `tools/rtt/tests/keys_gpio.c:102`: "queued
  old event must not reach a new handler"). The test is about a pending bit,
  which the disable drops. An edge that a pin's own circuit has latched before
  the disable stays latched as long as another pin is enabled, for only the
  first enable clears the circuits; it is then delivered to the next
  subscriber. `CalledForAnEdge` is what does hold: of every pin that its handler
  is attached, of a pin of the shared interrupt that it moved since.

## 7. Plan

The modules planned at the start are done: IrReceiver, SoundGate, FmReceiver,
BtBringUp, BoardKeys, RadioApp, PowerOff, PowerSleep, RtcClock, the NimBLE port
(NplQueue, HciTransport, NimbleHost), BtCommands, UartRx, PinIrq, Downloader.
What could follow: the other type invariants of composed modules as theorems; the
USB console and the TF card once the behaviour of their hardware is written
down.

Modules that are proved about use no RECURSIVE operator.
