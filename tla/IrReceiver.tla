------------------------------ MODULE IrReceiver ------------------------------
(***************************************************************************)
(* The NEC infrared receiver driver (drv_irrx.c): its interrupt handler,   *)
(* the 10 ms poll from the main loop, START/STOP from any thread and one   *)
(* logical reader of the event stream.  Handler, poll, switch and pop each *)
(* run with interrupts masked, so each is one atomic action; everything    *)
(* between two of them is where the interleavings are.                     *)
(*                                                                         *)
(* A received 32-bit word is a member of Words (command byte and its       *)
(* complement agree) or of Noise (they do not).  Statistics that nothing   *)
(* in the repository acts on (frames, invalid, releases) and the time      *)
(* stamp carried in an event are left out.                                 *)
(***************************************************************************)
EXTENDS EventRing

CONSTANTS
    Words,            \* words with a valid command complement
    Noise,            \* words without
    NoRaw,            \* the zeroed state.raw
    PinConfigs,       \* what other drivers make of PE6, its mapping and gate
    IrConfig,         \* PE6 as IR_G7, input with pull-up, clock gate on
    IR_RELEASE_TICKS, \* 400 ms
    IR_TICKS,         \* rt_tick_t counts modulo this
    IR_POLL_TICKS     \* the main loop polls at least once in so many ticks

ASSUME IrAssumption ==
    /\ NoRaw \notin Words \cup Noise
    /\ Words \cap Noise = {}
    /\ IrConfig \notin PinConfigs
    /\ PinConfigs # {}
    /\ IR_RELEASE_TICKS \in Nat \ {0}
    /\ IR_POLL_TICKS \in Nat \ {0}
    /\ IR_TICKS \in Nat
    /\ IR_TICKS > IR_RELEASE_TICKS + IR_POLL_TICKS

VARIABLES
    running, ir_pressed, raw, \* struct ab32_ir_status state
    ir_ring,                 \* events[], head, tail, state.queued, state.dropped
    release_pending,
    last_frame,              \* tick of the last valid frame
    rx, rel,                 \* hardware: IR_RX with its data, IR_RELEASE
    pins, saved,             \* PE6/mapping/gate now, and as saved by START
    ir_tick,                 \* rt_tick_get()
    \* History, read by no action of the driver:
    ir_since_poll,           \* ticks since the main loop last polled
    age,                     \* true ticks since last_frame, up to IR_TICKS
    owner_pins,              \* what PE6 looked like to its other owner
    ir_last,                 \* last event the reader got in this session
    ir_seen_dropped,         \* state.dropped when it got it
    ir_missed                \* events lost since then, up to COUNTER

driver == <<running, ir_pressed, raw, ir_ring, release_pending, last_frame>>
device == <<rx, rel, pins, saved, owner_pins>>
clock  == <<ir_tick, ir_since_poll>>
ir_reader == <<ir_last, ir_seen_dropped, ir_missed>>
vars   == <<driver, device, clock, age, ir_reader>>

IrKinds   == {"DOWN", "REPEAT", "UP"}
IrEvent   == [raw : Words, kind : IrKinds]
NoIrEvent == [raw |-> NoRaw, kind |-> "NONE"]

Init ==
    /\ running = FALSE /\ ir_pressed = FALSE /\ raw = NoRaw
    /\ ir_ring = EmptyRing(NoIrEvent)
    /\ release_pending = FALSE /\ last_frame = 0
    /\ rx = NoRaw /\ rel = FALSE
    /\ pins \in PinConfigs /\ saved = pins /\ owner_pins = pins
    /\ ir_tick = 0 /\ ir_since_poll = 0 /\ age = 0
    /\ ir_last = NoIrEvent /\ ir_seen_dropped = 0 /\ ir_missed = 0

-----------------------------------------------------------------------------
(* The hardware block.  IRRXCON enables it only while the driver runs.     *)

HwFrame(w) ==
    /\ running
    /\ rx' = w
    /\ UNCHANGED <<driver, rel, pins, saved, owner_pins, clock, age, ir_reader>>

\* About 110 ms without a frame or a short repeat.
HwRelease ==
    /\ running /\ ~rel
    /\ rel' = TRUE
    /\ UNCHANGED <<driver, rx, pins, saved, owner_pins, clock, age, ir_reader>>

\* The tick interrupt; the main loop is never IR_POLL_TICKS late.
IrTick ==
    /\ ir_since_poll < IR_POLL_TICKS
    /\ ir_tick' = (ir_tick + 1) % IR_TICKS
    /\ ir_since_poll' = ir_since_poll + 1
    /\ age' = IF age < IR_TICKS THEN age + 1 ELSE age
    /\ UNCHANGED <<driver, device, ir_reader>>

\* Another driver uses the pin while the receiver is off.
OtherOwner(c) ==
    /\ ~running
    /\ pins' = c /\ owner_pins' = c
    /\ UNCHANGED <<driver, rx, rel, saved, clock, age, ir_reader>>

-----------------------------------------------------------------------------
irrx_push(q, w, k) == Push(q, [raw |-> w, kind |-> k])

\* irrx_release() on the queue: the UP of the key that is held, if any.
ReleaseInto(q) == IF ir_pressed THEN irrx_push(q, raw, "UP") ELSE q

irrx_release ==
    /\ release_pending' = FALSE
    /\ ir_pressed' = FALSE
    /\ ir_ring' = ReleaseInto(ir_ring)

IrLost(n) == IF ir_missed + n < COUNTER THEN ir_missed + n ELSE COUNTER

\* How many events the pushes of one step throw away.
Overflow(pushes) ==
    IF ir_ring.queued + pushes > QSIZE THEN ir_ring.queued + pushes - QSIZE ELSE 0

\* (rt_tick_t)(t - f): the unsigned difference of two ticks.
IrElapsed(t, f) == (t + IR_TICKS - f) % IR_TICKS

\* Mutant: absolute comparison of wrapping ticks.
ReleaseTimedOut_absolute ==
    /\ running /\ ir_pressed /\ release_pending
    /\ ir_tick >= last_frame + IR_RELEASE_TICKS

ReleaseTimedOut ==
    /\ running /\ ir_pressed /\ release_pending
    /\ IrElapsed(ir_tick, last_frame) >= IR_RELEASE_TICKS

ab32_irrx_poll ==
    /\ ir_since_poll' = 0
    /\ IF ReleaseTimedOut
         THEN irrx_release /\ ir_missed' = IrLost(Overflow(1))
         ELSE UNCHANGED <<release_pending, ir_pressed, ir_ring, ir_missed>>
    /\ UNCHANGED <<running, raw, last_frame, device, ir_tick, age, ir_last, ir_seen_dropped>>

IsRepeat == ir_pressed /\ raw = rx

\* Mutant: a new key replaces the held one without its UP.
IsrFrame_noUp ==
    /\ rx \in Words
    /\ ir_ring' = irrx_push(ir_ring, rx, IF IsRepeat THEN "REPEAT" ELSE "DOWN")
    /\ ir_missed' = IrLost(Overflow(1))
    /\ raw' = rx /\ ir_pressed' = TRUE
    /\ last_frame' = ir_tick /\ age' = 0
    /\ release_pending' = rel

IsrFrame ==
    /\ rx \in Words
    /\ ir_ring' = IF IsRepeat THEN irrx_push(ir_ring, rx, "REPEAT")
                           ELSE irrx_push(ReleaseInto(ir_ring), rx, "DOWN")
    /\ ir_missed' = IrLost(Overflow(IF ir_pressed /\ ~IsRepeat THEN 2 ELSE 1))
    /\ raw' = rx /\ ir_pressed' = TRUE
    /\ last_frame' = ir_tick /\ age' = 0
    /\ release_pending' = rel

IsrNoise ==
    /\ rx \in Noise
    /\ ir_pressed' = FALSE /\ ir_ring' = ReleaseInto(ir_ring)
    /\ ir_missed' = IrLost(Overflow(IF ir_pressed THEN 1 ELSE 0))
    /\ release_pending' = FALSE
    /\ UNCHANGED <<raw, last_frame, age>>

IsrRelease ==
    /\ rx = NoRaw /\ rel
    /\ release_pending' = ir_pressed
    /\ UNCHANGED <<ir_pressed, raw, ir_ring, last_frame, age, ir_missed>>

\* Both flags may be pending at once; a frame is handled before a release.
irrx_isr ==
    /\ running
    /\ IsrFrame \/ IsrNoise \/ IsrRelease
    /\ rx' = NoRaw /\ rel' = FALSE
    /\ UNCHANGED <<running, pins, saved, owner_pins, clock, ir_last, ir_seen_dropped>>

-----------------------------------------------------------------------------
\* irrx_switch(on), under ir_control_lock.  A switch to the present state
\* is a no-op.

\* Mutant: a second START runs the switch again.
Start_again ==
    /\ saved' = pins /\ pins' = IrConfig
    /\ rx' = NoRaw /\ rel' = FALSE
    /\ ir_pressed' = FALSE /\ raw' = NoRaw
    /\ ir_ring' = Clear(ir_ring)
    /\ release_pending' = FALSE
    /\ running' = TRUE
    /\ ir_last' = NoIrEvent /\ ir_seen_dropped' = 0 /\ ir_missed' = 0
    /\ UNCHANGED <<last_frame, owner_pins, clock, age>>

Start ==
    /\ ~running
    /\ saved' = pins /\ pins' = IrConfig
    /\ rx' = NoRaw /\ rel' = FALSE
    /\ ir_pressed' = FALSE /\ raw' = NoRaw
    /\ ir_ring' = Clear(ir_ring)
    /\ release_pending' = FALSE
    /\ running' = TRUE
    /\ ir_last' = NoIrEvent /\ ir_seen_dropped' = 0 /\ ir_missed' = 0
    /\ UNCHANGED <<last_frame, owner_pins, clock, age>>

\* Mutant: STOP forgets the key that is down.
Stop_noUp ==
    /\ running
    /\ rx' = NoRaw /\ rel' = FALSE
    /\ release_pending' = FALSE /\ ir_pressed' = FALSE
    /\ running' = FALSE
    /\ pins' = saved
    /\ UNCHANGED <<raw, ir_ring, last_frame, saved, owner_pins, clock, age, ir_reader>>

Stop ==
    /\ running
    /\ rx' = NoRaw /\ rel' = FALSE
    /\ irrx_release
    /\ ir_missed' = IrLost(Overflow(IF ir_pressed THEN 1 ELSE 0))
    /\ running' = FALSE
    /\ pins' = saved
    /\ UNCHANGED <<raw, last_frame, saved, owner_pins, clock, age, ir_last, ir_seen_dropped>>

\* One round of the loop in irrx_read (or in the shell's read): interrupts
\* are enabled again between two pops of the same read.
irrx_pop ==
    /\ ir_ring.queued # 0
    /\ ir_last' = Front(ir_ring)
    /\ ir_ring' = Pop(ir_ring)
    /\ ir_seen_dropped' = ir_ring.dropped /\ ir_missed' = 0
    /\ UNCHANGED <<running, ir_pressed, raw, release_pending, last_frame, device, clock, age>>

-----------------------------------------------------------------------------
Next ==
    \/ \E w \in Words \cup Noise : HwFrame(w)
    \/ HwRelease
    \/ IrTick
    \/ \E c \in PinConfigs : OtherOwner(c)
    \/ ab32_irrx_poll
    \/ irrx_isr
    \/ Start
    \/ Stop
    \/ irrx_pop

Spec == Init /\ [][Next]_vars

-----------------------------------------------------------------------------
(* Properties.                                                             *)

\* Type correctness of the driver's statics, the device and the history.
TypeOK ==
    /\ running \in BOOLEAN /\ ir_pressed \in BOOLEAN
    /\ raw \in Words \cup {NoRaw}
    /\ ir_ring \in RingType(IrEvent \cup {NoIrEvent})
    /\ release_pending \in BOOLEAN
    /\ last_frame \in 0 .. IR_TICKS - 1 /\ ir_tick \in 0 .. IR_TICKS - 1
    /\ rx \in Words \cup Noise \cup {NoRaw} /\ rel \in BOOLEAN
    /\ pins \in PinConfigs \cup {IrConfig}
    /\ saved \in PinConfigs /\ owner_pins \in PinConfigs
    /\ ir_since_poll \in 0 .. IR_POLL_TICKS /\ age \in 0 .. IR_TICKS
    /\ ir_last \in IrEvent \cup {NoIrEvent}
    /\ ir_seen_dropped \in 0 .. COUNTER - 1 /\ ir_missed \in 0 .. COUNTER

\* A key held down is a word of the remote, and only a running receiver
\* holds one.
HeldKey == ir_pressed => running /\ raw \in Words

\* May event b come right after event a?  A hold is DOWN, REPEATs, UP of one
\* word; a session begins with a DOWN.
IrFollows(a, b) ==
    IF b.kind = "DOWN" THEN a.kind \in {"UP", "NONE"}
                       ELSE a.kind \in {"DOWN", "REPEAT"} /\ a.raw = b.raw

\* The event that a reader with nothing left to read has seen last.
IrAgrees(e) ==
    IF ir_pressed THEN e.kind \in {"DOWN", "REPEAT"} /\ e.raw = raw
               ELSE e.kind \in {"UP", "NONE"}

\* Each queued event may come right after the one before it.
Linked(r) ==
    \A i \in 1 .. r.queued - 1 : IrFollows(Contents(r)[i], Contents(r)[i + 1])

NewestAgrees == ir_ring.queued > 0 => IrAgrees(Contents(ir_ring)[ir_ring.queued])

\* The queued events are a run of complete or cut-off holds, in order, and
\* the newest of them is the driver's present state: whatever irrx_push
\* gives up on overflow, it never breaks the stream in the middle and never
\* loses the final UP ("Preserve the newest event (especially UP)").
StreamWellFormed == Linked(ir_ring) /\ NewestAgrees

\* A reader that has drained the queue knows whether a key is down and
\* which, even if events were lost in between and even across STOP: the
\* application never stays stuck on a key that was released.
DrainedReaderAgrees == ir_ring.queued = 0 => IrAgrees(ir_last)

\* A hole between what the reader got last and what it gets next shows up
\* in status.dropped, until the counter itself wraps ("expose loss
\* explicitly in status").
LossIsVisible ==
    \/ ir_ring.queued = 0
    \/ IrFollows(ir_last, Front(ir_ring))
    \/ ir_ring.dropped # ir_seen_dropped
    \/ ir_missed = COUNTER

\* The poll reports a pending release as soon as no full frame has come for
\* 400 ms, and no earlier, measured in true time although it compares ticks that
\* wrap.  (A key held for a whole turn of the tick counter, 49 days, is released
\* one IR_RELEASE_TICKS late at most.)
ReleaseInTime ==
    [][ab32_irrx_poll /\ ir_pressed /\ age < IR_TICKS
         => (ir_pressed' <=> ~release_pending \/ age < IR_RELEASE_TICKS)]_vars

\* Whatever the sequence of START and STOP calls, a stopped receiver has
\* given PE6, its mapping and its clock gate back as it found them.
PinsRestored == ~running => pins = owner_pins
=============================================================================
