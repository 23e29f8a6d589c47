----------------------------- MODULE PowerSleep -----------------------------
(***************************************************************************)
(* The sleep of power0 (drv_power.c, drv_rtc.c): align to an RTC second    *)
(* with the scheduler open, look at the other drivers once more, stop      *)
(* Timer0, sleep to the next RTC second and put the system tick right.     *)
(* rtc_lock is held throughout.  The RTC and Timer0 run from different     *)
(* clocks, the thread may be preempted, every read of the RTC may fail,    *)
(* and the RTC may stand still.                                            *)
(*                                                                         *)
(* Left out: the check that Timer0 and its interrupt are set up, other     *)
(* wake sources, after which the loop sleeps again. rtc_counter_read, which *)
(* guards against torn values, answers with the count or fails.            *)
(***************************************************************************)
EXTENDS Integers

CONSTANTS
    Drivers,        \* those power_blockers asks
    RATE,           \* RT_TICK_PER_SECOND
    GUARD,          \* RT_TICK_PER_SECOND / 10
    DRIFT,          \* an RTC second lasts RATE - DRIFT .. RATE + DRIFT ticks
    LATE,           \* ticks from rt_thread_mdelay(1) to having read the tick
    PREEMPTED,      \* ticks from there to the sleep, bounded below a whole wrap
    TICKS,          \* rt_tick_t counts modulo this
    SECONDS         \* RTCCNT counts modulo this

ASSUME SleepAssumption ==
    /\ RATE \in Nat /\ GUARD \in Nat /\ DRIFT \in Nat /\ LATE \in Nat \ {0}
    /\ TICKS \in Nat /\ SECONDS \in Nat
    /\ PREEMPTED \in Nat /\ GUARD < RATE /\ DRIFT < RATE
    /\ TICKS > 2 * RATE + LATE + PREEMPTED /\ SECONDS > 3
    \* RTCCNT (32 bits) does not come round within a preemption and the guard.
    /\ LATE + GUARD < (SECONDS - 1) * (RATE - DRIFT)

VARIABLES
    pc,             \* where the command is; "idle": no command
    result,         \* what the last command returned
    busy,           \* drivers whose power_busy says so
    policy,         \* the wake and interrupt bits of RTCCON
    bridge,         \* their value before the sleep
    running,        \* the RTC counts
    count, pending, \* RTCCNT, RTC_CON_1S_PEND
    tick,           \* rt_tick_get()
    initial, start, \* locals of the alignment
    second, edge,   \* what it found
    \* History, read by no action of the driver:
    phase,          \* ticks since the RTC counted
    waited,         \* ticks since rt_thread_mdelay was called
    mark,           \* tick at the last RTC second with Timer0 on
    passed          \* RTC seconds since then

locals == <<initial, start, second, edge, waited, bridge>>
clock == <<running, count, pending, phase, tick, mark, passed>>
vars == <<pc, result, busy, policy, clock, locals>>

Elapsed(t, f) == (t + TICKS - f) % TICKS
SecondsSince(n, s) == (n + SECONDS - s) % SECONDS

Init ==
    /\ pc = "idle" /\ result = "EOK" /\ busy = {}
    /\ policy \in SUBSET {"WK_RST"} /\ bridge = {}
    /\ running \in BOOLEAN /\ count = 0 /\ pending = FALSE /\ phase = 0
    /\ tick = 0 /\ mark = 0 /\ passed = 0
    /\ initial = 0 /\ start = 0 /\ second = 0 /\ edge = 0 /\ waited = 0

-----------------------------------------------------------------------------
\* The scheduler is open until the second look; Timer0 runs until the sleep.
SchedulerOpen == pc \in {"idle", "look", "align", "delay", "edge", "look again"}
Timer0Runs == SchedulerOpen \/ pc = "sleep"

DriverStarts ==
    /\ SchedulerOpen
    /\ \E d \in Drivers \ busy : busy' = busy \cup {d}
    /\ UNCHANGED <<pc, result, policy, clock, locals>>

DriverStops ==
    /\ SchedulerOpen
    /\ \E d \in busy : busy' = busy \ {d}
    /\ UNCHANGED <<pc, result, policy, clock, locals>>

Tick ==
    /\ Timer0Runs /\ pc # "idle"
    /\ pc \in {"delay", "edge"} => waited < LATE
    /\ pc \in {"look again", "sleep"} => Elapsed(tick, edge) < PREEMPTED
    /\ running => phase < RATE + DRIFT
    /\ tick' = (tick + 1) % TICKS
    /\ phase' = IF running THEN phase + 1 ELSE 0
    /\ waited' = IF pc \in {"delay", "edge"} THEN waited + 1 ELSE waited
    /\ UNCHANGED <<pc, result, busy, policy, running, count, pending, mark, passed,
                   initial, start, second, edge, bridge>>

\* The RTC counts; it wakes the processor, which does not sleep on.
RtcSecond ==
    /\ running /\ pc # "idle"
    /\ phase >= RATE - DRIFT \/ (pc = "asleep" /\ ~pending)
    /\ count' = (count + 1) % SECONDS /\ pending' = TRUE /\ phase' = 0
    /\ IF Timer0Runs THEN mark' = tick /\ passed' = 0
                     ELSE passed' = passed + 1 /\ UNCHANGED mark
    /\ UNCHANGED <<pc, result, busy, policy, running, tick, locals>>

-----------------------------------------------------------------------------
\* Outside a command its locals mean nothing.
Return(error) ==
    /\ pc' = "idle" /\ result' = error
    /\ initial' = 0 /\ start' = 0 /\ second' = 0 /\ edge' = 0 /\ waited' = 0
    /\ bridge' = {}

Goto(place) == pc' = place /\ UNCHANGED result

\* rtc_counter_read fails.
ReadFails == \E e \in {"ETIMEOUT", "EIO"} : Return(e)

\* power_control takes rtc_lock, anywhere in an RTC second: what the clocks do
\* without a command does not matter.
power_control ==
    /\ pc = "idle" /\ pc' = "look" /\ result' = "NONE"
    /\ phase' \in IF running THEN 0 .. RATE + DRIFT ELSE {0}
    /\ mark' = (tick + TICKS - phase') % TICKS /\ passed' = 0
    /\ UNCHANGED <<busy, policy, running, count, pending, tick, locals>>

\* power_sleep_once.
FirstLook ==
    /\ pc = "look"
    /\ \/ busy # {} /\ Return("EBUSY")
       \/ busy = {} /\ Goto("align") /\ UNCHANGED locals
    /\ UNCHANGED <<busy, policy, clock>>

\* ab32_irtc_align_second_locked up to the first rt_thread_mdelay(1).
AlignStart ==
    /\ pc = "align"
    /\ \/ ReadFails
       \/ /\ initial' = count /\ start' = tick /\ waited' = 0 /\ Goto("delay")
          /\ UNCHANGED <<second, edge, bridge>>
    /\ UNCHANGED <<busy, policy, clock>>

\* No end for an RTC that stands still: a mutant.
AlignTimeout_never == FALSE

AlignTimeout == Elapsed(tick, start) >= 2 * RATE

\* A round of the loop, back from rt_thread_mdelay(1).
AlignRound ==
    /\ pc = "delay" /\ waited > 0
    /\ \/ ReadFails
       \/ /\ SecondsSince(count, initial) = 1
          /\ second' = count /\ Goto("edge") /\ UNCHANGED <<initial, start, edge, waited, bridge>>
       \/ SecondsSince(count, initial) > 1 /\ Return("EIO")
       \/ /\ count = initial /\ ~AlignTimeout
          /\ waited' = 0 /\ Goto("delay") /\ UNCHANGED <<initial, start, second, edge, bridge>>
       \/ count = initial /\ AlignTimeout /\ Return("ETIMEOUT")
    /\ UNCHANGED <<busy, policy, clock>>

AlignEdge ==
    /\ pc = "edge"
    /\ edge' = tick /\ Goto("look again")
    /\ UNCHANGED <<busy, policy, clock, initial, start, second, waited, bridge>>

\* The look before the alignment is the only one: a mutant.
SecondLook_no ==
    /\ pc = "look again" /\ Goto("sleep")
    /\ UNCHANGED <<busy, policy, clock, locals>>

\* power_sleep_once, with the scheduler locked and interrupts served.
SecondLook ==
    /\ pc = "look again"
    /\ \/ busy # {} /\ Return("EBUSY")
       \/ busy = {} /\ Goto("sleep") /\ UNCHANGED locals
    /\ UNCHANGED <<busy, policy, clock>>

TooLate == count # second \/ Elapsed(tick, edge) > GUARD

\* ab32_irtc_sleep_locked masks the interrupts and saves what it will change.
SleepStart ==
    /\ pc = "sleep"
    /\ \/ ReadFails
       \/ TooLate /\ Return("EBUSY")
       \/ /\ ~TooLate /\ bridge' = policy /\ Goto("arm")
          /\ UNCHANGED <<initial, start, second, edge, waited>>
    /\ UNCHANGED <<busy, policy, clock>>

\* Timer0 off, wake by the RTC second only, its flag cleared, LPMCON.
Arm ==
    /\ pc = "arm"
    /\ policy' = {"1S_WK"} /\ pending' = FALSE /\ Goto("asleep")
    /\ UNCHANGED <<busy, running, count, phase, tick, mark, passed, locals>>

\* The second is added to the present tick: a mutant.
SetTick_fromNow == tick' = (tick + SecondsSince(count, second) * RATE) % TICKS

SetTick == tick' = (edge + SecondsSince(count, second) * RATE) % TICKS

\* ReadFails is also the answer to a count that is not one or two seconds on.
Wake ==
    /\ pc = "asleep" /\ pending
    /\ \/ ReadFails /\ UNCHANGED tick
       \/ SecondsSince(count, second) \in 1..2 /\ Return("EOK") /\ SetTick
    /\ policy' = bridge
    /\ UNCHANGED <<busy, running, count, pending, phase, mark, passed>>

ab32_irtc_align_second_locked == AlignStart \/ AlignRound \/ AlignEdge
ab32_irtc_sleep_locked == SleepStart \/ Arm \/ Wake
Sleep ==
    \/ FirstLook \/ ab32_irtc_align_second_locked
    \/ SecondLook \/ ab32_irtc_sleep_locked

Next == DriverStarts \/ DriverStops \/ Tick \/ RtcSecond \/ power_control \/ Sleep

\* The clocks run, except an RTC that stands still, and the thread is scheduled.
Spec ==
    /\ Init /\ [][Next]_vars
    /\ WF_vars(Tick) /\ WF_vars(RtcSecond) /\ WF_vars(Sleep)

-----------------------------------------------------------------------------
TypeOK ==
    /\ pc \in {"idle", "look", "align", "delay", "edge", "look again", "sleep", "arm", "asleep"}
    /\ result \in {"NONE", "EOK", "EBUSY", "ETIMEOUT", "EIO"}
    /\ busy \subseteq Drivers
    /\ policy \subseteq {"WK_RST", "1S_WK"} /\ bridge \subseteq {"WK_RST"}
    /\ running \in BOOLEAN /\ pending \in BOOLEAN
    /\ count \in 0 .. SECONDS - 1 /\ initial \in 0 .. SECONDS - 1 /\ second \in 0 .. SECONDS - 1
    /\ tick \in 0 .. TICKS - 1 /\ start \in 0 .. TICKS - 1 /\ edge \in 0 .. TICKS - 1
    /\ mark \in 0 .. TICKS - 1
    /\ phase \in 0 .. RATE + DRIFT /\ waited \in 0 .. LATE /\ passed \in Nat

\* Nothing sleeps under a driver that is busy, though the drivers run on during
\* the alignment, and the wake policy lent to the sleep comes back.
NoSleepUnderBusy ==
    /\ pc \in {"arm", "asleep"} => busy = {}
    /\ policy = {"1S_WK"} <=> pc = "asleep"

\* After a sleep the tick is where the RTC seconds since the last one it has
\* seen awake put it, late by the preemption before the edge and no more.
TickCompensated ==
    [][Timer0Runs' /\ ~Timer0Runs /\ result' = "EOK" =>
          Elapsed(tick', mark) \in passed * RATE .. passed * RATE + LATE]_vars

\* A sleep command returns, even if the RTC stands still.
SleepReturns == pc = "look" ~> pc = "idle"
=============================================================================
