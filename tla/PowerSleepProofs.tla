-------------------------- MODULE PowerSleepProofs --------------------------
(***************************************************************************)
(* Proofs about PowerSleep, for every set of drivers, every rate and width *)
(* of the two clocks and every preemption.                                 *)
(***************************************************************************)
EXTENDS PowerSleep, TLAPS

\* The invariant in two parts.  Where the command is: nobody is busy from the
\* second look on, and the policy of the sleep is lent while asleep only.
Where ==
    /\ pc \in {"idle", "look", "align", "delay", "edge", "look again", "sleep", "arm", "asleep"}
    /\ result \in {"NONE", "EOK", "EBUSY", "ETIMEOUT", "EIO"}
    /\ busy \subseteq Drivers
    /\ policy \subseteq {"WK_RST", "1S_WK"} /\ bridge \subseteq {"WK_RST"}
    /\ pc \in {"sleep", "arm", "asleep"} => busy = {}
    /\ pc = "asleep" => policy = {"1S_WK"}
    /\ pc # "asleep" => policy \subseteq {"WK_RST"}

\* What the clocks and the command count.
Counted ==
    /\ running \in BOOLEAN /\ pending \in BOOLEAN
    /\ count \in 0 .. SECONDS - 1 /\ initial \in 0 .. SECONDS - 1 /\ second \in 0 .. SECONDS - 1
    /\ tick \in 0 .. TICKS - 1 /\ start \in 0 .. TICKS - 1 /\ edge \in 0 .. TICKS - 1
    /\ mark \in 0 .. TICKS - 1
    /\ phase \in 0 .. RATE + DRIFT /\ waited \in 0 .. LATE /\ passed \in Nat

IInv == Where /\ Counted

-----------------------------------------------------------------------------
LEMMA Bounds ==
    /\ TICKS \in Nat /\ TICKS > 0 /\ SECONDS \in Nat /\ SECONDS > 0
    /\ RATE \in Nat /\ DRIFT \in Nat /\ RATE + DRIFT \in Nat /\ LATE \in Nat
<1>1. RATE \in Nat /\ LATE \in Nat /\ PREEMPTED \in Nat /\ DRIFT \in Nat
  BY SleepAssumption
<1>2. TICKS \in Nat /\ SECONDS \in Nat /\ TICKS > 2 * RATE + LATE + PREEMPTED /\ SECONDS > 3
  BY SleepAssumption
<1>3. 2 * RATE + LATE + PREEMPTED >= 0
  BY <1>1
<1>. QED
  BY <1>1, <1>2, <1>3

\* The counters stay in range when they wrap.
LEMMA Wraps ==
    /\ \A n \in Int : n % TICKS \in 0 .. TICKS - 1
    /\ \A n \in Int : n % SECONDS \in 0 .. SECONDS - 1
<1>1. \A n, m \in Int : m > 0 => n % m \in 0 .. m - 1
  BY SMT
<1>. QED
  BY <1>1, Bounds

LEMMA Zeroes ==
    /\ 0 \in 0 .. SECONDS - 1 /\ 0 \in 0 .. TICKS - 1
    /\ 0 \in 0 .. RATE + DRIFT /\ 0 \in 0 .. LATE /\ 0 \in Nat
BY Bounds

LEMMA Ints ==
    ASSUME Counted
    PROVE  /\ tick \in Int /\ tick + 1 \in Int /\ count + 1 \in Int
           /\ SecondsSince(count, second) \in Int /\ edge \in Int
           /\ phase \in Nat /\ waited \in Nat
<1>1. count \in 0 .. SECONDS - 1 /\ second \in 0 .. SECONDS - 1
  BY DEF Counted
<1>2. tick \in 0 .. TICKS - 1 /\ edge \in 0 .. TICKS - 1
  BY DEF Counted
<1>3. phase \in 0 .. RATE + DRIFT /\ waited \in 0 .. LATE
  BY DEF Counted
<1>4. tick \in Int /\ tick + 1 \in Int /\ count + 1 \in Int /\ edge \in Int
  BY <1>1, <1>2, Bounds
<1>5. phase \in Nat /\ waited \in Nat
  BY <1>3, Bounds
<1>6. count + SECONDS - second \in Int
  BY <1>1, Bounds
<1>7. SecondsSince(count, second) \in Int
  BY <1>6, Wraps DEF SecondsSince
<1>. QED
  BY <1>4, <1>5, <1>7

LEMMA InitIInv == Init => IInv
BY Zeroes DEF Init, IInv, Where, Counted

-----------------------------------------------------------------------------
\* What happens around the command.
LEMMA AroundSteps ==
    ASSUME IInv, DriverStarts \/ DriverStops \/ Tick \/ RtcSecond \/ power_control
    PROVE  IInv'
<1>. USE DEF IInv
<1>1. CASE DriverStarts \/ DriverStops
  <2>1. Where'
    BY <1>1 DEF DriverStarts, DriverStops, SchedulerOpen, Where, clock, locals
  <2>2. Counted'
    BY <1>1 DEF DriverStarts, DriverStops, Counted, clock, locals
  <2>. QED
    BY <2>1, <2>2
<1>2. CASE Tick
  <2>1. tick' \in 0 .. TICKS - 1
    BY <1>2, Ints, Wraps DEF Tick
  <2>2. phase' \in 0 .. RATE + DRIFT
    <3>1. running => phase < RATE + DRIFT
      BY <1>2 DEF Tick
    <3>2. phase \in Nat
      BY Ints
    <3>3. running => phase + 1 \in 0 .. RATE + DRIFT
      BY <3>1, <3>2, Bounds
    <3>4. phase' = IF running THEN phase + 1 ELSE 0
      BY <1>2 DEF Tick
    <3>. QED
      BY <3>3, <3>4, Zeroes
  <2>3. waited' \in 0 .. LATE
    <3>1. pc \in {"delay", "edge"} => waited < LATE
      BY <1>2 DEF Tick
    <3>2. waited \in Nat
      BY Ints
    <3>3. pc \in {"delay", "edge"} => waited + 1 \in 0 .. LATE
      BY <3>1, <3>2, Bounds
    <3>4. waited' = IF pc \in {"delay", "edge"} THEN waited + 1 ELSE waited
      BY <1>2 DEF Tick
    <3>. QED
      BY <3>3, <3>4 DEF Counted
  <2>4. UNCHANGED <<pc, result, busy, policy, running, count, pending, mark, passed,
                    initial, start, second, edge, bridge>>
    BY <1>2 DEF Tick
  <2>. QED
    BY <2>1, <2>2, <2>3, <2>4 DEF Where, Counted
<1>3. CASE RtcSecond
  <2>1. count' \in 0 .. SECONDS - 1
    BY <1>3, Ints, Wraps DEF RtcSecond
  <2>2. mark' \in 0 .. TICKS - 1
    BY <1>3 DEF RtcSecond, Counted
  <2>3. passed' \in Nat
    <3>1. passed \in Nat /\ passed + 1 \in Nat
      BY DEF Counted
    <3>. QED
      BY <1>3, <3>1 DEF RtcSecond
  <2>4. /\ pending' = TRUE /\ phase' = 0
        /\ UNCHANGED <<pc, result, busy, policy, running, tick,
                       initial, start, second, edge, waited, bridge>>
    BY <1>3 DEF RtcSecond, locals
  <2>. QED
    BY <2>1, <2>2, <2>3, <2>4, Zeroes DEF Where, Counted
<1>4. CASE power_control
  <2>1. phase' \in 0 .. RATE + DRIFT
    BY <1>4, Zeroes DEF power_control
  <2>2. mark' \in 0 .. TICKS - 1
    <3>1. phase' \in Int
      BY <2>1, Bounds
    <3>2. tick + TICKS - phase' \in Int
      BY <3>1, Ints, Bounds
    <3>. QED
      BY <1>4, <3>2, Wraps DEF power_control
  <2>3. /\ pc = "idle" /\ pc' = "look" /\ result' = "NONE" /\ passed' = 0
        /\ UNCHANGED <<busy, policy, running, count, pending, tick,
                       initial, start, second, edge, waited, bridge>>
    BY <1>4 DEF power_control, locals
  <2>. QED
    BY <2>1, <2>2, <2>3 DEF Where, Counted
<1>. QED
  BY <1>1, <1>2, <1>3, <1>4

LEMMA ReturnSteps ==
    ASSUME IInv, NEW e \in {"EOK", "EBUSY", "ETIMEOUT", "EIO"}, Return(e),
           busy' = busy, policy' \subseteq {"WK_RST"}, tick' \in 0 .. TICKS - 1,
           UNCHANGED <<running, count, pending, phase, mark, passed>>
    PROVE  IInv'
<1>1. Where'
  BY DEF IInv, Where, Return
<1>2. Counted'
  BY Zeroes DEF IInv, Counted, Return
<1>. QED
  BY <1>1, <1>2 DEF IInv

LEMMA ReadFailsReturns ==
    ReadFails => \E e \in {"EOK", "EBUSY", "ETIMEOUT", "EIO"} : Return(e)
BY DEF ReadFails

\* The alignment, with the scheduler open.
LEMMA AlignSteps ==
    ASSUME IInv, ab32_irtc_align_second_locked
    PROVE  IInv'
<1>1. busy' = busy /\ UNCHANGED <<policy, running, count, pending, phase, tick, mark, passed>>
  BY DEF ab32_irtc_align_second_locked, AlignStart, AlignRound, AlignEdge, clock
<1>2. pc \notin {"arm", "asleep"}
  BY DEF ab32_irtc_align_second_locked, AlignStart, AlignRound, AlignEdge
<1>3. CASE \E e \in {"EOK", "EBUSY", "ETIMEOUT", "EIO"} : Return(e)
  <2>1. policy' \subseteq {"WK_RST"} /\ tick' \in 0 .. TICKS - 1
    BY <1>1, <1>2 DEF IInv, Where, Counted
  <2>. QED
    BY <1>1, <1>3, <2>1, ReturnSteps
<1>4. CASE /\ pc' \in {"delay", "edge", "look again"} /\ result' = result
           /\ initial' \in {initial, count} /\ second' \in {second, count}
           /\ start' \in {start, tick} /\ edge' \in {edge, tick}
           /\ waited' \in {waited, 0} /\ bridge' = bridge
  <2>1. Where'
    BY <1>1, <1>2, <1>4 DEF IInv, Where
  <2>2. initial' \in 0 .. SECONDS - 1 /\ second' \in 0 .. SECONDS - 1
    BY <1>4 DEF IInv, Counted
  <2>3. start' \in 0 .. TICKS - 1 /\ edge' \in 0 .. TICKS - 1
    BY <1>4 DEF IInv, Counted
  <2>4. waited' \in 0 .. LATE
    BY <1>4, Zeroes DEF IInv, Counted
  <2>5. Counted'
    BY <1>1, <2>2, <2>3, <2>4 DEF IInv, Counted
  <2>. QED
    BY <2>1, <2>5 DEF IInv
<1>5. CASE AlignStart
  BY <1>3, <1>4, <1>5, ReadFailsReturns DEF AlignStart, Goto
<1>6. CASE AlignRound
  BY <1>3, <1>4, <1>6, ReadFailsReturns DEF AlignRound, Goto
<1>7. CASE AlignEdge
  BY <1>4, <1>7 DEF AlignEdge, Goto
<1>. QED
  BY <1>5, <1>6, <1>7 DEF ab32_irtc_align_second_locked

\* The looks at the drivers, and what follows them with the scheduler locked.
LEMMA SleepSteps ==
    ASSUME IInv, FirstLook \/ SecondLook \/ ab32_irtc_sleep_locked
    PROVE  IInv'
<1>1. CASE \E e \in {"EOK", "EBUSY", "ETIMEOUT", "EIO"} : Return(e)
  <2>. pc' = "idle"
    BY <1>1 DEF Return
  <2>1. busy' = busy /\ UNCHANGED <<running, count, pending, phase, mark, passed>>
    BY DEF FirstLook, SecondLook, ab32_irtc_sleep_locked, SleepStart, Arm, Wake, Goto, clock
  <2>2. policy' \subseteq {"WK_RST"}
    <3>1. (policy' = policy /\ pc # "asleep") \/ policy' = bridge
      BY <1>1 DEF FirstLook, SecondLook, ab32_irtc_sleep_locked, SleepStart, Arm, Wake,
                  Return, Goto
    <3>. QED
      BY <3>1 DEF IInv, Where
  <2>3. tick' \in 0 .. TICKS - 1
    <3>1. SetTick => tick' \in 0 .. TICKS - 1
      <4>1. edge + SecondsSince(count, second) * RATE \in Int
        BY Ints, Bounds DEF IInv
      <4>. QED
        BY <4>1, Wraps DEF SetTick
    <3>2. UNCHANGED tick \/ SetTick
      BY DEF FirstLook, SecondLook, ab32_irtc_sleep_locked, SleepStart, Arm, Wake, clock
    <3>. QED
      BY <3>1, <3>2 DEF IInv, Counted
  <2>. QED
    BY <1>1, <2>1, <2>2, <2>3, ReturnSteps
<1>2. CASE FirstLook
  <2>1. CASE pc' = "align" /\ UNCHANGED <<result, locals>>
    BY <1>2, <2>1 DEF FirstLook, IInv, Where, Counted, clock, locals
  <2>. QED
    BY <1>1, <1>2, <2>1 DEF FirstLook, Goto
<1>3. CASE SecondLook
  <2>1. CASE busy = {} /\ pc' = "sleep" /\ UNCHANGED <<result, locals>>
    BY <1>3, <2>1 DEF SecondLook, IInv, Where, Counted, clock, locals
  <2>. QED
    BY <1>1, <1>3, <2>1 DEF SecondLook, Goto
<1>4. CASE SleepStart
  <2>1. CASE /\ pc = "sleep" /\ pc' = "arm" /\ bridge' = policy
             /\ UNCHANGED <<result, busy, policy, initial, start, second, edge, waited>>
    <3>1. busy = {}
      BY <2>1 DEF IInv, Where
    <3>. QED
      BY <1>4, <2>1, <3>1 DEF SleepStart, IInv, Where, Counted, clock
  <2>. QED
    BY <1>1, <1>4, <2>1, ReadFailsReturns DEF SleepStart, Goto
<1>5. CASE Arm
  BY <1>5 DEF Arm, Goto, IInv, Where, Counted, locals
<1>6. CASE Wake
  BY <1>1, <1>6, ReadFailsReturns DEF Wake
<1>. QED
  BY <1>2, <1>3, <1>4, <1>5, <1>6 DEF ab32_irtc_sleep_locked

LEMMA NextIInv == IInv /\ [Next]_vars => IInv'
<1>. SUFFICES ASSUME IInv, [Next]_vars PROVE IInv'
  OBVIOUS
<1>1. CASE UNCHANGED vars
  BY <1>1 DEF vars, clock, locals, IInv, Where, Counted
<1>2. CASE Next
  BY <1>2, AroundSteps, AlignSteps, SleepSteps DEF Next, Sleep
<1>. QED
  BY <1>1, <1>2

THEOREM Invariant == Spec => []IInv
<1>. QED
  BY InitIInv, NextIInv, PTL DEF Spec

\* Type correctness of a sleep command and the clocks it reads.
THEOREM TypeCorrect == Spec => []TypeOK
<1>1. IInv => TypeOK
  BY DEF IInv, Where, Counted, TypeOK
<1>. QED
  BY <1>1, Invariant, PTL

\* However long the alignment and the preemption after it, no sleep begins under
\* a busy driver, and the wake policy it lends comes back.
THEOREM SleepSafe == Spec => []NoSleepUnderBusy
<1>1. IInv => NoSleepUnderBusy
  BY DEF IInv, Where, NoSleepUnderBusy
<1>. QED
  BY <1>1, Invariant, PTL

-----------------------------------------------------------------------------
(* The tick after a sleep.                                                 *)

\* A counter that wraps at w: one step on, and how far it is from where it was.
LEMMA WrappingCounter ==
    ASSUME NEW w \in Nat, w > 0, NEW a \in 0 .. w - 1, NEW b \in 0 .. w - 1
    PROVE  /\ (a + w - a) % w = 0
           /\ (a + w - b) % w = IF b <= a THEN a - b ELSE a + w - b
           /\ ((a + w - b) % w) + 1 < w =>
                 (((a + 1) % w) + w - b) % w = ((a + w - b) % w) + 1
<1> DEFINE M(n) == n % w
<1>1. \A n \in 0 .. 2 * w - 1 : M(n) = IF n < w THEN n ELSE n - w
  <2> SUFFICES ASSUME NEW n \in 0 .. 2 * w - 1 PROVE n % w = IF n < w THEN n ELSE n - w
    OBVIOUS
  <2>1. n \in Int /\ 0 <= n /\ n < 2 * w
    OBVIOUS
  <2> QED BY <2>1, SMT
<1> HIDE DEF M
<1>2. M(a + w - a) = 0 /\ M(a + w - b) = IF b <= a THEN a - b ELSE a + w - b
  BY <1>1
<1>3. M(a + 1) = IF a + 1 < w THEN a + 1 ELSE 0
  BY <1>1
<1>4. M(M(a + 1) + w - b) = IF b <= M(a + 1) THEN M(a + 1) - b ELSE M(a + 1) + w - b
  BY <1>1, <1>3
<1>5. M(a + w - b) + 1 < w => M(M(a + 1) + w - b) = M(a + w - b) + 1
  BY <1>2, <1>3, <1>4
<1> QED BY <1>2, <1>5 DEF M

Ticks == 0 .. TICKS - 1
Seconds == 0 .. SECONDS - 1

LEMMA ElapsedFacts ==
    ASSUME NEW t \in Ticks, NEW f \in Ticks
    PROVE  /\ Elapsed(t, f) \in Ticks /\ Elapsed(t, t) = 0
           /\ Elapsed(t, f) = IF f <= t THEN t - f ELSE t + TICKS - f
           /\ Elapsed(t, f) + 1 < TICKS => Elapsed((t + 1) % TICKS, f) = Elapsed(t, f) + 1
<1>1. /\ Elapsed(t, t) = 0 /\ Elapsed(t, f) = IF f <= t THEN t - f ELSE t + TICKS - f
      /\ Elapsed(t, f) + 1 < TICKS => Elapsed((t + 1) % TICKS, f) = Elapsed(t, f) + 1
  BY WrappingCounter, Bounds DEF Elapsed, Ticks
<1> QED BY <1>1, Bounds DEF Ticks

LEMMA SecondsFacts ==
    ASSUME NEW c \in Seconds, NEW s \in Seconds
    PROVE  /\ SecondsSince(c, s) \in Seconds /\ SecondsSince(c, c) = 0
           /\ SecondsSince(c, s) = 0 => c = s
           /\ SecondsSince(c, s) + 1 < SECONDS =>
                 SecondsSince((c + 1) % SECONDS, s) = SecondsSince(c, s) + 1
<1>1. /\ SecondsSince(c, c) = 0
      /\ SecondsSince(c, s) = IF s <= c THEN c - s ELSE c + SECONDS - s
      /\ SecondsSince(c, s) + 1 < SECONDS =>
                 SecondsSince((c + 1) % SECONDS, s) = SecondsSince(c, s) + 1
  BY WrappingCounter, Bounds DEF SecondsSince, Seconds
<1> QED BY <1>1, Bounds DEF Seconds

\* From the last RTC second to the edge, from there on, and the tick set forward.
LEMMA TickArithmetic ==
    ASSUME NEW t \in Ticks, NEW e \in Ticks, NEW m \in Ticks
    PROVE  /\ Elapsed(t, e) <= Elapsed(t, m) => Elapsed(e, m) = Elapsed(t, m) - Elapsed(t, e)
           /\ \A n \in Nat : Elapsed(e, m) + n < TICKS =>
                 Elapsed((e + n) % TICKS, m) = Elapsed(e, m) + n
<1>1. \A x, y \in Ticks : Elapsed(x, y) = IF y <= x THEN x - y ELSE x + TICKS - y
  BY ElapsedFacts
<1>2. Elapsed(t, e) <= Elapsed(t, m) => Elapsed(e, m) = Elapsed(t, m) - Elapsed(t, e)
  BY <1>1, Bounds DEF Ticks
<1>3. ASSUME NEW n \in Nat, Elapsed(e, m) + n < TICKS
      PROVE  Elapsed((e + n) % TICKS, m) = Elapsed(e, m) + n
  <2>1. (e + n) % TICKS = IF e + n < TICKS THEN e + n ELSE e + n - TICKS
    <3>1. n < TICKS /\ e \in Nat /\ e < TICKS
      BY <1>1, <1>3, Bounds DEF Ticks
    <3> QED BY <3>1, Bounds, SMT
  <2>2. (e + n) % TICKS \in Ticks
    BY <2>1, <1>1, <1>3, Bounds DEF Ticks
  <2> QED BY <1>1, <1>3, <2>1, <2>2, Bounds DEF Ticks
<1> QED BY <1>2, <1>3

\* n RTC seconds, at their shortest.
Span(n) == n * (RATE - DRIFT)

LEMMA SpanFacts ==
    /\ Span(0) = 0
    /\ \A n \in Nat : Span(n) \in Nat /\ Span(n + 1) = Span(n) + (RATE - DRIFT)
    /\ \A n \in Nat : Span(n) <= LATE + GUARD => n + 1 < SECONDS
    /\ RATE - DRIFT \in Nat /\ RATE - DRIFT > 0
<1> DEFINE m == RATE - DRIFT
<1>1. m \in Nat /\ m > 0 /\ SECONDS \in Nat /\ LATE + GUARD \in Nat
      /\ LATE + GUARD < (SECONDS - 1) * m
  BY SleepAssumption
<1> HIDE DEF m
<1>2. 0 * m = 0
  BY <1>1
<1>3. ASSUME NEW n \in Nat PROVE n * m \in Nat /\ (n + 1) * m = n * m + m
  BY <1>1, SMT
<1>4. ASSUME NEW n \in Nat, n * m <= LATE + GUARD PROVE n + 1 < SECONDS
  <2>1. n >= SECONDS - 1 => n * m >= (SECONDS - 1) * m
    BY <1>1, SMT
  <2>2. n * m \in Int /\ (SECONDS - 1) * m \in Int
    BY <1>1
  <2> QED BY <1>1, <1>4, <2>1, <2>2
<1> QED BY <1>1, <1>2, <1>3, <1>4 DEF Span, m

Found == {"edge", "look again", "sleep", "arm", "asleep"}
SinceInitial == SecondsSince(count, initial)
SinceSecond == SecondsSince(count, second)
SinceEdge == Elapsed(tick, edge)

\* While Timer0 runs, the phase is the tick's distance from the last RTC second.
Awake == pc # "idle" /\ Timer0Runs => passed = 0 /\ (running => Elapsed(tick, mark) = phase)

\* The RTC seconds that a wait can have held.
Aligning ==
    /\ pc = "delay" => /\ count # initial => running
                       /\ SinceInitial = 0 \/ Span(SinceInitial - 1) + phase <= waited
    /\ pc \in Found => running
    /\ pc = "edge" => Span(SinceSecond) + phase <= waited

\* Until the sleep is too late, it is known how far the last RTC second is away,
\* and if it is the one the alignment has found, it came before the edge.
Armed ==
    pc \in {"look again", "sleep"} =>
        /\ SinceEdge <= PREEMPTED
        /\ SinceEdge <= GUARD => /\ Span(SinceSecond) + phase <= waited + SinceEdge
                                 /\ SinceSecond = 0 => SinceEdge <= phase

\* Timer0 is off for two RTC seconds at most.
Asleep ==
    pc \in {"arm", "asleep"} =>
        /\ Elapsed(edge, mark) <= LATE
        /\ SinceSecond = passed
        /\ passed \in 0..2
        /\ passed > 0 => phase = 0
        /\ pc = "arm" \/ ~pending => passed <= 1

TickInv == Awake /\ Aligning /\ Armed /\ Asleep

\* The numbers of the invariant, and what the constants leave room for.
LEMMA Numbers ==
    ASSUME Counted
    PROVE  /\ tick \in Ticks /\ mark \in Ticks /\ edge \in Ticks /\ start \in Ticks
           /\ count \in Seconds /\ initial \in Seconds /\ second \in Seconds
           /\ SinceInitial \in Nat /\ SinceSecond \in Nat
           /\ SinceInitial < SECONDS /\ SinceSecond < SECONDS
           /\ SinceEdge \in Ticks /\ Elapsed(tick, mark) \in Ticks /\ Elapsed(edge, mark) \in Ticks
           /\ SinceEdge \in Nat /\ SinceEdge < TICKS /\ Elapsed(edge, mark) \in Nat
           /\ phase \in Nat /\ phase <= RATE + DRIFT /\ waited \in Nat /\ waited <= LATE
           /\ running \in BOOLEAN /\ passed \in Nat
           /\ Span(SinceSecond) \in Nat
<1>1. /\ tick \in Ticks /\ mark \in Ticks /\ edge \in Ticks /\ start \in Ticks
      /\ count \in Seconds /\ initial \in Seconds /\ second \in Seconds
  BY DEF Counted, Ticks, Seconds
<1>2. SinceInitial \in Seconds /\ SinceSecond \in Seconds
  BY <1>1, SecondsFacts DEF SinceInitial, SinceSecond
<1>3. /\ SinceInitial \in Nat /\ SinceSecond \in Nat
      /\ SinceInitial < SECONDS /\ SinceSecond < SECONDS
  BY <1>2, Bounds DEF Seconds
<1>4. SinceEdge \in Ticks /\ Elapsed(tick, mark) \in Ticks /\ Elapsed(edge, mark) \in Ticks
  BY <1>1, ElapsedFacts DEF SinceEdge
<1>5. phase \in Nat /\ phase <= RATE + DRIFT /\ waited \in Nat /\ waited <= LATE
      /\ running \in BOOLEAN /\ passed \in Nat
  BY Bounds DEF Counted
<1>6. SinceEdge \in Nat /\ SinceEdge < TICKS /\ Elapsed(edge, mark) \in Nat
  BY <1>4, Bounds DEF Ticks
<1>7. Span(SinceSecond) \in Nat
  BY <1>3, SpanFacts
<1> QED BY <1>1, <1>3, <1>4, <1>5, <1>6, <1>7

LEMMA Room ==
    /\ RATE + DRIFT < TICKS /\ PREEMPTED + 1 < TICKS /\ LATE + 2 * RATE < TICKS
    /\ GUARD \in Nat /\ PREEMPTED \in Nat /\ SECONDS > 3
BY SleepAssumption

LEMMA NextIsPositive == \A n, m \in Nat : m = n + 1 => m # 0
OBVIOUS

\* Sums of the distances that a wait is made of.
LEMMA Sums ==
    /\ \A e \in Nat : e < PREEMPTED => e + 1 <= PREEMPTED /\ e + 1 < TICKS
    /\ \A e \in Nat : e + 1 <= GUARD => e <= GUARD
    /\ \A s, p, w, e \in Nat : s + p <= w + e => s + (p + 1) <= w + (e + 1)
    /\ \A p, e \in Nat : e <= p => e + 1 <= p + 1
    /\ \A s, p, w, e, m \in Nat :
          s + p <= w + e /\ p >= m /\ w <= LATE /\ e <= GUARD
             => s + m + 0 <= w + e /\ s <= LATE + GUARD
BY Room, Bounds

\* A tick: the time to every mark grows by one.
LEMMA TickStep == ASSUME IInv, TickInv, Tick PROVE TickInv'
<1> USE DEF TickInv
<1>1. Counted
  BY DEF IInv
<1>2. /\ UNCHANGED <<pc, running, count, pending, mark, passed, initial, second, edge>>
      /\ pc # "idle" /\ Timer0Runs
      /\ tick' = (tick + 1) % TICKS
      /\ running => phase < RATE + DRIFT
      /\ phase' = IF running THEN phase + 1 ELSE 0
      /\ waited' = IF pc \in {"delay", "edge"} THEN waited + 1 ELSE waited
      /\ pc \in {"look again", "sleep"} => SinceEdge < PREEMPTED
  BY DEF Tick, SinceEdge
<1>3. UNCHANGED <<SinceInitial, SinceSecond, Timer0Runs>> /\ pc \notin {"arm", "asleep"}
  BY <1>2 DEF SinceInitial, SinceSecond, Timer0Runs, SchedulerOpen, SecondsSince
<1>4. Awake'
  <2>1. running => Elapsed(tick, mark) = phase
    BY <1>2 DEF Awake
  <2>2. running => Elapsed(tick', mark) = phase + 1
    <3> SUFFICES ASSUME running PROVE Elapsed(tick', mark) = phase + 1
      OBVIOUS
    <3>1. phase + 1 < TICKS
      <4>1. phase < RATE + DRIFT /\ phase \in Nat
        BY <1>1, <1>2, Numbers
      <4> QED BY <4>1, Room, Bounds
    <3>2. Elapsed(tick, mark) + 1 < TICKS
      BY <2>1, <3>1
    <3>3. Elapsed((tick + 1) % TICKS, mark) = Elapsed(tick, mark) + 1
      BY <1>1, <3>2, Numbers, ElapsedFacts
    <3> QED BY <1>2, <2>1, <3>3
  <2> QED BY <1>2, <1>3, <2>2 DEF Awake, Elapsed
<1>5. Aligning'
  <2>1. ASSUME pc = "delay", SinceInitial # 0 PROVE running
    <3>1. count # initial
      BY <1>1, <2>1, Numbers, SecondsFacts DEF SinceInitial
    <3> QED BY <2>1, <3>1 DEF Aligning
  <2>2. SinceInitial # 0 => Span(SinceInitial - 1) \in Nat
    BY <1>1, Numbers, SpanFacts
  <2>3. pc = "delay" => SinceInitial = 0 \/ Span(SinceInitial - 1) + phase' <= waited'
    BY <1>1, <1>2, <2>1, <2>2, Numbers DEF Aligning
  <2>4. Span(SinceSecond) \in Nat
    BY <1>1, Numbers, SpanFacts
  <2>5. pc = "edge" => running /\ Span(SinceSecond) + phase' <= waited'
    BY <1>1, <1>2, <2>4, Numbers DEF Aligning, Found
  <2> QED BY <1>2, <1>3, <2>3, <2>5 DEF Aligning
<1>6. Armed'
  <2> SUFFICES ASSUME pc \in {"look again", "sleep"} PROVE Armed'
    BY <1>2 DEF Armed
  <2>1. running /\ waited' = waited /\ phase' = phase + 1
    BY <1>2 DEF Aligning, Found
  <2>2. SinceEdge' = SinceEdge + 1 /\ SinceEdge + 1 <= PREEMPTED
    <3>1. SinceEdge + 1 <= PREEMPTED /\ SinceEdge + 1 < TICKS
      BY <1>1, <1>2, Numbers, Sums
    <3>2. SinceEdge' = Elapsed((tick + 1) % TICKS, edge)
      BY <1>2 DEF SinceEdge
    <3> QED BY <1>1, <3>1, <3>2, Numbers, ElapsedFacts DEF SinceEdge
  <2>3. Span(SinceSecond) \in Nat /\ SinceEdge \in Nat
    BY <1>1, Numbers
  <2>4. SinceEdge + 1 <= GUARD => SinceEdge <= GUARD
    BY <2>3, Sums
  <2>5. phase \in Nat /\ waited \in Nat
    BY <1>1, Numbers
  <2>6. ASSUME SinceEdge + 1 <= GUARD
        PROVE  /\ Span(SinceSecond) + (phase + 1) <= waited + (SinceEdge + 1)
               /\ SinceSecond = 0 => SinceEdge + 1 <= phase + 1
    <3>1. Span(SinceSecond) + phase <= waited + SinceEdge /\ (SinceSecond = 0 => SinceEdge <= phase)
      BY <2>4, <2>6 DEF Armed
    <3> QED BY <2>3, <2>5, <3>1, Sums
  <2> QED BY <1>3, <2>1, <2>2, <2>6 DEF Armed
<1>7. Asleep'
  BY <1>2, <1>3 DEF Asleep
<1> QED BY <1>4, <1>5, <1>6, <1>7

\* An RTC second takes its time, and only so many fit into a wait.
LEMMA SecondStep == ASSUME IInv, TickInv, RtcSecond PROVE TickInv'
<1> USE DEF TickInv
<1>1. Counted
  BY DEF IInv
<1>2. /\ UNCHANGED <<pc, running, tick, initial, start, second, edge, waited>>
      /\ running /\ pc # "idle"
      /\ phase >= RATE - DRIFT \/ (pc = "asleep" /\ ~pending)
      /\ count' = (count + 1) % SECONDS /\ pending' = TRUE /\ phase' = 0
      /\ Timer0Runs => mark' = tick /\ passed' = 0
      /\ ~Timer0Runs => passed' = passed + 1 /\ mark' = mark
  BY DEF RtcSecond, locals
<1>3. Timer0Runs' = Timer0Runs /\ SinceEdge' = SinceEdge
  BY <1>2 DEF Timer0Runs, SchedulerOpen, SinceEdge, Elapsed
<1>4. /\ SinceInitial + 1 < SECONDS => SinceInitial' = SinceInitial + 1
      /\ SinceSecond + 1 < SECONDS => SinceSecond' = SinceSecond + 1
  <2>1. SinceInitial' = SecondsSince((count + 1) % SECONDS, initial)
    BY <1>2 DEF SinceInitial
  <2>2. SinceSecond' = SecondsSince((count + 1) % SECONDS, second)
    BY <1>2 DEF SinceSecond
  <2> QED BY <1>1, <2>1, <2>2, Numbers, SecondsFacts DEF SinceInitial, SinceSecond
<1>5. Awake'
  <2>1. Elapsed(tick, tick) = 0
    BY <1>1, Numbers, ElapsedFacts
  <2> QED BY <1>2, <1>3, <2>1 DEF Awake
<1>6. pc # "asleep" => phase >= RATE - DRIFT
  BY <1>2
<1>7. Aligning'
  <2>1. ASSUME pc = "delay" PROVE SinceInitial' = 0 \/ Span(SinceInitial' - 1) + phase' <= waited'
    <3>1. CASE SinceInitial = 0
      <4>1. SinceInitial' = 1 /\ SinceInitial' - 1 = 0
        <5>1. SinceInitial + 1 = 1 /\ 1 < SECONDS
          BY <3>1, Room, Bounds
        <5> QED BY <1>4, <5>1
      <4> QED BY <1>1, <1>2, <4>1, SpanFacts, Numbers
    <3>2. CASE SinceInitial # 0
      <4> DEFINE n == SinceInitial - 1
      <4>1. n \in Nat /\ SinceInitial = n + 1
        BY <1>1, <3>2, Numbers
      <4> HIDE DEF n
      <4>2. Span(n) + phase <= waited
        BY <2>1, <3>2, <4>1 DEF Aligning, n
      <4>3. Span(n) \in Nat /\ Span(n + 1) = Span(n) + (RATE - DRIFT)
            /\ RATE - DRIFT \in Nat
        BY <4>1, SpanFacts
      <4>4. Span(n + 1) <= waited /\ Span(n + 1) <= LATE + GUARD
        BY <1>1, <1>6, <2>1, <4>2, <4>3, Numbers, Room, Bounds
      <4>5. n + 1 + 1 < SECONDS
        BY <4>1, <4>4, SpanFacts
      <4>6. SinceInitial' - 1 = n + 1
        BY <1>4, <4>1, <4>5
      <4> QED BY <1>1, <1>2, <4>3, <4>4, <4>6, Numbers
    <3> QED BY <3>1, <3>2
  <2>2. ASSUME pc = "edge" PROVE Span(SinceSecond') + phase' <= waited'
    <3>1. Span(SinceSecond) + phase <= waited
      BY <2>2 DEF Aligning
    <3>2. Span(SinceSecond) \in Nat /\ Span(SinceSecond + 1) = Span(SinceSecond) + (RATE - DRIFT)
          /\ RATE - DRIFT \in Nat
      BY <1>1, Numbers, SpanFacts
    <3>3. Span(SinceSecond + 1) <= waited /\ Span(SinceSecond) <= LATE + GUARD
      BY <1>1, <1>6, <2>2, <3>1, <3>2, Numbers, Room, Bounds
    <3>4. SinceSecond' = SinceSecond + 1
      BY <1>1, <1>4, <3>3, Numbers, SpanFacts
    <3> QED BY <1>1, <1>2, <3>2, <3>3, <3>4, Numbers
  <2> QED BY <1>2, <2>1, <2>2 DEF Aligning
<1>8. Armed'
  <2> SUFFICES ASSUME pc \in {"look again", "sleep"}, SinceEdge <= GUARD
               PROVE  /\ Span(SinceSecond') + phase' <= waited' + SinceEdge
                      /\ SinceSecond' # 0
    BY <1>2, <1>3 DEF Armed
  <2>1. Span(SinceSecond) + phase <= waited + SinceEdge
    BY DEF Armed
  <2>2. Span(SinceSecond) \in Nat /\ Span(SinceSecond + 1) = Span(SinceSecond) + (RATE - DRIFT)
        /\ RATE - DRIFT \in Nat /\ SinceEdge \in Nat
    BY <1>1, Numbers, SpanFacts
  <2>3. Span(SinceSecond + 1) + 0 <= waited + SinceEdge /\ Span(SinceSecond) <= LATE + GUARD
    <3>1. phase >= RATE - DRIFT
      BY <1>6
    <3>2. phase \in Nat /\ waited \in Nat /\ waited <= LATE
      BY <1>1, Numbers
    <3> QED BY <2>1, <2>2, <3>1, <3>2, Sums
  <2>4. SinceSecond' = SinceSecond + 1
    BY <1>1, <1>4, <2>3, Numbers, SpanFacts
  <2>5. SinceSecond \in Nat
    BY <1>1, Numbers
  <2>6. SinceSecond' # 0
    BY <2>4, <2>5, NextIsPositive
  <2> QED BY <1>2, <2>3, <2>4, <2>6
<1>9. Asleep'
  <2> SUFFICES ASSUME pc \in {"arm", "asleep"} PROVE Asleep'
    BY <1>2 DEF Asleep
  <2>1. ~Timer0Runs
    BY DEF Timer0Runs, SchedulerOpen
  <2>2. passed' = passed + 1 /\ mark' = mark
    BY <1>2, <2>1
  <2>3. Elapsed(edge, mark)' = Elapsed(edge, mark)
    BY <1>2, <2>2
  <2>4. passed \in {0, 1} /\ (pc = "arm" => passed = 0)
    <3>1. pc = "arm" \/ pending => phase > 0
      BY <1>1, <1>2, SpanFacts, Numbers
    <3>2. passed \in 0..2 /\ (passed > 0 => phase = 0) /\ (pc = "arm" \/ ~pending => passed <= 1)
      BY DEF Asleep
    <3> QED BY <1>1, <3>1, <3>2, Numbers
  <2>5. SinceSecond' = passed'
    <3>1. SinceSecond = passed /\ SinceSecond + 1 < SECONDS
      BY <2>4, Room, Bounds DEF Asleep
    <3> QED BY <1>4, <2>2, <3>1
  <2> QED BY <1>2, <2>2, <2>3, <2>4, <2>5 DEF Asleep
<1> QED BY <1>5, <1>7, <1>8, <1>9

\* The command's own steps.
LEMMA IdleKeeps == ASSUME pc' = "idle" PROVE TickInv'
BY DEF TickInv, Awake, Aligning, Armed, Asleep, Found

LEMMA CommandStep == ASSUME IInv, TickInv, Sleep, pc' # "idle" PROVE TickInv'
<1> USE DEF TickInv
<1>1. Counted /\ ~Return("EOK") /\ ~Return("EBUSY") /\ ~Return("ETIMEOUT") /\ ~Return("EIO") /\ ~ReadFails
  BY DEF IInv, Return, ReadFails
<1>2. CASE FirstLook
  <2>1. pc = "look" /\ pc' = "align" /\ UNCHANGED clock
    BY <1>1, <1>2 DEF FirstLook, Goto
  <2> QED BY <2>1 DEF clock, Awake, Aligning, Armed, Asleep, Found, Timer0Runs, SchedulerOpen
<1>3. CASE AlignStart \/ (AlignRound /\ pc' = "delay")
  <2>1. pc \in {"align", "delay"} /\ pc' = "delay" /\ UNCHANGED clock /\ initial' = count
    BY <1>1, <1>3 DEF AlignStart, AlignRound, Goto
  <2>2. SinceInitial' = 0
    BY <1>1, <2>1, Numbers, SecondsFacts DEF SinceInitial, clock
  <2> QED BY <2>1, <2>2 DEF clock, Awake, Aligning, Armed, Asleep, Found, Timer0Runs, SchedulerOpen
<1>4. CASE AlignRound /\ pc' # "delay"
  <2>1. /\ pc = "delay" /\ pc' = "edge" /\ UNCHANGED clock /\ SinceInitial = 1
        /\ second' = count /\ waited' = waited
    BY <1>1, <1>4 DEF AlignRound, Goto, SinceInitial
  <2>2. SinceSecond' = 0
    BY <1>1, <2>1, Numbers, SecondsFacts DEF SinceSecond, clock
  <2>3. running
    BY <1>1, <2>1, Numbers, SecondsFacts DEF Aligning, SinceInitial
  <2>4. Span(0) + phase <= waited
    BY <2>1 DEF Aligning
  <2> QED BY <2>1, <2>2, <2>3, <2>4 DEF clock, Awake, Aligning, Armed, Asleep, Found,
             Timer0Runs, SchedulerOpen
<1>5. CASE AlignEdge
  <2>1. pc = "edge" /\ pc' = "look again" /\ edge' = tick /\ UNCHANGED <<clock, second, waited>>
    BY <1>5 DEF AlignEdge, Goto
  <2>2. SinceEdge' = 0 /\ SinceSecond' = SinceSecond /\ running
    BY <1>1, <2>1, Numbers, ElapsedFacts DEF SinceEdge, SinceSecond, clock, Aligning, Found
  <2>3. Armed'
    <3>1. Span(SinceSecond) + phase <= waited
      BY <2>1 DEF Aligning
    <3>2. waited + 0 = waited /\ 0 <= phase /\ 0 <= PREEMPTED
      BY <1>1, Numbers, Room
    <3> QED BY <2>1, <2>2, <3>1, <3>2 DEF Armed, clock
  <2> QED BY <2>1, <2>2, <2>3 DEF clock, Awake, Aligning, Asleep, Found, Timer0Runs, SchedulerOpen
<1>6. CASE SecondLook
  <2>1. pc = "look again" /\ pc' = "sleep" /\ UNCHANGED <<clock, locals>>
    BY <1>1, <1>6 DEF SecondLook, Goto
  <2>2. UNCHANGED <<SinceEdge, SinceSecond>>
    BY <2>1 DEF SinceEdge, SinceSecond, clock, locals
  <2> QED BY <2>1, <2>2 DEF clock, locals, Awake, Aligning, Armed, Asleep, Found,
             Timer0Runs, SchedulerOpen
<1>7. CASE SleepStart
  <2>1. /\ pc = "sleep" /\ pc' = "arm" /\ UNCHANGED clock /\ UNCHANGED <<second, edge, waited>>
        /\ count = second /\ ~(SinceEdge > GUARD)
    BY <1>1, <1>7 DEF SleepStart, Goto, TooLate, SinceEdge
  <2>2. SinceSecond = 0 /\ SinceSecond' = SinceSecond
    BY <1>1, <2>1, Numbers, SecondsFacts DEF SinceSecond, clock
  <2>3. SinceEdge \in Nat /\ SinceEdge <= GUARD
    BY <1>1, <2>1, Numbers, Room, Bounds DEF Ticks
  <2>4. phase <= waited + SinceEdge /\ SinceEdge <= phase
    BY <1>1, <2>1, <2>2, <2>3, Numbers, SpanFacts DEF Armed
  <2>5. passed = 0 /\ running /\ Elapsed(tick, mark) = phase
    BY <2>1 DEF Awake, Aligning, Found, Timer0Runs
  <2>6. Elapsed(edge, mark) = phase - SinceEdge
    BY <1>1, <2>4, <2>5, Numbers, TickArithmetic DEF SinceEdge
  <2>7. Elapsed(edge, mark) <= LATE
    BY <1>1, <2>3, <2>4, <2>6, Numbers, Bounds
  <2> QED BY <2>1, <2>2, <2>5, <2>7 DEF clock, Awake, Aligning, Armed, Asleep, Found,
             Timer0Runs, SchedulerOpen
<1>8. CASE Arm
  <2>1. /\ pc = "arm" /\ pc' = "asleep"
        /\ UNCHANGED <<running, count, phase, tick, mark, passed, second, edge>>
    BY <1>8 DEF Arm, Goto, locals
  <2>2. UNCHANGED SinceSecond
    BY <2>1 DEF SinceSecond
  <2> QED BY <2>1, <2>2 DEF Awake, Aligning, Armed, Asleep, Found, Timer0Runs, SchedulerOpen
<1>9. CASE Wake
  BY <1>1, <1>9 DEF Wake
<1> QED BY <1>2, <1>3, <1>4, <1>5, <1>6, <1>7, <1>8, <1>9
        DEF Sleep, ab32_irtc_align_second_locked, ab32_irtc_sleep_locked

\* The RTC second p ticks before t, as the tick would have shown it.
LEMMA PhasePlace ==
    ASSUME NEW t \in Ticks, NEW p \in 0 .. RATE + DRIFT
    PROVE  Elapsed(t, (t + TICKS - p) % TICKS) = p
<1> DEFINE m == (t + TICKS - p) % TICKS
<1>1. TICKS \in Nat /\ t \in Nat /\ t < TICKS /\ p \in Nat /\ p < TICKS
  BY Room, Bounds DEF Ticks
<1>2. \A n \in Nat : n < 2 * TICKS => n % TICKS = IF n < TICKS THEN n ELSE n - TICKS
  BY <1>1, SMT
<1>3. t + TICKS - p \in Nat /\ t + TICKS - p < 2 * TICKS
  BY <1>1
<1>4. m = IF p <= t THEN t - p ELSE t + TICKS - p
  BY <1>1, <1>2, <1>3
<1> HIDE DEF m
<1>5. m \in Ticks
  BY <1>1, <1>4 DEF Ticks
<1>6. Elapsed(t, m) = p
  BY <1>1, <1>4, <1>5, ElapsedFacts
<1> QED BY <1>6 DEF m

\* A command begins anywhere in an RTC second.
LEMMA CommandBegins == ASSUME IInv, power_control PROVE TickInv'
<1>1. /\ pc' = "look" /\ passed' = 0 /\ UNCHANGED <<tick, running>>
      /\ phase' \in (IF running THEN 0 .. RATE + DRIFT ELSE {0})
      /\ mark' = (tick + TICKS - phase') % TICKS
  BY DEF power_control
<1>2. phase' \in 0 .. RATE + DRIFT /\ tick \in Ticks
  <2>1. tick \in Ticks
    BY Numbers DEF IInv
  <2> QED BY <1>1, <2>1, Bounds
<1>5. Elapsed(tick, mark') = phase'
  BY <1>1, <1>2, PhasePlace
<1>6. Awake'
  BY <1>1, <1>5 DEF Awake
<1> QED BY <1>1, <1>6 DEF TickInv, Aligning, Armed, Asleep, Found

LEMMA TickInduction == ASSUME IInv, TickInv, [Next]_vars PROVE TickInv'
<1>1. CASE DriverStarts \/ DriverStops \/ UNCHANGED vars
  <2>1. UNCHANGED <<pc, clock, locals>>
    BY <1>1 DEF DriverStarts, DriverStops, vars
  <2>2. UNCHANGED <<SinceInitial, SinceSecond, SinceEdge, Timer0Runs>>
    BY <2>1 DEF SinceInitial, SinceSecond, SinceEdge, Timer0Runs, SchedulerOpen, clock, locals
  <2> QED BY <2>1, <2>2 DEF TickInv, Awake, Aligning, Armed, Asleep, clock, locals
<1>2. CASE Tick \/ RtcSecond
  BY <1>2, TickStep, SecondStep
<1>3. CASE power_control
  BY <1>3, CommandBegins
<1>4. CASE Sleep
  BY <1>4, IdleKeeps, CommandStep
<1> QED BY <1>1, <1>2, <1>3, <1>4 DEF Next

LEMMA TickStart == Init => TickInv
BY IdleKeeps DEF Init, TickInv, Awake, Aligning, Armed, Asleep, Found

\* The tick that a sleep leaves behind is the RTC seconds since the last one the
\* tick has seen, and late by no more than the way from that second to the edge
\* (drv_power.c:186-251, drv_rtc.c:456-595), for every rate and width of the clocks.
THEOREM SleepIsCompensated == Spec => TickCompensated
<1> DEFINE Right == Timer0Runs' /\ ~Timer0Runs /\ result' = "EOK" =>
                        Elapsed(tick', mark) \in passed * RATE .. passed * RATE + LATE
<1>1. IInv /\ TickInv /\ [Next]_vars => [Right]_vars
  <2> SUFFICES ASSUME IInv, TickInv, Next, Timer0Runs', ~Timer0Runs, result' = "EOK"
               PROVE  Elapsed(tick', mark) \in passed * RATE .. passed * RATE + LATE
    OBVIOUS
  <2>1. Counted /\ pc \in {"arm", "asleep"}
    BY DEF IInv, Where, Timer0Runs, SchedulerOpen
  <2>2. Wake
    <3>1. pc' \notin {"arm", "asleep"}
      BY DEF Timer0Runs, SchedulerOpen
    <3>2. ~(DriverStarts \/ DriverStops \/ Tick \/ power_control)
      BY <2>1 DEF DriverStarts, DriverStops, Tick, power_control, SchedulerOpen
    <3>3. ~(RtcSecond \/ Arm)
      BY <2>1, <3>1 DEF RtcSecond, Arm, Goto
    <3> QED BY <2>1, <3>2, <3>3 DEF Next, Sleep, FirstLook, ab32_irtc_align_second_locked, AlignStart,
               AlignRound, AlignEdge, SecondLook, ab32_irtc_sleep_locked, SleepStart
  <2>3. SinceSecond \in 1..2 /\ SetTick
    BY <2>2 DEF Wake, ReadFails, Return, SinceSecond
  <2>4. SinceSecond = passed /\ Elapsed(edge, mark) <= LATE /\ Elapsed(edge, mark) \in Nat
    BY <2>1, Numbers, Bounds DEF TickInv, Asleep, Ticks
  <2> DEFINE n == passed * RATE
  <2>5. n \in Nat /\ n <= 2 * RATE
    <3>1. passed = 1 \/ passed = 2
      BY <2>3, <2>4
    <3>2. 1 * RATE = RATE /\ 2 * RATE = RATE + RATE /\ RATE \in Nat
      BY Bounds
    <3> QED BY <3>1, <3>2
  <2>6. tick' = (edge + n) % TICKS
    BY <2>3, <2>4 DEF SetTick, SinceSecond
  <2> HIDE DEF n
  <2>7. Elapsed(edge, mark) + n < TICKS
    BY <2>4, <2>5, Room, Bounds
  <2>8. Elapsed(tick', mark) = Elapsed(edge, mark) + n
    BY <2>1, <2>5, <2>6, <2>7, Numbers, TickArithmetic
  <2>9. Elapsed(tick', mark) \in n .. n + LATE
    BY <2>4, <2>5, <2>8, Bounds
  <2> QED BY <2>9 DEF n
<1> QED BY <1>1, TickStart, TickInduction, Invariant, PTL DEF Spec, TickCompensated
=============================================================================
