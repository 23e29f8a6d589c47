----------------------------- MODULE RadioProofs -----------------------------
(***************************************************************************)
(* The infrared receiver and the radio application that polls it.          *)
(*                                                                         *)
(* The driver's event stream is well formed, its reader never stays behind *)
(* and sees every loss, for every queue size, every set of remote words    *)
(* and every tick width.  For every set of frequencies and volumes, off is *)
(* off, and a session of the shell is never taken over.                    *)
(***************************************************************************)
EXTENDS IrReceiver, RadioApp, EventRingProofs

-----------------------------------------------------------------------------
(* The receiver.                                                           *)

\* The tick counter stays in range when it wraps.
LEMMA TickWraps ==
    \A t \in 0 .. IR_TICKS - 1 : (t + 1) % IR_TICKS \in 0 .. IR_TICKS - 1
<1>1. IR_TICKS \in Nat /\ IR_TICKS > 0
  BY IrAssumption
<1>. QED
  BY <1>1, SMT

\* The unsigned tick difference, one tick later and at its start.
LEMMA ElapsedSteps ==
    ASSUME NEW t \in 0 .. IR_TICKS - 1, NEW f \in 0 .. IR_TICKS - 1
    PROVE  /\ IrElapsed(t, t) = 0
           /\ IrElapsed(t, f) < IR_TICKS - 1 =>
                 IrElapsed((t + 1) % IR_TICKS, f) = IrElapsed(t, f) + 1
<1>1. IR_TICKS \in Nat /\ IR_TICKS > 0
  BY IrAssumption
<1>2. \A n \in 0 .. 2 * IR_TICKS - 1 : n % IR_TICKS = IF n < IR_TICKS THEN n ELSE n - IR_TICKS
  <2>. SUFFICES ASSUME NEW n \in 0 .. 2 * IR_TICKS - 1
                PROVE  n % IR_TICKS = IF n < IR_TICKS THEN n ELSE n - IR_TICKS
    OBVIOUS
  <2>1. n \in Int /\ 0 <= n /\ n < 2 * IR_TICKS
    BY <1>1
  <2>. QED
    BY <1>1, <2>1, SMT
<1>. DEFINE M(n) == n % IR_TICKS
<1>3. \A n \in 0 .. 2 * IR_TICKS - 1 : M(n) = IF n < IR_TICKS THEN n ELSE n - IR_TICKS
  BY <1>2
<1>4. /\ IrElapsed(t, t) = M(t + IR_TICKS - t) /\ IrElapsed(t, f) = M(t + IR_TICKS - f)
      /\ IrElapsed((t + 1) % IR_TICKS, f) = M(M(t + 1) + IR_TICKS - f)
  BY DEF IrElapsed
<1>. HIDE DEF M
<1>5. t \in Int /\ f \in Int /\ 0 <= t /\ t < IR_TICKS /\ 0 <= f /\ f < IR_TICKS
  BY <1>1
<1>6. M(t + IR_TICKS - t) = 0
  BY <1>1, <1>3, <1>5
<1>7. M(t + IR_TICKS - f) = IF t + IR_TICKS - f < IR_TICKS THEN t + IR_TICKS - f ELSE t - f
  BY <1>1, <1>3, <1>5
<1>8. M(t + 1) = IF t + 1 < IR_TICKS THEN t + 1 ELSE 0
  BY <1>1, <1>3, <1>5
<1>9. M(M(t + 1) + IR_TICKS - f) =
        IF M(t + 1) + IR_TICKS - f < IR_TICKS THEN M(t + 1) + IR_TICKS - f ELSE M(t + 1) - f
  BY <1>1, <1>3, <1>5, <1>8
<1>. QED
  BY <1>1, <1>4, <1>5, <1>6, <1>7, <1>8, <1>9

\* The loss history stays in range.
LEMMA LostInRange ==
    ASSUME NEW n \in Nat, ir_missed \in 0 .. COUNTER
    PROVE  IrLost(n) \in 0 .. COUNTER
BY RingAssumption DEF IrLost

\* A step throws away a natural number of events.
LEMMA OverflowInNat ==
    ASSUME NEW n \in Nat, ir_ring \in RingType(IrEvent \cup {NoIrEvent})
    PROVE  Overflow(n) \in Nat
<1>1. ir_ring.queued \in 0 .. QSIZE
  BY DEF RingType
<1>. QED
  BY <1>1, RingAssumption DEF Overflow

-----------------------------------------------------------------------------
\* Pushing an event that may follow the newest one keeps the queue linked,
\* also when the oldest event is given up for it.
LEMMA PushLinked ==
    ASSUME NEW E, NEW r \in RingType(E), NEW e \in E, RingOK(r), Linked(r),
           r.queued > 0 => IrFollows(Contents(r)[r.queued], e)
    PROVE  /\ Linked(Push(r, e))
           /\ Push(r, e).queued > 0
           /\ Contents(Push(r, e))[Push(r, e).queued] = e
<1>. DEFINE p == Push(r, e)
            n == p.queued
<1>1. QSIZE \in Nat /\ QSIZE > 0 /\ r.queued \in 0 .. QSIZE
  BY RingAssumption DEF RingType
<1>2. /\ n = IF IsFull(r) THEN r.queued ELSE r.queued + 1
      /\ Contents(p)[n] = e
      /\ \A i \in 1 .. n - 1 :
            Contents(p)[i] = IF IsFull(r) THEN Contents(r)[i + 1] ELSE Contents(r)[i]
  BY PushContents
<1>3. n > 0 /\ n \in Nat
  BY <1>1, <1>2 DEF IsFull
<1>. HIDE DEF p, n
<1>4. ASSUME NEW i \in 1 .. n - 1
      PROVE  IrFollows(Contents(p)[i], Contents(p)[i + 1])
  <2>1. CASE i = n - 1
    <3>1. Contents(p)[i + 1] = e
      BY <2>1, <1>2, <1>3
    <3>2. Contents(p)[i] = Contents(r)[r.queued] /\ r.queued > 0
      BY <2>1, <1>1, <1>2, <1>3 DEF IsFull
    <3>. QED
      BY <3>1, <3>2
  <2>2. CASE i # n - 1
    <3>1. i \in 1 .. n - 1 /\ i + 1 \in 1 .. n - 1
      BY <2>2, <1>3
    <3>2. CASE IsFull(r)
      <4>1. Contents(p)[i] = Contents(r)[i + 1] /\ Contents(p)[i + 1] = Contents(r)[i + 1 + 1]
        BY <3>1, <3>2, <1>2
      <4>2. i + 1 \in 1 .. r.queued - 1
        BY <3>1, <3>2, <1>1, <1>2
      <4>. QED
        BY <4>1, <4>2 DEF Linked
    <3>3. CASE ~IsFull(r)
      <4>1. Contents(p)[i] = Contents(r)[i] /\ Contents(p)[i + 1] = Contents(r)[i + 1]
        BY <3>1, <3>3, <1>2
      <4>2. i \in 1 .. r.queued - 1
        BY <3>1, <3>3, <1>1, <1>2
      <4>. QED
        BY <4>1, <4>2 DEF Linked
    <3>. QED
      BY <3>2, <3>3
  <2>. QED
    BY <2>1, <2>2
<1>5. Linked(p)
  BY <1>4 DEF Linked, n
<1>. QED
  BY <1>2, <1>3, <1>5 DEF p, n

\* Popping keeps the queue linked.
LEMMA PopLinked ==
    ASSUME NEW E, NEW r \in RingType(E), RingOK(r), Linked(r), r.queued # 0
    PROVE  /\ Linked(Pop(r))
           /\ Pop(r).queued > 0 =>
                 Contents(Pop(r))[Pop(r).queued] = Contents(r)[r.queued]
<1>1. r.queued \in Nat /\ r.queued > 0
  BY RingAssumption DEF RingType
<1>2. /\ Pop(r).queued = r.queued - 1
      /\ \A i \in 1 .. r.queued - 1 : Contents(Pop(r))[i] = Contents(r)[i + 1]
  BY PopContents
<1>3. ASSUME NEW i \in 1 .. Pop(r).queued - 1
      PROVE  IrFollows(Contents(Pop(r))[i], Contents(Pop(r))[i + 1])
  <2>1. i \in 1 .. r.queued - 1 /\ i + 1 \in 1 .. r.queued - 1
    BY <1>1, <1>2
  <2>2. Contents(Pop(r))[i] = Contents(r)[i + 1] /\ Contents(Pop(r))[i + 1] = Contents(r)[i + 1 + 1]
    BY <2>1, <1>2
  <2>. QED
    BY <2>1, <2>2 DEF Linked
<1>4. Pop(r).queued > 0 => Contents(Pop(r))[Pop(r).queued] = Contents(r)[r.queued]
  BY <1>1, <1>2
<1>. QED
  BY <1>3, <1>4 DEF Linked

-----------------------------------------------------------------------------
\* While the receiver has the pins, START's copy is what the owner left.
SavedPins == IF running THEN saved = owner_pins ELSE pins = owner_pins

\* Until the counter has gone round once, the tick difference is the truth.
TrueAge == age < IR_TICKS => IrElapsed(ir_tick, last_frame) = age

IInv ==
    /\ TypeOK
    /\ RingOK(ir_ring)
    /\ HeldKey
    /\ StreamWellFormed
    /\ DrainedReaderAgrees
    /\ SavedPins
    /\ TrueAge

\* What irrx_release leaves in the queue: a linked stream that ends in an UP.
LEMMA ReleaseIntoOK ==
    ASSUME IInv
    PROVE  /\ ReleaseInto(ir_ring) \in RingType(IrEvent \cup {NoIrEvent})
           /\ RingOK(ReleaseInto(ir_ring))
           /\ Linked(ReleaseInto(ir_ring))
           /\ ir_pressed => ReleaseInto(ir_ring).queued > 0
           /\ ReleaseInto(ir_ring).queued > 0 =>
                 Contents(ReleaseInto(ir_ring))[ReleaseInto(ir_ring).queued].kind \in {"UP", "NONE"}
<1>1. CASE ir_pressed
  <2>. DEFINE e == [raw |-> raw, kind |-> "UP"]
  <2>1. ReleaseInto(ir_ring) = Push(ir_ring, e)
    BY <1>1 DEF ReleaseInto, irrx_push
  <2>2. e \in IrEvent \cup {NoIrEvent} /\ e.kind = "UP" /\ e.raw = raw
    BY <1>1 DEF IInv, HeldKey, IrEvent, IrKinds
  <2>3. ir_ring.queued > 0 => IrFollows(Contents(ir_ring)[ir_ring.queued], e)
    BY <1>1, <2>2 DEF IInv, StreamWellFormed, NewestAgrees, IrAgrees, IrFollows
  <2>4. ir_ring \in RingType(IrEvent \cup {NoIrEvent}) /\ RingOK(ir_ring) /\ Linked(ir_ring)
    BY DEF IInv, TypeOK, StreamWellFormed
  <2>. HIDE DEF e
  <2>5. /\ Linked(Push(ir_ring, e)) /\ Push(ir_ring, e).queued > 0
        /\ Contents(Push(ir_ring, e))[Push(ir_ring, e).queued] = e
    BY <2>2, <2>3, <2>4, PushLinked
  <2>6. Push(ir_ring, e) \in RingType(IrEvent \cup {NoIrEvent}) /\ RingOK(Push(ir_ring, e))
    BY <2>2, <2>4, PushOK
  <2>. QED
    BY <2>1, <2>2, <2>5, <2>6
<1>2. CASE ~ir_pressed
  <2>1. ReleaseInto(ir_ring) = ir_ring
    BY <1>2 DEF ReleaseInto
  <2>. QED
    BY <1>2, <2>1 DEF IInv, TypeOK, StreamWellFormed, NewestAgrees, IrAgrees
<1>. QED
  BY <1>1, <1>2

\* What the handler leaves in the queue for a valid frame w.
LEMMA FramePushOK ==
    ASSUME IInv, rx \in Words, IsrFrame
    PROVE  /\ ir_ring' \in RingType(IrEvent \cup {NoIrEvent})
           /\ RingOK(ir_ring') /\ Linked(ir_ring') /\ ir_ring'.queued > 0
           /\ Contents(ir_ring')[ir_ring'.queued].raw = rx
           /\ Contents(ir_ring')[ir_ring'.queued].kind \in {"DOWN", "REPEAT"}
<1>1. CASE IsRepeat
  <2>. DEFINE e == [raw |-> rx, kind |-> "REPEAT"]
  <2>1. ir_ring' = Push(ir_ring, e)
    BY <1>1 DEF IsrFrame, irrx_push
  <2>2. e \in IrEvent \cup {NoIrEvent} /\ e.kind = "REPEAT" /\ e.raw = rx
    BY DEF IrEvent, IrKinds
  <2>3. ir_ring.queued > 0 => IrFollows(Contents(ir_ring)[ir_ring.queued], e)
    BY <1>1, <2>2 DEF IInv, StreamWellFormed, NewestAgrees, IrAgrees, IrFollows, IsRepeat
  <2>4. ir_ring \in RingType(IrEvent \cup {NoIrEvent}) /\ RingOK(ir_ring) /\ Linked(ir_ring)
    BY DEF IInv, TypeOK, StreamWellFormed
  <2>. HIDE DEF e
  <2>5. /\ Linked(Push(ir_ring, e)) /\ Push(ir_ring, e).queued > 0
        /\ Contents(Push(ir_ring, e))[Push(ir_ring, e).queued] = e
    BY <2>2, <2>3, <2>4, PushLinked
  <2>6. Push(ir_ring, e) \in RingType(IrEvent \cup {NoIrEvent}) /\ RingOK(Push(ir_ring, e))
    BY <2>2, <2>4, PushOK
  <2>. QED
    BY <2>1, <2>2, <2>5, <2>6
<1>2. CASE ~IsRepeat
  <2>. DEFINE e == [raw |-> rx, kind |-> "DOWN"]
              q == ReleaseInto(ir_ring)
  <2>1. ir_ring' = Push(q, e)
    BY <1>2 DEF IsrFrame, irrx_push
  <2>2. e \in IrEvent \cup {NoIrEvent} /\ e.kind = "DOWN" /\ e.raw = rx
    BY DEF IrEvent, IrKinds
  <2>3. /\ q \in RingType(IrEvent \cup {NoIrEvent}) /\ RingOK(q) /\ Linked(q)
        /\ q.queued > 0 => Contents(q)[q.queued].kind \in {"UP", "NONE"}
    BY ReleaseIntoOK
  <2>. HIDE DEF e, q
  <2>4. q.queued > 0 => IrFollows(Contents(q)[q.queued], e)
    BY <2>2, <2>3 DEF IrFollows
  <2>5. /\ Linked(Push(q, e)) /\ Push(q, e).queued > 0
        /\ Contents(Push(q, e))[Push(q, e).queued] = e
    BY <2>2, <2>3, <2>4, PushLinked
  <2>6. Push(q, e) \in RingType(IrEvent \cup {NoIrEvent}) /\ RingOK(Push(q, e))
    BY <2>2, <2>3, PushOK
  <2>. QED
    BY <2>1, <2>2, <2>5, <2>6
<1>. QED
  BY <1>1, <1>2

-----------------------------------------------------------------------------
\* The driver starts, after static initialisation, in the invariant.
LEMMA InitIInv == Init => IInv
<1>. SUFFICES ASSUME Init PROVE IInv
  OBVIOUS
<1>1. QSIZE \in Nat /\ QSIZE > 0 /\ COUNTER \in Nat /\ COUNTER > 0
  BY RingAssumption
<1>2. IR_TICKS \in Nat /\ IR_TICKS > 0 /\ IR_POLL_TICKS \in Nat
  BY IrAssumption
<1>3. ir_ring \in RingType(IrEvent \cup {NoIrEvent}) /\ ir_ring.queued = 0 /\ ir_ring.head = 0 /\ ir_ring.tail = 0
  BY <1>1 DEF Init, EmptyRing, RingType, Slots
<1>4. TypeOK
  <2>1. /\ 0 \in 0 .. IR_TICKS - 1 /\ 0 \in 0 .. IR_POLL_TICKS
        /\ 0 \in 0 .. IR_TICKS /\ 0 \in 0 .. COUNTER - 1 /\ 0 \in 0 .. COUNTER
    BY <1>1, <1>2
  <2>. QED
    BY <2>1, <1>3 DEF Init, TypeOK
<1>5. RingOK(ir_ring)
  <2>1. Wrap(0 + 0) = 0
    BY <1>1, WrapOneLap
  <2>. QED
    BY <1>3, <2>1 DEF RingOK
<1>6. StreamWellFormed
  BY <1>3 DEF StreamWellFormed, Linked, NewestAgrees
<1>7. DrainedReaderAgrees
  BY DEF Init, DrainedReaderAgrees, IrAgrees, NoIrEvent
<1>8. TrueAge
  BY <1>2, ElapsedSteps DEF Init, TrueAge
<1>. QED
  BY <1>4, <1>5, <1>6, <1>7, <1>8 DEF Init, IInv, HeldKey, SavedPins

\* Facts every step uses: the parts of the invariant, and numbers in range.
LEMMA Parts ==
    ASSUME IInv
    PROVE  /\ TypeOK /\ RingOK(ir_ring) /\ HeldKey
           /\ Linked(ir_ring) /\ NewestAgrees /\ DrainedReaderAgrees
           /\ SavedPins /\ TrueAge
           /\ ir_ring \in RingType(IrEvent \cup {NoIrEvent})
           /\ ir_ring.queued \in Nat
BY RingAssumption DEF IInv, StreamWellFormed, TypeOK, RingType

\* A step that leaves the driver, its reader and the pins alone.
LEMMA QuietStep ==
    ASSUME IInv, TypeOK',
           UNCHANGED <<running, ir_pressed, raw, ir_ring, ir_last, TrueAge>>,
           UNCHANGED <<pins, saved, owner_pins>>
    PROVE  IInv'
<1>. USE Parts
<1>1. RingOK(ir_ring)' /\ HeldKey' /\ SavedPins'
  BY DEF RingOK, HeldKey, SavedPins
<1>2. StreamWellFormed'
  BY DEF StreamWellFormed, Linked, NewestAgrees, IrAgrees
<1>3. DrainedReaderAgrees'
  BY DEF DrainedReaderAgrees, IrAgrees
<1>4. TrueAge'
  OBVIOUS
<1>. QED
  BY <1>1, <1>2, <1>3, <1>4 DEF IInv

\* A step that gives up the held key, with the queue irrx_release leaves.
LEMMA ReleaseStep ==
    ASSUME IInv, TypeOK', ir_ring' = ReleaseInto(ir_ring), ir_pressed' = FALSE,
           ir_last' = ir_last, TrueAge', SavedPins'
    PROVE  IInv'
<1>1. /\ RingOK(ir_ring)' /\ Linked(ir_ring)'
      /\ ir_pressed => ir_ring'.queued > 0
      /\ ir_ring'.queued > 0 => Contents(ir_ring')[ir_ring'.queued].kind \in {"UP", "NONE"}
  BY ReleaseIntoOK DEF RingOK, Linked
<1>2. StreamWellFormed'
  BY <1>1 DEF StreamWellFormed, NewestAgrees, IrAgrees
<1>3. DrainedReaderAgrees'
  <2>1. CASE ir_pressed
    <3>1. ir_ring'.queued > 0 /\ ir_ring'.queued \in Nat
      BY <1>1, <2>1, RingAssumption DEF TypeOK, RingType
    <3>. QED
      BY <3>1 DEF DrainedReaderAgrees
  <2>2. CASE ~ir_pressed
    BY <2>2, Parts DEF ReleaseInto, DrainedReaderAgrees, IrAgrees
  <2>. QED
    BY <2>1, <2>2
<1>. QED
  BY <1>1, <1>2, <1>3 DEF IInv, HeldKey

LEMMA TypeStep ==
    ASSUME IInv, Next
    PROVE  TypeOK'
<1>. USE Parts
<1>1. /\ COUNTER \in Nat /\ COUNTER > 0 /\ IR_TICKS \in Nat /\ IR_TICKS > 0
      /\ IR_POLL_TICKS \in Nat /\ IR_POLL_TICKS > 0
  BY RingAssumption, IrAssumption
<1>2. \A n \in {0, 1, 2} : IrLost(Overflow(n)) \in 0 .. COUNTER
  <2>. TAKE n \in {0, 1, 2}
  <2>1. Overflow(n) \in Nat
    BY OverflowInNat
  <2>. QED
    BY <2>1, LostInRange DEF TypeOK
<1>3. ReleaseInto(ir_ring) \in RingType(IrEvent \cup {NoIrEvent})
  BY ReleaseIntoOK
<1>4. 0 \in 0 .. COUNTER - 1 /\ 0 \in 0 .. COUNTER /\ 0 \in 0 .. IR_POLL_TICKS /\ 0 \in 0 .. IR_TICKS
  BY <1>1
<1>5. ASSUME NEW w \in Words \cup Noise, HwFrame(w)
      PROVE  TypeOK'
  BY <1>5 DEF HwFrame, TypeOK, driver, clock, ir_reader
<1>6. CASE HwRelease
  BY <1>6 DEF HwRelease, TypeOK, driver, clock, ir_reader
<1>7. CASE IrTick
  <2>1. ir_tick' \in 0 .. IR_TICKS - 1
    BY <1>7, TickWraps DEF IrTick, TypeOK
  <2>2. ir_since_poll' \in 0 .. IR_POLL_TICKS /\ age' \in 0 .. IR_TICKS
    BY <1>1, <1>7 DEF IrTick, TypeOK
  <2>. QED
    BY <2>1, <2>2, <1>7 DEF IrTick, TypeOK, driver, device, ir_reader
<1>8. ASSUME NEW c \in PinConfigs, OtherOwner(c)
      PROVE  TypeOK'
  BY <1>8 DEF OtherOwner, TypeOK, driver, clock, ir_reader
<1>9. CASE ab32_irrx_poll
  <2>1. CASE ReleaseTimedOut
    BY <1>2, <1>3, <1>4, <1>9, <2>1 DEF ab32_irrx_poll, irrx_release, TypeOK, device
  <2>2. CASE ~ReleaseTimedOut
    BY <1>4, <1>9, <2>2 DEF ab32_irrx_poll, TypeOK, device
  <2>. QED
    BY <2>1, <2>2
<1>10. CASE irrx_isr
  <2>1. CASE IsrFrame
    <3>1. rx \in Words
      BY <2>1 DEF IsrFrame
    <3>2. ir_ring' \in RingType(IrEvent \cup {NoIrEvent})
      BY <2>1, <3>1, FramePushOK
    <3>3. ir_missed' \in 0 .. COUNTER
      BY <2>1, <1>2 DEF IsrFrame
    <3>. QED
      BY <3>1, <3>2, <3>3, <2>1, <1>4, <1>10 DEF irrx_isr, IsrFrame, TypeOK, clock
  <2>2. CASE IsrNoise
    <3>1. ir_missed' \in 0 .. COUNTER
      BY <2>2, <1>2 DEF IsrNoise
    <3>. QED
      BY <3>1, <2>2, <1>3, <1>10 DEF irrx_isr, IsrNoise, TypeOK, clock
  <2>3. CASE IsrRelease
    BY <2>3, <1>10 DEF irrx_isr, IsrRelease, TypeOK, clock
  <2>. QED
    BY <2>1, <2>2, <2>3, <1>10 DEF irrx_isr
<1>11. CASE Start
  <2>1. ir_ring' \in RingType(IrEvent \cup {NoIrEvent})
    BY <1>11, ClearOK DEF Start
  <2>2. saved' \in PinConfigs
    BY <1>11 DEF Start, TypeOK, SavedPins
  <2>. QED
    BY <2>1, <2>2, <1>4, <1>11 DEF Start, TypeOK, clock
<1>12. CASE Stop
  <2>1. ir_missed' \in 0 .. COUNTER
    BY <1>2, <1>12 DEF Stop
  <2>. QED
    BY <2>1, <1>3, <1>12 DEF Stop, irrx_release, TypeOK, clock
<1>13. CASE irrx_pop
  <2>1. ir_ring' \in RingType(IrEvent \cup {NoIrEvent})
    BY <1>13, PopOK DEF irrx_pop
  <2>2. Front(ir_ring) \in IrEvent \cup {NoIrEvent} /\ ir_ring.dropped \in 0 .. COUNTER - 1
    BY DEF Front, RingType
  <2>. QED
    BY <2>1, <2>2, <1>4, <1>13 DEF irrx_pop, TypeOK, device, clock
<1>. QED
  BY <1>5, <1>6, <1>7, <1>8, <1>9, <1>10, <1>11, <1>12, <1>13 DEF Next

LEMMA NextIInv ==
    ASSUME IInv, [Next]_vars
    PROVE  IInv'
<1>. USE Parts
<1>1. CASE UNCHANGED vars
  <2>1. TypeOK'
    BY <1>1 DEF vars, driver, device, clock, ir_reader, TypeOK
  <2>. QED
    BY <1>1, <2>1, QuietStep DEF vars, driver, device, clock, ir_reader, TrueAge
<1>2. CASE Next
  <2>. TypeOK'
    BY <1>2, TypeStep
  <2>1. ASSUME NEW w \in Words \cup Noise, HwFrame(w)
        PROVE  IInv'
    BY <2>1, QuietStep DEF HwFrame, driver, clock, ir_reader, TrueAge
  <2>2. CASE HwRelease
    BY <2>2, QuietStep DEF HwRelease, driver, clock, ir_reader, TrueAge
  <2>3. CASE IrTick
    <3>1. TrueAge'
      <4>1. IR_TICKS \in Nat
        BY IrAssumption
      <4>2. /\ ir_tick \in 0 .. IR_TICKS - 1 /\ last_frame \in 0 .. IR_TICKS - 1 /\ age \in 0 .. IR_TICKS
            /\ ir_tick' = (ir_tick + 1) % IR_TICKS /\ last_frame' = last_frame
            /\ age' = IF age < IR_TICKS THEN age + 1 ELSE age
        BY <2>3 DEF TypeOK, IrTick, driver
      <4>3. SUFFICES ASSUME age' < IR_TICKS
                     PROVE  IrElapsed((ir_tick + 1) % IR_TICKS, last_frame) = age'
        BY <4>2 DEF TrueAge
      <4>4. age' = age + 1 /\ age < IR_TICKS - 1 /\ age < IR_TICKS
        BY <4>1, <4>2, <4>3
      <4>5. IrElapsed(ir_tick, last_frame) = age
        BY <4>4 DEF TrueAge
      <4>. QED
        BY <4>2, <4>4, <4>5, ElapsedSteps
    <3>2. UNCHANGED <<running, ir_pressed, raw, ir_ring, ir_last, pins, saved, owner_pins>>
      BY <2>3 DEF IrTick, driver, device, ir_reader
    <3>3. RingOK(ir_ring)' /\ HeldKey' /\ SavedPins'
      BY <3>2 DEF RingOK, HeldKey, SavedPins
    <3>4. StreamWellFormed' /\ DrainedReaderAgrees'
      BY <3>2 DEF StreamWellFormed, Linked, NewestAgrees, IrAgrees, DrainedReaderAgrees
    <3>. QED
      BY <3>1, <3>3, <3>4 DEF IInv
  <2>4. ASSUME NEW c \in PinConfigs, OtherOwner(c)
        PROVE  IInv'
    <3>1. UNCHANGED <<running, ir_pressed, raw, ir_ring, ir_last, age, ir_tick, last_frame>>
      BY <2>4 DEF OtherOwner, driver, clock, ir_reader
    <3>2. RingOK(ir_ring)' /\ HeldKey' /\ TrueAge' /\ SavedPins'
      BY <2>4, <3>1 DEF RingOK, HeldKey, TrueAge, SavedPins, OtherOwner
    <3>3. StreamWellFormed' /\ DrainedReaderAgrees'
      BY <3>1 DEF StreamWellFormed, Linked, NewestAgrees, IrAgrees, DrainedReaderAgrees
    <3>. QED
      BY <3>2, <3>3 DEF IInv
  <2>5. CASE ab32_irrx_poll
    <3>1. TrueAge' /\ SavedPins' /\ ir_last' = ir_last
      BY <2>5 DEF ab32_irrx_poll, device, TrueAge, SavedPins
    <3>2. CASE ReleaseTimedOut
      BY <2>5, <3>1, <3>2, ReleaseStep DEF ab32_irrx_poll, irrx_release
    <3>3. CASE ~ReleaseTimedOut
      BY <2>5, <3>3, QuietStep DEF ab32_irrx_poll, device, TrueAge
    <3>. QED
      BY <3>2, <3>3
  <2>6. CASE irrx_isr
    <3>1. CASE IsrFrame
      <4>1. rx \in Words /\ raw' = rx /\ ir_pressed' = TRUE
        BY <3>1 DEF IsrFrame
      <4>2. /\ RingOK(ir_ring)' /\ Linked(ir_ring)' /\ ir_ring'.queued > 0
            /\ Contents(ir_ring')[ir_ring'.queued].raw = rx
            /\ Contents(ir_ring')[ir_ring'.queued].kind \in {"DOWN", "REPEAT"}
        BY <3>1, <4>1, FramePushOK DEF RingOK, Linked
      <4>3. ir_ring'.queued # 0
        BY <4>2, RingAssumption DEF TypeOK, RingType
      <4>4. StreamWellFormed' /\ DrainedReaderAgrees'
        BY <4>1, <4>2, <4>3 DEF StreamWellFormed, NewestAgrees, IrAgrees, DrainedReaderAgrees
      <4>5. TrueAge'
        <5>1. ir_tick' = ir_tick /\ last_frame' = ir_tick /\ age' = 0 /\ ir_tick \in 0 .. IR_TICKS - 1
          BY <2>6, <3>1 DEF irrx_isr, IsrFrame, clock, TypeOK
        <5>. QED
          BY <5>1, ElapsedSteps DEF TrueAge
      <4>. QED
        BY <2>6, <4>1, <4>2, <4>4, <4>5 DEF IInv, HeldKey, SavedPins, irrx_isr
    <3>2. CASE IsrNoise
      BY <2>6, <3>2, ReleaseStep DEF irrx_isr, IsrNoise, clock, TrueAge, SavedPins
    <3>3. CASE IsrRelease
      BY <2>6, <3>3, QuietStep DEF irrx_isr, IsrRelease, clock, TrueAge
    <3>. QED
      BY <2>6, <3>1, <3>2, <3>3 DEF irrx_isr
  <2>7. CASE Start
    <3>1. ir_ring' = Clear(ir_ring) /\ ir_pressed' = FALSE /\ ir_last' = NoIrEvent
      BY <2>7 DEF Start
    <3>2. RingOK(ir_ring)' /\ ir_ring'.queued = 0
      BY <3>1, ClearOK DEF RingOK
    <3>3. StreamWellFormed' /\ DrainedReaderAgrees'
      BY <3>1, <3>2 DEF StreamWellFormed, Linked, NewestAgrees, DrainedReaderAgrees,
                        IrAgrees, NoIrEvent
    <3>. QED
      BY <2>7, <3>2, <3>3 DEF Start, clock, IInv, HeldKey, SavedPins, TrueAge
  <2>8. CASE Stop
    <3>1. TrueAge' /\ SavedPins' /\ ir_last' = ir_last
      BY <2>8 DEF Stop, clock, TrueAge, SavedPins
    <3>. QED
      BY <2>8, <3>1, ReleaseStep DEF Stop, irrx_release
  <2>9. CASE irrx_pop
    <3>1. /\ ir_ring' = Pop(ir_ring) /\ ir_ring.queued # 0 /\ ir_ring.queued > 0
          /\ ir_last' = Contents(ir_ring)[1]
      BY <2>9, PopContents DEF irrx_pop
    <3>2. RingOK(ir_ring)' /\ ir_ring'.queued = ir_ring.queued - 1
      BY <3>1, PopOK, PopContents DEF RingOK
    <3>3. Linked(ir_ring)' /\ ir_ring'.queued > 0 =>
                 Contents(ir_ring')[ir_ring'.queued] = Contents(ir_ring)[ir_ring.queued]
      BY <3>1, PopLinked DEF Linked
    <3>4. Linked(ir_ring)'
      BY <3>1, PopLinked DEF Linked
    <3>5. ir_pressed' = ir_pressed /\ raw' = raw /\ running' = running
      BY <2>9 DEF irrx_pop
    <3>6. StreamWellFormed'
      BY <3>1, <3>3, <3>4, <3>5 DEF StreamWellFormed, NewestAgrees, IrAgrees
    <3>7. DrainedReaderAgrees'
      BY <3>1, <3>2, <3>5 DEF DrainedReaderAgrees, NewestAgrees, IrAgrees
    <3>. QED
      BY <2>9, <3>2, <3>6, <3>7 DEF irrx_pop, device, clock, IInv, HeldKey, SavedPins, TrueAge
  <2>. QED
    BY <1>2, <2>1, <2>2, <2>3, <2>4, <2>5, <2>6, <2>7, <2>8, <2>9 DEF Next
<1>. QED
  BY <1>1, <1>2

-----------------------------------------------------------------------------
\* The invariant of the driver: the interrupt handler, the poll, START, STOP
\* and the reader keep it in every order.
THEOREM Invariant == Spec => []IInv
BY InitIInv, NextIInv, PTL DEF Spec

\* The driver's statics stay well typed in every interleaving.
THEOREM TypeCorrect == Spec => []TypeOK
<1>1. IInv => TypeOK
  BY DEF IInv
<1>. QED
  BY <1>1, Invariant, PTL

\* Overflow never breaks the event stream and never loses the newest event.
THEOREM StreamCorrect == Spec => []StreamWellFormed
<1>1. IInv => StreamWellFormed
  BY DEF IInv
<1>. QED
  BY <1>1, Invariant, PTL

\* A reader with nothing left to read knows which key is down.
THEOREM ReaderCorrect == Spec => []DrainedReaderAgrees
<1>1. IInv => DrainedReaderAgrees
  BY DEF IInv
<1>. QED
  BY <1>1, Invariant, PTL

\* A stopped receiver has given the pins back as it found them.
THEOREM PinsCorrect == Spec => []PinsRestored
<1>1. IInv => PinsRestored
  BY DEF IInv, SavedPins, PinsRestored
<1>. QED
  BY <1>1, Invariant, PTL

\* The poll reports a pending release at 400 ms of true time and not before,
\* although it only compares ticks that wrap.
THEOREM ReleasedInTime == Spec => ReleaseInTime
<1>1. ASSUME IInv, ab32_irrx_poll, ir_pressed, age < IR_TICKS
      PROVE  ir_pressed' <=> ~release_pending \/ age < IR_RELEASE_TICKS
  <2>1. IrElapsed(ir_tick, last_frame) = age /\ running /\ age \in Nat
    BY <1>1 DEF IInv, TrueAge, HeldKey, TypeOK
  <2>2. ReleaseTimedOut <=> release_pending /\ age >= IR_RELEASE_TICKS
    BY <1>1, <2>1 DEF ReleaseTimedOut
  <2>3. age >= IR_RELEASE_TICKS <=> ~(age < IR_RELEASE_TICKS)
    BY <2>1, IrAssumption
  <2>4. ir_pressed' <=> ~ReleaseTimedOut
    BY <1>1 DEF ab32_irrx_poll, irrx_release
  <2>. QED
    BY <2>2, <2>3, <2>4
<1>2. IInv /\ [Next]_vars
        => [ab32_irrx_poll /\ ir_pressed /\ age < IR_TICKS
              => (ir_pressed' <=> ~release_pending \/ age < IR_RELEASE_TICKS)]_vars
  BY <1>1
<1>. QED
  BY <1>2, Invariant, PTL DEF Spec, ReleaseInTime

-----------------------------------------------------------------------------
(* Loss is visible.                                                        *)

\* With m losses since the reader's last event, the status of queue r counts them,
\* and without any the reader's next event fits its last one.
Told(r, m) ==
    /\ m < COUNTER => r.dropped = Ahead(ir_seen_dropped, m)
    /\ m = 0 /\ r.queued > 0 => IrFollows(ir_last, Front(r))

LossTold == Told(ir_ring, ir_missed)

\* A push tells what it loses, and is the reader's next event if it is the only one.
LEMMA PushTold ==
    ASSUME NEW r \in RingType(IrEvent \cup {NoIrEvent}), NEW e \in IrEvent \cup {NoIrEvent},
           NEW m \in 0 .. COUNTER, RingOK(r), Told(r, m), ir_seen_dropped \in 0 .. COUNTER - 1,
           r.queued = 0 => IrFollows(ir_last, e)
    PROVE  /\ Told(Push(r, e), OneMore(m, IsFull(r)))
           /\ OneMore(m, IsFull(r)) \in 0 .. COUNTER
<1>1. QSIZE \in Nat /\ QSIZE > 0 /\ COUNTER \in Nat /\ COUNTER > 0
  BY RingAssumption
<1>2. r.queued \in 0 .. QSIZE /\ r.dropped \in 0 .. COUNTER - 1
  BY DEF RingType
<1>3. /\ OneMore(m, IsFull(r)) \in 0 .. COUNTER
      /\ OneMore(m, IsFull(r)) < COUNTER
            => Push(r, e).dropped = Ahead(ir_seen_dropped, OneMore(m, IsFull(r)))
  BY <1>2, CountAhead DEF Told
<1>4. CASE IsFull(r)
  <2>1. OneMore(m, IsFull(r)) # 0
    BY <1>1, <1>4 DEF OneMore
  <2> QED BY <1>3, <2>1 DEF Told
<1>5. CASE ~IsFull(r)
  <2>1. OneMore(m, IsFull(r)) = m
    BY <1>5 DEF OneMore
  <2>2. Front(Push(r, e)) = IF r.queued = 0 THEN e ELSE Front(r)
    <3>1. Push(r, e) \in RingType(IrEvent \cup {NoIrEvent}) /\ RingOK(Push(r, e))
      BY PushOK
    <3>2. /\ Push(r, e).queued = r.queued + 1 /\ Push(r, e).queued # 0
          /\ Contents(Push(r, e))[r.queued + 1] = e
          /\ \A i \in 1 .. r.queued : Contents(Push(r, e))[i] = Contents(r)[i]
      BY <1>2, <1>5, PushContents
    <3>3. Front(Push(r, e)) = Contents(Push(r, e))[1]
      BY <3>1, <3>2, PopContents
    <3>4. r.queued # 0 => Front(r) = Contents(r)[1]
      BY PopContents
    <3> QED BY <1>2, <3>2, <3>3, <3>4
  <2>3. Push(r, e).queued > 0 /\ (m = 0 => IrFollows(ir_last, Front(Push(r, e))))
    BY <1>2, <1>5, <2>2 DEF Told, Push
  <2> QED BY <1>3, <2>1, <2>3 DEF Told
<1> QED BY <1>4, <1>5

\* The history of a step counts what its pushes lose, one after the other.
LEMMA LostByPushes ==
    ASSUME NEW e \in IrEvent \cup {NoIrEvent}, ir_ring \in RingType(IrEvent \cup {NoIrEvent}),
           RingOK(ir_ring), ir_missed \in 0 .. COUNTER
    PROVE  /\ IrLost(Overflow(0)) = ir_missed
           /\ IrLost(Overflow(1)) = OneMore(ir_missed, IsFull(ir_ring))
           /\ IrLost(Overflow(2)) = OneMore(OneMore(ir_missed, IsFull(ir_ring)), IsFull(Push(ir_ring, e)))
<1>1. QSIZE \in Nat /\ QSIZE > 0 /\ COUNTER \in Nat /\ COUNTER > 0
  BY RingAssumption
<1>2. ir_ring.queued \in 0 .. QSIZE
  BY DEF RingType
<1>3. Push(ir_ring, e).queued = IF IsFull(ir_ring) THEN ir_ring.queued ELSE ir_ring.queued + 1
  BY PushContents
<1>4. IsFull(Push(ir_ring, e)) <=> ir_ring.queued >= QSIZE - 1
  BY <1>1, <1>2, <1>3 DEF IsFull
<1>5. /\ Overflow(0) = 0 /\ Overflow(1) = IF IsFull(ir_ring) THEN 1 ELSE 0
      /\ Overflow(2) = IF IsFull(ir_ring) THEN 2 ELSE IF IsFull(Push(ir_ring, e)) THEN 1 ELSE 0
  BY <1>1, <1>2, <1>4 DEF Overflow, IsFull
<1>6. /\ IrLost(0) = ir_missed
      /\ IrLost(1) = IF ir_missed + 1 < COUNTER THEN ir_missed + 1 ELSE COUNTER
      /\ IrLost(2) = IF ir_missed + 2 < COUNTER THEN ir_missed + 2 ELSE COUNTER
  BY <1>1 DEF IrLost
<1>7. /\ OneMore(ir_missed, FALSE) = ir_missed /\ OneMore(ir_missed, TRUE) = IrLost(1)
      /\ OneMore(IrLost(1), TRUE) = IrLost(2)
  BY <1>1, <1>6 DEF OneMore
<1>8. IsFull(ir_ring) => IsFull(Push(ir_ring, e))
  BY <1>1, <1>2, <1>4 DEF IsFull
<1>9. CASE IsFull(ir_ring)
  BY <1>5, <1>6, <1>7, <1>8, <1>9
<1>10. CASE ~IsFull(ir_ring)
  BY <1>5, <1>6, <1>7, <1>10 DEF OneMore
<1> QED BY <1>9, <1>10

\* What the reader of an empty queue gets from a release, or has got before.
LEMMA ReleaseTold ==
    ASSUME IInv, LossTold
    PROVE  LET lost == IrLost(Overflow(IF ir_pressed THEN 1 ELSE 0))
           IN  /\ Told(ReleaseInto(ir_ring), lost) /\ lost \in 0 .. COUNTER
               /\ ~ir_pressed => lost = ir_missed
               /\ ir_pressed => lost = OneMore(ir_missed, IsFull(ir_ring))
               /\ ReleaseInto(ir_ring).queued = 0 => ir_last.kind \in {"UP", "NONE"}
<1> USE Parts
<1>1. /\ ir_ring \in RingType(IrEvent \cup {NoIrEvent}) /\ RingOK(ir_ring)
      /\ ir_missed \in 0 .. COUNTER /\ ir_seen_dropped \in 0 .. COUNTER - 1
  BY DEF TypeOK
<1>2. CASE ir_pressed
  <2> DEFINE e == [raw |-> raw, kind |-> "UP"]
  <2>1. ReleaseInto(ir_ring) = Push(ir_ring, e)
    BY <1>2 DEF ReleaseInto, irrx_push
  <2>2. e \in IrEvent \cup {NoIrEvent} /\ e.kind = "UP" /\ e.raw = raw
    BY <1>2 DEF HeldKey, IrEvent, IrKinds
  <2>3. ir_ring.queued = 0 => IrFollows(ir_last, e)
    BY <1>2, <2>2 DEF DrainedReaderAgrees, IrAgrees, IrFollows
  <2> HIDE DEF e
  <2>4. IrLost(Overflow(1)) = OneMore(ir_missed, IsFull(ir_ring))
    BY <1>1, <2>2, LostByPushes
  <2>5. Told(Push(ir_ring, e), OneMore(ir_missed, IsFull(ir_ring)))
        /\ OneMore(ir_missed, IsFull(ir_ring)) \in 0 .. COUNTER
    BY <1>1, <2>2, <2>3, PushTold DEF LossTold
  <2>6. ReleaseInto(ir_ring).queued > 0 /\ ReleaseInto(ir_ring).queued # 0
    <3>1. ReleaseInto(ir_ring).queued > 0 /\ ReleaseInto(ir_ring) \in RingType(IrEvent \cup {NoIrEvent})
      BY <1>2, ReleaseIntoOK
    <3>2. ReleaseInto(ir_ring).queued \in Nat
      BY <3>1, RingAssumption DEF RingType
    <3> QED BY <3>1, <3>2
  <2> QED BY <1>2, <2>1, <2>4, <2>5, <2>6
<1>3. CASE ~ir_pressed
  <2>1. ReleaseInto(ir_ring) = ir_ring
    BY <1>3 DEF ReleaseInto
  <2>2. IrLost(Overflow(0)) = ir_missed
    BY <1>1, LostByPushes
  <2>3. ir_ring.queued = 0 => ir_last.kind \in {"UP", "NONE"}
    BY <1>3 DEF DrainedReaderAgrees, IrAgrees
  <2> QED BY <1>1, <1>3, <2>1, <2>2, <2>3 DEF LossTold
<1> QED BY <1>2, <1>3

\* The handler: a repeat, or the release of another key and the new key.
LEMMA FrameTold == ASSUME IInv, LossTold, IsrFrame, UNCHANGED <<ir_last, ir_seen_dropped>> PROVE LossTold'
<1> USE Parts
<1>1. /\ ir_ring \in RingType(IrEvent \cup {NoIrEvent}) /\ RingOK(ir_ring)
      /\ ir_missed \in 0 .. COUNTER /\ ir_seen_dropped \in 0 .. COUNTER - 1
  BY DEF TypeOK
<1>2. rx \in Words
  BY DEF IsrFrame
<1>3. CASE IsRepeat
  <2> DEFINE e == [raw |-> rx, kind |-> "REPEAT"]
  <2>1. ir_ring' = Push(ir_ring, e) /\ ir_missed' = IrLost(Overflow(1))
    BY <1>3 DEF IsrFrame, irrx_push
  <2>2. e \in IrEvent \cup {NoIrEvent} /\ e.kind = "REPEAT" /\ e.raw = rx
    BY <1>2 DEF IrEvent, IrKinds
  <2>3. ir_ring.queued = 0 => IrFollows(ir_last, e)
    BY <1>3, <2>2 DEF DrainedReaderAgrees, IrAgrees, IrFollows, IsRepeat
  <2> HIDE DEF e
  <2>4. IrLost(Overflow(1)) = OneMore(ir_missed, IsFull(ir_ring))
    BY <1>1, <2>2, LostByPushes
  <2>5. Told(Push(ir_ring, e), OneMore(ir_missed, IsFull(ir_ring)))
    BY <1>1, <2>2, <2>3, PushTold DEF LossTold
  <2>6. Told(ir_ring', ir_missed')
    BY <2>1, <2>4, <2>5
  <2> QED BY <2>6 DEF LossTold, Told
<1>4. CASE ~IsRepeat
  <2> DEFINE e == [raw |-> rx, kind |-> "DOWN"]
             q == ReleaseInto(ir_ring)
             m == IrLost(Overflow(IF ir_pressed THEN 1 ELSE 0))
  <2>1. ir_ring' = Push(q, e) /\ ir_missed' = IrLost(Overflow(IF ir_pressed THEN 2 ELSE 1))
    BY <1>4 DEF IsrFrame, irrx_push
  <2>2. e \in IrEvent \cup {NoIrEvent} /\ e.kind = "DOWN" /\ e.raw = rx
    BY <1>2 DEF IrEvent, IrKinds
  <2>3. q \in RingType(IrEvent \cup {NoIrEvent}) /\ RingOK(q)
    BY ReleaseIntoOK
  <2>4. /\ Told(q, m) /\ m \in 0 .. COUNTER
        /\ ~ir_pressed => m = ir_missed
        /\ ir_pressed => m = OneMore(ir_missed, IsFull(ir_ring))
        /\ q.queued = 0 => ir_last.kind \in {"UP", "NONE"}
    BY ReleaseTold
  <2>5. IrLost(Overflow(IF ir_pressed THEN 2 ELSE 1)) = OneMore(m, IsFull(q))
    <3>1. CASE ir_pressed
      <4> DEFINE up == [raw |-> raw, kind |-> "UP"]
      <4>1. q = Push(ir_ring, up) /\ up \in IrEvent \cup {NoIrEvent}
        BY <3>1 DEF ReleaseInto, irrx_push, HeldKey, IrEvent, IrKinds
      <4> HIDE DEF up, q
      <4>2. IrLost(Overflow(2)) = OneMore(OneMore(ir_missed, IsFull(ir_ring)), IsFull(q))
        BY <1>1, <4>1, LostByPushes
      <4> QED BY <2>4, <3>1, <4>2
    <3>2. CASE ~ir_pressed
      <4>1. q = ir_ring
        BY <3>2 DEF ReleaseInto
      <4>2. IrLost(Overflow(1)) = OneMore(ir_missed, IsFull(ir_ring))
        BY <1>1, <2>2, LostByPushes
      <4> QED BY <2>4, <3>2, <4>1, <4>2
    <3> QED BY <3>1, <3>2
  <2> HIDE DEF e, q, m
  <2>6. q.queued = 0 => IrFollows(ir_last, e)
    BY <2>2, <2>4 DEF IrFollows
  <2>7. Told(Push(q, e), OneMore(m, IsFull(q)))
    BY <1>1, <2>2, <2>3, <2>4, <2>6, PushTold
  <2>8. Told(ir_ring', ir_missed')
    BY <2>1, <2>5, <2>7
  <2> QED BY <2>8 DEF LossTold, Told
<1> QED BY <1>3, <1>4

LEMMA LossStep == ASSUME IInv, LossTold, [Next]_vars PROVE LossTold'
<1> USE Parts
<1>1. ASSUME ir_ring' = ReleaseInto(ir_ring), UNCHANGED <<ir_last, ir_seen_dropped>>,
             ir_missed' = IrLost(Overflow(IF ir_pressed THEN 1 ELSE 0))
      PROVE  LossTold'
  <2>1. Told(ir_ring', ir_missed')
    BY <1>1, ReleaseTold
  <2> QED BY <1>1, <2>1 DEF LossTold, Told
<1>2. CASE UNCHANGED <<ir_ring, ir_missed, ir_last, ir_seen_dropped>>
  BY <1>2 DEF LossTold, Told
<1>3. CASE ab32_irrx_poll
  <2>1. CASE ReleaseTimedOut
    BY <1>1, <1>3, <2>1 DEF ab32_irrx_poll, irrx_release, ReleaseTimedOut
  <2>2. CASE ~ReleaseTimedOut
    BY <1>2, <1>3, <2>2 DEF ab32_irrx_poll
  <2> QED BY <2>1, <2>2
<1>4. CASE irrx_isr
  <2>1. CASE IsrFrame
    BY <1>4, <2>1, FrameTold DEF irrx_isr
  <2>2. CASE IsrNoise
    BY <1>1, <1>4, <2>2 DEF irrx_isr, IsrNoise
  <2>3. CASE IsrRelease
    BY <1>2, <1>4, <2>3 DEF irrx_isr, IsrRelease
  <2> QED BY <1>4, <2>1, <2>2, <2>3 DEF irrx_isr
<1>5. CASE Start
  <2>1. ir_missed' = 0 /\ ir_seen_dropped' = 0 /\ ir_ring'.queued = 0 /\ ir_ring'.dropped = 0
    BY <1>5, ClearOK DEF Start, Clear
  <2>2. Ahead(0, 0) = 0
    BY RingAssumption DEF Ahead
  <2> QED BY <2>1, <2>2 DEF LossTold, Told
<1>6. CASE Stop
  BY <1>1, <1>6 DEF Stop, irrx_release
<1>7. CASE irrx_pop
  <2>1. /\ ir_ring.queued # 0 /\ ir_ring' = Pop(ir_ring) /\ ir_last' = Front(ir_ring)
        /\ ir_seen_dropped' = ir_ring.dropped /\ ir_missed' = 0
    BY <1>7 DEF irrx_pop
  <2>2. ir_ring'.dropped = ir_ring.dropped /\ ir_ring.dropped \in 0 .. COUNTER - 1
    BY <2>1 DEF Pop, RingType
  <2>3. Ahead(ir_ring.dropped, 0) = ir_ring.dropped
    BY <2>2, RingAssumption DEF Ahead
  <2>4. ir_ring'.queued > 0 => IrFollows(ir_last', Front(ir_ring'))
    <3> SUFFICES ASSUME ir_ring'.queued > 0 PROVE IrFollows(ir_last', Front(ir_ring'))
      OBVIOUS
    <3>1. ir_ring' \in RingType(IrEvent \cup {NoIrEvent}) /\ RingOK(ir_ring')
      BY <2>1, PopOK
    <3>2. /\ Front(ir_ring) = Contents(ir_ring)[1] /\ ir_ring'.queued = ir_ring.queued - 1
          /\ \A i \in 1 .. ir_ring'.queued : Contents(ir_ring')[i] = Contents(ir_ring)[i + 1]
      BY <2>1, PopContents
    <3>3. ir_ring.queued \in Nat /\ 1 \in 1 .. ir_ring.queued - 1 /\ 1 \in 1 .. ir_ring'.queued
          /\ ir_ring'.queued # 0
      BY <3>2
    <3>4. Front(ir_ring') = Contents(ir_ring')[1]
      BY <3>1, <3>3, PopContents
    <3>5. Front(ir_ring') = Contents(ir_ring)[1 + 1]
      BY <3>2, <3>3, <3>4
    <3> QED BY <2>1, <3>2, <3>3, <3>5 DEF Linked
  <2> QED BY <2>1, <2>2, <2>3, <2>4 DEF LossTold, Told
<1>8. CASE \/ \E w \in Words \cup Noise : HwFrame(w)
           \/ HwRelease \/ IrTick
           \/ \E c \in PinConfigs : OtherOwner(c)
           \/ UNCHANGED vars
  BY <1>2, <1>8 DEF HwFrame, HwRelease, IrTick, OtherOwner, driver, ir_reader, vars
<1> QED BY <1>3, <1>4, <1>5, <1>6, <1>7, <1>8 DEF Next

LEMMA LossStart == ASSUME Init PROVE LossTold
<1>1. ir_ring.queued = 0 /\ ir_ring.dropped = 0 /\ ir_seen_dropped = 0 /\ ir_missed = 0
  BY DEF Init, EmptyRing
<1>2. Ahead(0, 0) = 0
  BY RingAssumption DEF Ahead
<1> QED BY <1>1, <1>2 DEF LossTold, Told

LEMMA TellingIsVisible == ASSUME TypeOK, LossTold PROVE LossIsVisible
<1>1. COUNTER \in Nat /\ QSIZE \in Nat
  BY RingAssumption
<1>2. ir_missed \in 0 .. COUNTER /\ ir_seen_dropped \in 0 .. COUNTER - 1 /\ ir_ring.queued \in 0 .. QSIZE
  BY DEF TypeOK, RingType
<1>3. CASE ir_missed = 0
  BY <1>1, <1>2, <1>3 DEF LossTold, Told, LossIsVisible
<1>4. CASE ir_missed # 0 /\ ir_missed # COUNTER
  <2>1. ir_ring.dropped = Ahead(ir_seen_dropped, ir_missed)
    BY <1>1, <1>2, <1>4 DEF LossTold, Told
  <2>2. Ahead(ir_seen_dropped, ir_missed) # ir_seen_dropped
    BY <1>1, <1>2, <1>4, AheadMoves
  <2> QED BY <2>1, <2>2 DEF LossIsVisible
<1> QED BY <1>3, <1>4 DEF LossIsVisible

\* The reader that finds status.dropped as it was when it got its last event has
\* missed none (drv_irrx.c:52-71, "expose loss explicitly in status"), for every
\* size of the queue, unless the counter has gone all the way round.
THEOREM LossIsShown == Spec => []LossIsVisible
<1>1. IInv => TypeOK
  BY DEF IInv
<1> QED BY <1>1, LossStart, LossStep, TellingIsVisible, Invariant, PTL DEF Spec

-----------------------------------------------------------------------------
(* The radio application.                                                  *)

\* Where main is says what it has found out: on from the check of the LED to the
\* end of the poll, off on the way to a start, and no session that the shell
\* could have started meanwhile, because the shell does not run inside a poll.
PlacesKnown ==
    /\ radio_pc \in {"open", "stop", "sync", "input", "apply"} => on
    /\ radio_pc \in {"status", "volume", "start"} => ~on
    /\ radio_pc \in {"volume", "start"} => ~fm_running

RadioInv == PlacesKnown /\ OffIsOff /\ on \in BOOLEAN

\* What the operations of fm0 do to the fact the application relies on.
LEMMA Operations ==
    /\ \A f : Fm!Start(f) \/ Fm!Tune(f) => fm_running' = TRUE
    /\ \A v : Fm!SetVolume(v) => fm_running' = fm_running
    /\ \A e : Fm!Refuse(e) => fm_running' = fm_running
    /\ Fm!LoseStation \/ Fm!Interrupt => fm_running' = FALSE
    /\ Fm!Stop => fm_running' = FALSE \/ (fm_running' = fm_running /\ ~fm_running)
    /\ Fm!Claim => fm_running' = fm_running
    /\ \A f : Fm!Tune(f) => fm_running
BY DEF Fm!Start, Fm!Tune, Fm!Play, Fm!SetVolume, Fm!Refuse, Fm!LoseStation, Fm!Interrupt,
       Fm!Stop, Fm!Silence, Fm!Claim

LEMMA MainKeeps == ASSUME RadioInv, Main PROVE RadioInv'
<1> USE DEF RadioInv, PlacesKnown, OffIsOff, Goto
<1>1. CASE Poll
  <2>1. UNCHANGED <<fm_running, session, on, ir_opened, held, pending, led_active>>
        /\ radio_pc' \in {"status", "led"} /\ (radio_pc' = "status" => ~on)
    BY <1>1 DEF Poll, UnchangedFm, fm, input, led
  <2> QED BY <2>1
<1>2. CASE StartStatus
  <2>1. /\ UNCHANGED <<fm_running, session, on, ir_opened, held, pending, led_active>>
        /\ radio_pc = "status" /\ radio_pc' \in {"volume", "led"} /\ (radio_pc' = "volume" => ~fm_running)
    BY <1>2 DEF StartStatus, Try, Eagain, fm, input, led
  <2> QED BY <2>1
<1>3. CASE StartVolume
  <2>1. UNCHANGED <<session, on, ir_opened, held, pending, led_active>> /\ radio_pc = "volume"
        /\ radio_pc' \in {"start", "led"}
    BY <1>3 DEF StartVolume, Try, Eagain, UnchangedSession, fm, input, led, state
  <2>2. fm_running' = fm_running
    BY <1>3, Operations DEF StartVolume, Try, Eagain, fm
  <2> QED BY <2>1, <2>2
<1>4. CASE StartFm
  <2>1. UNCHANGED <<ir_opened, held, pending, led_active>> /\ radio_pc = "start"
    BY <1>4 DEF StartFm, input, led
  <2>2. CASE on' = TRUE /\ radio_pc' = "open"
    BY <2>1, <2>2
  <2>3. CASE radio_pc' = "led" /\ UNCHANGED <<on, session>> /\ fm_running' = fm_running
    <3>1. UNCHANGED <<fm_running, session, on, ir_opened, held, pending, led_active>>
      BY <2>1, <2>3
    <3> QED BY <2>3, <3>1
  <2> QED BY <1>4, <2>2, <2>3, Operations DEF StartFm, Try, Eagain, UnchangedSession, fm, state
<1>5. CASE StartInput
  <2>1. UNCHANGED <<fm_running, session, on>> /\ radio_pc = "open" /\ radio_pc' = "led"
    BY <1>5 DEF StartInput, UnchangedFm, fm
  <2> QED BY <2>1
<1>6. CASE CheckLed
  <2>1. UNCHANGED <<fm_running, session, on, ir_opened, held, pending, led_active>>
        /\ radio_pc' \in {"led_poll", "sync", "stop"} /\ (radio_pc' # "led_poll" => on)
    BY <1>6 DEF CheckLed, UnchangedFm, fm, input, led
  <2> QED BY <2>1
<1>7. CASE StopFm
  <2>1. radio_pc' = "led_poll"
    BY <1>7 DEF StopFm
  <2>2. CASE session' = "none" /\ Silenced
    BY <2>1, <2>2 DEF Silenced, InputStopped
  <2>3. CASE Eagain /\ UNCHANGED <<on, input, led>>
    <3>1. UNCHANGED <<fm_running, session, on, ir_opened, held, pending, led_active>>
      BY <2>3 DEF Eagain, fm, input, led
    <3> QED BY <2>1, <3>1
  <2> QED BY <1>7, <2>2, <2>3 DEF StopFm
<1>8. CASE SyncStatus
  <2>1. UNCHANGED <<fm_running, session>> /\ radio_pc = "sync"
    BY <1>8 DEF SyncStatus, Try, Eagain, fm
  <2>2. \/ /\ on' = FALSE /\ led_active' = FALSE /\ ir_opened' = FALSE /\ held' = FALSE
           /\ pending' = None /\ ~fm_running /\ radio_pc' = "led_poll"
        \/ UNCHANGED <<on, ir_opened, held, pending, led_active>> /\ radio_pc' = "input"
    BY <1>8 DEF SyncStatus, Try, Silenced, InputStopped, input, led, state
  <2> QED BY <2>1, <2>2
<1>9. CASE SkipSync
  <2>1. UNCHANGED <<fm_running, session, on, ir_opened, held, pending, led_active>>
        /\ radio_pc = "sync" /\ radio_pc' = "input"
    BY <1>9 DEF SkipSync, UnchangedFm, fm, input, led, state
  <2> QED BY <2>1
<1>10. CASE ReadInput
  <2>1. UNCHANGED <<fm_running, session, on>> /\ radio_pc = "input" /\ radio_pc' = "apply"
    BY <1>10 DEF ReadInput, UnchangedFm, fm, state
  <2> QED BY <2>1
<1>11. CASE ApplyCommand
  <2>1. on' = on /\ radio_pc = "apply" /\ radio_pc' = "led_poll"
    BY <1>11 DEF ApplyCommand
  <2> QED BY <2>1
<1>12. CASE board_led_poll
  <2>1. UNCHANGED <<fm_running, session, on, ir_opened, held, pending>> /\ radio_pc' = "idle"
        /\ (led_active' = led_active \/ led_active' = FALSE)
    BY <1>12 DEF board_led_poll, UnchangedFm, fm, state, input, led
  <2> QED BY <2>1
<1> QED BY <1>1, <1>2, <1>3, <1>4, <1>5, <1>6, <1>7, <1>8, <1>9, <1>10, <1>11, <1>12 DEF Main

LEMMA OthersKeep == ASSUME RadioInv, radio \/ OtherBegins \/ OtherEnds PROVE RadioInv'
<1> USE DEF RadioInv, PlacesKnown, OffIsOff
<1>1. UNCHANGED <<on, ir_opened, held, pending, led_active, radio_pc>>
  BY DEF radio, OtherBegins, OtherEnds, state, input, led
<1>2. CASE radio \/ OtherBegins
  <2>1. UNCHANGED <<fm_running, session>>
    BY <1>2 DEF radio, OtherBegins, UnchangedFm, fm
  <2> QED BY <1>1, <2>1
<1>3. CASE OtherEnds /\ ShellEnds
  <2>1. radio_pc = "idle"
    BY <1>3 DEF ShellEnds
  <2>2. UNCHANGED <<fm_running, session>> \/ session' \in {"shell", "none"}
        \/ (fm_running' = TRUE /\ session' = session /\ fm_running)
    BY <1>3, Operations DEF ShellEnds, UnchangedSession, fm
  <2> QED BY <1>1, <2>1, <2>2
<1>4. CASE OtherEnds /\ BluetoothEnds
  <2>1. UNCHANGED <<fm_running, session>> \/ (session' = "none" /\ (fm_running' => fm_running))
    BY <1>4, Operations DEF BluetoothEnds, UnchangedSession
  <2> QED BY <1>1, <2>1
<1> QED BY <1>2, <1>3, <1>4 DEF OtherEnds

LEMMA RadioInduction == RadioInv /\ [RadioNext]_radiovars => RadioInv'
<1>1. ASSUME RadioInv, UNCHANGED radiovars PROVE RadioInv'
  BY <1>1 DEF radiovars, fm, state, input, led, RadioInv, PlacesKnown, OffIsOff
<1> QED BY <1>1, MainKeeps, OthersKeep DEF RadioNext

LEMMA RadioStart == RadioInit => RadioInv
BY DEF RadioInit, Fm!Init, RadioInv, PlacesKnown, OffIsOff

\* A radio that is off has no session of its own that plays on, no open
\* receiver, no kept command and no light (app_radio.c:49-59, 183-225), whoever
\* else used fm0 between the calls of a poll.
THEOREM OffStaysOff == RadioSpec => []OffIsOff
<1>1. RadioInv => OffIsOff
  BY DEF RadioInv
<1> QED BY <1>1, RadioStart, RadioInduction, PTL DEF RadioSpec

\* A radio that is off leaves a session of the diagnostic shell alone
\* (app_radio.c:61-74): between its look at fm0 and its start only threads run
\* that can stop fm0.
THEOREM NeverTakesOver == RadioSpec => NoTakeOver
<1> DEFINE Kept == Main /\ ~on /\ fm_running => UNCHANGED fm
<1>1. RadioInv /\ [RadioNext]_radiovars => [Kept]_radiovars
  <2> SUFFICES ASSUME RadioInv, Main, ~on, fm_running PROVE UNCHANGED fm
    OBVIOUS
  <2>1. radio_pc \notin {"open", "stop", "sync", "input", "apply", "volume", "start"}
    BY DEF RadioInv, PlacesKnown
  <2>2. CASE StartStatus
    BY <2>2 DEF StartStatus, Try, Eagain
  <2>3. CASE Poll \/ CheckLed \/ board_led_poll
    BY <2>3 DEF Poll, CheckLed, board_led_poll, UnchangedFm
  <2> QED BY <2>1, <2>2, <2>3 DEF Main, StartVolume, StartFm, StartInput, StopFm, SyncStatus,
             SkipSync, ReadInput, ApplyCommand
<1> QED BY <1>1, RadioStart, RadioInduction, PTL DEF RadioSpec, NoTakeOver
=============================================================================
