--------------------------- MODULE EventRingProofs ---------------------------
(***************************************************************************)
(* What a push, a pop and a clear do to the event ring and its contents,   *)
(* for every capacity: the facts that the proofs about the infrared        *)
(* receiver and the board keys share.                                      *)
(***************************************************************************)
EXTENDS EventRing, TLAPS

-----------------------------------------------------------------------------
(* The event ring, for every capacity: a push and a pop keep the indices   *)
(* in range and consistent, and act on the contents as a queue that gives  *)
(* up its oldest element when it is full.                                  *)

\* Wrapping an index that is at most one lap ahead.
LEMMA WrapOneLap ==
    \A n \in 0 .. 2 * QSIZE - 1 :
        Wrap(n) = IF n < QSIZE THEN n ELSE n - QSIZE
<1>1. QSIZE \in Nat /\ QSIZE > 0
  BY RingAssumption
<1>. SUFFICES ASSUME NEW n \in 0 .. 2 * QSIZE - 1
              PROVE  Wrap(n) = IF n < QSIZE THEN n ELSE n - QSIZE
  OBVIOUS
<1>2. n \in Int /\ 0 <= n /\ n < 2 * QSIZE
  BY <1>1
<1>. QED
  BY <1>1, <1>2, SMT DEF Wrap

\* The loss counter stays in range when it wraps.
LEMMA CountWraps ==
    \A d \in 0 .. COUNTER - 1 : Count(d) \in 0 .. COUNTER - 1
<1>1. COUNTER \in Nat /\ COUNTER > 0
  BY RingAssumption
<1>. QED
  BY <1>1, SMT DEF Count

\* The index arithmetic behind a push and a pop, on plain numbers.
LEMMA IndexSteps ==
    ASSUME NEW h \in Slots, NEW t \in Slots, NEW q \in 0 .. QSIZE, h = Wrap(t + q)
    PROVE  /\ Wrap(h + 1) \in Slots /\ Wrap(t + 1) \in Slots
           /\ q < QSIZE => Wrap(h + 1) = Wrap(t + (q + 1))
           /\ Wrap(h + 1) = Wrap(Wrap(t + 1) + q)
           /\ q > 0 => h = Wrap(Wrap(t + 1) + (q - 1))
<1>1. QSIZE \in Nat /\ QSIZE > 0
  BY RingAssumption
<1>2. /\ h \in Int /\ 0 <= h /\ h < QSIZE
      /\ t \in Int /\ 0 <= t /\ t < QSIZE
      /\ q \in Int /\ 0 <= q /\ q <= QSIZE
  BY <1>1 DEF Slots
<1>3. Wrap(h + 1) = IF h + 1 < QSIZE THEN h + 1 ELSE h + 1 - QSIZE
  BY <1>1, <1>2, WrapOneLap
<1>4. Wrap(t + 1) = IF t + 1 < QSIZE THEN t + 1 ELSE t + 1 - QSIZE
  BY <1>1, <1>2, WrapOneLap
<1>5. h = IF t + q < QSIZE THEN t + q ELSE t + q - QSIZE
  BY <1>1, <1>2, WrapOneLap
<1>6. q < QSIZE => Wrap(t + (q + 1)) =
        IF t + (q + 1) < QSIZE THEN t + (q + 1) ELSE t + (q + 1) - QSIZE
  BY <1>1, <1>2, WrapOneLap
<1>7. \A k \in 0 .. QSIZE : Wrap(Wrap(t + 1) + k) =
        IF Wrap(t + 1) + k < QSIZE THEN Wrap(t + 1) + k ELSE Wrap(t + 1) + k - QSIZE
  BY <1>1, <1>2, <1>4, WrapOneLap
<1>8. Wrap(h + 1) \in Slots /\ Wrap(t + 1) \in Slots
  BY <1>1, <1>2, <1>3, <1>4 DEF Slots
<1>9. q < QSIZE => Wrap(h + 1) = Wrap(t + (q + 1))
  BY <1>1, <1>2, <1>3, <1>5, <1>6
<1>10. Wrap(h + 1) = Wrap(Wrap(t + 1) + q)
  BY <1>1, <1>2, <1>3, <1>4, <1>5, <1>7
<1>11. q > 0 => h = Wrap(Wrap(t + 1) + (q - 1))
  BY <1>1, <1>2, <1>4, <1>5, <1>7
<1>. QED
  BY <1>8, <1>9, <1>10, <1>11

\* irrx_push and key_push keep the ring well typed and consistent.
LEMMA PushOK ==
    ASSUME NEW E, NEW r \in RingType(E), NEW e \in E, RingOK(r)
    PROVE  Push(r, e) \in RingType(E) /\ RingOK(Push(r, e))
<1>1. QSIZE \in Nat /\ QSIZE > 0
  BY RingAssumption
<1>2. /\ r.head \in Slots /\ r.tail \in Slots
      /\ r.queued \in 0 .. QSIZE /\ r.dropped \in 0 .. COUNTER - 1
      /\ r.events \in [Slots -> E]
  BY DEF RingType
<1>3. /\ Wrap(r.head + 1) \in Slots /\ Wrap(r.tail + 1) \in Slots
      /\ r.queued < QSIZE => Wrap(r.head + 1) = Wrap(r.tail + (r.queued + 1))
      /\ Wrap(r.head + 1) = Wrap(Wrap(r.tail + 1) + r.queued)
  BY <1>2, IndexSteps DEF RingOK
<1>4. Count(r.dropped) \in 0 .. COUNTER - 1
  BY <1>2, CountWraps
<1>5. [r.events EXCEPT ![r.head] = e] \in [Slots -> E]
  BY <1>2
<1>6. CASE IsFull(r)
  <2>1. Push(r, e) = [events |-> [r.events EXCEPT ![r.head] = e],
                      head |-> Wrap(r.head + 1), tail |-> Wrap(r.tail + 1),
                      queued |-> r.queued, dropped |-> Count(r.dropped)]
    BY <1>6 DEF Push
  <2>. QED
    BY <2>1, <1>2, <1>3, <1>4, <1>5 DEF RingType, RingOK
<1>7. CASE ~IsFull(r)
  <2>1. Push(r, e) = [events |-> [r.events EXCEPT ![r.head] = e],
                      head |-> Wrap(r.head + 1), tail |-> r.tail,
                      queued |-> r.queued + 1, dropped |-> r.dropped]
    BY <1>7 DEF Push
  <2>2. r.queued < QSIZE /\ r.queued + 1 \in 0 .. QSIZE
    BY <1>1, <1>2, <1>7 DEF IsFull
  <2>. QED
    BY <2>1, <2>2, <1>2, <1>3, <1>4, <1>5 DEF RingType, RingOK
<1>. QED
  BY <1>6, <1>7

\* irrx_pop and the loop in keys_read do, too.
LEMMA PopOK ==
    ASSUME NEW E, NEW r \in RingType(E), RingOK(r), r.queued # 0
    PROVE  Pop(r) \in RingType(E) /\ RingOK(Pop(r))
<1>1. QSIZE \in Nat /\ QSIZE > 0
  BY RingAssumption
<1>2. /\ r.head \in Slots /\ r.tail \in Slots
      /\ r.queued \in 0 .. QSIZE /\ r.dropped \in 0 .. COUNTER - 1
      /\ r.events \in [Slots -> E]
  BY DEF RingType
<1>3. r.queued > 0 /\ r.queued - 1 \in 0 .. QSIZE
  BY <1>1, <1>2
<1>4. /\ Wrap(r.tail + 1) \in Slots
      /\ r.head = Wrap(Wrap(r.tail + 1) + (r.queued - 1))
  BY <1>2, <1>3, IndexSteps DEF RingOK
<1>. QED
  BY <1>2, <1>3, <1>4 DEF Pop, RingType, RingOK

\* A cleared ring is consistent, whatever its array still holds.
LEMMA ClearOK ==
    ASSUME NEW E, NEW r \in RingType(E)
    PROVE  Clear(r) \in RingType(E) /\ RingOK(Clear(r)) /\ Clear(r).queued = 0
<1>1. QSIZE \in Nat /\ QSIZE > 0 /\ COUNTER \in Nat /\ COUNTER > 0
  BY RingAssumption
<1>2. 0 \in Slots /\ 0 \in 0 .. QSIZE /\ 0 \in 0 .. COUNTER - 1 /\ 0 + 0 = 0
  BY <1>1 DEF Slots
<1>3. r.events \in [Slots -> E]
  BY DEF RingType
<1>4. Wrap(0) = 0
  BY <1>1, WrapOneLap
<1>. QED
  BY <1>2, <1>3, <1>4 DEF RingOK, Clear, RingType

\* Which slots the readable events lie in, and that the slot written next
\* is none of those that stay readable.
LEMMA SlotFacts ==
    ASSUME NEW h \in Slots, NEW t \in Slots, NEW q \in 0 .. QSIZE, h = Wrap(t + q)
    PROVE  /\ \A i \in 1 .. QSIZE : Wrap(t + i - 1) \in Slots
           /\ \A i \in 1 .. QSIZE : Wrap(Wrap(t + 1) + i - 1) = Wrap(t + (i + 1) - 1)
           /\ q < QSIZE => \A i \in 1 .. q : Wrap(t + i - 1) # h
           /\ Wrap(t + (q + 1) - 1) = h
           /\ q = QSIZE => \A i \in 1 .. QSIZE - 1 : Wrap(t + (i + 1) - 1) # h
<1>1. QSIZE \in Nat /\ QSIZE > 0
  BY RingAssumption
<1>2. /\ h \in Int /\ 0 <= h /\ h < QSIZE
      /\ t \in Int /\ 0 <= t /\ t < QSIZE
      /\ q \in Int /\ 0 <= q /\ q <= QSIZE
  BY <1>1 DEF Slots
<1>3. \A k \in 0 .. QSIZE : Wrap(t + k) = IF t + k < QSIZE THEN t + k ELSE t + k - QSIZE
  <2>. SUFFICES ASSUME NEW k \in 0 .. QSIZE
                PROVE  Wrap(t + k) = IF t + k < QSIZE THEN t + k ELSE t + k - QSIZE
    OBVIOUS
  <2>1. t + k \in 0 .. 2 * QSIZE - 1
    BY <1>1, <1>2
  <2>. QED
    BY <2>1, <1>1, <1>2, WrapOneLap
<1>4. h = IF t + q < QSIZE THEN t + q ELSE t + q - QSIZE
  BY <1>2, <1>3
<1>5. ASSUME NEW i \in 1 .. QSIZE
      PROVE  /\ t + i - 1 = t + (i - 1) /\ i - 1 \in 0 .. QSIZE
             /\ t + (i + 1) - 1 = t + i /\ i \in 0 .. QSIZE
  BY <1>1, <1>2
<1>6. \A i \in 1 .. QSIZE : Wrap(t + i - 1) =
        IF t + (i - 1) < QSIZE THEN t + (i - 1) ELSE t + (i - 1) - QSIZE
  BY <1>3, <1>5
<1>7. \A i \in 1 .. QSIZE : Wrap(t + (i + 1) - 1) =
        IF t + i < QSIZE THEN t + i ELSE t + i - QSIZE
  BY <1>3, <1>5
<1>8. ASSUME NEW i \in 1 .. QSIZE
      PROVE  Wrap(Wrap(t + 1) + i - 1) = IF t + i < QSIZE THEN t + i ELSE t + i - QSIZE
  <2>1. Wrap(t + 1) = IF t + 1 < QSIZE THEN t + 1 ELSE t + 1 - QSIZE
    BY <1>1, <1>3
  <2>2. Wrap(t + 1) + i - 1 \in 0 .. 2 * QSIZE - 1
    BY <2>1, <1>1, <1>2
  <2>3. Wrap(Wrap(t + 1) + i - 1) =
          IF Wrap(t + 1) + i - 1 < QSIZE THEN Wrap(t + 1) + i - 1
                                         ELSE Wrap(t + 1) + i - 1 - QSIZE
    BY <2>1, <2>2, <1>1, <1>2, WrapOneLap
  <2>. QED
    BY <2>1, <2>3, <1>1, <1>2
<1>9. ASSUME NEW i \in 1 .. QSIZE
      PROVE  Wrap(t + i - 1) \in Slots
  <2>1. Wrap(t + i - 1) = IF t + (i - 1) < QSIZE THEN t + (i - 1) ELSE t + (i - 1) - QSIZE
    BY <1>6
  <2>. QED
    BY <2>1, <1>1, <1>2 DEF Slots
<1>10. \A i \in 1 .. QSIZE : Wrap(Wrap(t + 1) + i - 1) = Wrap(t + (i + 1) - 1)
  BY <1>7, <1>8
<1>11. ASSUME q < QSIZE, NEW i \in 1 .. q
       PROVE  Wrap(t + i - 1) # h
  <2>1. i \in 1 .. QSIZE
    BY <1>1, <1>2
  <2>2. Wrap(t + i - 1) = IF t + (i - 1) < QSIZE THEN t + (i - 1) ELSE t + (i - 1) - QSIZE
    BY <2>1, <1>6
  <2>. QED
    BY <2>1, <2>2, <1>1, <1>2, <1>4, <1>11
<1>12. Wrap(t + (q + 1) - 1) = h
  BY <1>2, t + (q + 1) - 1 = t + q
<1>13. q = QSIZE => \A i \in 1 .. QSIZE - 1 : Wrap(t + (i + 1) - 1) # h
  BY <1>1, <1>2, <1>4, <1>7
<1>. QED
  BY <1>9, <1>10, <1>11, <1>12, <1>13

\* A push appends; on a full ring it first gives up the oldest event.
LEMMA PushContents ==
    ASSUME NEW E, NEW r \in RingType(E), NEW e \in E, RingOK(r)
    PROVE  /\ Push(r, e).queued = IF IsFull(r) THEN r.queued ELSE r.queued + 1
           /\ Contents(Push(r, e))[Push(r, e).queued] = e
           /\ \A i \in 1 .. Push(r, e).queued - 1 :
                 Contents(Push(r, e))[i] =
                    IF IsFull(r) THEN Contents(r)[i + 1] ELSE Contents(r)[i]
<1>1. QSIZE \in Nat /\ QSIZE > 0
  BY RingAssumption
<1>2. /\ r.head \in Slots /\ r.tail \in Slots /\ r.queued \in 0 .. QSIZE
      /\ r.events \in [Slots -> E]
  BY DEF RingType
<1>3. r.head = Wrap(r.tail + r.queued)
  BY DEF RingOK
<1>4. /\ \A i \in 1 .. QSIZE : Wrap(r.tail + i - 1) \in Slots
      /\ \A i \in 1 .. QSIZE : Wrap(Wrap(r.tail + 1) + i - 1) = Wrap(r.tail + (i + 1) - 1)
      /\ r.queued < QSIZE => \A i \in 1 .. r.queued : Wrap(r.tail + i - 1) # r.head
      /\ Wrap(r.tail + (r.queued + 1) - 1) = r.head
      /\ r.queued = QSIZE => \A i \in 1 .. QSIZE - 1 : Wrap(r.tail + (i + 1) - 1) # r.head
  BY <1>2, <1>3, SlotFacts
<1>. DEFINE ev == [r.events EXCEPT ![r.head] = e]
<1>5. /\ ev[r.head] = e
      /\ \A s \in Slots : s # r.head => ev[s] = r.events[s]
  BY <1>2
<1>6. CASE IsFull(r)
  <2>1. /\ Push(r, e).events = ev /\ Push(r, e).tail = Wrap(r.tail + 1)
        /\ Push(r, e).queued = QSIZE /\ r.queued = QSIZE
    BY <1>6 DEF Push, IsFull
  <2>2. \A i \in 1 .. QSIZE : Contents(Push(r, e))[i] = ev[Wrap(r.tail + (i + 1) - 1)]
    BY <2>1, <1>4 DEF Contents
  <2>3. Contents(Push(r, e))[QSIZE] = e
    BY <2>1, <2>2, <1>1, <1>4, <1>5
  <2>4. ASSUME NEW i \in 1 .. QSIZE - 1
        PROVE  Contents(Push(r, e))[i] = Contents(r)[i + 1]
    <3>1. i \in 1 .. QSIZE /\ i + 1 \in 1 .. r.queued
      BY <2>1, <1>1
    <3>2. Contents(r)[i + 1] = r.events[Wrap(r.tail + (i + 1) - 1)]
      BY <3>1 DEF Contents
    <3>. QED
      BY <3>1, <3>2, <2>1, <2>2, <1>4, <1>5
  <2>. QED
    BY <2>1, <2>3, <2>4, <1>6
<1>7. CASE ~IsFull(r)
  <2>1. /\ Push(r, e).events = ev /\ Push(r, e).tail = r.tail
        /\ Push(r, e).queued = r.queued + 1 /\ r.queued < QSIZE
    BY <1>1, <1>2, <1>7 DEF Push, IsFull
  <2>2. \A i \in 1 .. r.queued + 1 : Contents(Push(r, e))[i] = ev[Wrap(r.tail + i - 1)]
    BY <2>1 DEF Contents
  <2>3. Contents(Push(r, e))[r.queued + 1] = e
    BY <2>1, <2>2, <1>2, <1>4, <1>5
  <2>4. ASSUME NEW i \in 1 .. Push(r, e).queued - 1
        PROVE  Contents(Push(r, e))[i] = Contents(r)[i]
    <3>1. i \in 1 .. r.queued /\ i \in 1 .. QSIZE /\ i \in 1 .. r.queued + 1
      BY <2>1, <1>1, <1>2
    <3>2. Contents(r)[i] = r.events[Wrap(r.tail + i - 1)]
      BY <3>1 DEF Contents
    <3>. QED
      BY <3>1, <3>2, <2>1, <2>2, <1>4, <1>5
  <2>. QED
    BY <2>1, <2>3, <2>4, <1>7
<1>. QED
  BY <1>6, <1>7

\* A pop hands out the oldest event and leaves the others in order.
LEMMA PopContents ==
    ASSUME NEW E, NEW r \in RingType(E), RingOK(r), r.queued # 0
    PROVE  /\ Front(r) = Contents(r)[1]
           /\ Pop(r).queued = r.queued - 1
           /\ \A i \in 1 .. Pop(r).queued : Contents(Pop(r))[i] = Contents(r)[i + 1]
<1>1. QSIZE \in Nat /\ QSIZE > 0
  BY RingAssumption
<1>2. r.head \in Slots /\ r.tail \in Slots /\ r.queued \in 1 .. QSIZE
  BY <1>1 DEF RingType
<1>3. /\ Pop(r).events = r.events /\ Pop(r).tail = Wrap(r.tail + 1)
      /\ Pop(r).queued = r.queued - 1
  BY DEF Pop
<1>4. Front(r) = Contents(r)[1]
  <2>1. Wrap(r.tail + 1 - 1) = r.tail
    BY <1>1, <1>2, WrapOneLap DEF Slots
  <2>. QED
    BY <2>1, <1>2 DEF Front, Contents
<1>5. ASSUME NEW i \in 1 .. r.queued - 1
      PROVE  Contents(Pop(r))[i] = Contents(r)[i + 1]
  <2>1. i \in 1 .. QSIZE /\ i + 1 \in 1 .. r.queued
    BY <1>1, <1>2
  <2>2. Wrap(Wrap(r.tail + 1) + i - 1) = Wrap(r.tail + (i + 1) - 1)
    BY <2>1, <1>2, SlotFacts DEF RingOK
  <2>. QED
    BY <2>1, <2>2, <1>3 DEF Contents
<1>. QED
  BY <1>3, <1>4, <1>5

-----------------------------------------------------------------------------
(* What the loss counter tells.                                            *)

\* The loss counter m events on from d.
Ahead(d, m) == IF d + m < COUNTER THEN d + m ELSE d + m - COUNTER

\* One more event lost, or not.
OneMore(m, lost) == IF ~lost THEN m ELSE IF m + 1 < COUNTER THEN m + 1 ELSE COUNTER

\* A push counts the event it loses.
LEMMA CountAhead ==
    ASSUME NEW r, NEW e, r.dropped \in 0 .. COUNTER - 1,
           NEW m \in 0 .. COUNTER, NEW s \in 0 .. COUNTER - 1,
           m < COUNTER => r.dropped = Ahead(s, m)
    PROVE  /\ OneMore(m, IsFull(r)) \in 0 .. COUNTER
           /\ OneMore(m, IsFull(r)) < COUNTER
                 => Push(r, e).dropped = Ahead(s, OneMore(m, IsFull(r)))
<1>1. COUNTER \in Nat /\ COUNTER > 0
  BY RingAssumption
<1>2. \A d \in 0 .. COUNTER - 1 : Count(d) = IF d + 1 < COUNTER THEN d + 1 ELSE 0
  BY <1>1, SMT DEF Count
<1>3. CASE IsFull(r)
  <2>1. Push(r, e).dropped = Count(r.dropped)
    BY <1>3 DEF Push
  <2>2. OneMore(m, IsFull(r)) = IF m + 1 < COUNTER THEN m + 1 ELSE COUNTER
    BY <1>3 DEF OneMore
  <2>3. m + 1 < COUNTER => Count(r.dropped) = Ahead(s, m + 1)
    BY <1>1, <1>2 DEF Ahead
  <2> QED BY <1>1, <2>1, <2>2, <2>3
<1>4. CASE ~IsFull(r)
  <2>1. Push(r, e).dropped = r.dropped /\ OneMore(m, IsFull(r)) = m
    BY <1>4 DEF Push, OneMore
  <2> QED BY <2>1
<1> QED BY <1>3, <1>4

\* Between one and COUNTER - 1 losses move the counter away from where it was.
LEMMA AheadMoves ==
    \A s \in 0 .. COUNTER - 1 :
        /\ Ahead(s, 0) = s
        /\ \A m \in 1 .. COUNTER - 1 : Ahead(s, m) # s
BY RingAssumption DEF Ahead
=============================================================================
