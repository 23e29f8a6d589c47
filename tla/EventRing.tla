------------------------------ MODULE EventRing ------------------------------
(***************************************************************************)
(* The event ring that the infrared receiver (drv_irrx.c) and the key      *)
(* scanner (board_keys.c) both keep: a static array with head and tail     *)
(* indices, a fill count and a count of lost events.  A push into a full   *)
(* ring gives up the OLDEST event.  The callers make every operation       *)
(* atomic (interrupts masked, or a mutex held), so the operations are pure *)
(* operators on a ring record.                                             *)
(***************************************************************************)
EXTENDS Integers, Sequences

CONSTANTS
    QSIZE,      \* AB32_IR_QUEUE_SIZE / AB32_KEYS_QUEUE (8 on the board)
    COUNTER     \* the loss counter counts modulo this (2^32 on the board)

ASSUME RingAssumption ==
    /\ QSIZE \in Nat \ {0}
    /\ COUNTER \in Nat \ {0}

Slots == 0 .. QSIZE - 1

\* The index arithmetic of the array, and the counter arithmetic of the status.
Wrap(i) == i % QSIZE
Count(d) == (d + 1) % COUNTER

RingType(E) ==
    [events : [Slots -> E], head : Slots, tail : Slots,
     queued : 0 .. QSIZE, dropped : 0 .. COUNTER - 1]

\* Static storage starts zeroed; e stands for the zeroed record.
EmptyRing(e) ==
    [events |-> [i \in Slots |-> e], head |-> 0, tail |-> 0,
     queued |-> 0, dropped |-> 0]

\* Old records stay in the array: only the indices and the counts are reset.
Clear(r) ==
    [events |-> r.events, head |-> 0, tail |-> 0, queued |-> 0, dropped |-> 0]

IsFull(r) == r.queued = QSIZE

\* Mutant: the loss is not counted.
Push_silent(r, e) ==
    [r EXCEPT !.events[r.head] = e, !.head = Wrap(@ + 1),
              !.tail = IF IsFull(r) THEN Wrap(@ + 1) ELSE @,
              !.queued = IF IsFull(r) THEN @ ELSE @ + 1]

Push(r, e) ==
    [events  |-> [r.events EXCEPT ![r.head] = e],
     head    |-> Wrap(r.head + 1),
     tail    |-> IF IsFull(r) THEN Wrap(r.tail + 1) ELSE r.tail,
     queued  |-> IF IsFull(r) THEN r.queued ELSE r.queued + 1,
     dropped |-> IF IsFull(r) THEN Count(r.dropped) ELSE r.dropped]

Front(r) == r.events[r.tail]

Pop(r) ==
    [events |-> r.events, head |-> r.head, tail |-> Wrap(r.tail + 1),
     queued |-> r.queued - 1, dropped |-> r.dropped]

(***************************************************************************)
(* What a reader will get, oldest event first.                             *)
(***************************************************************************)
Contents(r) ==
    [i \in 1 .. r.queued |-> r.events[Wrap(r.tail + i - 1)]]

\* The two indices and the fill count describe the same interval of slots.
RingOK(r) == r.head = Wrap(r.tail + r.queued)
=============================================================================
