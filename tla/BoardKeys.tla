------------------------------ MODULE BoardKeys ------------------------------
(***************************************************************************)
(* The three debounced board keys (board_keys.c): main() reads the pin     *)
(* levels, takes keys_lock and runs every key through the debounce, one    *)
(* loop iteration per step; readers drain the same event ring between two  *)
(* polls.  The pins bounce as they like, a read may fail, and the tick     *)
(* wraps.                                                                  *)
(*                                                                         *)
(* Left out: read_errors, the masks of the status (raw_mask is the level,  *)
(* pressed_mask is pressed), the times carried in an event, and the bits   *)
(* the poll returns, which name the DOWNs it pushed.                       *)
(***************************************************************************)
EXTENDS EventRing, FiniteSets

CONSTANTS
    KEYS_COUNT,      \* AB32_KEYS_COUNT
    DEBOUNCE_TICKS,  \* 30 ms
    LONG_TICKS,      \* 800 ms
    TICKS,           \* rt_tick_t counts modulo this
    POLL_TICKS       \* a poll ends at most so many ticks after the one before

ASSUME KeysAssumption ==
    /\ KEYS_COUNT \in Nat \ {0}
    /\ DEBOUNCE_TICKS \in Nat \ {0}
    /\ LONG_TICKS \in Nat \ {0}
    /\ POLL_TICKS \in Nat \ {0}
    /\ TICKS \in Nat
    /\ TICKS > DEBOUNCE_TICKS + POLL_TICKS /\ TICKS > LONG_TICKS + POLL_TICKS

Keys == 1 .. KEYS_COUNT
Levels == {"PIN_LOW", "PIN_HIGH", "ERROR"}

VARIABLES
    levels,          \* of the key pins, as board_keys_poll last read them
    scan,            \* 0: no poll; -1: levels read; i: key i's turn, lock held
    now,             \* rt_tick_get() as keys_sample was called
    candidate, changed, pressed, down, long_sent,   \* key_state[]
    ring,            \* queue[], head, tail, status.queued, status.dropped
    tick,            \* rt_tick_get()
    \* History, read by no action of the driver:
    since_poll,      \* ticks since a poll last took the lock
    stable,          \* per key: ticks, up to TICKS, and readings, up to 2,
    readings,        \*   since a sampled level last contradicted another
    last,            \* per key: the last event the reader got
    seen_dropped,    \* status.dropped when it last had the status
    missed           \* events lost since then, up to COUNTER

state   == <<candidate, changed, pressed, down, long_sent>>
reader  == <<last, seen_dropped>>
history == <<stable, readings>>
keyvars == <<levels, scan, now, state, ring, tick, since_poll, history, reader, missed>>

Kinds == {"DOWN", "LONG", "UP"}
Event == [key : Keys, kind : Kinds]
NoEvent == [key |-> 0, kind |-> "NONE"]

KeysInit ==
    /\ levels = [k \in Keys |-> "ERROR"]
    /\ scan = 0 /\ now = 0
    /\ candidate = [k \in Keys |-> FALSE] /\ pressed = candidate /\ long_sent = candidate
    /\ changed = [k \in Keys |-> 0] /\ down = changed
    /\ ring = EmptyRing(NoEvent)
    /\ tick = 0 /\ since_poll = 0
    /\ stable = [k \in Keys |-> TICKS] /\ readings = [k \in Keys |-> 2]
    /\ last = [k \in Keys |-> NoEvent] /\ seen_dropped = 0 /\ missed = 0

Elapsed(t, f) == (t + TICKS - f) % TICKS
Later(a) == [k \in Keys |-> IF a[k] < TICKS THEN a[k] + 1 ELSE a[k]]

-----------------------------------------------------------------------------
Tick ==
    /\ since_poll < POLL_TICKS
    /\ tick' = (tick + 1) % TICKS /\ since_poll' = since_poll + 1
    /\ stable' = Later(stable)
    /\ UNCHANGED <<levels, scan, now, state, ring, readings, reader, missed>>

-----------------------------------------------------------------------------
\* board_keys_poll reads the pins, which bounce as they like, before it has
\* the lock.
board_keys_poll ==
    /\ scan = 0
    /\ levels' \in [Keys -> Levels] /\ scan' = -1
    /\ UNCHANGED <<now, state, ring, tick, since_poll, history, reader, missed>>

\* It has the lock, reads the tick and calls keys_sample.
LockAndSample ==
    /\ scan = -1
    /\ now' = tick /\ since_poll' = 0 /\ scan' = 1
    /\ UNCHANGED <<levels, state, ring, tick, history, reader, missed>>

key_push(k, kind) == Push(ring, [key |-> k, kind |-> kind])

Lost(n) == IF missed + n < COUNTER THEN missed + n ELSE COUNTER

\* One more event for key k, and what it pushes out of a full ring.
Report(k, kind) ==
    /\ ring' = key_push(k, kind)
    /\ missed' = Lost(IF IsFull(ring) THEN 1 ELSE 0)

\* The history of a sample: a contradiction or an error starts it again.
Witness(k, again) ==
    /\ stable' = [stable EXCEPT ![k] = IF again THEN Elapsed(tick, now) ELSE @]
    /\ readings' = [readings EXCEPT ![k] = IF again THEN 1 ELSE 2]

\* A sample gave key k level v, or failed, which counts as the reported state.
\* Mutant: a change of level does not restart the wait.
Noted_staleChange(k, v, failed) ==
    /\ candidate' = [candidate EXCEPT ![k] = v]
    /\ changed' = [changed EXCEPT ![k] = IF failed THEN now ELSE @]
    /\ Witness(k, failed \/ v # candidate[k])

\* Mutant: every sample restarts the wait.
Noted_always(k, v, failed) ==
    /\ candidate' = [candidate EXCEPT ![k] = v]
    /\ changed' = [changed EXCEPT ![k] = now]
    /\ Witness(k, failed \/ v # candidate[k])

Noted(k, v, failed) ==
    /\ candidate' = [candidate EXCEPT ![k] = v]
    /\ changed' = [changed EXCEPT ![k] = IF failed \/ v # candidate[k] THEN now ELSE @]
    /\ Witness(k, failed \/ v # candidate[k])

Settled(k, v) == v # pressed[k] /\ Elapsed(now, changed'[k]) >= DEBOUNCE_TICKS

\* Mutant: the LONG of the last hold is not forgotten.
KeyDown_longSent(k) ==
    /\ pressed' = [pressed EXCEPT ![k] = TRUE]
    /\ down' = [down EXCEPT ![k] = now]
    /\ Report(k, "DOWN")
    /\ UNCHANGED long_sent

KeyDown(k) ==
    /\ pressed' = [pressed EXCEPT ![k] = TRUE]
    /\ down' = [down EXCEPT ![k] = now]
    /\ long_sent' = [long_sent EXCEPT ![k] = FALSE]
    /\ Report(k, "DOWN")

KeyUp(k) ==
    /\ pressed' = [pressed EXCEPT ![k] = FALSE]
    /\ Report(k, "UP")
    /\ UNCHANGED <<down, long_sent>>

LongDue(k, v) ==
    /\ pressed[k] /\ v /\ ~long_sent[k]
    /\ Elapsed(now, down[k]) >= LONG_TICKS

KeyLong(k) ==
    /\ long_sent' = [long_sent EXCEPT ![k] = TRUE]
    /\ Report(k, "LONG")
    /\ UNCHANGED <<pressed, down>>

KeyQuiet == UNCHANGED <<pressed, down, long_sent, ring, missed>>

\* One iteration of the loop in keys_sample; the last one releases the lock.
keys_sample ==
    /\ scan \in Keys
    /\ scan' = IF scan = KEYS_COUNT THEN 0 ELSE scan + 1
    /\ \/ levels[scan] = "ERROR" /\ Noted(scan, pressed[scan], TRUE) /\ KeyQuiet
       \/ /\ levels[scan] # "ERROR"
          /\ LET v == levels[scan] = "PIN_LOW"
             IN  /\ Noted(scan, v, FALSE)
                 /\ \/ Settled(scan, v) /\ v /\ KeyDown(scan)
                    \/ Settled(scan, v) /\ ~v /\ KeyUp(scan)
                    \/ LongDue(scan, v) /\ KeyLong(scan)
                    \/ ~Settled(scan, v) /\ ~LongDue(scan, v) /\ KeyQuiet
    /\ UNCHANGED <<levels, now, tick, since_poll, reader>>

\* keys_read, one event at a time: under the lock, so between two scans.
keys_read ==
    /\ scan \notin Keys
    /\ ring.queued # 0
    /\ last' = [last EXCEPT ![Front(ring).key] = Front(ring)]
    /\ ring' = Pop(ring)
    /\ UNCHANGED <<levels, scan, now, state, tick, since_poll, history,
                   seen_dropped, missed>>

\* A reader with nothing left to read takes the status: pressed_mask, dropped.
keys_control ==
    /\ scan \notin Keys
    /\ ring.queued = 0
    /\ last' = [k \in Keys |-> [key |-> k, kind |-> IF pressed[k] THEN "DOWN" ELSE "UP"]]
    /\ seen_dropped' = ring.dropped /\ missed' = 0
    /\ UNCHANGED <<levels, scan, now, state, ring, tick, since_poll, history>>

KeysNext ==
    \/ Tick
    \/ board_keys_poll \/ LockAndSample \/ keys_sample
    \/ keys_read \/ keys_control

-----------------------------------------------------------------------------
KeysTypeOK ==
    /\ levels \in [Keys -> Levels]
    /\ scan \in -1 .. KEYS_COUNT /\ now \in 0 .. TICKS - 1
    /\ candidate \in [Keys -> BOOLEAN] /\ pressed \in [Keys -> BOOLEAN]
    /\ long_sent \in [Keys -> BOOLEAN]
    /\ changed \in [Keys -> 0 .. TICKS - 1] /\ down \in [Keys -> 0 .. TICKS - 1]
    /\ ring \in RingType(Event \cup {NoEvent}) /\ RingOK(ring)
    /\ tick \in 0 .. TICKS - 1 /\ since_poll \in 0 .. POLL_TICKS
    /\ stable \in [Keys -> 0 .. TICKS] /\ readings \in [Keys -> 1 .. 2]
    /\ last \in [Keys -> Event \cup {NoEvent}]
    /\ seen_dropped \in 0 .. COUNTER - 1 /\ missed \in 0 .. COUNTER

\* A key changes state only after two readings agree and none has contradicted
\* them for the debounce time, in true time: the tick may wrap, the poll may be
\* late, and a failed read starts the wait again.
Debounced ==
    [][\A k \in Keys : pressed'[k] # pressed[k] =>
            readings'[k] = 2 /\ stable'[k] >= DEBOUNCE_TICKS]_keyvars

\* May an event of kind b come after one of kind a, for one key?
Follows(a, b) ==
    \/ b = "DOWN" /\ a \in {"UP", "NONE"}
    \/ b = "LONG" /\ a = "DOWN"
    \/ b = "UP" /\ a \in {"DOWN", "LONG"}

Agrees(k, kind) == kind \in IF pressed[k] THEN {"DOWN", "LONG"} ELSE {"UP", "NONE"}

\* Where key k's events are in ring r, oldest first, and what the event at i is.
PlacesOf(r, k) == {i \in 1 .. r.queued : Contents(r)[i].key = k}
KindAt(r, i) == Contents(r)[i].kind

\* Each of key k's events follows the one before it, whatever lies between them.
InOrder(r, k) ==
    \A i, j \in PlacesOf(r, k) :
        i < j /\ (\A m \in PlacesOf(r, k) : m <= i \/ j <= m) => Follows(KindAt(r, i), KindAt(r, j))

\* The newest event queued for key k is its state.
NewestIsState(k) ==
    \A i \in PlacesOf(ring, k) : (\A j \in PlacesOf(ring, k) : j <= i) =>
        /\ Agrees(k, KindAt(ring, i))
        /\ pressed[k] => (long_sent[k] <=> KindAt(ring, i) = "LONG")

\* What the reader believes of key k fits what it will get next.
InStepWith(k) ==
    /\ PlacesOf(ring, k) = {} => Agrees(k, last[k].kind)
    /\ \A i \in PlacesOf(ring, k) :
          (\A j \in PlacesOf(ring, k) : i <= j) => Follows(last[k].kind, KindAt(ring, i))

\* Each key's events come in order whatever the other keys do, and the newest
\* one queued for a key is its state.  When the events of another key push one
\* of its out, the reader may believe a released key down for good, but then
\* status.dropped has moved since it last looked (or gone all the way round).
KeyStreamWellFormed ==
    \A k \in Keys :
        /\ InOrder(ring, k) /\ NewestIsState(k)
        /\ ring.dropped # seen_dropped \/ missed = COUNTER \/ InStepWith(k)

\* The report follows the finger: a key that is held is in the end reported
\* down and long, one that is left alone is reported up, though the tick wraps
\* and the loop of main() polls when it gets to it.
Follower == \A k \in Keys :
    /\ <>[](levels[k] = "PIN_LOW") => <>[](pressed[k] /\ long_sent[k])
    /\ <>[](levels[k] = "PIN_HIGH") => <>[]~pressed[k]
=============================================================================
