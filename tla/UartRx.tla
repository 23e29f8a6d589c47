------------------------------- MODULE UartRx -------------------------------
(***************************************************************************)
(* Reception on the UARTs: the ISR (drv_usart.c) puts a byte into the ring *)
(* of its UART and posts the UART's bit; one thread (drv_common.c) takes   *)
(* all bits and has the serial framework drain the rings (dev_serial.c).   *)
(* Both indices of a ring are bytes that run freely, modulo 256, and the   *)
(* ring has ten places, which does not divide 256.  Nobody looks whether   *)
(* the ring is full.  A byte stands for its number.                        *)
(***************************************************************************)
EXTENDS Naturals

CONSTANTS
    Uarts,
    RING,               \* the places of rx_buf: ten
    WRAP,               \* the values of rx_idx, a rt_uint8_t: 256
    SEM_MAX             \* RT_SEM_VALUE_MAX

ASSUME UartAssumption ==
    RING \in Nat \ {0} /\ WRAP \in Nat \ {0} /\ SEM_MAX \in Nat \ {0}

VARIABLES
    rx_buf, rx_idx, rx_idx_prev,    \* of each UART
    drv_pending,                    \* the bits, as a set of UARTs
    drv_wake,                       \* the tokens of the semaphore
    drv,                            \* the thread: "wait", "take" or "process"
    events                          \* the UARTs it has yet to drain

uartvars == <<rx_buf, rx_idx, rx_idx_prev, drv_pending, drv_wake, drv, events>>

UartInit ==
    /\ rx_buf = [u \in Uarts |-> [p \in 0..(RING - 1) |-> 0]]
    /\ rx_idx = [u \in Uarts |-> 0] /\ rx_idx_prev = [u \in Uarts |-> 0]
    /\ drv_pending = {} /\ drv_wake = 0 /\ drv = "wait" /\ events = {}

Unread(u) == (rx_idx[u] + WRAP - rx_idx_prev[u]) % WRAP

-----------------------------------------------------------------------------
\* A notification that only the first bit of a UART wakes the thread for: a mutant.
drv_notify_first(u) ==
    /\ drv_pending' = drv_pending \cup {u}
    /\ drv_wake' = IF drv_pending = {} /\ rx_idx[u] = rx_idx_prev[u] /\ drv_wake < SEM_MAX
                   THEN drv_wake + 1 ELSE drv_wake

drv_notify(u) ==
    /\ drv_pending' = drv_pending \cup {u}
    /\ drv_wake' = IF drv_pending = {} /\ drv_wake < SEM_MAX THEN drv_wake + 1 ELSE drv_wake

Place(i) == i % RING

\* The ISR: no step of the thread comes between the byte and its bit.  It stores
\* the byte whether or not the place is free.
uart_isr(u) ==
    /\ rx_buf' = [rx_buf EXCEPT ![u][Place(rx_idx[u])] = rx_idx[u]]
    /\ rx_idx' = [rx_idx EXCEPT ![u] = (@ + 1) % WRAP]
    /\ drv_notify(u)
    /\ UNCHANGED <<rx_idx_prev, drv, events>>

-----------------------------------------------------------------------------
(* The thread.                                                             *)
drv_sem_take ==
    /\ drv = "wait" /\ drv_wake > 0
    /\ drv_wake' = drv_wake - 1 /\ drv' = "take"
    /\ UNCHANGED <<rx_buf, rx_idx, rx_idx_prev, drv_pending, events>>

drv_take_pending ==
    /\ drv = "take"
    /\ events' = drv_pending /\ drv_pending' = {} /\ drv' = "process"
    /\ UNCHANGED <<rx_buf, rx_idx, rx_idx_prev, drv_wake>>

\* A round of rt_hw_serial_isr: ab32_getc takes a byte.
ab32_getc(u) ==
    /\ drv = "process" /\ u \in events /\ rx_idx[u] # rx_idx_prev[u]
    /\ rx_idx_prev' = [rx_idx_prev EXCEPT ![u] = (@ + 1) % WRAP]
    /\ UNCHANGED <<rx_buf, rx_idx, drv_pending, drv_wake, drv, events>>

\* ... until it answers -1.
Drained(u) ==
    /\ drv = "process" /\ u \in events /\ rx_idx[u] = rx_idx_prev[u]
    /\ events' = events \ {u}
    /\ UNCHANGED <<rx_buf, rx_idx, rx_idx_prev, drv_pending, drv_wake, drv>>

Processed ==
    /\ drv = "process" /\ events = {} /\ drv' = "wait"
    /\ UNCHANGED <<rx_buf, rx_idx, rx_idx_prev, drv_pending, drv_wake, events>>

UartNext ==
    \/ \E u \in Uarts : uart_isr(u) \/ ab32_getc(u) \/ Drained(u)
    \/ drv_sem_take \/ drv_take_pending \/ Processed

UartSpec == UartInit /\ [][UartNext]_uartvars

-----------------------------------------------------------------------------
UartTypeOK ==
    /\ rx_buf \in [Uarts -> [0..(RING - 1) -> 0..(WRAP - 1)]]
    /\ rx_idx \in [Uarts -> 0..(WRAP - 1)] /\ rx_idx_prev \in [Uarts -> 0..(WRAP - 1)]
    /\ drv_pending \subseteq Uarts /\ events \subseteq Uarts
    /\ drv_wake \in 0..SEM_MAX /\ drv \in {"wait", "take", "process"}

\* "repeated IRQs may share one event bit without losing data" (drv_common.c):
\* every byte that was received and not read is still in its place.  Violated,
\* and not only by an eleventh unread byte: the index wraps in the middle of a
\* round of the ring, so the byte after number 255 comes to the place of number 250.
RingIntact ==
    \A u \in Uarts : \A k \in 1..Unread(u) :
        LET i == (rx_idx[u] + WRAP - k) % WRAP IN rx_buf[u][Place(i)] = i

\* No byte is left behind: while a ring holds one, its bit is set and the thread
\* has a token or is about to take the bits, or it has the UART to drain.
NoStrandedByte ==
    \A u \in Uarts : rx_idx[u] # rx_idx_prev[u] =>
        \/ u \in drv_pending /\ (drv_wake > 0 \/ drv = "take")
        \/ u \in events
=============================================================================
