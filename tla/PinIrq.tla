------------------------------- MODULE PinIrq -------------------------------
(***************************************************************************)
(* The pin interrupts (drv_gpio.c): the ISR finds out which pins changed,  *)
(* a thread (gpioirq) looks at all pins, one after the other, and calls    *)
(* their handlers under a recursive lock; clients attach, detach, enable   *)
(* and disable under the same lock, a handler may do so to any pin.        *)
(* Some pins have a circuit of their own, the others share one interrupt   *)
(* and are armed for the opposite of their last level.  The ISR's sample   *)
(* and its arming are one step: edges in between may be missed, which the  *)
(* code accepts (no high-speed counter).                                   *)
(***************************************************************************)
EXTENDS Naturals

CONSTANTS
    PINS,               \* pins 1 .. PINS: 27
    Dedicated,          \* those with a circuit of their own
    SEM_VALUE_MAX             \* RT_SEM_VALUE_MAX

Pins == 1..PINS
Modes == {"FALLING", "RISING", "RISING_FALLING"}
NoPin == 0

ASSUME PinAssumption ==
    PINS \in Nat \ {0} /\ Dedicated \subseteq Pins /\ SEM_VALUE_MAX \in Nat \ {0}

VARIABLES
    level,              \* of each pin: TRUE is high
    latched,            \* pins whose edge waits for the ISR
    gpio_enabled, gpio_pending, gpio_levels,
    attached, mode,     \* pin_irq_table: pins with a handler, and their mode
    gpio_wake,          \* the tokens of the semaphore
    visit,              \* the pin the thread looks at next, or NoPin: it waits
    calling,            \* the pin whose handler runs, or NoPin
    \* History, read by no action of the driver:
    moved,              \* pins whose level moved since they were subscribed or sampled
    fresh               \* pins the ISR found so, since they were subscribed or called

pinvars == <<level, latched, gpio_enabled, gpio_pending, gpio_levels, attached, mode,
             gpio_wake, visit, calling, moved, fresh>>
table == <<attached, mode>>
edges == <<moved, fresh>>

PinInit ==
    /\ level = [p \in Pins |-> TRUE] /\ latched = {}
    /\ gpio_enabled = {} /\ gpio_pending = {} /\ gpio_levels = [p \in Pins |-> TRUE]
    /\ attached = {} /\ mode = [p \in Pins |-> "FALLING"]
    /\ gpio_wake = 0 /\ visit = NoPin /\ calling = NoPin
    /\ moved = {} /\ fresh = {}

-----------------------------------------------------------------------------
\* What gpio_configure_irqs has armed: an edge away from the last level for a
\* shared pin, the edge of its mode for the others.
Armed(p) ==
    IF p \in Dedicated
    THEN CASE mode[p] = "FALLING" -> level[p]
           [] mode[p] = "RISING" -> ~level[p]
           [] mode[p] = "RISING_FALLING" -> level[p] = gpio_levels[p]
    ELSE level[p] = gpio_levels[p]

PinChanges(p) ==
    /\ level' = [level EXCEPT ![p] = ~@]
    /\ latched' = IF p \in gpio_enabled /\ Armed(p) THEN latched \cup {p} ELSE latched
    /\ moved' = moved \cup {p}
    /\ UNCHANGED <<gpio_enabled, gpio_pending, gpio_levels, table, gpio_wake, visit, calling, fresh>>

\* The subscriber's edge: a dedicated pin has latched it, a shared one differs.
Notify(p) ==
    \/ p \in Dedicated /\ p \in latched
    \/ /\ p \notin Dedicated /\ level[p] # gpio_levels[p]
       /\ mode[p] \in {"RISING_FALLING", IF level[p] THEN "RISING" ELSE "FALLING"}

Token == gpio_wake' = IF gpio_wake < SEM_VALUE_MAX THEN gpio_wake + 1 ELSE gpio_wake

\* A token only for the first pending pin: a mutant.
Release_first(notify) ==
    IF notify = {} \/ gpio_pending # {} THEN UNCHANGED gpio_wake ELSE Token

Release(notify) == IF notify = {} THEN UNCHANGED gpio_wake ELSE Token

\* A circuit counts while WKUPCON has it in use: that of its own pin, or the
\* shared one for any of the others.
InUse(p) == IF p \in Dedicated THEN p \in gpio_enabled ELSE gpio_enabled \ Dedicated # {}

ab32_pin_irq_handler ==
    /\ \E p \in latched : InUse(p)
    /\ latched' = {p \in latched : ~InUse(p)}
    /\ \E notify \in {{p \in gpio_enabled : Notify(p)}} :
        /\ gpio_pending' = gpio_pending \cup notify /\ fresh' = fresh \cup (notify \cap moved)
        /\ Release(notify)
    /\ gpio_levels' = level /\ moved' = {}
    /\ UNCHANGED <<level, gpio_enabled, table, visit, calling>>

-----------------------------------------------------------------------------
(* The thread.                                                             *)
Scan ==
    /\ visit = NoPin /\ gpio_wake > 0
    /\ gpio_wake' = gpio_wake - 1 /\ visit' = 1
    /\ UNCHANGED <<level, latched, gpio_enabled, gpio_pending, gpio_levels, table, calling, edges>>

Next1 == visit' = IF visit = PINS THEN NoPin ELSE visit + 1

\* gpio_dispatch, one pin: its bit is taken, and the handler runs if the pin is
\* still enabled.
gpio_take_pin ==
    /\ visit # NoPin /\ calling = NoPin
    /\ gpio_pending' = gpio_pending \ {visit}
    /\ IF visit \in gpio_pending \cap gpio_enabled \cap attached
       THEN calling' = visit /\ fresh' = fresh \ {visit} /\ UNCHANGED visit
       ELSE Next1 /\ UNCHANGED <<calling, fresh>>
    /\ UNCHANGED <<level, latched, gpio_enabled, gpio_levels, table, gpio_wake, moved>>

Called ==
    /\ calling # NoPin /\ calling' = NoPin /\ Next1
    /\ UNCHANGED <<level, latched, gpio_enabled, gpio_pending, gpio_levels, table, gpio_wake, edges>>

-----------------------------------------------------------------------------
(* The clients: a handler, which has the lock, or a thread that waits for  *)
(* it: one cannot tell the two apart once nobody else is in the way.       *)

\* A subscription begins with the enable of a pin that was not.
Subscribes(p, enable) ==
    IF enable /\ p \in gpio_enabled
    THEN UNCHANGED edges
    ELSE moved' = moved \ {p} /\ fresh' = fresh \ {p}

\* A disable that leaves the pending bit: a mutant.
gpio_change_pin_keeps(p, enable) ==
    /\ IF enable
       THEN /\ gpio_levels' = [gpio_levels EXCEPT ![p] = level[p]]
            /\ latched' = (IF gpio_enabled = {} THEN {} ELSE latched)
            /\ gpio_enabled' = gpio_enabled \cup {p}
       ELSE gpio_enabled' = gpio_enabled \ {p} /\ UNCHANGED <<gpio_levels, latched>>
    /\ Subscribes(p, enable) /\ UNCHANGED gpio_pending

\* The first pin that is enabled clears what the circuits have latched.
gpio_change_pin(p, enable) ==
    /\ gpio_pending' = gpio_pending \ {p} /\ Subscribes(p, enable)
    /\ IF enable
       THEN /\ gpio_levels' = [gpio_levels EXCEPT ![p] = level[p]]
            /\ latched' = (IF gpio_enabled = {} THEN {} ELSE latched)
            /\ gpio_enabled' = gpio_enabled \cup {p}
       ELSE gpio_enabled' = gpio_enabled \ {p} /\ UNCHANGED <<gpio_levels, latched>>

ab32_pin_attach_irq(p, m) ==
    /\ p \notin attached
    /\ attached' = attached \cup {p} /\ mode' = [mode EXCEPT ![p] = m]
    /\ UNCHANGED <<level, latched, gpio_enabled, gpio_pending, gpio_levels, gpio_wake, visit,
                   calling, edges>>

ab32_pin_dettach_irq(p) ==
    /\ gpio_change_pin(p, FALSE)
    /\ attached' = attached \ {p}
    /\ UNCHANGED <<level, mode, gpio_wake, visit, calling>>

ab32_pin_irq_enable(p, enabled) ==
    /\ p \in attached
    /\ gpio_change_pin(p, enabled)
    /\ UNCHANGED <<level, table, gpio_wake, visit, calling>>

PinNext ==
    \/ \E p \in Pins : PinChanges(p) \/ ab32_pin_dettach_irq(p)
    \/ \E p \in Pins, m \in Modes : ab32_pin_attach_irq(p, m)
    \/ \E p \in Pins, enabled \in BOOLEAN : ab32_pin_irq_enable(p, enabled)
    \/ ab32_pin_irq_handler \/ Scan \/ gpio_take_pin \/ Called

PinSpec == PinInit /\ [][PinNext]_pinvars

-----------------------------------------------------------------------------
PinTypeOK ==
    /\ level \in [Pins -> BOOLEAN] /\ gpio_levels \in [Pins -> BOOLEAN]
    /\ mode \in [Pins -> Modes] /\ gpio_wake \in 0..SEM_VALUE_MAX
    /\ {latched, gpio_enabled, gpio_pending, attached, moved, fresh} \subseteq SUBSET Pins
    /\ visit \in Pins \cup {NoPin} /\ calling \in Pins \cup {NoPin}

\* A handler is called only while it is attached, and that of a pin of the shared
\* interrupt for a move of the level since it was subscribed: what was queued or
\* sampled before is gone with the disable.
CalledForAnEdge ==
    [][calling' # calling /\ calling' # NoPin =>
        calling' \in attached /\ (calling' \in fresh \/ calling' \in Dedicated)]_pinvars

\* "queued old event must not reach a new handler" (keys_gpio.c), said of every
\* pin.  A dedicated circuit keeps the edge it has latched across a disable and
\* gpio_change_pin clears it only while no pin at all is enabled: violated.
NoOldEdge ==
    [][calling' # calling /\ calling' # NoPin => calling' \in fresh]_pinvars

\* No edge is left behind: a pending pin that is enabled has a token, or the
\* thread has not passed it yet.
EdgeIsServed ==
    \A p \in gpio_pending \cap gpio_enabled : gpio_wake > 0 \/ (visit # NoPin /\ visit <= p /\ calling # p)
=============================================================================
