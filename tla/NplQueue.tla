------------------------------- MODULE NplQueue -------------------------------
(***************************************************************************)
(* The event queue and the callouts of the NimBLE port (npl_rtthread.c).   *)
(* Four threads post events to the default queue and one, the NimBLE host, *)
(* takes them.  An event has one link: a second put of a queued event does *)
(* nothing.  The queue is changed with the interrupts masked, but its      *)
(* semaphore is released after they are restored, and the host takes the   *)
(* event and its token in two steps.                                       *)
(*                                                                         *)
(* One core: a thread runs only while nobody of a higher priority is busy. *)
(***************************************************************************)
EXTENDS Naturals, Sequences

Threads == {"timer", "btctrl", "nimble", "shell"}
Events == {"callout", "control", "rx", "reset", "notify"}
None == "none"

CONSTANT SEM_MAX        \* RT_SEM_VALUE_MAX: a full semaphore refuses a release

ASSUME NplAssumption == SEM_MAX \in Nat \ {0}

VARIABLES
    evq,                \* the events of the queue, first in first out
    wake,               \* the tokens of its semaphore
    posting,            \* the event a thread is about to put, or None
    releasing,          \* threads that found the queue empty and owe a token
    place,              \* where btctrl and nimble are in their loops
    ev,                 \* the event in the host's hands
    armed,              \* the callout's soft timer is active
    stopped             \* history: the callout was stopped and not reset since

nplvars == <<evq, wake, posting, releasing, place, ev, armed, stopped>>

NplInit ==
    /\ evq = <<>> /\ wake = 0
    /\ posting = [t \in Threads |-> None] /\ releasing = {}
    /\ place = [btctrl |-> "loop", nimble |-> "get"]
    /\ ev = None /\ armed = FALSE /\ stopped = FALSE

Prio == [timer |-> 4, btctrl |-> 5, nimble |-> 9, shell |-> 20]

InPut(t) == posting[t] # None \/ t \in releasing
Busy(t) ==
    \/ InPut(t)
    \/ t = "btctrl" /\ place[t] # "sleep"
    \/ t = "nimble" /\ (place[t] # "wait" \/ wake > 0)
MayRun(t) == \A u \in Threads : Prio[u] < Prio[t] => ~Busy(u)

\* A thread outside eventq_put goes on with its own code.
Steps(t) == MayRun(t) /\ ~InPut(t)
At(t, p) == Steps(t) /\ place[t] = p
Goto(t, p) == place' = [place EXCEPT ![t] = p]
Post(t, e) == posting' = [posting EXCEPT ![t] = e]

Queued(e) == \E i \in 1..Len(evq) : evq[i] = e
IndexOf(e) == CHOOSE i \in 1..Len(evq) : evq[i] = e
Without(e) ==
    IF Queued(e)
    THEN [i \in 1..(Len(evq) - 1) |-> IF i < IndexOf(e) THEN evq[i] ELSE evq[i + 1]]
    ELSE evq

-----------------------------------------------------------------------------
\* A put that looks at the queue after it has put its event: a mutant.
ble_npl_eventq_put_late(t) ==
    /\ posting[t] # None /\ MayRun(t)
    /\ evq' = IF Queued(posting[t]) THEN evq ELSE Append(evq, posting[t])
    /\ releasing' = IF evq' = <<>> THEN releasing \cup {t} ELSE releasing
    /\ Post(t, None)
    /\ UNCHANGED <<wake, place, ev, armed, stopped>>

\* The critical section of eventq_put.
ble_npl_eventq_put(t) ==
    /\ posting[t] # None /\ MayRun(t)
    /\ evq' = IF Queued(posting[t]) THEN evq ELSE Append(evq, posting[t])
    /\ releasing' = IF evq = <<>> THEN releasing \cup {t} ELSE releasing
    /\ Post(t, None)
    /\ UNCHANGED <<wake, place, ev, armed, stopped>>

\* ... and the wake-up after it.
sem_release(t) ==
    /\ t \in releasing /\ MayRun(t)
    /\ wake' = (IF wake < SEM_MAX THEN wake + 1 ELSE wake) /\ releasing' = releasing \ {t}
    /\ UNCHANGED <<evq, posting, place, ev, armed, stopped>>

\* eventq_get of the host loop, without timeout: take the first event, or wait.
ble_npl_eventq_get ==
    /\ At("nimble", "get")
    /\ IF evq # <<>>
       THEN ev' = Head(evq) /\ evq' = Tail(evq) /\ Goto("nimble", "take")
       ELSE Goto("nimble", "wait") /\ UNCHANGED <<ev, evq>>
    /\ UNCHANGED <<wake, posting, releasing, armed, stopped>>

\* The token that belongs to the event, if it is there already.
sem_take_0 ==
    /\ At("nimble", "take")
    /\ wake' = IF wake > 0 THEN wake - 1 ELSE 0
    /\ Goto("nimble", "run")
    /\ UNCHANGED <<evq, posting, releasing, ev, armed, stopped>>

sem_take ==
    /\ At("nimble", "wait") /\ wake > 0
    /\ wake' = wake - 1
    /\ Goto("nimble", "get")
    /\ UNCHANGED <<evq, posting, releasing, ev, armed, stopped>>

-----------------------------------------------------------------------------
\* The timer thread takes the expired timer off its list and posts the event.
callout_fire ==
    /\ armed /\ ~InPut("timer")
    /\ armed' = FALSE /\ Post("timer", "callout")
    /\ UNCHANGED <<evq, wake, releasing, place, ev, stopped>>

\* A stop that leaves the event in the queue: a mutant.
callout_stop_timer == armed' = FALSE /\ stopped' = TRUE /\ UNCHANGED evq

\* ble_npl_callout_stop and callout_reset, called by the host's handlers.
callout_stop == armed' = FALSE /\ stopped' = TRUE /\ evq' = Without("callout")
callout_reset == armed' = TRUE /\ stopped' = FALSE /\ evq' = Without("callout")

-----------------------------------------------------------------------------
NplTypeOK ==
    /\ evq \in Seq(Events) /\ wake \in 0..SEM_MAX
    /\ posting \in [Threads -> Events \cup {None}] /\ releasing \in SUBSET Threads
    /\ place \in [{"btctrl", "nimble"} ->
                  {"loop", "pump", "sleep", "get", "take", "wait", "run", "acl"}]
    /\ ev \in Events \cup {None} /\ armed \in BOOLEAN /\ stopped \in BOOLEAN

\* No wake-up is lost: while the host waits on the semaphore, a queue that is
\* not empty has a token, or somebody who is about to release one (the release
\* follows the critical section, and the host takes tokens of other events).
NoLostWake ==
    place["nimble"] = "wait" /\ evq # <<>> => wake > 0 \/ releasing # {}

\* A callout that was stopped stays silent until it is reset: its timer is
\* off, its event is not queued and nobody is about to queue it.
StoppedIsSilent ==
    stopped => ~armed /\ ~Queued("callout") /\ posting["timer"] # "callout"

\* An event is linked once.
LinkedOnce == \A i, j \in 1..Len(evq) : evq[i] = evq[j] => i = j
=============================================================================
