---------------------------- MODULE BtWorkerProofs ----------------------------
(***************************************************************************)
(* The NimBLE port for every number of ACL buffers, every length of the    *)
(* job queue and every limit of the semaphore: no wake-up of the host is   *)
(* lost, a stopped callout stays silent and every ACL buffer is where its  *)
(* flag says.  And the diagnostic mode for every number of credits: a      *)
(* command's own answer does not deceive the worker.                       *)
(***************************************************************************)
EXTENDS BtWorker, SequenceTheorems, TLAPS

-----------------------------------------------------------------------------
(* Lists.                                                                  *)

\* Every element once, and where it was.
Once(q) == \A i, j \in 1..Len(q) : q[i] = q[j] => i = j

LEMMA WithoutAbsent == ASSUME NEW e, ~Queued(e) PROVE Without(e) = evq
BY DEF Without

\* What Without takes from the queue is e, and nothing else.
LEMMA WithoutPresent ==
    ASSUME NEW e, evq \in Seq(Events), Once(evq), Queued(e)
    PROVE  /\ Without(e) \in Seq(Events) /\ Once(Without(e))
           /\ \A i \in 1..Len(Without(e)) : Without(e)[i] # e
<1> DEFINE n == Len(evq)
           k == IndexOf(e)
           w == [i \in 1..(n - 1) |-> IF i < k THEN evq[i] ELSE evq[i + 1]]
<1>1. n \in Nat /\ evq \in [1..n -> Events]
  BY LenProperties
<1>2. k \in 1..n /\ evq[k] = e
  BY DEF Queued, IndexOf
<1>3. Without(e) = w
  BY DEF Without
<1>4. n - 1 \in Nat
  BY <1>1, <1>2
<1>5. \A i \in 1..(n - 1) : w[i] = IF i < k THEN evq[i] ELSE evq[i + 1]
  OBVIOUS
<1>6. \A i \in 1..(n - 1) : i \in 1..n /\ i + 1 \in 1..n
  BY <1>1
<1>7. \A i \in 1..(n - 1) : w[i] \in Events
  BY <1>1, <1>5, <1>6
<1>8. w \in [1..(n - 1) -> Events]
  BY <1>7
<1>9. w \in Seq(Events) /\ Len(w) = n - 1
  BY <1>4, <1>8, SeqDef, LenProperties
<1>10. \A i, j \in 1..(n - 1) : w[i] = w[j] => i = j
  BY <1>1, <1>2, <1>5, <1>6 DEF Once
<1>11. \A i \in 1..(n - 1) : w[i] # e
  BY <1>1, <1>2, <1>5, <1>6 DEF Once
<1> QED BY <1>3, <1>9, <1>10, <1>11 DEF Once

LEMMA AppendOnce ==
    ASSUME NEW S, NEW q \in Seq(S), NEW e \in S, Once(q), \A i \in 1..Len(q) : q[i] # e
    PROVE  Append(q, e) \in Seq(S) /\ Once(Append(q, e))
<1>1. Append(q, e) \in Seq(S) /\ Len(Append(q, e)) = Len(q) + 1 /\ Len(q) \in Nat
  OBVIOUS
<1>2. \A i \in 1..(Len(q) + 1) : Append(q, e)[i] = IF i \in 1..Len(q) THEN q[i] ELSE e
  OBVIOUS
<1> QED BY <1>1, <1>2 DEF Once

LEMMA TailElements ==
    ASSUME NEW S, NEW q \in Seq(S), q # <<>>
    PROVE  /\ Tail(q) \in Seq(S) /\ Len(Tail(q)) = Len(q) - 1
           /\ Len(q) \in Nat /\ Len(q) >= 1 /\ Head(q) = q[1] /\ q[1] \in S
           /\ \A i \in 1..(Len(q) - 1) : Tail(q)[i] = q[i + 1]
OBVIOUS

LEMMA TailOnce ==
    ASSUME NEW S, NEW q \in Seq(S), q # <<>>, Once(q)
    PROVE  Once(Tail(q))
BY TailElements DEF Once

-----------------------------------------------------------------------------
(* The queue, its semaphore and its callout.                               *)

\* The types the argument needs.
Shape ==
    /\ evq \in Seq(Events) /\ wake \in 0..SEM_MAX
    /\ posting \in [Threads -> Events \cup {None}]
    /\ place \in [{"btctrl", "nimble"} ->
                  {"loop", "pump", "sleep", "get", "take", "wait", "run", "acl"}]

\* Only the timer thread posts the callout's event: a host that runs, which the
\* timer thread then does not, has it in the queue or nowhere.
TimerPosts == \A t \in Threads : posting[t] = "callout" => t = "timer"

QueueInv == Shape /\ TimerPosts /\ LinkedOnce /\ NoLostWake /\ StoppedIsSilent

\* A step that leaves the queue alone.
QueueUntouched == UNCHANGED <<evq, wake, posting, releasing, armed, stopped>>

LEMMA HostRunsAlone ==
    ASSUME Shape, MayRun("nimble") PROVE posting["timer"] = None
BY DEF Shape, MayRun, Busy, InPut, Prio, Threads

LEMMA PutKeeps ==
    ASSUME QueueInv, NEW t \in Threads, ble_npl_eventq_put(t) PROVE QueueInv'
<1> USE DEF QueueInv
<1>0. posting[t] \in Events /\ posting[t] # None /\ posting' = [posting EXCEPT ![t] = None]
      /\ UNCHANGED <<wake, place, armed, stopped>>
  BY DEF ble_npl_eventq_put, Post, Shape
<1>1. CASE Queued(posting[t])
  <2>1. evq' = evq /\ releasing' = releasing
    BY <1>1 DEF ble_npl_eventq_put, Queued
  <2> QED BY <1>0, <2>1 DEF Shape, TimerPosts, LinkedOnce, NoLostWake, StoppedIsSilent,
             Queued, None, Threads
<1>2. CASE ~Queued(posting[t])
  <2>1. evq' = Append(evq, posting[t])
    BY <1>2 DEF ble_npl_eventq_put
  <2>2. evq' \in Seq(Events) /\ Once(evq')
    BY <1>0, <1>2, <2>1, AppendOnce DEF Shape, LinkedOnce, Once, Queued
  <2>3. Queued("callout")' => Queued("callout") \/ posting[t] = "callout"
    BY <1>0, <2>1 DEF Queued, Shape
  <2>4. releasing' = IF evq = <<>> THEN releasing \cup {t} ELSE releasing
    BY DEF ble_npl_eventq_put
  <2>5. Shape' /\ TimerPosts' /\ LinkedOnce'
    BY <1>0, <2>2 DEF Shape, TimerPosts, LinkedOnce, Once, None
  <2>6. NoLostWake'
    BY <1>0, <2>4 DEF NoLostWake
  <2>7. StoppedIsSilent'
    BY <1>0, <2>3 DEF StoppedIsSilent, TimerPosts, Shape, Threads, None
  <2> QED BY <2>5, <2>6, <2>7
<1> QED BY <1>1, <1>2

LEMMA ReleaseKeeps ==
    ASSUME QueueInv, NEW t \in Threads, sem_release(t) PROVE QueueInv'
<1>1. wake' \in 1..SEM_MAX
  BY NplAssumption DEF sem_release, QueueInv, Shape
<1>2. UNCHANGED <<evq, posting, place, armed, stopped>>
  BY DEF sem_release
<1> QED BY <1>1, <1>2 DEF QueueInv, Shape, TimerPosts, LinkedOnce, NoLostWake,
           StoppedIsSilent, Queued

LEMMA LoopKeeps == ASSUME QueueInv, Loop PROVE QueueInv'
<1> USE DEF QueueInv
<1>1. CASE ble_npl_eventq_get
  <2>1. UNCHANGED <<wake, posting, releasing, armed, stopped>>
    BY <1>1 DEF ble_npl_eventq_get
  <2>2. CASE evq # <<>>
    <3>1. evq' = Tail(evq) /\ place' = [place EXCEPT !["nimble"] = "take"]
      BY <1>1, <2>2 DEF ble_npl_eventq_get, Goto
    <3>2. evq' \in Seq(Events) /\ Once(evq')
      BY <2>2, <3>1, TailOnce, TailElements DEF Shape, LinkedOnce, Once
    <3>3. Queued("callout")' => Queued("callout")
      <4>1. \A i \in 1..Len(evq') : evq'[i] = evq[i + 1] /\ i + 1 \in 1..Len(evq)
        BY <2>2, <3>1, TailElements DEF Shape
      <4> QED BY <4>1 DEF Queued
    <3>4. place'["nimble"] = "take" /\ Shape'
      BY <2>1, <3>1, <3>2 DEF Shape
    <3> QED BY <2>1, <3>2, <3>3, <3>4 DEF TimerPosts, LinkedOnce, Once, NoLostWake,
               StoppedIsSilent
  <2>3. CASE evq = <<>>
    <3>1. evq' = evq /\ place' = [place EXCEPT !["nimble"] = "wait"]
      BY <1>1, <2>3 DEF ble_npl_eventq_get, Goto
    <3>2. Shape' /\ NoLostWake'
      BY <2>1, <2>3, <3>1 DEF Shape, NoLostWake
    <3> QED BY <2>1, <3>1, <3>2 DEF TimerPosts, LinkedOnce, StoppedIsSilent, Queued
  <2> QED BY <2>2, <2>3
<1>2. CASE sem_take_0 \/ sem_take
  <2>1. wake' \in 0..SEM_MAX /\ UNCHANGED <<evq, posting, releasing, armed, stopped>>
    BY <1>2, NplAssumption DEF sem_take_0, sem_take, Shape
  <2>2. \E p \in {"run", "get"} : place' = [place EXCEPT !["nimble"] = p]
    BY <1>2 DEF sem_take_0, sem_take, Goto
  <2>3. place'["nimble"] # "wait" /\ Shape'
    BY <2>1, <2>2 DEF Shape
  <2> QED BY <2>1, <2>3 DEF TimerPosts, LinkedOnce, NoLostWake, StoppedIsSilent, Queued
<1> QED BY <1>1, <1>2 DEF Loop

\* A stop or a reset of the callout: the host runs, so the timer thread is in
\* the middle of nothing.
LEMMA CalloutKeeps == ASSUME QueueInv, Callout PROVE QueueInv'
<1> USE DEF QueueInv
<1>1. /\ UNCHANGED <<wake, posting, releasing, place>> /\ evq' = Without("callout")
      /\ place["nimble"] = "run" /\ MayRun("nimble") /\ (armed' \/ stopped') /\ ~(armed' /\ stopped')
  BY DEF Callout, callout_stop, callout_reset, At, Steps
<1>2. posting["timer"] = None
  BY <1>1, HostRunsAlone
<1>3. evq' \in Seq(Events) /\ Once(evq') /\ ~Queued("callout")'
  <2>1. CASE Queued("callout")
    BY <1>1, <2>1, WithoutPresent DEF Shape, LinkedOnce, Once, Queued
  <2>2. CASE ~Queued("callout")
    BY <1>1, <2>2, WithoutAbsent DEF Shape, LinkedOnce, Once, Queued
  <2> QED BY <2>1, <2>2
<1> QED BY <1>1, <1>2, <1>3 DEF Shape, TimerPosts, LinkedOnce, Once, NoLostWake,
           StoppedIsSilent, None

LEMMA TimerKeeps == ASSUME QueueInv, Timer PROVE QueueInv'
<1> USE DEF QueueInv
<1>1. /\ armed /\ armed' = FALSE /\ posting' = [posting EXCEPT !["timer"] = "callout"]
      /\ UNCHANGED <<evq, wake, releasing, place, stopped>>
  BY DEF Timer, callout_fire, Post
<1>2. Shape' /\ TimerPosts'
  BY <1>1 DEF Shape, TimerPosts, Threads, Events
<1> QED BY <1>1, <1>2 DEF LinkedOnce, NoLostWake, StoppedIsSilent, Queued

\* A step that at most posts another event, or moves on without waiting.
LEMMA OtherKeeps ==
    ASSUME QueueInv, NEW t \in Threads, NEW e \in Events \cup {None}, e # "callout",
           posting' = [posting EXCEPT ![t] = e] \/ posting' = posting,
           t # "timer",
           UNCHANGED <<evq, wake, releasing, armed, stopped>>,
           Shape', place'["nimble"] = "wait" => place["nimble"] = "wait"
    PROVE  QueueInv'
<1> USE DEF QueueInv
<1>1. TimerPosts'
  BY DEF TimerPosts, Shape
<1>2. posting'["timer"] = posting["timer"]
  BY DEF Shape, Threads
<1> QED BY <1>1, <1>2 DEF LinkedOnce, NoLostWake, StoppedIsSilent, Queued

-----------------------------------------------------------------------------
(* The whole host preserves the queue.                                     *)

LEMMA HostKeeps ==
    ASSUME QueueInv, Handle \/ Notify \/ Transmit \/ Handled PROVE QueueInv'
<1> DEFINE Moved == \E p \in {"run", "acl", "get"} : place' = [place EXCEPT !["nimble"] = p]
<1>1. UNCHANGED <<evq, wake, releasing, armed, stopped>>
  BY DEF Handle, Notify, Transmit, Handled, ble_transport_to_ll_cmd_impl, alloc_acl,
         to_ll_acl, nplvars
<1>2. posting' = posting \/ posting' = [posting EXCEPT !["nimble"] = "notify"]
  BY DEF Handle, Notify, Transmit, Handled, ble_transport_to_ll_cmd_impl, alloc_acl,
         to_ll_acl, nplvars, Post
<1>3. place' = place \/ Moved
  BY DEF Handle, Notify, Transmit, Handled, ble_transport_to_ll_cmd_impl, alloc_acl,
         to_ll_acl, nplvars, Goto
<1>4. Shape' /\ (place'["nimble"] = "wait" => place["nimble"] = "wait")
  BY <1>1, <1>2, <1>3 DEF QueueInv, Shape, Events
<1> QED BY <1>1, <1>2, <1>4, OtherKeeps DEF Threads, Events

LEMMA WorkerKeeps == ASSUME QueueInv, Worker PROVE QueueInv'
<1> DEFINE Moved == \E p \in {"pump", "sleep", "loop"} : place' = [place EXCEPT !["btctrl"] = p]
<1>1. UNCHANGED <<evq, wake, releasing, armed, stopped>>
  BY DEF Worker, RunJob, Pump, Woken
<1>2. \/ posting' = posting
      \/ posting' = [posting EXCEPT !["btctrl"] = "rx"]
      \/ posting' = [posting EXCEPT !["btctrl"] = "reset"]
  BY DEF Worker, RunJob, Pump, Woken, Fault, Post
<1>3. Moved
  BY DEF Worker, RunJob, Pump, Woken, Goto
<1>4. Shape' /\ place'["nimble"] = place["nimble"]
  BY <1>1, <1>2, <1>3 DEF QueueInv, Shape, Events
<1> QED BY <1>1, <1>2, <1>4, OtherKeeps DEF Threads, Events

LEMMA ShellKeeps == ASSUME QueueInv, ble PROVE QueueInv'
<1>1. /\ UNCHANGED <<evq, wake, releasing, place, armed, stopped>>
      /\ posting' = [posting EXCEPT !["shell"] = "control"]
  BY DEF ble, Post
<1>2. Shape'
  BY <1>1 DEF QueueInv, Shape, Events
<1> QED BY <1>1, <1>2, OtherKeeps DEF Threads, Events

LEMMA QueueInduction == QueueInv /\ [Next]_vars => QueueInv'
<1> SUFFICES ASSUME QueueInv, [Next]_vars PROVE QueueInv'
  OBVIOUS
<1>1. ASSUME NEW t \in Threads, Put(t) PROVE QueueInv'
  BY <1>1, PutKeeps, ReleaseKeeps DEF Put
<1>2. CASE Host
  BY <1>2, LoopKeeps, HostKeeps, CalloutKeeps DEF Host
<1>3. CASE Timer \/ Worker \/ ble
  BY <1>3, TimerKeeps, WorkerKeeps, ShellKeeps
<1>4. CASE UNCHANGED vars
  <2>1. UNCHANGED <<evq, wake, posting, releasing, place, armed, stopped>>
    BY <1>4 DEF vars, nplvars
  <2> QED BY <2>1 DEF QueueInv, Shape, TimerPosts, LinkedOnce, NoLostWake,
             StoppedIsSilent, Queued
<1> QED BY <1>1, <1>2, <1>3, <1>4 DEF Next

LEMMA QueueInit == Init => QueueInv
<1> SUFFICES ASSUME Init PROVE QueueInv
  OBVIOUS
<1>1. /\ evq = <<>> /\ wake = 0 /\ posting = [t \in Threads |-> None]
      /\ place = [btctrl |-> "loop", nimble |-> "get"] /\ ~armed /\ ~stopped
  BY DEF Init, NplInit
<1>2. Shape
  BY <1>1, NplAssumption DEF Shape
<1> QED BY <1>1, <1>2 DEF QueueInv, TimerPosts, LinkedOnce, NoLostWake, StoppedIsSilent,
           None, Threads

\* The worker with a host is the host's transport; without one the host rests.
LEMMA WorkerServesHost == WorkerSpec => SafeSpec
<1>1. WorkerInit => Init
  BY DEF WorkerInit
<1>2. [WorkerNext]_allvars => [Next]_vars
  BY DEF WorkerNext, allvars
<1> QED BY <1>1, <1>2, PTL DEF WorkerSpec, SafeSpec

\* No wake-up is lost (npl_rtthread.c:33), whoever runs between the critical
\* section of a put and its release.
THEOREM WakeNeverLost == WorkerSpec => []NoLostWake
<1>1. QueueInv => NoLostWake
  BY DEF QueueInv
<1> QED BY <1>1, QueueInit, QueueInduction, WorkerServesHost, PTL DEF SafeSpec

\* A callout that was stopped stays silent until its next reset
\* (npl_rtthread.c:97-101), because its stop never runs inside its expiry.
THEOREM StoppedStaysSilent == WorkerSpec => []StoppedIsSilent
<1>1. QueueInv => StoppedIsSilent
  BY DEF QueueInv
<1> QED BY <1>1, QueueInit, QueueInduction, WorkerServesHost, PTL DEF SafeSpec

-----------------------------------------------------------------------------
(* The ACL buffers.                                                        *)

\* The types the argument needs; the host holds a slot exactly while it fills it.
SlotsShape ==
    /\ used \in [Slots -> BOOLEAN] /\ jobs \in Seq(Slots \cup {Command})
    /\ slot \in Slots \cup {None}
    /\ slot # None <=> place["nimble"] = "acl"

InJobs(x) == \E i \in 1..Len(jobs) : jobs[i] = x

\* A slot is used while it is in hand or queued, it is queued once, and the
\* one in hand is not queued.
Flags == \A s \in Slots : used[s] <=> slot = s \/ InJobs(s)
SlotsOnce ==
    /\ \A i, j \in 1..Len(jobs) : jobs[i] = jobs[j] /\ jobs[i] \in Slots => i = j
    /\ slot \in Slots => ~InJobs(slot)

SlotsInv == SlotsShape /\ Flags /\ SlotsOnce

LEMMA SlotsFollow == SlotsInv => SlotsAccounted
<1> SUFFICES ASSUME SlotsInv, NEW s \in Slots
             PROVE  IF used[s] THEN \E p \in 0..Len(jobs) : Places(s) = {p} ELSE Places(s) = {}
  BY DEF SlotsAccounted
<1>0. Len(jobs) \in Nat
  BY DEF SlotsInv, SlotsShape
<1>1. CASE slot = s
  <2>1. used[s] /\ \A i \in 1..Len(jobs) : jobs[i] # s
    BY <1>1 DEF SlotsInv, Flags, SlotsOnce, InJobs
  <2>2. Places(s) = {0}
    BY <1>0, <1>1, <2>1 DEF Places
  <2> QED BY <1>0, <2>1, <2>2
<1>2. CASE slot # s /\ InJobs(s)
  <2>1. PICK i \in 1..Len(jobs) : jobs[i] = s
    BY <1>2 DEF InJobs
  <2>2. \A j \in 1..Len(jobs) : jobs[j] = s => j = i
    BY <2>1 DEF SlotsInv, SlotsOnce
  <2>3. Places(s) = {i}
    BY <1>0, <1>2, <2>1, <2>2 DEF Places
  <2> QED BY <1>0, <1>2, <2>3 DEF SlotsInv, Flags
<1>3. CASE slot # s /\ ~InJobs(s)
  <2>1. Places(s) = {} /\ ~used[s]
    BY <1>0, <1>3 DEF Places, InJobs, SlotsInv, Flags
  <2> QED BY <2>1
<1> QED BY <1>1, <1>2, <1>3

\* A queue with one more job, or without the first one.
OnceIn(q) == \A i, j \in 1..Len(q) : q[i] = q[j] /\ q[i] \in Slots => i = j
In(q, x) == \E i \in 1..Len(q) : q[i] = x

LEMMA Submitted ==
    ASSUME NEW q \in Seq(Slots \cup {Command}), NEW j \in Slots \cup {Command},
           OnceIn(q), j \in Slots => ~In(q, j)
    PROVE  /\ Append(q, j) \in Seq(Slots \cup {Command}) /\ OnceIn(Append(q, j))
           /\ \A x : In(Append(q, j), x) <=> In(q, x) \/ x = j
<1>1. /\ Append(q, j) \in Seq(Slots \cup {Command})
      /\ Len(Append(q, j)) = Len(q) + 1 /\ Len(q) \in Nat
  OBVIOUS
<1>2. \A i \in 1..(Len(q) + 1) : Append(q, j)[i] = IF i \in 1..Len(q) THEN q[i] ELSE j
  OBVIOUS
<1>3. OnceIn(Append(q, j))
  BY <1>1, <1>2 DEF OnceIn, In
<1>4. \A x : In(Append(q, j), x) <=> In(q, x) \/ x = j
  BY <1>1, <1>2 DEF In
<1> QED BY <1>1, <1>3, <1>4

LEMMA Served ==
    ASSUME NEW q \in Seq(Slots \cup {Command}), q # <<>>, OnceIn(q)
    PROVE  /\ Tail(q) \in Seq(Slots \cup {Command}) /\ OnceIn(Tail(q))
           /\ Head(q) \in Slots \cup {Command}
           /\ \A x : In(q, x) <=> x = Head(q) \/ In(Tail(q), x)
           /\ Head(q) \in Slots => ~In(Tail(q), Head(q))
<1>1. /\ Tail(q) \in Seq(Slots \cup {Command}) /\ Len(Tail(q)) = Len(q) - 1
      /\ Len(q) \in Nat /\ Len(q) >= 1 /\ Head(q) = q[1] /\ q[1] \in Slots \cup {Command}
      /\ \A i \in 1..(Len(q) - 1) : Tail(q)[i] = q[i + 1]
  BY TailElements
<1>2. OnceIn(Tail(q))
  BY <1>1 DEF OnceIn
<1>3. \A i \in 1..Len(q) : i = 1 \/ (i - 1 \in 1..(Len(q) - 1) /\ q[i] = Tail(q)[i - 1])
  BY <1>1
<1>4. \A x : In(q, x) <=> x = Head(q) \/ In(Tail(q), x)
  BY <1>1, <1>3 DEF In
<1>5. Head(q) \in Slots => ~In(Tail(q), Head(q))
  BY <1>1 DEF OnceIn, In
<1> QED BY <1>1, <1>2, <1>4, <1>5

LEMMA NotASlot == Command \notin Slots /\ None \notin Slots
BY TransportAssumption

\* Where the buffers are does not change, nor whether the host fills one.
LEMMA SlotsUntouched ==
    ASSUME SlotsInv, UNCHANGED hcivars, place'["nimble"] = "acl" <=> place["nimble"] = "acl"
    PROVE  SlotsInv'
BY DEF SlotsInv, SlotsShape, Flags, SlotsOnce, InJobs, hcivars

LEMMA AllocKeeps == ASSUME Shape, SlotsInv, alloc_acl PROVE SlotsInv'
<1>1. PICK s \in Slots : ~used[s] /\ slot' = s /\ used' = [used EXCEPT ![s] = TRUE]
  BY DEF alloc_acl
<1>2. jobs' = jobs /\ place["nimble"] = "run" /\ place' = [place EXCEPT !["nimble"] = "acl"]
  BY DEF alloc_acl, At, Goto
<1>3. place'["nimble"] = "acl" /\ slot = None
  BY <1>2 DEF Shape, SlotsInv, SlotsShape
<1>4. SlotsShape'
  BY <1>1, <1>2, <1>3, NotASlot DEF SlotsInv, SlotsShape
<1>5. ~InJobs(s)
  BY <1>1 DEF SlotsInv, Flags
<1> QED BY <1>1, <1>2, <1>3, <1>4, <1>5, NotASlot DEF SlotsInv, SlotsShape, Flags, SlotsOnce, InJobs

LEMMA ToLlKeeps == ASSUME Shape, SlotsInv, to_ll_acl PROVE SlotsInv'
<1>1. slot' = None /\ place["nimble"] = "acl" /\ place' = [place EXCEPT !["nimble"] = "run"]
  BY DEF to_ll_acl, At, Goto
<1>2. place'["nimble"] = "run" /\ slot \in Slots /\ used[slot] /\ ~InJobs(slot)
  BY <1>1 DEF Shape, SlotsInv, SlotsShape, Flags, SlotsOnce
<1>3. CASE jobs' = Append(jobs, slot) /\ used' = used
  <2>1. /\ jobs' \in Seq(Slots \cup {Command}) /\ OnceIn(jobs')
        /\ \A x : In(jobs', x) <=> In(jobs, x) \/ x = slot
    BY <1>2, <1>3, Submitted DEF SlotsInv, SlotsShape, SlotsOnce, OnceIn, In, InJobs
  <2>2. SlotsShape'
    BY <1>1, <1>2, <1>3, <2>1 DEF SlotsInv, SlotsShape
  <2>3. Flags'
    BY <1>1, <1>2, <1>3, <2>1, NotASlot DEF SlotsInv, Flags, In, InJobs
  <2>4. SlotsOnce'
    BY <1>1, <2>1, NotASlot DEF SlotsOnce, OnceIn
  <2> QED BY <2>2, <2>3, <2>4 DEF SlotsInv
<1>4. CASE jobs' = jobs /\ used' = [used EXCEPT ![slot] = FALSE]
  BY <1>1, <1>2, <1>4, NotASlot DEF SlotsInv, SlotsShape, Flags, SlotsOnce, InJobs
<1> QED BY <1>3, <1>4 DEF to_ll_acl, Submit

LEMMA CommandKeeps == ASSUME Shape, SlotsInv, ble_transport_to_ll_cmd_impl PROVE SlotsInv'
<1>1. used' = used /\ slot' = slot /\ place' = place
  BY DEF ble_transport_to_ll_cmd_impl, nplvars
<1>2. CASE jobs' = jobs
  BY <1>1, <1>2 DEF SlotsInv, SlotsShape, Flags, SlotsOnce, InJobs
<1>3. CASE jobs' = Append(jobs, Command)
  <2>1. /\ jobs' \in Seq(Slots \cup {Command}) /\ OnceIn(jobs')
        /\ \A x : In(jobs', x) <=> In(jobs, x) \/ x = Command
    BY <1>3, NotASlot, Submitted DEF SlotsInv, SlotsShape, SlotsOnce, OnceIn
  <2>2. \A s \in Slots : In(jobs', s) <=> In(jobs, s)
    BY <2>1, NotASlot
  <2> QED BY <1>1, <2>1, <2>2 DEF SlotsInv, SlotsShape, Flags, SlotsOnce, OnceIn, In, InJobs
<1> QED BY <1>2, <1>3 DEF ble_transport_to_ll_cmd_impl, Submit, Refused

LEMMA JobKeeps == ASSUME Shape, SlotsInv, RunJob PROVE SlotsInv'
<1>1. slot' = slot /\ place' = [place EXCEPT !["btctrl"] = "pump"]
  BY DEF RunJob, Goto
<1>2. place'["nimble"] = place["nimble"]
  BY <1>1 DEF Shape
<1>3. CASE jobs = <<>>
  BY <1>1, <1>2, <1>3 DEF RunJob, SlotsInv, SlotsShape, Flags, SlotsOnce, InJobs
<1>4. CASE jobs # <<>>
  <2>1. /\ jobs' = Tail(jobs)
        /\ used' = IF Head(jobs) = Command THEN used ELSE [used EXCEPT ![Head(jobs)] = FALSE]
    BY <1>4 DEF RunJob
  <2>2. /\ jobs' \in Seq(Slots \cup {Command}) /\ OnceIn(jobs')
        /\ Head(jobs) \in Slots \cup {Command}
        /\ \A x : In(jobs, x) <=> x = Head(jobs) \/ In(jobs', x)
        /\ Head(jobs) \in Slots => ~In(jobs', Head(jobs))
    BY <1>4, <2>1, Served DEF SlotsInv, SlotsShape, SlotsOnce, OnceIn
  <2>3. SlotsShape'
    BY <1>1, <1>2, <2>1, <2>2 DEF SlotsInv, SlotsShape
  <2>4. SlotsOnce'
    BY <1>1, <2>2 DEF SlotsInv, SlotsOnce, OnceIn, In, InJobs
  <2>5. slot \in Slots => Head(jobs) # slot
    BY <2>2 DEF SlotsInv, SlotsOnce, In, InJobs
  <2>6. ASSUME NEW s \in Slots PROVE used'[s] <=> slot' = s \/ In(jobs', s)
    <3>1. used[s] <=> slot = s \/ In(jobs, s)
      BY DEF SlotsInv, Flags, In, InJobs
    <3>2. CASE Head(jobs) = s
      BY <1>1, <2>1, <2>2, <2>5, <3>2, NotASlot DEF SlotsInv, SlotsShape
    <3>3. CASE Head(jobs) # s
      BY <1>1, <2>1, <2>2, <3>1, <3>3, NotASlot DEF SlotsInv, SlotsShape
    <3> QED BY <3>2, <3>3
  <2>7. Flags'
    BY <2>6 DEF Flags, In, InJobs
  <2> QED BY <2>3, <2>4, <2>7 DEF SlotsInv
<1> QED BY <1>3, <1>4

LEMMA SlotsInduction == Shape /\ SlotsInv /\ [Next]_vars => SlotsInv'
<1> SUFFICES ASSUME Shape, SlotsInv, [Next]_vars PROVE SlotsInv'
  OBVIOUS
<1>1. CASE \E t \in Threads : Put(t)
  BY <1>1, SlotsUntouched DEF Put, ble_npl_eventq_put, sem_release
<1>2. CASE Loop
  <2>1. UNCHANGED hcivars /\ place["nimble"] # "acl" /\ place'["nimble"] # "acl"
    BY <1>2 DEF Loop, ble_npl_eventq_get, sem_take_0, sem_take, At, Goto, Shape
  <2> QED BY <2>1, SlotsUntouched
<1>3. CASE Handled
  <2>1. UNCHANGED hcivars /\ place["nimble"] # "acl" /\ place'["nimble"] # "acl"
    BY <1>3 DEF Handled, At, Goto, Shape
  <2> QED BY <2>1, SlotsUntouched
<1>4. CASE Handle \/ Callout \/ Notify \/ Timer \/ ble
  <2>1. UNCHANGED hcivars /\ place' = place
    BY <1>4 DEF Handle, Callout, Notify, Timer, ble, callout_fire
  <2> QED BY <2>1, SlotsUntouched
<1>5. CASE Transmit
  BY <1>5, AllocKeeps, ToLlKeeps, CommandKeeps DEF Transmit
<1>6. CASE Worker
  <2>1. CASE RunJob
    BY <2>1, JobKeeps
  <2>2. CASE Pump \/ Woken
    <3>1. UNCHANGED hcivars /\ place'["nimble"] = place["nimble"]
      BY <2>2 DEF Pump, Woken, Goto, Shape
    <3> QED BY <3>1, SlotsUntouched
  <2> QED BY <1>6, <2>1, <2>2 DEF Worker
<1>7. CASE UNCHANGED vars
  BY <1>7, SlotsUntouched DEF vars, nplvars
<1> QED BY <1>1, <1>2, <1>3, <1>4, <1>5, <1>6, <1>7 DEF Next, Host

LEMMA SlotsInit == Init => SlotsInv
BY NotASlot DEF Init, NplInit, HciInit, SlotsInv, SlotsShape, Flags, SlotsOnce, InJobs, None

\* Each of the ACL buffers is in one place while its flag is set, and nowhere
\* when it is clear, for every number of buffers and every length of the queue:
\* no path of transport_ab32.c loses a buffer or gives it back twice.
THEOREM SlotsAreAccounted == WorkerSpec => []SlotsAccounted
<1>1. QueueInv => Shape
  BY DEF QueueInv
<1> QED BY <1>1, QueueInit, QueueInduction, SlotsInit, SlotsInduction, SlotsFollow,
        WorkerServesHost, PTL
        DEF SafeSpec

-----------------------------------------------------------------------------
(* What the application believes.                                          *)

AppInv == connected \in BOOLEAN /\ synced \in BOOLEAN /\ adv_active \in BOOLEAN
          /\ failed \in BOOLEAN /\ by_shell \in BOOLEAN /\ NeverDark

LEMMA AppInduction == AppInv /\ [Next]_vars => AppInv'
<1> SUFFICES ASSUME AppInv, [Next]_vars PROVE AppInv'
  OBVIOUS
<1>1. CASE Handle
  <2>1. CASE on_sync
    BY <2>1 DEF on_sync, Advertise, AppInv, NeverDark
  <2>2. CASE on_reset
    BY <2>2 DEF on_reset, AppInv, NeverDark
  <2>3. CASE Connect
    BY <2>3 DEF Connect, Advertise, AppInv, NeverDark
  <2>4. CASE Disconnect
    BY <2>4 DEF Disconnect, Advertise, AppInv, NeverDark
  <2>5. CASE AdvComplete
    BY <2>5 DEF AdvComplete, Advertise, AppInv, NeverDark
  <2>6. CASE control
    BY <2>6 DEF control, Advertise, AppInv, NeverDark
  <2>7. CASE Other
    BY <2>7 DEF Other, appvars, AppInv, NeverDark
  <2> QED BY <1>1, <2>1, <2>2, <2>3, <2>4, <2>5, <2>6, <2>7 DEF Handle
<1>2. CASE Loop \/ Callout \/ Notify \/ Transmit \/ Handled \/ Timer \/ Worker
  BY <1>2 DEF Loop, Callout, Notify, Transmit, Handled, Timer, Worker, appvars, AppInv, NeverDark
<1>3. CASE ble
  BY <1>3 DEF ble, AppInv, NeverDark
<1>4. CASE (\E t \in Threads : Put(t)) \/ UNCHANGED vars
  BY <1>4 DEF Put, vars, appvars, AppInv, NeverDark
<1> QED BY <1>1, <1>2, <1>3, <1>4 DEF Next, Host

\* Whatever order connections, resets, failed starts and the shell's requests
\* come in, a synchronised host without a connection advertises, unless the
\* shell stopped it or the last start failed.
THEOREM NeverGoesDark == WorkerSpec => []NeverDark
<1>1. Init => AppInv
  BY DEF Init, AppInv, NeverDark
<1>2. AppInv => NeverDark
  BY DEF AppInv
<1> QED BY <1>1, <1>2, AppInduction, WorkerServesHost, PTL DEF SafeSpec

-----------------------------------------------------------------------------
(* The diagnostic commands.                                                *)

\* The worker has a command at hand whenever it is not idle.
CmdInv ==
    /\ todo \in Seq(HciCommands) /\ inbox \in Seq(HciCommands)
    /\ at \in {"idle", "send", "wait"} /\ request \in Requests \cup {"none"}
    /\ at # "idle" => todo # <<>>

LEMMA PlanTyped == ASSUME NEW r \in Requests PROVE Plan(r) \in Seq(HciCommands)
<1>1. \A c \in HciCommands : <<c>> \in Seq(HciCommands)
  OBVIOUS
<1>2. AdvOff \in HciCommands /\ ScanOff \in HciCommands
  BY DEF HciCommands, Opcodes, AdvOff, ScanOff, Cmd
<1>3. \A b : Turn(b, AdvOff) \in Seq(HciCommands) /\ Turn(b, ScanOff) \in Seq(HciCommands)
  <2>1. <<>> \in Seq(HciCommands)
    OBVIOUS
  <2> QED BY <1>1, <1>2, <2>1 DEF Turn
<1>4. AdvStart \in Seq(HciCommands)
  <2>1. \A a, b, c, d \in HciCommands : <<a, b, c, d>> \in Seq(HciCommands)
    OBVIOUS
  <2>2. /\ Cmd("0x2005", FALSE) \in HciCommands /\ Cmd("0x2006", FALSE) \in HciCommands
        /\ Cmd("0x2008", FALSE) \in HciCommands /\ Cmd("0x200a", TRUE) \in HciCommands
    BY DEF HciCommands, Opcodes, Cmd
  <2> QED BY <2>1, <2>2 DEF AdvStart
<1>5. ScanStart \in Seq(HciCommands)
  <2>1. \A a, b, c \in HciCommands : <<a, b, c>> \in Seq(HciCommands)
    OBVIOUS
  <2>2. /\ Cmd("0x0c01", FALSE) \in HciCommands /\ Cmd("0x200b", FALSE) \in HciCommands
        /\ Cmd("0x200c", TRUE) \in HciCommands
    BY DEF HciCommands, Opcodes, Cmd
  <2> QED BY <2>1, <2>2 DEF ScanStart
<1>6. \A s, t \in Seq(HciCommands) : s \o t \in Seq(HciCommands)
  OBVIOUS
<1> QED BY <1>3, <1>4, <1>5, <1>6 DEF Plan, Requests

LEMMA TailTyped ==
    ASSUME NEW S, NEW q \in Seq(S), q # <<>>
    PROVE  /\ Tail(q) \in Seq(S) /\ Len(Tail(q)) = Len(q) - 1 /\ Head(q) \in S
OBVIOUS

LEMMA CommandStarts == CmdInit => CmdInv
<1> SUFFICES ASSUME CmdInit PROVE CmdInv
  OBVIOUS
<1>1. Bringup \in Seq(HciCommands)
  <2>1. \A a, b, c, d \in HciCommands : <<a, b, c, d>> \in Seq(HciCommands)
    OBVIOUS
  <2>2. /\ Cmd("0x0c03", FALSE) \in HciCommands /\ Cmd("0x1001", FALSE) \in HciCommands
        /\ Cmd("0x1009", FALSE) \in HciCommands /\ Cmd("0x2002", FALSE) \in HciCommands
    BY DEF HciCommands, Opcodes, Cmd
  <2> QED BY <2>1, <2>2 DEF Bringup
<1>2. Bringup # <<>>
  BY DEF Bringup
<1>3. inbox = <<>> /\ inbox \in Seq(HciCommands) /\ Len(inbox) = 0
  BY DEF CmdInit
<1> QED BY <1>1, <1>2, <1>3 DEF CmdInit, CmdInv

LEMMA CmdInduction == CmdInv /\ [CmdNext]_cmdvars => CmdInv'
<1> SUFFICES ASSUME CmdInv, [CmdNext]_cmdvars PROVE CmdInv'
  OBVIOUS
<1> USE DEF CmdInv
<1>0. <<>> \in Seq(HciCommands)
  OBVIOUS
<1>1. CASE btctl
  BY <1>1 DEF btctl, worker_state, controller
<1>2. CASE TakeRequest
  <2>1. request \in Requests /\ Plan(request) \in Seq(HciCommands)
    BY <1>2, PlanTyped DEF TakeRequest
  <2>2. /\ inbox' = inbox
        /\ \/ at' = "idle" /\ todo' = <<>> /\ request' = "none"
           \/ at' = "send" /\ todo' = Plan(request) /\ todo' # <<>> /\ request' = request
    BY <1>2 DEF TakeRequest, Finish
  <2> QED BY <1>0, <2>1, <2>2
<1>3. CASE Send
  <2>1. todo # <<>> /\ todo' = todo /\ at' = "wait" /\ request' = request
    BY <1>3 DEF Send
  <2>2. Append(inbox, Head(todo)) \in Seq(HciCommands)
    BY <2>1, TailTyped
  <2>3. inbox' \in {inbox, Append(inbox, Head(todo))}
    BY <1>3 DEF Send, hct_send_command
  <2> QED BY <2>1, <2>2, <2>3
<1>4. CASE PumpController
  <2>1. inbox # <<>> /\ inbox' = Tail(inbox) /\ UNCHANGED <<request, at, todo>>
    BY <1>4 DEF PumpController
  <2> QED BY <2>1, TailTyped
<1>5. CASE Answered
  <2>1. todo # <<>> /\ Tail(todo) \in Seq(HciCommands)
    BY <1>5, TailTyped DEF Answered
  <2>2. /\ inbox' = inbox
        /\ \/ at' = "idle" /\ todo' = <<>> /\ request' = "none"
           \/ at' = "send" /\ todo' = Tail(todo) /\ todo' # <<>> /\ request' = request
    BY <1>5 DEF Answered, Finish
  <2> QED BY <1>0, <2>1, <2>2
<1>6. CASE GivenUp
  <2>1. at' = "idle" /\ todo' = <<>> /\ request' = "none" /\ inbox' = inbox
    BY <1>6 DEF GivenUp, Finish
  <2> QED BY <1>0, <2>1
<1>7. CASE IdleLoop \/ UNCHANGED cmdvars
  BY <1>7 DEF IdleLoop, cmdvars
<1> QED BY <1>1, <1>2, <1>3, <1>4, <1>5, <1>6, <1>7 DEF CmdNext

\* A worker without a host, or one step of nothing.
LEMMA WorkerServesCommands == WorkerSpec => CmdInit /\ [][CmdNext]_cmdvars
<1>1. WorkerInit => CmdInit
  BY DEF WorkerInit
<1>2. [WorkerNext]_allvars => [CmdNext]_cmdvars
  BY DEF WorkerNext, allvars
<1> QED BY <1>1, <1>2, PTL DEF WorkerSpec

-----------------------------------------------------------------------------
(* Types.                                                                  *)

\* What the invariants above leave open of the host's types.
HostTyped ==
    /\ releasing \in SUBSET Threads /\ ev \in Events \cup {None} /\ armed \in BOOLEAN
    /\ stopped \in BOOLEAN /\ cmd \in 0..1 /\ action \in {None, "adv", "stop"}

LEMMA HostTypesKept == Shape /\ HostTyped /\ [Next]_vars => HostTyped'
<1> SUFFICES ASSUME Shape, HostTyped, [Next]_vars PROVE HostTyped'
  OBVIOUS
<1> USE DEF Next, Host, Loop, Handle, Callout, Notify, Transmit, Handled, Timer, Worker, ble, vars
<1> USE DEF sem_take_0, sem_take, callout_fire, RunJob, Pump, Woken, to_ll_acl, alloc_acl,
            ble_transport_to_ll_cmd_impl, hcivars, nplvars
<1>1. releasing' \in SUBSET Threads
  <2>1. ASSUME NEW t \in Threads, Put(t) PROVE releasing' \in SUBSET Threads
    BY <2>1 DEF HostTyped, Put, ble_npl_eventq_put, sem_release
  <2>2. CASE Host \/ Timer \/ Worker \/ ble \/ UNCHANGED vars
    BY <2>2 DEF HostTyped, ble_npl_eventq_get
  <2> QED BY <2>1, <2>2
<1>2. ev' \in Events \cup {None}
  <2>1. CASE ble_npl_eventq_get
    BY <2>1 DEF HostTyped, ble_npl_eventq_get, Shape
  <2>2. ev' = None \/ ev' = ev \/ ble_npl_eventq_get
    BY DEF Put, ble_npl_eventq_put, sem_release
  <2> QED BY <2>1, <2>2 DEF HostTyped
<1>3. armed' \in BOOLEAN /\ stopped' \in BOOLEAN
  <2>1. /\ armed' = armed \/ armed' = TRUE \/ armed' = FALSE
        /\ stopped' = stopped \/ stopped' = TRUE \/ stopped' = FALSE
    BY DEF Put, ble_npl_eventq_put, sem_release, ble_npl_eventq_get, callout_stop, callout_reset
  <2> QED BY <2>1 DEF HostTyped
<1>4. cmd' \in 0..1
  <2>1. cmd' = cmd \/ cmd' = 0 \/ cmd' = 1
    BY DEF Put
  <2> QED BY <2>1 DEF HostTyped
<1>5. action' \in {None, "adv", "stop"}
  BY DEF HostTyped, Put, appvars, on_sync, on_reset, Connect, Disconnect, AdvComplete, control, Other
<1> QED BY <1>1, <1>2, <1>3, <1>4, <1>5 DEF HostTyped

\* The queue, the transport and the application keep their types: no token beyond
\* the semaphore's limit, no job that is neither a command nor a slot, no event the
\* host does not know.
THEOREM HostTypesCorrect == WorkerSpec => [](NplTypeOK /\ HciTypeOK /\ AppTypeOK)
<1>1. Init => HostTyped /\ AppInv
  <2> SUFFICES ASSUME Init PROVE HostTyped /\ AppInv
    OBVIOUS
  <2>1. AppInv
    BY DEF Init, AppInv, NeverDark
  <2>2. /\ releasing = {} /\ ev = None /\ armed = FALSE /\ stopped = FALSE
        /\ cmd = 0 /\ action = None
    BY DEF Init, NplInit, HciInit
  <2>3. releasing \in SUBSET Threads /\ ev \in Events \cup {None} /\ cmd \in 0..1
    BY <2>2
  <2>4. armed \in BOOLEAN /\ stopped \in BOOLEAN
    BY <2>2
  <2>5. action \in {None, "adv", "stop"}
    BY <2>2
  <2>6. HostTyped
    BY <2>3, <2>4, <2>5 DEF HostTyped
  <2> QED BY <2>1, <2>6
<1>2. QueueInv => Shape
  BY DEF QueueInv
<1>3. QueueInv /\ SlotsInv /\ AppInv /\ HostTyped => NplTypeOK /\ HciTypeOK /\ AppTypeOK
  BY DEF QueueInv, Shape, SlotsInv, SlotsShape, AppInv, HostTyped, NplTypeOK, HciTypeOK, AppTypeOK
<1> QED BY <1>1, <1>2, <1>3, QueueInit, QueueInduction, SlotsInit, SlotsInduction, AppInduction,
           HostTypesKept, WorkerServesHost, PTL
       DEF SafeSpec

\* What they leave open of the types of the diagnostic mode.
CommandsTyped ==
    /\ Len(inbox) <= CREDITS /\ expected \in Opcodes \cup {"none"}
    /\ {matched, result, advertising, scanning, hci_passed, adv_on, scan_on} \subseteq BOOLEAN

LEMMA CommandsTypedKept == CmdInv /\ CommandsTyped /\ [CmdNext]_cmdvars => CommandsTyped'
<1> SUFFICES ASSUME CmdInv, CommandsTyped, [CmdNext]_cmdvars PROVE CommandsTyped'
  OBVIOUS
<1> USE DEF CommandsTyped, worker_state, controller
<1>0. todo \in Seq(HciCommands) /\ inbox \in Seq(HciCommands) /\ (at # "idle" => todo # <<>>)
  BY DEF CmdInv
<1>1. CASE btctl \/ TakeRequest \/ IdleLoop \/ GivenUp \/ UNCHANGED cmdvars
  <2>1. UNCHANGED <<inbox, expected, matched, result, advertising, scanning, hci_passed, adv_on,
                    scan_on>>
    BY <1>1 DEF btctl, TakeRequest, IdleLoop, GivenUp, cmdvars
  <2> QED BY <2>1
<1>2. CASE Send
  <2>1. /\ expected' = Head(todo).op /\ matched' = FALSE /\ at = "send"
        /\ UNCHANGED <<result, advertising, scanning, hci_passed, adv_on, scan_on>>
    BY <1>2 DEF Send
  <2>2. Head(todo) \in HciCommands
    BY <1>0, <2>1, TailTyped
  <2>3. expected' \in Opcodes
    BY <2>1, <2>2 DEF HciCommands
  <2>4. Len(inbox') <= CREDITS
    <3>1. inbox' = inbox \/ (Len(inbox) < CREDITS /\ inbox' = Append(inbox, Head(todo)))
      BY <1>2 DEF Send, hct_send_command
    <3>2. Len(Append(inbox, Head(todo))) = Len(inbox) + 1 /\ Len(inbox) \in Nat
      BY <1>0
    <3> QED BY <3>1, <3>2, CommandsAssumption
  <2> QED BY <2>1, <2>3, <2>4
<1>3. CASE PumpController
  <2>1. inbox # <<>> /\ inbox' = Tail(inbox)
    BY <1>3 DEF PumpController
  <2>2. Head(inbox) \in HciCommands /\ Len(inbox') = Len(inbox) - 1 /\ Len(inbox) \in Nat
    BY <1>0, <2>1, TailTyped
  <2>3. Head(inbox).on \in BOOLEAN
    BY <2>2 DEF HciCommands
  <2>4. /\ adv_on' \in BOOLEAN /\ scan_on' \in BOOLEAN /\ matched' \in BOOLEAN /\ result' \in BOOLEAN
    <3>1. adv_on' = adv_on \/ adv_on' = Head(inbox).on
      BY <1>3 DEF PumpController
    <3>2. scan_on' = scan_on \/ scan_on' = Head(inbox).on
      BY <1>3 DEF PumpController
    <3>3. \/ UNCHANGED <<matched, result>>
          \/ matched' = TRUE /\ result' \in BOOLEAN
      BY <1>3 DEF PumpController
    <3> QED BY <2>3, <3>1, <3>2, <3>3
  <2>5. UNCHANGED <<expected, advertising, scanning, hci_passed>>
    BY <1>3 DEF PumpController
  <2>6. Len(inbox') <= CREDITS
    BY <2>2, CommandsAssumption
  <2> QED BY <2>4, <2>5, <2>6
<1>4. CASE Answered
  <2>1. /\ at = "wait" /\ UNCHANGED <<expected, matched, result, inbox, adv_on, scan_on>>
        /\ advertising' = advertising \/ advertising' = Head(todo).on
        /\ scanning' = scanning \/ scanning' = Head(todo).on
        /\ hci_passed' \in BOOLEAN
    BY <1>4 DEF Answered
  <2>2. Head(todo) \in HciCommands
    BY <1>0, <2>1, TailTyped
  <2>3. Head(todo).on \in BOOLEAN
    BY <2>2 DEF HciCommands
  <2> QED BY <2>1, <2>3
<1> QED BY <1>1, <1>2, <1>3, <1>4 DEF CmdNext

\* The diagnostic mode keeps its types: the controller never holds more commands
\* than it gave credits.
THEOREM CommandTypesCorrect == WorkerSpec => []CmdTypeOK
<1>1. CmdInit => CommandsTyped
  <2> SUFFICES ASSUME CmdInit PROVE CommandsTyped
    OBVIOUS
  <2>1. Len(inbox) <= CREDITS
    BY CommandsAssumption DEF CmdInit
  <2>2. {matched, result, advertising, scanning, hci_passed, adv_on, scan_on} = {FALSE}
    BY DEF CmdInit
  <2>3. expected = "none"
    BY DEF CmdInit
  <2> QED BY <2>1, <2>2, <2>3 DEF CommandsTyped
<1>2. CmdInv /\ CommandsTyped => CmdTypeOK
  BY DEF CmdInv, CommandsTyped, CmdTypeOK
<1> QED BY <1>1, <1>2, CommandStarts, CmdInduction, CommandsTypedKept, WorkerServesCommands, PTL
=============================================================================
