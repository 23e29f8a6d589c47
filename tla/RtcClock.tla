------------------------------ MODULE RtcClock ------------------------------
(***************************************************************************)
(* Reading and setting the time (drv_rtc.c).  RTCCNT is read and written   *)
(* byte by byte over a bridge on which any transfer may time out, and it   *)
(* counts on meanwhile; the time of its first power-up, or of half a set,  *)
(* is marked by PWRUP_FIRST in RTCCON0.  rtc_lock admits one caller at a   *)
(* time: a get, a set, or power0, which changes another bit of RTCCON0.    *)
(* A reset, at any point, loses the RAM and keeps the RTC's registers; a   *)
(* loss of its supply loses those too.                                     *)
(*                                                                         *)
(* A transfer is far shorter than a second: at most one second falls into  *)
(* it.  Between two transfers the caller may be preempted, but a call does *)
(* not take BASE seconds (256): tears at two different carries, hours      *)
(* apart, could agree.                                                     *)
(* The bytes of a write are taken as loaded when the last one is there.    *)
(***************************************************************************)
EXTENDS Naturals, FiniteSets

CONSTANTS
    BASE,               \* the values of a byte: 256
    BYTES,              \* the bytes of RTCCNT: four
    TRIES,              \* samples after the first: three
    ELAPSE              \* seconds that pass during a call, at most

ASSUME RtcAssumption ==
    BASE \in Nat \ {0} /\ BYTES \in Nat \ {0} /\ TRIES \in Nat \ {0}
    /\ ELAPSE \in Nat /\ ELAPSE < BASE

Weight[i \in Nat] == IF i = 0 THEN 1 ELSE BASE * Weight[i - 1]
Counts == 0 .. (Weight[BYTES] - 1)
\* The i-th byte as it is transferred: the first is the most significant.
Byte(n, i) == (n \div Weight[BYTES - i]) % BASE

VARIABLES
    con0,               \* RTCCON0: of PWRUP_FIRST, CLOCK and LVD, the bits that are 1
    count,              \* RTCCNT
    rtc_initialized, rtc_uncertain,
    owner,              \* who holds rtc_lock: get, set, pm, or nobody
    step,               \* the transfer it is at
    byte,               \* bytes of this transfer that are done
    copy,               \* its con0
    value, previous,    \* the bytes read so far, as a number, and the last sample
    tries,
    answer,             \* the seconds the last get returned, as a set: {} for none
    \* History, read by no action of the driver:
    unset,              \* RTCCNT is not a time somebody set
    ticked,             \* a second fell into this transfer
    seen                \* what RTCCNT was during this call

locals == <<byte, copy, value, previous, tries>>
rtcvars == <<con0, count, rtc_initialized, rtc_uncertain, owner, step, locals, answer,
             unset, ticked, seen>>

Idle ==
    /\ owner' = "none" /\ step' = "none" /\ byte' = 0 /\ copy' = {}
    /\ value' = 0 /\ previous' = 0 /\ tries' = 0 /\ ticked' = FALSE

RtcInit ==
    /\ con0 = {"PWRUP_FIRST"} /\ count = 0 /\ unset = TRUE
    /\ rtc_initialized = FALSE /\ rtc_uncertain = FALSE
    /\ owner = "none" /\ step = "none" /\ byte = 0 /\ copy = {}
    /\ value = 0 /\ previous = 0 /\ tries = 0 /\ ticked = FALSE
    /\ answer = {} /\ seen = {}

-----------------------------------------------------------------------------
(* The world.                                                              *)
Second ==
    /\ owner # "none" /\ ~(step = "write" /\ byte > 0) /\ Cardinality(seen) <= ELAPSE
    /\ byte > 0 => ~ticked
    /\ count' = (count + 1) % Weight[BYTES]
    /\ ticked' = (byte > 0) /\ seen' = seen \cup {count'}
    /\ UNCHANGED <<con0, rtc_initialized, rtc_uncertain, owner, step, locals, answer, unset>>

\* A reset of the chip.
Reset ==
    /\ Idle /\ rtc_initialized' = FALSE /\ rtc_uncertain' = FALSE
    /\ answer' = {} /\ seen' = {}
    /\ UNCHANGED <<con0, count, unset>>

\* The RTC loses its supply.
PowerUp ==
    /\ Idle /\ rtc_initialized' = FALSE /\ rtc_uncertain' = FALSE
    /\ con0' = {"PWRUP_FIRST"} /\ count' = 0 /\ unset' = TRUE
    /\ answer' = {} /\ seen' = {}

-----------------------------------------------------------------------------
Goto(s) == step' = s /\ byte' = 0 /\ ticked' = FALSE

\* rtc_transfer failed: the call returns its error.
Fail == Idle /\ UNCHANGED <<rtc_initialized, answer, seen>>

\* A byte of RTCCON0: read, written, or a timeout with or without the effect.
ReadCon0(next) ==
    \/ copy' = con0 /\ Goto(next)
       /\ UNCHANGED <<owner, value, previous, tries, rtc_initialized, answer, seen>>
    \/ Fail
Written(bits) == con0' = bits
WriteFailed(bits) == (Written(bits) \/ UNCHANGED con0) /\ Fail

\* rtc_take by ab32_rtc_get_secs, ab32_rtc_set_secs or power0's shutdown, which
\* does not initialise the RTC.
rtc_take(o) ==
    /\ owner = "none" /\ owner' = o
    /\ Goto(IF o = "pm" THEN "pm" ELSE IF rtc_initialized THEN "con0" ELSE "init")
    /\ answer' = {} /\ seen' = {count}
    /\ UNCHANGED <<con0, count, rtc_initialized, rtc_uncertain, copy, value, previous, tries, unset>>

\* rtc_ensure_init: RTCCON0 and 2 are read, changed and written.  The read of
\* RTCCON2 and its write only add an error each.
rtc_ensure_init ==
    \/ step = "init" /\ ReadCon0("init con0") /\ UNCHANGED con0
    \/ /\ step = "init con0"
       /\ \/ /\ Written(copy \cup {"CLOCK"}) /\ Goto("con0")
             /\ rtc_initialized' = TRUE
             /\ UNCHANGED <<owner, copy, value, previous, tries, answer, seen>>
          \/ WriteFailed(copy \cup {"CLOCK"})

\* ab32_irtc_shutdown_update_locked: the low-voltage detector off or back on.
ShutdownUpdate ==
    \/ step = "pm" /\ ReadCon0("pm con0") /\ UNCHANGED con0
    \/ /\ step = "pm con0"
       /\ \E bits \in {copy \cup {"LVD"}, copy \ {"LVD"}} : WriteFailed(bits)

Begin ==
    /\ rtc_ensure_init \/ ShutdownUpdate
    /\ UNCHANGED <<count, rtc_uncertain, unset>>

-----------------------------------------------------------------------------
(* ab32_rtc_get_secs.                                                      *)
CheckCon0 ==
    /\ owner = "get" /\ step = "con0"
    /\ \/ /\ "PWRUP_FIRST" \notin con0 /\ ~rtc_uncertain
          /\ ReadCon0("first")
       \/ Fail
    /\ UNCHANGED <<con0, count, rtc_uncertain, unset>>

\* A byte of a sample, and what is made of the whole.
ReadByte ==
    /\ step \in {"first", "again"} /\ byte < BYTES
    /\ \/ /\ byte' = byte + 1 /\ value' = value * BASE + Byte(count, byte + 1)
          /\ UNCHANGED <<owner, step, copy, previous, tries, ticked, rtc_initialized, answer, seen>>
       \/ Fail
    /\ UNCHANGED <<con0, count, rtc_uncertain, unset>>

\* Whatever the second sample says is taken: a mutant.
Consistent_any == TRUE

\* Equal, or one second later, modulo 2^32.
Consistent == value \in {previous, (previous + 1) % Weight[BYTES]}

Sampled ==
    /\ byte = BYTES
    /\ \/ /\ step = "again" /\ Consistent
          /\ Idle /\ answer' = {value} /\ UNCHANGED <<rtc_initialized, seen>>
       \/ /\ step = "first" \/ (step = "again" /\ ~Consistent /\ tries < TRIES)
          /\ Goto("again") /\ previous' = value /\ value' = 0 /\ tries' = tries + 1
          /\ UNCHANGED <<owner, copy, rtc_initialized, answer, seen>>
       \/ step = "again" /\ ~Consistent /\ tries = TRIES /\ Fail
    /\ UNCHANGED <<con0, count, rtc_uncertain, unset>>

-----------------------------------------------------------------------------
(* ab32_rtc_set_secs.                                                      *)
SetBegins ==
    /\ owner = "set" /\ step = "con0"
    /\ ReadCon0("mark")
    /\ rtc_uncertain' = (rtc_uncertain \/ step' = "mark")
    /\ UNCHANGED <<con0, count, unset>>

\* The time is written before it is marked: a mutant.
Mark_after ==
    /\ step = "mark" /\ Goto("write")
    /\ UNCHANGED <<con0, count, rtc_initialized, rtc_uncertain, owner, copy, value, previous,
                   tries, answer, unset, seen>>

Mark ==
    /\ step = "mark"
    /\ \/ /\ Written(copy \cup {"PWRUP_FIRST"}) /\ Goto("write")
          /\ UNCHANGED <<owner, copy, value, previous, tries, rtc_initialized, answer, seen>>
       \/ WriteFailed(copy \cup {"PWRUP_FIRST"})
    /\ UNCHANGED <<count, rtc_uncertain, unset>>

\* A byte of the new time: until the last, RTCCNT is neither the old nor the new.
Loaded ==
    /\ unset' = (byte + 1 < BYTES)
    /\ IF byte + 1 < BYTES THEN UNCHANGED count ELSE count' \in Counts

WriteByte ==
    /\ step = "write" /\ byte < BYTES
    /\ \/ /\ byte' = byte + 1 /\ Loaded
          /\ UNCHANGED <<owner, step, copy, value, previous, tries, ticked, rtc_initialized,
                         answer, seen>>
       \/ (Loaded \/ UNCHANGED <<count, unset>>) /\ Fail
    /\ UNCHANGED <<con0, rtc_uncertain>>

Unmark ==
    /\ step = "write" /\ byte = BYTES
    /\ \/ /\ Written(copy \ {"PWRUP_FIRST"}) /\ Idle /\ rtc_uncertain' = FALSE
          /\ UNCHANGED <<rtc_initialized, answer, seen>>
       \/ WriteFailed(copy \ {"PWRUP_FIRST"}) /\ UNCHANGED rtc_uncertain
    /\ UNCHANGED <<count, unset>>

RtcNext ==
    \/ Second \/ Reset \/ PowerUp
    \/ \E o \in {"get", "set", "pm"} : rtc_take(o)
    \/ Begin \/ CheckCon0 \/ ReadByte \/ Sampled
    \/ SetBegins \/ Mark \/ WriteByte \/ Unmark

RtcSpec == RtcInit /\ [][RtcNext]_rtcvars

-----------------------------------------------------------------------------
RtcTypeOK ==
    /\ con0 \subseteq {"PWRUP_FIRST", "CLOCK", "LVD"} /\ copy \subseteq {"PWRUP_FIRST", "CLOCK", "LVD"}
    /\ count \in Counts /\ byte \in 0..BYTES /\ tries \in 0..TRIES
    /\ value \in Counts /\ previous \in Counts /\ answer \subseteq Counts /\ seen \subseteq Counts
    /\ owner \in {"none", "get", "set", "pm"}
    /\ step \in {"none", "init", "init con0", "con0", "first", "again", "mark", "write", "pm", "pm con0"}
    /\ {rtc_initialized, rtc_uncertain, unset, ticked} \subseteq BOOLEAN

\* The seconds a get returns are those RTCCNT showed at some moment of the call
\* and belong to a time that was set, although the bytes are read one by one,
\* the clock counts on, and callers are preempted between two samples.
ReadIsTrue == answer \subseteq seen /\ (answer # {} => ~unset)

\* A count that is no time is marked in the RTC's own register, whatever failed
\* and wherever a reset or power0 came between.
UnsetIsMarked == unset => "PWRUP_FIRST" \in con0
=============================================================================
