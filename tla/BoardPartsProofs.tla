--------------------------- MODULE BoardPartsProofs ---------------------------
(***************************************************************************)
(* The keys, the clock, the UART receiver, the pin interrupts and the      *)
(* downloader for every value of their constants: every key's events are   *)
(* in order, a time read was shown and a time nobody set is marked, no     *)
(* byte and no edge is left behind, no handler is called for an old edge,  *)
(* and host and target stay in step.                                       *)
(***************************************************************************)
EXTENDS BoardParts, EventRingProofs, WellFoundedInduction, FiniteSetTheorems

-----------------------------------------------------------------------------
(* Each part runs as its own specification, or rests.                      *)

LEMMA PartsAreParts ==
    /\ PartsSpec => RtcSpec
    /\ PartsSpec => UartSpec
    /\ PartsSpec => PinSpec
    /\ PartsSpec => DlSpec
    /\ PartsSpec => KeysInit /\ [][KeysNext]_keyvars
<1>1. PartsInit => RtcInit /\ UartInit /\ PinInit /\ DlInit /\ KeysInit
  BY DEF PartsInit
<1>2. ASSUME [PartsNext]_partvars
      PROVE  [RtcNext]_rtcvars /\ [UartNext]_uartvars /\ [PinNext]_pinvars /\ [DlNext]_dlvars
             /\ [KeysNext]_keyvars
  <2>1. CASE OnlyRtc /\ RtcNext
    BY <2>1 DEF OnlyRtc
  <2>2. CASE OnlyUart /\ UartNext
    BY <2>2 DEF OnlyUart
  <2>3. CASE OnlyPins /\ PinNext
    BY <2>3 DEF OnlyPins
  <2>4. CASE OnlyDownloader /\ DlNext
    BY <2>4 DEF OnlyDownloader
  <2>5. CASE (OnlyKeys /\ KeysNext) \/ UNCHANGED partvars
    BY <2>5 DEF OnlyKeys, partvars
  <2> QED BY <1>2, <2>1, <2>2, <2>3, <2>4, <2>5 DEF PartsNext
<1>3. [PartsNext]_partvars => [RtcNext]_rtcvars
  BY <1>2
<1>4. [PartsNext]_partvars => [UartNext]_uartvars
  BY <1>2
<1>5. [PartsNext]_partvars => [PinNext]_pinvars
  BY <1>2
<1>6. [PartsNext]_partvars => [DlNext]_dlvars
  BY <1>2
<1>7. [PartsNext]_partvars => [KeysNext]_keyvars
  BY <1>2
<1> QED BY <1>1, <1>3, <1>4, <1>5, <1>6, <1>7, PTL DEF PartsSpec, RtcSpec, UartSpec, PinSpec, DlSpec

-----------------------------------------------------------------------------
(* Numbers.                                                                *)

\* Division with remainder.
LEMMA DivMod ==
    ASSUME NEW a \in Nat, NEW m \in Nat, m > 0
    PROVE  a % m \in 0..(m - 1) /\ a \div m \in Int /\ a = m * (a \div m) + (a % m)
BY SMT

\* Quotient and remainder are the only ones.
LEMMA Remainder ==
    ASSUME NEW a \in Nat, NEW m \in Nat, NEW q \in Int, NEW s \in Nat, s < m, a = m * q + s
    PROVE  a % m = s
BY SMT

LEMMA Quotient ==
    ASSUME NEW a \in Nat, NEW m \in Nat, NEW q \in Int, NEW s \in Nat, s < m, a = m * q + s
    PROVE  a \div m = q /\ a % m = s
<1>1. a % m = s
  BY Remainder
<1>2. a \div m \in Int /\ a = m * (a \div m) + (a % m)
  BY DivMod
<1> DEFINE p == a \div m
<1>3. m > 0 /\ p \in Int /\ m * p = m * q
  BY <1>1, <1>2
<1> HIDE DEF p
<1>4. p = q
  BY <1>3
<1> QED BY <1>1, <1>4 DEF p

\* The prefix of one digit more.
LEMMA PrefixStep ==
    ASSUME NEW n \in Nat, NEW b \in Nat, NEW w \in Nat, b > 0, w > 0
    PROVE  n \div w = (n \div (b * w)) * b + ((n \div w) % b)
<1> DEFINE q == n \div w
           r == n % w
           p == q \div b
           s == q % b
<1>1. n = w * q + r /\ r \in 0..w - 1 /\ q \in Int
  BY DivMod
<1>2. q \in Nat
  <2> HIDE DEF q, r
  <2> QED BY <1>1
<1>3. q = b * p + s /\ s \in 0..b - 1 /\ p \in Int
  <2> HIDE DEF q
  <2> QED BY <1>2, DivMod
<1> HIDE DEF q, r, p, s
<1>4. n = (b * w) * p + (w * s + r)
  BY <1>1, <1>3
<1>5. w * s \in Nat /\ b * w \in Nat /\ w * s <= b * w - w
  <2>1. s \in Nat /\ s <= b - 1 /\ w * (b - 1) = b * w - w
    BY <1>3
  <2>2. w * s <= w * (b - 1)
    BY <2>1
  <2> QED BY <2>1, <2>2
<1>6. w * s + r \in Nat /\ w * s + r < b * w
  BY <1>1, <1>5
<1>7. n \div (b * w) = p
  BY <1>3, <1>4, <1>5, <1>6, Quotient
<1>8. q = p * b + s
  BY <1>3
<1>9. q = (n \div (b * w)) * b + s
  BY <1>7, <1>8
<1> QED BY <1>9 DEF q, s

\* n is a multiple of w.
Multiple(n, w) == \E q \in Int : n = w * q

\* A multiple has no remainder.
LEMMA MultipleMod ==
    ASSUME NEW n \in Nat, NEW w \in Nat, w > 0
    PROVE  Multiple(n, w) <=> n % w = 0
<1>1. ASSUME NEW q \in Int, n = w * q PROVE n % w = 0
  <2>1. n = w * q + 0
    BY <1>1
  <2> QED BY <2>1, Remainder
<1>2. n % w = 0 => n = w * (n \div w) /\ n \div w \in Int
  <2> DEFINE q == n \div w
             r == n % w
  <2>1. q \in Int /\ n = w * q + r
    BY DivMod
  <2> HIDE DEF q, r
  <2>2. r = 0 => n = w * q /\ q \in Int
    BY <2>1
  <2> QED BY <2>2 DEF q, r
<1> QED BY <1>1, <1>2 DEF Multiple

\* No multiple of b lies strictly between 0 and b.
LEMMA NoneBetween ==
    ASSUME NEW b \in Nat, NEW n \in Int, Multiple(n, b), 0 < n, n < b
    PROVE  FALSE
<1>1. PICK q \in Int : n = b * q
  BY DEF Multiple
<1>2. CASE q <= 0
  BY <1>1, <1>2
<1>3. CASE q >= 1
  BY <1>1, <1>3
<1> QED BY <1>2, <1>3

\* Sums, differences and multiples of multiples are multiples.
LEMMA MultiplesSum ==
    ASSUME NEW b \in Nat, NEW m \in Int, NEW n \in Int, Multiple(m, b), Multiple(n, b)
    PROVE  Multiple(m + n, b) /\ Multiple(m - n, b)
<1>1. PICK p \in Int : m = b * p
  BY DEF Multiple
<1>2. PICK q \in Int : n = b * q
  BY DEF Multiple
<1>3. p + q \in Int /\ p - q \in Int /\ m + n = b * (p + q) /\ m - n = b * (p - q)
  BY <1>1, <1>2
<1> QED BY <1>3 DEF Multiple

LEMMA MultipleOf ==
    ASSUME NEW a \in Int, NEW b \in Int, NEW c \in Int, Multiple(a, b), Multiple(b, c)
    PROVE  Multiple(a, c)
<1>1. PICK p \in Int : a = b * p
  BY DEF Multiple
<1>2. PICK q \in Int : b = c * q
  BY DEF Multiple
<1>3. q * p \in Int /\ a = c * (q * p)
  BY <1>1, <1>2
<1> QED BY <1>3 DEF Multiple

\* Every set of numbers has a least one: what induction rests on.
LEMMA Least ==
    ASSUME NEW T \in SUBSET Nat, T # {}
    PROVE  \E x \in T : \A y \in T : x <= y
<1> DEFINE R == OpToRel(<, Nat)
<1>1. IsWellFoundedOn(R, Nat)
  BY NatLessThanWellFounded
<1>2. \A x, y \in Nat : <<x, y>> \in R <=> x < y
  BY DEF OpToRel
<1> HIDE DEF R
<1>3. PICK x \in T : \A y \in T : ~(<<y, x>> \in R)
  BY <1>1, WFMin
<1>4. \A y \in T : y \in Nat /\ x \in Nat /\ ~(y < x)
  BY <1>2, <1>3
<1>5. \A y \in T : x <= y
  BY <1>4
<1> QED BY <1>5

\* A set with 0, and with n + 1 for every n of it, has all numbers.
LEMMA SetInduction ==
    ASSUME NEW S \in SUBSET Nat, 0 \in S, \A n \in S : n + 1 \in S
    PROVE  S = Nat
<1> SUFFICES ASSUME Nat \ S # {} PROVE FALSE
  OBVIOUS
<1>1. PICK x \in Nat \ S : \A y \in Nat \ S : x <= y
  BY Least
<1>2. x # 0 /\ x - 1 \in Nat /\ ~(x <= x - 1) /\ (x - 1) + 1 = x
  BY <1>1
<1>3. x - 1 \in S
  BY <1>1, <1>2
<1> QED BY <1>1, <1>2, <1>3

-----------------------------------------------------------------------------
(* The clock.                                                              *)

\* What the callers rely on between two transfers: a copy of RTCCON0 that is
\* written back has the mark, a set marks before its first byte, and unmarks
\* only a count whose last byte is there.
ClockInv ==
    /\ UnsetIsMarked
    /\ step \in {"init con0", "pm con0"} /\ "PWRUP_FIRST" \in con0 => "PWRUP_FIRST" \in copy
    /\ step = "write" => "PWRUP_FIRST" \in con0
    /\ step = "write" /\ byte = BYTES => ~unset

ByteInv == byte \in 0..BYTES

LEMMA FirstByte == 0 \in 0..BYTES /\ BYTES # 0
BY RtcAssumption

LEMMA NextByte == ASSUME ByteInv, byte < BYTES PROVE byte + 1 \in 0..BYTES
BY RtcAssumption DEF ByteInv

\* The count is a time once its last byte is there.
LEMMA LastByte ==
    ASSUME ByteInv, byte < BYTES, byte' = byte + 1, Loaded
    PROVE  byte' = BYTES => ~unset'
<1>1. unset' <=> byte' < BYTES
  BY DEF Loaded
<1>2. byte' = BYTES => ~(byte' < BYTES)
  BY RtcAssumption
<1> QED BY <1>1, <1>2

LEMMA ByteInduction == ByteInv /\ [RtcNext]_rtcvars => ByteInv'
<1> SUFFICES ASSUME ByteInv, [RtcNext]_rtcvars PROVE ByteInv'
  OBVIOUS
<1>1. byte' = byte \/ byte' = 0 \/ (byte < BYTES /\ byte' = byte + 1)
  BY DEF RtcNext, Second, Reset, PowerUp, rtc_take, Begin, rtc_ensure_init, ShutdownUpdate,
         CheckCon0, ReadByte, Sampled, SetBegins, Mark, WriteByte, Unmark,
         ReadCon0, WriteFailed, Fail, Idle, Goto, rtcvars, locals
<1> QED BY <1>1, FirstByte, NextByte DEF ByteInv

LEMMA ClockInduction == ByteInv /\ ClockInv /\ [RtcNext]_rtcvars => ClockInv'
<1> SUFFICES ASSUME ByteInv, ClockInv, [RtcNext]_rtcvars PROVE ClockInv'
  OBVIOUS
<1> USE FirstByte DEF ClockInv, UnsetIsMarked
<1>1. CASE Second
  <2>1. UNCHANGED <<con0, unset, step, byte, copy>>
    BY <1>1 DEF Second, locals
  <2> QED BY <2>1
<1>2. CASE Reset \/ PowerUp
  <2>1. step' = "none"
    BY <1>2 DEF Reset, PowerUp, Idle
  <2>2. UNCHANGED <<con0, unset>> \/ con0' = {"PWRUP_FIRST"}
    BY <1>2 DEF Reset, PowerUp
  <2>3. unset' => "PWRUP_FIRST" \in con0'
    BY <2>2
  <2> QED BY <2>1, <2>3
<1>3. CASE \E o \in {"get", "set", "pm"} : rtc_take(o)
  <2>1. UNCHANGED <<con0, unset>> /\ step' \in {"pm", "con0", "init"}
    BY <1>3 DEF rtc_take, Goto
  <2> QED BY <2>1
<1>4. CASE Begin
  <2>1. unset' = unset
    BY <1>4 DEF Begin
  <2>2. CASE rtc_ensure_init
    BY <2>1, <2>2 DEF rtc_ensure_init, ReadCon0, Written, WriteFailed, Fail, Idle, Goto
  <2>3. CASE ShutdownUpdate
    BY <2>1, <2>3 DEF ShutdownUpdate, ReadCon0, Written, WriteFailed, Fail, Idle, Goto
  <2> QED BY <1>4, <2>2, <2>3 DEF Begin
<1>5. CASE CheckCon0 \/ SetBegins
  <2>1. UNCHANGED <<con0, unset>> /\ step' \in {"none", "first", "mark"}
    BY <1>5 DEF CheckCon0, SetBegins, ReadCon0, Fail, Idle, Goto
  <2> QED BY <2>1
<1>6. CASE ReadByte \/ Sampled
  <2>1. UNCHANGED <<con0, unset>> /\ step' \in {"none", "first", "again"}
    BY <1>6 DEF ReadByte, Sampled, Fail, Idle, Goto
  <2> QED BY <2>1
<1>7. CASE Mark
  BY <1>7 DEF Mark, Written, WriteFailed, Fail, Idle, Goto
<1>8. CASE WriteByte
  <2>1. con0' = con0 /\ "PWRUP_FIRST" \in con0
    BY <1>8 DEF WriteByte
  <2>2. CASE Fail
    BY <2>1, <2>2 DEF Fail, Idle
  <2>3. CASE byte' = byte + 1 /\ Loaded /\ step' = step
    <3>1. byte < BYTES
      BY <1>8 DEF WriteByte
    <3>2. byte' = BYTES => ~unset'
      BY <2>3, <3>1, LastByte
    <3> QED BY <1>8, <2>1, <2>3, <3>2 DEF WriteByte
  <2> QED BY <1>8, <2>2, <2>3 DEF WriteByte
<1>9. CASE Unmark
  BY <1>9 DEF Unmark, Written, WriteFailed, Fail, Idle
<1>10. CASE UNCHANGED rtcvars
  BY <1>10 DEF rtcvars, locals
<1> QED BY <1>1, <1>2, <1>3, <1>4, <1>5, <1>6, <1>7, <1>8, <1>9, <1>10 DEF RtcNext

\* A count that is not a time somebody set is marked in the RTC itself
\* (drv_rtc.c:158-184), whatever transfer fails and wherever a reset, a loss of
\* the supply or power0 comes between.
THEOREM UnsetStaysMarked == PartsSpec => []UnsetIsMarked
<1>1. RtcInit => ByteInv /\ ClockInv
  BY FirstByte DEF RtcInit, ByteInv, ClockInv, UnsetIsMarked
<1>2. ClockInv => UnsetIsMarked
  BY DEF ClockInv
<1> QED BY <1>1, <1>2, ByteInduction, ClockInduction, PartsAreParts, PTL DEF RtcSpec

-----------------------------------------------------------------------------
(* A count read byte by byte.                                              *)

\* The weights up to the n-th.
Weighs(f, n) == f \in [0..n -> Nat] /\ f[0] = 1 /\ \A i \in 1..n : f[i] = BASE * f[i - 1]

\* There are weights up to any n, and any two lists of them agree: both by
\* SetInduction over the n for which it holds.
LEMMA WeighsExists == \A n \in Nat : \E f : Weighs(f, n)
<1> DEFINE S == {n \in Nat : \E f : Weighs(f, n)}
<1>1. BASE \in Nat
  BY RtcAssumption
<1>2. 0 \in S
  <2>1. Weighs([i \in 0..0 |-> 1], 0)
    BY DEF Weighs
  <2> QED BY <2>1
<1>3. ASSUME NEW n \in S PROVE n + 1 \in S
  <2>1. PICK f : Weighs(f, n)
    OBVIOUS
  <2> DEFINE g == [i \in 0..n + 1 |-> IF i <= n THEN f[i] ELSE BASE * f[n]]
  <2>2. n \in Nat /\ f[n] \in Nat
    BY <2>1 DEF Weighs
  <2>3. BASE * f[n] \in Nat
    BY <1>1, <2>2
  <2>4. g \in [0..n + 1 -> Nat] /\ g[0] = 1
    BY <2>1, <2>2, <2>3 DEF Weighs
  <2>5. \A i \in 1..n + 1 : g[i] = BASE * g[i - 1]
    <3> SUFFICES ASSUME NEW i \in 1..n + 1 PROVE g[i] = BASE * g[i - 1]
      OBVIOUS
    <3>1. CASE i <= n
      BY <2>1, <2>2, <3>1 DEF Weighs
    <3>2. CASE i = n + 1
      BY <2>1, <2>2, <3>2 DEF Weighs
    <3> QED BY <2>2, <3>1, <3>2
  <2> HIDE DEF g
  <2>6. Weighs(g, n + 1)
    BY <2>4, <2>5 DEF Weighs
  <2> QED BY <2>2, <2>6
<1>4. S = Nat
  <2> HIDE DEF S
  <2>1. S \in SUBSET Nat
    BY DEF S
  <2> QED BY <1>2, <1>3, <2>1, SetInduction
<1> QED BY <1>4

LEMMA WeighsAgree ==
    ASSUME NEW m \in Nat, NEW n \in Nat, NEW f, NEW g, Weighs(f, m), Weighs(g, n), m <= n
    PROVE  \A i \in 0..m : f[i] = g[i]
<1> DEFINE S == {i \in Nat : i <= m => f[i] = g[i]}
<1>1. 0 \in S
  BY DEF Weighs
<1>2. ASSUME NEW i \in S PROVE i + 1 \in S
  <2> SUFFICES ASSUME i + 1 <= m PROVE f[i + 1] = g[i + 1]
    OBVIOUS
  <2>1. i \in Nat /\ i + 1 \in 1..m /\ i + 1 \in 1..n /\ (i + 1) - 1 = i /\ f[i] = g[i]
    OBVIOUS
  <2> QED BY <2>1 DEF Weighs
<1>3. S = Nat
  <2> HIDE DEF S
  <2>1. S \in SUBSET Nat
    BY DEF S
  <2> QED BY <1>1, <1>2, <2>1, SetInduction
<1> QED BY <1>3

\* The recursion of Weight defines a function.
LEMMA WeightIs == Weight = [i \in Nat |-> IF i = 0 THEN 1 ELSE BASE * Weight[i - 1]]
<1> DEFINE F(n) == CHOOSE f : Weighs(f, n)
           V == [n \in Nat |-> F(n)[n]]
<1>1. \A n \in Nat : Weighs(F(n), n)
  BY WeighsExists
<1>2. ASSUME NEW n \in Nat PROVE V[n] = IF n = 0 THEN 1 ELSE BASE * V[n - 1]
  <2> HIDE DEF F
  <2>1. V[n] = F(n)[n] /\ Weighs(F(n), n)
    BY <1>1
  <2>2. CASE n = 0
    BY <2>1, <2>2 DEF Weighs
  <2>3. CASE n # 0
    <3>1. n - 1 \in Nat /\ n \in 1..n /\ n - 1 <= n /\ n - 1 \in 0..(n - 1)
      BY <2>3
    <3>2. Weighs(F(n - 1), n - 1) /\ V[n - 1] = F(n - 1)[n - 1]
      BY <1>1, <3>1
    <3>3. F(n - 1)[n - 1] = F(n)[n - 1]
      BY <2>1, <3>1, <3>2, WeighsAgree
    <3>4. F(n)[n] = BASE * F(n)[n - 1]
      BY <2>1, <3>1 DEF Weighs
    <3> QED BY <2>1, <2>3, <3>2, <3>3, <3>4
  <2> QED BY <2>2, <2>3
<1>3. V = [i \in Nat |-> IF i = 0 THEN 1 ELSE BASE * V[i - 1]]
  <2> HIDE DEF F
  <2>1. V = [i \in Nat |-> V[i]]
    OBVIOUS
  <2> HIDE DEF V
  <2> QED BY <1>2, <2>1
<1>4. \E v : v = [i \in Nat |-> IF i = 0 THEN 1 ELSE BASE * v[i - 1]]
  <2> HIDE DEF V
  <2> QED BY <1>3
<1> QED BY <1>4 DEF Weight

\* The weight of a byte is BASE times that of the one behind it.
LEMMA WeightStep ==
    /\ Weight[0] = 1
    /\ \A i \in Nat : Weight[i + 1] = BASE * Weight[i]
<1>1. \A i \in Nat : Weight[i] = IF i = 0 THEN 1 ELSE BASE * Weight[i - 1]
  BY WeightIs
<1>2. \A i \in Nat : i + 1 \in Nat /\ i + 1 # 0 /\ (i + 1) - 1 = i
  OBVIOUS
<1>3. 0 \in Nat
  OBVIOUS
<1>4. Weight[0] = 1
  BY <1>1, <1>3
<1>5. ASSUME NEW i \in Nat PROVE Weight[i + 1] = BASE * Weight[i]
  BY <1>1, <1>2
<1> QED BY <1>4, <1>5

LEMMA WeightPositive == \A i \in Nat : Weight[i] \in Nat /\ Weight[i] > 0
<1> DEFINE S == {i \in Nat : Weight[i] \in Nat /\ Weight[i] > 0}
<1>1. 0 \in S
  BY WeightStep
<1>2. ASSUME NEW i \in S PROVE i + 1 \in S
  <2>1. Weight[i + 1] = BASE * Weight[i] /\ Weight[i] \in Nat /\ Weight[i] > 0
    BY WeightStep
  <2>2. \A w \in Nat : w > 0 => BASE * w \in Nat /\ BASE * w > 0
    BY RtcAssumption
  <2> QED BY <2>1, <2>2
<1>3. S = Nat
  <2> HIDE DEF S
  <2>1. S \in SUBSET Nat
    BY DEF S
  <2> QED BY <1>1, <1>2, <2>1, SetInduction
<1> QED BY <1>3

\* k bytes further on, the weight is a multiple.
LEMMA WeightDivides ==
    ASSUME NEW i \in Nat
    PROVE  \A k \in Nat : \E q \in Nat : q > 0 /\ Weight[i + k] = Weight[i] * q
<1> DEFINE S == {k \in Nat : \E q \in Nat : q > 0 /\ Weight[i + k] = Weight[i] * q}
<1>0. Weight[i] \in Nat
  BY WeightPositive
<1>1. 0 \in S
  <2>1. Weight[i + 0] = Weight[i] * 1
    BY <1>0
  <2> QED BY <2>1
<1>2. ASSUME NEW k \in S PROVE k + 1 \in S
  <2>1. PICK q \in Nat : q > 0 /\ Weight[i + k] = Weight[i] * q
    OBVIOUS
  <2>2. i + k \in Nat /\ (i + k) + 1 = i + (k + 1)
    OBVIOUS
  <2>3. Weight[i + (k + 1)] = BASE * Weight[i + k]
    BY <2>2, WeightStep
  <2>4. BASE * q \in Nat /\ BASE * q > 0
    BY <2>1, RtcAssumption
  <2>5. BASE * (Weight[i] * q) = Weight[i] * (BASE * q)
    BY <1>0, RtcAssumption
  <2> QED BY <2>1, <2>3, <2>4, <2>5
<1>3. S = Nat
  <2> HIDE DEF S
  <2>1. S \in SUBSET Nat
    BY DEF S
  <2> QED BY <1>1, <1>2, <2>1, SetInduction
<1> QED BY <1>3

\* The weight of a byte divides those of the bytes before it.
LEMMA WeightMultiple ==
    ASSUME NEW i \in Nat, NEW j \in Nat, i <= j
    PROVE  Multiple(Weight[j], Weight[i]) /\ Weight[i] <= Weight[j]
<1>1. j - i \in Nat /\ i + (j - i) = j
  OBVIOUS
<1>2. PICK q \in Nat : q > 0 /\ Weight[j] = Weight[i] * q
  <2>1. \A k \in Nat : \E q \in Nat : q > 0 /\ Weight[i + k] = Weight[i] * q
    BY WeightDivides
  <2>2. PICK k \in Nat : i + k = j
    BY <1>1
  <2> QED BY <2>1, <2>2
<1>3. Weight[i] \in Nat
  BY WeightPositive
<1>4. q \in Int /\ \A w \in Nat : w <= w * q
  BY <1>2
<1>5. Multiple(Weight[j], Weight[i])
  BY <1>2, <1>4 DEF Multiple
<1>6. Weight[i] <= Weight[i] * q
  BY <1>3, <1>4
<1> QED BY <1>2, <1>5, <1>6

\* The count comes round after Turn seconds; what it was d seconds before t; and what
\* a read may be short of when the count is t and the last byte weighs Weight[from].
Turn == Weight[BYTES]
Ago(t, d) == (t + Turn - d) % Turn
Short(t, from) ==
    {0} \cup {Weight[m] : m \in {k \in from..BYTES - 1 : t % Weight[k] = 0}}

\* The constants as numbers.
LEMMA ClockBounds ==
    /\ Turn \in Nat /\ Turn > 0 /\ Counts = 0..Turn - 1 /\ BYTES \in Nat /\ BYTES > 0
    /\ BASE \in Nat /\ BASE > 0
<1>1. BYTES \in Nat /\ BYTES > 0 /\ BASE \in Nat /\ BASE > 0
  BY RtcAssumption
<1> QED BY <1>1, WeightPositive DEF Turn, Counts

\* A call, of less than BASE seconds, ends before the count has come round.
LEMMA BaseFits == BASE <= Turn
<1>1. Weight[1] = BASE
  <2>1. Weight[0 + 1] = BASE * Weight[0] /\ Weight[0] = 1
    BY WeightStep
  <2> QED BY <2>1, ClockBounds
<1>2. 1 \in Nat /\ 1 <= BYTES
  BY ClockBounds
<1> QED BY <1>1, <1>2, ClockBounds, WeightMultiple DEF Turn

\* d seconds ago, without the remainder.
LEMMA AgoIs ==
    ASSUME NEW t \in Counts, NEW d \in 0..Turn
    PROVE  Ago(t, d) = (IF d <= t THEN t - d ELSE t + Turn - d) /\ Ago(t, d) \in Counts
<1>1. \A n \in Nat : \A x \in 0..n - 1, y \in 0..n :
         (x + n - y) % n = (IF y <= x THEN x - y ELSE x + n - y)
  <2> SUFFICES ASSUME NEW n \in Nat, NEW x \in 0..n - 1, NEW y \in 0..n
               PROVE  (x + n - y) % n = (IF y <= x THEN x - y ELSE x + n - y)
    OBVIOUS
  <2>1. CASE y <= x
    <3>1. x + n - y \in Nat /\ x - y \in Nat /\ x - y < n /\ x + n - y = n * 1 + (x - y)
      BY <2>1
    <3>2. \A u, v \in Nat : v < n /\ u = n * 1 + v => u % n = v
      BY Remainder
    <3> QED BY <2>1, <3>1, <3>2
  <2>2. CASE ~(y <= x)
    <3>1. x + n - y \in Nat /\ x + n - y < n /\ x + n - y = n * 0 + (x + n - y)
      BY <2>2
    <3>2. \A u, v \in Nat : v < n /\ u = n * 0 + v => u % n = v
      BY Remainder
    <3> QED BY <2>2, <3>1, <3>2
  <2> QED BY <2>1, <2>2
<1>2. Ago(t, d) = (IF d <= t THEN t - d ELSE t + Turn - d)
  BY <1>1, ClockBounds DEF Ago
<1> QED BY <1>2, ClockBounds

\* A second on.
LEMMA NextCount ==
    ASSUME NEW c \in Counts
    PROVE  /\ (c + 1) % Turn \in Counts
           /\ (c + 1) % Turn = IF c + 1 < Turn THEN c + 1 ELSE 0
<1>1. \A n \in Nat : \A x \in 0..n - 1 : (x + 1) % n = IF x + 1 < n THEN x + 1 ELSE 0
  <2> SUFFICES ASSUME NEW n \in Nat, NEW x \in 0..n - 1
               PROVE  (x + 1) % n = IF x + 1 < n THEN x + 1 ELSE 0
    OBVIOUS
  <2>1. \A u, v \in Nat, q \in Int : v < n /\ u = n * q + v => u % n = v
    BY Remainder
  <2>2. CASE x + 1 < n
    <3>1. x + 1 = n * 0 + (x + 1)
      OBVIOUS
    <3> QED BY <2>1, <2>2, <3>1
  <2>3. CASE x + 1 = n
    <3>1. x + 1 = n * 1 + 0 /\ 0 < n
      BY <2>3
    <3> QED BY <2>1, <2>3, <3>1
  <2> QED BY <2>2, <2>3
<1> QED BY <1>1, ClockBounds

\* A second on, everything is a second longer ago.
LEMMA AgoNext ==
    ASSUME NEW c \in Counts, NEW d \in 0..Turn - 1
    PROVE  Ago((c + 1) % Turn, d + 1) = Ago(c, d)
<1> DEFINE n == (c + 1) % Turn
<1>1. n \in Counts /\ n = IF c + 1 < Turn THEN c + 1 ELSE 0
  BY NextCount
<1> HIDE DEF n
<1>2. d + 1 \in 0..Turn /\ d \in 0..Turn
  BY ClockBounds
<1>3. Ago(n, d + 1) = IF d + 1 <= n THEN n - (d + 1) ELSE n + Turn - (d + 1)
  BY <1>1, <1>2, AgoIs
<1>4. Ago(c, d) = IF d <= c THEN c - d ELSE c + Turn - d
  BY <1>2, AgoIs
<1>5. Ago(n, d + 1) = Ago(c, d)
  BY <1>1, <1>3, <1>4, ClockBounds
<1> QED BY <1>5 DEF n

\* A multiple of the weight of a byte has zeros behind that byte.
LEMMA ZeroDigit ==
    ASSUME NEW x \in Nat, NEW m \in Nat, NEW k \in Nat, k < m, Multiple(x, Weight[m])
    PROVE  (x \div Weight[k]) % BASE = 0
<1>1. Weight[k + 1] = BASE * Weight[k] /\ Weight[k] \in Nat /\ Weight[k] > 0
  BY WeightStep, WeightPositive
<1>2. Multiple(x, Weight[k + 1])
  <2>1. k + 1 \in Nat /\ k + 1 <= m
    OBVIOUS
  <2>2. Multiple(Weight[m], Weight[k + 1])
    BY <2>1, WeightMultiple
  <2>3. Weight[m] \in Int /\ Weight[k + 1] \in Int
    BY <2>1, WeightPositive
  <2> QED BY <2>2, <2>3, MultipleOf
<1>3. PICK q \in Int : x = (BASE * Weight[k]) * q
  BY <1>1, <1>2 DEF Multiple
<1>4. BASE * q \in Int /\ x = Weight[k] * (BASE * q) + 0
  BY <1>1, <1>3, ClockBounds
<1>5. x \div Weight[k] = BASE * q
  BY <1>1, <1>4, Quotient
<1>6. BASE * q \in Nat
  <2>1. x \div Weight[k] >= 0
    BY <1>1, SMT
  <2> QED BY <1>4, <1>5, <2>1
<1>7. BASE * q = BASE * q + 0
  BY <1>4
<1>8. (BASE * q) % BASE = 0
  BY <1>6, <1>7, ClockBounds, Remainder
<1> QED BY <1>5, <1>8

\* What a read may be short of: nothing, or the weight of a byte, of which the count
\* is a multiple.
LEMMA ShortIs ==
    ASSUME NEW c \in Counts, NEW from \in Nat, NEW w \in Short(c, from)
    PROVE  /\ w \in 0..Turn
           /\ w # 0 =>
                 \E m \in from..BYTES - 1 : w = Weight[m] /\ Multiple(c, w) /\ Multiple(Turn, w)
<1>1. CASE w = 0
  BY <1>1, ClockBounds
<1>2. CASE w # 0
  <2>1. PICK m \in from..BYTES - 1 : w = Weight[m] /\ c % w = 0
    BY <1>2 DEF Short
  <2>2. m \in Nat /\ m <= BYTES
    BY ClockBounds
  <2>3. Weight[m] \in Nat /\ Weight[m] > 0
    BY <2>2, WeightPositive
  <2>4. Multiple(Turn, w) /\ w <= Turn
    BY <2>1, <2>2, ClockBounds, WeightMultiple DEF Turn
  <2>5. Multiple(c, w)
    BY <2>1, <2>3, ClockBounds, MultipleMod
  <2> QED BY <2>1, <2>3, <2>4, <2>5, ClockBounds
<1> QED BY <1>1, <1>2

\* Multiples apart, multiples stay.
LEMMA AgoMultiple ==
    ASSUME NEW c \in Counts, NEW w \in 0..Turn, NEW b \in Nat,
           Multiple(c, b), Multiple(w, b), Multiple(Turn, b)
    PROVE  Multiple(Ago(c, w), b)
<1>1. c \in Int /\ w \in Int /\ Turn \in Int /\ c + Turn \in Int
  BY ClockBounds
<1>2. Multiple(c - w, b)
  BY <1>1, MultiplesSum
<1>3. Multiple(c + Turn, b)
  BY <1>1, MultiplesSum
<1>4. Multiple((c + Turn) - w, b)
  BY <1>1, <1>3, MultiplesSum
<1> QED BY <1>1, <1>2, <1>4, AgoIs

\* The next byte is the same of the count and of what the read is short of it.
LEMMA DigitStep ==
    ASSUME NEW c \in Counts, NEW m \in 1..BYTES, NEW w \in Short(c, m)
    PROVE  Ago(c, w) \div Weight[m - 1] =
              (Ago(c, w) \div Weight[m]) * BASE + ((c \div Weight[m - 1]) % BASE)
<1> DEFINE x == Ago(c, w)
<1>1. m - 1 \in Nat /\ m \in Nat /\ (m - 1) + 1 = m /\ m - 1 < m
  BY ClockBounds
<1>2. w \in 0..Turn
  BY <1>1, ShortIs
<1>3. x \in Nat /\ c \in Nat
  BY <1>2, AgoIs, ClockBounds
<1>4. Weight[m] = BASE * Weight[m - 1] /\ Weight[m - 1] \in Nat /\ Weight[m - 1] > 0
  BY <1>1, WeightStep, WeightPositive
<1> HIDE DEF x
<1>5. x \div Weight[m - 1] = (x \div Weight[m]) * BASE + ((x \div Weight[m - 1]) % BASE)
  <2>1. BASE \in Nat /\ BASE > 0
    BY ClockBounds
  <2>2. x \div Weight[m - 1] =
           (x \div (BASE * Weight[m - 1])) * BASE + ((x \div Weight[m - 1]) % BASE)
    BY <1>3, <1>4, <2>1, PrefixStep
  <2> QED BY ONLY <1>4, <2>2
<1>6. (x \div Weight[m - 1]) % BASE = (c \div Weight[m - 1]) % BASE
  <2>1. CASE w = 0
    <3>1. x = c
      BY <1>2, <2>1, AgoIs, ClockBounds DEF x
    <3> QED BY <3>1
  <2>2. CASE w # 0
    <3>1. PICK k \in m..BYTES - 1 : w = Weight[k] /\ Multiple(c, w) /\ Multiple(Turn, w)
      BY <1>1, <2>2, ShortIs
    <3>2. k \in Nat /\ m - 1 < k
      BY <1>1, ClockBounds
    <3>3. Multiple(w, w)
      <4>1. w = w * 1
        BY <1>2, ClockBounds
      <4> QED BY <4>1 DEF Multiple
    <3>4. w \in Nat
      BY <1>2, ClockBounds
    <3>5. Multiple(x, w)
      BY <1>2, <3>1, <3>3, <3>4, AgoMultiple DEF x
    <3> QED BY <1>1, <1>3, <3>1, <3>2, <3>5, ZeroDigit
  <2> QED BY <2>1, <2>2
<1> QED BY <1>5, <1>6 DEF x

\* A second falls into a transfer: the bytes read before it are those of the new
\* count, or, where it carries into them, short of it by the weight of the last of them.
LEMMA TickUnderTransfer ==
    ASSUME NEW c \in Counts, NEW m \in 0..BYTES - 1
    PROVE  \E w \in {0, Weight[m]} :
              /\ w \in Short((c + 1) % Turn, m)
              /\ c \div Weight[m] = Ago((c + 1) % Turn, w) \div Weight[m]
<1> DEFINE n == (c + 1) % Turn
           u == Weight[m]
<1>1. m \in Nat /\ m <= BYTES
  BY ClockBounds
<1>2. u \in Nat /\ u > 0 /\ u <= Turn /\ Multiple(Turn, u)
  BY <1>1, ClockBounds, WeightPositive, WeightMultiple DEF Turn
<1>3. n \in Counts /\ n = IF c + 1 < Turn THEN c + 1 ELSE 0
  BY NextCount
<1>4. 0 \in Short(n, m) /\ (n % u = 0 => u \in Short(n, m))
  BY DEF Short
<1> HIDE DEF n, u
<1>5. n \in Nat /\ c \in Nat /\ c + 1 <= Turn /\ Turn \in Nat
  BY <1>3, ClockBounds
<1>6. CASE n % u # 0
  <2>1. n = c + 1 /\ Ago(n, 0) = n
    <3>1. 0 % u = 0
      <4>1. 0 = u * 0 + 0 /\ 0 \in Int
        BY <1>2
      <4> QED BY <1>2, <4>1, Remainder
    <3>2. 0 \in 0..Turn
      BY ClockBounds
    <3> QED BY <1>3, <1>5, <1>6, <3>1, <3>2, AgoIs
  <2> DEFINE q == n \div u
             s == n % u
  <2>2. s \in 0..u - 1 /\ q \in Int /\ n = u * q + s
    BY <1>2, <1>5, DivMod
  <2>3. s # 0
    BY <1>6
  <2> HIDE DEF q, s
  <2>4. s - 1 \in Nat /\ s - 1 < u /\ c = u * q + (s - 1)
    BY <1>2, <1>5, <2>1, <2>2, <2>3
  <2>5. c \div u = q
    BY <1>2, <1>5, <2>2, <2>4, Quotient
  <2>6. c \div u = Ago(n, 0) \div u
    BY <2>1, <2>5 DEF q
  <2> QED BY <1>4, <2>6 DEF n, u
<1>7. CASE n % u = 0
  <2>1. \E q \in Int : Ago(n, u) = u * q + 0 /\ c = u * q + (u - 1)
    <3>1. CASE c + 1 < Turn
      <4>1. PICK q \in Int : n = u * q
        BY <1>2, <1>5, <1>7, MultipleMod DEF Multiple
      <4>2. n = c + 1 /\ n > 0
        BY <1>3, <1>5, <3>1
      <4>3. q >= 1
        <5>1. CASE q <= 0
          <6>1. u * q <= 0
            BY <1>2, <5>1
          <6> QED BY <4>1, <4>2, <6>1
        <5> QED BY <5>1
      <4>4. u * (q - 1) = n - u /\ q - 1 \in Int /\ u <= n
        BY <1>2, <4>1, <4>3
      <4>5. Ago(n, u) = n - u
        BY <1>2, <1>3, <4>4, AgoIs, ClockBounds
      <4> QED BY <1>2, <1>5, <4>2, <4>4, <4>5
    <3>2. CASE c + 1 = Turn
      <4>1. PICK q \in Int : Turn = u * q
        BY <1>2 DEF Multiple
      <4>2. n = 0
        BY <1>3, <3>2
      <4>3. u * (q - 1) = Turn - u /\ q - 1 \in Int
        BY <1>2, <4>1
      <4>4. Ago(n, u) = Turn - u
        BY <1>2, <1>3, <4>2, AgoIs, ClockBounds
      <4>5. c = Turn - 1 /\ u * (q - 1) + 0 = Turn - u /\ u * (q - 1) + (u - 1) = Turn - 1
        BY <1>2, <1>5, <3>2, <4>3
      <4> QED BY <4>3, <4>4, <4>5
    <3>3. c + 1 < Turn \/ c + 1 = Turn
      BY <1>5
    <3> QED BY <3>1, <3>2, <3>3
  <2>2. PICK q \in Int : Ago(n, u) = u * q + 0 /\ c = u * q + (u - 1)
    BY <2>1
  <2>3. Ago(n, u) \in Nat /\ u - 1 \in Nat /\ u - 1 < u
    <3>1. u \in 0..Turn
      BY <1>2
    <3>2. Ago(n, u) \in Counts
      BY <1>3, <3>1, AgoIs
    <3> QED BY <1>2, <3>2, ClockBounds
  <2>4. Ago(n, u) \div u = q
    BY <1>2, <2>2, <2>3, Quotient
  <2>5. c \div u = q
    BY <1>2, <1>5, <2>2, <2>3, Quotient
  <2>6. c \div u = Ago(n, u) \div u
    BY <2>4, <2>5
  <2> QED BY <1>4, <1>7, <2>6 DEF n, u
<1> QED BY <1>6, <1>7

\* What the count has been in the last p seconds.
Since(t, p) == {Ago(t, i) : i \in 0..p}

\* A second on, RTCCNT has shown one more: so many as there were seconds.
LEMMA SinceNext ==
    ASSUME NEW c \in Counts, NEW p \in Nat, p < Turn
    PROVE  Since((c + 1) % Turn, p + 1) = Since(c, p) \cup {(c + 1) % Turn}
<1> DEFINE n == (c + 1) % Turn
<1>1. n \in Counts
  BY NextCount
<1>2. Ago(n, 0) = n
  <2>1. 0 \in 0..Turn /\ n \in Nat
    BY <1>1, ClockBounds
  <2> QED BY <1>1, <2>1, AgoIs
<1>3. \A i \in 0..p : i \in 0..Turn - 1 /\ Ago(n, i + 1) = Ago(c, i)
  BY ClockBounds, AgoNext
<1> HIDE DEF n
<1>4. Since(n, p + 1) \subseteq Since(c, p) \cup {n}
  <2> SUFFICES ASSUME NEW i \in 0..p + 1 PROVE Ago(n, i) \in Since(c, p) \cup {n}
    BY DEF Since
  <2>1. CASE i = 0
    BY <1>2, <2>1
  <2>2. CASE i # 0
    <3>1. i - 1 \in 0..p /\ (i - 1) + 1 = i
      BY <2>2
    <3>2. Ago(n, i) = Ago(c, i - 1)
      BY <1>3, <3>1
    <3> QED BY <3>1, <3>2 DEF Since
  <2> QED BY <2>1, <2>2
<1>5. Since(c, p) \cup {n} \subseteq Since(n, p + 1)
  <2>1. \A i \in 0..p : i + 1 \in 0..p + 1
    OBVIOUS
  <2>2. 0 \in 0..p + 1
    OBVIOUS
  <2>3. Since(c, p) \subseteq Since(n, p + 1)
    BY <1>3, <2>1 DEF Since
  <2>4. n \in Since(n, p + 1)
    BY <1>2, <2>2 DEF Since
  <2> QED BY <2>3, <2>4
<1> QED BY <1>4, <1>5 DEF n

LEMMA SinceSize ==
    ASSUME NEW c \in Counts, NEW p \in Nat, p < Turn
    PROVE  IsFiniteSet(Since(c, p)) /\ Cardinality(Since(c, p)) = p + 1
<1> DEFINE f == [i \in 0..p |-> Ago(c, i)]
<1>1. \A i \in 0..p : i \in 0..Turn /\ i < Turn
  BY ClockBounds
<1>2. \A i, j \in 0..p : Ago(c, i) = Ago(c, j) => i = j
  <2> SUFFICES ASSUME NEW i \in 0..p, NEW j \in 0..p, Ago(c, i) = Ago(c, j) PROVE i = j
    OBVIOUS
  <2>1. c \in Nat /\ c < Turn /\ Turn \in Nat /\ i \in Nat /\ j \in Nat /\ i < Turn /\ j < Turn
    BY <1>1, ClockBounds
  <2>2. Ago(c, i) = (IF i <= c THEN c - i ELSE c + Turn - i)
    BY <1>1, AgoIs
  <2>3. Ago(c, j) = (IF j <= c THEN c - j ELSE c + Turn - j)
    BY <1>1, AgoIs
  <2>4. \A n, x, y, z \in Nat :
           /\ x < n /\ y < n /\ z < n
           /\ (IF y <= x THEN x - y ELSE x + n - y) = (IF z <= x THEN x - z ELSE x + n - z)
           => y = z
    OBVIOUS
  <2>5. (IF i <= c THEN c - i ELSE c + Turn - i) = (IF j <= c THEN c - j ELSE c + Turn - j)
    BY <2>2, <2>3
  <2> QED BY <2>1, <2>4, <2>5
<1>3. f \in [0..p -> Since(c, p)]
  BY DEF Since
<1>4. \A y \in Since(c, p) : \E i \in 0..p : f[i] = y
  BY DEF Since
<1>5. f \in Bijection(0..p, Since(c, p))
  <2> HIDE DEF f
  <2>1. f \in Injection(0..p, Since(c, p))
    BY <1>2, <1>3 DEF Injection, IsInjective, f
  <2>2. f \in Surjection(0..p, Since(c, p))
    BY <1>3, <1>4 DEF Surjection
  <2> QED BY <2>1, <2>2 DEF Bijection
<1>6. IsFiniteSet(0..p) /\ Cardinality(0..p) = p + 1
  <2>1. 0 \in Int /\ p \in Int /\ ~(0 > p) /\ p - 0 + 1 = p + 1
    OBVIOUS
  <2> QED BY <2>1, FS_Interval
<1>7. ExistsBijection(0..p, Since(c, p))
  BY <1>5 DEF ExistsBijection
<1> QED BY <1>6, <1>7, FS_Bijection

\* A torn read: short by more than a second, it and the count at its end are multiples
\* of BASE.
LEMMA Torn ==
    ASSUME NEW c \in Counts, NEW w \in Short(c, 0), w \notin {0, 1}
    PROVE  /\ w \in Nat /\ 0 < w /\ (w < Turn \/ BASE = 1)
           /\ Multiple(c, BASE) /\ Multiple(w, BASE) /\ Multiple(Turn, BASE)
<1>1. PICK m \in 0..BYTES - 1 : w = Weight[m] /\ Multiple(c, w) /\ Multiple(Turn, w)
  <2>1. 0 \in Nat /\ w # 0
    OBVIOUS
  <2> QED BY <2>1, ShortIs
<1>2. m \in Nat /\ m < BYTES /\ m >= 1
  <2>1. m # 0
    BY <1>1, WeightStep
  <2> QED BY <2>1, ClockBounds
<1>3. Weight[1] = BASE
  <2>1. Weight[0 + 1] = BASE * Weight[0] /\ Weight[0] = 1
    BY WeightStep
  <2> QED BY <2>1, ClockBounds
<1>4. Multiple(w, BASE)
  BY <1>1, <1>2, <1>3, WeightMultiple
<1>5. w \in Nat /\ w > 0
  BY <1>1, <1>2, WeightPositive
<1>6. Multiple(c, BASE) /\ Multiple(Turn, BASE)
  <2>1. c \in Int /\ Turn \in Int /\ w \in Int /\ BASE \in Int
    BY <1>5, ClockBounds
  <2> QED BY <1>1, <1>4, <2>1, MultipleOf
<1>7. w < Turn \/ BASE = 1
  <2>1. Weight[m + 1] = BASE * w /\ Weight[m + 1] <= Turn
    <3>1. m + 1 \in Nat /\ m + 1 <= BYTES
      BY <1>2, ClockBounds
    <3> QED BY <1>1, <1>2, <3>1, WeightStep, WeightMultiple, ClockBounds DEF Turn
  <2>2. BASE > 1 => w < BASE * w
    BY <1>5, ClockBounds
  <2>3. BASE * w \in Nat
    BY <1>5, ClockBounds
  <2> QED BY <1>5, <2>1, <2>2, <2>3, ClockBounds
<1> QED BY <1>4, <1>5, <1>6, <1>7

\* Going back twice.
LEMMA AgoAgo ==
    ASSUME NEW c \in Counts, NEW a \in Nat, NEW b \in Nat, a + b < Turn
    PROVE  Ago(Ago(c, a), b) = Ago(c, a + b)
<1>1. a \in 0..Turn /\ b \in 0..Turn /\ a + b \in 0..Turn
  BY ClockBounds
<1>2. Ago(c, a) = (IF a <= c THEN c - a ELSE c + Turn - a) /\ Ago(c, a) \in Counts
  BY <1>1, AgoIs
<1> DEFINE t == Ago(c, a)
<1>3. Ago(t, b) = (IF b <= t THEN t - b ELSE t + Turn - b)
  BY <1>1, <1>2, AgoIs
<1>4. Ago(c, a + b) = (IF a + b <= c THEN c - (a + b) ELSE c + Turn - (a + b))
  BY <1>1, AgoIs
<1> HIDE DEF t
<1>5. t = (IF a <= c THEN c - a ELSE c + Turn - a)
  BY <1>2 DEF t
<1>6. \A n, x \in Nat : x < n =>
         LET y == IF a <= x THEN x - a ELSE x + n - a
         IN  a + b < n =>
             (IF b <= y THEN y - b ELSE y + n - b)
                = (IF a + b <= x THEN x - (a + b) ELSE x + n - (a + b))
  OBVIOUS
<1>7. c \in Nat /\ Turn \in Nat /\ c < Turn
  BY ClockBounds
<1>8. Ago(t, b) = Ago(c, a + b)
  BY <1>3, <1>4, <1>5, <1>6, <1>7
<1> QED BY <1>8 DEF t

\* What is e seconds from a multiple of BASE is one only after BASE seconds.
LEMMA NotYetAgain ==
    ASSUME NEW c \in Counts, NEW e \in Nat, 0 < e, e < BASE, Multiple(c, BASE), Multiple(Turn, BASE)
    PROVE  ~Multiple(Ago(c, e), BASE)
<1> SUFFICES ASSUME Multiple(Ago(c, e), BASE) PROVE FALSE
  OBVIOUS
<1>1. BASE \in Nat /\ Turn \in Nat /\ c \in Nat /\ BASE <= Turn
  BY BaseFits, ClockBounds
<1>2. e \in 0..Turn
  BY <1>1
<1>3. Ago(c, e) = c - e \/ Ago(c, e) = c + Turn - e
  BY <1>2, AgoIs
<1>4. Ago(c, e) \in Int
  BY <1>2, AgoIs, ClockBounds
<1> DEFINE t == Ago(c, e)
<1> HIDE DEF t
<1>5. Multiple(c - t, BASE) /\ Multiple((c + Turn) - t, BASE)
  <2>1. Multiple(c + Turn, BASE) /\ c + Turn \in Int
    BY <1>1, MultiplesSum
  <2>2. t \in Int /\ Multiple(t, BASE)
    BY <1>4 DEF t
  <2> QED BY <1>1, <2>1, <2>2, MultiplesSum
<1>6. c - t = e \/ (c + Turn) - t = e
  BY <1>1, <1>3 DEF t
<1>7. Multiple(e, BASE)
  BY <1>5, <1>6
<1> QED BY <1>1, <1>7, NoneBetween

\* One second after e seconds ago.
LEMMA AgoPlusOne ==
    ASSUME NEW c \in Counts, NEW e \in Nat, 0 < e, e < Turn
    PROVE  (Ago(c, e) + 1) % Turn = Ago(c, e - 1)
<1> DEFINE t == Ago(c, e)
<1>1. e \in 0..Turn /\ e - 1 \in 0..Turn
  BY ClockBounds
<1>2. t = (IF e <= c THEN c - e ELSE c + Turn - e) /\ t \in Counts
  BY <1>1, AgoIs
<1>3. Ago(c, e - 1) = (IF e - 1 <= c THEN c - (e - 1) ELSE c + Turn - (e - 1))
  BY <1>1, AgoIs
<1> HIDE DEF t
<1>4. (t + 1) % Turn = IF t + 1 < Turn THEN t + 1 ELSE 0
  BY <1>2, NextCount
<1>5. c \in Nat /\ Turn \in Nat /\ c < Turn
  BY ClockBounds
<1>6. (t + 1) % Turn = Ago(c, e - 1)
  BY <1>2, <1>3, <1>4, <1>5
<1> QED BY <1>6 DEF t

\* Two samples that agree are not torn: tears are a multiple of BASE apart, and the
\* call does not take BASE seconds.
LEMMA SamplesAgree ==
    ASSUME NEW c \in Counts, NEW p \in 0..ELAPSE, NEW a \in 0..p,
           NEW v \in Short(c, 0), v # 0 => a >= 1,
           NEW w \in Short(Ago(c, a), 0), w # 0 => a < p,
           Ago(c, v) \in {Ago(Ago(c, a), w), (Ago(Ago(c, a), w) + 1) % Turn}
    PROVE  v \in {0, 1}
<1> SUFFICES ASSUME v \notin {0, 1} PROVE FALSE
  OBVIOUS
<1>1. a \in Nat /\ 0 < a /\ a <= p /\ p \in Nat /\ p < BASE /\ BASE \in Nat /\ BASE # 1
  <2>1. ELAPSE \in Nat /\ ELAPSE < BASE /\ BASE \in Nat
    BY RtcAssumption
  <2>2. v # 0
    OBVIOUS
  <2> QED BY <2>1, <2>2
<1>2. /\ v \in Nat /\ 0 < v /\ v < Turn
      /\ Multiple(c, BASE) /\ Multiple(v, BASE) /\ Multiple(Turn, BASE)
  BY <1>1, Torn
<1>3. BASE <= Turn
  BY BaseFits
<1>4. \A e \in Nat : 0 < e /\ e < BASE => ~Multiple(Ago(c, e), BASE)
  BY <1>2, NotYetAgain
<1> DEFINE x == Ago(Ago(c, a), w)
<1>5. \E e \in Nat : 0 < e /\ e < BASE /\ x = Ago(c, e)
  <2>1. Ago(c, a) \in Counts
    BY <1>1, <1>3, AgoIs, ClockBounds
  <2>2. CASE w = 0
    <3>1. a + 0 < Turn /\ a + 0 = a /\ 0 \in Nat
      BY <1>1, <1>3, ClockBounds
    <3>2. x = Ago(c, a)
      BY <1>1, <2>2, <3>1, AgoAgo
    <3> QED BY <1>1, <3>2
  <2>3. CASE w = 1
    <3>1. a + 1 < Turn /\ a + 1 < BASE /\ 0 < a + 1 /\ a + 1 \in Nat
      BY <1>1, <1>3, <2>3, ClockBounds
    <3>2. x = Ago(c, a + 1)
      BY <1>1, <2>3, <3>1, AgoAgo
    <3> QED BY <3>1, <3>2
  <2>4. CASE w \notin {0, 1}
    <3>1. Multiple(Ago(c, a), BASE)
      BY <2>1, <2>4, Torn
    <3> QED BY <1>1, <1>4, <3>1
  <2> QED BY <2>2, <2>3, <2>4
<1>6. PICK e \in Nat : 0 < e /\ e < BASE /\ x = Ago(c, e)
  BY <1>5
<1>7. v \in 0..Turn /\ BASE \in Nat
  BY <1>1, <1>2, ClockBounds
<1>8. Multiple(Ago(c, v), BASE)
  BY <1>2, <1>7, AgoMultiple
<1>9. Ago(c, v) # x
  BY <1>4, <1>6, <1>8
<1>10. Ago(c, v) = Ago(c, e - 1)
  <2>1. e < Turn
    BY <1>1, <1>3, <1>6, ClockBounds
  <2>2. (Ago(c, e) + 1) % Turn = Ago(c, e - 1)
    BY <1>6, <2>1, AgoPlusOne
  <2> QED BY <1>6, <1>9, <2>2
<1>11. e - 1 = 0
  <2>1. CASE e - 1 > 0
    BY <1>1, <1>4, <1>6, <1>8, <1>10, <2>1
  <2> QED BY <1>6, <2>1
<1>12. Ago(c, v) = Ago(c, 0)
  BY <1>10, <1>11
<1>13. Ago(c, v) = (IF v <= c THEN c - v ELSE c + Turn - v) /\ Ago(c, 0) = c
  <2>1. 0 \in 0..Turn /\ c \in Nat
    BY ClockBounds
  <2> QED BY <1>7, <2>1, AgoIs
<1>14. c \in Nat /\ Turn \in Nat
  BY ClockBounds
<1> QED BY <1>2, <1>12, <1>13, <1>14

\* The bytes read so far, b of them, are those of the count, or short of what a
\* second that fell into the transfer has carried.
SampleIs(c, b, fell, v) ==
    \E w \in Short(c, BYTES - b) :
       (w # 0 => fell) /\ v = Ago(c, w) \div Weight[BYTES - b]

\* So was the last sample, a of the p seconds of the call ago.
LastSampleIs(c, p, fell, x) ==
    \E a \in 0..p : \E w \in Short(Ago(c, a), 0) :
       (w # 0 => a < p) /\ (fell => a >= 1) /\ x = Ago(Ago(c, a), w)

\* The seconds of the call so far.
Passed == Cardinality(seen) - 1

\* What is known of a read at each of its steps: RTCCNT has shown one count for every
\* second, a sample is true up to one carry, and so was the last one.  Two samples
\* that agree then have no carry in them.
ReadInv ==
    /\ count \in Counts
    /\ ReadIsTrue
    /\ owner # "none" => answer = {}
    /\ owner = "none" => step = "none"
    /\ step \in {"first", "again"} => owner = "get" /\ ~unset
    /\ step \in {"mark", "write"} => owner = "set"
    /\ step \notin {"first", "again"} => value = 0
    /\ owner = "get" => Passed \in 0..ELAPSE /\ seen = Since(count, Passed)
    /\ step \in {"first", "again"} =>
          SampleIs(count, byte, ticked, value) /\ (ticked => Passed >= 1)
    /\ step = "again" => LastSampleIs(count, Passed, ticked, previous)

\* A read that is short of nothing.
LEMMA NothingShort ==
    ASSUME NEW c \in Counts, NEW from
    PROVE  0 \in Short(c, from) /\ Ago(c, 0) = c /\ c \div Turn = 0 /\ c \div 1 = c
<1>1. 0 \in 0..Turn /\ c \in Nat /\ c < Turn /\ Turn \in Nat
  BY ClockBounds
<1>2. Ago(c, 0) = c
  BY <1>1, AgoIs
<1>3. c = Turn * 0 + c /\ c = 1 * c + 0
  BY <1>1
<1>4. c \div Turn = 0 /\ c \div 1 = c
  <2>1. 0 \in Int /\ c \in Int /\ 0 \in Nat /\ 1 \in Nat /\ 0 < 1
    BY <1>1
  <2>2. c \div Turn = 0
    BY <1>1, <1>3, <2>1, Quotient
  <2>3. c \div 1 = c
    BY <1>1, <1>3, <2>1, Quotient
  <2> QED BY <2>2, <2>3
<1> QED BY <1>2, <1>4 DEF Short

\* A sample begins with no byte, goes on by a byte, sees a second fall into it, and
\* ends as the count, or as one it was short of.
LEMMA SampleBegins == ASSUME NEW c \in Counts, NEW fell PROVE SampleIs(c, 0, fell, 0)
<1>1. BYTES - 0 = BYTES
  BY ClockBounds
<1>2. 0 \in Short(c, BYTES) /\ 0 = Ago(c, 0) \div Weight[BYTES]
  BY NothingShort DEF Turn
<1> QED BY <1>1, <1>2 DEF SampleIs

LEMMA SampleGoesOn ==
    ASSUME NEW c \in Counts, NEW b \in 0..BYTES - 1, NEW fell, NEW v, SampleIs(c, b, fell, v)
    PROVE  SampleIs(c, b + 1, fell, v * BASE + Byte(c, b + 1))
<1> DEFINE m == BYTES - b
<1>1. m \in 1..BYTES /\ BYTES - (b + 1) = m - 1 /\ m \in Nat /\ m - 1 \in Nat
  BY ClockBounds
<1>2. PICK w \in Short(c, m) : (w # 0 => fell) /\ v = Ago(c, w) \div Weight[m]
  BY DEF SampleIs
<1> HIDE DEF m
<1>3. Ago(c, w) \div Weight[m - 1] = v * BASE + ((c \div Weight[m - 1]) % BASE)
  BY <1>1, <1>2, DigitStep
<1>4. w \in Short(c, m - 1)
  <2>1. m..BYTES - 1 \subseteq (m - 1)..BYTES - 1
    BY <1>1, ClockBounds
  <2> QED BY <2>1 DEF Short
<1> QED BY <1>1, <1>2, <1>3, <1>4 DEF SampleIs, Byte

LEMMA SampleTicks ==
    ASSUME NEW c \in Counts, NEW b \in 0..BYTES, NEW fell, NEW v, SampleIs(c, b, fell, v),
           b > 0 => ~fell, b = 0 => v = 0
    PROVE  SampleIs((c + 1) % Turn, b, b > 0, v)
<1> DEFINE n == (c + 1) % Turn
<1>1. n \in Counts /\ b \in Nat
  BY NextCount, ClockBounds
<1>2. CASE b = 0
  BY <1>1, <1>2, SampleBegins
<1>3. CASE b > 0
  <2> DEFINE m == BYTES - b
  <2>1. m \in 0..BYTES - 1
    BY <1>3, ClockBounds
  <2>2. v = Ago(c, 0) \div Weight[m]
    BY <1>3 DEF SampleIs
  <2> HIDE DEF m, n
  <2>3. v = c \div Weight[m]
    BY <2>2, NothingShort
  <2>4. PICK w \in {0, Weight[m]} : w \in Short(n, m) /\ c \div Weight[m] = Ago(n, w) \div Weight[m]
    BY <2>1, TickUnderTransfer DEF n
  <2>5. \E u \in Short(n, m) : (u # 0 => b > 0) /\ v = Ago(n, u) \div Weight[m]
    BY <1>3, <2>3, <2>4
  <2> QED BY <2>5 DEF SampleIs, m, n
<1> QED BY <1>1, <1>2, <1>3

LEMMA SampleEnds ==
    ASSUME NEW c \in Counts, NEW fell, NEW v, SampleIs(c, BYTES, fell, v)
    PROVE  \E w \in Short(c, 0) : (w # 0 => fell) /\ v = Ago(c, w)
<1>1. BYTES - BYTES = 0 /\ Weight[0] = 1 /\ 0 \in Nat
  BY ClockBounds, WeightStep
<1>2. PICK w \in Short(c, 0) : (w # 0 => fell) /\ v = Ago(c, w) \div 1
  BY <1>1 DEF SampleIs
<1>3. Ago(c, w) \in Counts
  <2>1. w \in 0..Turn
    BY <1>1, ShortIs
  <2> QED BY <2>1, AgoIs
<1>4. v = Ago(c, w)
  BY <1>2, <1>3, NothingShort
<1> QED BY <1>2, <1>4

\* It becomes the last one, and ages by a second.
LEMMA SampleIsLast ==
    ASSUME NEW c \in Counts, NEW fell, NEW v, SampleIs(c, BYTES, fell, v),
           NEW p \in Nat, fell => p >= 1
    PROVE  LastSampleIs(c, p, FALSE, v)
<1>1. PICK w \in Short(c, 0) : (w # 0 => fell) /\ v = Ago(c, w)
  BY SampleEnds
<1>2. 0 \in 0..p /\ Ago(c, 0) = c /\ (w # 0 => 0 < p)
  BY <1>1, NothingShort
<1> QED BY <1>1, <1>2 DEF LastSampleIs

LEMMA LastSampleTicks ==
    ASSUME NEW c \in Counts, NEW p \in Nat, p < Turn, NEW fell, NEW x, LastSampleIs(c, p, fell, x),
           NEW falls
    PROVE  LastSampleIs((c + 1) % Turn, p + 1, falls, x)
<1>0. PICK a \in 0..p : \E w \in Short(Ago(c, a), 0) : (w # 0 => a < p) /\ x = Ago(Ago(c, a), w)
  BY DEF LastSampleIs
<1>1. PICK w \in Short(Ago(c, a), 0) : (w # 0 => a < p) /\ x = Ago(Ago(c, a), w)
  BY <1>0
<1> DEFINE n == (c + 1) % Turn
<1>2. Ago(n, a + 1) = Ago(c, a)
  <2>1. a \in 0..Turn - 1
    BY ClockBounds
  <2> QED BY <2>1, AgoNext
<1>3. a + 1 \in 0..p + 1 /\ a + 1 >= 1 /\ (w # 0 => a + 1 < p + 1)
  BY <1>1
<1> HIDE DEF n
<1>4. LastSampleIs(n, p + 1, falls, x)
  BY <1>1, <1>2, <1>3 DEF LastSampleIs
<1> QED BY <1>4 DEF n

\* What the driver accepts, RTCCNT showed.
LEMMA AgreedIsTrue ==
    ASSUME NEW c \in Counts, NEW p \in 0..ELAPSE, NEW fell, NEW v, SampleIs(c, BYTES, fell, v),
           fell => p >= 1, NEW x, LastSampleIs(c, p, fell, x), v \in {x, (x + 1) % Turn}
    PROVE  v \in Since(c, p)
<1>1. PICK w \in Short(c, 0) : (w # 0 => fell) /\ v = Ago(c, w)
  BY SampleEnds
<1>0. PICK a \in 0..p : \E u \in Short(Ago(c, a), 0) :
         (u # 0 => a < p) /\ (fell => a >= 1) /\ x = Ago(Ago(c, a), u)
  BY DEF LastSampleIs
<1>2. PICK u \in Short(Ago(c, a), 0) :
         (u # 0 => a < p) /\ (fell => a >= 1) /\ x = Ago(Ago(c, a), u)
  BY <1>0
<1>3. w # 0 => a >= 1
  BY <1>1, <1>2
<1>4. w \in {0, 1}
  BY <1>1, <1>2, <1>3, SamplesAgree
<1>5. p \in Nat
  BY RtcAssumption
<1>6. w \in 0..p
  BY <1>1, <1>4, <1>5
<1> QED BY <1>1, <1>6 DEF Since

\* A call ends without an answer.
LEMMA CallEnds ==
    ASSUME ReadInv, Idle, answer' = {}, count' \in Counts
    PROVE  ReadInv'
BY DEF ReadInv, ReadIsTrue, Idle

\* A transfer that is not of a sample.
LEMMA NoSample ==
    ASSUME ReadInv, step \notin {"first", "again"}, step' \notin {"first", "again"},
           UNCHANGED <<count, owner, answer, seen, value>>, owner # "none",
           step' \in {"mark", "write"} => owner = "set"
    PROVE  ReadInv'
<1>1. answer = {}
  BY DEF ReadInv
<1> QED BY <1>1 DEF ReadInv, ReadIsTrue, Passed

\* Every step of the driver, and of the clock under it, keeps what is known of a read.
LEMMA ReadInduction == ByteInv /\ ClockInv /\ ReadInv /\ [RtcNext]_rtcvars => ReadInv'
<1> SUFFICES ASSUME ByteInv, ClockInv, ReadInv, [RtcNext]_rtcvars PROVE ReadInv'
  OBVIOUS
<1>0. step # "none" => owner # "none" /\ answer = {}
  BY DEF ReadInv
<1>1. CASE Second
  <2>1. owner # "none" /\ Cardinality(seen) <= ELAPSE /\ (byte > 0 => ~ticked)
        /\ count' = (count + 1) % Turn /\ ticked' = (byte > 0) /\ seen' = seen \cup {count'}
        /\ UNCHANGED <<owner, step, byte, value, previous, answer, unset>>
    BY <1>1 DEF Second, locals, Turn
  <2>2. count \in Counts /\ count' \in Counts /\ byte \in 0..BYTES
    BY <2>1, NextCount DEF ReadInv, ByteInv
  <2>3. CASE owner # "get"
    <3>1. step \notin {"first", "again"} /\ answer = {}
      BY <2>1, <2>3 DEF ReadInv
    <3> QED BY <2>1, <2>2, <2>3, <3>1 DEF ReadInv, ReadIsTrue
  <2>4. CASE owner = "get"
    <3> DEFINE p == Passed
    <3>1. p \in 0..ELAPSE /\ seen = Since(count, p) /\ answer = {}
      BY <2>4 DEF ReadInv
    <3>2. p \in Nat /\ p + 1 \in 0..ELAPSE /\ p + 1 < Turn /\ p < Turn
      <4>1. /\ Cardinality(Since(count, p)) <= ELAPSE /\ ELAPSE < BASE
            /\ ELAPSE \in Nat /\ BASE <= Turn
        BY <2>1, <3>1, BaseFits, RtcAssumption
      <4>2. p \in Nat /\ p < Turn
        BY <3>1, <4>1, ClockBounds
      <4>3. Cardinality(Since(count, p)) = p + 1
        BY <2>2, <4>2, SinceSize
      <4> QED BY <4>1, <4>2, <4>3, ClockBounds
    <3>3. seen' = Since(count', p + 1)
      BY <2>1, <2>2, <3>1, <3>2, SinceNext
    <3>4. Passed' = p + 1
      BY <2>2, <3>2, <3>3, SinceSize DEF Passed
    <3> HIDE DEF p
    <3>5. step \in {"first", "again"} => ~unset
      BY DEF ReadInv
    <3>6. CASE step \in {"first", "again"}
      <4>1. SampleIs(count, byte, ticked, value)
        BY <3>6 DEF ReadInv
      <4>2. byte = 0 => value = 0
        <5>1. ASSUME byte = 0 PROVE value = 0
          <6>1. BYTES - 0 = BYTES
            BY ClockBounds
          <6>2. PICK w \in Short(count, BYTES) : value = Ago(count, w) \div Turn
            BY <4>1, <5>1, <6>1 DEF SampleIs, Turn
          <6>3. Ago(count, w) \in Counts
            <7>1. w \in 0..Turn
              BY <2>2, ClockBounds, ShortIs
            <7> QED BY <2>2, <7>1, AgoIs
          <6> QED BY <6>2, <6>3, NothingShort
        <5> QED BY <5>1
      <4>3. SampleIs(count', byte, byte > 0, value)
        BY <2>1, <2>2, <4>1, <4>2, SampleTicks
      <4>4. SampleIs(count', byte', ticked', value') /\ Passed' >= 1
        BY <2>1, <3>2, <3>4, <4>3
      <4>5. step = "again" => LastSampleIs(count', Passed', ticked', previous')
        <5>1. SUFFICES ASSUME step = "again" PROVE LastSampleIs(count', p + 1, ticked', previous)
          BY <2>1, <3>4
        <5>2. LastSampleIs(count, p, ticked, previous)
          BY <5>1 DEF ReadInv, p
        <5> QED BY <2>1, <2>2, <3>2, <5>2, LastSampleTicks
      <4> QED BY <2>1, <2>2, <2>4, <3>1, <3>2, <3>3, <3>4, <3>5, <3>6, <4>4, <4>5
              DEF ReadInv, ReadIsTrue
    <3>7. CASE step \notin {"first", "again"}
      BY <2>1, <2>2, <2>4, <3>1, <3>2, <3>3, <3>4, <3>7 DEF ReadInv, ReadIsTrue
    <3> QED BY <3>6, <3>7
  <2> QED BY <2>3, <2>4
<1>2. CASE Reset \/ PowerUp
  <2>1. Idle /\ answer' = {} /\ count' \in {0, count}
    BY <1>2 DEF Reset, PowerUp
  <2>2. count' \in Counts
    BY <2>1, ClockBounds DEF ReadInv
  <2> QED BY <2>1, <2>2, CallEnds
<1>3. ASSUME NEW o \in {"get", "set", "pm"}, rtc_take(o) PROVE ReadInv'
  <2>1. /\ owner = "none" /\ owner' = o /\ step' \in {"pm", "con0", "init"} /\ answer' = {}
        /\ seen' = {count} /\ UNCHANGED <<count, value, unset>>
    BY <1>3 DEF rtc_take, Goto
  <2>2. count \in Counts /\ value = 0
    BY <2>1 DEF ReadInv
  <2>3. seen' = Since(count, 0)
    <3>1. \A i \in 0..0 : i = 0
      OBVIOUS
    <3>2. Ago(count, 0) = count /\ 0 \in 0..0
      BY <2>2, NothingShort
    <3> QED BY <2>1, <3>1, <3>2 DEF Since
  <2>4. Passed' = 0 /\ 0 \in 0..ELAPSE
    <3>1. 0 \in Nat /\ 0 < Turn
      BY ClockBounds
    <3>2. Cardinality(seen') = 0 + 1
      BY <2>2, <2>3, <3>1, SinceSize
    <3> QED BY <3>2, RtcAssumption DEF Passed
  <2> QED BY <2>1, <2>2, <2>3, <2>4 DEF ReadInv, ReadIsTrue
<1>4. CASE Begin
  <2>1. step \in {"init", "init con0", "pm", "pm con0"} /\ UNCHANGED <<count, unset, answer, seen>>
        /\ (Idle \/ (step' \in {"init con0", "con0", "pm con0"} /\ UNCHANGED <<owner, value>>))
    BY <1>4 DEF Begin, rtc_ensure_init, ShutdownUpdate, ReadCon0, WriteFailed, Fail, Goto
  <2>2. owner # "none" /\ answer' = {} /\ count' \in Counts
    BY <1>0, <2>1 DEF ReadInv
  <2> QED BY <2>1, <2>2, CallEnds, NoSample
<1>5. CASE CheckCon0
  <2>1. /\ owner = "get" /\ step = "con0" /\ UNCHANGED <<con0, count, unset, answer, seen>>
        /\ \/ Idle
           \/ /\ "PWRUP_FIRST" \notin con0
              /\ step' = "first" /\ byte' = 0 /\ ticked' = FALSE
              /\ UNCHANGED <<owner, value>>
    BY <1>5 DEF CheckCon0, ReadCon0, Fail, Goto
  <2>2. answer' = {} /\ count' \in Counts /\ value = 0
    BY <1>0, <2>1 DEF ReadInv
  <2>3. CASE "PWRUP_FIRST" \notin con0 /\ step' = "first" /\ byte' = 0 /\ ticked' = FALSE
             /\ UNCHANGED <<owner, value>>
    <3>1. ~unset
      BY <2>3 DEF ClockInv, UnsetIsMarked
    <3>2. SampleIs(count', byte', ticked', value')
      BY <2>2, <2>3, SampleBegins
    <3>3. Passed' = Passed
      BY <2>1 DEF Passed
    <3> QED BY <2>1, <2>2, <2>3, <3>1, <3>2, <3>3 DEF ReadInv, ReadIsTrue
  <2> QED BY <2>1, <2>2, <2>3, CallEnds
<1>6. CASE ReadByte
  <2>1. /\ step \in {"first", "again"} /\ byte < BYTES /\ UNCHANGED <<count, unset, answer, seen>>
        /\ \/ Idle
           \/ /\ byte' = byte + 1 /\ value' = value * BASE + Byte(count, byte + 1)
              /\ UNCHANGED <<owner, step, previous, ticked>>
    BY <1>6 DEF ReadByte, Fail
  <2>2. answer' = {} /\ count' \in Counts /\ count \in Counts
    BY <1>0, <2>1 DEF ReadInv
  <2>3. CASE byte' = byte + 1 /\ value' = value * BASE + Byte(count, byte + 1)
             /\ UNCHANGED <<owner, step, previous, ticked>>
    <3>1. byte \in 0..BYTES - 1
      BY <2>1, ClockBounds DEF ByteInv
    <3>2. SampleIs(count, byte, ticked, value)
      BY <2>1 DEF ReadInv
    <3>3. SampleIs(count', byte', ticked', value')
      BY <2>1, <2>2, <2>3, <3>1, <3>2, SampleGoesOn
    <3>4. Passed' = Passed
      BY <2>1 DEF Passed
    <3> QED BY <2>1, <2>2, <2>3, <3>3, <3>4 DEF ReadInv, ReadIsTrue
  <2> QED BY <2>1, <2>2, <2>3, CallEnds
<1>7. CASE Sampled
  <2>1. byte = BYTES /\ UNCHANGED <<count, unset>> /\ step \in {"first", "again"}
    BY <1>7 DEF Sampled
  <2>2. /\ count \in Counts /\ owner = "get" /\ ~unset /\ answer = {}
        /\ SampleIs(count, BYTES, ticked, value) /\ (ticked => Passed >= 1)
        /\ Passed \in 0..ELAPSE /\ seen = Since(count, Passed)
    BY <1>0, <2>1 DEF ReadInv
  <2>3. CASE step = "again" /\ Consistent /\ Idle /\ answer' = {value} /\ seen' = seen
    <3>1. LastSampleIs(count, Passed, ticked, previous)
      BY <2>3 DEF ReadInv
    <3>2. value \in {previous, (previous + 1) % Turn}
      BY <2>3 DEF Consistent, Turn
    <3>3. value \in seen
      BY <2>2, <3>1, <3>2, AgreedIsTrue
    <3> QED BY <2>1, <2>2, <2>3, <3>3 DEF ReadInv, ReadIsTrue, Idle
  <2>4. CASE Goto("again") /\ previous' = value /\ value' = 0 /\ UNCHANGED <<owner, answer, seen>>
    <3>1. step' = "again" /\ byte' = 0 /\ ticked' = FALSE
      BY <2>4 DEF Goto
    <3>2. SampleIs(count', byte', ticked', value')
      BY <2>1, <2>2, <2>4, <3>1, SampleBegins
    <3>3. Passed' = Passed /\ Passed \in Nat
      BY <2>2, <2>4, RtcAssumption DEF Passed
    <3>4. LastSampleIs(count', Passed', ticked', previous')
      BY <2>1, <2>2, <2>4, <3>1, <3>3, SampleIsLast
    <3>5. answer' = {} /\ count' \in Counts /\ owner' = "get" /\ ~unset' /\ ticked' = FALSE
          /\ Passed' \in 0..ELAPSE /\ seen' = Since(count', Passed')
      BY <2>1, <2>2, <2>4, <3>1, <3>3
    <3> QED BY <3>1, <3>2, <3>4, <3>5 DEF ReadInv, ReadIsTrue
  <2>5. CASE Fail
    BY <2>1, <2>2, <2>5, CallEnds DEF Fail
  <2> QED BY <1>7, <2>3, <2>4, <2>5 DEF Sampled
<1>8. CASE SetBegins \/ Mark
  <2>1. /\ step \in {"con0", "mark"} /\ owner = "set" /\ UNCHANGED <<count, unset, answer, seen>>
        /\ (Idle \/ (step' \in {"mark", "write"} /\ UNCHANGED <<owner, value>>))
    BY <1>8 DEF SetBegins, Mark, ReadCon0, WriteFailed, Fail, Goto, ReadInv
  <2>2. answer' = {} /\ count' \in Counts
    BY <1>0, <2>1 DEF ReadInv
  <2> QED BY <2>1, <2>2, CallEnds, NoSample
<1>9. CASE WriteByte
  <2>1. /\ step = "write" /\ owner = "set" /\ UNCHANGED <<answer, seen>> /\ count' \in Counts
        /\ (Idle \/ UNCHANGED <<owner, step, value>>)
    BY <1>9 DEF WriteByte, Loaded, Fail, ReadInv
  <2>2. answer = {} /\ value = 0
    BY <1>0, <2>1 DEF ReadInv
  <2> QED BY <2>1, <2>2, CallEnds DEF ReadInv, ReadIsTrue
<1>10. CASE Unmark
  <2>1. step = "write" /\ Idle /\ UNCHANGED <<count, answer>>
    BY <1>10 DEF Unmark, WriteFailed, Fail
  <2>2. answer' = {} /\ count' \in Counts
    BY <1>0, <2>1 DEF ReadInv
  <2> QED BY <2>1, <2>2, CallEnds
<1>11. CASE UNCHANGED rtcvars
  BY <1>11 DEF rtcvars, locals, ReadInv, ReadIsTrue, Passed
<1> QED BY <1>1, <1>2, <1>3, <1>4, <1>5, <1>6, <1>7, <1>8, <1>9, <1>10, <1>11 DEF RtcNext

\* The seconds a get returns (drv_rtc.c:129-164) are some that RTCCNT showed
\* during the call, and of a time that was set, whatever the base and the number
\* of its bytes, and wherever between two bytes or two samples a second falls.
THEOREM ReadsAreTrue == PartsSpec => []ReadIsTrue
<1>1. RtcInit => ByteInv /\ ClockInv
  BY FirstByte DEF RtcInit, ByteInv, ClockInv, UnsetIsMarked
<1>2. RtcInit => ReadInv
  BY ClockBounds DEF RtcInit, ReadInv, ReadIsTrue
<1>3. ReadInv => ReadIsTrue
  BY DEF ReadInv
<1> QED BY <1>1, <1>2, <1>3, ByteInduction, ClockInduction, ReadInduction, PartsAreParts, PTL
       DEF RtcSpec

-----------------------------------------------------------------------------
(* The UART receiver.                                                      *)

\* A set bit has a token or a thread about to take it; a thread that is not
\* draining has nothing left to drain.
DrainInv ==
    /\ drv_wake \in 0..SEM_MAX
    /\ drv_pending # {} => drv_wake > 0 \/ drv = "take"
    /\ drv # "process" => events = {}
    /\ rx_idx \in [Uarts -> Nat] /\ rx_idx_prev \in [Uarts -> Nat]
    /\ NoStrandedByte

LEMMA IndexWraps == ASSUME NEW i \in Nat PROVE (i + 1) % WRAP \in Nat
BY UartAssumption

LEMMA DrainInduction == DrainInv /\ [UartNext]_uartvars => DrainInv'
<1> SUFFICES ASSUME DrainInv, [UartNext]_uartvars PROVE DrainInv'
  OBVIOUS
<1> USE DEF DrainInv
<1>1. ASSUME NEW u \in Uarts, uart_isr(u) PROVE DrainInv'
  <2> DEFINE next == (rx_idx[u] + 1) % WRAP
  <2>1. rx_idx' = [rx_idx EXCEPT ![u] = next] /\ UNCHANGED <<rx_idx_prev, drv, events>>
    BY <1>1 DEF uart_isr
  <2>2. next \in Nat
    BY IndexWraps
  <2>3. drv_pending' = drv_pending \cup {u} /\ drv_wake' \in 0..SEM_MAX
        /\ (drv_wake' > 0 \/ drv = "take")
    BY <1>1, UartAssumption DEF uart_isr, drv_notify
  <2> HIDE DEF next
  <2> QED BY <2>1, <2>2, <2>3 DEF NoStrandedByte
<1>2. ASSUME NEW u \in Uarts, ab32_getc(u) PROVE DrainInv'
  <2> DEFINE next == (rx_idx_prev[u] + 1) % WRAP
  <2>1. /\ rx_idx_prev' = [rx_idx_prev EXCEPT ![u] = next] /\ u \in events
        /\ UNCHANGED <<rx_idx, drv_pending, drv_wake, drv, events>>
    BY <1>2 DEF ab32_getc
  <2>2. next \in Nat
    BY IndexWraps
  <2> HIDE DEF next
  <2> QED BY <2>1, <2>2 DEF NoStrandedByte
<1>3. ASSUME NEW u \in Uarts, Drained(u) PROVE DrainInv'
  BY <1>3 DEF Drained, NoStrandedByte
<1>4. CASE drv_sem_take
  <2>1. drv_wake' \in 0..SEM_MAX
    BY <1>4, UartAssumption DEF drv_sem_take
  <2> QED BY <1>4, <2>1 DEF drv_sem_take, NoStrandedByte
<1>5. CASE drv_take_pending
  BY <1>5 DEF drv_take_pending, NoStrandedByte
<1>6. CASE Processed
  BY <1>6 DEF Processed, NoStrandedByte
<1>7. CASE UNCHANGED uartvars
  BY <1>7 DEF uartvars, NoStrandedByte
<1> QED BY <1>1, <1>2, <1>3, <1>4, <1>5, <1>6, <1>7 DEF UartNext

\* No received byte is left in a ring that nobody is going to drain, although
\* drv_notify (drv_common.c:22) gives a token for the first bit only.
THEOREM NoByteIsStranded == PartsSpec => []NoStrandedByte
<1>1. UartInit => DrainInv
  BY UartAssumption DEF UartInit, DrainInv, NoStrandedByte
<1>2. DrainInv => NoStrandedByte
  BY DEF DrainInv
<1> QED BY <1>1, <1>2, DrainInduction, PartsAreParts, PTL DEF UartSpec

-----------------------------------------------------------------------------
(* The pin interrupts.                                                     *)

\* The handler that runs belongs to the pin the thread looks at; a shared pin
\* whose level has not moved since it was subscribed or sampled does not differ
\* from its last level, so what is pending has moved under its subscription.
PinInv ==
    /\ gpio_wake \in Nat /\ visit \in 0..PINS
    /\ level \in [Pins -> BOOLEAN] /\ gpio_levels \in [Pins -> BOOLEAN]
    /\ gpio_enabled \subseteq Pins
    /\ \A p \in gpio_enabled \ Dedicated : p \notin moved => level[p] = gpio_levels[p]
    /\ gpio_pending \ Dedicated \subseteq fresh
    /\ calling # NoPin => calling = visit
    /\ EdgeIsServed

LEMMA NextPin ==
    ASSUME visit \in 0..PINS, visit # NoPin, Next1
    PROVE  /\ visit' \in 0..PINS
           /\ \A p \in Pins : visit <= p /\ p # visit => visit' # NoPin /\ visit' <= p
BY PinAssumption DEF Next1, NoPin, Pins

LEMMA TakePinKeeps == ASSUME PinInv, gpio_take_pin PROVE PinInv'
<1> USE DEF PinInv
<1>1. /\ visit # NoPin /\ calling = NoPin /\ gpio_pending' = gpio_pending \ {visit}
      /\ UNCHANGED <<gpio_wake, gpio_enabled, level, gpio_levels, moved>>
  BY DEF gpio_take_pin
<1>2. CASE calling' = visit /\ fresh' = fresh \ {visit} /\ visit' = visit
  BY <1>1, <1>2 DEF EdgeIsServed, Pins
<1>3. CASE Next1 /\ calling' = calling /\ fresh' = fresh
  <2>1. /\ visit' \in 0..PINS
        /\ \A p \in Pins : visit <= p /\ p # visit => visit' # NoPin /\ visit' <= p
    BY <1>1, <1>3, NextPin
  <2>2. gpio_pending' \ Dedicated \subseteq fresh'
    BY <1>1, <1>3
  <2>3. ASSUME NEW p \in gpio_pending' \cap gpio_enabled'
        PROVE  gpio_wake' > 0 \/ (visit' # NoPin /\ visit' <= p /\ calling' # p)
    <3>1. p \in gpio_pending \cap gpio_enabled /\ p # visit /\ p \in Pins
      BY <1>1, <2>3
    <3>2. gpio_wake > 0 \/ (visit <= p /\ calling # p)
      BY <3>1 DEF EdgeIsServed
    <3> QED BY <1>1, <1>3, <2>1, <3>1, <3>2
  <2>4. EdgeIsServed'
    BY <2>3 DEF EdgeIsServed
  <2>5. \A p \in gpio_enabled' \ Dedicated : p \notin moved' => level'[p] = gpio_levels'[p]
    BY <1>1
  <2>6. /\ gpio_wake' \in Nat /\ visit' \in 0..PINS /\ gpio_enabled' \subseteq Pins
        /\ level' \in [Pins -> BOOLEAN] /\ gpio_levels' \in [Pins -> BOOLEAN]
        /\ calling' = NoPin
    BY <1>1, <1>3, <2>1
  <2> QED BY <2>2, <2>4, <2>5, <2>6
<1> QED BY <1>2, <1>3 DEF gpio_take_pin

LEMMA CalledKeeps == ASSUME PinInv, Called PROVE PinInv'
<1> USE DEF PinInv
<1>1. /\ calling # NoPin /\ calling' = NoPin /\ Next1 /\ calling = visit
      /\ UNCHANGED <<gpio_wake, gpio_enabled, gpio_pending, level, gpio_levels, moved, fresh>>
  BY DEF Called, edges
<1>2. /\ visit' \in 0..PINS
      /\ \A p \in Pins : visit <= p /\ p # visit => visit' # NoPin /\ visit' <= p
  BY <1>1, NextPin
<1>3. ASSUME NEW p \in gpio_pending' \cap gpio_enabled'
      PROVE  gpio_wake' > 0 \/ (visit' # NoPin /\ visit' <= p /\ calling' # p)
  <2>1. p \in gpio_pending \cap gpio_enabled /\ p \in Pins
    BY <1>1, <1>3
  <2>2. gpio_wake > 0 \/ (visit <= p /\ p # visit)
    BY <1>1, <2>1 DEF EdgeIsServed
  <2>3. p # NoPin
    BY <2>1 DEF Pins, NoPin
  <2> QED BY <1>1, <1>2, <2>1, <2>2, <2>3
<1> QED BY <1>1, <1>2, <1>3 DEF EdgeIsServed

LEMMA IsrKeeps == ASSUME PinInv, ab32_pin_irq_handler PROVE PinInv'
<1> USE DEF PinInv
<1>1. UNCHANGED <<gpio_enabled, visit, calling, level>> /\ gpio_levels' = level
  BY DEF ab32_pin_irq_handler
<1>2. PICK notify \in {{p \in gpio_enabled : Notify(p)}} :
        /\ gpio_pending' = gpio_pending \cup notify
        /\ fresh' = fresh \cup (notify \cap moved) /\ Release(notify)
  BY DEF ab32_pin_irq_handler
<1>3. gpio_wake' \in Nat /\ (notify # {} => gpio_wake' > 0) /\ (notify = {} => gpio_wake' = gpio_wake)
  BY <1>2, PinAssumption DEF Release, Token
<1>4. notify \ Dedicated \subseteq moved
  BY <1>2 DEF Notify
<1>5. gpio_pending' \ Dedicated \subseteq fresh'
  BY <1>2, <1>4
<1>6. EdgeIsServed'
  BY <1>1, <1>2, <1>3 DEF EdgeIsServed
<1> QED BY <1>1, <1>3, <1>5, <1>6

LEMMA ChangeKeeps ==
    ASSUME PinInv, NEW p \in Pins, NEW enable \in BOOLEAN, gpio_change_pin(p, enable),
           UNCHANGED <<level, gpio_wake, visit, calling>>
    PROVE  PinInv'
<1> USE DEF PinInv
<1>1. /\ gpio_pending' = gpio_pending \ {p}
      /\ fresh \ {p} \subseteq fresh' /\ moved \ {p} \subseteq moved'
  BY DEF gpio_change_pin, Subscribes, edges
<1>2. EdgeIsServed' /\ gpio_pending' \ Dedicated \subseteq fresh' /\ gpio_enabled' \subseteq Pins
  BY <1>1 DEF EdgeIsServed, gpio_change_pin
<1>3. CASE enable
  <2>1. gpio_levels' = [gpio_levels EXCEPT ![p] = level[p]] /\ gpio_enabled' = gpio_enabled \cup {p}
    BY <1>3 DEF gpio_change_pin
  <2>2. ASSUME NEW q \in gpio_enabled' \ Dedicated, q \notin moved'
        PROVE  level'[q] = gpio_levels'[q]
    BY <2>1, <2>2, <1>1
  <2> QED BY <1>2, <2>1, <2>2
<1>4. CASE ~enable
  <2>1. UNCHANGED gpio_levels /\ gpio_enabled' = gpio_enabled \ {p}
    BY <1>4 DEF gpio_change_pin
  <2> QED BY <1>1, <1>2, <2>1
<1> QED BY <1>3, <1>4

LEMMA PinInduction == PinInv /\ [PinNext]_pinvars => PinInv'
<1> SUFFICES ASSUME PinInv, [PinNext]_pinvars PROVE PinInv'
  OBVIOUS
<1>1. ASSUME NEW p \in Pins, PinChanges(p) PROVE PinInv'
  BY <1>1 DEF PinChanges, PinInv, EdgeIsServed
<1>2. ASSUME NEW p \in Pins, ab32_pin_dettach_irq(p) PROVE PinInv'
  BY <1>2, ChangeKeeps DEF ab32_pin_dettach_irq
<1>3. ASSUME NEW p \in Pins, NEW e \in BOOLEAN, ab32_pin_irq_enable(p, e) PROVE PinInv'
  BY <1>3, ChangeKeeps DEF ab32_pin_irq_enable
<1>4. ASSUME NEW p \in Pins, NEW k \in Modes, ab32_pin_attach_irq(p, k) PROVE PinInv'
  BY <1>4 DEF ab32_pin_attach_irq, edges, PinInv, EdgeIsServed
<1>5. CASE Scan
  <2>1. /\ visit = NoPin /\ visit' = 1 /\ gpio_wake > 0 /\ gpio_wake' = gpio_wake - 1
        /\ UNCHANGED <<gpio_enabled, gpio_pending, calling, level, gpio_levels, moved, fresh>>
    BY <1>5 DEF Scan, edges
  <2>2. calling' = NoPin
    BY <2>1 DEF PinInv
  <2>3. visit' \in 0..PINS /\ visit' # NoPin /\ gpio_wake' \in Nat
    BY <2>1, PinAssumption DEF PinInv, NoPin
  <2>4. \A p \in Pins : visit' <= p /\ calling' # p
    BY <2>1, <2>2 DEF Pins, NoPin
  <2> QED BY <2>1, <2>2, <2>3, <2>4 DEF PinInv, EdgeIsServed
<1>6. CASE UNCHANGED pinvars
  BY <1>6 DEF pinvars, PinInv, EdgeIsServed
<1> QED BY <1>1, <1>2, <1>3, <1>4, <1>5, <1>6, TakePinKeeps, CalledKeeps, IsrKeeps DEF PinNext

LEMMA PinStart == PinInit => PinInv
BY PinAssumption DEF PinInit, PinInv, EdgeIsServed, NoPin

\* No enabled pin is left pending behind the thread's back (drv_gpio.c:235-294),
\* for every number of pins and whichever of them a handler changes.
THEOREM EveryEdgeIsServed == PartsSpec => []EdgeIsServed
<1>1. PinInv => EdgeIsServed
  BY DEF PinInv
<1> QED BY <1>1, PinStart, PinInduction, PartsAreParts, PTL DEF PinSpec

\* A handler is called only while attached, and that of a shared pin only for a
\* move of the level under its own subscription: neither what is pending nor what
\* was sampled outlives a disable or a detach (drv_gpio.c:251-265, 301-321).
THEOREM OnlyCalledForAnEdge == PartsSpec => CalledForAnEdge
<1> DEFINE Right == calling' # calling /\ calling' # NoPin =>
                        calling' \in attached /\ (calling' \in fresh \/ calling' \in Dedicated)
<1>1. PinInv /\ [PinNext]_pinvars => [Right]_pinvars
  <2> SUFFICES ASSUME PinInv, PinNext PROVE Right
    OBVIOUS
  <2>1. CASE gpio_take_pin
    BY <2>1 DEF gpio_take_pin, PinInv
  <2>2. CASE ~gpio_take_pin
    <3>1. calling' = calling \/ calling' = NoPin
      BY <2>2 DEF PinNext, PinChanges, ab32_pin_dettach_irq, ab32_pin_attach_irq,
             ab32_pin_irq_enable, ab32_pin_irq_handler, Scan, Called
    <3> QED BY <3>1
  <2> QED BY <2>1, <2>2
<1> QED BY <1>1, PinStart, PinInduction, PartsAreParts, PTL DEF PinSpec, CalledForAnEdge

-----------------------------------------------------------------------------
(* The downloader.                                                         *)

\* The numbers 1, 2, 3 ... as far as q goes.
Counting(q) == q = [i \in 1..Len(q) |-> i]

LEMMA CountOn ==
    ASSUME NEW q \in Seq(Nat), Counting(q)
    PROVE  /\ Counting(Append(q, Len(q) + 1)) /\ Append(q, Len(q) + 1) \in Seq(Nat)
           /\ Len(Append(q, Len(q) + 1)) = Len(q) + 1
<1> DEFINE r == Append(q, Len(q) + 1)
<1>1. Len(q) \in Nat /\ r \in Seq(Nat) /\ Len(r) = Len(q) + 1
  OBVIOUS
<1>2. \A i \in 1..(Len(q) + 1) : r[i] = i
  BY DEF Counting
<1>3. r = [i \in 1..(Len(q) + 1) |-> i]
  BY <1>1, <1>2
<1> QED BY <1>1, <1>3 DEF Counting

LEMMA NothingCounted == Counting(<<>>) /\ <<>> \in Seq(Nat) /\ Len(<<>>) = 0
BY DEF Counting

LEMMA Fields ==
    ASSUME NEW k, NEW n, NEW b
    PROVE  Message(k, n, b).kind = k /\ Message(k, n, b).seq = n /\ Message(k, n, b).body = b
BY DEF Message

LEMMA NextSequence ==
    ASSUME seq \in 0..(SEQUENCES - 1), next_sequence
    PROVE  seq' \in 0..(SEQUENCES - 1) /\ seq' # seq
BY DownloaderAssumption DEF next_sequence

\* How far the target is, by the phase of the host and whether it has taken the
\* sequence number of the packet or poll under way.
Progress ==
    /\ phase = "idle" => last_seq = seq
    /\ phase \in {"idle", "receive"} => Len(accepted) = sent
    /\ phase = "send" /\ last_seq # seq => Len(accepted) = sent - 1
    /\ Len(accepted) = sent \/ (/\ phase \in {"send", "failed"} /\ last_seq # seq
                               /\ Len(accepted) = sent - 1)
    /\ phase \in {"idle", "send"} => block = Len(got)
    /\ phase = "receive" /\ last_seq # seq => block = Len(got)
    /\ phase = "receive" /\ last_seq = seq => block = Len(got) + 1

\* What a message on the wire says is true, and it belongs to the host's step.
MeantBy(kind, n, body) ==
    /\ n = seq
    /\ kind = "4B" => phase \in {"send", "failed"} /\ body = sent
    /\ kind = "4B" /\ last_seq # seq => Len(accepted) = sent - 1
    /\ kind = "damaged 4B" => phase \in {"send", "failed"}
    /\ kind = "B4" => phase \in {"receive", "failed"} /\ Len(accepted) = sent
    /\ kind \in {"1E", "3C"} => phase \in {"send", "failed"} /\ last_seq = seq
    /\ kind = "data" => phase \in {"receive", "failed"} /\ last_seq = seq /\ body = block

Meant(m) == MeantBy(m.kind, m.seq, m.body)

SessionShape ==
    /\ seq \in 0..(SEQUENCES - 1) /\ sent \in Nat /\ block \in Nat
    /\ phase \in {"idle", "send", "receive", "failed"}
    /\ accepted \in Seq(Nat) /\ Counting(accepted)
    /\ got \in Seq(Nat) /\ Counting(got)

SessionInv == SessionShape /\ Progress /\ \A m \in line : Meant(m)

LEMMA OneMessage ==
    ASSUME NEW kind, NEW n, NEW body, line' = {Message(kind, n, body)}, MeantBy(kind, n, body)'
    PROVE  \A m \in line' : Meant(m)'
BY Fields DEF Meant

LEMMA HostKeepsStep ==
    ASSUME SessionInv, UNCHANGED target,
           send \/ receive \/ Acknowledged \/ Repeat \/ PollAgain \/ Received \/ Abort
    PROVE  SessionInv'
<1> USE DEF SessionInv
<1>0. UNCHANGED <<last_seq, accepted, block>> /\ Len(accepted) \in Nat /\ Len(got) \in Nat
  BY DEF target, SessionShape
<1>1. CASE send
  <2>1. /\ phase = "idle" /\ phase' = "send" /\ sent' = sent + 1 /\ next_sequence
        /\ line' = {Message("4B", seq', sent')} /\ got' = got
    BY <1>1 DEF send, Put1
  <2>2. seq' \in 0..(SEQUENCES - 1) /\ seq' # seq
    BY <2>1, NextSequence DEF SessionShape
  <2>3. SessionShape'
    BY <1>0, <2>1, <2>2 DEF SessionShape
  <2>4. Progress'
    BY <1>0, <2>1, <2>2 DEF SessionShape, Progress
  <2>5. Len(accepted') = sent' - 1
    BY <1>0, <2>1 DEF SessionShape, Progress
  <2>6. PICK n, body : n = seq' /\ body = sent'
    OBVIOUS
  <2>7. MeantBy("4B", n, body)'
    BY <2>1, <2>5, <2>6 DEF MeantBy
  <2>8. \A m \in line' : Meant(m)'
    BY <2>1, <2>6, <2>7, OneMessage
  <2> QED BY <2>3, <2>4, <2>8
<1>2. CASE receive
  <2>1. /\ phase = "idle" /\ phase' = "receive" /\ sent' = sent /\ next_sequence
        /\ line' = {Message("B4", seq', 0)} /\ got' = got
    BY <1>2 DEF receive, Put1
  <2>2. seq' \in 0..(SEQUENCES - 1) /\ seq' # seq
    BY <2>1, NextSequence DEF SessionShape
  <2>3. SessionShape'
    BY <1>0, <2>1, <2>2 DEF SessionShape
  <2>4. Progress'
    BY <1>0, <2>1, <2>2 DEF SessionShape, Progress
  <2>5. PICK n : n = seq'
    OBVIOUS
  <2>6. MeantBy("B4", n, 0)'
    BY <1>0, <2>1, <2>5 DEF MeantBy, Progress
  <2>7. \A m \in line' : Meant(m)'
    BY <2>1, <2>5, <2>6, OneMessage
  <2> QED BY <2>3, <2>4, <2>7
<1>3. CASE Acknowledged
  <2>1. phase = "send" /\ phase' = "idle" /\ line' = {} /\ UNCHANGED <<seq, sent, got>>
    BY <1>3 DEF Acknowledged
  <2>2. last_seq = seq
    BY <1>3 DEF Acknowledged, Read, Meant, MeantBy
  <2>3. SessionShape' /\ Progress'
    BY <1>0, <2>1, <2>2 DEF SessionShape, Progress
  <2> QED BY <2>1, <2>3
<1>4. CASE Repeat
  <2>1. phase = "send" /\ line' = {Message("4B", seq, sent)} /\ UNCHANGED <<seq, phase, sent, got>>
    BY <1>4 DEF Repeat, Put1, Frame
  <2>2. SessionShape' /\ Progress'
    BY <1>0, <2>1 DEF SessionShape, Progress
  <2>3. PICK n, body : n = seq /\ body = sent
    OBVIOUS
  <2>4. MeantBy("4B", n, body)'
    BY <1>0, <2>1, <2>3 DEF MeantBy, Progress
  <2>5. \A m \in line' : Meant(m)'
    BY <2>1, <2>3, <2>4, OneMessage
  <2> QED BY <2>2, <2>5
<1>5. CASE PollAgain
  <2>1. phase = "receive" /\ line' = {Message("B4", seq, 0)} /\ UNCHANGED <<seq, phase, sent, got>>
    BY <1>5 DEF PollAgain, Put1, Poll, host
  <2>2. SessionShape' /\ Progress'
    BY <1>0, <2>1 DEF SessionShape, Progress
  <2>3. PICK n, body : n = seq /\ body = 0
    OBVIOUS
  <2>4. MeantBy("B4", n, body)'
    BY <1>0, <2>1, <2>3 DEF MeantBy, Progress
  <2>5. \A m \in line' : Meant(m)'
    BY <2>1, <2>3, <2>4, OneMessage
  <2> QED BY <2>2, <2>5
<1>6. CASE Received
  <2>1. phase = "receive" /\ phase' = "idle" /\ line' = {} /\ UNCHANGED <<seq, sent>>
    BY <1>6 DEF Received
  <2>2. PICK m \in line : m.kind = "data" /\ got' = Append(got, m.body)
    BY <1>6 DEF Received
  <2>3. last_seq = seq /\ m.body = Len(got) + 1 /\ block = Len(got) + 1
    BY <2>1, <2>2 DEF Meant, MeantBy, Progress
  <2>4. Counting(got') /\ got' \in Seq(Nat) /\ Len(got') = Len(got) + 1
    BY <2>2, <2>3, CountOn DEF SessionShape
  <2>5. SessionShape' /\ Progress'
    BY <1>0, <2>1, <2>3, <2>4 DEF SessionShape, Progress
  <2> QED BY <2>1, <2>5
<1>7. CASE Abort
  <2>1. phase' = "failed" /\ phase \in {"send", "receive"} /\ UNCHANGED <<seq, sent, got, line>>
    BY <1>7 DEF Abort
  <2>2. SessionShape' /\ Progress'
    BY <1>0, <2>1 DEF SessionShape, Progress
  <2>3. \A m \in line' : Meant(m)'
    BY <1>0, <2>1 DEF Meant, MeantBy
  <2> QED BY <2>2, <2>3
<1> QED BY <1>1, <1>2, <1>3, <1>4, <1>5, <1>6, <1>7

LEMMA LineKeepsStep ==
    ASSUME SessionInv, Lose \/ Damage
    PROVE  SessionInv'
<1> USE DEF SessionInv
<1>1. UNCHANGED <<seq, phase, sent, got, last_seq, accepted, block>>
  BY DEF Lose, Damage, host, target
<1>2. SessionShape' /\ Progress'
  BY <1>1 DEF SessionShape, Progress
<1>3. CASE Lose
  BY <1>2, <1>3 DEF Lose
<1>4. CASE Damage
  <2>1. PICK m \in line :
            \/ m.kind = "4B" /\ line' = {Message("damaged 4B", m.seq, m.body)}
            \/ line' = {Message("2D", m.seq, 0)}
    BY <1>4 DEF Damage, Put1
  <2>2. MeantBy("2D", m.seq, 0)' /\ (m.kind = "4B" => MeantBy("damaged 4B", m.seq, m.body)')
    BY <1>1, <2>1 DEF Meant, MeantBy
  <2>3. \A n \in line' : Meant(n)'
    BY <2>1, <2>2, OneMessage
  <2> QED BY <1>2, <2>3
<1> QED BY <1>3, <1>4

LEMMA TargetKeepsStep ==
    ASSUME SessionInv, TargetPacket \/ TargetPoll
    PROVE  SessionInv'
<1> USE DEF SessionInv
<1>0. UNCHANGED <<seq, phase, sent, got>> /\ Len(accepted) \in Nat /\ Len(got) \in Nat
  <2>1. UNCHANGED host
    BY DEF TargetPacket, TargetPoll
  <2> QED BY <2>1 DEF host, SessionShape
<1>1. ASSUME NEW m \in line, line' = {Message("2D", m.seq, 0)}, UNCHANGED <<last_seq, accepted, block>>
      PROVE  SessionInv'
  <2>1. SessionShape' /\ Progress'
    BY <1>0, <1>1 DEF SessionShape, Progress
  <2>2. MeantBy("2D", m.seq, 0)'
    BY <1>0, <1>1 DEF Meant, MeantBy
  <2>3. \A n \in line' : Meant(n)'
    BY <1>1, <2>2, OneMessage
  <2> QED BY <2>1, <2>3
<1>2. ASSUME NEW m \in line, m.kind = "4B", m.seq = last_seq, line' = {Message("3C", m.seq, 0)},
             UNCHANGED <<last_seq, accepted, block>>
      PROVE  SessionInv'
  <2>1. SessionShape' /\ Progress'
    BY <1>0, <1>2 DEF SessionShape, Progress
  <2>2. MeantBy("3C", m.seq, 0)'
    BY <1>0, <1>2 DEF Meant, MeantBy
  <2>3. \A n \in line' : Meant(n)'
    BY <1>2, <2>2, OneMessage
  <2> QED BY <2>1, <2>3
<1>3. ASSUME NEW m \in line, m.kind = "4B", m.seq # last_seq, last_seq' = m.seq,
             accepted' = Append(accepted, m.body), block' = block,
             NEW kind \in {"1E", "2D"}, line' = {Message(kind, m.seq, 0)}
      PROVE  SessionInv'
  <2>0. m.seq = seq /\ m.body = sent /\ phase \in {"send", "failed"} /\ Len(accepted) = sent - 1
    BY <1>3 DEF Meant, MeantBy
  <2>1. m.seq = seq /\ m.body = Len(accepted) + 1 /\ m.body = sent /\ phase \in {"send", "failed"}
    BY <1>0, <2>0 DEF SessionShape
  <2>2. Counting(accepted') /\ accepted' \in Seq(Nat) /\ Len(accepted') = sent
    BY <1>3, <2>1, CountOn DEF SessionShape
  <2>3. SessionShape' /\ Progress'
    BY <1>0, <1>3, <2>1, <2>2 DEF SessionShape, Progress
  <2>4. MeantBy(kind, m.seq, 0)'
    BY <1>0, <1>3, <2>1 DEF MeantBy
  <2>5. \A n \in line' : Meant(n)'
    BY <1>3, <2>4, OneMessage
  <2> QED BY <2>3, <2>5
<1>4. ASSUME NEW m \in line, m.kind = "B4", last_seq' = m.seq, accepted' = accepted,
             block' = (IF m.seq = last_seq THEN block ELSE block + 1),
             line' = {Message("data", m.seq, block')}
      PROVE  SessionInv'
  <2>1. m.seq = seq /\ phase \in {"receive", "failed"} /\ Len(accepted) = sent
    BY <1>4 DEF Meant, MeantBy
  <2>2. SessionShape'
    BY <1>0, <1>4 DEF SessionShape
  <2>3. Progress'
    BY <1>0, <1>4, <2>1 DEF SessionShape, Progress
  <2>4. PICK body : body = block'
    OBVIOUS
  <2>5. MeantBy("data", m.seq, body)'
    BY <1>0, <1>4, <2>1, <2>4 DEF MeantBy
  <2>6. \A n \in line' : Meant(n)'
    BY <1>4, <2>4, <2>5, OneMessage
  <2> QED BY <2>2, <2>3, <2>6
<1>5. CASE TargetPacket
  <2>1. PICK m \in line :
        \/ line' = {Message("2D", m.seq, 0)} /\ UNCHANGED <<last_seq, accepted, block>>
        \/ /\ m.kind = "4B" /\ m.seq = last_seq /\ line' = {Message("3C", m.seq, 0)}
           /\ UNCHANGED <<last_seq, accepted, block>>
        \/ /\ m.kind = "4B" /\ m.seq # last_seq /\ last_seq' = m.seq
           /\ accepted' = Append(accepted, m.body) /\ block' = block
           /\ \E kind \in {"1E", "2D"} : line' = {Message(kind, m.seq, 0)}
    BY <1>5 DEF TargetPacket, Put1, target
  <2> QED BY <2>1, <1>1, <1>2, <1>3
<1>6. CASE TargetPoll
  <2>1. PICK m \in line :
        /\ m.kind = "B4" /\ accepted' = accepted
        /\ \/ line' = {Message("2D", m.seq, 0)} /\ UNCHANGED <<last_seq, block>>
           \/ /\ last_seq' = m.seq /\ block' = (IF m.seq = last_seq THEN block ELSE block + 1)
              /\ line' = {Message("data", m.seq, block')}
    BY <1>6 DEF TargetPoll, Put1
  <2> QED BY <2>1, <1>1, <1>4
<1> QED BY <1>5, <1>6

LEMMA SessionBegins ==
    ASSUME phase' = "idle", seq' = 0, sent' = 0, got' = <<>>, line' = {}, last_seq' = 0,
           accepted' = <<>>, block' = 0
    PROVE  SessionInv'
<1>1. 0 \in 0..(SEQUENCES - 1)
  BY DownloaderAssumption
<1> QED BY <1>1, NothingCounted DEF SessionInv, SessionShape, Progress

LEMMA SessionInduction == SessionInv /\ [DlNext]_dlvars => SessionInv'
<1> SUFFICES ASSUME SessionInv, [DlNext]_dlvars PROVE SessionInv'
  OBVIOUS
<1>1. CASE synchronize
  BY <1>1, SessionBegins DEF synchronize
<1>2. CASE send \/ receive \/ Acknowledged \/ Repeat \/ PollAgain \/ Received \/ Abort
  <2>1. UNCHANGED target
    BY <1>2 DEF send, receive, Acknowledged, Repeat, PollAgain, Received, Abort
  <2> QED BY <1>2, <2>1, HostKeepsStep
<1>3. CASE Lose \/ Damage \/ TargetPacket \/ TargetPoll
  BY <1>3, LineKeepsStep, TargetKeepsStep
<1>4. CASE UNCHANGED dlvars
  BY <1>4 DEF dlvars, SessionInv, SessionShape, Progress, Meant, MeantBy
<1> QED BY <1>1, <1>2, <1>3, <1>4 DEF DlNext

LEMMA SessionStart == DlInit => SessionInv
<1>1. 0 \in 0..(SEQUENCES - 1)
  BY DownloaderAssumption
<1> QED BY <1>1, NothingCounted DEF DlInit, SessionInv, SessionShape, Progress

\* Host and target of a download stay in step on a line that loses and damages
\* what is on it (bluetrum_download.py:90-140), for every modulus of the
\* sequence numbers, every number of retries and every length of a session.
THEOREM StaysInStep == PartsSpec => []InStep
<1>1. SessionInv => InStep
  BY DEF SessionInv, SessionShape, Progress, Counting, InStep
<1> QED BY <1>1, SessionStart, SessionInduction, PartsAreParts, PTL DEF DlSpec

-----------------------------------------------------------------------------
(* The debounce.                                                           *)

Times == 0 .. TICKS - 1

\* The unsigned difference of two ticks, at its start and one tick later.
LEMMA ElapsedFacts ==
    ASSUME NEW t \in Times, NEW f \in Times
    PROVE  /\ (t + 1) % TICKS \in Times
           /\ Elapsed(t, f) \in Times /\ Elapsed(t, t) = 0
           /\ Elapsed((t + 1) % TICKS, f) <= Elapsed(t, f) + 1
<1>1. TICKS \in Nat /\ TICKS > 1
  BY KeysAssumption
<1>2. \A n \in 0 .. 2 * TICKS - 1 : n % TICKS = IF n < TICKS THEN n ELSE n - TICKS
  <2> SUFFICES ASSUME NEW n \in 0 .. 2 * TICKS - 1
               PROVE  n % TICKS = IF n < TICKS THEN n ELSE n - TICKS
    OBVIOUS
  <2>1. n \in Int /\ 0 <= n /\ n < 2 * TICKS
    BY <1>1
  <2> QED BY <1>1, <2>1, SMT
<1>3. (t + 1) % TICKS = IF t + 1 < TICKS THEN t + 1 ELSE 0
  BY <1>1, <1>2 DEF Times
<1>4. \A u \in Times : Elapsed(u, f) = IF f <= u THEN u - f ELSE u - f + TICKS
  BY <1>1, <1>2 DEF Times, Elapsed
<1>5. Elapsed(t, t) = 0
  BY <1>1, <1>2 DEF Times, Elapsed
<1> QED BY <1>1, <1>3, <1>4, <1>5 DEF Times

\* However often the tick wraps and however late the poll is, the time that the
\* driver measures from a change, now or at the poll under way, is never longer
\* than the true time since a sample last contradicted the candidate.
TimesHonest ==
    \A k \in Keys :
        /\ Elapsed(tick, changed[k]) <= stable[k]
        /\ scan \in Keys => Elapsed(now, changed[k]) <= stable[k]

KeysShape ==
    /\ tick \in Times /\ now \in Times
    /\ changed \in [Keys -> Times] /\ stable \in [Keys -> 0 .. TICKS]
    /\ readings \in [Keys -> 1 .. 2]

TimesInv == KeysShape /\ TimesHonest

\* A sample of one key.
LEMMA NotedKeeps ==
    ASSUME TimesInv, NEW k \in Keys, scan \in Keys, NEW v, NEW failed,
           Noted(k, v, failed), UNCHANGED <<now, tick>>
    PROVE  /\ TimesInv'
           /\ Settled(k, v) => readings'[k] = 2 /\ stable'[k] >= DEBOUNCE_TICKS
<1> USE DEF TimesInv
<1>1. Elapsed(tick, now) \in Times /\ Elapsed(now, now) = 0 /\ Times \subseteq 0 .. TICKS
  <2>1. tick \in Times /\ now \in Times
    BY DEF KeysShape
  <2>2. Times \subseteq 0 .. TICKS
    BY KeysAssumption DEF Times
  <2> QED BY <2>1, <2>2, ElapsedFacts
<1>2. CASE failed \/ v # candidate[k]
  <2>1. /\ changed' = [changed EXCEPT ![k] = now]
        /\ stable' = [stable EXCEPT ![k] = Elapsed(tick, now)]
        /\ readings' = [readings EXCEPT ![k] = 1]
    BY <1>2 DEF Noted, Witness
  <2>2. KeysShape'
    <3>1. Elapsed(tick, now) \in 0 .. TICKS /\ now \in Times /\ tick' = tick /\ now' = now
      BY <1>1 DEF KeysShape
    <3>2. changed' \in [Keys -> Times]
      BY <2>1, <3>1 DEF KeysShape
    <3>3. stable' \in [Keys -> 0 .. TICKS]
      BY <2>1, <3>1 DEF KeysShape
    <3>4. readings' \in [Keys -> 1 .. 2]
      BY <2>1 DEF KeysShape
    <3> QED BY <3>1, <3>2, <3>3, <3>4 DEF KeysShape
  <2>3. \A j \in Keys : /\ Elapsed(tick, changed'[j]) <= stable'[j]
                       /\ Elapsed(now, changed'[j]) <= stable'[j]
    <3>1. Elapsed(tick, now) <= Elapsed(tick, now) /\ Elapsed(now, now) <= Elapsed(tick, now)
      BY <1>1, KeysAssumption DEF Times
    <3> QED BY <2>1, <3>1 DEF KeysShape, TimesHonest
  <2>4. ~Settled(k, v)
    <3>1. changed'[k] = now
      BY <2>1 DEF KeysShape
    <3>2. ~(0 >= DEBOUNCE_TICKS)
      BY KeysAssumption
    <3> QED BY <1>1, <3>1, <3>2 DEF Settled
  <2>5. TimesHonest'
    BY <2>3 DEF TimesHonest, Elapsed
  <2> QED BY <2>2, <2>4, <2>5
<1>3. CASE ~(failed \/ v # candidate[k])
  <2>1. changed' = changed /\ stable' = stable /\ readings' = [readings EXCEPT ![k] = 2]
    BY <1>3 DEF Noted, Witness, KeysShape
  <2>2. TimesInv'
    BY <2>1 DEF KeysShape, TimesHonest, Elapsed
  <2>3. Settled(k, v) => stable[k] >= DEBOUNCE_TICKS
    <3>1. Elapsed(now, changed[k]) <= stable[k] /\ Elapsed(now, changed[k]) \in Nat
      BY ElapsedFacts, KeysAssumption DEF TimesHonest, KeysShape, Times
    <3>2. Settled(k, v) => Elapsed(now, changed[k]) >= DEBOUNCE_TICKS
      BY <2>1 DEF Settled
    <3>3. stable[k] \in Nat /\ DEBOUNCE_TICKS \in Nat
      BY KeysAssumption DEF KeysShape
    <3> QED BY <3>1, <3>2, <3>3
  <2> QED BY <2>1, <2>2, <2>3 DEF KeysShape
<1> QED BY <1>2, <1>3

LEMMA TickKeeps == ASSUME TimesInv, Tick PROVE TimesInv'
<1> USE DEF TimesInv
<1>1. /\ tick' = (tick + 1) % TICKS /\ stable' = Later(stable)
      /\ UNCHANGED <<now, changed, readings, scan>>
  BY DEF Tick, state
<1>2. tick' \in Times
  BY <1>1, ElapsedFacts DEF KeysShape
<1>3. \A k \in Keys : stable'[k] = IF stable[k] < TICKS THEN stable[k] + 1 ELSE stable[k]
  BY <1>1 DEF Later
<1>4. stable' \in [Keys -> 0 .. TICKS]
  BY <1>1, KeysAssumption DEF Later, KeysShape
<1>5. ASSUME NEW k \in Keys
      PROVE  /\ Elapsed(tick', changed[k]) <= stable'[k]
             /\ scan \in Keys => Elapsed(now, changed[k]) <= stable'[k]
  <2>1. changed[k] \in Times /\ stable[k] \in 0 .. TICKS /\ TICKS \in Nat
    BY KeysAssumption DEF KeysShape
  <2>2. /\ Elapsed(tick, changed[k]) \in Times /\ Elapsed(tick', changed[k]) \in Times
        /\ Elapsed(tick', changed[k]) <= Elapsed(tick, changed[k]) + 1
        /\ Elapsed(now, changed[k]) \in Times
    BY <1>1, <1>2, <2>1, ElapsedFacts DEF KeysShape
  <2>3. /\ Elapsed(tick, changed[k]) <= stable[k]
        /\ scan \in Keys => Elapsed(now, changed[k]) <= stable[k]
    BY DEF TimesHonest
  <2> DEFINE a == Elapsed(tick, changed[k])  b == Elapsed(tick', changed[k])
             c == Elapsed(now, changed[k])   s == stable[k]
  <2>4. stable'[k] = IF s < TICKS THEN s + 1 ELSE s
    BY <1>3
  <2>5. a \in Times /\ b \in Times /\ b <= a + 1 /\ c \in Times /\ a <= s /\ (scan \in Keys => c <= s)
        /\ s \in 0 .. TICKS
    BY <2>1, <2>2, <2>3
  <2> HIDE DEF a, b, c, s
  <2>6. b <= stable'[k] /\ (scan \in Keys => c <= stable'[k])
    BY <2>1, <2>4, <2>5 DEF Times
  <2> QED BY <2>6 DEF b, c
<1>6. KeysShape'
  BY <1>1, <1>2, <1>4 DEF KeysShape
<1>7. TimesHonest'
  BY <1>1, <1>5 DEF TimesHonest, Elapsed
<1> QED BY <1>6, <1>7

\* What the driver does with a sample of the key whose turn it is.
LEMMA SampleSteps ==
    ASSUME keys_sample
    PROVE  \E v, failed :
               /\ Noted(scan, v, failed)
               /\ \/ pressed' = pressed
                  \/ Settled(scan, v) /\ \E new \in BOOLEAN : pressed' = [pressed EXCEPT ![scan] = new]
<1> DEFINE v == levels[scan] = "PIN_LOW"
<1>1. CASE Noted(scan, pressed[scan], TRUE) /\ KeyQuiet
  <2>1. pressed' = pressed
    BY <1>1 DEF KeyQuiet
  <2> QED BY <1>1, <2>1
<1>2. CASE /\ Noted(scan, v, FALSE)
           /\ \/ Settled(scan, v) /\ v /\ KeyDown(scan)
              \/ Settled(scan, v) /\ ~v /\ KeyUp(scan)
              \/ LongDue(scan, v) /\ KeyLong(scan)
              \/ ~Settled(scan, v) /\ ~LongDue(scan, v) /\ KeyQuiet
  <2> HIDE DEF v
  <2>1. CASE Settled(scan, v) /\ KeyDown(scan)
    <3>1. pressed' = [pressed EXCEPT ![scan] = TRUE]
      BY <2>1 DEF KeyDown
    <3> QED BY <1>2, <2>1, <3>1
  <2>2. CASE Settled(scan, v) /\ KeyUp(scan)
    <3>1. pressed' = [pressed EXCEPT ![scan] = FALSE]
      BY <2>2 DEF KeyUp
    <3> QED BY <1>2, <2>2, <3>1
  <2>3. CASE KeyLong(scan) \/ KeyQuiet
    <3>1. pressed' = pressed
      BY <2>3 DEF KeyLong, KeyQuiet
    <3> QED BY <1>2, <3>1
  <2> QED BY <1>2, <2>1, <2>2, <2>3
<1> QED BY <1>1, <1>2 DEF keys_sample

LEMMA TimesInduction == TimesInv /\ [KeysNext]_keyvars => TimesInv'
<1> SUFFICES ASSUME TimesInv, [KeysNext]_keyvars PROVE TimesInv'
  OBVIOUS
<1>1. ASSUME UNCHANGED <<tick, now, changed, stable, readings, scan>> PROVE TimesInv'
  BY <1>1 DEF TimesInv, KeysShape, TimesHonest, Elapsed
<1>2. CASE Tick
  BY <1>2, TickKeeps
<1>3. CASE board_keys_poll
  <2>1. scan' \notin Keys /\ UNCHANGED <<tick, now, changed, stable, readings>>
    BY <1>3 DEF board_keys_poll, state, history, Keys
  <2> QED BY <2>1 DEF TimesInv, KeysShape, TimesHonest, Elapsed
<1>4. CASE LockAndSample
  <2>1. now' = tick /\ UNCHANGED <<tick, changed, stable, readings>>
    BY <1>4 DEF LockAndSample, state, history
  <2> QED BY <2>1 DEF TimesInv, KeysShape, TimesHonest, Elapsed
<1>5. CASE keys_sample
  <2>1. scan \in Keys /\ UNCHANGED <<now, tick>>
    BY <1>5 DEF keys_sample
  <2>2. PICK v, failed : Noted(scan, v, failed)
    BY <1>5, SampleSteps
  <2> QED BY <2>1, <2>2, NotedKeeps
<1>6. CASE keys_read \/ keys_control
  BY <1>1, <1>6 DEF keys_read, keys_control, state, history
<1>7. CASE UNCHANGED keyvars
  BY <1>1, <1>7 DEF keyvars, state, history
<1> QED BY <1>2, <1>3, <1>4, <1>5, <1>6, <1>7 DEF KeysNext

LEMMA TimesStart == KeysInit => TimesInv
<1> SUFFICES ASSUME KeysInit PROVE TimesInv
  OBVIOUS
<1>1. /\ tick = 0 /\ now = 0 /\ changed = [k \in Keys |-> 0]
      /\ stable = [k \in Keys |-> TICKS] /\ readings = [k \in Keys |-> 2]
      /\ scan = 0
  BY DEF KeysInit
<1>2. 0 \in Times /\ TICKS \in 0 .. TICKS /\ 2 \in 1 .. 2 /\ 0 \notin Keys /\ 0 <= TICKS
  BY KeysAssumption DEF Times, Keys
<1>3. Elapsed(0, 0) = 0
  BY <1>2, ElapsedFacts
<1>4. KeysShape
  BY <1>1, <1>2 DEF KeysShape
<1> QED BY <1>1, <1>2, <1>3, <1>4 DEF TimesInv, TimesHonest

PressedShape == DOMAIN pressed = Keys

LEMMA PressedInduction == PressedShape /\ [KeysNext]_keyvars => PressedShape'
<1> SUFFICES ASSUME PressedShape, [KeysNext]_keyvars PROVE PressedShape'
  OBVIOUS
<1>1. CASE keys_sample
  <2>1. PICK v, failed :
            \/ pressed' = pressed
            \/ \E new \in BOOLEAN : pressed' = [pressed EXCEPT ![scan] = new]
    BY <1>1, SampleSteps
  <2> QED BY <2>1 DEF PressedShape
<1>2. CASE pressed' = pressed
  BY <1>2 DEF PressedShape
<1> QED BY <1>1, <1>2 DEF KeysNext, Tick, board_keys_poll, LockAndSample, keys_read,
                         keys_control, state, keyvars

\* A key that changes state has had two readings that agree, and no reading
\* against them for the debounce time in true ticks, for every debounce time and
\* every width of the tick that the longest delay of a poll leaves room for.
THEOREM ChangesAreDebounced == PartsSpec => Debounced
<1>1. TimesInv /\ PressedShape /\ [KeysNext]_keyvars =>
        [\A k \in Keys : pressed'[k] # pressed[k] =>
            readings'[k] = 2 /\ stable'[k] >= DEBOUNCE_TICKS]_keyvars
  <2> SUFFICES ASSUME TimesInv, PressedShape, KeysNext, NEW k \in Keys, pressed'[k] # pressed[k]
               PROVE  readings'[k] = 2 /\ stable'[k] >= DEBOUNCE_TICKS
    BY DEF keyvars
  <2>1. keys_sample
    BY DEF KeysNext, Tick, board_keys_poll, LockAndSample, keys_read, keys_control, state
  <2>2. scan \in Keys /\ UNCHANGED <<now, tick>>
    BY <2>1 DEF keys_sample
  <2>3. PICK v, failed :
            /\ Noted(scan, v, failed)
            /\ \/ pressed' = pressed
               \/ Settled(scan, v) /\ \E new \in BOOLEAN : pressed' = [pressed EXCEPT ![scan] = new]
    BY <2>1, SampleSteps
  <2>4. Settled(scan, v) /\ scan = k
    BY <2>3 DEF PressedShape
  <2>5. Settled(k, v) /\ Noted(k, v, failed)
    BY <2>3, <2>4
  <2> QED BY <2>2, <2>5, NotedKeeps
<1>2. KeysInit => PressedShape
  BY DEF KeysInit, PressedShape
<1> QED BY <1>1, <1>2, TimesStart, TimesInduction, PressedInduction, PartsAreParts, PTL
        DEF Debounced

-----------------------------------------------------------------------------
(* The streams of the keys.                                                *)

\* Where a push leaves the events of each key: all move up when it throws the
\* oldest one away, and the new one is the last.
LEMMA PushPlaces ==
    ASSUME NEW E, NEW r \in RingType(E), NEW e \in E, RingOK(r)
    PROVE  LET p == Push(r, e)
               d == IF IsFull(r) THEN 1 ELSE 0
           IN  /\ p.queued \in Nat /\ p.queued > 0
               /\ r.queued \in Nat /\ r.queued + 1 = p.queued + d
               /\ KindAt(p, p.queued) = e.kind
               /\ \A i \in 1 .. p.queued - 1 : KindAt(p, i) = KindAt(r, i + d)
               /\ \A k, i : i \in PlacesOf(p, k) <=>
                      \/ i = p.queued /\ e.key = k
                      \/ i \in 1 .. p.queued - 1 /\ i + d \in PlacesOf(r, k)
               /\ \A k : PlacesOf(r, k) \subseteq 1 .. r.queued
<1> DEFINE p == Push(r, e)
           d == IF IsFull(r) THEN 1 ELSE 0
<1>1. QSIZE \in Nat /\ QSIZE > 0 /\ r.queued \in 0 .. QSIZE
  BY RingAssumption DEF RingType
<1>2. /\ p.queued = IF IsFull(r) THEN r.queued ELSE r.queued + 1
      /\ Contents(p)[p.queued] = e
      /\ \A i \in 1 .. p.queued - 1 :
            Contents(p)[i] = IF IsFull(r) THEN Contents(r)[i + 1] ELSE Contents(r)[i]
  BY PushContents
<1>3. p.queued \in Nat /\ p.queued > 0 /\ r.queued \in Nat /\ r.queued + 1 = p.queued + d /\ d \in {0, 1}
  BY <1>1, <1>2 DEF IsFull
<1>4. \A i \in 1 .. p.queued - 1 : Contents(p)[i] = Contents(r)[i + d] /\ i + d \in 1 .. r.queued
  BY <1>2, <1>3
<1> HIDE DEF p, d
<1>5. ASSUME NEW k, NEW i
      PROVE  i \in PlacesOf(p, k) <=> \/ i = p.queued /\ e.key = k
                                      \/ i \in 1 .. p.queued - 1 /\ i + d \in PlacesOf(r, k)
  <2>1. i \in 1 .. p.queued <=> i = p.queued \/ i \in 1 .. p.queued - 1
    BY <1>3
  <2>2. i \in 1 .. p.queued - 1 => i # p.queued
    BY <1>3
  <2> QED BY <1>2, <1>4, <2>1, <2>2 DEF PlacesOf
<1>6. \A k : PlacesOf(r, k) \subseteq 1 .. r.queued
  BY DEF PlacesOf
<1>7. KindAt(p, p.queued) = e.kind /\ \A i \in 1 .. p.queued - 1 : KindAt(p, i) = KindAt(r, i + d)
  BY <1>2, <1>4 DEF KindAt
<1> QED BY <1>3, <1>5, <1>6, <1>7 DEF p, d

\* An event that follows the newest one of its key, if there is one, keeps every
\* key's events in order.
LEMMA PushInOrder ==
    ASSUME NEW E, NEW r \in RingType(E), NEW e \in E, RingOK(r), NEW k, InOrder(r, k),
           e.key = k => \A i \in PlacesOf(r, k) :
                           (\A j \in PlacesOf(r, k) : j <= i) => Follows(KindAt(r, i), e.kind)
    PROVE  InOrder(Push(r, e), k)
<1> DEFINE p == Push(r, e)
           d == IF IsFull(r) THEN 1 ELSE 0
<1>1. /\ p.queued \in Nat /\ p.queued > 0 /\ r.queued \in Nat /\ r.queued + 1 = p.queued + d
      /\ d \in {0, 1}
      /\ KindAt(p, p.queued) = e.kind
      /\ \A i \in 1 .. p.queued - 1 : KindAt(p, i) = KindAt(r, i + d)
      /\ \A i : i \in PlacesOf(p, k) <=>
             \/ i = p.queued /\ e.key = k
             \/ i \in 1 .. p.queued - 1 /\ i + d \in PlacesOf(r, k)
      /\ PlacesOf(r, k) \subseteq 1 .. r.queued
  BY PushPlaces
<1> HIDE DEF p, d
<1> SUFFICES ASSUME NEW i \in PlacesOf(p, k), NEW j \in PlacesOf(p, k), i < j,
                    \A m \in PlacesOf(p, k) : m <= i \/ j <= m
             PROVE  Follows(KindAt(p, i), KindAt(p, j))
  BY DEF InOrder, p
<1>2. i \in 1 .. p.queued - 1 /\ i + d \in PlacesOf(r, k) /\ KindAt(p, i) = KindAt(r, i + d)
  BY <1>1
<1>3. \A m \in PlacesOf(r, k) : m <= i + d \/ (m \in 1 .. r.queued /\ j <= m - d /\ m - d \in 1 .. p.queued - 1)
  <2> SUFFICES ASSUME NEW m \in PlacesOf(r, k), ~(m <= i + d)
               PROVE  m \in 1 .. r.queued /\ j <= m - d /\ m - d \in 1 .. p.queued - 1
    OBVIOUS
  <2>1. m \in 1 .. r.queued /\ m - d \in 1 .. p.queued - 1 /\ (m - d) + d = m /\ ~(m - d <= i)
    BY <1>1, <1>2
  <2>2. m - d \in PlacesOf(p, k)
    BY <1>1, <2>1
  <2> QED BY <2>1, <2>2
<1>4. CASE j = p.queued
  <2>1. e.key = k /\ KindAt(p, j) = e.kind
    BY <1>1, <1>4
  <2>2. \A m \in PlacesOf(r, k) : m <= i + d
    BY <1>1, <1>3, <1>4
  <2> QED BY <1>2, <2>1, <2>2
<1>5. CASE j # p.queued
  <2>1. j \in 1 .. p.queued - 1 /\ j + d \in PlacesOf(r, k) /\ KindAt(p, j) = KindAt(r, j + d)
    BY <1>1, <1>5
  <2>2. i + d < j + d /\ \A m \in PlacesOf(r, k) : m <= i + d \/ j + d <= m
    BY <1>1, <1>2, <1>3, <2>1
  <2> QED BY <1>2, <2>1, <2>2 DEF InOrder
<1> QED BY <1>4, <1>5

\* The newest event of another key is still what it was.
LEMMA PushNewest ==
    ASSUME NEW E, NEW r \in RingType(E), NEW e \in E, RingOK(r), NEW k,
           NEW i \in PlacesOf(Push(r, e), k), \A j \in PlacesOf(Push(r, e), k) : j <= i
    PROVE  /\ e.key = k => KindAt(Push(r, e), i) = e.kind
           /\ e.key # k => \E n \in PlacesOf(r, k) : /\ \A j \in PlacesOf(r, k) : j <= n
                                                     /\ KindAt(Push(r, e), i) = KindAt(r, n)
<1> DEFINE p == Push(r, e)
           d == IF IsFull(r) THEN 1 ELSE 0
<1>1. /\ p.queued \in Nat /\ p.queued > 0 /\ r.queued \in Nat /\ r.queued + 1 = p.queued + d
      /\ d \in {0, 1}
      /\ KindAt(p, p.queued) = e.kind
      /\ \A n \in 1 .. p.queued - 1 : KindAt(p, n) = KindAt(r, n + d)
      /\ \A n : n \in PlacesOf(p, k) <=>
             \/ n = p.queued /\ e.key = k
             \/ n \in 1 .. p.queued - 1 /\ n + d \in PlacesOf(r, k)
      /\ PlacesOf(r, k) \subseteq 1 .. r.queued
  BY PushPlaces
<1>2. i \in PlacesOf(p, k) /\ \A j \in PlacesOf(p, k) : j <= i
  OBVIOUS
<1> HIDE DEF p, d
<1>3. CASE e.key = k
  <2>1. i = p.queued
    BY <1>1, <1>2, <1>3
  <2> QED BY <1>1, <1>3, <2>1 DEF p
<1>4. CASE e.key # k
  <2>1. i \in 1 .. p.queued - 1 /\ i + d \in PlacesOf(r, k) /\ KindAt(p, i) = KindAt(r, i + d)
    BY <1>1, <1>2, <1>4
  <2>2. ASSUME NEW j \in PlacesOf(r, k) PROVE j <= i + d
    <3>1. j \in 1 .. r.queued
      BY <1>1
    <3>2. CASE j - d = 0
      BY <1>1, <2>1, <3>1, <3>2
    <3>3. CASE j - d # 0
      <4>1. j - d \in 1 .. p.queued - 1 /\ (j - d) + d = j
        BY <1>1, <3>1, <3>3
      <4>2. j - d <= i
        BY <1>1, <1>2, <4>1
      <4> QED BY <1>1, <2>1, <4>1, <4>2
    <3> QED BY <3>2, <3>3
  <2>3. \A j \in PlacesOf(r, k) : j <= i + d
    BY <2>2
  <2> QED BY <1>4, <2>1, <2>3 DEF p
<1> QED BY <1>3, <1>4

\* Where a pop leaves them.
LEMMA PopPlaces ==
    ASSUME NEW E, NEW r \in RingType(E), RingOK(r), r.queued # 0
    PROVE  /\ r.queued \in Nat /\ r.queued > 0 /\ Pop(r).queued = r.queued - 1
           /\ KindAt(r, 1) = Front(r).kind
           /\ \A k : 1 \in PlacesOf(r, k) <=> Front(r).key = k
           /\ \A i \in 1 .. r.queued - 1 : KindAt(Pop(r), i) = KindAt(r, i + 1)
           /\ \A k, i : i \in PlacesOf(Pop(r), k) <=>
                  i \in 1 .. r.queued - 1 /\ i + 1 \in PlacesOf(r, k)
           /\ \A k : PlacesOf(r, k) \subseteq 1 .. r.queued
<1>1. r.queued \in Nat /\ r.queued > 0
  BY RingAssumption DEF RingType
<1>2. /\ Front(r) = Contents(r)[1]
      /\ Pop(r).queued = r.queued - 1
      /\ \A i \in 1 .. Pop(r).queued : Contents(Pop(r))[i] = Contents(r)[i + 1]
  BY PopContents
<1>3. 1 \in 1 .. r.queued /\ \A i \in 1 .. r.queued - 1 : i + 1 \in 1 .. r.queued
  BY <1>1
<1> QED BY <1>1, <1>2, <1>3 DEF PlacesOf, KindAt

\* A kind of event the next one of key k may follow: the state, and not a LONG
\* that is still due.
Fits(k, kind) == Agrees(k, kind) /\ (pressed[k] /\ kind = "LONG" => long_sent[k])

KeysRing ==
    /\ ring \in RingType(Event \cup {NoEvent}) /\ RingOK(ring)
    /\ pressed \in [Keys -> BOOLEAN] /\ long_sent \in [Keys -> BOOLEAN]
    /\ last \in [Keys -> Event \cup {NoEvent}]
    /\ seen_dropped \in 0 .. COUNTER - 1 /\ missed \in 0 .. COUNTER

\* The dropped count tells what was lost since the reader had the status, and a
\* reader that lost nothing is in step with every key.
Told ==
    /\ missed < COUNTER => ring.dropped = Ahead(seen_dropped, missed)
    /\ missed = 0 => \A k \in Keys : /\ InStepWith(k)
                                     /\ PlacesOf(ring, k) = {} => Fits(k, last[k].kind)

StreamInv ==
    /\ KeysRing /\ Told
    /\ \A k \in Keys : InOrder(ring, k) /\ NewestIsState(k)

\* A report that follows what the key's events and its reader have come to.
LEMMA ReportKeeps ==
    ASSUME StreamInv, NEW k \in Keys, NEW kind \in Kinds, Report(k, kind),
           UNCHANGED <<last, seen_dropped>>,
           pressed' \in [Keys -> BOOLEAN], long_sent' \in [Keys -> BOOLEAN],
           \A j \in Keys : j # k => pressed'[j] = pressed[j] /\ long_sent'[j] = long_sent[j],
           \A a : Fits(k, a) => Follows(a, kind),
           Agrees(k, kind)', pressed'[k] => (long_sent'[k] <=> kind = "LONG")
    PROVE  StreamInv'
<1> DEFINE e == [key |-> k, kind |-> kind]
<1>1. /\ ring' = Push(ring, e) /\ e \in Event \cup {NoEvent} /\ e.key = k /\ e.kind = kind
      /\ ring \in RingType(Event \cup {NoEvent}) /\ RingOK(ring)
  BY DEF Report, key_push, StreamInv, KeysRing, Event
<1>2. ring' \in RingType(Event \cup {NoEvent}) /\ RingOK(ring')
  BY <1>1, PushOK
<1>3. COUNTER \in Nat /\ COUNTER > 0 /\ QSIZE \in Nat /\ QSIZE > 0
      /\ missed \in 0 .. COUNTER /\ seen_dropped \in 0 .. COUNTER - 1
  BY RingAssumption DEF StreamInv, KeysRing
<1>4. missed' = OneMore(missed, IsFull(ring))
  BY <1>3 DEF Report, Lost, OneMore
<1> HIDE DEF e
<1>5. missed' \in 0 .. COUNTER /\ (missed' < COUNTER => ring'.dropped = Ahead(seen_dropped, missed'))
  <2>1. ring.dropped \in 0 .. COUNTER - 1 /\ (missed < COUNTER => ring.dropped = Ahead(seen_dropped, missed))
    BY <1>1 DEF StreamInv, Told, RingType
  <2> QED BY <1>1, <1>3, <1>4, <2>1, CountAhead
<1>6. KeysRing'
  BY <1>2, <1>3, <1>5 DEF StreamInv, KeysRing
<1>7. ASSUME NEW i \in PlacesOf(ring, k), \A j \in PlacesOf(ring, k) : j <= i
      PROVE  Follows(KindAt(ring, i), kind)
  BY <1>7 DEF StreamInv, NewestIsState, Fits
<1>8. \A j \in Keys : InOrder(ring', j)
  <2> SUFFICES ASSUME NEW j \in Keys PROVE InOrder(ring', j)
    OBVIOUS
  <2>1. InOrder(ring, j)
    BY DEF StreamInv
  <2>2. e.key = j => \A i \in PlacesOf(ring, j) :
                        (\A n \in PlacesOf(ring, j) : n <= i) => Follows(KindAt(ring, i), e.kind)
    BY <1>1, <1>7
  <2> QED BY <1>1, <2>1, <2>2, PushInOrder
<1>9. ASSUME NEW j \in Keys PROVE NewestIsState(j)'
  <2> SUFFICES ASSUME NEW i \in PlacesOf(ring', j), \A n \in PlacesOf(ring', j) : n <= i
               PROVE  /\ Agrees(j, KindAt(ring, i))'
                      /\ pressed'[j] => (long_sent'[j] <=> KindAt(ring', i) = "LONG")
    BY DEF NewestIsState
  <2>1. /\ e.key = j => KindAt(ring', i) = e.kind
        /\ e.key # j => \E m \in PlacesOf(ring, j) : /\ \A n \in PlacesOf(ring, j) : n <= m
                                                     /\ KindAt(ring', i) = KindAt(ring, m)
    BY <1>1, PushNewest
  <2>2. CASE j = k
    BY <1>1, <2>1, <2>2 DEF Agrees
  <2>3. CASE j # k
    <3>1. PICK m \in PlacesOf(ring, j) : /\ \A n \in PlacesOf(ring, j) : n <= m
                                         /\ KindAt(ring', i) = KindAt(ring, m)
      BY <1>1, <2>1, <2>3
    <3>2. /\ Agrees(j, KindAt(ring, m))
          /\ pressed[j] => (long_sent[j] <=> KindAt(ring, m) = "LONG")
      BY <3>1 DEF StreamInv, NewestIsState
    <3> QED BY <2>3, <3>1, <3>2 DEF Agrees
  <2> QED BY <2>2, <2>3
<1>10. ASSUME missed' = 0, NEW j \in Keys
       PROVE  InStepWith(j)' /\ (PlacesOf(ring', j) = {} => Fits(j, last[j].kind)')
  <2>1. ~IsFull(ring) /\ missed = 0
    BY <1>3, <1>4, <1>10 DEF OneMore
  <2>2. InStepWith(j) /\ (PlacesOf(ring, j) = {} => Fits(j, last[j].kind))
    BY <2>1 DEF StreamInv, Told
  <2>3. /\ ring'.queued \in Nat /\ ring'.queued > 0 /\ ring.queued = ring'.queued - 1
        /\ KindAt(ring', ring'.queued) = kind
        /\ \A i \in 1 .. ring'.queued - 1 : KindAt(ring', i) = KindAt(ring, i)
        /\ \A i : i \in PlacesOf(ring', j) <=>
               \/ i = ring'.queued /\ k = j
               \/ i \in 1 .. ring'.queued - 1 /\ i \in PlacesOf(ring, j)
        /\ PlacesOf(ring, j) \subseteq 1 .. ring.queued
    <3> DEFINE d == IF IsFull(ring) THEN 1 ELSE 0
    <3>1. d = 0 /\ \A i \in Int : i + d = i
      BY <2>1
    <3>2. /\ ring'.queued \in Nat /\ ring'.queued > 0
          /\ ring.queued \in Nat /\ ring.queued + 1 = ring'.queued + d
          /\ KindAt(ring', ring'.queued) = kind
          /\ \A i \in 1 .. ring'.queued - 1 : KindAt(ring', i) = KindAt(ring, i + d)
          /\ \A i : i \in PlacesOf(ring', j) <=>
                 \/ i = ring'.queued /\ k = j
                 \/ i \in 1 .. ring'.queued - 1 /\ i + d \in PlacesOf(ring, j)
          /\ PlacesOf(ring, j) \subseteq 1 .. ring.queued
      BY <1>1, PushPlaces
    <3> HIDE DEF d
    <3> QED BY <3>1, <3>2
  <2>4. CASE PlacesOf(ring, j) = {}
    <3>1. CASE j = k
      <4>1. \A i \in PlacesOf(ring', j) : KindAt(ring', i) = kind
        BY <2>3, <2>4
      <4>2. Follows(last[j].kind, kind) /\ ring'.queued \in PlacesOf(ring', j)
        BY <2>2, <2>3, <2>4, <3>1
      <4> QED BY <4>1, <4>2 DEF InStepWith
    <3>2. CASE j # k
      <4>1. PlacesOf(ring', j) = {} /\ pressed'[j] = pressed[j] /\ long_sent'[j] = long_sent[j]
        BY <2>3, <2>4, <3>2
      <4> QED BY <2>2, <2>4, <4>1 DEF InStepWith, Fits, Agrees
    <3> QED BY <3>1, <3>2
  <2>5. CASE PlacesOf(ring, j) # {}
    <3>1. \A i \in PlacesOf(ring, j) : i \in PlacesOf(ring', j) /\ KindAt(ring', i) = KindAt(ring, i)
      BY <2>3
    <3>2. PlacesOf(ring', j) # {}
      BY <2>5, <3>1
    <3>3. ASSUME NEW i \in PlacesOf(ring', j), \A n \in PlacesOf(ring', j) : i <= n
          PROVE  Follows(last[j].kind, KindAt(ring', i))
      <4>1. i \in PlacesOf(ring, j)
        BY <2>3, <2>5, <3>1, <3>3
      <4> QED BY <2>2, <3>1, <3>3, <4>1 DEF InStepWith
    <3> QED BY <3>2, <3>3 DEF InStepWith
  <2> QED BY <2>4, <2>5
<1>11. Told'
  BY <1>5, <1>10 DEF Told
<1> QED BY <1>6, <1>8, <1>9, <1>11 DEF StreamInv

\* One turn of one key.
LEMMA SampleKeeps == ASSUME StreamInv, keys_sample PROVE StreamInv'
<1>1. PICK k \in Keys : k = scan /\ UNCHANGED <<last, seen_dropped>>
  BY DEF keys_sample, reader
<1>2. pressed \in [Keys -> BOOLEAN] /\ long_sent \in [Keys -> BOOLEAN]
  BY DEF StreamInv, KeysRing
<1>3. CASE KeyQuiet
  BY <1>1, <1>3 DEF KeyQuiet, StreamInv, KeysRing, Told, InStepWith, NewestIsState, Fits, Agrees
<1>4. CASE ~pressed[k] /\ KeyDown(k)
  <2>1. /\ pressed' = [pressed EXCEPT ![k] = TRUE]
        /\ long_sent' = [long_sent EXCEPT ![k] = FALSE]
        /\ Report(k, "DOWN") /\ "DOWN" \in Kinds
    BY <1>4 DEF KeyDown, Kinds
  <2>2. \A a : Fits(k, a) => Follows(a, "DOWN")
    BY <1>4 DEF Fits, Agrees, Follows
  <2>3. Agrees(k, "DOWN")' /\ (pressed'[k] => (long_sent'[k] <=> "DOWN" = "LONG"))
    BY <1>1, <1>2, <2>1 DEF Agrees
  <2> QED BY <1>1, <1>2, <2>1, <2>2, <2>3, ReportKeeps
<1>5. CASE pressed[k] /\ KeyUp(k)
  <2>1. /\ pressed' = [pressed EXCEPT ![k] = FALSE]
        /\ long_sent' = long_sent
        /\ Report(k, "UP") /\ "UP" \in Kinds
    BY <1>5 DEF KeyUp, Kinds
  <2>2. \A a : Fits(k, a) => Follows(a, "UP")
    BY <1>5 DEF Fits, Agrees, Follows
  <2>3. Agrees(k, "UP")' /\ ~pressed'[k]
    BY <1>1, <1>2, <2>1 DEF Agrees
  <2> QED BY <1>1, <1>2, <2>1, <2>2, <2>3, ReportKeeps
<1>6. CASE pressed[k] /\ ~long_sent[k] /\ KeyLong(k)
  <2>1. /\ pressed' = pressed
        /\ long_sent' = [long_sent EXCEPT ![k] = TRUE]
        /\ Report(k, "LONG") /\ "LONG" \in Kinds
    BY <1>6 DEF KeyLong, Kinds
  <2>2. \A a : Fits(k, a) => Follows(a, "LONG")
    BY <1>6 DEF Fits, Agrees, Follows
  <2>3. Agrees(k, "LONG")' /\ (pressed'[k] => (long_sent'[k] <=> "LONG" = "LONG"))
    BY <1>1, <1>2, <1>6, <2>1 DEF Agrees
  <2> QED BY <1>1, <1>2, <2>1, <2>2, <2>3, ReportKeeps
<1> QED BY <1>1, <1>2, <1>3, <1>4, <1>5, <1>6 DEF keys_sample, Settled, LongDue

\* The reader gets one event.
LEMMA ReadKeeps == ASSUME StreamInv, keys_read PROVE StreamInv'
<1>1. /\ ring' = Pop(ring) /\ ring.queued # 0
      /\ last' = [last EXCEPT ![Front(ring).key] = Front(ring)]
      /\ UNCHANGED <<pressed, long_sent, seen_dropped, missed>>
      /\ ring \in RingType(Event \cup {NoEvent}) /\ RingOK(ring)
      /\ last \in [Keys -> Event \cup {NoEvent}]
  BY DEF keys_read, state, StreamInv, KeysRing
<1>2. ring' \in RingType(Event \cup {NoEvent}) /\ RingOK(ring') /\ ring'.dropped = ring.dropped
  BY <1>1, PopOK DEF Pop
<1>3. Front(ring) \in Event \cup {NoEvent}
  BY <1>1, RingAssumption DEF Front, RingType
<1>4. KeysRing'
  BY <1>1, <1>2, <1>3 DEF StreamInv, KeysRing
<1>5. /\ ring.queued \in Nat /\ ring.queued > 0
      /\ KindAt(ring, 1) = Front(ring).kind
      /\ \A k : 1 \in PlacesOf(ring, k) <=> Front(ring).key = k
      /\ \A i \in 1 .. ring.queued - 1 : KindAt(ring', i) = KindAt(ring, i + 1)
      /\ \A k, i : i \in PlacesOf(ring', k) <=>
             i \in 1 .. ring.queued - 1 /\ i + 1 \in PlacesOf(ring, k)
      /\ \A k : PlacesOf(ring, k) \subseteq 1 .. ring.queued
  BY <1>1, PopPlaces
<1>6. ASSUME NEW k \in Keys
      PROVE  /\ \A i \in PlacesOf(ring', k) : /\ i \in Nat /\ i + 1 \in PlacesOf(ring, k)
                                              /\ KindAt(ring', i) = KindAt(ring, i + 1)
             /\ \A n \in PlacesOf(ring, k) : n \in Nat /\ (n = 1 \/ (n > 1 /\ n - 1 \in PlacesOf(ring', k)))
  <2>1. ASSUME NEW n \in PlacesOf(ring, k), n # 1 PROVE n > 1 /\ n - 1 \in PlacesOf(ring', k)
    <3>1. n \in 1 .. ring.queued
      BY <1>5
    <3>2. n - 1 \in 1 .. ring.queued - 1 /\ (n - 1) + 1 = n /\ n > 1
      BY <1>5, <2>1, <3>1
    <3> QED BY <1>5, <3>2
  <2>2. PlacesOf(ring, k) \subseteq Nat
    BY <1>5
  <2>3. \A i \in PlacesOf(ring', k) : i \in Nat
    BY <1>5
  <2> QED BY <1>5, <2>1, <2>2, <2>3
<1>7. ASSUME NEW k \in Keys PROVE InOrder(ring', k)
  <2> SUFFICES ASSUME NEW i \in PlacesOf(ring', k), NEW j \in PlacesOf(ring', k), i < j,
                      \A m \in PlacesOf(ring', k) : m <= i \/ j <= m
               PROVE  Follows(KindAt(ring', i), KindAt(ring', j))
    BY DEF InOrder
  <2>1. /\ i + 1 \in PlacesOf(ring, k) /\ j + 1 \in PlacesOf(ring, k) /\ i + 1 < j + 1
        /\ KindAt(ring', i) = KindAt(ring, i + 1) /\ KindAt(ring', j) = KindAt(ring, j + 1)
    BY <1>6
  <2>2. \A m \in PlacesOf(ring, k) : m <= i + 1 \/ j + 1 <= m
    BY <1>6
  <2>3. InOrder(ring, k)
    BY DEF StreamInv
  <2> QED BY <2>1, <2>2, <2>3 DEF InOrder
<1>8. ASSUME NEW k \in Keys PROVE NewestIsState(k)'
  <2> SUFFICES ASSUME NEW i \in PlacesOf(ring', k), \A j \in PlacesOf(ring', k) : j <= i
               PROVE  /\ Agrees(k, KindAt(ring, i))'
                      /\ pressed'[k] => (long_sent'[k] <=> KindAt(ring', i) = "LONG")
    BY DEF NewestIsState
  <2>1. i + 1 \in PlacesOf(ring, k) /\ KindAt(ring', i) = KindAt(ring, i + 1)
        /\ \A j \in PlacesOf(ring, k) : j <= i + 1
    BY <1>6
  <2>2. /\ Agrees(k, KindAt(ring, i + 1))
        /\ pressed[k] => (long_sent[k] <=> KindAt(ring, i + 1) = "LONG")
    BY <2>1 DEF StreamInv, NewestIsState
  <2> QED BY <1>1, <2>1, <2>2 DEF Agrees
<1>9. ASSUME missed = 0, NEW k \in Keys
      PROVE  InStepWith(k)' /\ (PlacesOf(ring', k) = {} => Fits(k, last[k].kind)')
  <2>1. InStepWith(k) /\ (PlacesOf(ring, k) = {} => Fits(k, last[k].kind))
        /\ InOrder(ring, k) /\ NewestIsState(k)
    BY <1>9 DEF StreamInv, Told
  <2>2. CASE Front(ring).key = k
    <3>1. 1 \in PlacesOf(ring, k) /\ last'[k].kind = KindAt(ring, 1)
      BY <1>1, <1>5, <2>2
    <3>2. ASSUME PlacesOf(ring', k) = {} PROVE Fits(k, last[k].kind)'
      <4>1. \A j \in PlacesOf(ring, k) : j <= 1
        BY <1>6, <3>2
      <4>2. /\ Agrees(k, KindAt(ring, 1))
            /\ pressed[k] => (long_sent[k] <=> KindAt(ring, 1) = "LONG")
        BY <2>1, <3>1, <4>1 DEF NewestIsState
      <4> QED BY <1>1, <3>1, <4>2 DEF Fits, Agrees
    <3>3. ASSUME NEW i \in PlacesOf(ring', k), \A j \in PlacesOf(ring', k) : i <= j
          PROVE  Follows(last'[k].kind, KindAt(ring', i))
      <4>1. i + 1 \in PlacesOf(ring, k) /\ KindAt(ring', i) = KindAt(ring, i + 1) /\ 1 < i + 1
        BY <1>5, <1>6
      <4>2. \A m \in PlacesOf(ring, k) : m <= 1 \/ i + 1 <= m
        BY <1>6, <3>3
      <4> QED BY <2>1, <3>1, <4>1, <4>2 DEF InOrder
    <3> QED BY <3>2, <3>3 DEF InStepWith, Fits
  <2>3. CASE Front(ring).key # k
    <3>1. last'[k] = last[k] /\ 1 \notin PlacesOf(ring, k)
      BY <1>1, <1>5, <2>3
    <3>2. PlacesOf(ring', k) = {} => PlacesOf(ring, k) = {}
      BY <1>6, <3>1
    <3>3. ASSUME NEW i \in PlacesOf(ring', k), \A j \in PlacesOf(ring', k) : i <= j
          PROVE  Follows(last'[k].kind, KindAt(ring', i))
      <4>1. i + 1 \in PlacesOf(ring, k) /\ KindAt(ring', i) = KindAt(ring, i + 1)
        BY <1>6
      <4>2. \A m \in PlacesOf(ring, k) : i + 1 <= m
        BY <1>6, <3>1, <3>3
      <4> QED BY <2>1, <3>1, <4>1, <4>2 DEF InStepWith
    <3>4. PlacesOf(ring', k) = {} => Fits(k, last[k].kind)'
      BY <1>1, <2>1, <3>1, <3>2 DEF Fits, Agrees
    <3> QED BY <3>3, <3>4 DEF InStepWith, Fits
  <2> QED BY <2>2, <2>3
<1>10. Told'
  BY <1>1, <1>2, <1>9 DEF StreamInv, Told
<1> QED BY <1>4, <1>7, <1>8, <1>10 DEF StreamInv

\* The reader takes the status.
LEMMA StatusKeeps == ASSUME StreamInv, keys_control PROVE StreamInv'
<1>1. /\ UNCHANGED <<ring, pressed, long_sent>> /\ ring.queued = 0
      /\ last' = [k \in Keys |-> [key |-> k, kind |-> IF pressed[k] THEN "DOWN" ELSE "UP"]]
      /\ seen_dropped' = ring.dropped /\ missed' = 0
      /\ ring \in RingType(Event \cup {NoEvent}) /\ RingOK(ring)
  BY DEF keys_control, state, StreamInv, KeysRing
<1>2. /\ COUNTER \in Nat /\ COUNTER > 0 /\ 0 \in 0 .. COUNTER
      /\ ring.dropped \in 0 .. COUNTER - 1 /\ Ahead(ring.dropped, 0) = ring.dropped
  BY <1>1, RingAssumption, AheadMoves DEF RingType
<1>3. last' \in [Keys -> Event \cup {NoEvent}]
  BY <1>1 DEF Event, Kinds
<1>4. KeysRing'
  BY <1>1, <1>2, <1>3 DEF StreamInv, KeysRing
<1>5. \A k \in Keys : PlacesOf(ring, k) = {} /\ Fits(k, last'[k].kind)
  BY <1>1 DEF PlacesOf, Fits, Agrees
<1>6. Told'
  BY <1>1, <1>2, <1>5 DEF Told, InStepWith, Fits, Agrees
<1>7. \A k \in Keys : InOrder(ring', k) /\ NewestIsState(k)'
  BY <1>1, <1>5 DEF InOrder, NewestIsState
<1> QED BY <1>4, <1>6, <1>7 DEF StreamInv

LEMMA StreamInduction == StreamInv /\ [KeysNext]_keyvars => StreamInv'
<1> SUFFICES ASSUME StreamInv, [KeysNext]_keyvars PROVE StreamInv'
  OBVIOUS
<1>1. CASE UNCHANGED <<ring, pressed, long_sent, last, seen_dropped, missed>>
  BY <1>1 DEF StreamInv, KeysRing, Told, InStepWith, NewestIsState, Fits, Agrees
<1>2. CASE Tick \/ board_keys_poll \/ LockAndSample \/ UNCHANGED keyvars
  BY <1>1, <1>2 DEF Tick, board_keys_poll, LockAndSample, keyvars, state, reader
<1> QED BY <1>2, SampleKeeps, ReadKeeps, StatusKeeps DEF KeysNext

LEMMA StreamStart == KeysInit => StreamInv
<1> SUFFICES ASSUME KeysInit PROVE StreamInv
  OBVIOUS
<1>1. /\ ring = EmptyRing(NoEvent) /\ pressed = [k \in Keys |-> FALSE]
      /\ long_sent = [k \in Keys |-> FALSE] /\ last = [k \in Keys |-> NoEvent]
      /\ seen_dropped = 0 /\ missed = 0
  BY DEF KeysInit
<1>2. /\ COUNTER \in Nat /\ COUNTER > 0 /\ QSIZE \in Nat /\ QSIZE > 0
      /\ 0 \in 0 .. COUNTER - 1 /\ 0 \in 0 .. COUNTER /\ Ahead(0, 0) = 0
  BY RingAssumption, AheadMoves
<1>3. ring \in RingType(Event \cup {NoEvent}) /\ ring.queued = 0 /\ ring.dropped = 0
  BY <1>1, <1>2 DEF EmptyRing, RingType, Slots
<1>4. RingOK(ring)
  <2>1. Wrap(0) = 0 /\ 0 + 0 = 0
    BY <1>2, WrapOneLap
  <2> QED BY <1>1, <2>1 DEF RingOK, EmptyRing
<1>5. KeysRing
  BY <1>1, <1>2, <1>3, <1>4 DEF KeysRing
<1>6. \A k \in Keys : PlacesOf(ring, k) = {} /\ Fits(k, last[k].kind)
  BY <1>1, <1>3 DEF PlacesOf, Fits, Agrees, NoEvent
<1> QED BY <1>1, <1>2, <1>3, <1>5, <1>6 DEF StreamInv, Told, InStepWith, InOrder, NewestIsState, Fits

\* Every key's events come in order and end in its state, and a reader out of
\* step finds the dropped count moved (board_keys.c:31-46, 69-94), for every number of
\* keys that share the ring and every size of it.
THEOREM KeyStreamsAreWellFormed == PartsSpec => []KeyStreamWellFormed
<1>1. StreamInv => KeyStreamWellFormed
  <2> SUFFICES ASSUME StreamInv, NEW k \in Keys, missed # COUNTER, ring.dropped = seen_dropped
               PROVE  InStepWith(k)
    BY DEF StreamInv, KeyStreamWellFormed
  <2>1. COUNTER \in Nat /\ missed \in 0 .. COUNTER /\ seen_dropped \in 0 .. COUNTER - 1
    BY RingAssumption DEF StreamInv, KeysRing
  <2>2. missed \notin 1 .. COUNTER - 1
    BY <2>1, AheadMoves DEF StreamInv, Told
  <2>3. missed = 0
    BY <2>1, <2>2
  <2> QED BY <2>3 DEF StreamInv, Told
<1> QED BY <1>1, StreamStart, StreamInduction, PartsAreParts, PTL
=============================================================================
