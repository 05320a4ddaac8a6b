--------------------------- MODULE RmtPulseProofs ---------------------------
(***************************************************************************)
(* The split of a pulse into symbols is exact for every length of pulse    *)
(* and every width of the duration field, and never ends a pulse early.    *)
(***************************************************************************)
EXTENDS RmtPulse, TLAPS

(***************************************************************************)
(* Arithmetic.                                                             *)
(***************************************************************************)
LEMMA Division ==
  ASSUME NEW a \in Nat, NEW b \in Nat, b > 0
  PROVE  /\ a \div b \in Nat /\ a % b \in Nat
         /\ a = b * (a \div b) + (a % b)
         /\ a % b < b
<1>1. a \div b \in Int /\ a % b \in Nat /\ a % b < b
  OBVIOUS
<1>2. a = b * (a \div b) + (a % b)
  BY SMTT(60)
<1>3. a \div b >= 0
  <2> DEFINE q == a \div b
  <2> HIDE DEF q
  <2> SUFFICES ASSUME q <= -1 PROVE FALSE
    BY <1>1 DEF q
  <2>1. q \in Int /\ a = b * q + (a % b)
    BY <1>1, <1>2 DEF q
  <2>2. b * (-1 - q) >= 0
    <3>1. \A x, y \in Nat : x * y >= 0
      OBVIOUS
    <3>2. -1 - q \in Nat
      BY <2>1
    <3> QED BY <3>1, <3>2
  <2>3. b * (-1 - q) = -b - b * q
    BY <2>1
  <2>4. b * q \in Int /\ b * q <= -b
    BY <2>1, <2>2, <2>3
  <2> DEFINE p == b * q
  <2> HIDE DEF p
  <2>5. p \in Int /\ p <= -b /\ a = p + (a % b)
    BY <2>1, <2>4 DEF p
  <2> QED BY <1>1, <2>5
<1> QED BY <1>1, <1>2, <1>3

LEMMA Monotonic ==
  ASSUME NEW a \in Nat, NEW b \in Nat, NEW n \in Nat, a <= b
  PROVE  a * n <= b * n
<1>1. (b - a) * n >= 0
  OBVIOUS
<1>2. (b - a) * n = b * n - a * n
  OBVIOUS
<1> QED BY <1>1, <1>2

LEMMA Halves ==
  ASSUME NEW s \in Nat
  PROVE  /\ (s + 1) \div 2 \in Nat /\ s \div 2 \in Nat
         /\ (s + 1) \div 2 + s \div 2 = s
         /\ s >= 2 => (s + 1) \div 2 >= 1 /\ s \div 2 >= 1
         /\ \A m \in Nat : s <= m * 2 => (s + 1) \div 2 <= m /\ s \div 2 <= m
  OBVIOUS

(***************************************************************************)
(* The number of symbols: the least that hold the pulse.                   *)
(***************************************************************************)
LEMMA CountFacts ==
  ASSUME NEW d \in Nat, d > 0
  PROVE  LET n == required_symbol_count(d)
             M == MAX_SYMBOL_DURATION_US
         IN  /\ n \in Nat /\ n >= 1
             /\ d <= M * n
             /\ M * (n - 1) < d
<1> DEFINE M == MAX_SYMBOL_DURATION_US
<1> DEFINE a == d + M - 1
<1> DEFINE n == required_symbol_count(d)
<1>1. M \in Nat /\ M > 0
  BY RmtAssumption DEF MAX_SYMBOL_DURATION_US
<1>2. a \in Nat /\ n = a \div M
  BY <1>1 DEF required_symbol_count
<1> HIDE DEF M, a, n
<1>3. n \in Nat /\ a % M \in Nat /\ a = M * n + (a % M) /\ a % M < M
  BY <1>1, <1>2, Division
<1>4. a = d + M - 1
  BY DEF a, M
<1>5. M * n > d - 1 /\ M * n <= d + M - 1
  BY <1>1, <1>3, <1>4
<1>6. n # 0
  BY <1>1, <1>5
<1>7. M * (n - 1) = M * n - M
  BY <1>1, <1>3
<1>8. M * n \in Nat
  BY <1>1, <1>3
<1>9. n >= 1 /\ d <= M * n /\ M * (n - 1) < d
  BY <1>1, <1>3, <1>5, <1>6, <1>7, <1>8
<1> QED BY <1>3, <1>9 DEF n, M

(***************************************************************************)
(* The length of a symbol: at most what its two halves hold, at least 2 us *)
(* when the pulse is.                                                      *)
(***************************************************************************)
LEMMA SymbolFacts ==
  ASSUME NEW d \in Nat, d > 0, NEW i \in Nat, i < required_symbol_count(d)
  PROVE  /\ symbol_us(d, i) \in Nat
         /\ symbol_us(d, i) <= MAX_SYMBOL_DURATION_US
         /\ d >= 2 => symbol_us(d, i) >= 2
         /\ symbol_us(d, i) >= 1
<1> DEFINE M == MAX_SYMBOL_DURATION_US
<1> DEFINE n == required_symbol_count(d)
<1> DEFINE base == d \div n
<1> DEFINE extra == d % n
<1>1. n \in Nat /\ n >= 1 /\ d <= M * n /\ M * (n - 1) < d
  BY CountFacts
<1>2. M \in Nat /\ M >= 4
  BY RmtAssumption DEF MAX_SYMBOL_DURATION_US
<1>3. symbol_us(d, i) = base + (IF i < extra THEN 1 ELSE 0)
  BY DEF symbol_us
<1> HIDE DEF M, n
<1>4. base \in Nat /\ extra \in Nat /\ d = n * base + extra /\ extra < n
  BY <1>1, Division
<1> HIDE DEF base, extra
<1>5. base <= M
  <2> SUFFICES ASSUME base >= M + 1 PROVE FALSE
    BY <1>2, <1>4
  <2>1. (M + 1) * n <= base * n
    BY <1>1, <1>2, <1>4, Monotonic
  <2>2. (M + 1) * n = M * n + n /\ base * n = n * base /\ M * n \in Nat /\ n * base \in Nat
    BY <1>1, <1>2, <1>4
  <2> QED BY <1>1, <1>4, <2>1, <2>2
<1>6. base = M => extra = 0
  <2> SUFFICES ASSUME base = M PROVE extra = 0
    OBVIOUS
  <2>1. n * base = M * n /\ M * n \in Nat
    BY <1>1, <1>2
  <2> QED BY <1>1, <1>4, <2>1
<1>7. base >= 1
  <2> SUFFICES ASSUME base = 0 PROVE FALSE
    BY <1>4
  <2>1. d < n
    BY <1>1, <1>4
  <2>2. 4 * (n - 1) <= M * (n - 1)
    BY <1>1, <1>2, Monotonic
  <2>3. M * (n - 1) \in Nat
    BY <1>1, <1>2
  <2> QED BY <1>1, <2>1, <2>2, <2>3
<1>8. d >= 2 => base >= 2
  <2> SUFFICES ASSUME d >= 2, base = 1 PROVE FALSE
    BY <1>4, <1>7
  <2>1. d < 2 * n
    BY <1>1, <1>4
  <2>2. 4 * (n - 1) <= M * (n - 1)
    BY <1>1, <1>2, Monotonic
  <2>3. M * (n - 1) \in Nat
    BY <1>1, <1>2
  <2>4. n = 1
    BY <1>1, <2>1, <2>2, <2>3
  <2> QED BY <1>4, <2>1, <2>4
<1> QED BY <1>2, <1>3, <1>4, <1>5, <1>6, <1>7, <1>8 DEF M

(***************************************************************************)
(* The halves of a symbol add up to it and fit their fields.               *)
(***************************************************************************)
LEMMA DurationFacts ==
  ASSUME NEW d \in Nat, d > 0, NEW i \in Nat, i < required_symbol_count(d)
  PROVE  LET h == symbol_durations(d, i)
         IN  /\ h[1] \in Nat /\ h[2] \in Nat
             /\ h[1] + h[2] = symbol_us(d, i)
             /\ h[1] >= 1
             /\ d >= 2 => h[2] >= 1
<1> DEFINE s == symbol_us(d, i)
<1> DEFINE P == MAX_PHASE_DURATION_US
<1>1. s \in Nat /\ s <= P * 2 /\ s >= 1 /\ (d >= 2 => s >= 2)
  BY SymbolFacts DEF MAX_SYMBOL_DURATION_US
<1>2. P \in Nat
  BY RmtAssumption
<1>3. symbol_durations(d, i) = <<((s + 1) \div 2) % (P + 1), (s \div 2) % (P + 1)>>
  BY DEF symbol_durations
<1> HIDE DEF s, P
<1>4. /\ (s + 1) \div 2 \in Nat /\ s \div 2 \in Nat
      /\ (s + 1) \div 2 + s \div 2 = s
      /\ (s + 1) \div 2 <= P /\ s \div 2 <= P
      /\ s >= 2 => s \div 2 >= 1
  BY <1>1, <1>2, Halves
<1>5. \A x \in Nat : x <= P => x % (P + 1) = x
  BY <1>2
<1>6. symbol_durations(d, i) = <<(s + 1) \div 2, s \div 2>>
  BY <1>3, <1>4, <1>5
<1>7. (s + 1) \div 2 >= 1
  BY <1>1
<1> QED BY <1>1, <1>4, <1>6, <1>7 DEF s

(***************************************************************************)
(* What the symbols add up to.                                             *)
(***************************************************************************)
LEMMA OnBeforeFacts ==
  ASSUME NEW d \in Nat, d > 0
  PROVE  LET n == required_symbol_count(d)
         IN  /\ OnBefore(d, 0) = 0
             /\ OnBefore(d, n) = d
             /\ \A i \in Nat : i < n => OnBefore(d, i + 1) = OnBefore(d, i) + symbol_us(d, i)
             /\ \A i \in Nat : OnBefore(d, i) \in Nat
<1> DEFINE n == required_symbol_count(d)
<1> DEFINE base == d \div n
<1> DEFINE extra == d % n
<1>1. n \in Nat /\ n >= 1
  BY CountFacts
<1>2. \A i \in Nat : OnBefore(d, i) = i * base + (IF i < extra THEN i ELSE extra)
  BY DEF OnBefore
<1>3. \A i \in Nat : symbol_us(d, i) = base + (IF i < extra THEN 1 ELSE 0)
  BY DEF symbol_us
<1> HIDE DEF n
<1>4. base \in Nat /\ extra \in Nat /\ d = n * base + extra /\ extra < n
  BY <1>1, Division
<1> HIDE DEF base, extra
<1>5. \A i \in Nat : i * base \in Nat /\ (i + 1) * base = i * base + base
  BY <1>4
<1>6. OnBefore(d, 0) = 0
  BY <1>2, <1>4
<1>7. OnBefore(d, n) = d
  BY <1>1, <1>2, <1>4
<1>8. \A i \in Nat : OnBefore(d, i + 1) = OnBefore(d, i) + symbol_us(d, i)
  <2> SUFFICES ASSUME NEW i \in Nat PROVE OnBefore(d, i + 1) = OnBefore(d, i) + symbol_us(d, i)
    OBVIOUS
  <2>1. OnBefore(d, i + 1) = (i + 1) * base + (IF i + 1 < extra THEN i + 1 ELSE extra)
    BY <1>2
  <2>2. OnBefore(d, i) = i * base + (IF i < extra THEN i ELSE extra)
    BY <1>2
  <2>3. symbol_us(d, i) = base + (IF i < extra THEN 1 ELSE 0)
    BY <1>3
  <2> QED BY <1>4, <1>5, <2>1, <2>2, <2>3
<1>9. \A i \in Nat : OnBefore(d, i) \in Nat
  BY <1>2, <1>4, <1>5
<1> QED BY <1>6, <1>7, <1>8, <1>9 DEF n

(***************************************************************************)
(* The transmission.                                                       *)
(***************************************************************************)
LEMMA NextPulse == PulseInv /\ [Next]_vars => PulseInv'
<1> SUFFICES ASSUME PulseInv, [Next]_vars PROVE PulseInv'
  OBVIOUS
<1> USE DEF PulseInv
<1>1. CASE StartPulse
  <2>1. PICK us \in 0..MaxRequestUs :
          required_symbol_count(us) \in 1..RMT_PULSE_SYMBOL_CAPACITY /\ duration_us' = us
    BY <1>1 DEF StartPulse
  <2>2. us \in Nat /\ us > 0
    <3>1. required_symbol_count(0) = 0
      BY RmtAssumption DEF required_symbol_count, MAX_SYMBOL_DURATION_US
    <3> QED BY <2>1, <3>1, RmtAssumption
  <2>3. OnBefore(us, 0) = 0 /\ required_symbol_count(us) \in Nat
    BY <2>2, OnBeforeFacts, CountFacts
  <2> QED BY <1>1, <2>1, <2>2, <2>3 DEF StartPulse
<1>2. CASE PlayHalf
  <2> DEFINE h == symbol_durations(duration_us, index)
  <2>0. required_symbol_count(duration_us) \in Nat /\ duration_us > 0
    BY <1>2, CountFacts DEF PlayHalf
  <2>1. index < required_symbol_count(duration_us)
    BY <1>2, <2>0 DEF PlayHalf, EndMarker
  <2>2. h[1] \in Nat /\ h[2] \in Nat /\ h[1] + h[2] = symbol_us(duration_us, index)
    BY <2>0, <2>1, DurationFacts
  <2>3. OnBefore(duration_us, index + 1) = OnBefore(duration_us, index) + symbol_us(duration_us, index)
    BY <2>0, <2>1, OnBeforeFacts
  <2>4. OnBefore(duration_us, index) \in Nat
    BY <2>0, OnBeforeFacts
  <2> HIDE DEF h
  <2>5. CASE half = 1
    <3>1. high_us' = high_us + h[1] /\ half' = 2 /\ index' = index
      BY <1>2, <2>5 DEF PlayHalf, Current, h
    <3> QED BY <1>2, <2>0, <2>1, <2>2, <2>4, <2>5, <3>1 DEF PlayHalf, h
  <2>6. CASE half = 2
    <3>1. high_us' = high_us + h[2] /\ half' = 1 /\ index' = index + 1
      BY <1>2, <2>6 DEF PlayHalf, Current, h
    <3>2. high_us = OnBefore(duration_us, index) + h[1]
      BY <1>2, <2>6 DEF PlayHalf, h
    <3>3. high_us' = OnBefore(duration_us, index')
      BY <2>2, <2>3, <2>4, <3>1, <3>2
    <3> QED BY <1>2, <2>0, <2>1, <2>2, <2>6, <3>1, <3>3 DEF PlayHalf
  <2> QED BY <2>5, <2>6
<1>3. CASE PulseDone
  <2> DEFINE h == symbol_durations(duration_us, index)
  <2>0. required_symbol_count(duration_us) \in Nat /\ duration_us > 0
    BY <1>3, CountFacts DEF PulseDone
  <2>1. CASE index = required_symbol_count(duration_us)
    <3>1. high_us = OnBefore(duration_us, index)
      BY <1>3, <2>0, <2>1 DEF PulseDone
    <3>2. high_us = duration_us
      BY <2>0, <2>1, <3>1, OnBeforeFacts
    <3> QED BY <1>3, <3>2 DEF PulseDone
  <2>2. CASE index < required_symbol_count(duration_us)
    <3>1. /\ h[1] \in Nat /\ h[2] \in Nat /\ h[1] >= 1
          /\ h[1] + h[2] = symbol_us(duration_us, index)
          /\ duration_us >= 2 => h[2] >= 1
      BY <2>0, <2>2, DurationFacts
    <3>2. half = 2 /\ h[2] = 0 /\ duration_us = 1
      BY <1>3, <2>0, <2>2, <3>1 DEF PulseDone, EndMarker, Current
    <3>3. required_symbol_count(1) = 1
      BY RmtAssumption DEF required_symbol_count, MAX_SYMBOL_DURATION_US
    <3>4. OnBefore(duration_us, index) + symbol_us(duration_us, index) = duration_us
      <4>1. index = 0
        BY <2>2, <3>2, <3>3
      <4> QED BY <2>0, <3>2, <3>3, <4>1, OnBeforeFacts
    <3>5. high_us = duration_us
      BY <1>3, <3>1, <3>2, <3>4, <2>0, OnBeforeFacts DEF PulseDone
    <3> QED BY <1>3, <3>5 DEF PulseDone
  <2> QED BY <1>3, <2>0, <2>1, <2>2 DEF PulseDone
<1>4. CASE UNCHANGED vars
  BY <1>4 DEF vars
<1> QED BY <1>1, <1>2, <1>3, <1>4 DEF Next

(* At every half the motor has been on for what is due.                    *)
THEOREM PulseInvariance == Spec => []PulseInv
<1>1. Init => PulseInv
  BY DEF Init, PulseInv
<1> QED BY <1>1, NextPulse, PTL DEF Spec

(* A pulse keeps the motor on for exactly the time asked for, for every     *)
(* length and every width of the duration field (symbol_durations).         *)
THEOREM PulseIsExact == Spec => []ExactPulse
<1>1. PulseInv => ExactPulse
  <2> SUFFICES ASSUME PulseInv PROVE ExactPulse
    OBVIOUS
  <2> USE DEF PulseInv, ExactPulse
  <2>1. CASE state # "sending"
    BY <2>1
  <2>2. CASE state = "sending"
    <3> DEFINE n == required_symbol_count(duration_us)
    <3>1. duration_us \in Nat /\ duration_us > 0 /\ n \in Nat /\ n >= 1
      BY <2>2, CountFacts
    <3>2. \A i \in Nat : i <= n => OnBefore(duration_us, i) <= duration_us
      <4> SUFFICES ASSUME NEW i \in Nat, i <= n PROVE OnBefore(duration_us, i) <= duration_us
        OBVIOUS
      <4> DEFINE base == duration_us \div n
      <4> DEFINE extra == duration_us % n
      <4>1. OnBefore(duration_us, i) = i * base + (IF i < extra THEN i ELSE extra)
        BY DEF OnBefore
      <4> HIDE DEF n
      <4>2. base \in Nat /\ extra \in Nat /\ duration_us = n * base + extra
        BY <3>1, Division
      <4> HIDE DEF base, extra
      <4>3. i * base <= n * base /\ i * base \in Nat /\ n * base \in Nat
        BY <3>1, <4>2, Monotonic
      <4> QED BY <4>1, <4>2, <4>3
    <3>3. half = 1 => high_us <= duration_us
      BY <2>2, <3>2
    <3>4. half = 2 => high_us <= duration_us
      <4> SUFFICES ASSUME half = 2 PROVE high_us <= duration_us
        OBVIOUS
      <4> DEFINE h == symbol_durations(duration_us, index)
      <4>1. index < n
        BY <2>2
      <4>2. h[1] \in Nat /\ h[2] \in Nat /\ h[1] + h[2] = symbol_us(duration_us, index)
        BY <3>1, <4>1, DurationFacts
      <4>3. OnBefore(duration_us, index + 1) = OnBefore(duration_us, index) + symbol_us(duration_us, index)
        BY <3>1, <4>1, OnBeforeFacts
      <4>4. OnBefore(duration_us, index + 1) <= duration_us
        BY <3>1, <3>2, <4>1
      <4>5. high_us = OnBefore(duration_us, index) + h[1] /\ OnBefore(duration_us, index) \in Nat
        BY <2>2, <3>1, OnBeforeFacts
      <4> HIDE DEF h
      <4> QED BY <3>1, <4>2, <4>3, <4>4, <4>5
    <3> QED BY <2>2, <3>3, <3>4
  <2> QED BY <2>1, <2>2
<1> QED BY <1>1, PulseInvariance, PTL

(* No half inside a payload has no duration, for pulses of at least 2 us.  *)
THEOREM PulseEndsAtMarker == Spec => []EndsAtMarker
<1>1. PulseInv => EndsAtMarker
  BY DurationFacts DEF PulseInv, EndsAtMarker
<1> QED BY <1>1, PulseInvariance, PTL
=============================================================================
