------------------------- MODULE RateLimiter_proofs -------------------------
(* Theorems about RateLimiter, for every rate and burst.                   *)
EXTENDS RateLimiter, TLAPS

\* Permissions given in the window, in units.
Given == (granted - before) * Period

\* What the window may still be charged: the refilled bucket while nobody
\* sleeps; while a caller sleeps, its own token and the credit that its sleep
\* will have earned twice when it wakes.
RateInv ==
    /\ TypeOK
    /\ Given + Refilled <= Full + Period + 2 * (now - from)
    /\ phase = "asleep" /\ now <= wake =>
          Given + Min2(Full, wake - last) <= Full + 2 * (wake - from)
    /\ phase = "asleep" /\ now >= wake =>
          Given + Min2(Full, now - last) <= Full + 2 * (now - from)

LEMMA FullPos == Full \in Nat /\ Full >= Period
<1>1. Burst * Period \in Nat
    BY RateAssumption
<1>2. Burst * Period >= Period
    BY RateAssumption
<1> QED
    BY <1>1, <1>2 DEF Full

LEMMA GivenInt == ASSUME TypeOK PROVE Given \in Int
<1>1. \A m, n \in Int : m * n \in Int
    OBVIOUS
<1> QED
    BY <1>1, RateAssumption DEF Given, TypeOK

\* One more permission costs one token.
LEMMA GivenStep ==
    ASSUME TypeOK, granted' = granted + 1, before' = before
    PROVE  Given' = Given + Period
<1>1. \A g, b, p \in Int : ((g + 1) - b) * p = (g - b) * p + p
    OBVIOUS
<1> QED
    BY <1>1, RateAssumption DEF Given, TypeOK

LEMMA RateInit == Init => RateInv
<1> SUFFICES ASSUME Init
             PROVE  RateInv
    OBVIOUS
<1>1. TypeOK
    <2>1. /\ now = 0 /\ tokens = Full /\ last = 0 /\ phase = "free" /\ wake = 0
          /\ granted = 0 /\ from = 0 /\ before = 0
        BY DEF Init
    <2>2. Full \in 0..Full /\ 0 \in 0..MaxNow /\ 0 \in 0..0
        BY FullPos, RateAssumption
    <2> QED
        BY <2>1, <2>2 DEF TypeOK
<1>2. Given = 0
    BY RateAssumption DEF Init, Given
<1> QED
    BY <1>1, <1>2, FullPos, RateAssumption DEF Init, RateInv, Refilled, Min2

LEMMA RateStep == RateInv /\ [Next]_vars => RateInv'
<1> SUFFICES ASSUME RateInv, [Next]_vars
             PROVE  RateInv'
    OBVIOUS
<1>1. /\ Period \in Nat /\ Period > 0
      /\ Full \in Nat /\ Full >= Period /\ Full' = Full
      /\ Given \in Int
    BY RateAssumption, FullPos, GivenInt DEF RateInv, Full
<1> USE <1>1 DEF RateInv, TypeOK, Refilled, Min2
<1>2. CASE Take
    <2>1. Given' = Given + Period
        BY <1>2, GivenStep DEF Take
    <2> QED
        BY <1>2, <2>1 DEF Take
<1>3. CASE Sleep
    <2>1. Given' = Given
        BY <1>3 DEF Sleep, Given
    <2> QED
        BY <1>3, <2>1 DEF Sleep
<1>4. CASE Wake
    <2>1. Given' = Given + Period
        BY <1>4, GivenStep DEF Wake
    <2>2. TypeOK'
        BY <1>4 DEF Wake
    <2>3. Given + Min2(Full, now - last) <= Full + 2 * (now - from)
        BY <1>4 DEF Wake
    <2>4. Refilled' = Min2(Full, now - last)
        BY <1>4 DEF Wake
    <2>5. (Given + Refilled <= Full + Period + 2 * (now - from))'
        BY <1>4, <2>1, <2>3, <2>4 DEF Wake
    <2> QED
        BY <1>4, <2>2, <2>5 DEF Wake
<1>5. CASE Cancel
    <2>1. Given' = Given
        BY <1>5 DEF Cancel, Given
    <2>2. TypeOK'
        BY <1>5 DEF Cancel
    <2>3. (Given + Refilled <= Full + Period + 2 * (now - from))'
        BY <1>5, <2>1 DEF Cancel
    <2> QED
        BY <1>5, <2>2, <2>3 DEF Cancel
<1>6. CASE Tick
    <2>1. Given' = Given
        BY <1>6 DEF Tick, Given
    <2>2. TypeOK'
        BY <1>6, RateAssumption DEF Tick
    <2>3. (Given + Refilled <= Full + Period + 2 * (now - from))'
        BY <1>6, <2>1 DEF Tick
    <2>4. Min2(Full, now' - last) <= Min2(Full, now - last) + 1
        BY <1>6 DEF Tick
    <2>5. ASSUME phase = "asleep", now' <= wake
          PROVE  Given + Min2(Full, wake - last) <= Full + 2 * (wake - from)
        BY <1>6, <2>5 DEF Tick
    <2>6. ASSUME phase = "asleep", now' >= wake
          PROVE  Given + Min2(Full, now' - last) <= Full + 2 * (now' - from)
        BY <1>6, <2>4, <2>6 DEF Tick
    <2> QED
        BY <1>6, <2>1, <2>2, <2>3, <2>5, <2>6 DEF Tick
<1>7. CASE Observe
    <2>1. Given' = 0
        BY <1>7 DEF Observe, Given
    <2> QED
        BY <1>7, <2>1 DEF Observe
<1>8. CASE UNCHANGED vars
    <2>1. Given' = Given
        BY <1>8 DEF vars, Given
    <2> QED
        BY <1>8, <2>1 DEF vars
<1> QED
    BY <1>2, <1>3, <1>4, <1>5, <1>6, <1>7, <1>8 DEF Next

LEMMA RateInvariance == Spec => []RateInv
BY RateInit, RateStep, PTL DEF Spec

\* The bucket stays within its size and nobody sleeps longer than one token
\* takes.
THEOREM BucketTyped == Spec => []TypeOK
<1>1. RateInv => TypeOK
    BY DEF RateInv
<1> QED
    BY <1>1, RateInvariance, PTL

\* In every window the queue starts at most Burst + 1 + 2 * rate * length
\* commands: see WindowBound.
THEOREM RateBounded == Spec => []WindowBound
<1>1. RateInv => WindowBound
    <2> SUFFICES ASSUME RateInv
                 PROVE  WindowBound
        OBVIOUS
    <2>1. Given \in Int /\ Full \in Nat /\ Period \in Nat
        BY RateAssumption, FullPos, GivenInt DEF RateInv
    <2>2. Refilled \in Int /\ Refilled >= 0
        BY <2>1 DEF RateInv, TypeOK, Refilled, Min2
    <2>3. Given <= Full + Period + 2 * (now - from)
        BY <2>1, <2>2 DEF RateInv, TypeOK
    <2> QED
        BY <2>3 DEF WindowBound, Given
<1> QED
    BY <1>1, RateInvariance, PTL

=============================================================================
