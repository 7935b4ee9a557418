---------------------------- MODULE RateLimiter ----------------------------
(* The token bucket of a command queue (queue.py, class RateLimiter), in   *)
(* integers: one tick of the clock is the time in which 1/Period of a      *)
(* token accrues, and `tokens' counts such fractions, so a full token is   *)
(* Period units and rate = 1/Period tokens per tick.                       *)
(*                                                                         *)
(* acquire holds the lock while it sleeps, so at most one caller sleeps    *)
(* and the others wait for it.  The clock (time.time()) is assumed never   *)
(* to step back.                                                           *)
(*                                                                         *)
(* The window <<from, before>> is history: at some moment an observer may  *)
(* start to count the permissions given.                                   *)
EXTENDS Integers

CONSTANTS
    Period, \* ticks per token: 1 / rate
    Burst,  \* size of the bucket in tokens
    MaxNow  \* bound on the clock

ASSUME RateAssumption ==
    /\ Period \in Nat \ {0}
    /\ Burst \in Nat \ {0}
    /\ MaxNow \in Nat

VARIABLES
    now,      \* the clock
    tokens,   \* self.tokens, in units
    last,     \* self.last_update
    phase,    \* "asleep": the caller that holds the lock sleeps
    wake,     \* when its sleep is over
    granted,  \* permissions given so far
    from, before    \* start of the window; permissions given before it

vars == <<now, tokens, last, phase, wake, granted, from, before>>

Full == Burst * Period

Min2(a, b) == IF a <= b THEN a ELSE b

\* The tokens once the time since last_update has been credited.
Refilled == Min2(Full, tokens + (now - last))

Init ==
    /\ now = 0
    /\ tokens = Full
    /\ last = 0
    /\ phase = "free"
    /\ wake = 0
    /\ granted = 0
    /\ from = 0
    /\ before = 0

\* acquire finds a token.
Take ==
    /\ phase = "free"
    /\ Refilled >= Period
    /\ tokens' = Refilled - Period
    /\ last' = now
    /\ granted' = granted + 1
    /\ UNCHANGED <<now, phase, wake, from, before>>

\* acquire finds less than a token and sleeps until one would be there.
Sleep ==
    /\ phase = "free"
    /\ Refilled < Period
    /\ tokens' = Refilled
    /\ last' = now
    /\ phase' = "asleep"
    /\ wake' = now + (Period - Refilled)
    /\ UNCHANGED <<now, granted, from, before>>

\* Mutant: the token that was waited for is not taken.
WakeKeeps ==
    /\ phase = "asleep"
    /\ now >= wake
    /\ tokens' = Period
    /\ phase' = "free"
    /\ granted' = granted + 1
    /\ UNCHANGED <<now, last, wake, from, before>>

\* The sleep is over (it may have taken longer): tokens are spent, but
\* last_update still is the time before the sleep.
Wake ==
    /\ phase = "asleep"
    /\ now >= wake
    /\ tokens' = 0
    /\ phase' = "free"
    /\ granted' = granted + 1
    /\ UNCHANGED <<now, last, wake, from, before>>

\* The sleeping caller is cancelled (the queue's worker is stopped).
Cancel ==
    /\ phase = "asleep"
    /\ phase' = "free"
    /\ UNCHANGED <<now, tokens, last, wake, granted, from, before>>

Tick ==
    /\ now < MaxNow
    /\ now' = now + 1
    /\ UNCHANGED <<tokens, last, phase, wake, granted, from, before>>

\* The observer starts to count.
Observe ==
    /\ from = 0
    /\ from' = now
    /\ before' = granted
    /\ UNCHANGED <<now, tokens, last, phase, wake, granted>>

Next == Take \/ Sleep \/ Wake \/ Cancel \/ Tick \/ Observe

Spec == Init /\ [][Next]_vars

-----------------------------------------------------------------------------
\* The bucket never holds more than Burst tokens, and a sleep is never longer
\* than the time in which one token accrues.
TypeOK ==
    /\ now \in 0..MaxNow
    /\ tokens \in 0..Full
    /\ last \in 0..now
    /\ phase \in {"free", "asleep"}
    /\ wake \in Nat
    /\ phase = "asleep" => tokens < Period /\ wake = last + (Period - tokens)
    /\ granted \in Nat
    /\ from \in 0..now
    /\ before \in 0..granted

\* What the code keeps to: in any window, wherever it starts, at most one token
\* more than a full bucket is used up front and then at most two tokens per
\* Period.  Two, because acquire does not move last_update when it wakes: the
\* time it slept, already used up by the caller that slept, is credited to the
\* next one again.
WindowBound ==
    (granted - before) * Period <= Full + Period + 2 * (now - from)

\* What the docs promise ("Commands per second"): after the burst, one token per
\* Period.
DocumentedRate ==
    (granted - before) * Period <= Full + Period + (now - from)

=============================================================================
