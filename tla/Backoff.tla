------------------------------ MODULE Backoff ------------------------------
(***************************************************************************)
(* How long a task waits after each failed attempt: calculateBackoff on    *)
(* signed integers of Width bits, whose products wrap, against the value   *)
(* it stands for.  The code's are 64 bits wide, its base is one second and *)
(* its cap 5 minutes, in nanoseconds.                                      *)
(***************************************************************************)
EXTENDS Integers

CONSTANTS Width,         \* of an integer
          Bases,         \* values for the base
          MaxBackOff,    \* the cap
          MaxAttempts,   \* bound: attempts in a behaviour
          Panic          \* rand.Int63n of a number that is not positive

\* 1<<n
Pow2[n \in Nat] == IF n = 0 THEN 1 ELSE 2 * Pow2[n - 1]

ASSUME WidthAssumption   == Width \in Nat \ {0, 1} /\ MaxAttempts \in Nat
ASSUME BaseAssumption    == Bases \subseteq 5..MaxBackOff
ASSUME OutcomeAssumption == Panic \notin Int

\* Half of the largest integer, from which 5 minutes are 7 orders of magnitude away.  A base
\* near a higher cap has so few leading zeros that the cap replaces it too early.
ASSUME CapAssumption == MaxBackOff \in Nat /\ MaxBackOff <= Pow2[Width - 2]

VARIABLES base, attempt, wait

vars == <<base, attempt, wait>>

-----------------------------------------------------------------------------
Wrap(n) == ((n + Pow2[Width - 1]) % Pow2[Width]) - Pow2[Width - 1]

\* Mutation: all attempts that a shift could count.
LeadingZeros_All(n) == Width

\* bits.LeadingZeros64
LeadingZeros(n) == CHOOSE z \in 0..(Width - 1) : Pow2[Width - z] > n /\ n >= Pow2[Width - z - 1]

Capped(b) == IF b > MaxBackOff THEN MaxBackOff ELSE b

BeforeJitter(n) == IF n >= LeadingZeros(base) THEN MaxBackOff
                                              ELSE Capped(Wrap(base * Pow2[n - 1]))

\* Every value of the random jitter.
CalculateBackoff(n) ==
  LET b == BeforeJitter(n) IN
  IF b \div 5 <= 0 THEN {Panic}
                   ELSE {b + j - b \div 10 : j \in 0..(b \div 5 - 1)}

Init == base \in Bases /\ attempt = 0 /\ wait = 0

\* The task fails once more; its handler's error schedules the next attempt.
Fail == /\ attempt < MaxAttempts
        /\ wait # Panic
        /\ attempt' = attempt + 1
        /\ wait' \in CalculateBackoff(attempt + 1)
        /\ UNCHANGED base

Spec == Init /\ [][Fail]_vars

-----------------------------------------------------------------------------
\* A base, doubled for every attempt but the first, and never more than the cap.
Growth(b) == LET doubled[n \in 1..MaxAttempts] == IF n = 1 THEN b ELSE Capped(2 * doubled[n - 1])
             IN  doubled

Ideal == Growth(base)[attempt]

(* At every attempt the wait is that of an exponential backoff with a cap, *)
(* give or take a tenth: no product wraps before the count of leading      *)
(* zeros puts the cap in its place, and the jitter of no wait panics.      *)
WaitIsExponential ==
  attempt > 0 => /\ wait # Panic
                 /\ 9 * Ideal <= 10 * wait
                 /\ 10 * wait < 11 * Ideal
=============================================================================
