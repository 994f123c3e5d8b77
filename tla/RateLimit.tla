----------------------------- MODULE RateLimit ------------------------------
(***************************************************************************)
(* The token bucket of one principal (adapters/http_api/rate_limit.py).    *)
(*                                                                         *)
(* A token is Unit units and a tick of the clock brings Refill of them,    *)
(* the code has a float and seconds.  The clock is the wall clock: it may  *)
(* be set back.  The limiter's mutex is handed on in the order in which    *)
(* the readings were taken, so a reading and its use are one step.         *)
(***************************************************************************)
EXTENDS Integers

CONSTANTS Capacity, Unit, Refill, LastTick

ASSUME RateAssumption == Capacity \in Nat /\ Unit \in Nat \ {0} /\ Refill \in Nat /\ LastTick \in Nat

VARIABLES
    clock,
    bucket,     \* tokens, in units, and last_refill
    granted,    \* history: requests let through
    passed      \* history: ticks the clock has gone forward

limiterVars == <<clock, bucket, granted, passed>>

Lesser(a, b) == IF a <= b THEN a ELSE b

LimiterInit ==
    /\ clock = 0 /\ passed = 0 /\ granted = 0
    /\ bucket = [tokens |-> Capacity * Unit, last |-> 0]

\* Mutant: a clock that was set back counts as time that has passed.
RefilledByDistance ==
    Lesser(Capacity * Unit,
           bucket.tokens + (IF clock > bucket.last THEN clock - bucket.last ELSE bucket.last - clock) * Refill)

Refilled ==
    Lesser(Capacity * Unit,
           bucket.tokens + (IF clock > bucket.last THEN clock - bucket.last ELSE 0) * Refill)

\* last_refill moves with the clock, backwards too, also for a request refused.
Acquire ==
    /\ LET ok == Refilled >= Unit IN
         /\ bucket' = [tokens |-> IF ok THEN Refilled - Unit ELSE Refilled, last |-> clock]
         /\ granted' = IF ok THEN granted + 1 ELSE granted
    /\ UNCHANGED <<clock, passed>>

Tick == passed < LastTick /\ clock' = clock + 1 /\ passed' = passed + 1 /\ UNCHANGED <<bucket, granted>>

\* The clock is set back.
SetBack == clock > 0 /\ clock' = clock - 1 /\ UNCHANGED <<bucket, granted, passed>>

LimiterNext == Acquire \/ Tick \/ SetBack

LimiterSpec == LimiterInit /\ [][LimiterNext]_limiterVars

-----------------------------------------------------------------------------
(* Properties. *)

\* No principal gets more than a full bucket and what the ticks it has seen
\* bring, however the clock is set back in between and time runs twice.
GrantedIsBounded == granted * Unit <= Capacity * Unit + passed * Refill

=============================================================================
