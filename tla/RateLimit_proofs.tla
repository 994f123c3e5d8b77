-------------------------- MODULE RateLimit_proofs --------------------------
(***************************************************************************)
(* The bound on what a principal is granted, for any capacity, rate and    *)
(* length of time, and however often the clock is set back.                *)
(*                                                                         *)
(* GrantedIsBounded is not inductive: what is still in the bucket, and     *)
(* what the ticks since the last refill will bring, may be granted next.   *)
(* Ledger counts both.  A clock that is set back takes ticks out of the    *)
(* ledger and never puts any in, because a refill moves last_refill with   *)
(* the clock.                                                              *)
(***************************************************************************)
EXTENDS RateLimit, TLAPS

\* Ticks a refill would count now.
Ahead == IF clock > bucket.last THEN clock - bucket.last ELSE 0

LimiterTypes ==
    /\ clock \in Nat /\ granted \in Nat /\ passed \in Nat
    /\ bucket \in [tokens : Nat, last : Nat]

Ledger == granted * Unit + bucket.tokens + Ahead * Refill <= Capacity * Unit + passed * Refill

LimiterInv == LimiterTypes /\ Ledger

(* A product of naturals is one. *)
LEMMA ProductIsNat ==
    ASSUME NEW a \in Nat, NEW b \in Nat
    PROVE  a * b \in Nat
OBVIOUS

(* One more, or one less, times b. *)
LEMMA OneMore ==
    ASSUME NEW a \in Int, NEW b \in Nat
    PROVE  (a + 1) * b = a * b + b /\ (a - 1) * b = a * b - b
OBVIOUS

(* The ledger of a full bucket balances. *)
LEMMA LimiterInitInv == LimiterInit => LimiterInv
<1> SUFFICES ASSUME LimiterInit PROVE LimiterInv
  OBVIOUS
<1>1. Capacity * Unit \in Nat
  BY RateAssumption, ProductIsNat
<1>2. Ahead = 0 /\ 0 * Refill = 0 /\ 0 * Unit = 0
  BY RateAssumption DEF LimiterInit, Ahead
<1> QED
  BY <1>1, <1>2 DEF LimiterInit, LimiterInv, LimiterTypes, Ledger

(* Every step keeps the ledger balanced. *)
LEMMA LimiterStepInv == LimiterInv /\ [LimiterNext]_limiterVars => LimiterInv'
<1> SUFFICES ASSUME LimiterInv, [LimiterNext]_limiterVars PROVE LimiterInv'
  OBVIOUS
<1> USE RateAssumption
<1>t. /\ clock \in Nat /\ granted \in Nat /\ passed \in Nat
      /\ bucket.tokens \in Nat /\ bucket.last \in Nat
      /\ bucket \in [tokens : Nat, last : Nat]
  BY DEF LimiterInv, LimiterTypes
<1>l. granted * Unit + bucket.tokens + Ahead * Refill <= Capacity * Unit + passed * Refill
  BY DEF LimiterInv, Ledger
<1>n. Ahead \in Nat
  BY <1>t DEF Ahead
<1>p. /\ granted * Unit \in Nat /\ Capacity * Unit \in Nat
      /\ passed * Refill \in Nat /\ Ahead * Refill \in Nat
  BY <1>t, <1>n, ProductIsNat
<1>1. CASE Acquire
  <2>1. /\ Refilled \in Nat
        /\ Refilled <= bucket.tokens + Ahead * Refill
    BY <1>t, <1>n, <1>p DEF Refilled, Lesser, Ahead
  <2>2. bucket'.last = clock /\ clock' = clock /\ passed' = passed
    BY <1>1 DEF Acquire
  <2>3. Ahead' = 0 /\ Ahead' * Refill = 0
    BY <2>2, <1>t DEF Ahead
  <2>4. CASE Refilled >= Unit
    <3>1. bucket' = [tokens |-> Refilled - Unit, last |-> clock] /\ granted' = granted + 1
      BY <1>1, <2>4 DEF Acquire
    <3>2. bucket'.tokens = Refilled - Unit /\ Refilled - Unit \in Nat
      BY <3>1, <2>1, <2>4
    <3>3. granted' * Unit = granted * Unit + Unit
      BY <3>1, <1>t, OneMore
    <3>4. granted' * Unit + bucket'.tokens + Ahead' * Refill <= Capacity * Unit + passed' * Refill
      BY <3>2, <3>3, <2>1, <2>2, <2>3, <1>l, <1>p, <1>t
    <3> QED
      BY <3>1, <3>2, <3>4, <2>2, <1>t DEF LimiterInv, LimiterTypes, Ledger
  <2>5. CASE ~ (Refilled >= Unit)
    <3>1. bucket' = [tokens |-> Refilled, last |-> clock] /\ granted' = granted
      BY <1>1, <2>5 DEF Acquire
    <3>2. granted' * Unit + bucket'.tokens + Ahead' * Refill <= Capacity * Unit + passed' * Refill
      BY <3>1, <2>1, <2>2, <2>3, <1>l, <1>p, <1>t
    <3> QED
      BY <3>1, <3>2, <2>1, <2>2, <1>t DEF LimiterInv, LimiterTypes, Ledger
  <2> QED
    BY <2>4, <2>5
<1>2. CASE Tick
  <2>1. clock' = clock + 1 /\ passed' = passed + 1 /\ bucket' = bucket /\ granted' = granted
    BY <1>2 DEF Tick
  <2>2. Ahead' = Ahead \/ Ahead' = Ahead + 1
    BY <2>1, <1>t DEF Ahead
  <2>3. /\ (passed + 1) * Refill = passed * Refill + Refill
        /\ (Ahead + 1) * Refill = Ahead * Refill + Refill
    BY <1>t, <1>n, OneMore
  <2>4. Ahead' * Refill <= Ahead * Refill + Refill
    BY <2>2, <2>3, <1>p
  <2>5. granted' * Unit + bucket'.tokens + Ahead' * Refill <= Capacity * Unit + passed' * Refill
    <3>1. Ahead' * Refill \in Int
      BY <2>2, <2>3, <1>p
    <3> QED
      BY <3>1, <2>1, <2>3, <2>4, <1>l, <1>p, <1>t
  <2> QED
    BY <2>1, <2>5, <1>t DEF LimiterInv, LimiterTypes, Ledger
<1>3. CASE SetBack
  <2>1. clock > 0 /\ clock' = clock - 1 /\ passed' = passed /\ bucket' = bucket /\ granted' = granted
    BY <1>3 DEF SetBack
  <2>2. Ahead' = Ahead \/ Ahead' = Ahead - 1
    BY <2>1, <1>t DEF Ahead
  <2>3. (Ahead - 1) * Refill = Ahead * Refill - Refill
    BY <1>n, OneMore
  <2>4. Ahead' * Refill \in Int /\ Ahead' * Refill <= Ahead * Refill
    BY <2>2, <2>3, <1>p
  <2>5. granted' * Unit + bucket'.tokens + Ahead' * Refill <= Capacity * Unit + passed' * Refill
    BY <2>1, <2>4, <1>l, <1>p, <1>t
  <2> QED
    BY <2>1, <2>5, <1>t DEF LimiterInv, LimiterTypes, Ledger
<1>4. CASE UNCHANGED limiterVars
  BY <1>4 DEF limiterVars, LimiterInv, LimiterTypes, Ledger, Ahead
<1> QED
  BY <1>1, <1>2, <1>3, <1>4 DEF LimiterNext

(* What has been granted is at most a full bucket and what the ticks of the *)
(* clock brought, however the clock is set back (rate_limit.py, try_acquire). *)
THEOREM GrantsAreBounded == LimiterSpec => []GrantedIsBounded
<1>1. LimiterInv => GrantedIsBounded
  <2> SUFFICES ASSUME LimiterInv PROVE GrantedIsBounded
    OBVIOUS
  <2>1. /\ granted \in Nat /\ passed \in Nat /\ bucket.tokens \in Nat
        /\ clock \in Nat /\ bucket.last \in Nat
    BY DEF LimiterInv, LimiterTypes
  <2>2. Ahead \in Nat
    BY <2>1 DEF Ahead
  <2>3. Ahead * Refill \in Nat /\ granted * Unit \in Nat
        /\ Capacity * Unit \in Nat /\ passed * Refill \in Nat
    BY <2>1, <2>2, ProductIsNat, RateAssumption
  <2> QED
    BY <2>1, <2>3 DEF LimiterInv, Ledger, GrantedIsBounded
<1> QED
  BY <1>1, LimiterInitInv, LimiterStepInv, PTL DEF LimiterSpec

=============================================================================
