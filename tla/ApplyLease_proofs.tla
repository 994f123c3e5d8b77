-------------------------- MODULE ApplyLease_proofs --------------------------
(***************************************************************************)
(* Mutual exclusion of current leases, for any set of operations, any TTL  *)
(* and any length of time.                                                 *)
(*                                                                         *)
(* LeaseExclusive alone is not inductive: that two leases never overlap    *)
(* rests on LeaseBacked (a current lease IS the row), on AskedInPast (a     *)
(* clock reading is never ahead of the clock, so a row expired at the      *)
(* reading is expired now) and on OwnedAfterTake (operation ids are fresh: *)
(* no row names an operation that has not got the lock yet, so the "our    *)
(* own lock" answer of try_lock never grants a lease shorter than TTL).    *)
(***************************************************************************)
EXTENDS ApplyLease, TLAPS

AskedInPast == \A o \in Owners : asked[o] <= now

OwnedAfterTake ==
    \A o \in Owners : phase[o] \in {"idle", "asking"} => row.owner # o

LeaseInv == LeaseTypeOK /\ AskedInPast /\ OwnedAfterTake /\ LeaseBacked

(* The invariant holds initially. *)
LEMMA LeaseInitInv == LeaseInit => LeaseInv
BY LockAssumption DEF LeaseInit, LeaseInv, LeaseTypeOK, AskedInPast, LeaseBacked,
   Current, LockRows, FreeRow, Phases, OwnedAfterTake

(* try_lock keeps the types: the row it leaves is a row. *)
LEMMA TryLockType ==
    ASSUME NEW r \in LockRows, NEW o \in Owners, NEW t \in Nat
    PROVE  AfterTryLock(r, o, t) \in LockRows
BY LockAssumption DEF AfterTryLock, LockRows

(* release keeps the types. *)
LEMMA ReleaseType ==
    ASSUME NEW r \in LockRows, NEW o \in Owners
    PROVE  AfterRelease(r, o) \in LockRows
BY DEF AfterRelease, LockRows

(* Every step of the lease protocol preserves the invariant. *)
LEMMA LeaseStepInv == LeaseInv /\ [LeaseNext]_leaseVars => LeaseInv'
<1> SUFFICES ASSUME LeaseInv, [LeaseNext]_leaseVars
             PROVE  LeaseInv'
  OBVIOUS
<1> USE LockAssumption, MaxTimeAssumption DEF LeaseInv, LeaseTypeOK, AskedInPast, OwnedAfterTake
<1>1. CASE Tick
  BY <1>1 DEF Tick, LeaseBacked, Current
<1>2. ASSUME NEW o \in Owners, Ask(o)
      PROVE  LeaseInv'
  <2>1. LeaseTypeOK' /\ AskedInPast' /\ OwnedAfterTake'
    BY <1>2 DEF Ask, Phases
  <2>2. \A p \in Owners : Current(p)' => p # o /\ Current(p)
    BY <1>2 DEF Ask, Current
  <2>3. LeaseBacked'
    BY <1>2, <2>2 DEF Ask, LeaseBacked
  <2> QED
    BY <2>1, <2>3
<1>3. ASSUME NEW o \in Owners, Take(o)
      PROVE  LeaseInv'
  <2>1. LeaseTypeOK' /\ AskedInPast'
    BY <1>3, TryLockType DEF Take, Phases
  <2>0. OwnedAfterTake'
    BY <1>3 DEF Take, AfterTryLock
  <2>2. ASSUME NEW p \in Owners, Current(p)'
        PROVE  row' = [owner |-> p, expires |-> asked'[p] + TTL]
    <3>1. CASE p = o
      <4>1. CASE Live(row, asked[o])
        BY <1>3, <4>1 DEF Take, Acquires
      <4>2. CASE ~Live(row, asked[o])
        BY <1>3, <3>1, <4>2 DEF Take, AfterTryLock
      <4> QED
        BY <4>1, <4>2
    <3>2. CASE p # o
      <4>1. Current(p)
        BY <1>3, <2>2, <3>2 DEF Take, Current
      <4>2. row = [owner |-> p, expires |-> asked[p] + TTL]
        BY <4>1 DEF LeaseBacked
      <4>3. Live(row, asked[o])
        BY <4>1, <4>2 DEF Live, Current
      <4> QED
        BY <1>3, <4>2, <4>3, <3>2 DEF Take, Acquires
    <3> QED
      BY <3>1, <3>2
  <2> QED
    BY <2>0, <2>1, <2>2 DEF LeaseBacked
<1>4. ASSUME NEW o \in Owners, Refuse(o)
      PROVE  LeaseInv'
  BY <1>4 DEF Refuse, LeaseBacked, Current, Phases
<1>5. ASSUME NEW o \in Owners, Release(o)
      PROVE  LeaseInv'
  <2>1. LeaseTypeOK' /\ AskedInPast'
    BY <1>5, ReleaseType DEF Release, Phases
  <2>0. OwnedAfterTake'
    BY <1>5 DEF Release, AfterRelease, FreeRow
  <2>2. \A p \in Owners : Current(p)' => p # o /\ Current(p)
    BY <1>5 DEF Release, Current
  <2>3. LeaseBacked'
    BY <1>5, <2>2 DEF Release, LeaseBacked, AfterRelease
  <2> QED
    BY <2>0, <2>1, <2>3
<1>6. ASSUME NEW o \in Owners, Die(o)
      PROVE  LeaseInv'
  BY <1>6 DEF Die, LeaseBacked, Current, Phases
<1>7. CASE UNCHANGED leaseVars
  BY <1>7 DEF leaseVars, LeaseBacked, Current
<1> QED
  BY <1>1, <1>2, <1>3, <1>4, <1>5, <1>6, <1>7 DEF LeaseNext

(* The types of the lock store and of its callers, as an invariant of the    *)
(* lease protocol (adapters/locks.py).                                       *)
THEOREM LeaseTypeCorrect == LeaseSpec => []LeaseTypeOK
<1>1. LeaseInv => LeaseTypeOK
  BY DEF LeaseInv
<1> QED
  BY <1>1, LeaseInitInv, LeaseStepInv, PTL DEF LeaseSpec

(* A lease that has not run out is the row in the store: no late release and *)
(* no stale clock reading can take it away (adapters/locks.py:49, 83).       *)
THEOREM LeaseAlwaysBacked == LeaseSpec => []LeaseBacked
<1>1. LeaseInv => LeaseBacked
  BY DEF LeaseInv
<1> QED
  BY <1>1, LeaseInitInv, LeaseStepInv, PTL DEF LeaseSpec

(* Mutual exclusion: two operations never both hold a lease that has not run *)
(* out, whatever the interleaving of clock readings, store transactions,     *)
(* crashes and late releases (ports/locks.py:3-7).                           *)
THEOREM LeaseMutualExclusion == LeaseSpec => []LeaseExclusive
<1>1. LeaseInv => LeaseExclusive
  BY DEF LeaseInv, LeaseBacked, LeaseExclusive
<1> QED
  BY <1>1, LeaseInitInv, LeaseStepInv, PTL DEF LeaseSpec

(* A live row leaves the store only by its owner's own release.              *)
THEOREM LiveLeaseEndsByOwner == LeaseSpec => OnlyOwnerEndsLiveLease
<1> DEFINE Kept == \A o \in Owners :
                     row.owner = o /\ Live(row, now) /\ row' # row
                        => phase[o] = "holding" /\ phase'[o] = "done"
<1>1. LeaseInv /\ [LeaseNext]_leaseVars => Kept
  <2> SUFFICES ASSUME LeaseInv, [LeaseNext]_leaseVars,
                      NEW o \in Owners, row.owner = o, Live(row, now), row' # row
               PROVE  phase[o] = "holding" /\ phase'[o] = "done"
    OBVIOUS
  <2>1. PICK p \in Owners : Take(p) \/ Release(p)
    BY DEF LeaseNext, leaseVars, Tick, Ask, Refuse, Die
  <2>2. CASE Take(p)
    <3>1. row.expires > asked[p]
      BY LockAssumption DEF LeaseInv, LeaseTypeOK, AskedInPast, Live, LockRows, FreeRow
    <3> QED
      BY <2>2, <3>1 DEF Take, AfterTryLock, Live
  <2>3. CASE Release(p)
    BY <2>3 DEF Release, AfterRelease, LeaseInv, LeaseTypeOK
  <2> QED
    BY <2>1, <2>2, <2>3
<1>2. LeaseInv /\ [LeaseNext]_leaseVars => [Kept]_leaseVars
  BY <1>1
<1> QED
  BY <1>2, LeaseInitInv, LeaseStepInv, PTL DEF LeaseSpec, OnlyOwnerEndsLiveLease

=============================================================================
