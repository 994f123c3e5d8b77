------------------------------ MODULE LockRow ------------------------------
(***************************************************************************)
(* One key of the apply lock store (ports/locks.py, adapters/locks.py):    *)
(* the row, or dictionary entry, that says who holds                       *)
(* "network:apply:<id>" and until when.  InMemoryLockStore (under a mutex) *)
(* and SqlLockStore (delete the expired row and insert, in one             *)
(* transaction) decide alike, so one set of operators stands for both.     *)
(* Keys never interact; one row is enough.                                 *)
(*                                                                         *)
(* A caller reads the clock BEFORE it gets the mutex or the transaction:   *)
(* every operator takes that reading as t, and t may lie in the past.      *)
(***************************************************************************)
EXTENDS Naturals

CONSTANTS
    Owners,     \* operation ids that may own the lock
    NoOwner,    \* the owner of a row that is not there
    TTL         \* _APPLY_LOCK_TTL_SECONDS, in ticks of the model's clock

ASSUME LockAssumption ==
    /\ NoOwner \notin Owners
    /\ TTL \in Nat \ {0}

FreeRow == [owner |-> NoOwner, expires |-> 0]
LockRows == [owner : Owners, expires : Nat] \cup {FreeRow}

\* Mutants: a row taken over a tick early; a row that never expires.
LiveTooShort(row, t) == row.owner # NoOwner /\ row.expires > t + 1
LiveForever(row, t) == row.owner # NoOwner

\* existing[1] > now; the SQL adapter keeps exactly the rows its DELETE spares.
Live(row, t) == row.owner # NoOwner /\ row.expires > t

\* The result of try_lock: free, expired, or already the caller's own.
Acquires(row, o, t) == ~Live(row, t) \/ row.owner = o

\* What try_lock leaves behind.  A live lock is never rewritten, not even by
\* its owner: asking again does not extend it.
AfterTryLock(row, o, t) ==
    IF Live(row, t) THEN row ELSE [owner |-> o, expires |-> t + TTL]

\* Mutant: release by any caller.
ReleaseAnyones(row, o) == FreeRow

\* release: only the owner's own row goes, expired or not.
AfterRelease(row, o) == IF row.owner = o THEN FreeRow ELSE row

\* current_owner: None once expired.
CurrentOwner(row, t) == IF Live(row, t) THEN row.owner ELSE NoOwner

=============================================================================
