----------------------------- MODULE ApplyLease -----------------------------
(***************************************************************************)
(* What the apply lock promises to the operations that take it.            *)
(*                                                                         *)
(* Every ApplyNetwork.execute is one owner (its operation id is fresh, so  *)
(* an owner asks once).  It reads the clock, waits for the store, gets the *)
(* lock or a 409, works, and releases in a `finally`; its process may die  *)
(* anywhere, leaving the row to its TTL.  Nothing tells a slow holder that *)
(* its lease ran out: "holding" is the code's belief, and Current is the   *)
(* part of it the store backs.                                             *)
(*                                                                         *)
(* ApplyNetwork implements this specification.                             *)
(***************************************************************************)
EXTENDS LockRow

CONSTANT MaxTime    \* bound on the clock

ASSUME MaxTimeAssumption == MaxTime \in Nat

VARIABLES
    now,        \* the wall clock
    row,        \* the lock row of this network
    phase,      \* where each owner is with the lock
    asked       \* the clock reading each owner took before the mutex

leaseVars == <<now, row, phase, asked>>

Phases == {"idle", "asking", "holding", "refused", "done", "crashed"}

LeaseTypeOK ==
    /\ now \in Nat
    /\ row \in LockRows
    /\ phase \in [Owners -> Phases]
    /\ asked \in [Owners -> Nat]

LeaseInit ==
    /\ now = 0
    /\ row = FreeRow
    /\ phase = [o \in Owners |-> "idle"]
    /\ asked = [o \in Owners |-> 0]

\* now = self._clock.now(), then await the mutex or the session.  Requests stop
\* TTL ticks before the end of the bounded clock, so every lease can run out.
Ask(o) ==
    /\ phase[o] = "idle"
    /\ now + TTL <= MaxTime
    /\ phase' = [phase EXCEPT ![o] = "asking"]
    /\ asked' = [asked EXCEPT ![o] = now]
    /\ UNCHANGED <<now, row>>

Take(o) ==
    /\ phase[o] = "asking"
    /\ Acquires(row, o, asked[o])
    /\ row' = AfterTryLock(row, o, asked[o])
    /\ phase' = [phase EXCEPT ![o] = "holding"]
    /\ UNCHANGED <<now, asked>>

Refuse(o) ==
    /\ phase[o] = "asking"
    /\ ~Acquires(row, o, asked[o])
    /\ phase' = [phase EXCEPT ![o] = "refused"]
    /\ UNCHANGED <<now, row, asked>>

Release(o) ==
    /\ phase[o] = "holding"
    /\ row' = AfterRelease(row, o)
    /\ phase' = [phase EXCEPT ![o] = "done"]
    /\ UNCHANGED <<now, asked>>

\* The process dies, or the task is cancelled so that the await in the
\* `finally` raises instead of releasing.
Die(o) ==
    /\ phase[o] \in {"idle", "asking", "holding"}
    /\ phase' = [phase EXCEPT ![o] = "crashed"]
    /\ UNCHANGED <<now, row, asked>>

Tick ==
    /\ now < MaxTime
    /\ now' = now + 1
    /\ UNCHANGED <<row, phase, asked>>

LeaseNext ==
    \/ Tick
    \/ \E o \in Owners : Ask(o) \/ Take(o) \/ Refuse(o) \/ Release(o) \/ Die(o)

LeaseSpec == LeaseInit /\ [][LeaseNext]_leaseVars

\* Only the passing of time is fair: nothing obliges a holder to release.
LeaseFairSpec == LeaseSpec /\ WF_leaseVars(Tick)

-----------------------------------------------------------------------------
(* Properties *)

\* The lease o's try_lock granted has not run out yet.
Current(o) == phase[o] = "holding" /\ now < asked[o] + TTL

\* At most one operation holds a lease that has not run out, although clocks
\* are read before the mutex, expired rows are overwritten and late holders
\* release rows that are no longer theirs (ports/locks.py, "Контракт").
LeaseExclusive == \A o, p \in Owners : Current(o) /\ Current(p) => o = p

\* The lease a holder relies on is the row in the store: nobody's late release
\* and nobody's stale clock reading took it away (adapters/locks.py:49, 83).
LeaseBacked ==
    \A o \in Owners : Current(o) => row = [owner |-> o, expires |-> asked[o] + TTL]

\* A live row leaves the store only when its owner releases it: a release by
\* another operation, or a try_lock with an older clock reading, never does.
OnlyOwnerEndsLiveLease ==
    [][\A o \in Owners :
          row.owner = o /\ Live(row, now) /\ row' # row
             => phase[o] = "holding" /\ phase'[o] = "done"]_leaseVars

\* A crashed holder never locks a network for good: its row stops being live,
\* "TTL нужен, чтобы зависший процесс не залочил сеть навсегда".
CrashedLeaseEnds ==
    \A o \in Owners :
       phase[o] = "crashed" ~> ~(row.owner = o /\ Live(row, now))

=============================================================================
