----------------------------- MODULE Retention ------------------------------
(***************************************************************************)
(* The audit trail and its end: events recorded after each audited request *)
(* (core/use_cases/audit.py, adapters/http_api/audit_middleware.py), the   *)
(* retention sweep (core/use_cases/background.py) and the file archive     *)
(* (adapters/audit_archive.py), which by default is one that keeps nothing *)
(* (config.py:93).  Several replicas may sweep at once.                    *)
(*                                                                         *)
(* An event is its id; old says that its age has passed the cutoff.        *)
(***************************************************************************)
EXTENDS Repositories

CONSTANTS AuditIds, OperationIds, BatchSize

OldRows(t) == {i \in Ids(t) : Rows(t)[i].old}

\* Rows that list_before returns.
Batches ==
    {b \in SUBSET OldRows("audit") :
        \/ Cardinality(b) = BatchSize
        \/ b = OldRows("audit") /\ Cardinality(b) \in 1 .. BatchSize}

\* What the archive has when it has taken events: the noop archive burns them.
Archived(events) == IF files.backend = "file" THEN files.archive \cup events ELSE files.archive

\* Mutant: everything before the cutoff is deleted, not the batch.
DeletesBefore(batch) == DropAll("audit", OldRows("audit"))
DeletesMany(batch) == DropAll("audit", batch)

\* The middleware records it when the response is there; an id is drawn once.
RecordAudit ==
    \E e \in FreshIds("audit", AuditIds \ files.archive) :
        "audit" \in DOMAIN db /\ RunsThrough(<<Put("audit", e, [old |-> FALSE])>>)

\* An operation's row is written when it has ended.
OperationEnds ==
    \E o \in FreshIds("operations", OperationIds) :
        "operations" \in DOMAIN db /\ RunsThrough(<<Put("operations", o, [old |-> FALSE])>>)

TimePasses ==
    /\ \E t \in {"audit", "operations"} \cap DOMAIN db : Ids(t) # OldRows(t)
    /\ db' = [t \in DOMAIN db |->
                IF t \in {"audit", "operations"} THEN [i \in Ids(t) |-> [old |-> TRUE]] ELSE db[t]]
    /\ UNCHANGED <<req, asked, late, files>>

\* A pass begins with the operations, in one statement.
SweepOperations == RunsThrough(<<DropAll("operations", OldRows("operations"))>>)

\* One turn of the loop: the batch is given to the archive and then deleted.
ArchiveBatch ==
    \E batch \in Batches :
        /\ asked < MaxAsked /\ asked' = asked + 1
        /\ files' = [files EXCEPT !.archive = Archived(batch)]
        /\ \E q \in Requests :
             /\ req[q] = Idle
             /\ req' = [req EXCEPT ![q] =
                  [reads |-> {}, work |-> <<DeletesMany(batch)>>, overtaken |-> FALSE]]
        /\ UNCHANGED <<db, late>>

\* A file is written for each day; one of them fails and the pass is over.
ArchiveFails ==
    \E batch \in Batches : \E done \in SUBSET batch :
        /\ files.backend = "file" /\ done # batch
        /\ files' = [files EXCEPT !.archive = @ \cup done]
        /\ UNCHANGED <<db, req, asked, late>>

RetentionNext ==
    \/ RecordAudit \/ OperationEnds \/ TimePasses
    \/ SweepOperations \/ ArchiveBatch \/ ArchiveFails

-----------------------------------------------------------------------------
(* Properties. *)

\* Where a file archive is configured, what leaves the audit table is in it: with
\* batches, passes of two replicas at once, an archive that fails in the middle of
\* a batch and a process that stops before it deletes one (background.py:210).
\* Nothing is said of the default, which keeps no event that a sweep deletes.
NothingForgotten ==
    [][files.backend = "file" =>
         \A e \in Ids("audit") \ Ids("audit")' : e \in files.archive]_storeVars

=============================================================================
