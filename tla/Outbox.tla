-------------------------------- MODULE Outbox --------------------------------
(***************************************************************************)
(* The event journal.  Every mutating use case saves its resource and then *)
(* publishes an event (core/services/event_publisher.py): two commits, the *)
(* second of them an insert whose event_id is drawn when the insert is     *)
(* executed and whose row is seen by others when the transaction commits.  *)
(* In memory and on SQLite inserts exclude each other; on Postgres several *)
(* may be between the two (adapters/sql/repositories.py:735).              *)
(*                                                                         *)
(* A change is its number; of its event is kept the kind of resource or    *)
(* type that subscriptions filter on.                                      *)
(***************************************************************************)
EXTENDS Naturals, Sequences, FiniteSets

CONSTANTS
    Writers,        \* requests that change something, in flight at once
    Kinds,          \* kinds of change
    Idle,           \* a process with nothing to do
    SerialInserts,  \* inserts exclude each other
    MaxChanges      \* bound on the changes made

ASSUME OutboxAssumption == SerialInserts \in BOOLEAN /\ MaxChanges \in Nat

Positive == Nat \ {0}
Events == [id : Positive, change : Positive]

\* What a request carries from the save to the commit of its event.
WriterStates ==
    {Idle} \cup [at : {"saved"}, change : Positive]
           \cup [at : {"inserting"}, change : Positive, id : Positive]

VARIABLES
    saved,      \* kinds of the changes saved so far, in their order
    writer,
    nextId,     \* the autoincrement
    outbox      \* committed rows of outbox_events

outboxVars == <<saved, writer, nextId, outbox>>

OutboxTypeOK ==
    /\ saved \in Seq(Kinds)
    /\ writer \in [Writers -> WriterStates]
    /\ nextId \in Positive
    /\ outbox \subseteq Events

OutboxInit ==
    /\ saved = <<>>
    /\ writer = [w \in Writers |-> Idle]
    /\ nextId = 1
    /\ outbox = {}

WriterAt(w, step) == writer[w] # Idle /\ writer[w].at = step

\* head_event_id: max(event_id), 0 for an empty table.
IsHead(h) == \A e \in outbox : e.id <= h

\* Mutant: max of an empty table is not a number.
HeadsOrNone == IF outbox = {} THEN {Idle} ELSE {h \in {e.id : e \in outbox} : IsHead(h)}

Heads == {h \in {0} \cup {e.id : e \in outbox} : IsHead(h)}

\* Mutant: the limit without the order.
IsPageUnordered(page, since, limit) ==
    /\ \A e \in page : e \in outbox /\ e.id > since
    /\ Cardinality(page) <= limit
    /\ \A e \in outbox \ page : e.id > since => Cardinality(page) = limit

\* Mutant: the event at the watermark is sent again.
IsPageInclusive(page, since, limit) ==
    /\ \A e \in page : e \in outbox /\ e.id >= since
    /\ Cardinality(page) <= limit
    /\ \A e \in outbox \ page : e.id >= since =>
          Cardinality(page) = limit /\ \A p \in page : p.id < e.id

\* list_since: the oldest `limit` rows after `since`.
IsPage(page, since, limit) ==
    /\ \A e \in page : e \in outbox /\ e.id > since
    /\ Cardinality(page) <= limit
    /\ \A e \in outbox \ page : e.id > since =>
          Cardinality(page) = limit /\ \A p \in page : p.id < e.id

\* The use case saves its resource.
Save(w, kind) ==
    /\ writer[w] = Idle
    /\ Len(saved) < MaxChanges
    /\ saved' = Append(saved, kind)
    /\ writer' = [writer EXCEPT ![w] = [at |-> "saved", change |-> Len(saved) + 1]]
    /\ UNCHANGED <<nextId, outbox>>

\* publish: the insert draws the event_id.
DrawId(w) ==
    /\ WriterAt(w, "saved")
    /\ SerialInserts => \A v \in Writers : ~WriterAt(v, "inserting")
    /\ writer' = [writer EXCEPT ![w] =
                     [at |-> "inserting", change |-> writer[w].change, id |-> nextId]]
    /\ nextId' = nextId + 1
    /\ UNCHANGED <<saved, outbox>>

CommitEvent(w) ==
    /\ WriterAt(w, "inserting")
    /\ outbox' = outbox \cup {[id |-> writer[w].id, change |-> writer[w].change]}
    /\ writer' = [writer EXCEPT ![w] = Idle]
    /\ UNCHANGED <<saved, nextId>>

\* The insert fails or the process dies between the two commits: the change
\* stands and its event is lost.
LoseEvent(w) ==
    /\ writer[w] # Idle
    /\ writer' = [writer EXCEPT ![w] = Idle]
    /\ UNCHANGED <<saved, nextId, outbox>>

Write(w) == (\E kind \in Kinds : Save(w, kind)) \/ DrawId(w) \/ CommitEvent(w) \/ LoseEvent(w)

=============================================================================
