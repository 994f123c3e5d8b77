------------------------------- MODULE EventFeed -------------------------------
(***************************************************************************)
(* Snapshot and tail (core/use_cases/events.py): a subscriber takes a      *)
(* snapshot with its watermark, then asks for the events after it, page by *)
(* page, until it has reached the head, and comes back for more.  The      *)
(* controller answers with several reads one after the other, between      *)
(* which changes go on.                                                    *)
(*                                                                         *)
(* The subscriber is the one docs/integrations/testum.md describes (4.3);  *)
(* what it knows is the set of changes its state reflects.  Changes are to *)
(* networks and nodes, the resources a snapshot has.                       *)
(***************************************************************************)
EXTENDS Outbox

CONSTANTS
    NetworkKinds,   \* the kinds of change to networks; the others are to nodes
    PageLimit,
    MaxResyncs      \* bound on the cold starts of the subscriber after the first

ASSUME FeedAssumption ==
    NetworkKinds \subseteq Kinds /\ PageLimit \in Positive /\ MaxResyncs \in Nat

\* Where the request of the subscriber stands, or how its last one ended.
FeedStates ==
    [at : {"cold", "tail", "caughtUp"}]
        \cup [at : {"networks", "nodes"}, watermark : Nat, read : SUBSET Positive]
        \cup [at : {"page"}, head : Nat]

VARIABLES
    feed,
    cursor, known,  \* of the subscriber
    resyncs,        \* bound
    promised        \* history: events published when the head was last read

feedVars == <<saved, writer, nextId, outbox, feed, cursor, known, resyncs, promised>>

FeedTypeOK ==
    /\ OutboxTypeOK
    /\ feed \in FeedStates
    /\ cursor \in Nat /\ known \subseteq Positive
    /\ resyncs \in Nat
    /\ promised \subseteq Events

FeedInit ==
    /\ OutboxInit
    /\ feed = [at |-> "cold"]
    /\ cursor = 0 /\ known = {}
    /\ resyncs = 0 /\ promised = {}

ChangesOf(kinds) == {c \in 1..Len(saved) : saved[c] \in kinds}

-----------------------------------------------------------------------------
(* GET /events/snapshot: ExportSnapshot.execute *)

ReadWatermark ==
    /\ feed.at = "cold"
    /\ \E h \in Heads : feed' = [at |-> "networks", watermark |-> h, read |-> {}]
    /\ UNCHANGED <<outboxVars, cursor, known, resyncs, promised>>

ListNetworks ==
    /\ feed.at = "networks"
    /\ feed' = [at |-> "nodes", watermark |-> feed.watermark, read |-> ChangesOf(NetworkKinds)]
    /\ UNCHANGED <<outboxVars, cursor, known, resyncs, promised>>

\* Mutant: the watermark is read after the repositories.
ListNodesThenHead ==
    /\ feed.at = "nodes"
    /\ known' = feed.read \cup ChangesOf(Kinds \ NetworkKinds)
    /\ cursor' \in Heads
    /\ feed' = [at |-> "tail"]
    /\ UNCHANGED <<outboxVars, resyncs, promised>>

\* The answer: the subscriber starts from it.
ListNodes ==
    /\ feed.at = "nodes"
    /\ known' = feed.read \cup ChangesOf(Kinds \ NetworkKinds)
    /\ cursor' = feed.watermark
    /\ feed' = [at |-> "tail"]
    /\ UNCHANGED <<outboxVars, resyncs, promised>>

-----------------------------------------------------------------------------
(* GET /events?since=: ListEvents.execute *)

ReadEventsHead ==
    /\ feed.at \in {"tail", "caughtUp"}
    /\ \E h \in Heads : feed' = [at |-> "page", head |-> h]
    /\ promised' = outbox
    /\ UNCHANGED <<outboxVars, cursor, known, resyncs>>

\* The answer: the subscriber applies the page and has caught up when it is at
\* the head that came with it.
ListSince ==
    /\ feed.at = "page"
    /\ \E page \in SUBSET outbox, c \in {cursor} \cup {e.id : e \in outbox} :
         /\ IsPage(page, cursor, PageLimit)
         /\ c \in {cursor} \cup {e.id : e \in page} /\ \A e \in page : e.id <= c
         /\ known' = known \cup {e.change : e \in page}
         /\ cursor' = c
         /\ feed' = [at |-> IF c >= feed.head THEN "caughtUp" ELSE "tail"]
    /\ UNCHANGED <<outboxVars, resyncs, promised>>

Read == ReadWatermark \/ ListNetworks \/ ListNodes \/ ReadEventsHead \/ ListSince

\* The answer is lost, or the subscriber starts afresh.
Resync ==
    /\ resyncs < MaxResyncs /\ resyncs' = resyncs + 1
    /\ feed' = [at |-> "cold"]
    /\ UNCHANGED <<outboxVars, cursor, known, promised>>

FeedNext ==
    \/ Read \/ Resync
    \/ \E w \in Writers : Write(w) /\ UNCHANGED <<feed, cursor, known, resyncs, promised>>

FeedSpec == FeedInit /\ [][FeedNext]_feedVars

\* The subscriber keeps asking.
FairFeedSpec == FeedSpec /\ WF_feedVars(Read)

-----------------------------------------------------------------------------
(* Properties *)

\* "Подписчик никогда не пропустит событие" (events.py:14): the subscriber knows
\* of every change whose event its cursor has passed.
NothingMissed == \A e \in outbox : e.id <= cursor => e.change \in known

\* "Если head_event_id == last_item.event_id - testum догнал" (testum.md:303):
\* who has caught up knows what was published when it asked, although head and
\* page are two reads and the page may end before or after that head.
CaughtUpIsCurrent ==
    feed.at = "caughtUp" => \A e \in promised : e.change \in known

\* Polling gets there: what is published is known in the end and stays known.
PublishedBecomesKnown ==
    \A c \in 1..MaxChanges : (\E e \in outbox : e.change = c) ~> [](c \in known)

=============================================================================
