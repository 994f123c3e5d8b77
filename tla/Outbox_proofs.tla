---------------------------- MODULE Outbox_proofs ----------------------------
(***************************************************************************)
(* The outbox and its two readers, for any number of writers.              *)
(*                                                                         *)
(* What a write does to the outbox, for every reader of it: event ids are  *)
(* unique, every event is of a saved change, and where inserts exclude     *)
(* each other an event that appears is newer than all that were visible.   *)
(***************************************************************************)
EXTENDS EventFeed, Webhooks, TLAPS

Inserting(w) == WriterAt(w, "inserting")

\* Ids that were drawn are below the next one and differ from each other;
\* changes are numbers of saved ones.
OutboxInv ==
    /\ \A e \in outbox : e.id < nextId /\ e.change <= Len(saved)
    /\ \A e, f \in outbox : e.id = f.id => e = f
    /\ \A w \in Writers : writer[w] # Idle => writer[w].change <= Len(saved)
    /\ \A w \in Writers : Inserting(w) =>
          /\ writer[w].id < nextId
          /\ \A e \in outbox : e.id # writer[w].id
          /\ \A v \in Writers : v # w /\ Inserting(v) => writer[v].id # writer[w].id

\* With serial inserts the one under way has the largest id of all.
SerialInv ==
    \A w \in Writers : Inserting(w) =>
        /\ \A v \in Writers : Inserting(v) => v = w
        /\ \A e \in outbox : e.id < writer[w].id

\* The empty outbox is in order.
LEMMA OutboxStarts == OutboxInit => OutboxTypeOK /\ OutboxInv /\ SerialInv
  BY DEF OutboxInit, OutboxTypeOK, OutboxInv, SerialInv, Positive, WriterStates, Inserting,
         WriterAt

\* Writers keep the types.
LEMMA WriteType ==
  ASSUME OutboxTypeOK, NEW w \in Writers, Write(w)
  PROVE  OutboxTypeOK'
<1> USE DEF OutboxTypeOK, Positive, WriterStates, Events
<1>1. ASSUME NEW kind \in Kinds, Save(w, kind) PROVE OutboxTypeOK'
  BY <1>1 DEF Save
<1>2. CASE DrawId(w)
  BY <1>2 DEF DrawId, WriterAt
<1>3. CASE CommitEvent(w)
  BY <1>3 DEF CommitEvent, WriterAt
<1>4. CASE LoseEvent(w)
  BY <1>4 DEF LoseEvent
<1> QED BY <1>1, <1>2, <1>3, <1>4 DEF Write

\* Writers keep the outbox in order, and do not touch what is saved.
LEMMA WriteKeepsOrder ==
  ASSUME OutboxTypeOK, OutboxInv, NEW w \in Writers, Write(w)
  PROVE  /\ OutboxInv'
         /\ \A c \in 1..Len(saved) : saved'[c] = saved[c]
         /\ Len(saved) \in Nat /\ Len(saved') \in Nat /\ Len(saved) <= Len(saved')
         /\ outbox \subseteq outbox'
<1> USE DEF OutboxTypeOK, OutboxInv, Positive, Events, WriterStates, Inserting, WriterAt
<1>1. ASSUME NEW kind \in Kinds, Save(w, kind)
      PROVE  /\ OutboxInv'
             /\ \A c \in 1..Len(saved) : saved'[c] = saved[c]
             /\ Len(saved) \in Nat /\ Len(saved') \in Nat /\ Len(saved) <= Len(saved')
             /\ outbox \subseteq outbox'
  <2>1. Len(saved) \in Nat /\ Len(saved') = Len(saved) + 1 /\ outbox' = outbox
    BY <1>1 DEF Save
  <2>2. \A c \in 1..Len(saved) : saved'[c] = saved[c]
    BY <1>1 DEF Save
  <2>3. \A e \in outbox' : e.id < nextId' /\ e.change <= Len(saved')
    BY <1>1, <2>1 DEF Save
  <2>4. \A v \in Writers : writer'[v] # Idle => writer'[v].change <= Len(saved')
    BY <1>1, <2>1 DEF Save
  <2>5. \A v \in Writers : Inserting(v)' => v # w /\ Inserting(v) /\ writer'[v] = writer[v]
    BY <1>1 DEF Save
  <2>6. \A v \in Writers : Inserting(v)' =>
          /\ writer'[v].id < nextId'
          /\ \A e \in outbox' : e.id # writer'[v].id
          /\ \A u \in Writers : u # v /\ Inserting(u)' => writer'[u].id # writer'[v].id
    BY <1>1, <2>1, <2>5 DEF Save
  <2> QED BY <2>1, <2>2, <2>3, <2>4, <2>6 DEF OutboxInv
<1>2. CASE DrawId(w)
  <2>1. \A v \in Writers : v # w => writer'[v] = writer[v]
    BY <1>2 DEF DrawId
  <2>2. writer'[w].id = nextId /\ writer'[w].change = writer[w].change /\ nextId' = nextId + 1
    BY <1>2 DEF DrawId
  <2>3. \A v \in Writers : Inserting(v) => writer[v].id \in Positive
    OBVIOUS
  <2>4. \A v \in Writers : Inserting(v)' =>
          /\ writer'[v].id < nextId'
          /\ \A e \in outbox' : e.id # writer'[v].id
          /\ \A u \in Writers : u # v /\ Inserting(u)' => writer'[u].id # writer'[v].id
    BY <1>2, <2>1, <2>2, <2>3 DEF DrawId
  <2> QED BY <1>2, <2>1, <2>2, <2>4 DEF DrawId
<1>3. CASE CommitEvent(w)
  <2>1. \A v \in Writers : Inserting(v)' => v # w /\ Inserting(v) /\ writer'[v] = writer[v]
    BY <1>3 DEF CommitEvent
  <2>2. PICK n : n = [id |-> writer[w].id, change |-> writer[w].change]
    OBVIOUS
  <2>3. /\ outbox' = outbox \cup {n} /\ n.id < nextId /\ n.change <= Len(saved)
        /\ \A e \in outbox : e.id # n.id
        /\ \A v \in Writers : v # w /\ Inserting(v) => writer[v].id # n.id
    BY <1>3, <2>2 DEF CommitEvent
  <2> QED BY <1>3, <2>1, <2>3 DEF CommitEvent
<1>4. CASE LoseEvent(w)
  BY <1>4 DEF LoseEvent
<1> QED BY <1>1, <1>2, <1>3, <1>4 DEF Write

\* Where inserts exclude each other what appears is newer than what was there.
LEMMA SerialWrite ==
  ASSUME SerialInserts, OutboxTypeOK, OutboxInv, SerialInv, NEW w \in Writers, Write(w)
  PROVE  /\ SerialInv'
         /\ \A e \in outbox' \ outbox : \A f \in outbox : f.id < e.id
<1> USE DEF OutboxTypeOK, OutboxInv, SerialInv, Positive, Events, WriterStates, Inserting,
            WriterAt
<1>1. ASSUME NEW kind \in Kinds, Save(w, kind)
      PROVE  SerialInv' /\ outbox' = outbox
  BY <1>1 DEF Save
<1>2. CASE DrawId(w)
  <2>1. \A v \in Writers : ~Inserting(v)
    BY <1>2 DEF DrawId
  <2>2. \A v \in Writers : Inserting(v)' => v = w
    BY <1>2, <2>1 DEF DrawId
  <2> QED BY <1>2, <2>2 DEF DrawId
<1>3. CASE CommitEvent(w)
  <2>1. \A v \in Writers : ~Inserting(v)'
    BY <1>3 DEF CommitEvent
  <2> QED BY <1>3, <2>1 DEF CommitEvent
<1>4. CASE LoseEvent(w)
  BY <1>4 DEF LoseEvent
<1> QED BY <1>1, <1>2, <1>3, <1>4 DEF Write

\* A watermark that some reader has: 0, or no larger than a visible id.
Reached(h) == h = 0 \/ \E e \in outbox : h <= e.id

\* What appears is beyond every watermark a reader has.
LEMMA NewIsBeyond ==
  ASSUME SerialInserts, OutboxTypeOK, OutboxInv, SerialInv, NEW w \in Writers, Write(w),
         NEW h \in Nat, Reached(h)
  PROVE  Reached(h)' /\ \A e \in outbox' : e.id <= h => e \in outbox
<1>1. /\ outbox \subseteq outbox'
      /\ \A e \in outbox' \ outbox : \A f \in outbox : f.id < e.id
  BY WriteKeepsOrder, SerialWrite
<1>2. \A e \in outbox' : e.id \in Nat \ {0}
  BY WriteType DEF OutboxTypeOK, Events, Positive
<1> QED BY <1>1, <1>2 DEF Reached

\* The head of the outbox is such a watermark.
LEMMA HeadIsReached ==
  ASSUME OutboxTypeOK, NEW h \in Heads
  PROVE  h \in Nat /\ Reached(h)
  BY DEF Heads, Reached, OutboxTypeOK, Events, Positive

------------------------------------------------------------------------------
(***************************************************************************)
(* A subscriber that follows snapshot and tail misses nothing, for any     *)
(* number of writers, pages of any size and any number of cold starts, as  *)
(* long as inserts exclude each other.                                     *)
(*                                                                         *)
(* FeedInv strengthens NothingMissed by what a snapshot half taken already *)
(* owes, and by Reached: a watermark is the id of an event that is visible *)
(* (or 0), so an event that appears later lies beyond it.                  *)
(***************************************************************************)

\* The list of networks, once read, reflects every change to one behind the
\* watermark.
SnapshotSoFar ==
    feed.at = "nodes" =>
        \A e \in outbox : e.id <= feed.watermark /\ saved[e.change] \in NetworkKinds
            => e.change \in feed.read

FeedInv ==
    /\ FeedTypeOK
    /\ OutboxInv /\ SerialInv
    /\ NothingMissed
    /\ Reached(cursor)
    /\ feed.at \in {"networks", "nodes"} => Reached(feed.watermark)
    /\ SnapshotSoFar

\* The types of the feed are kept by the reads of the subscriber.
LEMMA ReadType ==
  ASSUME FeedTypeOK, Read \/ Resync
  PROVE  FeedTypeOK'
<1> USE FeedAssumption, OutboxAssumption DEF FeedTypeOK, OutboxTypeOK, Positive, Events, outboxVars
<1>0. \A h \in Heads : h \in Nat
  BY DEF Heads
<1>1. CASE ReadWatermark
  BY <1>0, <1>1 DEF ReadWatermark, FeedStates
<1>2. CASE ListNetworks
  <2>1. ChangesOf(NetworkKinds) \subseteq Positive
    BY DEF ChangesOf
  <2>2. feed \in [at : {"networks", "nodes"}, watermark : Nat, read : SUBSET Positive]
    BY <1>2 DEF ListNetworks, FeedStates
  <2> QED BY <1>2, <2>1, <2>2 DEF ListNetworks, FeedStates
<1>3. CASE ListNodes
  <2>1. ChangesOf(Kinds \ NetworkKinds) \subseteq Positive
    BY DEF ChangesOf
  <2>2. feed \in [at : {"networks", "nodes"}, watermark : Nat, read : SUBSET Positive]
    BY <1>3 DEF ListNodes, FeedStates
  <2> QED BY <1>3, <2>1, <2>2 DEF ListNodes, FeedStates
<1>4. CASE ReadEventsHead
  BY <1>0, <1>4 DEF ReadEventsHead, FeedStates
<1>5. CASE ListSince
  <2>1. PICK page \in SUBSET outbox, c \in {cursor} \cup {e.id : e \in outbox} :
          /\ known' = known \cup {e.change : e \in page}
          /\ cursor' = c
          /\ feed' = [at |-> IF c >= feed.head THEN "caughtUp" ELSE "tail"]
    BY <1>5 DEF ListSince
  <2>2. \A e \in outbox : e.id \in Nat /\ e.change \in Nat \ {0}
    OBVIOUS
  <2>3. known' \subseteq Positive /\ cursor' \in Nat
    BY <2>1, <2>2
  <2>4. feed' \in FeedStates
    BY <2>1 DEF FeedStates
  <2> QED BY <1>5, <2>3, <2>4 DEF ListSince
<1>6. CASE Resync
  BY <1>6 DEF Resync, FeedStates
<1> QED BY <1>1, <1>2, <1>3, <1>4, <1>5, <1>6 DEF Read

\* Types hold in every behaviour.
THEOREM FeedTypeCorrect == FeedSpec => []FeedTypeOK
<1>1. FeedInit => FeedTypeOK
  BY OutboxStarts DEF FeedInit, FeedTypeOK, FeedStates
<1>2. FeedTypeOK /\ [FeedNext]_feedVars => FeedTypeOK'
  <2> SUFFICES ASSUME FeedTypeOK, [FeedNext]_feedVars PROVE FeedTypeOK'
    OBVIOUS
  <2>1. CASE Read \/ Resync
    BY <2>1, ReadType
  <2>2. ASSUME NEW w \in Writers, Write(w),
               UNCHANGED <<feed, cursor, known, resyncs, promised>>
        PROVE  FeedTypeOK'
    BY <2>2, WriteType DEF FeedTypeOK
  <2>3. CASE UNCHANGED feedVars
    BY <2>3 DEF feedVars, FeedTypeOK, OutboxTypeOK
  <2> QED BY <2>1, <2>2, <2>3 DEF FeedNext
<1> QED BY <1>1, <1>2, PTL DEF FeedSpec

\* Writers disturb nothing: what they publish is beyond every watermark.
LEMMA WriteKeepsFeed ==
  ASSUME SerialInserts, FeedInv, NEW w \in Writers, Write(w),
         UNCHANGED <<feed, cursor, known, resyncs, promised>>
  PROVE  FeedInv'
<1> USE DEF FeedInv, FeedTypeOK
<1>1. FeedTypeOK' /\ OutboxInv' /\ SerialInv'
  BY WriteType, WriteKeepsOrder, SerialWrite
<1>2. /\ outbox \subseteq outbox'
      /\ \A e \in outbox' \ outbox : \A f \in outbox : f.id < e.id
      /\ \A e \in outbox : saved'[e.change] = saved[e.change]
  BY WriteKeepsOrder, SerialWrite DEF OutboxInv, OutboxTypeOK, Events, Positive
<1>4. ASSUME NEW h \in Nat, Reached(h)
      PROVE  Reached(h)' /\ \A e \in outbox' : e.id <= h => e \in outbox
  BY <1>4, NewIsBeyond
<1>5. NothingMissed' /\ Reached(cursor)'
  BY <1>4 DEF NothingMissed
<1>6. feed.at \in {"networks", "nodes"} => feed.watermark \in Nat
  BY DEF FeedStates
<1>7. feed'.at \in {"networks", "nodes"} => Reached(feed.watermark)'
  BY <1>4, <1>6
<1>8. SnapshotSoFar'
  BY <1>2, <1>4, <1>6 DEF SnapshotSoFar
<1> QED BY <1>1, <1>5, <1>7, <1>8 DEF Reached

\* The reads of the subscriber keep the invariant.
LEMMA ReadKeepsFeed ==
  ASSUME FeedInv, Read \/ Resync
  PROVE  FeedInv'
<1> USE DEF FeedInv, outboxVars
<1>1. FeedTypeOK'
  BY ReadType
<1>2. OutboxInv' /\ SerialInv' /\ outbox' = outbox /\ saved' = saved
  BY DEF Read, Resync, ReadWatermark, ListNetworks, ListNodes, ReadEventsHead, ListSince,
         OutboxInv, SerialInv, Inserting, WriterAt
<1>3. \A e \in outbox : e.id \in Nat \ {0} /\ e.change \in 1..Len(saved)
                        /\ saved[e.change] \in Kinds
  BY DEF FeedTypeOK, OutboxTypeOK, OutboxInv, Events, Positive
<1>4. \A h \in Heads : Reached(h) /\ h \in Nat
  BY <1>3 DEF Heads, Reached
<1>5. cursor \in Nat
  BY DEF FeedTypeOK
<1>6. CASE ReadWatermark
  BY <1>1, <1>2, <1>4, <1>6 DEF ReadWatermark, NothingMissed, Reached, SnapshotSoFar
<1>7. CASE ListNetworks
  <2>1. feed \in [at : {"networks"}, watermark : Nat, read : SUBSET Positive]
    BY <1>7 DEF ListNetworks, FeedTypeOK, FeedStates
  <2>2. feed'.at = "nodes" /\ feed'.watermark = feed.watermark
        /\ feed'.read = ChangesOf(NetworkKinds)
    BY <1>7, <2>1 DEF ListNetworks
  <2>3. SnapshotSoFar'
    BY <1>2, <1>3, <2>2 DEF SnapshotSoFar, ChangesOf
  <2> QED BY <1>1, <1>2, <1>7, <2>1, <2>2, <2>3 DEF ListNetworks, NothingMissed, Reached
<1>8. CASE ListNodes
  <2>1. \A e \in outbox : e.id <= feed.watermark => e.change \in known'
    BY <1>3, <1>8 DEF ListNodes, SnapshotSoFar, ChangesOf
  <2> QED BY <1>1, <1>2, <1>8, <2>1 DEF ListNodes, NothingMissed, Reached, SnapshotSoFar
<1>9. CASE ReadEventsHead
  BY <1>1, <1>2, <1>9 DEF ReadEventsHead, NothingMissed, Reached, SnapshotSoFar
<1>10. CASE ListSince
  <2>1. PICK page \in SUBSET outbox, c \in {cursor} \cup {e.id : e \in outbox} :
          /\ IsPage(page, cursor, PageLimit)
          /\ c \in {cursor} \cup {e.id : e \in page} /\ \A e \in page : e.id <= c
          /\ known' = known \cup {e.change : e \in page}
          /\ cursor' = c
    BY <1>10 DEF ListSince
  <2>2. ASSUME NEW e \in outbox, e.id <= c PROVE e.change \in known'
    <3>1. CASE e.id <= cursor
      BY <2>1, <3>1 DEF NothingMissed
    <3>2. CASE e \in page
      BY <2>1, <3>2
    <3>3. CASE e.id > cursor /\ e \notin page
      <4>1. \A p \in page : p.id < e.id
        BY <2>1, <3>3 DEF IsPage
      <4>2. c \in {p.id : p \in page}
        BY <1>3, <1>5, <2>1, <2>2, <3>3
      <4>3. c \in Nat
        BY <1>3, <4>2
      <4> QED BY <1>3, <2>2, <4>1, <4>2, <4>3
    <3> QED BY <1>3, <1>5, <3>1, <3>2, <3>3
  <2>3. NothingMissed'
    BY <1>2, <2>1, <2>2 DEF NothingMissed
  <2>4. Reached(cursor)'
    BY <1>2, <1>3, <2>1 DEF Reached
  <2>5. feed'.at \in {"tail", "caughtUp"}
    BY <1>10 DEF ListSince
  <2> QED BY <1>1, <1>2, <2>3, <2>4, <2>5 DEF SnapshotSoFar
<1>11. CASE Resync
  BY <1>1, <1>2, <1>11 DEF Resync, NothingMissed, Reached, SnapshotSoFar
<1> QED BY <1>6, <1>7, <1>8, <1>9, <1>10, <1>11 DEF Read

\* The invariant holds in every behaviour where inserts exclude each other.
THEOREM FeedKeepsInvariant == SerialInserts => (FeedSpec => []FeedInv)
<1> SUFFICES ASSUME SerialInserts PROVE FeedSpec => []FeedInv
  OBVIOUS
<1>1. FeedInit => FeedInv
  BY OutboxStarts DEF FeedInit, FeedInv, FeedTypeOK, FeedStates, NothingMissed, Reached,
                      SnapshotSoFar, OutboxInit
<1>2. FeedInv /\ [FeedNext]_feedVars => FeedInv'
  <2> SUFFICES ASSUME FeedInv, [FeedNext]_feedVars PROVE FeedInv'
    OBVIOUS
  <2>1. CASE Read \/ Resync
    BY <2>1, ReadKeepsFeed
  <2>2. ASSUME NEW w \in Writers, Write(w),
               UNCHANGED <<feed, cursor, known, resyncs, promised>>
        PROVE  FeedInv'
    BY <2>2, WriteKeepsFeed
  <2>3. CASE UNCHANGED feedVars
    BY <2>3 DEF feedVars, FeedInv, FeedTypeOK, OutboxTypeOK, OutboxInv, SerialInv, Inserting,
                WriterAt, NothingMissed, Reached, SnapshotSoFar
  <2> QED BY <2>1, <2>2, <2>3 DEF FeedNext
<1> QED BY <1>1, <1>2, PTL DEF FeedSpec

\* "Подписчик никогда не пропустит событие" (events.py:14), where inserts
\* exclude each other: what the cursor has passed is known.
THEOREM FeedMissesNothing == SerialInserts => (FeedSpec => []NothingMissed)
<1>1. FeedInv => NothingMissed
  BY DEF FeedInv
<1> QED BY <1>1, FeedKeepsInvariant, PTL

-----------------------------------------------------------------------------
(* The head *)

\* What was published when the head was read is not above that head, and who
\* has caught up stands at the head or behind it.
PromiseInv ==
    /\ promised \subseteq outbox
    /\ feed.at = "page" => feed.head \in Nat /\ \A e \in promised : e.id <= feed.head
    /\ feed.at = "caughtUp" => \A e \in promised : e.id <= cursor

\* The reads of the subscriber keep it: the page and its head are two of them.
LEMMA ReadKeepsPromise ==
  ASSUME FeedTypeOK, FeedTypeOK', PromiseInv, Read \/ Resync
  PROVE  PromiseInv'
<1> USE DEF PromiseInv, FeedTypeOK, outboxVars
<1>1. \A e \in outbox : e.id \in Nat
  BY DEF OutboxTypeOK, Events, Positive
<1>2. CASE ReadEventsHead
  <2>1. PICK h \in Heads : feed' = [at |-> "page", head |-> h]
    BY <1>2 DEF ReadEventsHead
  <2>2. h \in Nat /\ \A e \in outbox : e.id <= h
    BY <1>1, <2>1 DEF Heads, IsHead
  <2> QED BY <1>2, <2>1, <2>2 DEF ReadEventsHead
<1>3. CASE ListSince
  <2>1. feed.at = "page" /\ promised' = promised /\ outbox' = outbox
    BY <1>3 DEF ListSince
  <2>2. feed' = [at |-> IF cursor' >= feed.head THEN "caughtUp" ELSE "tail"]
    BY <1>3 DEF ListSince
  <2>3. cursor' \in Nat /\ feed.head \in Nat /\ \A e \in promised : e.id <= feed.head
    BY <2>1
  <2>4. feed'.at = "caughtUp" => cursor' >= feed.head
    BY <2>2
  <2>5. feed'.at = "caughtUp" => \A e \in promised : e.id <= cursor'
    BY <1>1, <2>3, <2>4
  <2>6. feed'.at # "page"
    BY <2>2
  <2> QED BY <2>1, <2>5, <2>6
<1>4. CASE ReadWatermark \/ ListNetworks \/ ListNodes \/ Resync
  <2>1. feed'.at \in {"networks", "nodes", "tail", "cold"}
    BY <1>4 DEF ReadWatermark, ListNetworks, ListNodes, Resync
  <2>2. promised' = promised /\ outbox' = outbox
    BY <1>4 DEF ReadWatermark, ListNetworks, ListNodes, Resync
  <2> QED BY <2>1, <2>2
<1> QED BY <1>2, <1>3, <1>4 DEF Read

\* "Если head_event_id == last_item.event_id - testum догнал" (testum.md:303),
\* where inserts exclude each other: who is told so knows what was published
\* when it asked.
THEOREM CaughtUpKnowsWhatWasPublished == SerialInserts => (FeedSpec => []CaughtUpIsCurrent)
<1>1. FeedInit => PromiseInv
  BY DEF FeedInit, PromiseInv
<1>2. FeedTypeOK /\ FeedTypeOK' /\ PromiseInv /\ [FeedNext]_feedVars => PromiseInv'
  <2> SUFFICES ASSUME FeedTypeOK, FeedTypeOK', PromiseInv, [FeedNext]_feedVars
               PROVE  PromiseInv'
    OBVIOUS
  <2>1. ASSUME NEW w \in Writers, Write(w),
               UNCHANGED <<feed, cursor, known, resyncs, promised>>
        PROVE  PromiseInv'
    <3>1. outbox \subseteq outbox'
      BY <2>1 DEF Write, Save, DrawId, CommitEvent, LoseEvent
    <3> QED BY <2>1, <3>1 DEF PromiseInv
  <2>2. CASE UNCHANGED feedVars
    BY <2>2 DEF feedVars, PromiseInv
  <2> QED BY <2>1, <2>2, ReadKeepsPromise DEF FeedNext
<1>3. FeedInv /\ PromiseInv => CaughtUpIsCurrent
  BY DEF FeedInv, PromiseInv, NothingMissed, CaughtUpIsCurrent
<1> QED BY <1>1, <1>2, <1>3, FeedTypeCorrect, FeedKeepsInvariant, PTL DEF FeedSpec

------------------------------------------------------------------------------
(***************************************************************************)
(* Cursors are honest and order is kept, for any number of subscriptions   *)
(* and writers, pages of any size, any number of broken passes and         *)
(* restarts, as long as inserts exclude each other.                        *)
(***************************************************************************)

-----------------------------------------------------------------------------
(* Types *)

\* A pass that has a subscription in hand.
LEMMA PassInHand ==
  ASSUME TypeOK, pass # Idle
  PROVE  /\ pass.todo \in [Subs -> Rows \cup {NoRow}]
         /\ pass.at # "choosing" => pass.sub \in Subs /\ pass.row \in Rows
         /\ pass.at = "sending" => pass.page \subseteq Events
         /\ pass.at \in {"choosing", "reading", "sending", "saving"}
  BY DEF TypeOK, PassStates, BusyPasses

\* What follows an event is a state of a pass.
LEMMA SendingType ==
  ASSUME TypeOK, pass # Idle, pass.at # "choosing",
         NEW row \in Rows, NEW page \in SUBSET Events
  PROVE  /\ Saving(row) \in PassStates /\ Sending(row, page) \in PassStates
         /\ Saving(row) # Idle /\ Sending(row, page) # Idle
<1>1. pass.todo \in [Subs -> Rows \cup {NoRow}] /\ pass.sub \in Subs
  BY PassInHand
<1>2. Saving(row) \in BusyPasses
  BY <1>1 DEF Saving, BusyPasses
<1>3. Sending(row, page) \in BusyPasses
  BY <1>1, <1>2 DEF Sending, BusyPasses
<1> QED BY <1>2, <1>3, IdleAssumption DEF PassStates

\* Requests keep the types.
LEMMA RequestType ==
  ASSUME TypeOK, NEW s \in Subs, Request(s)
  PROVE  TypeOK'
<1> USE DEF TypeOK, outboxVars, OutboxTypeOK, history, Proceed
<1>1. CASE ReadHead(s)
  <2>1. PICK h \in Heads : request' = [request EXCEPT ![s] =
             [at |-> "saving", row |-> [active |-> TRUE, cursor |-> h, failures |-> 0]]]
    BY <1>1 DEF ReadHead
  <2>2. h \in Nat
    BY HeadIsReached
  <2>3. [at |-> "saving", row |-> [active |-> TRUE, cursor |-> h, failures |-> 0]]
           \in RequestStates
    BY <2>2 DEF RequestStates, Rows
  <2>4. request' \in [Subs -> RequestStates]
    BY <2>1, <2>3
  <2> QED BY <1>1, <2>4 DEF ReadHead
<1>2. CASE SaveNew(s)
  <2>1. request[s].row \in Rows
    BY <1>2 DEF SaveNew, RequestStates
  <2> QED BY <1>2, <2>1 DEF SaveNew, RequestStates, Rows
<1>3. CASE Remember(s)
  BY <1>3 DEF Remember, RequestStates
<1>4. CASE AskDelete(s)
  BY <1>4 DEF AskDelete, RequestStates
<1>5. CASE DeleteRow(s)
  BY <1>5 DEF DeleteRow, RequestStates
<1>6. CASE Forget(s)
  BY <1>6 DEF Forget, RequestStates
<1> QED BY <1>1, <1>2, <1>3, <1>4, <1>5, <1>6 DEF Request

\* The dispatcher keeps the types.
LEMMA DispatchType ==
  ASSUME TypeOK, Dispatch
  PROVE  TypeOK'
<1> USE DEF outboxVars, history
<1>0. outbox \subseteq Events /\ \A e \in outbox : e.id \in Nat /\ e.id \in Positive
  BY DEF TypeOK, OutboxTypeOK, Events, Positive
<1>1. CASE StartPass
  <2>1. pass' \in PassStates
    BY <1>1 DEF StartPass, Choosing, PassStates, BusyPasses, TypeOK
  <2> QED BY <1>1, <2>1 DEF StartPass, TypeOK, OutboxTypeOK
<1>2. CASE ReadPage
  <2>1. pass # Idle /\ pass.at = "reading"
    BY <1>2 DEF ReadPage, PassAt
  <2>2. PICK page \in SUBSET outbox : pass' = Sending(pass.row, page)
    BY <1>2 DEF ReadPage
  <2>3. pass' \in PassStates
    BY <1>0, <2>1, <2>2, PassInHand, SendingType
  <2> QED BY <1>2, <2>3 DEF ReadPage, TypeOK, OutboxTypeOK
<1>3. CASE SaveCopy
  <2>1. pass # Idle /\ pass.at = "saving"
    BY <1>3 DEF SaveCopy, PassAt
  <2>2. sub' \in [Subs -> Rows \cup {NoRow}] /\ pass' \in PassStates
    BY <1>3, <2>1, PassInHand DEF SaveCopy, Choosing, PassStates, BusyPasses, TypeOK
  <2> QED BY <1>3, <2>2 DEF SaveCopy, TypeOK, OutboxTypeOK
<1>4. ASSUME NEW s \in Subs, GetSecret(s) PROVE TypeOK'
  <2>1. pass # Idle /\ pass.todo[s] # NoRow /\ pass.todo[s] \in Rows
    BY <1>4, PassInHand DEF GetSecret, PassAt
  <2>2. [pass.todo EXCEPT ![s] = NoRow] \in [Subs -> Rows \cup {NoRow}]
    BY <2>1, PassInHand
  <2>3. [pass.todo[s] EXCEPT !.active = FALSE] \in Rows
    BY <2>1 DEF Rows
  <2>4. pass' \in PassStates
    BY <1>4, <2>1, <2>2, <2>3 DEF GetSecret, PassStates, BusyPasses
  <2>5. secretless' \subseteq Subs
    BY <1>4 DEF GetSecret, TypeOK
  <2> QED BY <1>4, <2>4, <2>5 DEF GetSecret, TypeOK, OutboxTypeOK
<1>5. ASSUME NEW e \in outbox, Skip(e) PROVE TypeOK'
  <2>1. pass # Idle /\ pass.at = "sending" /\ pass.row \in Rows /\ pass.page \subseteq Events
    BY <1>5, PassInHand DEF Skip, IsNext, PassAt
  <2>2. [pass.row EXCEPT !.cursor = e.id] \in Rows
    BY <1>0, <2>1 DEF Rows
  <2>3. pass' \in PassStates
    BY <1>5, <2>1, <2>2, SendingType DEF Skip
  <2> QED BY <1>5, <2>3 DEF Skip, TypeOK, OutboxTypeOK
<1>6. ASSUME NEW e \in outbox, Deliver(e) PROVE TypeOK'
  <2>1. pass # Idle /\ pass.at = "sending" /\ pass.sub \in Subs /\ pass.page \subseteq Events
    BY <1>6, PassInHand DEF Deliver, IsNext, PassAt
  <2>2. [active |-> TRUE, cursor |-> e.id, failures |-> 0] \in Rows
    BY <1>0 DEF Rows
  <2>3. pass' \in PassStates
    BY <1>6, <2>1, <2>2, SendingType DEF Deliver
  <2>4. got' \in [Subs -> SUBSET Positive] /\ streak' \in [Subs -> Nat]
    BY <1>0, <1>6, <2>1 DEF Deliver, TypeOK
  <2> QED BY <1>6, <2>3, <2>4 DEF Deliver, TypeOK, OutboxTypeOK
<1>7. ASSUME NEW e \in outbox, NEW received \in BOOLEAN, Fail(e, received) PROVE TypeOK'
  <2>1. pass # Idle /\ pass.at = "sending" /\ pass.sub \in Subs /\ pass.row \in Rows
    BY <1>7, PassInHand DEF Fail, IsNext, PassAt
  <2>2. FailedRow \in Rows
    BY <2>1, WebhookAssumption DEF FailedRow, Rows, Positive
  <2>3. pass' \in PassStates
    BY <1>7, <2>1, <2>2, SendingType DEF Fail
  <2>4. got' \in [Subs -> SUBSET Positive] /\ streak' \in [Subs -> Nat]
    BY <1>0, <1>7, <2>1 DEF Fail, TypeOK
  <2> QED BY <1>7, <2>3, <2>4 DEF Fail, TypeOK, OutboxTypeOK
<1> QED BY <1>1, <1>2, <1>3, <1>4, <1>5, <1>6, <1>7 DEF Dispatch

\* Broken passes and restarts keep the types.
LEMMA FaultType ==
  ASSUME TypeOK, BreakPass \/ Restart
  PROVE  TypeOK'
<1>1. CASE BreakPass
  BY <1>1 DEF BreakPass, Fault, TypeOK, OutboxTypeOK, PassStates, BusyPasses, history, outboxVars
<1>2. CASE Restart
  <2>1. ASSUME NEW s \in Subs
        PROVE  AfterRestart(request[s].at) \in {"new", "created", "gone"}
    BY DEF AfterRestart, TypeOK, RequestStates
  <2>2. request' \in [Subs -> RequestStates]
    BY <1>2, <2>1 DEF Restart, RequestStates
  <2>3. writer' \in [Writers -> WriterStates] /\ secrets' \subseteq Subs
    BY <1>2 DEF Restart, TypeOK, WriterStates
  <2> QED BY <1>2, <2>2, <2>3
      DEF Restart, Fault, TypeOK, OutboxTypeOK, PassStates, BusyPasses, history
<1> QED BY <1>1, <1>2

\* Types hold in every behaviour.
THEOREM WebhooksTypeCorrect == Spec => []TypeOK
<1>1. Init => TypeOK
  BY OutboxStarts DEF Init, TypeOK, RequestStates, PassStates, BusyPasses
<1>2. TypeOK /\ [Next]_vars => TypeOK'
  <2> SUFFICES ASSUME TypeOK, [Next]_vars PROVE TypeOK'
    OBVIOUS
  <2>1. ASSUME NEW w \in Writers, Publishing(w) PROVE TypeOK'
    BY <2>1, WriteType DEF Publishing, TypeOK, history
  <2>2. ASSUME NEW s \in Subs, Request(s) PROVE TypeOK'
    BY <2>2, RequestType
  <2>3. CASE Dispatch
    BY <2>3, DispatchType
  <2>4. CASE BreakPass \/ Restart
    BY <2>4, FaultType
  <2>5. CASE UNCHANGED vars
    BY <2>5 DEF vars, TypeOK, OutboxTypeOK
  <2> QED BY <2>1, <2>2, <2>3, <2>4, <2>5 DEF Next
<1> QED BY <1>1, <1>2, PTL DEF Spec

-----------------------------------------------------------------------------
(* The invariant *)

\* Behind a cursor c of subscription s nothing is owed, and something visible
\* is as far as c.
Caught(s, c) == \A e \in outbox : Due(s, e) /\ e.id <= c => e.id \in got[s]
Good(s, c) == Reached(c) /\ Caught(s, c)

RowsGood == \A s \in Subs : sub[s] # NoRow => Good(s, sub[s].cursor)

\* A subscription has no past before it is saved.
RequestsGood ==
    \A s \in Subs :
        /\ request[s].at \in {"new", "saving"} => start[s] = 0
        /\ request[s].at = "saving" => Reached(request[s].row.cursor)

\* The copies of a pass are as good as the rows they were read from.
PassGood ==
    pass # Idle =>
        /\ \A s \in Subs : pass.todo[s] # NoRow => Good(s, pass.todo[s].cursor)
        /\ pass.at # "choosing" => Good(pass.sub, pass.row.cursor)

\* The page holds the oldest events beyond the cursor of the copy.
Oldest(page, c) ==
    /\ page \subseteq outbox
    /\ \A p \in page : p.id > c
    /\ \A e \in outbox \ page : e.id > c => \A p \in page : p.id < e.id

PageGood == pass # Idle /\ pass.at = "sending" => Oldest(pass.page, pass.row.cursor)

GotPublished == \A s \in Subs : \A i \in got[s] : \E e \in outbox : e.id = i

WebhookInv ==
    /\ TypeOK /\ OutboxInv /\ SerialInv
    /\ RowsGood /\ RequestsGood /\ PassGood /\ PageGood
    /\ GotPublished /\ DedupByMaxIsSafe

\* Ids and changes as numbers.
LEMMA EventNumbers ==
  ASSUME TypeOK, OutboxInv
  PROVE  \A e \in outbox : e.id \in Nat /\ e.id > 0 /\ e.change \in 1..Len(saved)
  BY DEF TypeOK, OutboxTypeOK, OutboxInv, Events, Positive

\* A good cursor stays good while endpoints get more and pasts get shorter.
LEMMA GoodStays ==
  ASSUME TypeOK, OutboxInv, TypeOK', outbox' = outbox, saved' = saved,
         \A s \in Subs : got[s] \subseteq got'[s] /\ start[s] <= start'[s]
  PROVE  \A s \in Subs, c \in Nat : Good(s, c) => Good(s, c)'
<1>1. \A s \in Subs, e \in outbox : Due(s, e)' => Due(s, e)
  BY EventNumbers DEF Due, Matches, TypeOK
<1> QED BY <1>1 DEF Good, Caught, Reached

\* A good cursor stays good when an event appears.
LEMMA GoodSurvivesWrite ==
  ASSUME SerialInserts, WebhookInv, NEW w \in Writers, Publishing(w)
  PROVE  /\ \A s \in Subs, c \in Nat : Good(s, c) => Good(s, c)'
         /\ \A s \in Subs, e \in outbox : Due(s, e)' <=> Due(s, e)
         /\ outbox \subseteq outbox'
         /\ \A e \in outbox' \ outbox : \A f \in outbox : f.id < e.id
<1> USE DEF WebhookInv, TypeOK, Publishing, history
<1>1. /\ outbox \subseteq outbox'
      /\ \A e \in outbox' \ outbox : \A f \in outbox : f.id < e.id
      /\ \A e \in outbox : saved'[e.change] = saved[e.change]
  BY WriteKeepsOrder, SerialWrite, EventNumbers
<1>2. \A s \in Subs, e \in outbox : Due(s, e)' <=> Due(s, e)
  BY <1>1 DEF Due, Matches
<1>3. \A c \in Nat : Reached(c) => Reached(c)' /\ \A e \in outbox' : e.id <= c => e \in outbox
  BY NewIsBeyond
<1> QED BY <1>1, <1>2, <1>3 DEF Good, Caught

\* Publishing keeps the invariant.
LEMMA WriteKeepsWebhooks ==
  ASSUME SerialInserts, WebhookInv, NEW w \in Writers, Publishing(w)
  PROVE  WebhookInv'
<1> USE DEF WebhookInv
<1>1. TypeOK' /\ OutboxInv' /\ SerialInv'
  BY WriteType, WriteKeepsOrder, SerialWrite DEF Publishing, TypeOK, history
<1>2. UNCHANGED <<sub, secrets, request, pass, faults, start, got, streak, secretless>>
  BY DEF Publishing, history
<1>3. RowsGood'
  <2>1. \A s \in Subs : sub[s] # NoRow => sub[s].cursor \in Nat
    BY DEF TypeOK, Rows
  <2> QED BY <1>2, <2>1, GoodSurvivesWrite DEF RowsGood
<1>4. RequestsGood'
  <2>1. \A s \in Subs : request[s].at = "saving" => request[s].row.cursor \in Nat
    BY DEF TypeOK, RequestStates, Rows
  <2> QED BY <1>2, <2>1, NewIsBeyond DEF RequestsGood, Publishing, TypeOK
<1>5. pass # Idle =>
        /\ \A s \in Subs : pass.todo[s] # NoRow => pass.todo[s].cursor \in Nat
        /\ pass.at # "choosing" => pass.sub \in Subs /\ pass.row.cursor \in Nat
  BY PassInHand DEF Rows
<1>6. PassGood'
  BY <1>2, <1>5, GoodSurvivesWrite DEF PassGood
<1>7. PageGood'
  <2> SUFFICES ASSUME pass # Idle, pass.at = "sending"
               PROVE  Oldest(pass.page, pass.row.cursor)'
    BY <1>2 DEF PageGood
  <2>1. Oldest(pass.page, pass.row.cursor)
    BY DEF PageGood
  <2> QED BY <1>2, <2>1, GoodSurvivesWrite DEF Oldest
<1>8. GotPublished'
  BY <1>2, GoodSurvivesWrite DEF GotPublished
<1>9. DedupByMaxIsSafe'
  <2> SUFFICES ASSUME NEW s \in Subs, NEW e \in outbox', NEW f \in outbox',
                      Due(s, e)', e.id < f.id, f.id \in got[s]
               PROVE  e.id \in got[s]
    BY <1>2 DEF DedupByMaxIsSafe
  <2>1. PICK g \in outbox : g.id = f.id
    BY DEF GotPublished
  <2>2. e \in outbox
    <3>1. e.id \in Nat /\ f.id \in Nat
      BY <1>1 DEF TypeOK, OutboxTypeOK, Events, Positive
    <3>2. e \notin outbox => g.id < e.id
      BY GoodSurvivesWrite
    <3> QED BY <2>1, <3>1, <3>2
  <2> QED BY <2>1, <2>2, GoodSurvivesWrite DEF DedupByMaxIsSafe
<1> QED BY <1>1, <1>3, <1>4, <1>6, <1>7, <1>8, <1>9

\* Steps that leave the journal and what endpoints got alone, and make no past
\* longer, keep these parts.
LEMMA QuietStep ==
  ASSUME WebhookInv, TypeOK', UNCHANGED outboxVars, got' = got,
         \A s \in Subs : start[s] <= start'[s]
  PROVE  /\ OutboxInv' /\ SerialInv' /\ GotPublished' /\ DedupByMaxIsSafe'
         /\ \A s \in Subs, c \in Nat : Good(s, c) => Good(s, c)'
         /\ \A c \in Nat : Reached(c) => Reached(c)'
         /\ \A page, c : Oldest(page, c) => Oldest(page, c)'
<1> USE DEF WebhookInv, outboxVars
<1>1. OutboxInv' /\ SerialInv'
  BY DEF OutboxInv, SerialInv, Inserting, WriterAt
<1>2. \A s \in Subs, c \in Nat : Good(s, c) => Good(s, c)'
  BY GoodStays
<1>3. \A s \in Subs, e \in outbox : Due(s, e)' => Due(s, e)
  BY EventNumbers DEF Due, Matches, TypeOK
<1> QED BY <1>1, <1>2, <1>3 DEF GotPublished, DedupByMaxIsSafe, Reached, Oldest

\* Requests keep the invariant.
LEMMA RequestKeepsWebhooks ==
  ASSUME WebhookInv, NEW s \in Subs, Request(s)
  PROVE  WebhookInv'
<1> USE DEF WebhookInv, history
<1>1. TypeOK'
  BY RequestType
<1>2. UNCHANGED <<outboxVars, pass, got>>
  BY DEF Request, ReadHead, SaveNew, Remember, AskDelete, DeleteRow, Forget
<1>3. request \in [Subs -> RequestStates] /\ start \in [Subs -> Nat]
      /\ sub \in [Subs -> Rows \cup {NoRow}]
  BY DEF TypeOK
<1>4. \A t \in Subs : request[t].at = "saving" => request[t].row \in Rows
                                                    /\ request[t].row.cursor \in Nat
  BY <1>3 DEF RequestStates, Rows
<1>5. \A t \in Subs : start[t] <= start'[t]
  <2>1. CASE SaveNew(s)
    BY <1>3, <1>4, <2>1 DEF SaveNew, RequestsGood
  <2>2. CASE ReadHead(s) \/ Remember(s) \/ AskDelete(s) \/ DeleteRow(s) \/ Forget(s)
    BY <1>3, <2>2 DEF ReadHead, Remember, AskDelete, DeleteRow, Forget
  <2> QED BY <2>1, <2>2 DEF Request
<1>6. /\ OutboxInv' /\ SerialInv' /\ GotPublished' /\ DedupByMaxIsSafe'
      /\ \A t \in Subs, c \in Nat : Good(t, c) => Good(t, c)'
      /\ \A c \in Nat : Reached(c) => Reached(c)'
      /\ \A page, c : Oldest(page, c) => Oldest(page, c)'
  BY <1>1, <1>2, <1>5, QuietStep
<1>7. PassGood' /\ PageGood'
  <2>1. pass # Idle =>
          /\ \A t \in Subs : pass.todo[t] # NoRow => pass.todo[t].cursor \in Nat
          /\ pass.at # "choosing" => pass.sub \in Subs /\ pass.row.cursor \in Nat
    BY PassInHand DEF Rows
  <2> QED BY <1>2, <1>6, <2>1 DEF PassGood, PageGood
<1>8. RowsGood'
  <2>1. \A t \in Subs : sub[t] # NoRow => sub[t].cursor \in Nat
    BY <1>3 DEF Rows
  <2>2. CASE SaveNew(s)
    <3>1. request[s].at = "saving" /\ sub' = [sub EXCEPT ![s] = request[s].row]
          /\ start' = [start EXCEPT ![s] = request[s].row.cursor]
      BY <2>2 DEF SaveNew
    <3>2. PICK c \in Nat : c = request[s].row.cursor
      BY <1>4, <3>1
    <3>3. Reached(c)'
      BY <1>6, <3>1, <3>2 DEF RequestsGood
    <3>4. sub'[s].cursor = c /\ start'[s] = c
      BY <1>3, <3>1, <3>2
    <3>5. \A e \in outbox : e.id \in Nat
      BY EventNumbers
    <3>6. Good(s, sub[s].cursor)'
      BY <1>2, <3>2, <3>3, <3>4, <3>5 DEF Good, Caught, Due, Reached, outboxVars
    <3> QED BY <1>3, <1>6, <2>1, <3>1, <3>6 DEF RowsGood
  <2>3. CASE DeleteRow(s)
    BY <1>3, <1>6, <2>1, <2>3 DEF DeleteRow, RowsGood
  <2>4. CASE ReadHead(s) \/ Remember(s) \/ AskDelete(s) \/ Forget(s)
    BY <1>6, <2>1, <2>4 DEF ReadHead, Remember, AskDelete, Forget, RowsGood
  <2> QED BY <2>2, <2>3, <2>4 DEF Request
<1>9. RequestsGood'
  <2>1. CASE ReadHead(s)
    <3>1. PICK h \in Heads : request' = [request EXCEPT ![s] =
               [at |-> "saving", row |-> [active |-> TRUE, cursor |-> h, failures |-> 0]]]
      BY <2>1 DEF ReadHead, Proceed
    <3>2. h \in Nat /\ Reached(h)
      BY HeadIsReached DEF TypeOK
    <3>3. start' = start /\ request[s].at = "new"
      BY <2>1 DEF ReadHead
    <3>4. request'[s].at = "saving" /\ request'[s].row.cursor = h
          /\ \A t \in Subs \ {s} : request'[t] = request[t]
      BY <1>3, <3>1
    <3> QED BY <1>4, <1>6, <3>2, <3>3, <3>4 DEF RequestsGood, Reached
  <2>2. CASE SaveNew(s)
    <3>1. request'[s].at = "remembering" /\ \A t \in Subs \ {s} : request'[t] = request[t]
                                                                  /\ start'[t] = start[t]
      BY <1>3, <2>2 DEF SaveNew, Proceed
    <3> QED BY <1>4, <1>6, <3>1 DEF RequestsGood
  <2>3. CASE Remember(s) \/ AskDelete(s) \/ DeleteRow(s) \/ Forget(s)
    <3>1. request'[s].at \in {"created", "deleting", "forgetting", "gone"}
          /\ \A t \in Subs \ {s} : request'[t] = request[t]
      BY <1>3, <2>3 DEF Remember, AskDelete, DeleteRow, Forget, Proceed
    <3>2. start' = start
      BY <2>3 DEF Remember, AskDelete, DeleteRow, Forget
    <3> QED BY <1>4, <1>6, <3>1, <3>2 DEF RequestsGood
  <2> QED BY <2>1, <2>2, <2>3 DEF Request
<1> QED BY <1>1, <1>6, <1>7, <1>8, <1>9

-----------------------------------------------------------------------------
(* The dispatcher *)

\* When an event is next, all that is due before it has been received.
LEMMA NextIsOldest ==
  ASSUME WebhookInv, NEW e \in outbox, IsNext(e)
  PROVE  /\ pass # Idle /\ pass.at = "sending" /\ pass.sub \in Subs /\ pass.row \in Rows
         /\ e \in pass.page /\ pass.page \subseteq outbox /\ pass.page \subseteq Events
         /\ \A g \in outbox : Due(pass.sub, g) /\ g.id < e.id => g.id \in got[pass.sub]
         /\ Oldest(pass.page \ {e}, e.id)
<1> USE DEF WebhookInv
<1>1. pass # Idle /\ pass.at = "sending" /\ pass.sub \in Subs /\ pass.row \in Rows
      /\ e \in pass.page /\ pass.page \subseteq outbox /\ pass.page \subseteq Events
  BY PassInHand DEF IsNext, PassAt, PageGood, Oldest
<1>2. pass.row.cursor \in Nat /\ \A g \in outbox : g.id \in Nat
  BY <1>1, EventNumbers DEF Rows
<1>3. /\ \A p \in pass.page : p.id > pass.row.cursor /\ e.id <= p.id
      /\ \A g \in outbox \ pass.page : g.id > pass.row.cursor
                                      => \A p \in pass.page : p.id < g.id
  BY <1>1 DEF PageGood, Oldest, IsNext
<1>4. ASSUME NEW g \in outbox, Due(pass.sub, g), g.id < e.id
      PROVE  g.id \in got[pass.sub]
  <2>1. g.id <= pass.row.cursor
    BY <1>1, <1>2, <1>3, <1>4
  <2> QED BY <1>1, <1>4, <2>1 DEF PassGood, Good, Caught
<1>5. Oldest(pass.page \ {e}, e.id)
  <2>1. \A p \in pass.page \ {e} : p.id > e.id
    BY <1>1, <1>2, <1>3 DEF OutboxInv
  <2> QED BY <1>1, <1>2, <1>3, <2>1 DEF Oldest
<1> QED BY <1>1, <1>4, <1>5

\* The cursor may move to an event that was received, or is for others.
LEMMA CursorMoves ==
  ASSUME WebhookInv, TypeOK', UNCHANGED <<outboxVars, start>>, NEW e \in outbox, IsNext(e),
         got' = got \/ got' = [got EXCEPT ![pass.sub] = @ \cup {e.id}],
         Matches(e) => e.id \in got'[pass.sub]
  PROVE  /\ \A s \in Subs, c \in Nat : Good(s, c) => Good(s, c)'
         /\ \A s \in Subs : s = pass.sub => Good(s, e.id)'
<1> USE DEF WebhookInv, outboxVars
<1>1. got \in [Subs -> SUBSET Positive] /\ start \in [Subs -> Nat] /\ pass.sub \in Subs
  BY NextIsOldest DEF TypeOK
<1>2. \A s \in Subs : got[s] \subseteq got'[s] /\ start[s] <= start'[s]
  BY <1>1
<1>3. \A s \in Subs, c \in Nat : Good(s, c) => Good(s, c)'
  BY <1>2, GoodStays
<1>4. ASSUME NEW s \in Subs, s = pass.sub, NEW g \in outbox, Due(s, g), g.id <= e.id
      PROVE  g.id \in got'[s]
  <2>1. CASE g.id < e.id
    BY <1>2, <1>4, <2>1, NextIsOldest
  <2>2. CASE g.id = e.id
    BY <1>4, <2>2 DEF OutboxInv, Due
  <2> QED BY <1>4, <2>1, <2>2, EventNumbers
<1>5. \A s \in Subs, g \in outbox : Due(s, g)' => Due(s, g)
  BY DEF Due, Matches
<1>6. Reached(e.id)'
  BY EventNumbers DEF Reached
<1> QED BY <1>3, <1>4, <1>5, <1>6 DEF Good, Caught

\* An event received in its turn leaves the order of receipts as it was.
LEMMA InOrder ==
  ASSUME WebhookInv, UNCHANGED <<outboxVars, start>>, NEW e \in outbox, IsNext(e),
         got' = got \/ got' = [got EXCEPT ![pass.sub] = @ \cup {e.id}]
  PROVE  OutboxInv' /\ SerialInv' /\ GotPublished' /\ DedupByMaxIsSafe'
<1> USE DEF WebhookInv, outboxVars
<1>1. OutboxInv' /\ SerialInv'
  BY DEF OutboxInv, SerialInv, Inserting, WriterAt
<1>2. got \in [Subs -> SUBSET Positive] /\ pass.sub \in Subs
  BY NextIsOldest DEF TypeOK
<1>3. GotPublished'
  BY <1>2 DEF GotPublished
<1>4. \A s \in Subs, g \in outbox : Due(s, g)' => Due(s, g)
  BY DEF Due, Matches
<1>5. DedupByMaxIsSafe'
  <2> SUFFICES ASSUME NEW s \in Subs, NEW g \in outbox, NEW f \in outbox,
                      Due(s, g), g.id < f.id, f.id \in got'[s]
               PROVE  g.id \in got'[s]
    BY <1>4 DEF DedupByMaxIsSafe
  <2>1. CASE f.id \in got[s]
    BY <1>2, <2>1 DEF DedupByMaxIsSafe
  <2>2. CASE s = pass.sub /\ f.id = e.id
    BY <1>2, <2>2, NextIsOldest
  <2> QED BY <1>2, <2>1, <2>2
<1> QED BY <1>1, <1>3, <1>5

\* A pass that goes on with a good copy and the rest of its page.
LEMMA SendingGood ==
  ASSUME WebhookInv, NEW row \in Rows, NEW page, pass # Idle, pass.at # "choosing",
         pass' = Sending(row, page) \/ pass' = Saving(row),
         \A s \in Subs, c \in Nat : Good(s, c) => Good(s, c)',
         \A s \in Subs : s = pass.sub => Good(s, row.cursor)',
         pass' = Saving(row) \/ Oldest(page, row.cursor)'
  PROVE  PassGood' /\ PageGood'
<1> USE DEF WebhookInv
<1>1. pass.todo \in [Subs -> Rows \cup {NoRow}] /\ pass.sub \in Subs
  BY PassInHand
<1>2. \A s \in Subs : pass.todo[s] # NoRow =>
         pass.todo[s].cursor \in Nat /\ Good(s, pass.todo[s].cursor)
  BY <1>1 DEF Rows, PassGood
<1>3. pass'.todo = pass.todo /\ pass'.sub = pass.sub /\ pass'.row = row
      /\ pass'.at \in {"saving", "sending"}
      /\ (pass'.at = "sending" => pass'.page = page /\ pass' # Saving(row))
  BY DEF Sending, Saving
<1>4. \A s \in Subs : pass'.todo[s] # NoRow => Good(s, pass.todo[s].cursor)'
  BY <1>2, <1>3
<1>5. PassGood'
  BY <1>1, <1>3, <1>4 DEF PassGood, Good, Caught, Due, Reached, Matches
<1>6. PageGood'
  BY <1>3 DEF PageGood, Oldest
<1> QED BY <1>5, <1>6

\* The dispatcher keeps the invariant.
LEMMA DispatchKeepsWebhooks ==
  ASSUME WebhookInv, Dispatch
  PROVE  WebhookInv'
<1> USE DEF WebhookInv
<1>1. TypeOK'
  BY DispatchType
<1>2. UNCHANGED <<outboxVars, request, start>>
  BY DEF Dispatch, StartPass, ReadPage, SaveCopy, GetSecret, Skip, Deliver, Fail, history
<1>3. start \in [Subs -> Nat] /\ got \in [Subs -> SUBSET Positive]
      /\ sub \in [Subs -> Rows \cup {NoRow}]
  BY DEF TypeOK
<1>4. \A s \in Subs : start[s] <= start'[s]
  BY <1>2, <1>3
<1>5. RequestsGood'
  BY <1>2 DEF RequestsGood, Reached, outboxVars
<1>6. \A s \in Subs : sub[s] # NoRow => sub[s].cursor \in Nat
  BY <1>3 DEF Rows
<1>7. CASE StartPass \/ ReadPage \/ SaveCopy \/ \E s \in Subs : GetSecret(s)
  <2>1. got' = got
    BY <1>7 DEF StartPass, ReadPage, SaveCopy, GetSecret, history
  <2>2. /\ OutboxInv' /\ SerialInv' /\ GotPublished' /\ DedupByMaxIsSafe'
        /\ \A s \in Subs, c \in Nat : Good(s, c) => Good(s, c)'
        /\ \A page, c : Oldest(page, c) => Oldest(page, c)'
    BY <1>1, <1>2, <1>4, <2>1, QuietStep
  <2>3. CASE StartPass
    <3>1. pass' = Choosing([s \in Subs |-> IF sub[s] # NoRow /\ sub[s].active THEN sub[s]
                                           ELSE NoRow]) /\ sub' = sub
      BY <2>3 DEF StartPass
    <3>2. pass'.at = "choosing"
          /\ \A s \in Subs : pass'.todo[s] # NoRow => sub[s] # NoRow /\ pass'.todo[s] = sub[s]
      BY <3>1 DEF Choosing
    <3>3. \A s \in Subs : sub[s] # NoRow => Good(s, sub[s].cursor)'
      BY <1>6, <2>2, <3>1 DEF RowsGood
    <3>4. RowsGood' /\ PassGood' /\ PageGood'
      BY <3>1, <3>2, <3>3 DEF RowsGood, PassGood, PageGood, Good, Caught, Due, Reached, Matches
    <3> QED BY <1>1, <1>5, <2>2, <3>4
  <2>4. CASE ReadPage
    <3>1. pass # Idle /\ pass.at = "reading" /\ sub' = sub
      BY <2>4 DEF ReadPage, PassAt
    <3>2. pass.row \in Rows /\ pass.sub \in Subs /\ pass.row.cursor \in Nat
      BY <3>1, PassInHand DEF Rows
    <3>3. PICK page \in SUBSET outbox :
            IsPage(page, pass.row.cursor, BatchSize) /\ pass' = Sending(pass.row, page)
      BY <2>4 DEF ReadPage
    <3>4. Oldest(page, pass.row.cursor)
      BY <3>3 DEF IsPage, Oldest
    <3>5. PICK row \in Rows : row = pass.row
      BY <3>2
    <3>6. Oldest(page, row.cursor)'
      BY <1>2, <3>4, <3>5 DEF Oldest, outboxVars
    <3>7. \A s \in Subs : s = pass.sub => Good(s, row.cursor)'
      BY <2>2, <3>1, <3>2, <3>5 DEF PassGood
    <3>8. PassGood' /\ PageGood'
      BY <2>2, <3>1, <3>3, <3>5, <3>6, <3>7, SendingGood
    <3>9. RowsGood'
      BY <1>6, <2>2, <3>1 DEF RowsGood
    <3> QED BY <1>1, <1>5, <2>2, <3>8, <3>9
  <2>5. CASE SaveCopy
    <3>1. pass # Idle /\ pass.at = "saving" /\ sub' = [sub EXCEPT ![pass.sub] = pass.row]
      BY <2>5 DEF SaveCopy, PassAt
    <3>2. pass.row \in Rows /\ pass.sub \in Subs /\ pass.row.cursor \in Nat
          /\ pass.todo \in [Subs -> Rows \cup {NoRow}]
      BY <3>1, PassInHand DEF Rows
    <3>3. \A s \in Subs : pass.todo[s] # NoRow => pass.todo[s].cursor \in Nat
      BY <3>2 DEF Rows
    <3>4. \A s \in Subs : s = pass.sub => Good(s, pass.row.cursor)
      BY <3>1 DEF PassGood
    <3>5. RowsGood'
      BY <1>3, <1>6, <2>2, <3>1, <3>2, <3>4 DEF RowsGood
    <3>6. PassGood' /\ PageGood'
      BY <2>2, <2>5, <3>1, <3>2, <3>3 DEF SaveCopy, Choosing, PassGood, PageGood
    <3> QED BY <1>1, <1>5, <2>2, <3>5, <3>6
  <2>6. ASSUME NEW s \in Subs, GetSecret(s) PROVE WebhookInv'
    <3>1. pass # Idle /\ pass.at = "choosing" /\ pass.todo[s] # NoRow /\ sub' = sub
          /\ pass.todo \in [Subs -> Rows \cup {NoRow}]
      BY <2>6, PassInHand DEF GetSecret, PassAt
    <3>2. \A t \in Subs : pass.todo[t] # NoRow =>
             pass.todo[t].cursor \in Nat /\ Good(t, pass.todo[t].cursor)
      BY <3>1 DEF Rows, PassGood
    <3>3. pass'.sub = s /\ pass'.row.cursor = pass.todo[s].cursor
          /\ pass'.todo = [pass.todo EXCEPT ![s] = NoRow]
          /\ pass'.at \in {"reading", "saving"}
      BY <2>6, <3>1 DEF GetSecret, Rows
    <3>4. \A t \in Subs : pass'.todo[t] # NoRow =>
             pass.todo[t] # NoRow /\ pass'.todo[t] = pass.todo[t]
      BY <3>1, <3>3
    <3>5. PassGood' /\ PageGood'
      BY <2>2, <3>1, <3>2, <3>3, <3>4 DEF PassGood, PageGood
    <3>6. RowsGood'
      BY <1>6, <2>2, <3>1 DEF RowsGood
    <3> QED BY <1>1, <1>5, <2>2, <3>5, <3>6
  <2> QED BY <1>7, <2>3, <2>4, <2>5, <2>6
<1>8. ASSUME NEW e \in outbox,
             Skip(e) \/ Deliver(e) \/ \E received \in BOOLEAN : Fail(e, received)
      PROVE  WebhookInv'
  <2>1. IsNext(e) /\ sub' = sub
        /\ (got' = got \/ got' = [got EXCEPT ![pass.sub] = @ \cup {e.id}])
    BY <1>8 DEF Skip, Deliver, Fail, history
  <2>2. /\ pass # Idle /\ pass.at = "sending" /\ pass.sub \in Subs /\ pass.row \in Rows
        /\ pass.row.cursor \in Nat
        /\ Oldest(pass.page \ {e}, e.id)
    BY <2>1, NextIsOldest DEF Rows
  <2>3. OutboxInv' /\ SerialInv' /\ GotPublished' /\ DedupByMaxIsSafe'
    BY <1>2, <2>1, InOrder
  <2>4. \A s \in Subs, c \in Nat : Good(s, c) => Good(s, c)'
    <3>1. \A s \in Subs : got[s] \subseteq got'[s]
      BY <1>3, <2>1
    <3> QED BY <1>1, <1>2, <1>4, <3>1, GoodStays DEF outboxVars
  <2>5. RowsGood'
    BY <1>6, <2>1, <2>4 DEF RowsGood
  <2>6. PassGood' /\ PageGood'
    <3>1. CASE \E received \in BOOLEAN : Fail(e, received)
      <4>1. PICK row \in Rows : row = FailedRow
        <5>1. pass.row.failures \in Nat /\ MaxFailures \in Nat
          BY <2>2, WebhookAssumption DEF Rows, Positive
        <5> DEFINE failures == pass.row.failures + 1
        <5>2. failures \in Nat /\ (failures < MaxFailures) \in BOOLEAN
          BY <5>1
        <5>3. [active |-> failures < MaxFailures, cursor |-> pass.row.cursor,
               failures |-> failures] \in Rows
          BY <2>2, <5>2 DEF Rows
        <5> QED BY <5>3 DEF FailedRow
      <4>2. pass' = Saving(row) /\ row.cursor = pass.row.cursor
        BY <3>1, <4>1 DEF Fail, FailedRow
      <4>3. \A s \in Subs : s = pass.sub => Good(s, row.cursor)'
        BY <2>2, <2>4, <4>2 DEF PassGood
      <4> QED BY <2>2, <2>4, <4>2, <4>3, SendingGood
    <3>2. CASE Skip(e) \/ Deliver(e)
      <4>1. PICK row \in Rows : row.cursor = e.id /\ pass' = Sending(row, pass.page \ {e})
        <5>1. [active |-> TRUE, cursor |-> e.id, failures |-> 0] \in Rows
          BY EventNumbers DEF Rows
        <5>2. [pass.row EXCEPT !.cursor = e.id] \in Rows
              /\ [pass.row EXCEPT !.cursor = e.id].cursor = e.id
          BY <2>2, EventNumbers DEF Rows
        <5> QED BY <3>2, <5>1, <5>2 DEF Skip, Deliver
      <4>2. Matches(e) => e.id \in got'[pass.sub]
        BY <1>3, <2>2, <3>2 DEF Skip, Deliver
      <4>3. \A s \in Subs : s = pass.sub => Good(s, row.cursor)'
        BY <1>1, <1>2, <2>1, <4>1, <4>2, CursorMoves
      <4>4. PICK page : page = pass.page \ {e}
        OBVIOUS
      <4>5. Oldest(page, row.cursor)'
        BY <1>2, <2>2, <4>1, <4>4 DEF Oldest, outboxVars
      <4> QED BY <2>2, <2>4, <4>1, <4>3, <4>4, <4>5, SendingGood
    <3> QED BY <1>8, <3>1, <3>2
  <2> QED BY <1>1, <1>5, <2>3, <2>5, <2>6
<1> QED BY <1>7, <1>8 DEF Dispatch

\* Broken passes and restarts keep the invariant.
LEMMA FaultKeepsWebhooks ==
  ASSUME WebhookInv, BreakPass \/ Restart
  PROVE  WebhookInv'
<1> USE DEF WebhookInv
<1>1. TypeOK'
  BY FaultType
<1>2. UNCHANGED <<saved, outbox, nextId, sub, start, got>> /\ pass' = Idle
  BY DEF BreakPass, Restart, history, outboxVars
<1>3. OutboxInv' /\ SerialInv'
  BY <1>2 DEF BreakPass, Restart, OutboxInv, SerialInv, Inserting, WriterAt, outboxVars
<1>4. RequestsGood'
  <2>1. CASE BreakPass
    BY <1>2, <2>1 DEF BreakPass, RequestsGood, Reached
  <2>2. CASE Restart
    <3>1. \A s \in Subs : request'[s].at = AfterRestart(request[s].at)
      BY <2>2 DEF Restart
    <3>2. \A s \in Subs : request'[s].at \in {"new", "saving"} => request[s].at = "new"
                                                              /\ request'[s].at = "new"
      BY <3>1 DEF AfterRestart, TypeOK, RequestStates
    <3> QED BY <1>2, <3>2 DEF RequestsGood
  <2> QED BY <2>1, <2>2
<1>5. RowsGood' /\ PassGood' /\ PageGood' /\ GotPublished' /\ DedupByMaxIsSafe'
  BY <1>2 DEF RowsGood, PassGood, PageGood, GotPublished, DedupByMaxIsSafe, Good, Caught, Due,
              Reached, Matches
<1> QED BY <1>1, <1>3, <1>4, <1>5

\* The invariant holds in every behaviour where inserts exclude each other.
THEOREM WebhooksKeepInvariant == SerialInserts => (Spec => []WebhookInv)
<1> SUFFICES ASSUME SerialInserts PROVE Spec => []WebhookInv
  OBVIOUS
<1>1. Init => WebhookInv
  <2> SUFFICES ASSUME Init PROVE WebhookInv
    OBVIOUS
  <2>1. TypeOK /\ OutboxInv /\ SerialInv
    BY OutboxStarts DEF Init, TypeOK, RequestStates, PassStates, BusyPasses
  <2>2. RowsGood /\ RequestsGood /\ PassGood /\ PageGood /\ GotPublished /\ DedupByMaxIsSafe
    BY DEF Init, OutboxInit, RowsGood, RequestsGood, PassGood, PageGood, GotPublished,
           DedupByMaxIsSafe
  <2> QED BY <2>1, <2>2 DEF WebhookInv
<1>2. WebhookInv /\ [Next]_vars => WebhookInv'
  <2> SUFFICES ASSUME WebhookInv, [Next]_vars PROVE WebhookInv'
    OBVIOUS
  <2>1. ASSUME NEW w \in Writers, Publishing(w) PROVE WebhookInv'
    BY <2>1, WriteKeepsWebhooks
  <2>2. ASSUME NEW s \in Subs, Request(s) PROVE WebhookInv'
    BY <2>2, RequestKeepsWebhooks
  <2>3. CASE Dispatch
    BY <2>3, DispatchKeepsWebhooks
  <2>4. CASE BreakPass \/ Restart
    BY <2>4, FaultKeepsWebhooks
  <2>5. CASE UNCHANGED vars
    BY <2>5 DEF vars, WebhookInv, TypeOK, OutboxTypeOK, OutboxInv, SerialInv, Inserting, WriterAt,
                RowsGood, RequestsGood, PassGood, PageGood, Oldest, Good, Caught, Reached, Due,
                Matches, GotPublished, DedupByMaxIsSafe
  <2> QED BY <2>1, <2>2, <2>3, <2>4, <2>5 DEF Next
<1> QED BY <1>1, <1>2, PTL DEF Spec

\* "Cursor не двигается, пока не пройдёт ok" (testum.md:242), whatever breaks.
THEOREM CursorIsHonest == SerialInserts => (Spec => []CursorHonest)
<1>1. WebhookInv => CursorHonest
  BY DEF WebhookInv, RowsGood, Good, Caught, CursorHonest
<1> QED BY <1>1, WebhooksKeepInvariant, PTL

\* A subscriber that drops what is not above its largest event_id
\* (testum.md:340) loses nothing.
THEOREM DedupLosesNothing == SerialInserts => (Spec => []DedupByMaxIsSafe)
<1>1. WebhookInv => DedupByMaxIsSafe
  BY DEF WebhookInv
<1> QED BY <1>1, WebhooksKeepInvariant, PTL

-----------------------------------------------------------------------------
(* Why subscriptions are disabled *)

\* The pass works on its copy of s, and the table is behind.
InHand(s) == pass # Idle /\ pass.at # "choosing" /\ pass.sub = s

\* The count of a row is what the endpoint saw, and the row is disabled for a
\* reason.
Earned(s, row) ==
    /\ row.failures = streak[s]
    /\ row.active => row.failures < MaxFailures
    /\ ~ row.active => row.failures = MaxFailures \/ s \in secretless

\* Of a subscription that is not in the table yet there is no copy either.
Unmade(s) ==
    /\ streak[s] = 0 /\ sub[s] = NoRow /\ ~ InHand(s)
    /\ pass # Idle => pass.todo[s] = NoRow
    /\ request[s].at = "saving" => request[s].row.active /\ request[s].row.failures = 0

EarnedInv ==
    /\ \A s \in Subs : request[s].at \in {"new", "saving"} => Unmade(s)
    /\ \A s \in Subs : sub[s] # NoRow /\ ~ InHand(s) => Earned(s, sub[s])
    /\ pass # Idle => \A s \in Subs : pass.todo[s] # NoRow =>
          ~ InHand(s) /\ Earned(s, pass.todo[s]) /\ pass.todo[s].active
    /\ \A s \in Subs : InHand(s) =>
          Earned(s, pass.row) /\ (pass.at # "saving" => pass.row.active)

\* A request brings a row into the table before anybody has a copy of it.
LEMMA RequestEarns ==
  ASSUME TypeOK, EarnedInv, NEW s \in Subs, Request(s)
  PROVE  EarnedInv'
<1> USE DEF Proceed, history
<1>1. UNCHANGED <<pass, streak, secretless>>
  BY DEF Request, ReadHead, SaveNew, Remember, AskDelete, DeleteRow, Forget
<1>2. /\ \A t \in Subs : InHand(t)' <=> InHand(t)
      /\ \A t \in Subs : \A row : Earned(t, row)' <=> Earned(t, row)
  BY <1>1 DEF InHand, Earned
<1>3. request \in [Subs -> RequestStates] /\ sub \in [Subs -> Rows \cup {NoRow}]
  BY DEF TypeOK
<1>4. \A t \in Subs : t # s => request'[t] = request[t] /\ sub'[t] = sub[t]
  BY <1>3 DEF Request, ReadHead, SaveNew, Remember, AskDelete, DeleteRow, Forget
<1>5. \A t \in Subs : t # s /\ Unmade(t) => Unmade(t)'
  BY <1>1, <1>2, <1>4 DEF Unmade
<1>6. CASE ReadHead(s)
  <2>1. /\ sub' = sub /\ Unmade(s) /\ request'[s].at = "saving"
        /\ request'[s].row.active /\ request'[s].row.failures = 0
    BY <1>3, <1>6 DEF ReadHead, EarnedInv
  <2>2. Unmade(s)'
    BY <1>1, <1>2, <2>1 DEF Unmade
  <2> QED BY <1>1, <1>2, <1>4, <1>5, <2>1, <2>2 DEF EarnedInv
<1>7. CASE SaveNew(s)
  <2>1. /\ sub'[s] = request[s].row /\ request'[s].at = "remembering"
        /\ Unmade(s) /\ request[s].at = "saving"
    BY <1>3, <1>7 DEF SaveNew, EarnedInv
  <2>2. Earned(s, sub'[s])
    BY <2>1, WebhookAssumption DEF Unmade, Earned, Positive
  <2> QED BY <1>1, <1>2, <1>4, <1>5, <2>1, <2>2 DEF EarnedInv
<1>8. CASE Remember(s) \/ AskDelete(s) \/ DeleteRow(s) \/ Forget(s)
  <2>1. request'[s].at \notin {"new", "saving"} /\ (sub'[s] = sub[s] \/ sub'[s] = NoRow)
    BY <1>3, <1>8 DEF Remember, AskDelete, DeleteRow, Forget
  <2> QED BY <1>1, <1>2, <1>4, <1>5, <2>1 DEF EarnedInv
<1> QED BY <1>6, <1>7, <1>8 DEF Request

\* A pass that goes on with the subscription in hand.
LEMMA HandEarns ==
  ASSUME EarnedInv, pass # Idle, pass' # Idle, pass.at # "choosing", pass'.at # "choosing",
         pass'.sub = pass.sub, pass'.todo = pass.todo,
         UNCHANGED <<sub, request, secretless>>,
         \A s \in Subs : s # pass.sub => streak'[s] = streak[s],
         \A s \in Subs : s = pass.sub =>
            Earned(s, pass.row)' /\ (pass'.at # "saving" => pass'.row.active)
  PROVE  EarnedInv'
<1>1. \A s \in Subs : (InHand(s)' <=> InHand(s)) /\ (InHand(s) <=> s = pass.sub)
  BY DEF InHand
<1>2. \A s \in Subs : \A row : s # pass.sub => (Earned(s, row)' <=> Earned(s, row))
  BY DEF Earned
<1>3. \A s \in Subs : Unmade(s) => Unmade(s)'
  BY <1>1 DEF Unmade
<1> QED BY <1>1, <1>2, <1>3 DEF EarnedInv

\* The dispatcher counts what the endpoint sees.
LEMMA DispatchEarns ==
  ASSUME TypeOK, TypeOK', EarnedInv, Dispatch
  PROVE  EarnedInv'
<1> USE DEF history
<1>1. request' = request
  BY DEF Dispatch, StartPass, ReadPage, SaveCopy, GetSecret, Skip, Deliver, Fail
<1>2. sub \in [Subs -> Rows \cup {NoRow}] /\ streak \in [Subs -> Nat]
  BY DEF TypeOK
<1>3. CASE StartPass
  <2> DEFINE todo == [s \in Subs |-> IF sub[s] # NoRow /\ sub[s].active THEN sub[s] ELSE NoRow]
  <2>1. pass = Idle /\ pass' = Choosing(todo) /\ UNCHANGED <<sub, streak, secretless>>
    BY <1>3 DEF StartPass
  <2>2. pass'.at = "choosing" /\ pass'.todo = todo
    BY <2>1 DEF Choosing
  <2>3. \A s \in Subs : todo[s] # NoRow => sub[s] # NoRow /\ sub[s].active /\ todo[s] = sub[s]
    OBVIOUS
  <2> HIDE DEF todo
  <2>4. \A s \in Subs : ~ InHand(s) /\ ~ InHand(s)'
    BY <2>1, <2>2 DEF InHand
  <2>5. \A s \in Subs : \A row : Earned(s, row)' <=> Earned(s, row)
    BY <2>1 DEF Earned
  <2>6. \A s \in Subs : Unmade(s) => Unmade(s)'
    BY <1>1, <2>1, <2>2, <2>3, <2>4 DEF Unmade
  <2> QED BY <1>1, <2>1, <2>2, <2>3, <2>4, <2>5, <2>6 DEF EarnedInv
<1>4. CASE ReadPage
  <2>1. /\ pass # Idle /\ pass.at = "reading"
        /\ UNCHANGED <<sub, streak, secretless>>
    BY <1>4 DEF ReadPage, PassAt
  <2>2. PICK page \in SUBSET outbox : pass' = Sending(pass.row, page)
    BY <1>4 DEF ReadPage
  <2>3. pass.row \in Rows /\ page \in SUBSET Events
    BY <2>1, PassInHand DEF TypeOK, OutboxTypeOK
  <2>4. pass' # Idle
    BY <2>1, <2>2, <2>3, SendingType
  <2>5. /\ pass'.at \in {"sending", "saving"} /\ pass'.row = pass.row
        /\ pass'.sub = pass.sub /\ pass'.todo = pass.todo
    BY <2>2 DEF Sending, Saving
  <2>6. \A s \in Subs : s = pass.sub => Earned(s, pass.row) /\ pass.row.active
    BY <2>1 DEF EarnedInv, InHand
  <2>7. \A s \in Subs : s = pass.sub => Earned(s, pass.row)'
    BY <2>1, <2>5, <2>6 DEF Earned
  <2> QED BY <1>1, <2>1, <2>4, <2>5, <2>6, <2>7, HandEarns
<1>5. CASE SaveCopy
  <2>1. /\ pass # Idle /\ pass.at = "saving" /\ sub' = [sub EXCEPT ![pass.sub] = pass.row]
        /\ UNCHANGED <<streak, secretless>>
    BY <1>5 DEF SaveCopy, PassAt
  <2>2. pass' = Idle \/ (pass'.at = "choosing" /\ pass'.todo = pass.todo)
    BY <1>5 DEF SaveCopy, Choosing
  <2>3. \A s \in Subs : /\ ~ InHand(s)' /\ (InHand(s) <=> s = pass.sub)
                        /\ s # pass.sub => sub'[s] = sub[s]
                        /\ s = pass.sub => sub'[s] = pass.row
    BY <1>2, <2>1, <2>2 DEF InHand
  <2>4. \A s \in Subs : \A row : Earned(s, row)' <=> Earned(s, row)
    BY <2>1 DEF Earned
  <2>5. \A s \in Subs : Unmade(s) => Unmade(s)'
    BY <1>1, <2>1, <2>2, <2>3 DEF Unmade
  <2> QED BY <1>1, <2>1, <2>2, <2>3, <2>4, <2>5 DEF EarnedInv
<1>6. ASSUME NEW s \in Subs, GetSecret(s) PROVE EarnedInv'
  <2>1. /\ pass # Idle /\ pass.at = "choosing" /\ pass.todo[s] # NoRow
        /\ pass.todo \in [Subs -> Rows \cup {NoRow}] /\ UNCHANGED <<sub, streak>>
    BY <1>6, PassInHand DEF GetSecret, PassAt
  <2>2. /\ pass'.todo = [pass.todo EXCEPT ![s] = NoRow] /\ pass'.sub = s
        /\ \/ pass'.at = "reading" /\ pass'.row = pass.todo[s]
           \/ /\ pass'.at = "saving" /\ pass'.row = [pass.todo[s] EXCEPT !.active = FALSE]
              /\ s \in secretless'
        /\ secretless \subseteq secretless'
    BY <1>6 DEF GetSecret
  <2>3. pass' # Idle
    <3>1. [pass.todo EXCEPT ![s] = NoRow] \in [Subs -> Rows \cup {NoRow}]
          /\ pass.todo[s] \in Rows /\ [pass.todo[s] EXCEPT !.active = FALSE] \in Rows
      BY <2>1 DEF Rows
    <3>2. pass' \in BusyPasses
      BY <1>6, <3>1 DEF GetSecret, BusyPasses
    <3> QED BY <3>2, IdleAssumption
  <2>4. \A t \in Subs : ~ InHand(t) /\ (InHand(t)' <=> t = s)
    BY <2>1, <2>2, <2>3 DEF InHand
  <2>5. \A t \in Subs : \A row : Earned(t, row) => Earned(t, row)'
    BY <2>1, <2>2 DEF Earned
  <2>6. \A t \in Subs : Unmade(t) => Unmade(t)'
    BY <1>1, <2>1, <2>2, <2>4 DEF Unmade
  <2>7. Earned(s, pass.todo[s]) /\ pass.todo[s].active /\ pass.todo[s] \in Rows
    BY <2>1 DEF EarnedInv
  <2>8. Earned(s, pass.row)' /\ (pass'.at # "saving" => pass'.row.active)
    <3>1. CASE pass'.at = "reading" /\ pass'.row = pass.todo[s]
      BY <2>5, <2>7, <3>1 DEF Earned
    <3>2. CASE pass'.at = "saving" /\ pass'.row = [pass.todo[s] EXCEPT !.active = FALSE]
               /\ s \in secretless'
      <4>1. ~ pass'.row.active /\ pass'.row.failures = pass.todo[s].failures
        BY <2>7, <3>2 DEF Rows
      <4> QED BY <2>1, <2>7, <3>2, <4>1 DEF Earned
    <3> QED BY <2>2, <3>1, <3>2
  <2>9. \A t \in Subs : pass'.todo[t] # NoRow => t # s /\ pass'.todo[t] = pass.todo[t]
    BY <2>1, <2>2
  <2> QED BY <1>1, <2>1, <2>2, <2>4, <2>5, <2>6, <2>8, <2>9 DEF EarnedInv
<1>7. ASSUME NEW e \in outbox,
             Skip(e) \/ Deliver(e) \/ \E received \in BOOLEAN : Fail(e, received)
      PROVE  EarnedInv'
  <2>1. /\ pass # Idle /\ pass.at = "sending" /\ UNCHANGED <<sub, secretless>>
        /\ e \in pass.page
    BY <1>7 DEF Skip, Deliver, Fail, IsNext, PassAt
  <2>2. /\ pass.row \in Rows /\ pass.sub \in Subs
        /\ pass.page \ {e} \in SUBSET Events /\ e.id \in Nat
    BY <2>1, PassInHand DEF TypeOK, OutboxTypeOK, Events, Positive
  <2>3. Earned(pass.sub, pass.row) /\ pass.row.active /\ pass.row.failures \in Nat
    BY <2>1, <2>2 DEF EarnedInv, InHand, Rows
  <2>4. \A row \in Rows : \A next : next = Sending(row, pass.page \ {e}) \/ next = Saving(row) =>
           /\ next # Idle /\ next.at \in {"sending", "saving"} /\ next.row = row
           /\ next.sub = pass.sub /\ next.todo = pass.todo
    <3> TAKE row \in Rows
    <3>1. Saving(row) # Idle /\ Sending(row, pass.page \ {e}) # Idle
      BY <2>1, <2>2, SendingType
    <3> QED BY <3>1 DEF Sending, Saving
  <2>5. CASE Skip(e)
    <3>1. PICK row : row = [pass.row EXCEPT !.cursor = e.id]
      OBVIOUS
    <3>2. /\ row \in Rows /\ row.active = pass.row.active /\ row.failures = pass.row.failures
      BY <2>2, <3>1 DEF Rows
    <3>3. pass' = Sending(row, pass.page \ {e}) /\ streak' = streak
      BY <2>5, <3>1 DEF Skip
    <3>4. Earned(pass.sub, row)
      BY <2>3, <3>2 DEF Earned
    <3>5. \A s \in Subs : s = pass.sub => Earned(s, pass.row)' /\ pass'.row.active
      BY <2>1, <2>3, <2>4, <3>2, <3>3, <3>4 DEF Earned
    <3> QED BY <1>1, <2>1, <2>4, <3>2, <3>3, <3>5, HandEarns
  <2>6. CASE Deliver(e)
    <3>1. PICK row : row = [active |-> TRUE, cursor |-> e.id, failures |-> 0]
      OBVIOUS
    <3>2. row \in Rows /\ row.active /\ row.failures = 0
      BY <2>2, <3>1 DEF Rows
    <3>3. /\ pass' = Sending(row, pass.page \ {e})
          /\ streak' = [streak EXCEPT ![pass.sub] = 0]
      BY <2>6, <3>1 DEF Deliver
    <3>4. \A s \in Subs : s = pass.sub => Earned(s, pass.row)' /\ pass'.row.active
      <4>1. pass'.row = row /\ streak'[pass.sub] = 0
        BY <1>2, <2>2, <2>4, <3>2, <3>3
      <4>2. 0 < MaxFailures
        BY WebhookAssumption DEF Positive
      <4> QED BY <3>2, <4>1, <4>2 DEF Earned
    <3> QED BY <1>1, <1>2, <2>1, <2>4, <3>2, <3>3, <3>4, HandEarns
  <2>7. CASE \E received \in BOOLEAN : Fail(e, received)
    <3>1. PICK row : row = FailedRow
      OBVIOUS
    <3>2. /\ pass' = Saving(row)
          /\ streak' = [streak EXCEPT ![pass.sub] = @ + 1]
      BY <2>7, <3>1 DEF Fail
    <3>3. /\ row.failures = pass.row.failures + 1
          /\ row.active = (row.failures < MaxFailures)
          /\ row.cursor = pass.row.cursor
      BY <3>1 DEF FailedRow
    <3>4. row \in Rows
      <4>1. [active |-> (pass.row.failures + 1 < MaxFailures), cursor |-> pass.row.cursor,
             failures |-> pass.row.failures + 1] \in Rows
        BY <2>2, <2>3 DEF Rows
      <4> QED BY <3>1, <4>1 DEF FailedRow
    <3>5. pass.row.failures < MaxFailures /\ MaxFailures \in Nat
      BY <2>3, WebhookAssumption DEF Earned, Positive
    <3>6. row.active <=> row.failures < MaxFailures
      BY <3>3
    <3>7. ~ row.active => row.failures = MaxFailures
      BY <2>3, <3>3, <3>5, <3>6
    <3>8. streak'[pass.sub] = row.failures
      BY <1>2, <2>2, <2>3, <3>2, <3>3 DEF Earned
    <3>9. pass'.at = "saving" /\ pass'.row = row
      BY <3>2 DEF Saving
    <3>10. \A s \in Subs : s = pass.sub => Earned(s, pass.row)'
      BY <3>6, <3>7, <3>8, <3>9 DEF Earned
    <3> QED BY <1>1, <1>2, <2>1, <2>4, <3>2, <3>4, <3>9, <3>10, HandEarns
  <2> QED BY <1>7, <2>5, <2>6, <2>7
<1> QED BY <1>3, <1>4, <1>5, <1>6, <1>7 DEF Dispatch

\* Disabled for max_failures failed posts in a row, or for want of a secret
\* (testum.md:241-247): the count survives requests and passes in any order.
THEOREM DisablingIsEarned == Spec => []DisabledIsEarned
<1>1. Init => (faults = 0 => EarnedInv)
  BY DEF Init, EarnedInv, Unmade, InHand
<1>2. TypeOK /\ TypeOK' /\ (faults = 0 => EarnedInv) /\ [Next]_vars => (faults = 0 => EarnedInv)'
  <2> SUFFICES ASSUME TypeOK, TypeOK', faults = 0 => EarnedInv, [Next]_vars, faults' = 0
               PROVE  EarnedInv'
    OBVIOUS
  <2>1. ASSUME NEW w \in Writers, Publishing(w) PROVE EarnedInv'
    BY <2>1 DEF Publishing, history, EarnedInv, Unmade, InHand, Earned
  <2>2. ASSUME NEW s \in Subs, Request(s) PROVE EarnedInv'
    <3>1. faults' = faults
      BY <2>2 DEF Request, ReadHead, SaveNew, Remember, AskDelete, DeleteRow, Forget
    <3> QED BY <2>2, <3>1, RequestEarns
  <2>3. CASE Dispatch
    <3>1. faults' = faults
      BY <2>3 DEF Dispatch, StartPass, ReadPage, SaveCopy, GetSecret, Skip, Deliver, Fail
    <3> QED BY <2>3, <3>1, DispatchEarns
  <2>4. CASE BreakPass \/ Restart
    BY <2>4 DEF BreakPass, Restart, Fault, TypeOK
  <2>5. CASE UNCHANGED vars
    BY <2>5 DEF vars, EarnedInv, Unmade, InHand, Earned
  <2> QED BY <2>1, <2>2, <2>3, <2>4, <2>5 DEF Next
<1>3. TypeOK /\ (faults = 0 => EarnedInv) => DisabledIsEarned
  <2> SUFFICES ASSUME TypeOK, EarnedInv, pass = Idle, NEW s \in Subs, sub[s] # NoRow
               PROVE  /\ sub[s].failures = streak[s]
                      /\ ~ sub[s].active => streak[s] = MaxFailures \/ s \in secretless
    BY DEF DisabledIsEarned
  <2>1. Earned(s, sub[s])
    BY DEF EarnedInv, InHand
  <2> QED BY <2>1 DEF Earned
<1> QED BY <1>1, <1>2, <1>3, WebhooksTypeCorrect, PTL DEF Spec

==============================================================================
