------------------------------- MODULE Webhooks -------------------------------
(***************************************************************************)
(* Webhook subscriptions and their dispatcher (core/use_cases/webhooks.py) *)
(* over the outbox.  The dispatcher lists the active subscriptions, and    *)
(* for each of them gets the secret, reads a page of events, posts those   *)
(* that match and saves the whole subscription once, at the end; meanwhile *)
(* subscriptions are created and deleted.  One process runs it; it may be  *)
(* restarted, and with the in-memory secret store it then has no secrets.  *)
(*                                                                         *)
(* A POST and what the dispatcher notes of its result in its own copy are  *)
(* one step: nobody reads that copy.  Every subscription has the same      *)
(* filter; timestamps and the text of the last result are left out.        *)
(***************************************************************************)
EXTENDS Outbox

CONSTANTS
    Subs, NoRow,
    Filter,         \* kinds of event the subscriptions are for
    BatchSize, MaxFailures,
    SecretsSurvive, \* the secret store is a file and outlives the process
    MaxFaults       \* bound on broken passes and restarts

ASSUME WebhookAssumption ==
    /\ Filter \subseteq Kinds
    /\ BatchSize \in Positive /\ MaxFailures \in Positive
    /\ SecretsSurvive \in BOOLEAN
    /\ MaxFaults \in Nat

Rows == [active : BOOLEAN, cursor : Nat, failures : Nat]

\* The life of a subscription id: the request that creates it, rest, the
\* request that deletes it.
RequestStates ==
    [at : {"new", "remembering", "created", "deleting", "forgetting", "gone"}]
        \cup [at : {"saving"}, row : Rows]

\* A pass of the dispatcher: the copies still to be served, the one in hand
\* and the rest of its page.
BusyPasses ==
    LET Todo == [Subs -> Rows \cup {NoRow}] IN
    [at : {"choosing"}, todo : Todo]
        \cup [at : {"reading", "saving"}, todo : Todo, sub : Subs, row : Rows]
        \cup [at : {"sending"}, todo : Todo, sub : Subs, row : Rows, page : SUBSET Events]

ASSUME IdleAssumption == Idle \notin BusyPasses

PassStates == {Idle} \cup BusyPasses

VARIABLES
    sub,        \* webhook_subscriptions table
    secrets,    \* subscriptions whose secret the store holds
    request, pass,
    faults,     \* bound
    start,      \* history: cursor a subscription was created with
    got,        \* history: event ids its endpoint received
    streak,     \* history: failed posts since the last good one
    secretless  \* history: subscriptions whose secret was looked for in vain

vars == <<saved, writer, nextId, outbox, sub, secrets, request, pass, faults,
          start, got, streak, secretless>>

TypeOK ==
    /\ OutboxTypeOK
    /\ sub \in [Subs -> Rows \cup {NoRow}]
    /\ secrets \subseteq Subs
    /\ request \in [Subs -> RequestStates]
    /\ pass \in PassStates
    /\ faults \in Nat
    /\ start \in [Subs -> Nat] /\ got \in [Subs -> SUBSET Positive]
    /\ streak \in [Subs -> Nat] /\ secretless \subseteq Subs

Init ==
    /\ OutboxInit
    /\ sub = [s \in Subs |-> NoRow] /\ secrets = {}
    /\ request = [s \in Subs |-> [at |-> "new"]]
    /\ pass = Idle /\ faults = 0
    /\ start = [s \in Subs |-> 0] /\ got = [s \in Subs |-> {}]
    /\ streak = [s \in Subs |-> 0] /\ secretless = {}

history == <<start, got, streak, secretless>>

Matches(e) == saved[e.change] \in Filter

-----------------------------------------------------------------------------
(* Requests *)

Proceed(s, state) == request' = [request EXCEPT ![s] = state]

\* CreateWebhookSubscription: the cursor starts at the head of the outbox ...
ReadHead(s) ==
    /\ request[s].at = "new"
    /\ \E h \in Heads :
         Proceed(s, [at |-> "saving", row |-> [active |-> TRUE, cursor |-> h, failures |-> 0]])
    /\ UNCHANGED <<outboxVars, sub, secrets, pass, faults, history>>

\* ... the row is saved ...
SaveNew(s) ==
    /\ request[s].at = "saving"
    /\ sub' = [sub EXCEPT ![s] = request[s].row]
    /\ start' = [start EXCEPT ![s] = request[s].row.cursor]
    /\ Proceed(s, [at |-> "remembering"])
    /\ UNCHANGED <<outboxVars, secrets, pass, faults, got, streak, secretless>>

\* ... and only then the secret is.
Remember(s) ==
    /\ request[s].at = "remembering"
    /\ secrets' = secrets \cup {s}
    /\ Proceed(s, [at |-> "created"])
    /\ UNCHANGED <<outboxVars, sub, pass, faults, history>>

\* DeleteWebhookSubscription: get, delete, forget.
AskDelete(s) ==
    /\ request[s].at \in {"created", "gone"} /\ sub[s] # NoRow
    /\ Proceed(s, [at |-> "deleting"])
    /\ UNCHANGED <<outboxVars, sub, secrets, pass, faults, history>>

DeleteRow(s) ==
    /\ request[s].at = "deleting"
    /\ sub' = [sub EXCEPT ![s] = NoRow]
    /\ Proceed(s, [at |-> "forgetting"])
    /\ UNCHANGED <<outboxVars, secrets, pass, faults, history>>

Forget(s) ==
    /\ request[s].at = "forgetting"
    /\ secrets' = secrets \ {s}
    /\ Proceed(s, [at |-> "gone"])
    /\ UNCHANGED <<outboxVars, sub, pass, faults, history>>

Request(s) ==
    ReadHead(s) \/ SaveNew(s) \/ Remember(s) \/ AskDelete(s) \/ DeleteRow(s) \/ Forget(s)

-----------------------------------------------------------------------------
(* DispatchWebhooks.execute *)

PassAt(step) == pass # Idle /\ pass.at = step

Choosing(todo) == [at |-> "choosing", todo |-> todo]
Saving(row) == [at |-> "saving", todo |-> pass.todo, sub |-> pass.sub, row |-> row]

\* The page goes on until it is used up.
Sending(row, page) ==
    IF page = {} THEN Saving(row)
    ELSE [at |-> "sending", todo |-> pass.todo, sub |-> pass.sub, row |-> row, page |-> page]

\* list_active; without any the pass is over.
StartPass ==
    /\ pass = Idle
    /\ \E s \in Subs : sub[s] # NoRow /\ sub[s].active
    /\ pass' = Choosing([s \in Subs |-> IF sub[s] # NoRow /\ sub[s].active THEN sub[s]
                                        ELSE NoRow])
    /\ UNCHANGED <<outboxVars, sub, secrets, request, faults, history>>

\* signer_store.get; the list is ordered by creation, here in any order.
GetSecret(s) ==
    /\ PassAt("choosing") /\ pass.todo[s] # NoRow
    /\ LET todo == [pass.todo EXCEPT ![s] = NoRow] IN
       pass' = IF s \in secrets
               THEN [at |-> "reading", todo |-> todo, sub |-> s, row |-> pass.todo[s]]
               ELSE [at |-> "saving", todo |-> todo, sub |-> s,
                     row |-> [pass.todo[s] EXCEPT !.active = FALSE]]
    /\ secretless' = IF s \in secrets THEN secretless ELSE secretless \cup {s}
    /\ UNCHANGED <<outboxVars, sub, secrets, request, faults, start, got, streak>>

ReadPage ==
    /\ PassAt("reading")
    /\ \E page \in SUBSET outbox :
         /\ IsPage(page, pass.row.cursor, BatchSize)
         /\ pass' = Sending(pass.row, page)
    /\ UNCHANGED <<outboxVars, sub, secrets, request, faults, history>>

\* The events of the page in order.
IsNext(e) == PassAt("sending") /\ e \in pass.page /\ \A f \in pass.page : e.id <= f.id

\* Mutant: an event that is not for the subscription is passed over and no more.
SkipOnly(e) ==
    /\ IsNext(e) /\ ~Matches(e)
    /\ pass' = Sending(pass.row, pass.page \ {e})
    /\ UNCHANGED <<outboxVars, sub, secrets, request, faults, history>>

\* Not for this subscription: only the cursor moves.
Skip(e) ==
    /\ IsNext(e) /\ ~Matches(e)
    /\ pass' = Sending([pass.row EXCEPT !.cursor = e.id], pass.page \ {e})
    /\ UNCHANGED <<outboxVars, sub, secrets, request, faults, history>>

\* Mutant: mark_delivered leaves the count of failures.
DeliverKeepsFailures(e) ==
    /\ IsNext(e) /\ Matches(e)
    /\ pass' = Sending([pass.row EXCEPT !.cursor = e.id], pass.page \ {e})
    /\ got' = [got EXCEPT ![pass.sub] = @ \cup {e.id}]
    /\ streak' = [streak EXCEPT ![pass.sub] = 0]
    /\ UNCHANGED <<outboxVars, sub, secrets, request, faults, start, secretless>>

\* The endpoint answers 2xx: mark_delivered.
Deliver(e) ==
    /\ IsNext(e) /\ Matches(e)
    /\ pass' = Sending([active |-> TRUE, cursor |-> e.id, failures |-> 0], pass.page \ {e})
    /\ got' = [got EXCEPT ![pass.sub] = @ \cup {e.id}]
    /\ streak' = [streak EXCEPT ![pass.sub] = 0]
    /\ UNCHANGED <<outboxVars, sub, secrets, request, faults, start, secretless>>

FailedRow ==
    LET failures == pass.row.failures + 1 IN
    [active |-> failures < MaxFailures, cursor |-> pass.row.cursor, failures |-> failures]

\* Mutant: the next event of the page is tried after a failure.
FailAndGoOn(e, received) ==
    /\ IsNext(e) /\ Matches(e)
    /\ pass' = Sending(FailedRow, pass.page \ {e})
    /\ got' = IF received THEN [got EXCEPT ![pass.sub] = @ \cup {e.id}] ELSE got
    /\ streak' = [streak EXCEPT ![pass.sub] = @ + 1]
    /\ UNCHANGED <<outboxVars, sub, secrets, request, faults, start, secretless>>

\* No answer or another one, whether the endpoint has the event or not:
\* mark_failed, perhaps disable, and no further event in this pass.
Fail(e, received) ==
    /\ IsNext(e) /\ Matches(e)
    /\ pass' = Saving(FailedRow)
    /\ got' = IF received THEN [got EXCEPT ![pass.sub] = @ \cup {e.id}] ELSE got
    /\ streak' = [streak EXCEPT ![pass.sub] = @ + 1]
    /\ UNCHANGED <<outboxVars, sub, secrets, request, faults, start, secretless>>

\* save is a merge: the copy replaces the row, or inserts it again.
SaveCopy ==
    /\ PassAt("saving")
    /\ sub' = [sub EXCEPT ![pass.sub] = pass.row]
    /\ pass' = IF \A s \in Subs : pass.todo[s] = NoRow THEN Idle ELSE Choosing(pass.todo)
    /\ UNCHANGED <<outboxVars, secrets, request, faults, history>>

Dispatch ==
    \/ StartPass \/ ReadPage \/ SaveCopy
    \/ \E s \in Subs : GetSecret(s)
    \/ \E e \in outbox : Skip(e) \/ Deliver(e) \/ \E received \in BOOLEAN : Fail(e, received)

Fault == faults < MaxFaults /\ faults' = faults + 1

\* A call of the pass raises; _periodic logs it and sleeps.
BreakPass ==
    /\ pass # Idle /\ Fault
    /\ pass' = Idle
    /\ UNCHANGED <<outboxVars, sub, secrets, request, history>>

\* What is left of a request that was in flight.
AfterRestart(step) ==
    CASE step \in {"remembering", "deleting"} -> "created"
      [] step \in {"saving", "forgetting"} -> "gone"
      [] step \in {"new", "created", "gone"} -> step

\* The process is stopped, or dies, and started again.
Restart ==
    /\ Fault
    /\ pass' = Idle
    /\ writer' = [w \in Writers |-> Idle]
    /\ request' = [s \in Subs |-> [at |-> AfterRestart(request[s].at)]]
    /\ secrets' = IF SecretsSurvive THEN secrets ELSE {}
    /\ UNCHANGED <<saved, nextId, outbox, sub, history>>

Publishing(w) == Write(w) /\ UNCHANGED <<sub, secrets, request, pass, faults, history>>

Next ==
    \/ \E w \in Writers : Publishing(w)
    \/ \E s \in Subs : Request(s)
    \/ Dispatch \/ BreakPass \/ Restart

Spec == Init /\ [][Next]_vars

\* The loop of the dispatcher goes on for ever (_periodic).
FairSpec == Spec /\ WF_vars(Dispatch)

-----------------------------------------------------------------------------
(* Properties *)

Due(s, e) == Matches(e) /\ e.id > start[s]

\* "Cursor не двигается, пока не пройдёт ok" (testum.md:242): behind the cursor
\* of a subscription there is no event for it that its endpoint did not get,
\* whatever broke, was restarted, or was saved over a deleted row.
CursorHonest ==
    \A s \in Subs : sub[s] # NoRow =>
        \A e \in outbox : Due(s, e) /\ e.id <= sub[s].cursor => e.id \in got[s]

\* "Подписчик хранит max(event_id) и игнорирует всё <=" (testum.md:340) loses
\* nothing: no event reaches an endpoint before the ones it is due earlier.
DedupByMaxIsSafe ==
    \A s \in Subs : \A e, f \in outbox :
        Due(s, e) /\ e.id < f.id /\ f.id \in got[s] => e.id \in got[s]

\* A subscription is disabled by max_failures posts that failed in a row, or
\* for want of its secret (testum.md:241-247); only a pass that was cut short
\* after its posts makes the count differ from what the endpoint saw.
DisabledIsEarned ==
    pass = Idle /\ faults = 0 =>
        \A s \in Subs : sub[s] # NoRow =>
            /\ sub[s].failures = streak[s]
            /\ ~sub[s].active => streak[s] = MaxFailures \/ s \in secretless

\* At least once (webhook.py:3): an event for a subscription reaches its
\* endpoint, unless the subscription is disabled or deleted.
DeliveredOrDisabled ==
    \A s \in Subs : \A i \in 1..MaxChanges :
        (sub[s] # NoRow /\ \E e \in outbox : e.id = i /\ Due(s, e))
            ~> (i \in got[s] \/ sub[s] = NoRow \/ ~sub[s].active)

=============================================================================
