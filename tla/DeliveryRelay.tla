--------------------------- MODULE DeliveryRelay ---------------------------
(***************************************************************************)
(* The way of a GitHub event through the relay (diffuse_relay/store.py and *)
(* app.py) to a self-hosted server (diffuse/github/delivery_poller.py):    *)
(* recorded by the webhook, leased to the poller of the bound instance,    *)
(* ingested into the server's own database, acknowledged and deleted.      *)
(*                                                                         *)
(* One installation is modelled: installations share only the retention    *)
(* sweep.  A request of the poller takes two transactions of the relay,    *)
(* authenticate_instance and then the pull or the acknowledgement, and     *)
(* anything may happen between them.  The poller can be killed or stop     *)
(* waiting at any moment; a request that was admitted may then still be    *)
(* served.  How a server comes by its credential is RelayEnrollment.       *)
(***************************************************************************)
EXTENDS Integers, FiniteSets

CONSTANTS
    Deliveries,     \* X-GitHub-Delivery ids
    Poison,         \* deliveries whose ingestion always raises
    Servers,        \* self-hosted deployments, each with its own database
    Limit,          \* LIMIT of one pull
    MaxSends,       \* bound on webhook requests, redeliveries included
    MaxBindings,    \* bound on the credentials issued
    MaxFaults       \* bound on crashes, timeouts and transient errors

ASSUME RelayAssumption ==
    /\ Poison \subseteq Deliveries
    /\ IsFiniteSet(Deliveries)
    /\ Limit \in Nat \ {0}
    /\ MaxSends \in Nat /\ MaxBindings \in Nat /\ MaxFaults \in Nat

None == "none"          \* no delivery: none to acknowledge
NoBinding == 0          \* no instance, no token

VARIABLES
    row,        \* app_installations: absent, active or inactive
    instance,   \* the instance that is not revoked, or NoBinding
    token,      \* the token whose hash that instance carries
    issued,     \* how many tokens were issued; an instance is named after its first
    cred,       \* the token in each server's environment
    arrived,    \* received_at of a stored event, 0 when it is not stored
    sends,      \* webhook requests so far: the clock of received_at
    horizon,    \* received_at of the newest event past EVENT_RETENTION_DAYS
    receipts,   \* rows of webhook_event_deliveries: <<instance, delivery>>
    leases,     \* unexpired leases, grouped by the pull that took them
    batch,      \* what a poller has left of the events it pulled
    acking,     \* the event a poller has ingested and not yet acknowledged
    granted,    \* the instance a poller's request was authenticated as
    orphans,    \* admitted requests whose poller no longer waits for them
    ingested,   \* deliveries admitted by the database of each server
    faults

bindingVars == <<row, instance, token, issued>>
eventVars == <<arrived, sends, horizon, receipts, leases>>
pollerVars == <<cred, batch, acking, granted, ingested>>
vars == <<bindingVars, eventVars, pollerVars, orphans, faults>>

Tokens == 1..MaxBindings
Lease == [instance : Tokens, events : SUBSET Deliveries]
Call == [server : Servers, instance : Tokens, event : Deliveries \cup {None}]

\* The state each variable is drawn from.
TypeOK ==
    /\ row \in {"absent", "active", "inactive"}
    /\ instance \in Tokens \cup {NoBinding}
    /\ token \in Tokens \cup {NoBinding}
    /\ issued \in 0..MaxBindings
    /\ cred \in [Servers -> Tokens \cup {NoBinding}]
    /\ sends \in 0..MaxSends
    /\ horizon \in 0..sends
    /\ arrived \in [Deliveries -> 0..sends]
    /\ receipts \subseteq Tokens \X Deliveries
    /\ leases \subseteq Lease
    /\ batch \in [Servers -> SUBSET Deliveries]
    /\ acking \in [Servers -> Deliveries \cup {None}]
    /\ granted \in [Servers -> Tokens \cup {NoBinding}]
    /\ orphans \subseteq Call
    /\ ingested \in [Servers -> SUBSET Deliveries]
    /\ faults \in 0..MaxFaults

Stored == {d \in Deliveries : arrived[d] > 0}

\* No installation is verified and no server connected at first.
Init ==
    /\ row = "absent"
    /\ instance = NoBinding /\ token = NoBinding /\ issued = 0
    /\ cred = [s \in Servers |-> NoBinding]
    /\ arrived = [d \in Deliveries |-> 0]
    /\ sends = 0 /\ horizon = 0
    /\ receipts = {} /\ leases = {}
    /\ batch = [s \in Servers |-> {}]
    /\ acking = [s \in Servers |-> None]
    /\ granted = [s \in Servers |-> NoBinding]
    /\ orphans = {}
    /\ ingested = [s \in Servers |-> {}]
    /\ faults = 0

-----------------------------------------------------------------------------
(* The relay's tables.                                                     *)

\* Deleting events deletes their receipts with them (ON DELETE CASCADE).
Without(events) ==
    /\ receipts' = {r \in receipts : r[2] \notin events}
    /\ leases' = {m \in {[l EXCEPT !.events = @ \ events] : l \in leases} : m.events # {}}

\* The events the retention sweep of record_webhook_event deletes.
Outdated == {d \in Stored : arrived[d] <= horizon}

\* record_webhook_event: the sweep, then the insert, which an inactive
\* installation or a stored delivery of the same id turns into nothing.
RecordWebhookEvent(d) ==
    LET kept == [e \in Deliveries |-> IF e \in Outdated THEN 0 ELSE arrived[e]]
        accepted == row = "active" /\ kept[d] = 0
    IN  /\ sends < MaxSends
        /\ sends' = sends + 1
        /\ arrived' = IF accepted THEN [kept EXCEPT ![d] = sends + 1] ELSE kept
        /\ Without(Outdated)
        /\ UNCHANGED <<horizon, bindingVars, pollerVars, orphans, faults>>

\* Time passes: one more event is older than the retention period.
Age ==
    /\ horizon < sends
    /\ horizon' = horizon + 1
    /\ UNCHANGED <<arrived, sends, receipts, leases, bindingVars, pollerVars,
                   orphans, faults>>

\* record_verified_installation, or the `unsuspend` webhook of a known one.
Activate ==
    /\ row' = "active"
    /\ UNCHANGED <<instance, token, issued, eventVars, pollerVars, orphans, faults>>

\* The `suspend` webhook.
Suspend ==
    /\ row = "active"
    /\ row' = "inactive"
    /\ UNCHANGED <<instance, token, issued, eventVars, pollerVars, orphans, faults>>

\* The `deleted` webhook also revokes the live instance.
Uninstall ==
    /\ row # "absent"
    /\ row' = "inactive"
    /\ instance' = NoBinding /\ token' = NoBinding
    /\ UNCHANGED <<issued, eventVars, pollerVars, orphans, faults>>

\* Faulty variant: a revoked instance is revived with the token it had.
BoundAgain(k) == IF instance = NoBinding /\ issued > 0 THEN issued ELSE k

\* The token _insert_instance_credentials puts in the row: always a new one.
BoundToken(k) == k

\* A server is bound: a live instance keeps its id and gets a new token, otherwise
\* an instance is inserted.  A connect session also activates the installation,
\* a connection code leaves it as it is.  The poller is restarted with the new
\* environment.
Connect(s) ==
    LET k == issued + 1
        i == IF instance = NoBinding THEN BoundToken(k) ELSE instance
    IN  /\ issued < MaxBindings
        /\ issued' = k
        /\ row' = "active" \/ (row # "absent" /\ row' = row)
        /\ instance' = i /\ token' = BoundToken(k)
        /\ cred' = [cred EXCEPT ![s] = BoundToken(k)]
        /\ batch' = [batch EXCEPT ![s] = {}]
        /\ acking' = [acking EXCEPT ![s] = None]
        /\ granted' = [granted EXCEPT ![s] = NoBinding]
        /\ UNCHANGED <<eventVars, ingested, orphans, faults>>

\* authenticate_instance: the token of a row that is not revoked.
Authenticated(s) == cred[s] # NoBinding /\ cred[s] = token

\* revoke_instance: `diffuse github disconnect`.
Disconnect(s) ==
    /\ Authenticated(s)
    /\ instance' = NoBinding /\ token' = NoBinding
    /\ UNCHANGED <<row, issued, eventVars, pollerVars, orphans, faults>>

Leased(i) == UNION {l.events : l \in {m \in leases : m.instance = i}}

\* Faulty variant: only an event without a receipt is handed out.
AvailableOnce(i) == {d \in Stored : <<i, d>> \notin receipts}

\* The events a pull may take: stored, and under no unexpired lease of i.
Available(i) == Stored \ Leased(i)

\* ORDER BY received_at LIMIT: the oldest available events.
Oldest(D, i) ==
    /\ D \subseteq Available(i)
    /\ Cardinality(D) <= Limit
    /\ Cardinality(D) = Limit \/ D = Available(i)
    /\ \A d \in D, e \in Available(i) \ D : arrived[d] < arrived[e]

\* pull_events commits the leases before the response leaves.
PullEvents(i, D) ==
    /\ Oldest(D, i)
    /\ receipts' = receipts \cup ({i} \X D)
    /\ leases' = leases \cup {l \in {[instance |-> i, events |-> D]} : D # {}}
    /\ UNCHANGED <<arrived, sends, horizon>>

\* acknowledge_event goes by the receipt of the instance ...
Acknowledged(i, d) == d \in Stored /\ <<i, d>> \in receipts

\* ... and deletes the event.
AcknowledgeEvent(d) ==
    /\ arrived' = [arrived EXCEPT ![d] = 0]
    /\ Without({d})
    /\ UNCHANGED <<sends, horizon>>

\* A lease runs out: leased_until < now().  All events of a pull share it.
LeaseLapses(l) ==
    /\ l \in leases
    /\ leases' = leases \ {l}
    /\ UNCHANGED <<arrived, sends, horizon, receipts, bindingVars, pollerVars,
                   orphans, faults>>

-----------------------------------------------------------------------------
(* The poller: pull_once, one transaction at a time.                       *)

\* Faulty variant: a request without a valid credential is not refused.
WaitingUnchecked(s) == TRUE

\* The relay has admitted a request of the poller and not answered it yet.
Waiting(s) == granted[s] # NoBinding
Between(s) == batch[s] = {} /\ acking[s] = None

\* The exception that leaves pull_once: the rest of the batch stays leased.
Abandoned(s) ==
    /\ batch' = [batch EXCEPT ![s] = {}]
    /\ acking' = [acking EXCEPT ![s] = None]
    /\ granted' = [granted EXCEPT ![s] = NoBinding]

\* A pull, or the acknowledgement of what was ingested, is admitted by the relay.
Request(s) ==
    /\ ~Waiting(s)
    /\ Between(s) \/ acking[s] # None
    /\ Authenticated(s)
    /\ granted' = [granted EXCEPT ![s] = instance]
    /\ UNCHANGED <<cred, batch, acking, ingested, bindingVars, eventVars, orphans, faults>>

\* The statement that returns the events does not order them, so the poller
\* may work through a batch in any order.
Pull(s) ==
    /\ Waiting(s) /\ Between(s)
    /\ \E D \in SUBSET Deliveries :
         /\ PullEvents(granted[s], D)
         /\ batch' = [batch EXCEPT ![s] = D]
    /\ granted' = [granted EXCEPT ![s] = NoBinding]
    /\ UNCHANGED <<cred, acking, ingested, bindingVars, orphans, faults>>

\* Faulty variant: an exception of ingest_event is logged and acknowledged.
IngestSwallowing(s, d) ==
    /\ acking[s] = None
    /\ d \in batch[s]
    /\ ingested' = [ingested EXCEPT ![s] = @ \cup ({d} \ Poison)]
    /\ acking' = [acking EXCEPT ![s] = d]
    /\ UNCHANGED <<cred, batch, granted, bindingVars, eventVars, orphans, faults>>

\* ingest_event admits an event that the server's database has already, or that
\* is none of its business, without a second effect.
Ingest(s, d) ==
    /\ acking[s] = None
    /\ d \in batch[s]
    /\ d \notin Poison
    /\ ingested' = [ingested EXCEPT ![s] = @ \cup {d}]
    /\ acking' = [acking EXCEPT ![s] = d]
    /\ UNCHANGED <<cred, batch, granted, bindingVars, eventVars, orphans, faults>>

\* A conflict with local state, or a payload the normalisers reject.
IngestRaises(s, d) ==
    /\ acking[s] = None
    /\ d \in batch[s]
    /\ d \in Poison
    /\ Abandoned(s)
    /\ UNCHANGED <<cred, ingested, bindingVars, eventVars, orphans, faults>>

\* The relay deletes the event and the poller goes on with its batch.
Acknowledge(s) ==
    LET d == acking[s]
    IN  /\ Waiting(s) /\ d # None
        /\ Acknowledged(granted[s], d)
        /\ AcknowledgeEvent(d)
        /\ batch' = [batch EXCEPT ![s] = @ \ {d}]
        /\ acking' = [acking EXCEPT ![s] = None]
        /\ granted' = [granted EXCEPT ![s] = NoBinding]
        /\ UNCHANGED <<cred, ingested, bindingVars, orphans, faults>>

\* 401 for a dead token, 404 for an event that is not pending for the instance.
AcknowledgementRejected(s) ==
    /\ acking[s] # None
    /\ IF Waiting(s) THEN ~Acknowledged(granted[s], acking[s]) ELSE ~Authenticated(s)
    /\ Abandoned(s)
    /\ UNCHANGED <<cred, ingested, bindingVars, eventVars, orphans, faults>>

\* The poller is killed, its request times out or does not arrive, or ingestion
\* fails for a passing reason.  Whatever was committed stays, and a request that
\* was admitted dies as well or goes on without its poller.
GiveUp(s) ==
    /\ faults < MaxFaults
    /\ faults' = faults + 1
    /\ Waiting(s) \/ ~Between(s)
    /\ \/ UNCHANGED orphans
       \/ /\ Waiting(s)
          /\ orphans' = orphans \cup
                 {[server |-> s, instance |-> granted[s], event |-> acking[s]]}
    /\ Abandoned(s)
    /\ UNCHANGED <<cred, ingested, bindingVars, eventVars>>

\* An abandoned request is served: leases nobody works under, or an event deleted
\* without the poller being told.
Orphan(c) ==
    /\ c \in orphans
    /\ orphans' = orphans \ {c}
    /\ \/ c.event = None /\ \E D \in SUBSET Deliveries : PullEvents(c.instance, D)
       \/ /\ c.event # None /\ Acknowledged(c.instance, c.event)
          /\ AcknowledgeEvent(c.event)
       \/ /\ c.event # None /\ ~Acknowledged(c.instance, c.event)
          /\ UNCHANGED eventVars
    /\ UNCHANGED <<bindingVars, pollerVars, faults>>

Poll(s) ==
    \/ Request(s) \/ Pull(s)
    \/ \E d \in Deliveries : Ingest(s, d) \/ IngestRaises(s, d)
    \/ Acknowledge(s) \/ AcknowledgementRejected(s)

Next ==
    \/ \E d \in Deliveries : RecordWebhookEvent(d)
    \/ Age \/ Activate \/ Suspend \/ Uninstall
    \/ \E s \in Servers : Connect(s) \/ Disconnect(s) \/ Poll(s) \/ GiveUp(s)
    \/ \E c \in orphans : Orphan(c)
    \/ \E l \in leases : LeaseLapses(l)

Spec == Init /\ [][Next]_vars

\* run_forever retries for ever and Compose restarts the process; leases run
\* out by the clock.  Crashes and timeouts are bounded by MaxFaults, so no
\* fairness is asked of the network.
FairSpec ==
    /\ Spec
    /\ \A s \in Servers : WF_vars(Poll(s))
    /\ \A l \in Lease : WF_vars(LeaseLapses(l))

-----------------------------------------------------------------------------
(* Properties.                                                             *)

\* An event leaves the relay only because it outlived the retention period or
\* because the server that acknowledges it has it in its own database: no crash,
\* timeout, reconnection, redelivery or refused event loses one (pull_once
\* acknowledges what ingest_event has admitted, and acknowledge_event deletes
\* nothing that was not pulled).
OnlyIngestedLeaves ==
    [][\A d \in Stored : d \notin Stored' =>
           \/ d \in Outdated
           \/ \E s \in Servers : /\ d \in ingested[s]
                                 /\ \/ acking[s] = d
                                    \/ \E c \in orphans : c.server = s /\ c.event = d]_vars

\* A token that was rotated or revoked never authenticates again: as long as a
\* server keeps its environment, its poller stays shut out
\* (_insert_instance_credentials only updates rows that are not revoked).
DeadTokenStaysDead ==
    [][\A s \in Servers :
           cred[s]' = cred[s] /\ ~Authenticated(s) => ~Authenticated(s)']_vars

\* Every stored event is delivered in the end, or its installation has lost its
\* instance, or the event outlives the retention period: no lost response or
\* crash leaves one leased for ever.
EventuallyDelivered ==
    \A d \in Deliveries :
        (d \in Stored) ~> (d \notin Stored \/ instance = NoBinding)
=============================================================================
