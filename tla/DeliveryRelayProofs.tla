------------------------ MODULE DeliveryRelayProofs ------------------------
(***************************************************************************)
(* Theorems about DeliveryRelay, for any deliveries, servers and bounds:   *)
(* its types, that no event is lost, and that a dead token stays dead.     *)
(***************************************************************************)
EXTENDS DeliveryRelay, TLAPS

\* A poller acknowledges what its own server has admitted, and so does a request
\* it left behind.
AckedIsIngested ==
    /\ \A s \in Servers : acking[s] # None => acking[s] \in ingested[s]
    /\ \A c \in orphans : c.event # None => c.event \in ingested[c.server]

\* Only tokens that were issued are in use, and an installation has a token
\* exactly when it has an instance.
TokensIssued ==
    /\ token <= issued
    /\ \A s \in Servers : cred[s] <= issued
    /\ instance = NoBinding <=> token = NoBinding

IInv == TypeOK /\ AckedIsIngested /\ TokensIssued

\* The initial tables satisfy the invariant.
LEMMA InitIInv == Init => IInv
<1> SUFFICES ASSUME Init PROVE IInv
  OBVIOUS
<1>1. TypeOK
  <2>1. /\ issued \in 0..MaxBindings /\ sends \in 0..MaxSends /\ faults \in 0..MaxFaults
        /\ horizon \in 0..sends
        /\ arrived \in [Deliveries -> 0..sends]
    BY RelayAssumption DEF Init
  <2>2. /\ cred \in [Servers -> Tokens \cup {NoBinding}]
        /\ granted \in [Servers -> Tokens \cup {NoBinding}]
        /\ batch \in [Servers -> SUBSET Deliveries]
        /\ acking \in [Servers -> Deliveries \cup {None}]
        /\ ingested \in [Servers -> SUBSET Deliveries]
    BY DEF Init
  <2> QED  BY <2>1, <2>2 DEF Init, TypeOK
<1>2. AckedIsIngested
  BY DEF Init, AckedIsIngested
<1>3. TokensIssued
  BY DEF Init, TokensIssued, NoBinding
<1> QED  BY <1>1, <1>2, <1>3 DEF IInv

\* Deleting events leaves well-typed receipts and leases.
LEMMA WithoutType ==
    ASSUME NEW D \in SUBSET Deliveries, TypeOK, Without(D)
    PROVE  receipts' \subseteq Tokens \X Deliveries /\ leases' \subseteq Lease
<1>1. receipts' \subseteq Tokens \X Deliveries
  BY DEF TypeOK, Without
<1>2. ASSUME NEW m \in leases' PROVE m \in Lease
  <2>1. PICK l \in leases : m = [l EXCEPT !.events = @ \ D]
    BY DEF Without
  <2>2. l \in Lease
    BY DEF TypeOK
  <2> QED  BY <2>1, <2>2 DEF Lease
<1> QED  BY <1>1, <1>2

\* The table changes of a pull are well typed.
LEMMA PullType ==
    ASSUME NEW i \in Tokens, NEW D \in SUBSET Deliveries, TypeOK, PullEvents(i, D)
    PROVE  receipts' \subseteq Tokens \X Deliveries /\ leases' \subseteq Lease
BY DEF TypeOK, PullEvents, Lease

\* So are those of an acknowledgement.
LEMMA AcknowledgementType ==
    ASSUME NEW d \in Deliveries, TypeOK, AcknowledgeEvent(d)
    PROVE  /\ receipts' \subseteq Tokens \X Deliveries /\ leases' \subseteq Lease
           /\ arrived' \in [Deliveries -> 0..sends]
<1>1. receipts' \subseteq Tokens \X Deliveries /\ leases' \subseteq Lease
  BY WithoutType DEF AcknowledgeEvent
<1>2. arrived' \in [Deliveries -> 0..sends]
  BY RelayAssumption DEF TypeOK, AcknowledgeEvent
<1> QED  BY <1>1, <1>2

\* Every action preserves the types.
LEMMA TypePreserved == IInv /\ [Next]_vars => TypeOK'
<1> SUFFICES ASSUME IInv, [Next]_vars PROVE TypeOK'
  OBVIOUS
<1>0. TypeOK /\ TokensIssued
  BY DEF IInv
<1> USE RelayAssumption
<1>1. CASE \E d \in Deliveries : RecordWebhookEvent(d)
  <2>1. PICK d \in Deliveries : RecordWebhookEvent(d)
    BY <1>1
  <2>2. Outdated \in SUBSET Deliveries
    BY DEF Outdated, Stored
  <2>3. receipts' \subseteq Tokens \X Deliveries /\ leases' \subseteq Lease
    BY <1>0, <2>1, <2>2, WithoutType DEF RecordWebhookEvent
  <2>4. sends' \in 0..MaxSends /\ sends < sends' /\ horizon' \in 0..sends'
    BY <1>0, <2>1 DEF TypeOK, RecordWebhookEvent
  <2>5. arrived' \in [Deliveries -> 0..sends']
    BY <1>0, <2>1, <2>4 DEF TypeOK, RecordWebhookEvent
  <2> QED
    BY <1>0, <2>1, <2>3, <2>4, <2>5
    DEF TypeOK, RecordWebhookEvent, bindingVars, pollerVars
<1>2. CASE Age
  BY <1>0, <1>2 DEF TypeOK, Age, bindingVars, pollerVars
<1>3. CASE Activate \/ Suspend
  BY <1>0, <1>3 DEF TypeOK, Activate, Suspend, eventVars, pollerVars
<1>4. CASE Uninstall
  BY <1>0, <1>4 DEF TypeOK, Uninstall, eventVars, pollerVars
<1>5. ASSUME NEW s \in Servers, Connect(s) PROVE TypeOK'
  <2>1. issued + 1 \in Tokens
    BY <1>0, <1>5 DEF TypeOK, Connect, Tokens
  <2>2. instance' \in Tokens /\ token' \in Tokens
    BY <1>0, <1>5, <2>1 DEF TypeOK, Connect, BoundToken
  <2>3. cred' \in [Servers -> Tokens \cup {NoBinding}]
    BY <1>0, <1>5, <2>1 DEF TypeOK, Connect, BoundToken
  <2> QED  BY <1>0, <1>5, <2>1, <2>2, <2>3 DEF TypeOK, Connect, Tokens, eventVars
<1>6. ASSUME NEW s \in Servers, Disconnect(s) \/ Request(s) PROVE TypeOK'
  BY <1>0, <1>6 DEF TypeOK, Disconnect, Request, bindingVars, eventVars, pollerVars
<1>7. ASSUME NEW s \in Servers, Pull(s) PROVE TypeOK'
  <2>1. PICK D \in SUBSET Deliveries :
               PullEvents(granted[s], D) /\ batch' = [batch EXCEPT ![s] = D]
    BY <1>7 DEF Pull
  <2>2. granted[s] \in Tokens
    BY <1>0, <1>7 DEF TypeOK, Pull, Waiting
  <2>3. receipts' \subseteq Tokens \X Deliveries /\ leases' \subseteq Lease
    BY <1>0, <2>1, <2>2, PullType
  <2> QED  BY <1>0, <1>7, <2>1, <2>3 DEF TypeOK, Pull, PullEvents, bindingVars
<1>8. ASSUME NEW s \in Servers, NEW d \in Deliveries, Ingest(s, d) \/ IngestRaises(s, d)
      PROVE  TypeOK'
  BY <1>0, <1>8 DEF TypeOK, Ingest, IngestRaises, Abandoned, bindingVars, eventVars
<1>9. ASSUME NEW s \in Servers, Acknowledge(s) PROVE TypeOK'
  <2>1. acking[s] \in Deliveries /\ AcknowledgeEvent(acking[s])
    BY <1>0, <1>9 DEF TypeOK, Acknowledge
  <2>2. /\ receipts' \subseteq Tokens \X Deliveries /\ leases' \subseteq Lease
        /\ arrived' \in [Deliveries -> 0..sends]
    BY <1>0, <2>1, AcknowledgementType
  <2>3. /\ batch' \in [Servers -> SUBSET Deliveries]
        /\ acking' \in [Servers -> Deliveries \cup {None}]
        /\ granted' \in [Servers -> Tokens \cup {NoBinding}]
    BY <1>0, <1>9 DEF TypeOK, Acknowledge
  <2> QED
    BY <1>0, <1>9, <2>1, <2>2, <2>3 DEF TypeOK, Acknowledge, AcknowledgeEvent, bindingVars
<1>10. ASSUME NEW s \in Servers, AcknowledgementRejected(s) PROVE TypeOK'
  BY <1>0, <1>10 DEF TypeOK, AcknowledgementRejected, Abandoned, bindingVars, eventVars
<1>11. ASSUME NEW s \in Servers, GiveUp(s) PROVE TypeOK'
  <2>1. orphans' \subseteq Call
    BY <1>0, <1>11 DEF TypeOK, GiveUp, Waiting, Call
  <2> QED  BY <1>0, <1>11, <2>1 DEF TypeOK, GiveUp, Abandoned, bindingVars, eventVars
<1>12. ASSUME NEW c \in orphans, Orphan(c) PROVE TypeOK'
  <2>0. c \in Call
    BY <1>0 DEF TypeOK
  <2>1. ASSUME NEW D \in SUBSET Deliveries, PullEvents(c.instance, D) PROVE TypeOK'
    <3>1. receipts' \subseteq Tokens \X Deliveries /\ leases' \subseteq Lease
      BY <1>0, <2>0, <2>1, PullType DEF Call
    <3> QED
      BY <1>0, <1>12, <2>1, <3>1 DEF TypeOK, Orphan, PullEvents, bindingVars, pollerVars
  <2>2. CASE c.event # None /\ AcknowledgeEvent(c.event)
    <3>1. /\ receipts' \subseteq Tokens \X Deliveries /\ leases' \subseteq Lease
          /\ arrived' \in [Deliveries -> 0..sends]
      BY <1>0, <2>0, <2>2, AcknowledgementType DEF Call
    <3> QED
      BY <1>0, <1>12, <2>2, <3>1 DEF TypeOK, Orphan, AcknowledgeEvent, bindingVars, pollerVars
  <2>3. CASE UNCHANGED eventVars
    BY <1>0, <1>12, <2>3 DEF TypeOK, Orphan, eventVars, bindingVars, pollerVars
  <2> QED  BY <1>12, <2>1, <2>2, <2>3 DEF Orphan
<1>13. ASSUME NEW l \in leases, LeaseLapses(l) PROVE TypeOK'
  BY <1>0, <1>13 DEF TypeOK, LeaseLapses, bindingVars, pollerVars
<1>14. CASE UNCHANGED vars
  BY <1>0, <1>14 DEF TypeOK, vars, bindingVars, eventVars, pollerVars
<1> QED
  BY <1>1, <1>2, <1>3, <1>4, <1>5, <1>6, <1>7, <1>8, <1>9, <1>10, <1>11, <1>12, <1>13, <1>14
  DEF Next, Poll

\* Only Ingest makes an event the one to acknowledge, and admits it with that.
LEMMA AckedPreserved == IInv /\ [Next]_vars => AckedIsIngested'
<1> SUFFICES ASSUME IInv, [Next]_vars PROVE AckedIsIngested'
  OBVIOUS
<1>0. TypeOK /\ AckedIsIngested
  BY DEF IInv
<1>1. CASE UNCHANGED <<acking, ingested>> /\ orphans' \subseteq orphans
  BY <1>0, <1>1 DEF AckedIsIngested
<1>2. ASSUME NEW s \in Servers, NEW d \in Deliveries, Ingest(s, d) PROVE AckedIsIngested'
  <2>1. orphans' = orphans /\ \A t \in Servers : ingested[t] \subseteq ingested'[t]
    BY <1>0, <1>2 DEF TypeOK, Ingest
  <2>2. \A t \in Servers : acking'[t] # None => acking'[t] \in ingested'[t]
    BY <1>0, <1>2 DEF TypeOK, AckedIsIngested, Ingest
  <2>3. \A c \in orphans : c.server \in Servers
    BY <1>0 DEF TypeOK, Call
  <2> QED  BY <1>0, <2>1, <2>2, <2>3 DEF AckedIsIngested
<1>3. ASSUME NEW s \in Servers, acking' = [acking EXCEPT ![s] = None], ingested' = ingested,
             orphans' = orphans
      PROVE  AckedIsIngested'
  BY <1>0, <1>3 DEF TypeOK, AckedIsIngested
<1>4. ASSUME NEW s \in Servers,
             \/ Connect(s) \/ Acknowledge(s) \/ AcknowledgementRejected(s)
             \/ \E d \in Deliveries : IngestRaises(s, d)
      PROVE  AckedIsIngested'
  BY <1>3, <1>4 DEF Connect, Acknowledge, AcknowledgementRejected, IngestRaises, Abandoned
<1>5. ASSUME NEW s \in Servers, GiveUp(s) PROVE AckedIsIngested'
  <2>1. \A c \in orphans' : c.event # None => c.event \in ingested[c.server]
    BY <1>0, <1>5 DEF AckedIsIngested, GiveUp
  <2> QED  BY <1>0, <1>5, <2>1 DEF TypeOK, AckedIsIngested, GiveUp, Abandoned
<1>6. CASE \/ \E d \in Deliveries : RecordWebhookEvent(d)
           \/ Age \/ Activate \/ Suspend \/ Uninstall
           \/ \E s \in Servers : Disconnect(s) \/ Request(s) \/ Pull(s)
           \/ \E c \in orphans : Orphan(c)
           \/ \E l \in leases : LeaseLapses(l)
           \/ UNCHANGED vars
  BY <1>1, <1>6 DEF RecordWebhookEvent, Age, Activate, Suspend, Uninstall, Disconnect, Request,
                    Pull, Orphan, LeaseLapses, vars, pollerVars
<1> QED  BY <1>2, <1>4, <1>5, <1>6 DEF Next, Poll

\* A step of a poller or of a request it left behind changes no binding.
LEMMA PollKeepsBindings ==
    ASSUME NEW s \in Servers, Poll(s) \/ GiveUp(s)
    PROVE  UNCHANGED <<bindingVars, cred>>
BY DEF Poll, Request, Pull, Ingest, IngestRaises, Acknowledge, AcknowledgementRejected, GiveUp

\* Tokens change only when a server connects or a binding is revoked.
LEMMA TokensPreserved == IInv /\ [Next]_vars => TokensIssued'
<1> SUFFICES ASSUME IInv, [Next]_vars PROVE TokensIssued'
  OBVIOUS
<1>0. TypeOK /\ TokensIssued
  BY DEF IInv
<1>1. CASE UNCHANGED <<instance, token, issued, cred>>
  BY <1>0, <1>1 DEF TokensIssued
<1>2. CASE instance' = NoBinding /\ token' = NoBinding /\ UNCHANGED <<issued, cred>>
  BY <1>0, <1>2 DEF TokensIssued, TypeOK, NoBinding
<1>3. ASSUME NEW s \in Servers, Connect(s) PROVE TokensIssued'
  <2>1. issued \in Nat /\ issued' = issued + 1 /\ token' = issued + 1
    BY <1>0, <1>3, RelayAssumption DEF TypeOK, Connect, BoundToken
  <2>2. instance' # NoBinding
    BY <1>0, <1>3, <2>1 DEF TypeOK, Connect, BoundToken, NoBinding, Tokens
  <2>3. \A t \in Servers : cred'[t] = issued + 1 \/ cred'[t] = cred[t]
    BY <1>0, <1>3 DEF TypeOK, Connect, BoundToken
  <2>4. \A t \in Servers : cred[t] \in Int /\ cred[t] <= issued
    BY <1>0, RelayAssumption DEF TypeOK, TokensIssued, Tokens, NoBinding
  <2> QED  BY <2>1, <2>2, <2>3, <2>4 DEF TokensIssued, NoBinding
<1>4. ASSUME NEW s \in Servers, Disconnect(s) PROVE TokensIssued'
  BY <1>2, <1>4 DEF Disconnect, pollerVars
<1>5. CASE Uninstall
  BY <1>2, <1>5 DEF Uninstall, pollerVars
<1>6. ASSUME NEW s \in Servers, Poll(s) \/ GiveUp(s) PROVE TokensIssued'
  BY <1>1, <1>6, PollKeepsBindings DEF bindingVars
<1>7. CASE \/ \E d \in Deliveries : RecordWebhookEvent(d)
           \/ Age \/ Activate \/ Suspend
           \/ \E c \in orphans : Orphan(c)
           \/ \E l \in leases : LeaseLapses(l)
           \/ UNCHANGED vars
  BY <1>1, <1>7 DEF RecordWebhookEvent, Age, Activate, Suspend, Orphan, LeaseLapses, vars,
                    bindingVars, pollerVars
<1> QED  BY <1>3, <1>4, <1>5, <1>6, <1>7 DEF Next

\* The invariant holds in every reachable state.
LEMMA Invariance == Spec => []IInv
<1>1. IInv /\ [Next]_vars => IInv'
  BY TypePreserved, AckedPreserved, TokensPreserved DEF IInv
<1> QED  BY InitIInv, <1>1, PTL DEF Spec

\* The tables of the relay and of the pollers are well typed, for any number of
\* deliveries, servers, bindings and faults.
THEOREM RelayTypeCorrect == Spec => []TypeOK
<1>1. IInv => TypeOK
  BY DEF IInv
<1> QED  BY Invariance, <1>1, PTL

\* Deleting one event leaves the others stored.
LEMMA OthersStay ==
    ASSUME TypeOK, NEW d \in Deliveries, AcknowledgeEvent(d), NEW e \in Stored, e # d
    PROVE  e \in Stored'
BY DEF TypeOK, Stored, AcknowledgeEvent

\* acknowledge_event and the retention sweep are the only ways out of the relay,
\* and the first is taken only for events the acknowledging server holds.
THEOREM NoEventLost == Spec => OnlyIngestedLeaves
<1> DEFINE Leaves == \A d \in Stored : d \notin Stored' =>
                         \/ d \in Outdated
                         \/ \E s \in Servers :
                              /\ d \in ingested[s]
                              /\ \/ acking[s] = d
                                 \/ \E c \in orphans : c.server = s /\ c.event = d
<1>1. IInv /\ [Next]_vars => [Leaves]_vars
  <2> SUFFICES ASSUME IInv, Next PROVE Leaves
    OBVIOUS
  <2>0. TypeOK /\ AckedIsIngested
    BY DEF IInv
  <2>1. CASE arrived' = arrived
    BY <2>1 DEF Stored
  <2>2. ASSUME NEW d \in Deliveries, RecordWebhookEvent(d) PROVE Leaves
    <3> SUFFICES ASSUME NEW e \in Stored, e \notin Outdated PROVE e \in Stored'
      OBVIOUS
    <3>1. e \in Deliveries /\ arrived[e] > 0
      BY DEF Stored
    <3>2. arrived'[e] = arrived[e] \/ arrived'[e] = sends + 1
      BY <2>0, <2>2, <3>1 DEF TypeOK, RecordWebhookEvent
    <3> QED  BY <2>0, <3>1, <3>2, RelayAssumption DEF TypeOK, Stored
  <2>3. ASSUME NEW s \in Servers, Acknowledge(s) PROVE Leaves
    <3>1. acking[s] \in Deliveries /\ acking[s] # None /\ AcknowledgeEvent(acking[s])
      BY <2>0, <2>3 DEF TypeOK, Acknowledge
    <3>2. acking[s] \in ingested[s]
      BY <2>0, <3>1 DEF AckedIsIngested
    <3>3. ASSUME NEW e \in Stored, e \notin Stored' PROVE e = acking[s]
      BY <2>0, <3>1, <3>3, OthersStay
    <3> QED  BY <3>2, <3>3
  <2>4. ASSUME NEW c \in orphans, Orphan(c) PROVE Leaves
    <3>1. CASE c.event # None /\ AcknowledgeEvent(c.event)
      <4>1. c.server \in Servers /\ c.event \in Deliveries
        BY <2>0, <3>1 DEF TypeOK, Call
      <4>2. c.event \in ingested[c.server]
        BY <2>0, <3>1, <4>1 DEF AckedIsIngested
      <4>3. ASSUME NEW e \in Stored, e \notin Stored' PROVE e = c.event
        BY <2>0, <3>1, <4>1, <4>3, OthersStay
      <4> QED  BY <4>1, <4>2, <4>3
    <3> QED  BY <2>1, <2>4, <3>1 DEF Orphan, PullEvents, eventVars
  <2>5. ASSUME NEW s \in Servers,
               \/ Connect(s) \/ Disconnect(s) \/ Request(s) \/ Pull(s) \/ GiveUp(s)
               \/ AcknowledgementRejected(s)
               \/ \E d \in Deliveries : Ingest(s, d) \/ IngestRaises(s, d)
        PROVE  arrived' = arrived
    BY <2>5 DEF Connect, Disconnect, Request, Pull, PullEvents, GiveUp, AcknowledgementRejected,
                Ingest, IngestRaises, eventVars
  <2>6. CASE Age \/ Activate \/ Suspend \/ Uninstall \/ \E l \in leases : LeaseLapses(l)
    BY <2>1, <2>6 DEF Age, Activate, Suspend, Uninstall, LeaseLapses, eventVars
  <2> QED  BY <2>1, <2>2, <2>3, <2>4, <2>5, <2>6 DEF Next, Poll
<1>2. Spec => [][Leaves]_vars
  BY Invariance, <1>1, PTL DEF Spec
<1> QED  BY <1>2 DEF OnlyIngestedLeaves

\* A rotated or revoked token never authenticates again, whoever connects.
THEOREM DeadTokensStayDead == Spec => DeadTokenStaysDead
<1> DEFINE Shut == \A s \in Servers :
                       cred[s]' = cred[s] /\ ~Authenticated(s) => ~Authenticated(s)'
<1>1. IInv /\ [Next]_vars => [Shut]_vars
  <2> SUFFICES ASSUME IInv, Next, NEW s \in Servers, cred[s]' = cred[s], Authenticated(s)'
               PROVE  Authenticated(s)
    OBVIOUS
  <2>0. TypeOK /\ TokensIssued
    BY DEF IInv
  <2>1. cred[s] # NoBinding /\ cred[s] = token'
    BY DEF Authenticated
  <2>2. CASE token' = token
    BY <2>1, <2>2 DEF Authenticated
  <2>3. CASE token' = NoBinding
    BY <2>1, <2>3
  <2>4. ASSUME NEW t \in Servers, Connect(t) PROVE FALSE
    <3>1. token' = issued + 1
      BY <2>4 DEF Connect, BoundToken
    <3>2. cred[s] <= issued /\ cred[s] \in Int /\ issued \in Int
      BY <2>0, RelayAssumption DEF TokensIssued, TypeOK, Tokens, NoBinding
    <3> QED  BY <2>1, <3>1, <3>2
  <2>5. ASSUME NEW t \in Servers, Poll(t) \/ GiveUp(t) PROVE token' = token
    BY <2>5, PollKeepsBindings DEF bindingVars
  <2>6. ASSUME NEW t \in Servers, Disconnect(t) PROVE token' = NoBinding
    BY <2>6 DEF Disconnect
  <2>7. CASE \/ \E d \in Deliveries : RecordWebhookEvent(d)
             \/ Age \/ Activate \/ Suspend \/ Uninstall
             \/ \E c \in orphans : Orphan(c)
             \/ \E l \in leases : LeaseLapses(l)
    BY <2>2, <2>3, <2>7 DEF RecordWebhookEvent, Age, Activate, Suspend, Uninstall, Orphan,
                            LeaseLapses, bindingVars
  <2> QED  BY <2>2, <2>3, <2>4, <2>5, <2>6, <2>7 DEF Next
<1>2. Spec => [][Shut]_vars
  BY Invariance, <1>1, PTL DEF Spec
<1> QED  BY <1>2 DEF DeadTokenStaysDead
=============================================================================
