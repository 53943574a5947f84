----------------------- MODULE RelayEnrollmentProofs -----------------------
(***************************************************************************)
(* Theorems about RelayEnrollment, for any sessions, installations, users  *)
(* and handlers: types, who a session is bound for, and that a credential  *)
(* is returned once and never lost.                                        *)
(***************************************************************************)
EXTENDS RelayEnrollment, TLAPS

\* What a handler carries from one transaction to the next was true when it was
\* read, and does not go stale: the user authorized for the session and can
\* access the installations in `allowed`.
RequestsJustified ==
    \A h \in Handlers : request[h] # Idle =>
        /\ request[h].allowed \subseteq Owned[request[h].user]
        /\ request[h].step \in {"admit", "offer", "bind", "fail"} =>
               /\ request[h].session \in Sessions
               /\ request[h].user \in consent[request[h].session]
        /\ request[h].step = "code" => request[h].installation \in Installations

\* The choice offered in a session was read for a user who authorized in it.
OffersJustified ==
    \A s \in Sessions : sess[s].user # Nobody =>
        /\ sess[s].user \in consent[s]
        /\ sess[s].candidates \subseteq Owned[sess[s].user]

\* A token is used from the moment it is issued, and a session that is ready is
\* the only holder of its own.
TokensFresh ==
    /\ \A k \in Tokens : k > issued => shown[k] = 0
    /\ \A s \in Sessions : sess[s].status = "ready" =>
           /\ sess[s].token \in Tokens /\ sess[s].token <= issued
           /\ shown[sess[s].token] = 0
    /\ \A s, t \in Sessions :
           sess[s].status = "ready" /\ sess[t].status = "ready" /\ sess[s].token = sess[t].token
               => s = t

IInv ==
    /\ TypeOK
    /\ RequestsJustified
    /\ OffersJustified
    /\ TokensFresh
    /\ BoundWithConsent
    /\ VerifiedByAnOwner
    /\ ShownOnce
    /\ LiveTokenReachable

\* The empty database satisfies the invariant.
LEMMA InitIInv == Init => IInv
<1> SUFFICES ASSUME Init PROVE IInv
  OBVIOUS
<1> USE EnrollmentAssumption
<1>1. TypeOK
  <2>1. /\ issued \in 0..MaxTokens /\ created \in 0..MaxStates
        /\ states \in [Target -> Nat] /\ codes \in [Installations -> Nat]
        /\ shown \in [Tokens -> Nat]
    BY DEF Init
  <2>2. sess \in [Sessions -> Session]
    BY DEF Init, Session
  <2>3. /\ row \in [Installations -> {"absent", "active", "inactive"}]
        /\ verifiedBy \in [Installations -> Users \cup {Nobody}]
        /\ live \in [Installations -> Tokens \cup {NoToken}]
        /\ request \in [Handlers -> Request \cup {Idle}]
        /\ consent \in [Sessions -> SUBSET Users]
        /\ installed \subseteq Installations /\ notices \subseteq Installations
    BY DEF Init
  <2> QED  BY <2>1, <2>2, <2>3 DEF TypeOK
<1>2. RequestsJustified
  BY DEF Init, RequestsJustified
<1>3. OffersJustified /\ BoundWithConsent
  BY DEF Init, OffersJustified, BoundWithConsent
<1>4. TokensFresh
  BY DEF Init, TokensFresh
<1>5. VerifiedByAnOwner /\ LiveTokenReachable
  BY DEF Init, VerifiedByAnOwner, LiveTokenReachable
<1>6. ShownOnce
  BY DEF Init, ShownOnce
<1> QED  BY <1>1, <1>2, <1>3, <1>4, <1>5, <1>6 DEF IInv

\* The record a handler works on.
LEMMA RequestFacts ==
    ASSUME TypeOK, NEW h \in Handlers, request[h] # Idle
    PROVE  request[h] \in Request
  BY DEF TypeOK

\* A handler at a step is not idle.
LEMMA StepFacts ==
    ASSUME TypeOK, RequestsJustified, NEW h \in Handlers, NEW step,
           At(h, step), step \in {"admit", "offer", "bind", "fail", "verify", "code"}
    PROVE  /\ request[h] \in Request
           /\ request[h].user \in Users
           /\ request[h].allowed \subseteq Owned[request[h].user]
           /\ request[h].allowed \subseteq Installations
           /\ step \in {"admit", "offer", "bind", "fail"} =>
                  /\ request[h].session \in Sessions
                  /\ request[h].user \in consent[request[h].session]
           /\ step = "code" => request[h].installation \in Installations
<1>1. request[h] # Idle
  BY DEF At, Idle
<1>2. request[h] \in Request
  BY <1>1, RequestFacts
<1> QED  BY <1>1, <1>2 DEF RequestsJustified, Request, At

\* A decision of the callback is a request again, and carries the same user,
\* session and installations.
LEMMA DecisionFacts ==
    ASSUME NEW r \in Request, NEW next \in Decision(r)
    PROVE  /\ next \in Request \cup {Idle}
           /\ next # Idle => /\ next.user = r.user /\ next.session = r.session
                             /\ next.allowed = r.allowed
                             /\ next.step \in {"bind", "fail", "offer"}
<1>1. CASE r.installation # NoInstallation
  BY <1>1 DEF Decision, Request
<1>2. CASE r.installation = NoInstallation /\ Cardinality(r.allowed) > 1
  BY <1>2 DEF Decision, Request
<1>3. CASE r.installation = NoInstallation /\ ~(Cardinality(r.allowed) > 1) /\ r.allowed = {}
  BY <1>3 DEF Decision
<1>4. CASE r.installation = NoInstallation /\ ~(Cardinality(r.allowed) > 1) /\ r.allowed # {}
  <2>1. PICK i \in r.allowed : next = [r EXCEPT !.step = "bind", !.installation = i]
    BY <1>4 DEF Decision
  <2> QED  BY <2>1 DEF Request
<1> QED  BY <1>1, <1>2, <1>3, <1>4

\* Every action preserves the types.
LEMMA TypePreserved == IInv /\ [Next]_vars => TypeOK'
<1> SUFFICES ASSUME IInv, [Next]_vars PROVE TypeOK'
  OBVIOUS
<1>0. TypeOK /\ RequestsJustified /\ TokensFresh
  BY DEF IInv
<1> USE EnrollmentAssumption DEF gitHubVars, bindingVars, oauthVars
<1>1. ASSUME NEW s \in Sessions,
             CreateConnectSession(s) \/ SessionAges(s) \/ ClaimExpired(s)
      PROVE  TypeOK'
  <2>0. sess[s] \in Session
    BY <1>0 DEF TypeOK
  <2>1. CASE CreateConnectSession(s)
    <3>1. [sess[s] EXCEPT !.status = "pending"] \in Session
      BY <2>0 DEF Session
    <3>2. sess' = [sess EXCEPT ![s] = [sess[s] EXCEPT !.status = "pending"]]
      BY <1>0, <2>1 DEF TypeOK, CreateConnectSession
    <3> QED  BY <1>0, <2>1, <3>1, <3>2 DEF TypeOK, CreateConnectSession
  <2>2. CASE SessionAges(s)
    <3>1. [sess[s] EXCEPT !.life = sess[s].life - 1] \in Session
      BY <2>0, <2>2 DEF Session, SessionAges
    <3>2. sess' = [sess EXCEPT ![s] = [sess[s] EXCEPT !.life = sess[s].life - 1]]
      BY <1>0, <2>2 DEF TypeOK, SessionAges
    <3> QED  BY <1>0, <2>2, <3>1, <3>2 DEF TypeOK, SessionAges
  <2>3. CASE ClaimExpired(s)
    <3>1. [sess[s] EXCEPT !.status = "failed"] \in Session
      BY <2>0 DEF Session
    <3>2. sess' = [sess EXCEPT ![s] = [sess[s] EXCEPT !.status = "failed"]]
      BY <1>0, <2>3 DEF TypeOK, ClaimExpired
    <3> QED  BY <1>0, <2>3, <3>1, <3>2 DEF TypeOK, ClaimExpired
  <2> QED  BY <1>1, <2>1, <2>2, <2>3
<1>2. ASSUME NEW s \in Sessions, ClaimReady(s) PROVE TypeOK'
  <2>0. sess[s] \in Session
    BY <1>0 DEF TypeOK
  <2>1. [sess[s] EXCEPT !.status = "consumed"] \in Session
    BY <2>0 DEF Session
  <2>2. sess' = [sess EXCEPT ![s] = [sess[s] EXCEPT !.status = "consumed"]]
    BY <1>0, <1>2 DEF TypeOK, ClaimReady
  <2>3. sess[s].token \in Tokens
    BY <1>0, <1>2 DEF TokensFresh, ClaimReady
  <2>4. shown' \in [Tokens -> Nat]
    BY <1>0, <1>2, <2>3 DEF TypeOK, ClaimReady
  <2> QED  BY <1>0, <1>2, <2>1, <2>2, <2>4 DEF TypeOK, ClaimReady
<1>3. ASSUME NEW t \in Target, CreateOauthState(t) PROVE TypeOK'
  <2>1. states' \in [Target -> Nat] /\ created' \in 0..MaxStates
    BY <1>0, <1>3 DEF TypeOK, CreateOauthState
  <2> QED  BY <1>0, <1>3, <2>1 DEF TypeOK, CreateOauthState
<1>4. ASSUME NEW s \in Sessions, ConnectStart(s) PROVE TypeOK'
  BY <1>3, <1>4 DEF ConnectStart, Target
<1>5. ASSUME NEW i \in Installations, NEW s \in Sessions \cup {NoSession}, Setup(i, s)
      PROVE  TypeOK'
  BY <1>3, <1>5 DEF Setup, Target
<1>6. ASSUME NEW t \in Target, Usable(t), Used(t) PROVE states' \in [Target -> Nat]
  BY <1>0, <1>6 DEF TypeOK, Usable, Used
<1>7. ASSUME NEW t \in Target, StateWasted(t) PROVE TypeOK'
  BY <1>0, <1>6, <1>7 DEF TypeOK, StateWasted
<1>8. ASSUME NEW h \in Handlers, NEW t \in Target, NEW u \in Users, Callback(h, t, u)
      PROVE  TypeOK'
  <2>1. states' \in [Target -> Nat]
    BY <1>6, <1>8 DEF Callback
  <2>2. consent' \in [Sessions -> SUBSET Users]
    BY <1>0, <1>8 DEF TypeOK, Callback
  <2>3. request' \in [Handlers -> Request \cup {Idle}]
    <3> DEFINE r == [step |-> IF t.session = NoSession THEN "verify" ELSE "admit",
                     session |-> t.session, installation |-> t.installation,
                     user |-> u, allowed |-> Owned[u] \cap installed]
    <3>1. r \in Request
      BY <1>0 DEF Request, Target, TypeOK
    <3>2. request' = [request EXCEPT ![h] = r]
      BY <1>8 DEF Callback, Start
    <3> HIDE DEF r
    <3> QED  BY <1>0, <3>1, <3>2 DEF TypeOK
  <2> QED  BY <1>0, <1>8, <2>1, <2>2, <2>3 DEF TypeOK, Callback
<1>9. ASSUME NEW h \in Handlers, Answer(h) PROVE request' \in [Handlers -> Request \cup {Idle}]
  BY <1>0, <1>9 DEF TypeOK, Answer
<1>10. ASSUME NEW h \in Handlers, Admit(h) PROVE TypeOK'
  <2>1. request[h] \in Request
    BY <1>0, <1>10, StepFacts DEF Admit
  <2>2. request' \in [Handlers -> Request \cup {Idle}]
    BY <1>0, <1>9, <1>10, <2>1, DecisionFacts DEF TypeOK, Admit
  <2> QED  BY <1>0, <1>10, <2>2 DEF TypeOK, Admit
<1>11. ASSUME NEW h \in Handlers, Offer(h) PROVE TypeOK'
  <2>1. /\ request[h].session \in Sessions /\ request[h].user \in Users
        /\ request[h].allowed \subseteq Installations
    BY <1>0, <1>11, StepFacts DEF Offer
  <2> DEFINE s == request[h].session
             offered == [sess[s] EXCEPT !.candidates = request[h].allowed,
                                        !.user = request[h].user]
  <2>0. sess[s] \in Session
    BY <1>0, <2>1 DEF TypeOK
  <2>a. offered \in Session
    BY <2>0, <2>1 DEF Session
  <2>b. sess' = [sess EXCEPT ![s] = offered] \/ sess' = sess
    BY <1>0, <1>11, <2>1 DEF TypeOK, Offer
  <2>2. sess' \in [Sessions -> Session]
    <3> HIDE DEF offered
    <3> QED  BY <1>0, <2>1, <2>a, <2>b DEF TypeOK
  <2> QED  BY <1>0, <1>9, <1>11, <2>2 DEF TypeOK, Offer
<1>12. ASSUME NEW h \in Handlers, NEW s \in Sessions, NEW i \in Installations, Select(h, s, i)
       PROVE  TypeOK'
  <2> DEFINE r == [step |-> "bind", session |-> s, installation |-> i,
                   user |-> sess[s].user, allowed |-> sess[s].candidates]
  <2>1. r \in Request
    BY <1>0, <1>12 DEF Request, TypeOK, Session, Select
  <2>2. request' = [request EXCEPT ![h] = r]
    BY <1>12 DEF Select, Start
  <2> HIDE DEF r
  <2> QED  BY <1>0, <1>12, <2>1, <2>2 DEF TypeOK, Select
<1>13. ASSUME NEW i \in Installations, InsertInstanceCredentials(i)
       PROVE  /\ issued' \in 0..MaxTokens /\ issued + 1 \in Tokens
              /\ live' \in [Installations -> Tokens \cup {NoToken}]
  BY <1>0, <1>13 DEF TypeOK, InsertInstanceCredentials, Tokens
<1>14. ASSUME NEW i \in Installations, NEW u \in Users, Verified(i, u)
       PROVE  /\ row' \in [Installations -> {"absent", "active", "inactive"}]
              /\ verifiedBy' \in [Installations -> Users \cup {Nobody}]
  BY <1>0, <1>14 DEF TypeOK, Verified
<1>15. ASSUME NEW h \in Handlers, CompleteConnectSession(h) PROVE TypeOK'
  <2>1. /\ request[h].session \in Sessions /\ request[h].user \in Users
        /\ request[h].installation \in Installations
    BY <1>0, <1>15, StepFacts DEF CompleteConnectSession, Completable
  <2>2. InsertInstanceCredentials(request[h].installation)
        /\ Verified(request[h].installation, request[h].user) /\ Answer(h)
    BY <1>15 DEF CompleteConnectSession
  <2> DEFINE s == request[h].session
             bound == [sess[s] EXCEPT !.status = "ready",
                                      !.installation = request[h].installation,
                                      !.token = issued + 1, !.candidates = {}]
  <2>0. sess[s] \in Session
    BY <1>0, <2>1 DEF TypeOK
  <2>a. bound \in Session
    BY <2>0, <1>13, <2>1, <2>2 DEF Session
  <2>b. sess' = [sess EXCEPT ![s] = bound]
    BY <1>0, <1>15, <2>1 DEF TypeOK, CompleteConnectSession
  <2>3. sess' \in [Sessions -> Session]
    <3> HIDE DEF bound
    <3> QED  BY <1>0, <2>1, <2>a, <2>b DEF TypeOK
  <2> QED  BY <1>0, <1>9, <1>13, <1>14, <1>15, <2>1, <2>2, <2>3 DEF TypeOK, CompleteConnectSession
<1>16. ASSUME NEW h \in Handlers, NEW step \in {"fail", "code"}, request[h] \in Request,
              Continue(h, step)
       PROVE  request' \in [Handlers -> Request \cup {Idle}]
  BY <1>0, <1>16 DEF TypeOK, Continue, Request
<1>17. ASSUME NEW h \in Handlers, CompleteRefused(h) PROVE TypeOK'
  <2>1. request[h] \in Request
    BY <1>0, <1>17, StepFacts DEF CompleteRefused
  <2> QED  BY <1>0, <1>9, <1>16, <1>17, <2>1 DEF TypeOK, CompleteRefused
<1>18. ASSUME NEW h \in Handlers, FailConnectSession(h) PROVE TypeOK'
  <2>1. request[h].session \in Sessions
    BY <1>0, <1>18, StepFacts DEF FailConnectSession
  <2> DEFINE s == request[h].session
             failed == [sess[s] EXCEPT !.status = "failed", !.candidates = {}]
  <2>0. sess[s] \in Session
    BY <1>0, <2>1 DEF TypeOK
  <2>a. failed \in Session
    BY <2>0, <2>1 DEF Session
  <2>b. sess' = [sess EXCEPT ![s] = failed] \/ sess' = sess
    BY <1>0, <1>18, <2>1 DEF TypeOK, FailConnectSession
  <2>2. sess' \in [Sessions -> Session]
    <3> HIDE DEF failed
    <3> QED  BY <1>0, <2>1, <2>a, <2>b DEF TypeOK
  <2> QED  BY <1>0, <1>9, <1>18, <2>2 DEF TypeOK, FailConnectSession
<1>19. ASSUME NEW h \in Handlers, Verify(h) PROVE TypeOK'
  <2>1. /\ request[h] \in Request /\ request[h].user \in Users
        /\ request[h].allowed \subseteq Installations
    BY <1>0, <1>19, StepFacts DEF Verify
  <2> QED  BY <1>0, <1>9, <1>14, <1>16, <1>19, <2>1 DEF TypeOK, Verify
<1>20. ASSUME NEW h \in Handlers, CreateConnectionCode(h) \/ Abort(h) PROVE TypeOK'
  <2>1. codes' \in [Installations -> Nat]
    BY <1>0, <1>20 DEF TypeOK, CreateConnectionCode, Abort
  <2> QED  BY <1>0, <1>9, <1>20, <2>1 DEF TypeOK, CreateConnectionCode, Abort
<1>21. ASSUME NEW i \in Installations, RedeemConnectionCode(i) PROVE TypeOK'
  <2>1. codes' \in [Installations -> Nat]
    BY <1>0, <1>21 DEF TypeOK, RedeemConnectionCode
  <2>2. shown' \in [Tokens -> Nat]
    BY <1>0, <1>13, <1>21 DEF TypeOK, RedeemConnectionCode
  <2> QED  BY <1>0, <1>13, <1>21, <2>1, <2>2 DEF TypeOK, RedeemConnectionCode
<1>22. ASSUME NEW i \in Installations,
              \/ CodeExpires(i) \/ RevokeInstance(i) \/ Uninstall(i) \/ UninstallReported(i)
       PROVE  TypeOK'
  <2>1. CASE CodeExpires(i)
    BY <1>0, <2>1 DEF TypeOK, CodeExpires
  <2>2. CASE RevokeInstance(i)
    BY <1>0, <2>2 DEF TypeOK, RevokeInstance
  <2>3. CASE Uninstall(i)
    BY <1>0, <2>3 DEF TypeOK, Uninstall
  <2>4. CASE UninstallReported(i)
    BY <1>0, <2>4 DEF TypeOK, UninstallReported
  <2> QED  BY <1>22, <2>1, <2>2, <2>3, <2>4
<1>23. CASE UNCHANGED vars
  BY <1>0, <1>23 DEF TypeOK, vars
<1> QED
  BY <1>1, <1>2, <1>4, <1>5, <1>7, <1>8, <1>10, <1>11, <1>12, <1>15, <1>17, <1>18, <1>19, <1>20,
     <1>21, <1>22, <1>23
  DEF Next, Handle

\* The steps that belong to no browser request.
Quiet ==
    \/ \E s \in Sessions : CreateConnectSession(s) \/ SessionAges(s) \/ ConnectStart(s)
                           \/ ClaimReady(s) \/ ClaimExpired(s)
    \/ \E i \in Installations, s \in Sessions \cup {NoSession} : Setup(i, s)
    \/ \E t \in Target : StateWasted(t)
    \/ \E i \in Installations : \/ RedeemConnectionCode(i) \/ CodeExpires(i)
                                \/ RevokeInstance(i) \/ Uninstall(i) \/ UninstallReported(i)
    \/ UNCHANGED vars

\* Steps outside the handlers leave the requests and the consents alone.
LEMMA QuietFacts == Quiet => UNCHANGED <<request, consent>>
  BY DEF Quiet, CreateConnectSession, SessionAges, ConnectStart, CreateOauthState, ClaimReady,
     ClaimExpired, Setup, StateWasted, RedeemConnectionCode, CodeExpires, RevokeInstance,
     Uninstall, UninstallReported, vars

\* The handlers' steps that use up no state leave the consents alone.
LEMMA HandleConsent == \A h \in Handlers : Handle(h) => UNCHANGED <<consent, states, created>>
  BY DEF Handle, Admit, Offer, CompleteConnectSession, CompleteRefused, FailConnectSession, Verify,
     CreateConnectionCode, Abort, oauthVars

\* A consent is never withdrawn.
LEMMA ConsentGrows ==
    ASSUME TypeOK, [Next]_vars, NEW s \in Sessions
    PROVE  consent[s] \subseteq consent'[s]
<1>1. CASE Quiet
  BY <1>1, QuietFacts
<1>2. ASSUME NEW h \in Handlers, NEW t \in Target, NEW u \in Users, Callback(h, t, u)
      PROVE  consent[s] \subseteq consent'[s]
  BY <1>2 DEF Callback
<1>3. ASSUME NEW h \in Handlers, NEW x \in Sessions, NEW i \in Installations, Select(h, x, i)
      PROVE  consent[s] \subseteq consent'[s]
  BY <1>3 DEF Select
<1>4. ASSUME NEW h \in Handlers, Handle(h) PROVE consent[s] \subseteq consent'[s]
  BY <1>4, HandleConsent
<1> QED  BY <1>1, <1>2, <1>3, <1>4 DEF Next, Quiet

\* What a handler carries stays justified.
LEMMA RequestsPreserved == IInv /\ [Next]_vars => RequestsJustified'
<1> SUFFICES ASSUME IInv, [Next]_vars PROVE RequestsJustified'
  OBVIOUS
<1>0. TypeOK /\ RequestsJustified /\ OffersJustified
  BY DEF IInv
<1> DEFINE Just(r) == /\ r.allowed \subseteq Owned[r.user]
                      /\ r.step \in {"admit", "offer", "bind", "fail"} =>
                            r.session \in Sessions /\ r.user \in consent'[r.session]
                      /\ r.step = "code" => r.installation \in Installations
<1>1. ASSUME NEW h \in Handlers, request[h] # Idle PROVE Just(request[h])
  BY <1>0, <1>1, ConsentGrows DEF RequestsJustified
<1>2. ASSUME NEW h \in Handlers, NEW r, r = Idle \/ Just(r), request' = [request EXCEPT ![h] = r]
      PROVE  RequestsJustified'
  <2> SUFFICES ASSUME NEW g \in Handlers, request'[g] # Idle PROVE Just(request'[g])
    BY DEF RequestsJustified
  <2>1. CASE g = h
    <3>1. request'[g] = r
      BY <1>0, <1>2, <2>1 DEF TypeOK
    <3> QED  BY <1>2, <3>1
  <2>2. CASE g # h
    <3>1. request'[g] = request[g]
      BY <1>0, <1>2, <2>2 DEF TypeOK
    <3> QED  BY <1>1, <3>1
  <2> QED  BY <2>1, <2>2
<1>3. CASE request' = request
  BY <1>1, <1>3 DEF RequestsJustified
<1>4. ASSUME NEW h \in Handlers, Answer(h) PROVE RequestsJustified'
  BY <1>2, <1>4 DEF Answer
<1>5. CASE Quiet
  BY <1>3, <1>5, QuietFacts
<1>6. ASSUME NEW h \in Handlers, NEW t \in Target, NEW u \in Users, Callback(h, t, u)
      PROVE  RequestsJustified'
  <2> DEFINE r == [step |-> IF t.session = NoSession THEN "verify" ELSE "admit",
                   session |-> t.session, installation |-> t.installation,
                   user |-> u, allowed |-> Owned[u] \cap installed]
  <2>1. Just(r)
    BY <1>0, <1>6 DEF Callback, Target, TypeOK
  <2>2. request' = [request EXCEPT ![h] = r]
    BY <1>6 DEF Callback, Start
  <2> HIDE DEF r, Just
  <2> QED  BY <1>2, <2>1, <2>2
<1>7. ASSUME NEW h \in Handlers, NEW s \in Sessions, NEW i \in Installations, Select(h, s, i)
      PROVE  RequestsJustified'
  <2> DEFINE r == [step |-> "bind", session |-> s, installation |-> i,
                   user |-> sess[s].user, allowed |-> sess[s].candidates]
  <2>1. sess[s].user \in consent'[s] /\ sess[s].candidates \subseteq Owned[sess[s].user]
    BY <1>0, <1>7 DEF OffersJustified, Select
  <2>2. Just(r)
    BY <2>1
  <2>3. request' = [request EXCEPT ![h] = r]
    BY <1>7 DEF Select, Start
  <2> HIDE DEF r, Just
  <2> QED  BY <1>2, <2>2, <2>3
<1>8. ASSUME NEW h \in Handlers, Admit(h) PROVE RequestsJustified'
  <2>1. /\ request[h] \in Request /\ request[h] # Idle
        /\ request[h].step = "admit"
    BY <1>0, <1>8, StepFacts DEF Admit, At, Idle
  <2>2. Just(request[h])
    BY <1>1, <2>1
  <2>3. ASSUME NEW next \in Decision(request[h]) PROVE next = Idle \/ Just(next)
    BY <2>1, <2>2, <2>3, DecisionFacts
  <2> HIDE DEF Just
  <2> QED  BY <1>2, <1>4, <1>8, <2>3 DEF Admit
<1>9. ASSUME NEW h \in Handlers, CompleteRefused(h) PROVE RequestsJustified'
  <2>1. request[h] \in Request /\ request[h] # Idle /\ request[h].step = "bind"
    BY <1>0, <1>9, StepFacts DEF CompleteRefused, At, Idle
  <2>2. Just([request[h] EXCEPT !.step = "fail"])
    BY <1>1, <2>1 DEF Request
  <2>3. CASE Continue(h, "fail")
    <3>1. request' = [request EXCEPT ![h] = [request[h] EXCEPT !.step = "fail"]]
      BY <1>0, <2>3 DEF TypeOK, Continue
    <3> HIDE DEF Just
    <3> QED  BY <1>2, <2>2, <3>1
  <2> QED  BY <1>4, <1>9, <2>3 DEF CompleteRefused
<1>10. ASSUME NEW h \in Handlers, Verify(h) PROVE RequestsJustified'
  <2>1. /\ request[h] \in Request /\ request[h] # Idle /\ request[h].step = "verify"
        /\ request[h].allowed \subseteq Installations
    BY <1>0, <1>10, StepFacts DEF Verify, At, Idle
  <2>2. CASE Continue(h, "code") /\ request[h].installation \in request[h].allowed
    <3>1. Just([request[h] EXCEPT !.step = "code"])
      BY <1>1, <2>1, <2>2 DEF Request
    <3>2. request' = [request EXCEPT ![h] = [request[h] EXCEPT !.step = "code"]]
      BY <1>0, <2>2 DEF TypeOK, Continue
    <3> HIDE DEF Just
    <3> QED  BY <1>2, <3>1, <3>2
  <2> QED  BY <1>4, <1>10, <2>2 DEF Verify
<1>11. ASSUME NEW h \in Handlers,
              \/ Offer(h) \/ CompleteConnectSession(h) \/ FailConnectSession(h)
              \/ CreateConnectionCode(h) \/ Abort(h)
       PROVE  RequestsJustified'
  BY <1>4, <1>11 DEF Offer, CompleteConnectSession, FailConnectSession, CreateConnectionCode, Abort
<1> QED  BY <1>5, <1>6, <1>7, <1>8, <1>9, <1>10, <1>11 DEF Next, Quiet, Handle

\* Nothing of a session changes but its remaining time.
SameSession(s) ==
    /\ sess'[s].status = sess[s].status /\ sess'[s].user = sess[s].user
    /\ sess'[s].candidates = sess[s].candidates
    /\ sess'[s].installation = sess[s].installation /\ sess'[s].token = sess[s].token

\* A session is opened, fails, or is claimed.
SessionTurns(s) ==
    /\ \/ sess[s].status = "none" /\ sess'[s].status = "pending"
       \/ sess[s].status = "pending" /\ sess'[s].status = "failed"
       \/ sess[s].status = "ready" /\ sess'[s].status = "consumed" /\ shown' # shown
    /\ sess'[s].user = sess[s].user /\ sess'[s].candidates \subseteq sess[s].candidates
    /\ sess'[s].installation = sess[s].installation /\ sess'[s].token = sess[s].token

\* A choice is offered to a user who authorized.
SessionOffers(s) ==
    /\ sess[s].status = "pending" /\ sess'[s].status = "pending"
    /\ sess'[s].user \in consent[s]
    /\ sess'[s].candidates \subseteq Owned[sess'[s].user]
    /\ sess'[s].installation = sess[s].installation /\ sess'[s].token = sess[s].token

\* A session is bound for a user who authorized.
SessionBinds(s) ==
    /\ sess[s].status = "pending" /\ sess'[s].status = "ready"
    /\ sess'[s].user = sess[s].user /\ sess'[s].candidates = {}
    /\ issued' # issued
    /\ \E u \in consent[s] : sess'[s].installation \in Owned[u]

\* These are the only things that happen to a session.
LEMMA SessionMoves ==
    ASSUME IInv, [Next]_vars, NEW s \in Sessions
    PROVE  SameSession(s) \/ SessionTurns(s) \/ SessionOffers(s) \/ SessionBinds(s)
<1>0. TypeOK /\ RequestsJustified /\ sess[s] \in Session
  BY DEF IInv, TypeOK
<1>1. CASE sess' = sess
  BY <1>1 DEF SameSession
<1>2. ASSUME NEW x \in Sessions,
             CreateConnectSession(x) \/ SessionAges(x) \/ ClaimReady(x) \/ ClaimExpired(x)
      PROVE  SameSession(s) \/ SessionTurns(s)
  <2>1. CASE x # s
    <3>1. sess'[s] = sess[s]
      BY <1>0, <1>2, <2>1
      DEF TypeOK, CreateConnectSession, SessionAges, ClaimReady, ClaimExpired
    <3> QED  BY <3>1 DEF SameSession
  <2>2. CASE x = s /\ CreateConnectSession(s)
    <3>1. sess'[s] = [sess[s] EXCEPT !.status = "pending"]
      BY <1>0, <2>2 DEF TypeOK, CreateConnectSession
    <3> QED  BY <1>0, <2>2, <3>1 DEF SessionTurns, CreateConnectSession, Session
  <2>3. CASE x = s /\ SessionAges(s)
    <3>1. sess'[s] = [sess[s] EXCEPT !.life = sess[s].life - 1]
      BY <1>0, <2>3 DEF TypeOK, SessionAges
    <3> QED  BY <1>0, <3>1 DEF SameSession, Session
  <2>4. CASE x = s /\ ClaimReady(s)
    <3>1. sess'[s] = [sess[s] EXCEPT !.status = "consumed"]
      BY <1>0, <2>4 DEF TypeOK, ClaimReady
    <3>2. sess[s].token \in Tokens
      BY <2>4 DEF IInv, TokensFresh, ClaimReady
    <3>3. shown' # shown
      BY <1>0, <2>4, <3>2 DEF TypeOK, ClaimReady
    <3> QED  BY <1>0, <2>4, <3>1, <3>3 DEF SessionTurns, ClaimReady, Session
  <2>5. CASE x = s /\ ClaimExpired(s)
    <3>1. sess'[s] = [sess[s] EXCEPT !.status = "failed"]
      BY <1>0, <2>5 DEF TypeOK, ClaimExpired
    <3> QED  BY <1>0, <2>5, <3>1 DEF SessionTurns, ClaimExpired, Session
  <2> QED  BY <1>2, <2>1, <2>2, <2>3, <2>4, <2>5
<1>3. ASSUME NEW h \in Handlers, Offer(h) PROVE SameSession(s) \/ SessionOffers(s)
  <2> DEFINE r == request[h]
  <2>1. r.session \in Sessions /\ r.user \in consent[r.session] /\ r.allowed \subseteq Owned[r.user]
    BY <1>0, <1>3, StepFacts DEF Offer
  <2>2. CASE sess' # sess /\ r.session = s
    <3>1. /\ sess[s].status = "pending"
          /\ sess'[s] = [sess[s] EXCEPT !.candidates = r.allowed, !.user = r.user]
      BY <1>0, <1>3, <2>1, <2>2 DEF TypeOK, Offer
    <3> QED  BY <1>0, <2>1, <2>2, <3>1 DEF SessionOffers, Session
  <2>3. CASE sess' # sess /\ r.session # s
    <3>1. sess'[s] = sess[s]
      BY <1>0, <1>3, <2>1, <2>3 DEF TypeOK, Offer
    <3> QED  BY <3>1 DEF SameSession
  <2> QED  BY <1>1, <2>2, <2>3 DEF SameSession
<1>4. ASSUME NEW h \in Handlers, CompleteConnectSession(h) PROVE SameSession(s) \/ SessionBinds(s)
  <2> DEFINE r == request[h]
  <2>1. /\ r.session \in Sessions /\ r.user \in consent[r.session]
        /\ r.installation \in Owned[r.user]
    BY <1>0, <1>4, StepFacts DEF CompleteConnectSession, Completable
  <2>2. CASE r.session = s
    <3>1. /\ sess[s].status = "pending"
          /\ sess'[s] = [sess[s] EXCEPT !.status = "ready", !.installation = r.installation,
                                        !.token = issued + 1, !.candidates = {}]
      BY <1>0, <1>4, <2>1, <2>2 DEF TypeOK, CompleteConnectSession, Completable
    <3>2. issued' # issued
      BY <1>0, <1>4, EnrollmentAssumption
      DEF TypeOK, CompleteConnectSession, InsertInstanceCredentials
    <3> QED  BY <1>0, <2>1, <2>2, <3>1, <3>2 DEF SessionBinds, Session
  <2>3. CASE r.session # s
    <3>1. sess'[s] = sess[s]
      BY <1>0, <1>4, <2>1, <2>3 DEF TypeOK, CompleteConnectSession
    <3> QED  BY <3>1 DEF SameSession
  <2> QED  BY <2>2, <2>3
<1>5. ASSUME NEW h \in Handlers, FailConnectSession(h) PROVE SameSession(s) \/ SessionTurns(s)
  <2> DEFINE x == request[h].session
  <2>1. x \in Sessions
    BY <1>0, <1>5, StepFacts DEF FailConnectSession
  <2>2. CASE sess' # sess /\ x = s
    <3>1. /\ sess[s].status = "pending"
          /\ sess'[s] = [sess[s] EXCEPT !.status = "failed", !.candidates = {}]
      BY <1>0, <1>5, <2>1, <2>2 DEF TypeOK, FailConnectSession
    <3> QED  BY <1>0, <3>1 DEF SessionTurns, Session
  <2>3. CASE sess' # sess /\ x # s
    <3>1. sess'[s] = sess[s]
      BY <1>0, <1>5, <2>1, <2>3 DEF TypeOK, FailConnectSession
    <3> QED  BY <3>1 DEF SameSession
  <2> QED  BY <1>1, <2>2, <2>3 DEF SameSession
<1>6. ASSUME NEW x \in Sessions, ConnectStart(x) PROVE sess' = sess
  BY <1>6 DEF ConnectStart, CreateOauthState
<1>7. ASSUME NEW i \in Installations, NEW x \in Sessions \cup {NoSession}, Setup(i, x)
      PROVE  sess' = sess
  BY <1>7 DEF Setup, CreateOauthState
<1>8. ASSUME NEW h \in Handlers,
             \/ Admit(h) \/ CompleteRefused(h) \/ Verify(h) \/ CreateConnectionCode(h) \/ Abort(h)
             \/ \E t \in Target, u \in Users : Callback(h, t, u)
             \/ \E x \in Sessions, i \in Installations : Select(h, x, i)
      PROVE  sess' = sess
  BY <1>8 DEF Admit, CompleteRefused, Verify, CreateConnectionCode, Abort, Callback, Select
<1>9. ASSUME NEW i \in Installations,
             \/ RedeemConnectionCode(i) \/ CodeExpires(i) \/ RevokeInstance(i) \/ Uninstall(i)
             \/ UninstallReported(i)
      PROVE  sess' = sess
  BY <1>9 DEF RedeemConnectionCode, CodeExpires, RevokeInstance, Uninstall, UninstallReported
<1>10. CASE (\E t \in Target : StateWasted(t)) \/ UNCHANGED vars
  BY <1>1, <1>10 DEF StateWasted, vars
<1> QED
  BY <1>1, <1>2, <1>3, <1>4, <1>5, <1>6, <1>7, <1>8, <1>9, <1>10 DEF Next, Handle

\* Offers stay justified and bindings keep their consent.
LEMMA SessionsPreserved == IInv /\ [Next]_vars => OffersJustified' /\ BoundWithConsent'
<1> SUFFICES ASSUME IInv, [Next]_vars, NEW s \in Sessions
             PROVE  /\ sess'[s].user # Nobody => /\ sess'[s].user \in consent'[s]
                                                 /\ sess'[s].candidates \subseteq Owned[sess'[s].user]
                    /\ sess'[s].status \in {"ready", "consumed"} =>
                          \E u \in consent'[s] : sess'[s].installation \in Owned[u]
  BY DEF OffersJustified, BoundWithConsent
<1>1. OffersJustified /\ BoundWithConsent /\ consent[s] \subseteq consent'[s]
  BY ConsentGrows DEF IInv
<1>2. CASE SameSession(s)
  BY <1>1, <1>2 DEF SameSession, OffersJustified, BoundWithConsent
<1>3. CASE SessionTurns(s)
  BY <1>1, <1>3 DEF SessionTurns, OffersJustified, BoundWithConsent
<1>4. CASE SessionOffers(s)
  BY <1>1, <1>4 DEF SessionOffers
<1>5. CASE SessionBinds(s)
  BY <1>1, <1>5 DEF SessionBinds, OffersJustified
<1> QED  BY <1>2, <1>3, <1>4, <1>5, SessionMoves

\* Only a user who can access an installation is recorded with it.
LEMMA OwnersPreserved == IInv /\ [Next]_vars => VerifiedByAnOwner'
<1> SUFFICES ASSUME IInv, [Next]_vars PROVE VerifiedByAnOwner'
  OBVIOUS
<1>0. TypeOK /\ RequestsJustified /\ VerifiedByAnOwner
  BY DEF IInv
<1>1. CASE UNCHANGED <<row, verifiedBy>>
  BY <1>0, <1>1 DEF VerifiedByAnOwner
<1>2. ASSUME NEW i \in Installations, NEW u \in Users, i \in Owned[u], Verified(i, u)
      PROVE  VerifiedByAnOwner'
  BY <1>0, <1>2 DEF TypeOK, VerifiedByAnOwner, Verified
<1>3. ASSUME NEW h \in Handlers, CompleteConnectSession(h) PROVE VerifiedByAnOwner'
  <2>1. /\ request[h].user \in Users /\ request[h].installation \in Installations
        /\ request[h].installation \in Owned[request[h].user]
    BY <1>0, <1>3, StepFacts DEF CompleteConnectSession, Completable
  <2> QED  BY <1>2, <1>3, <2>1 DEF CompleteConnectSession
<1>4. ASSUME NEW h \in Handlers, Verify(h) PROVE VerifiedByAnOwner'
  <2>1. /\ request[h].user \in Users /\ request[h].allowed \subseteq Installations
        /\ request[h].allowed \subseteq Owned[request[h].user]
    BY <1>0, <1>4, StepFacts DEF Verify
  <2> QED  BY <1>1, <1>2, <1>4, <2>1 DEF Verify
<1>5. ASSUME NEW i \in Installations, UninstallReported(i) PROVE VerifiedByAnOwner'
  BY <1>0, <1>5 DEF TypeOK, VerifiedByAnOwner, UninstallReported
<1>6. ASSUME NEW i \in Installations,
             RedeemConnectionCode(i) \/ CodeExpires(i) \/ RevokeInstance(i) \/ Uninstall(i)
      PROVE  VerifiedByAnOwner'
  BY <1>1, <1>6 DEF RedeemConnectionCode, CodeExpires, RevokeInstance, Uninstall, bindingVars
<1>7. ASSUME NEW h \in Handlers,
             \/ Admit(h) \/ Offer(h) \/ CompleteRefused(h) \/ FailConnectSession(h)
             \/ CreateConnectionCode(h) \/ Abort(h)
             \/ \E t \in Target, u \in Users : Callback(h, t, u)
             \/ \E x \in Sessions, i \in Installations : Select(h, x, i)
      PROVE  VerifiedByAnOwner'
  BY <1>1, <1>7 DEF Admit, Offer, CompleteRefused, FailConnectSession, CreateConnectionCode, Abort,
                    Callback, Select, bindingVars
<1>8. ASSUME NEW x \in Sessions,
             \/ CreateConnectSession(x) \/ SessionAges(x) \/ ConnectStart(x) \/ ClaimReady(x)
             \/ ClaimExpired(x)
      PROVE  VerifiedByAnOwner'
  BY <1>1, <1>8 DEF CreateConnectSession, SessionAges, ConnectStart, CreateOauthState, ClaimReady,
                    ClaimExpired, bindingVars
<1>9. ASSUME NEW i \in Installations, NEW x \in Sessions \cup {NoSession}, Setup(i, x)
      PROVE  VerifiedByAnOwner'
  BY <1>1, <1>9 DEF Setup, CreateOauthState, bindingVars
<1>10. CASE (\E t \in Target : StateWasted(t)) \/ UNCHANGED vars
  BY <1>1, <1>10 DEF StateWasted, vars, bindingVars
<1> QED
  BY <1>3, <1>4, <1>5, <1>6, <1>7, <1>8, <1>9, <1>10 DEF Next, Handle

TokenInv == TokensFresh /\ ShownOnce /\ LiveTokenReachable

\* Steps that issue and return no token preserve what is said about tokens, even
\* when they revoke one.
LEMMA NoTokenMoves ==
    ASSUME IInv, [Next]_vars, UNCHANGED <<issued, shown>>,
           \A i \in Installations : live'[i] = live[i] \/ live'[i] = NoToken
    PROVE  TokenInv'
<1>1. ASSUME NEW s \in Sessions
      PROVE  /\ sess'[s].status = "ready" <=> sess[s].status = "ready"
             /\ sess'[s].token = sess[s].token /\ sess'[s].installation = sess[s].installation
  BY SessionMoves DEF SameSession, SessionTurns, SessionOffers, SessionBinds
<1>2. TokensFresh'
  BY <1>1 DEF IInv, TokensFresh
<1>3. ShownOnce'
  BY DEF IInv, ShownOnce
<1>4. LiveTokenReachable'
  BY <1>1 DEF IInv, LiveTokenReachable
<1> QED  BY <1>2, <1>3, <1>4 DEF TokenInv

\* Tokens are issued, returned once, and not lost.
LEMMA TokensPreserved == IInv /\ [Next]_vars => TokenInv'
<1> SUFFICES ASSUME IInv, [Next]_vars PROVE TokenInv'
  OBVIOUS
<1>0. TypeOK /\ RequestsJustified /\ TokensFresh /\ ShownOnce /\ LiveTokenReachable
  BY DEF IInv
<1>1. CASE UNCHANGED <<issued, shown, live>>
  BY <1>1, NoTokenMoves
<1>2. ASSUME NEW i \in Installations, RevokeInstance(i) \/ UninstallReported(i) PROVE TokenInv'
  <2>1. \A j \in Installations : live'[j] = live[j] \/ live'[j] = NoToken
    BY <1>0, <1>2 DEF TypeOK, RevokeInstance, UninstallReported
  <2> QED  BY <1>2, <2>1, NoTokenMoves DEF RevokeInstance, UninstallReported
<1>3. ASSUME NEW s \in Sessions, ClaimReady(s) PROVE TokenInv'
  <2> DEFINE k == sess[s].token
  <2>1. k \in Tokens /\ k <= issued /\ shown[k] = 0
    BY <1>0, <1>3 DEF TokensFresh, ClaimReady
  <2>2. shown' = [shown EXCEPT ![k] = 1] /\ issued' = issued /\ live' = live
    BY <1>0, <1>3, <2>1 DEF TypeOK, ClaimReady, bindingVars
  <2>3. /\ sess'[s].status = "consumed"
        /\ \A t \in Sessions \ {s} : sess'[t] = sess[t]
    BY <1>0, <1>3 DEF TypeOK, ClaimReady
  <2>4. shown'[k] = 1 /\ \A j \in Tokens \ {k} : shown'[j] = shown[j]
    BY <1>0, <2>1, <2>2 DEF TypeOK
  <2>5. ASSUME NEW t \in Sessions, sess'[t].status = "ready"
        PROVE  t # s /\ sess'[t] = sess[t] /\ sess[t].token \in Tokens /\ sess[t].token # k
    BY <1>0, <1>3, <2>3, <2>5 DEF TokensFresh, ClaimReady
  <2> HIDE DEF k
  <2>6. TokensFresh'
    <3>1. \A j \in Tokens : j > issued' => shown'[j] = 0
      BY <1>0, <2>1, <2>2, <2>4, EnrollmentAssumption DEF TypeOK, TokensFresh, Tokens
    <3>2. ASSUME NEW t \in Sessions, sess'[t].status = "ready"
          PROVE  /\ sess'[t].token \in Tokens /\ sess'[t].token <= issued'
                 /\ shown'[sess'[t].token] = 0
      BY <1>0, <2>2, <2>4, <2>5, <3>2 DEF TokensFresh
    <3>3. ASSUME NEW t \in Sessions, NEW x \in Sessions, sess'[t].status = "ready",
                 sess'[x].status = "ready", sess'[t].token = sess'[x].token
          PROVE  t = x
      BY <1>0, <2>5, <3>3 DEF TokensFresh
    <3> QED  BY <3>1, <3>2, <3>3 DEF TokensFresh
  <2>7. ShownOnce'
    BY <1>0, <2>4 DEF ShownOnce
  <2>8. LiveTokenReachable'
    <3> SUFFICES ASSUME NEW i \in Installations, live[i] # NoToken
                 PROVE  \/ shown'[live[i]] > 0
                        \/ \E t \in Sessions : /\ sess'[t].status = "ready"
                                               /\ sess'[t].token = live[i]
                                               /\ sess'[t].installation = i
      BY <2>2 DEF LiveTokenReachable
    <3>1. live[i] \in Tokens
      BY <1>0 DEF TypeOK
    <3>2. CASE live[i] = k
      BY <2>4, <3>2
    <3>3. CASE live[i] # k /\ shown[live[i]] > 0
      BY <2>4, <3>1, <3>3
    <3>4. CASE live[i] # k /\ ~(shown[live[i]] > 0)
      <4>1. PICK t \in Sessions : /\ sess[t].status = "ready" /\ sess[t].token = live[i]
                                  /\ sess[t].installation = i
        BY <1>0, <3>4 DEF LiveTokenReachable
      <4>2. t # s
        BY <3>4, <4>1 DEF k
      <4> QED  BY <2>3, <4>1, <4>2
    <3> QED  BY <3>2, <3>3, <3>4
  <2> QED  BY <2>6, <2>7, <2>8 DEF TokenInv
<1>4. ASSUME NEW h \in Handlers, CompleteConnectSession(h) PROVE TokenInv'
  <2> DEFINE s == request[h].session
             i == request[h].installation
             k == issued + 1
  <2>1. s \in Sessions /\ i \in Installations /\ sess[s].status = "pending"
    BY <1>0, <1>4, StepFacts DEF CompleteConnectSession, Completable
  <2>2. /\ k \in Tokens /\ issued' = k /\ shown' = shown /\ issued \in Nat
        /\ live'[i] = k /\ \A j \in Installations \ {i} : live'[j] = live[j]
    BY <1>0, <1>4, <2>1, EnrollmentAssumption
    DEF TypeOK, CompleteConnectSession, InsertInstanceCredentials, Tokens
  <2>3. \A t \in Sessions \ {s} : sess'[t] = sess[t]
    BY <1>0, <1>4, <2>1 DEF TypeOK, CompleteConnectSession
  <2>4. sess'[s].status = "ready" /\ sess'[s].token = k /\ sess'[s].installation = i
    <3>1. sess[s] \in Session
      BY <1>0, <2>1 DEF TypeOK
    <3>2. sess'[s] = [sess[s] EXCEPT !.status = "ready", !.installation = i,
                                     !.token = k, !.candidates = {}]
      BY <1>0, <1>4, <2>1 DEF TypeOK, CompleteConnectSession
    <3> QED  BY <3>1, <3>2 DEF Session
  <2>5. shown[k] = 0
    BY <1>0, <2>2 DEF TokensFresh
  <2>6. ASSUME NEW t \in Sessions, t # s, sess'[t].status = "ready"
        PROVE  /\ sess'[t].token = sess[t].token /\ sess[t].status = "ready"
               /\ sess[t].token \in Tokens /\ sess[t].token <= issued /\ sess[t].token # k
               /\ shown[sess[t].token] = 0
    <3>1. sess'[t] = sess[t]
      BY <2>3, <2>6
    <3>2. sess[t].token \in Tokens /\ sess[t].token <= issued /\ shown[sess[t].token] = 0
      BY <1>0, <2>6, <3>1 DEF TokensFresh
    <3> QED  BY <2>2, <2>6, <3>1, <3>2 DEF Tokens
  <2> HIDE DEF s, i, k
  <2>7. TokensFresh'
    <3>1. \A j \in Tokens : j > issued' => shown'[j] = 0
      BY <1>0, <2>2 DEF TokensFresh, Tokens, k
    <3>2. ASSUME NEW t \in Sessions, sess'[t].status = "ready"
          PROVE  /\ sess'[t].token \in Tokens /\ sess'[t].token <= issued'
                 /\ shown'[sess'[t].token] = 0
      <4>1. CASE t = s
        BY <2>2, <2>4, <2>5, <4>1 DEF k
      <4>2. CASE t # s
        BY <2>2, <2>6, <3>2, <4>2 DEF k, Tokens
      <4> QED  BY <4>1, <4>2
    <3>3. ASSUME NEW t \in Sessions, NEW x \in Sessions, sess'[t].status = "ready",
                 sess'[x].status = "ready", sess'[t].token = sess'[x].token
          PROVE  t = x
      BY <1>0, <2>4, <2>6, <3>3 DEF TokensFresh
    <3> QED  BY <3>1, <3>2, <3>3 DEF TokensFresh
  <2>8. ShownOnce'
    BY <1>0, <2>2 DEF ShownOnce
  <2>9. LiveTokenReachable'
    <3> SUFFICES ASSUME NEW j \in Installations, live'[j] # NoToken
                 PROVE  \/ shown'[live'[j]] > 0
                        \/ \E t \in Sessions : /\ sess'[t].status = "ready"
                                               /\ sess'[t].token = live'[j]
                                               /\ sess'[t].installation = j
      BY DEF LiveTokenReachable
    <3>1. CASE j = i
      BY <2>1, <2>2, <2>4, <3>1
    <3>2. CASE j # i
      <4>1. live'[j] = live[j]
        BY <2>2, <3>2
      <4>2. ASSUME NEW t \in Sessions, sess[t].status = "ready" PROVE sess'[t] = sess[t]
        BY <2>1, <2>3, <4>2
      <4> QED  BY <1>0, <2>2, <4>1, <4>2 DEF LiveTokenReachable
    <3> QED  BY <3>1, <3>2
  <2> QED  BY <2>7, <2>8, <2>9 DEF TokenInv
<1>5. ASSUME NEW i \in Installations, RedeemConnectionCode(i) PROVE TokenInv'
  <2> DEFINE k == issued + 1
  <2>1. /\ k \in Tokens /\ issued' = k /\ issued \in Nat
        /\ live'[i] = k /\ \A j \in Installations \ {i} : live'[j] = live[j]
    BY <1>0, <1>5, EnrollmentAssumption
    DEF TypeOK, RedeemConnectionCode, InsertInstanceCredentials, Tokens
  <2>2. shown[k] = 0
    BY <1>0, <2>1 DEF TokensFresh
  <2>3. shown'[k] = 1 /\ sess' = sess /\ \A j \in Tokens \ {k} : shown'[j] = shown[j]
    BY <1>0, <1>5, <2>1, <2>2 DEF TypeOK, RedeemConnectionCode
  <2> HIDE DEF k
  <2>4. TokensFresh'
    <3>1. \A j \in Tokens : j > issued' => shown'[j] = 0
      BY <1>0, <2>1, <2>3 DEF TokensFresh, Tokens, k
    <3>2. ASSUME NEW t \in Sessions, sess[t].status = "ready"
          PROVE  /\ sess[t].token \in Tokens /\ sess[t].token <= issued'
                 /\ shown'[sess[t].token] = 0
      <4>1. sess[t].token \in Tokens /\ sess[t].token <= issued /\ shown[sess[t].token] = 0
        BY <1>0, <3>2 DEF TokensFresh
      <4> QED  BY <2>1, <2>3, <4>1 DEF k, Tokens
    <3> QED  BY <1>0, <2>3, <3>1, <3>2 DEF TokensFresh
  <2>5. ShownOnce'
    BY <1>0, <2>3 DEF ShownOnce
  <2>6. LiveTokenReachable'
    <3> SUFFICES ASSUME NEW j \in Installations, live'[j] # NoToken
                 PROVE  \/ shown'[live'[j]] > 0
                        \/ \E t \in Sessions : /\ sess[t].status = "ready"
                                               /\ sess[t].token = live'[j]
                                               /\ sess[t].installation = j
      BY <2>3 DEF LiveTokenReachable
    <3>1. CASE live'[j] = k
      BY <2>3, <3>1
    <3>2. CASE live'[j] # k
      <4>1. live'[j] = live[j] /\ live[j] \in Tokens
        BY <1>0, <2>1, <3>2 DEF TypeOK
      <4> QED  BY <1>0, <2>3, <3>2, <4>1 DEF LiveTokenReachable
    <3> QED  BY <3>1, <3>2
  <2> QED  BY <2>4, <2>5, <2>6 DEF TokenInv
<1>6. ASSUME NEW i \in Installations, CodeExpires(i) \/ Uninstall(i) PROVE TokenInv'
  BY <1>1, <1>6 DEF CodeExpires, Uninstall, bindingVars
<1>7. ASSUME NEW h \in Handlers,
             \/ Admit(h) \/ Offer(h) \/ CompleteRefused(h) \/ FailConnectSession(h) \/ Verify(h)
             \/ CreateConnectionCode(h) \/ Abort(h)
             \/ \E t \in Target, u \in Users : Callback(h, t, u)
             \/ \E x \in Sessions, i \in Installations : Select(h, x, i)
      PROVE  TokenInv'
  BY <1>1, <1>7 DEF Admit, Offer, CompleteRefused, FailConnectSession, Verify,
                    CreateConnectionCode, Abort, Callback, Select, bindingVars
<1>8. ASSUME NEW x \in Sessions,
             CreateConnectSession(x) \/ SessionAges(x) \/ ConnectStart(x) \/ ClaimExpired(x)
      PROVE  TokenInv'
  BY <1>1, <1>8 DEF CreateConnectSession, SessionAges, ConnectStart, CreateOauthState,
                    ClaimExpired, bindingVars
<1>9. ASSUME NEW i \in Installations, NEW x \in Sessions \cup {NoSession}, Setup(i, x)
      PROVE  TokenInv'
  BY <1>1, <1>9 DEF Setup, CreateOauthState, bindingVars
<1>10. CASE (\E t \in Target : StateWasted(t)) \/ UNCHANGED vars
  BY <1>1, <1>10 DEF StateWasted, vars, bindingVars
<1> QED
  BY <1>2, <1>3, <1>4, <1>5, <1>6, <1>7, <1>8, <1>9, <1>10 DEF Next, Handle

\* The invariant holds in every reachable state.
LEMMA Invariance == Spec => []IInv
<1>1. IInv /\ [Next]_vars => IInv'
  BY TypePreserved, RequestsPreserved, SessionsPreserved, OwnersPreserved, TokensPreserved
  DEF IInv, TokenInv
<1> QED  BY InitIInv, <1>1, PTL DEF Spec

\* The relay's enrollment tables are well typed.
THEOREM EnrollmentTypeCorrect == Spec => []TypeOK
<1>1. IInv => TypeOK
  BY DEF IInv
<1> QED  BY Invariance, <1>1, PTL

\* Whoever shares a session and in whatever order their requests run, it is bound
\* to an installation of a user who authorized in it.
THEOREM SessionsBoundWithConsent == Spec => []BoundWithConsent
<1>1. IInv => BoundWithConsent
  BY DEF IInv
<1> QED  BY Invariance, <1>1, PTL

\* A verified installation is recorded with a user who can access it.
THEOREM InstallationsVerified == Spec => []VerifiedByAnOwner
<1>1. IInv => VerifiedByAnOwner
  BY DEF IInv
<1> QED  BY Invariance, <1>1, PTL

\* No credential is returned twice.
THEOREM CredentialsShownOnce == Spec => []ShownOnce
<1>1. IInv => ShownOnce
  BY DEF IInv
<1> QED  BY Invariance, <1>1, PTL

\* No live credential is lost inside the relay.
THEOREM CredentialsReachable == Spec => []LiveTokenReachable
<1>1. IInv => LiveTokenReachable
  BY DEF IInv
<1> QED  BY Invariance, <1>1, PTL

\* A failed or claimed session stays what it is.
THEOREM EndedSessionsStay == Spec => EndedSessionStays
<1> DEFINE Stays == \A s \in Sessions : sess[s].status \in {"failed", "consumed"} =>
                        sess[s]'.status = sess[s].status
<1>1. IInv /\ [Next]_vars => [Stays]_vars
  BY SessionMoves DEF SameSession, SessionTurns, SessionOffers, SessionBinds
<1>2. Spec => [][Stays]_vars
  BY Invariance, <1>1, PTL DEF Spec
<1> QED  BY <1>2 DEF EndedSessionStays
=============================================================================
