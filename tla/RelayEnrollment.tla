-------------------------- MODULE RelayEnrollment --------------------------
(***************************************************************************)
(* How a self-hosted server comes by its credential: connect sessions,     *)
(* OAuth states, connection codes and the instances they bind              *)
(* (diffuse_relay/store.py and app.py).                                    *)
(*                                                                         *)
(* The relay runs as many short-lived processes over one database, so the  *)
(* requests of a browser and of the CLI interleave between their           *)
(* transactions.  A handler is a request in progress; each of its steps is *)
(* one transaction together with the decision that follows it.  GitHub is  *)
(* represented by what it tells: which installations a user can access.    *)
(***************************************************************************)
EXTENDS Integers, FiniteSets

CONSTANTS
    Sessions,       \* connect sessions, one per `diffuse github connect`
    Installations,  \* installations of the GitHub App
    Users,          \* GitHub users who authorize
    Owned,          \* the installations a user can access while they exist
    Handlers,       \* concurrent requests of browsers
    MaxStates,      \* bound on the OAuth states created
    MaxTokens       \* bound on the credentials issued

ASSUME EnrollmentAssumption ==
    /\ Owned \in [Users -> SUBSET Installations]
    /\ IsFiniteSet(Installations)
    /\ MaxStates \in Nat /\ MaxTokens \in Nat

NoSession == "no session"
NoInstallation == "no installation"
Nobody == "nobody"
NoToken == 0

Tokens == 1..MaxTokens
Target == [session : Sessions \cup {NoSession},
           installation : Installations \cup {NoInstallation}]
Session == [status : {"none", "pending", "ready", "consumed", "failed"},
            life : 0..2,
            candidates : SUBSET Installations,
            user : Users \cup {Nobody},
            installation : Installations \cup {NoInstallation},
            token : Tokens \cup {NoToken}]
Request == [step : {"admit", "offer", "bind", "fail", "verify", "code"},
            session : Sessions \cup {NoSession},
            installation : Installations \cup {NoInstallation},
            user : Users,
            allowed : SUBSET Installations]
Idle == [step |-> "idle"]

VARIABLES
    installed,  \* GitHub: installations that exist
    notices,    \* GitHub: `deleted` webhooks on their way
    row,        \* app_installations: absent, active or inactive
    verifiedBy, \* app_installations.github_user_id
    live,       \* the token of the instance that is not revoked
    issued,     \* how many tokens were issued
    sess,       \* connect_sessions; life is 2 with a second or more to go,
                \* 1 with less, 0 past expires_at
    states,     \* connect_oauth_states: unused, unexpired states per target
    created,    \* how many OAuth states were created
    codes,      \* connect_enrollment_codes: unused, unexpired codes
    request,    \* what each handler is doing
    shown,      \* how often each token was returned in a response (history)
    consent     \* the users who authorized for a session (history)

vars == <<installed, notices, row, verifiedBy, live, issued, sess, states, created,
          codes, request, shown, consent>>
gitHubVars == <<installed, notices>>
bindingVars == <<row, verifiedBy, live, issued>>
oauthVars == <<states, created>>

\* The state each variable is drawn from.
TypeOK ==
    /\ installed \subseteq Installations /\ notices \subseteq Installations
    /\ row \in [Installations -> {"absent", "active", "inactive"}]
    /\ verifiedBy \in [Installations -> Users \cup {Nobody}]
    /\ live \in [Installations -> Tokens \cup {NoToken}]
    /\ issued \in 0..MaxTokens
    /\ sess \in [Sessions -> Session]
    /\ states \in [Target -> Nat]
    /\ created \in 0..MaxStates
    /\ codes \in [Installations -> Nat]
    /\ request \in [Handlers -> Request \cup {Idle}]
    /\ shown \in [Tokens -> Nat]
    /\ consent \in [Sessions -> SUBSET Users]

Init ==
    /\ installed = Installations /\ notices = {}
    /\ row = [i \in Installations |-> "absent"]
    /\ verifiedBy = [i \in Installations |-> Nobody]
    /\ live = [i \in Installations |-> NoToken]
    /\ issued = 0
    /\ sess = [s \in Sessions |->
                 [status |-> "none", life |-> 2, candidates |-> {}, user |-> Nobody,
                  installation |-> NoInstallation, token |-> NoToken]]
    /\ states = [t \in Target |-> 0] /\ created = 0
    /\ codes = [i \in Installations |-> 0]
    /\ request = [h \in Handlers |-> Idle]
    /\ shown = [k \in Tokens |-> 0]
    /\ consent = [s \in Sessions |-> {}]

-----------------------------------------------------------------------------
(* Sessions and states.                                                    *)

\* get_pending_connect_session finds the row.
Open(s) == sess[s].status \in {"pending", "ready"} /\ sess[s].life > 0

CreateConnectSession(s) ==
    /\ sess[s].status = "none"
    /\ sess' = [sess EXCEPT ![s].status = "pending"]
    /\ UNCHANGED <<gitHubVars, bindingVars, oauthVars, codes, request, shown, consent>>

\* Time passes for a session.
SessionAges(s) ==
    /\ sess[s].status # "none" /\ sess[s].life > 0
    /\ sess' = [sess EXCEPT ![s].life = @ - 1]
    /\ UNCHANGED <<gitHubVars, bindingVars, oauthVars, codes, request, shown, consent>>

CreateOauthState(t) ==
    /\ created < MaxStates
    /\ created' = created + 1
    /\ states' = [states EXCEPT ![t] = @ + 1]
    /\ UNCHANGED <<gitHubVars, bindingVars, sess, codes, request, shown, consent>>

\* The page the CLI opens; a session that is ready only shows a page.  Nobody reads
\* a state before its callback, so here and in Setup the look at the session and
\* the insert are one step.
ConnectStart(s) ==
    /\ Open(s) /\ sess[s].status = "pending"
    /\ CreateOauthState([session |-> s, installation |-> NoInstallation])

\* GitHub's Setup URL, after the App was installed: the browser's cookie may name
\* a session, which counts if it is still open.
Setup(i, s) ==
    /\ i \in installed
    /\ CreateOauthState([session |-> IF s \in Sessions /\ Open(s) THEN s ELSE NoSession,
                         installation |-> i])

\* Faulty variant: a state that was used is accepted again.
UsableAgain(t) == created > 0

Usable(t) == states[t] > 0
Used(t) == states' = [states EXCEPT ![t] = @ - 1]

\* A state outlives its ten minutes, or GitHub refuses the code it came with.
StateWasted(t) ==
    /\ Usable(t) /\ Used(t)
    /\ UNCHANGED <<gitHubVars, bindingVars, sess, created, codes, request, shown, consent>>

-----------------------------------------------------------------------------
(* Browser requests.                                                       *)

Start(h, r) ==
    /\ request[h] = Idle
    /\ request' = [request EXCEPT ![h] = r]

Answer(h) == request' = [request EXCEPT ![h] = Idle]
Continue(h, step) == request' = [request EXCEPT ![h].step = step]
At(h, step) == request[h].step = step

\* github_callback: the state is used up, GitHub names the user and the
\* installations that user can access now.
Callback(h, t, u) ==
    /\ Usable(t) /\ Used(t)
    /\ Start(h, [step |-> IF t.session = NoSession THEN "verify" ELSE "admit",
                 session |-> t.session, installation |-> t.installation,
                 user |-> u, allowed |-> Owned[u] \cap installed])
    /\ consent' = [s \in Sessions |-> IF s = t.session THEN consent[s] \cup {u} ELSE consent[s]]
    /\ UNCHANGED <<gitHubVars, bindingVars, sess, created, codes, shown>>

\* What the callback does about an open session: bind the installation the
\* browser came from or the only one there is, offer a choice, or refuse.
Decision(r) ==
    IF r.installation # NoInstallation
    THEN {[r EXCEPT !.step = IF r.installation \in r.allowed THEN "bind" ELSE "fail"]}
    ELSE IF Cardinality(r.allowed) > 1 THEN {[r EXCEPT !.step = "offer"]}
    ELSE IF r.allowed = {} THEN {Idle}
    ELSE {[r EXCEPT !.step = "bind", !.installation = i] : i \in r.allowed}

Admit(h) ==
    /\ At(h, "admit")
    /\ IF Open(request[h].session)
       THEN \E next \in Decision(request[h]) : request' = [request EXCEPT ![h] = next]
       ELSE Answer(h)
    /\ UNCHANGED <<gitHubVars, bindingVars, sess, oauthVars, codes, shown, consent>>

\* set_connect_session_candidates
Offer(h) ==
    LET r == request[h] IN
    /\ At(h, "offer")
    /\ sess' = IF sess[r.session].status = "pending" /\ sess[r.session].life > 0
               THEN [sess EXCEPT ![r.session].candidates = r.allowed,
                                 ![r.session].user = r.user]
               ELSE sess
    /\ Answer(h)
    /\ UNCHANGED <<gitHubVars, bindingVars, oauthVars, codes, shown, consent>>

\* github_connect_select: the user who authorized picks an installation; the
\* row is read now and compared when the session is completed.
Select(h, s, i) ==
    /\ Open(s) /\ sess[s].status = "pending"
    /\ sess[s].user # Nobody
    /\ Start(h, [step |-> "bind", session |-> s, installation |-> i,
                 user |-> sess[s].user, allowed |-> sess[s].candidates])
    /\ UNCHANGED <<gitHubVars, bindingVars, sess, oauthVars, codes, shown, consent>>

\* _insert_instance_credentials: the live instance of the installation gets a
\* new token, or an instance is inserted.
InsertInstanceCredentials(i) ==
    /\ issued < MaxTokens
    /\ issued' = issued + 1
    /\ live' = [live EXCEPT ![i] = issued + 1]

Verified(i, u) ==
    /\ row' = [row EXCEPT ![i] = "active"]
    /\ verifiedBy' = [verifiedBy EXCEPT ![i] = u]

\* Faulty variant: the choice is not compared with what GitHub listed.
CompletableUnchecked(r) == sess[r.session].status = "pending" /\ sess[r.session].life > 0

\* complete_connect_session locks the row and goes on only for a pending session
\* and an installation the user can access.
Completable(r) ==
    /\ sess[r.session].status = "pending" /\ sess[r.session].life > 0
    /\ r.installation \in r.allowed

CompleteConnectSession(h) ==
    LET r == request[h] IN
    /\ At(h, "bind") /\ Completable(r)
    /\ InsertInstanceCredentials(r.installation)
    /\ Verified(r.installation, r.user)
    /\ sess' = [sess EXCEPT ![r.session].status = "ready",
                            ![r.session].installation = r.installation,
                            ![r.session].token = issued + 1,
                            ![r.session].candidates = {}]
    /\ Answer(h)
    /\ UNCHANGED <<gitHubVars, oauthVars, codes, shown, consent>>

\* _finish_connect_session asks for the row once more first: a session that is no
\* longer open then is left alone, any other refusal fails it.
CompleteRefused(h) ==
    /\ At(h, "bind") /\ ~Completable(request[h])
    /\ \/ ~Open(request[h].session) /\ Answer(h)
       \/ Continue(h, "fail")
    /\ UNCHANGED <<gitHubVars, bindingVars, sess, oauthVars, codes, shown, consent>>

\* Faulty variant: whatever the session has become, it is failed.
FailAnySession(h) ==
    LET s == request[h].session IN
    /\ At(h, "fail")
    /\ sess' = [sess EXCEPT ![s].status = "failed", ![s].candidates = {}]
    /\ Answer(h)
    /\ UNCHANGED <<gitHubVars, bindingVars, oauthVars, codes, shown, consent>>

FailConnectSession(h) ==
    LET s == request[h].session IN
    /\ At(h, "fail")
    /\ sess' = IF sess[s].status = "pending"
               THEN [sess EXCEPT ![s].status = "failed", ![s].candidates = {}] ELSE sess
    /\ Answer(h)
    /\ UNCHANGED <<gitHubVars, bindingVars, oauthVars, codes, shown, consent>>

\* A callback without a session: record_verified_installation ...
Verify(h) ==
    LET r == request[h] IN
    /\ At(h, "verify")
    /\ \/ /\ r.installation \in r.allowed
          /\ Verified(r.installation, r.user)
          /\ Continue(h, "code")
       \/ /\ r.installation \notin r.allowed
          /\ Answer(h)
          /\ UNCHANGED <<row, verifiedBy>>
    /\ UNCHANGED <<gitHubVars, live, issued, sess, oauthVars, codes, shown, consent>>

\* ... then create_connection_code.
CreateConnectionCode(h) ==
    LET i == request[h].installation IN
    /\ At(h, "code")
    /\ codes' = [codes EXCEPT ![i] = @ + 1]
    /\ Answer(h)
    /\ UNCHANGED <<gitHubVars, bindingVars, sess, oauthVars, shown, consent>>

\* A request is cut off between two transactions.
Abort(h) ==
    /\ request[h] # Idle
    /\ Answer(h)
    /\ UNCHANGED <<gitHubVars, bindingVars, sess, oauthVars, codes, shown, consent>>

-----------------------------------------------------------------------------
(* The CLI, the operator and GitHub.                                       *)

\* redeem_connection_code: the credential is in the response and nowhere else.
RedeemConnectionCode(i) ==
    /\ codes[i] > 0
    /\ codes' = [codes EXCEPT ![i] = @ - 1]
    /\ InsertInstanceCredentials(i)
    /\ shown' = [shown EXCEPT ![issued + 1] = @ + 1]
    /\ UNCHANGED <<gitHubVars, row, verifiedBy, sess, oauthVars, request, consent>>

CodeExpires(i) ==
    /\ codes[i] > 0
    /\ codes' = [codes EXCEPT ![i] = @ - 1]
    /\ UNCHANGED <<gitHubVars, bindingVars, sess, oauthVars, request, shown, consent>>

\* Faulty variant: the session keeps its sealed credential.
ClaimReadyAgain(s) ==
    /\ sess[s].status = "ready"
    /\ shown' = [shown EXCEPT ![sess[s].token] = @ + 1]
    /\ UNCHANGED <<gitHubVars, bindingVars, sess, oauthVars, codes, request, consent>>

\* claim_connect_session of a ready session, expired or not.  Whether the CLI
\* receives the response makes no difference to the relay.
ClaimReady(s) ==
    /\ sess[s].status = "ready"
    /\ sess' = [sess EXCEPT ![s].status = "consumed"]
    /\ shown' = [shown EXCEPT ![sess[s].token] = @ + 1]
    /\ UNCHANGED <<gitHubVars, bindingVars, oauthVars, codes, request, consent>>

\* claim_connect_session of a session with no whole second left.
ClaimExpired(s) ==
    /\ sess[s].status = "pending" /\ sess[s].life < 2
    /\ sess' = [sess EXCEPT ![s].status = "failed"]
    /\ UNCHANGED <<gitHubVars, bindingVars, oauthVars, codes, request, shown, consent>>

\* revoke_instance
RevokeInstance(i) ==
    /\ live[i] # NoToken
    /\ live' = [live EXCEPT ![i] = NoToken]
    /\ UNCHANGED <<gitHubVars, row, verifiedBy, issued, sess, oauthVars, codes, request, shown,
                   consent>>

\* The App is uninstalled at GitHub; an installation id is never used again.
Uninstall(i) ==
    /\ i \in installed
    /\ installed' = installed \ {i}
    /\ notices' = notices \cup {i}
    /\ UNCHANGED <<bindingVars, sess, oauthVars, codes, request, shown, consent>>

\* The `deleted` webhook: set_installation_active(active=False, revoke_instances=True),
\* which does nothing for an installation the relay has no row of.
UninstallReported(i) ==
    /\ i \in notices
    /\ notices' = notices \ {i}
    /\ IF row[i] = "absent" THEN UNCHANGED <<row, live>>
       ELSE /\ row' = [row EXCEPT ![i] = "inactive"]
            /\ live' = [live EXCEPT ![i] = NoToken]
    /\ UNCHANGED <<installed, verifiedBy, issued, sess, oauthVars, codes, request, shown, consent>>

Handle(h) ==
    \/ Admit(h) \/ Offer(h) \/ CompleteConnectSession(h) \/ CompleteRefused(h)
    \/ FailConnectSession(h) \/ Verify(h) \/ CreateConnectionCode(h) \/ Abort(h)

Next ==
    \/ \E s \in Sessions : \/ CreateConnectSession(s) \/ SessionAges(s) \/ ConnectStart(s)
                           \/ ClaimReady(s) \/ ClaimExpired(s)
    \/ \E i \in Installations, s \in Sessions \cup {NoSession} : Setup(i, s)
    \/ \E t \in Target : StateWasted(t) \/ \E h \in Handlers, u \in Users : Callback(h, t, u)
    \/ \E h \in Handlers, s \in Sessions, i \in Installations : Select(h, s, i)
    \/ \E h \in Handlers : Handle(h)
    \/ \E i \in Installations : \/ RedeemConnectionCode(i) \/ CodeExpires(i)
                                \/ RevokeInstance(i) \/ Uninstall(i) \/ UninstallReported(i)

Spec == Init /\ [][Next]_vars

-----------------------------------------------------------------------------
(* Properties.                                                             *)

\* A session is bound only to an installation that one of the users who
\* authorized in that session can access, also when several browsers use the
\* session and the list a user chose from is replaced meanwhile
\* (complete_connect_session's allowed_installation_ids).
BoundWithConsent ==
    \A s \in Sessions : sess[s].status \in {"ready", "consumed"} =>
        \E u \in consent[s] : sess[s].installation \in Owned[u]

\* The user recorded with a verified installation can access it.
VerifiedByAnOwner ==
    \A i \in Installations : row[i] # "absent" =>
        verifiedBy[i] \in Users /\ i \in Owned[verifiedBy[i]]

\* A credential is returned at most once, by whichever of the two ways it is
\* handed out and however often the session is polled.
ShownOnce == \A k \in Tokens : shown[k] <= 1

\* A live credential is not lost inside the relay: it was returned, or a session
\* still holds it for its CLI.  In particular no second browser window fails a
\* session that another one has completed.
LiveTokenReachable ==
    \A i \in Installations : live[i] # NoToken =>
        \/ shown[live[i]] > 0
        \/ \E s \in Sessions : /\ sess[s].status = "ready"
                               /\ sess[s].token = live[i]
                               /\ sess[s].installation = i

\* What a session ended with is final: one that failed is never bound
\* afterwards, one that was claimed is never failed.
EndedSessionStays ==
    [][\A s \in Sessions : sess[s].status \in {"failed", "consumed"} =>
           sess[s]'.status = sess[s].status]_vars
=============================================================================
