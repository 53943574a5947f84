------------------------- MODULE AgentInvestigation -------------------------
(***************************************************************************)
(* The generation of one review by independent agents: the worker side     *)
(* (diffuse/review/agent_client.py and _generate_and_persist_review), the  *)
(* rows of agent_investigations, the two agent hosts (diffuse_host/api.py) *)
(* and the tool endpoint the agents call back (investigation/              *)
(* context_api.py).                                                        *)
(*                                                                         *)
(* A worker asks the host of one runtime for candidate findings and the    *)
(* host of the other one to verify them.  A dispatch is one HTTP request   *)
(* whose answer may be lost and which may reach the host late; the worker  *)
(* then polls.  A lease may run out under a worker that goes on, so two    *)
(* workers may investigate for the same review run.                        *)
(*                                                                         *)
(* Every capability lives equally long, so sessions expire in the order    *)
(* they were dispatched: the clock is the number of those that have.  The  *)
(* worker's own deadline for a session is over by then, or earlier.        *)
(* review_runs.started_at is the number of the attempt it starts, and      *)
(* created_at of a session the attempt it falls into.                      *)
(***************************************************************************)
EXTENDS AgentProtocol, FiniteSets

CONSTANTS
    Workers,        \* worker processes
    MaxSessions,    \* bound on the sessions that are dispatched
    MaxAttempts,    \* workflow_jobs.max_attempts
    Retained,       \* _MAX_RETAINED_TERMINAL_REVIEWS
    MaxRestarts,    \* bound on the restarts of a host
    MayMove,        \* may the pull request get a newer head?
    Callers,        \* the sessions whose agent calls the tool
    Errors          \* the CLI errors that happen, a subset of CliErrors

ASSUME InvestigationAssumption ==
    /\ MaxAttempts \in Nat \ {0} /\ MaxSessions \in Nat \ {0} /\ Retained \in Nat \ {0} /\ MaxRestarts \in Nat
    /\ MayMove \in BOOLEAN /\ Errors \subseteq CliErrors
    /\ Callers \subseteq Nat
    /\ "nobody" \notin Workers

Nobody == "nobody"
NoSession == 0
Sessions == 1..MaxSessions
MaxBytes == 1               \* max_result_bytes: sizes are 1 (fits) and 2

Unfinished == {"dispatched", "accepted", "running"}
Settled == {"completed", "failed", "cancelled"}
HostActive == {"accepted", "running", "cancel_requested"}

VARIABLES
    job,        \* [lease, claims, open]: the workflow job
    head,       \* the revision is still the head of the pull request
    run,        \* review_runs: [status, attempt, report]
    row,        \* agent_investigations
    expired,    \* the sessions 1..expired are past their expires_at
    post,       \* the request that dispatches a session, and its answer
    host,       \* what the hosts know of a session
    order,      \* the sessions that hosts took on, in that order
    slots,      \* _review_slots: hosts with a free slot
    client,     \* what each worker is doing
    call,       \* attempt a tool call in flight was resolved to, 0 if none
    log,        \* rows of the review's tool log
    restarts

vars == <<job, head, run, row, expired, post, host, order, slots, client, call, log, restarts>>
hostVars == <<host, order, slots>>
apiVars == <<call, log>>
db == <<job, head, run, row>>

Absent == [status |-> "absent", runtime |-> "claude", role |-> Candidate, attempt |-> 0,
           by |-> Nobody, input |-> NoResult, result |-> NoResult, cancelRequested |-> FALSE]
Unknown == [status |-> "absent", cancel |-> FALSE, result |-> NoResult, error |-> "none",
            thread |-> "none"]
NoPayload == [status |-> "absent", result |-> NoResult, error |-> "none"]
Quiet == [pc |-> "idle", cand |-> NoSession, ver |-> NoSession,
          seen |-> NoResult, outcome |-> "none"]

Steps == {"idle", "begin", "prepare", "insert", "waiting", "poll", "accept",
          "report", "persist", "abandon", "release"}

TypeOK ==
    /\ job \in [lease : Workers \cup {Nobody}, claims : 0..MaxAttempts, open : BOOLEAN]
    /\ head \in BOOLEAN
    /\ run.status \in {"none", "generating", "ready", "failed", "superseded"}
    /\ run.attempt \in 0..MaxAttempts
    /\ run.report \in {<<>>} \cup (Sessions \X Sessions)
    /\ \A s \in Sessions :
         /\ row[s].status \in {"absent"} \cup Unfinished \cup Settled
         /\ row[s].runtime \in RuntimeNames /\ row[s].role \in {Candidate, Verifier}
         /\ row[s].attempt \in 0..MaxAttempts /\ row[s].by \in Workers \cup {Nobody}
         /\ host[s].status \in {"absent"} \cup HostActive \cup Settled
         /\ host[s].thread \in {"none", "ready", "running", "finishing"}
    /\ expired \in 0..Cardinality(Sessions)
    /\ post \in [Sessions -> {"none", "sent", "accepted", "rejected", "refused"}]
    /\ order \in Seq(Sessions)
    /\ slots \subseteq RuntimeNames
    /\ \A w \in Workers :
         /\ client[w].pc \in Steps
         /\ client[w].cand \in Sessions \cup {NoSession}
         /\ client[w].ver \in Sessions \cup {NoSession}
         /\ client[w].outcome \in {"none", "superseded", "retry", "terminal"}
    /\ call \in [Sessions -> 0..MaxAttempts]
    /\ log \subseteq [session : Sessions, attempt : 1..MaxAttempts]
    /\ restarts \in 0..MaxRestarts

Init ==
    /\ job = [lease |-> Nobody, claims |-> 0, open |-> TRUE]
    /\ head = TRUE
    /\ run = [status |-> "none", attempt |-> 0, report |-> <<>>]
    /\ row = [s \in Sessions |-> Absent]
    /\ expired = 0
    /\ post = [s \in Sessions |-> "none"]
    /\ host = [s \in Sessions |-> Unknown]
    /\ order = <<>>
    /\ slots = RuntimeNames
    /\ client = [w \in Workers |-> Quiet]
    /\ call = [s \in Sessions |-> 0]
    /\ log = {}
    /\ restarts = 0

At(w, pc) == client[w].pc = pc
To(w, pc) == client' = [client EXCEPT ![w].pc = pc]
Stop(w, outcome) == client' = [client EXCEPT ![w].pc = "abandon", ![w].outcome = outcome,
                                              ![w].seen = NoResult]

\* The session a worker is at: the verifier once there is one.
Current(w) == IF client[w].ver # NoSession THEN client[w].ver ELSE client[w].cand
Mine(w) == {client[w].cand, client[w].ver} \ {NoSession}

IsExpired(s) == s <= expired

\* _heartbeat_and_check_current
Progress(w) == job.lease = w /\ head

-----------------------------------------------------------------------------
(* Job, lease and review run, reduced from ReviewExecution.                *)

Claim(w) ==
    /\ At(w, "idle")
    /\ job.open /\ job.lease = Nobody /\ job.claims < MaxAttempts
    /\ job' = [job EXCEPT !.lease = w, !.claims = @ + 1]
    /\ client' = [client EXCEPT ![w].pc = "begin"]
    /\ UNCHANGED <<head, run, row, expired, post, hostVars, apiVars, restarts>>

\* begin_review_run: a run that failed, or that a dead worker left, starts over.
Begin(w) ==
    /\ At(w, "begin")
    /\ IF run.status \in {"none", "failed", "generating"}
       THEN /\ run' = [run EXCEPT !.status = "generating", !.attempt = @ + 1]
            /\ To(w, "prepare")
       ELSE To(w, "release") /\ UNCHANGED run
    /\ UNCHANGED <<job, head, row, expired, post, hostVars, apiVars, restarts>>

LeaseExpires ==
    /\ job.lease # Nobody
    /\ job' = [job EXCEPT !.lease = Nobody]
    /\ UNCHANGED <<head, run, row, expired, post, hostVars, client, apiVars, restarts>>

MoveHead ==
    /\ MayMove /\ head
    /\ head' = FALSE
    /\ UNCHANGED <<job, run, row, expired, post, hostVars, client, apiVars, restarts>>

\* run_once: a ValueError is not retried, a superseded job neither.
Release(w) ==
    /\ At(w, "release")
    /\ job' = IF job.lease # w THEN job
              ELSE [job EXCEPT !.lease = Nobody, !.open = client[w].outcome = "retry"]
    /\ client' = [client EXCEPT ![w] = Quiet]
    /\ UNCHANGED <<head, run, row, expired, post, hostVars, apiVars, restarts>>

-----------------------------------------------------------------------------
(* _create_native_agent_investigation and AgentRuntime.generate.           *)

\* Both progress checks, and the archive of the revision between them.
Prepare(w) ==
    /\ At(w, "prepare")
    /\ \/ Progress(w) /\ row[MaxSessions].status = "absent" /\ To(w, "insert")
       \/ ~Progress(w) /\ Stop(w, "superseded")
       \/ Stop(w, "retry")
    /\ UNCHANGED <<db, expired, post, hostVars, apiVars, restarts>>

\* create_agent_investigation, and the request that follows; its answer is waited
\* for, the request itself may arrive at any time or never.  The insert may fail.
Insert(w) ==
    LET s == CHOOSE s \in Sessions : /\ row[s].status = "absent"
                                     /\ \A t \in Sessions : t < s => row[t].status # "absent"
        c == client[w].cand
        first == [Absent EXCEPT !.status = "dispatched", !.attempt = run.attempt, !.by = w]
    IN  /\ At(w, "insert")
        /\ \/ /\ row[MaxSessions].status = "absent"
              /\ IF c = NoSession
                 THEN /\ row' = [row EXCEPT ![s] = first]
                      /\ client' = [client EXCEPT ![w].pc = "waiting", ![w].cand = s]
                 ELSE /\ row' = [row EXCEPT ![s] =
                                   [first EXCEPT !.runtime = opposite_agent_runtime(row[c].runtime),
                                                 !.role = Verifier,
                                                 !.input = row[c].result]]
                      /\ client' = [client EXCEPT ![w].pc = "waiting", ![w].ver = s]
              /\ post' = [post EXCEPT ![s] = "sent"]
           \/ Stop(w, "retry") /\ UNCHANGED <<row, post>>
        /\ UNCHANGED <<job, head, run, expired, hostVars, apiVars, restarts>>

-----------------------------------------------------------------------------
(* _run_investigation.                                                     *)

\* _review_status
Payload(s) == [status |-> host[s].status, result |-> host[s].result, error |-> host[s].error]

\* record_agent_investigation_lifecycle: accepted and running only move forward.
Prior(status) == IF status = "accepted" THEN {"dispatched"} ELSE {"dispatched", "accepted"}

\* _record_lifecycle and, after the loop, _raise_for_terminal_payload with the
\* validation of a result.  Only its worker writes the row of a session.
Observe(w, seen) ==
    LET s == Current(w)
        advances == seen.status \in {"accepted", "running"} /\ row[s].status \in Prior(seen.status)
    IN  /\ row' = IF advances THEN [row EXCEPT ![s].status = seen.status] ELSE row
        /\ CASE seen.status = "cancel_requested" \/ advances \/ seen.status = row[s].status ->
                  To(w, "poll")
             [] seen.status = "completed" ->
                  IF Accepts(row[s].role, seen.result, s, row[s].runtime, row[s].input, MaxBytes)
                  THEN client' = [client EXCEPT ![w].pc = "accept", ![w].seen = seen.result]
                  ELSE Stop(w, "retry")
             [] seen.status = "failed" -> Stop(w, RaisedFor(seen.error))
             [] seen.status = "cancelled" -> Stop(w, "retry")
             [] OTHER -> Stop(w, "terminal")

\* The host's answer; the status in it was read some time after the start.
Answer(w) ==
    LET s == Current(w) IN
    /\ At(w, "waiting")
    /\ \/ /\ post[s] = "accepted" /\ host[s].status # "absent"
          /\ \E seen \in {Payload(s), [NoPayload EXCEPT !.status = "accepted"]} : Observe(w, seen)
       \/ post[s] = "rejected" /\ Stop(w, "retry") /\ UNCHANGED row
       \/ post[s] = "refused" /\ Stop(w, "terminal") /\ UNCHANGED row
    /\ post' = [post EXCEPT ![s] = "none"]
    /\ UNCHANGED <<job, head, run, expired, hostVars, apiVars, restarts>>

\* _investigation_status: an unknown session and a transport error alike.
Status(w) ==
    \/ host[Current(w)].status # "absent" /\ Observe(w, Payload(Current(w)))
    \/ Stop(w, "retry") /\ UNCHANGED row

\* The answer is lost or late, and the worker asks for the session instead.
Reconnect(w) ==
    /\ At(w, "waiting")
    /\ Status(w)
    /\ post' = [post EXCEPT ![Current(w)] = IF @ = "sent" THEN @ ELSE "none"]
    /\ UNCHANGED <<job, head, run, expired, hostVars, apiVars, restarts>>

\* cancel_review
Cancelled(s) ==
    IF host[s].status \in HostActive
    THEN [host[s] EXCEPT !.cancel = TRUE, !.status = "cancel_requested"] ELSE host[s]

\* The deadline is over: tell the host, then the row, then give up.
Cancel(w) ==
    LET s == Current(w) IN
    /\ \/ /\ host[s].status # "absent"
          /\ host' = [host EXCEPT ![s] = Cancelled(s)]
          /\ row' = IF row[s].status \in Unfinished
                    THEN [row EXCEPT ![s].cancelRequested = TRUE] ELSE row
       \/ UNCHANGED <<host, row>>
    /\ Stop(w, "retry")

Poll(w) ==
    /\ At(w, "poll")
    /\ \/ Cancel(w)
       \/ /\ ~IsExpired(Current(w))
          /\ IF Progress(w) THEN Status(w) ELSE Stop(w, "superseded") /\ UNCHANGED row
          /\ UNCHANGED host
    /\ UNCHANGED <<job, head, run, expired, post, order, slots, apiVars, restarts>>

Completable(s) == row[s].status \in Unfinished /\ ~IsExpired(s)

\* accept_agent_investigation_completion; AgentInvestigationReplayError is a
\* ValueError, so a completion that is not accepted ends the job.
Accept(w) ==
    LET s == Current(w)
        result == client[w].seen
        accepted == \/ Completable(s)
                    \/ row[s].status = "completed" /\ row[s].result = result
    IN  /\ At(w, "accept")
        /\ row' = IF Completable(s)
                  THEN [row EXCEPT ![s].status = "completed", ![s].result = result] ELSE row
        /\ IF accepted
           THEN client' = [client EXCEPT ![w].pc = IF row[s].role = Candidate THEN "prepare"
                                                   ELSE "report", ![w].seen = NoResult]
           ELSE Stop(w, "terminal")
        /\ UNCHANGED <<job, head, run, expired, post, hostVars, apiVars, restarts>>

-----------------------------------------------------------------------------
(* The end of _generate_and_persist_review.                                *)

Report(w) ==
    /\ At(w, "report")
    /\ IF Progress(w) THEN To(w, "persist") ELSE Stop(w, "superseded")
    /\ UNCHANGED <<db, expired, post, hostVars, apiVars, restarts>>

\* persist_review_report
Persist(w) ==
    /\ At(w, "persist")
    /\ IF run.status = "generating"
       THEN /\ run' = [run EXCEPT !.status = "ready", !.report = <<client[w].cand, client[w].ver>>]
            /\ To(w, "release")
       ELSE Stop(w, "retry") /\ UNCHANGED run
    /\ UNCHANGED <<job, head, row, expired, post, hostVars, apiVars, restarts>>

\* Faulty variant: abandoning does not leave a completed session alone.
AbandonedAny(w, status) ==
    [s \in Sessions |-> IF s \in Mine(w) THEN [row[s] EXCEPT !.status = status] ELSE row[s]]

\* Faulty variant: the sessions get the status of the run.
AbandonedAsRun(w, status) ==
    [s \in Sessions |-> IF s \in Mine(w) /\ row[s].status \in Unfinished
                        THEN [row[s] EXCEPT !.status = IF status = "cancelled" THEN "superseded"
                                                       ELSE status] ELSE row[s]]

Abandoned(w, status) ==
    [s \in Sessions |-> IF s \in Mine(w) /\ row[s].status \in Unfinished
                        THEN [row[s] EXCEPT !.status = status] ELSE row[s]]

\* _best_effort_cancel_host_investigation for the sessions there are, then one
\* transaction for the sessions and the run.
Abandon(w) ==
    LET superseded == client[w].outcome = "superseded" IN
    /\ At(w, "abandon")
    /\ \E told \in SUBSET {s \in Mine(w) : host[s].status # "absent"} :
         host' = [s \in Sessions |-> IF s \in told THEN Cancelled(s) ELSE host[s]]
    /\ row' = Abandoned(w, IF superseded THEN "cancelled" ELSE "failed")
    /\ run' = CASE superseded /\ job.lease = w /\ run.status \in {"generating", "ready"}
                    -> [run EXCEPT !.status = "superseded"]
                [] ~superseded /\ run.status = "generating" -> [run EXCEPT !.status = "failed"]
                [] OTHER -> run
    /\ To(w, "release")
    /\ UNCHANGED <<job, head, expired, post, order, slots, apiVars, restarts>>

-----------------------------------------------------------------------------
(* The agent host.                                                         *)

RuntimeOf(s) == row[s].runtime

\* _active_reviews of a host, a dictionary in insertion order.
Known(r) == {s \in Sessions : RuntimeOf(s) = r /\ host[s].status # "absent"}
Before(t, s) == \E i, j \in DOMAIN order : i < j /\ order[i] = t /\ order[j] = s

\* _prune_terminal_reviews: the oldest finished reviews make room.
Pruned(r) ==
    LET excess == Cardinality(Known(r)) - (Retained - 1)
        done == {s \in Known(r) : host[s].status \in Settled}
    IN  {s \in done : Cardinality({t \in done : Before(t, s)}) < excess}

\* An answer counts while the worker waits for it.
Reply(s, answer) ==
    post' = [post EXCEPT ![s] = IF \E w \in Workers : At(w, "waiting") /\ Current(w) = s
                                THEN answer ELSE "none"]

\* Faulty variant: the slot is left for the thread to take.
SlotTakenLater(r) == slots

SlotTaken(r) == slots \ {r}

\* start_review: the request arrives.
HostStart(s) ==
    LET r == RuntimeOf(s)
        gone == Pruned(r)
    IN  /\ post[s] = "sent"
        /\ IF IsExpired(s) \/ ~ValidDispatch(row[s].role, row[s].input, MaxBytes)
           THEN Reply(s, "refused") /\ UNCHANGED hostVars
           ELSE IF host[s].status # "absent"
           THEN Reply(s, "accepted") /\ UNCHANGED hostVars
           ELSE IF r \notin slots
           THEN /\ Reply(s, "rejected")
                /\ host' = [t \in Sessions |-> IF t \in gone THEN Unknown ELSE host[t]]
                /\ UNCHANGED <<order, slots>>
           ELSE /\ Reply(s, "accepted")
                /\ host' = [t \in Sessions |->
                              IF t = s THEN [Unknown EXCEPT !.status = "accepted", !.thread = "ready"]
                              ELSE IF t \in gone THEN Unknown ELSE host[t]]
                /\ order' = Append(order, s)
                /\ slots' = SlotTaken(r)
        /\ UNCHANGED <<db, expired, client, apiVars, restarts>>

\* _mark_terminal, and the slot that is released right after it.
Ended(h, cancelled, error) ==
    [h EXCEPT !.status = IF cancelled THEN "cancelled" ELSE "failed",
              !.error = IF cancelled THEN "cancelled" ELSE HostErrorCode(error),
              !.result = NoResult, !.thread = "none"]

\* Faulty variant: the early return of a cancelled review keeps the slot.
SlotsLost(s) == IF host[s].thread = "ready" THEN slots ELSE slots \cup {RuntimeOf(s)}

SlotsAfter(s) == slots \cup {RuntimeOf(s)}

\* _run_review before the session, unless it was cancelled meanwhile.
HostRun(s) ==
    /\ host[s].thread = "ready"
    /\ IF host[s].cancel
       THEN host' = [host EXCEPT ![s] = Ended(@, TRUE, "none")] /\ slots' = SlotsAfter(s)
       ELSE /\ host' = [host EXCEPT ![s].status = "running", ![s].thread = "running"]
            /\ UNCHANGED slots
    /\ UNCHANGED <<db, expired, post, order, client, apiVars, restarts>>

\* What a CLI may answer for a session, well formed or not.
Outputs(s) ==
    LET r == RuntimeOf(s) IN
    IF row[s].role = Candidate
    THEN {CandidateResult(ref, r, size, n) : ref \in {s, NoSession}, size \in 1..2, n \in {1}}
    ELSE {VerifierResult(s, r, 1, of, d) :
            of \in {row[s].input, NoResult}, d \in {<<0>>, <<0, 0>>, <<1>>}}

\* _execute_review: the result is kept before the lock is taken again.
HostExecute(s) ==
    /\ host[s].thread = "running"
    /\ \/ \E result \in Outputs(s) :
            /\ Accepts(row[s].role, result, s, RuntimeOf(s), row[s].input, MaxBytes)
            /\ host' = [host EXCEPT ![s].result = result, ![s].thread = "finishing"]
            /\ UNCHANGED slots
       \/ \E error \in Errors \cup
              {"result_invalid" : result \in
                 {o \in Outputs(s) :
                    ~Accepts(row[s].role, o, s, RuntimeOf(s), row[s].input, MaxBytes)}} :
            /\ host' = [host EXCEPT ![s] = Ended(@, host[s].cancel, error)]
            /\ slots' = SlotsAfter(s)
    /\ UNCHANGED <<db, expired, post, order, client, apiVars, restarts>>

\* Faulty variant: a cancellation that came during the session is not looked at.
FinishedAs(s) == [host[s] EXCEPT !.status = "completed", !.error = "none", !.thread = "none"]

Finished(s) ==
    IF host[s].cancel THEN Ended(host[s], TRUE, "none")
    ELSE [host[s] EXCEPT !.status = "completed", !.error = "none", !.thread = "none"]

HostFinish(s) ==
    /\ host[s].thread = "finishing"
    /\ host' = [host EXCEPT ![s] = Finished(s)]
    /\ slots' = SlotsAfter(s)
    /\ UNCHANGED <<db, expired, post, order, client, apiVars, restarts>>

\* The process forgets its reviews; requests it was answering are cut off.
HostRestart(r) ==
    /\ restarts < MaxRestarts
    /\ restarts' = restarts + 1
    /\ host' = [s \in Sessions |-> IF RuntimeOf(s) = r THEN Unknown ELSE host[s]]
    /\ slots' = slots \cup {r}
    /\ UNCHANGED <<db, expired, post, order, client, apiVars>>

-----------------------------------------------------------------------------
(* search_code for a running agent: the session is resolved to an attempt, *)
(* the search takes its time, then the call is logged.                     *)

\* Faulty variant: any session of the job's run is good enough.
ResolvesAnyAttempt(s) ==
    row[s].status \in Unfinished /\ ~IsExpired(s) /\ run.status = "generating"

\* resolve_agent_investigation_review_attempt
Resolves(s) ==
    /\ row[s].status \in Unfinished /\ ~IsExpired(s)
    /\ run.status = "generating"
    /\ row[s].attempt >= run.attempt

ToolCall(s) ==
    /\ s \in Callers /\ \A e \in log : e.session # s
    /\ host[s].thread = "running" /\ call[s] = 0
    /\ Resolves(s)
    /\ call' = [call EXCEPT ![s] = run.attempt]
    /\ UNCHANGED <<db, expired, post, hostVars, client, log, restarts>>

\* record_review_tool_call: a search that failed is logged as well.
ToolLogged(s) ==
    /\ call[s] # 0
    /\ log' = log \cup {[session |-> s, attempt |-> call[s]]}
    /\ call' = [call EXCEPT ![s] = 0]
    /\ UNCHANGED <<db, expired, post, hostVars, client, restarts>>

Expire ==
    /\ expired < Cardinality({s \in Sessions : row[s].status # "absent"})
    /\ expired' = expired + 1
    /\ UNCHANGED <<db, post, hostVars, client, apiVars, restarts>>

-----------------------------------------------------------------------------
Work(w) ==
    \/ Begin(w) \/ Prepare(w) \/ Insert(w) \/ Answer(w) \/ Reconnect(w) \/ Poll(w)
    \/ Accept(w) \/ Report(w) \/ Persist(w) \/ Abandon(w) \/ Release(w)

HostWork(s) ==
    HostRun(s) \/ HostExecute(s) \/ HostFinish(s)

Next ==
    \/ \E w \in Workers : Claim(w) \/ Work(w)
    \/ \E s \in Sessions : HostStart(s) \/ HostWork(s) \/ ToolCall(s) \/ ToolLogged(s)
    \/ \E r \in RuntimeNames : HostRestart(r)
    \/ LeaseExpires \/ MoveHead \/ Expire

Spec == Init /\ [][Next]_vars

-----------------------------------------------------------------------------
(* Properties.                                                             *)

\* A report rests on two completed sessions of opposite runtimes, the second
\* of which verified the very result of the first and decided at most once on
\* each of its findings, and on nothing else.
ReportIsVerified ==
    run.report # <<>> =>
        LET c == row[run.report[1]]
            v == row[run.report[2]]
        IN  /\ c.status = "completed" /\ v.status = "completed"
            /\ c.by = v.by /\ c.runtime # v.runtime
            /\ v.input = c.result /\ v.result.of = c.result
            /\ \A n \in 0..9 : Cardinality({i \in DOMAIN v.result.decisions :
                                              v.result.decisions[i] = n})
                                 <= IF n < c.result.findings THEN 1 ELSE 0

\* A session that ended keeps its status and its result, however late a
\* completion, an abandonment or a heartbeat of it comes.
SettledSessionStays ==
    [][\A s \in Sessions : row[s].status \in Settled => row'[s] = row[s]]_vars

\* A host runs one review at a time, and gives its slot back when that one is
\* over, cancelled, failed or never started.
OneReviewPerHost ==
    \A r \in RuntimeNames :
      LET live == {s \in Sessions : RuntimeOf(s) = r /\ host[s].thread # "none"}
      IN  /\ Cardinality(live) <= 1
          /\ r \in slots <=> live = {}

\* A tool call is filed under the attempt its session was dispatched in, also
\* if the run was started over while the search was running.
LogNamesItsAttempt == \A e \in log : e.attempt = row[e.session].attempt

\* A host does not complete a review it was told to cancel.
CancelIsKept ==
    [][\A s \in Sessions :
         host[s].cancel /\ host'[s].status # "absent" =>
             host'[s].status \in {"cancel_requested", "cancelled"}]_vars

\* The slots of the hosts and their sessions fit together.
SlotsHeld == TypeOK /\ OneReviewPerHost

\* How a session ended stays so, in the database and on the host.
EndsStay == SettledSessionStays /\ CancelIsKept
=============================================================================
