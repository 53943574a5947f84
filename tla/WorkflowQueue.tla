--------------------------- MODULE WorkflowQueue ---------------------------
(***************************************************************************)
(* The durable job queue of diffuse/review/workflow.py: the tables         *)
(* workflow_jobs, workflow_attempts, pull_requests, repository_refs and    *)
(* scm_webhook_deliveries, the transactions that write them, and the       *)
(* workers that call those transactions.                                   *)
(*                                                                         *)
(* Every action is one committed PostgreSQL transaction.  Transactions     *)
(* that enqueue into one scope are serialised by an advisory lock, and     *)
(* those that move a job lock its row and re-check its status, so the      *)
(* interleaving of whole transactions is what the database can produce.    *)
(* A transaction that raises is rolled back: its guard is simply false.    *)
(* One repository is modelled: repositories share nothing but the order in *)
(* which due jobs are claimed.                                             *)
(***************************************************************************)
EXTENDS Integers, Sequences, FiniteSets

CONSTANTS
    PullRequests,   \* scopes whose jobs review a pull request
    Branches,       \* scopes whose jobs index the repository's default branch
    Bases,          \* base commits of a pull request
    Heads,          \* head commits of a pull request, commits of a branch
    Actions,        \* the event actions considered, a subset of AllActions
    Titles,         \* what the trigger fingerprint hashes besides the action
    Deliveries,     \* webhook delivery ids: bounds the number of events
    Workers,        \* worker ids
    Switches,       \* the repository settings the operator flips
    MaxTime,        \* bound on the database clock
    EventTimes,     \* timestamps an event of the source may carry
    MaxAttempts,    \* workflow_jobs.max_attempts
    LeaseSeconds,   \* length of a lease
    BaseDelay,      \* first retry delay
    MaxDelay,       \* cap of the retry delay
    Debounce        \* REVIEW_UPDATE_DEBOUNCE_SECONDS; 0 disables the wait

\* Only a push waits for the debounce window, only `manual` is not automatic;
\* `opened` stands for every other automatic action on an open pull request,
\* `closed` for those on one that is closed or merged.
UPDATE_ACTION == "synchronize"
AllActions == {UPDATE_ACTION, "opened", "closed", "manual"}

NoCommit == "no commit"     \* a scope no event has been accepted for

ASSUME QueueAssumption ==
    /\ Actions \subseteq AllActions
    /\ Switches \subseteq {"enabled", "auto_review"}
    /\ MaxTime \in Nat /\ Debounce \in Nat
    /\ EventTimes \subseteq Nat \ {0}
    /\ MaxAttempts \in Nat \ {0}
    /\ LeaseSeconds \in Nat \ {0}
    /\ BaseDelay \in Nat \ {0}
    /\ MaxDelay \in Nat \ {0}
    /\ PullRequests \cap Branches = {}
    /\ NoCommit \notin Heads

Scopes == PullRequests \cup Branches
Nobody == "nobody"          \* leased_by IS NULL
NoLease == 0                \* lease_expires_at IS NULL
NoJob == 0                  \* a worker process without a job

Active == {"queued", "running"}
TERMINAL_JOB_STATUSES == {"dead", "failed"}
Settled == TERMINAL_JOB_STATUSES \cup {"succeeded", "cancelled", "superseded"}
AttemptStatus == {"none", "running", "succeeded", "failed", "lease_expired"}

(***************************************************************************)
(* An idempotency key.  The key of a review is its scope, base, head and   *)
(* trigger fingerprint, that of an index job its scope and commit; the     *)
(* remaining fields of an index key are constant.                          *)
(***************************************************************************)
Key == [scope : Scopes, base : Bases \cup {NoCommit}, head : Heads,
        action : Actions \cup {"push"}, title : Titles \cup {"push"}]

VARIABLES
    now,        \* the database clock
    enabled,    \* repositories.enabled
    autoReview, \* repositories.auto_review
    refs,       \* pull_requests, repository_refs: the newest accepted event
    deliveries, \* scm_webhook_deliveries: the recorded delivery ids
    jobs,       \* workflow_jobs with their workflow_attempts, by id
    held,       \* the job a worker process believes it runs
    verdict     \* what that worker's latest currency check answered

vars == <<now, enabled, autoReview, refs, deliveries, jobs, held, verdict>>

Ref == [open : BOOLEAN, base : Bases \cup {NoCommit},
        head : Heads \cup {NoCommit}, at : EventTimes \cup {0}]

Job == [key : Key,
        status : Active \cup Settled,
        attempt : 0..MaxAttempts,                       \* attempt_count
        log : [1..MaxAttempts -> AttemptStatus],        \* workflow_attempts
        available : Int,                                \* available_at
        leasedBy : Workers \cup {Nobody},
        lease : Int,                                    \* lease_expires_at
        retired : BOOLEAN]       \* the key was renamed by _retire_terminal_job

TypeOK ==
    /\ now \in 0..MaxTime
    /\ enabled \in BOOLEAN /\ autoReview \in BOOLEAN
    /\ refs \in [Scopes -> Ref]
    /\ deliveries \subseteq Deliveries
    /\ jobs \in Seq(Job)
    /\ held \in [Workers -> Nat]
    /\ verdict \in [Workers -> {"unchecked", "current", "stale"}]
    /\ \A w \in Workers : held[w] \in DOMAIN jobs \cup {NoJob}

Init ==
    /\ now = 0
    /\ enabled = TRUE
    /\ autoReview = TRUE
    /\ refs = [s \in Scopes |->
                 [open |-> TRUE, base |-> NoCommit, head |-> NoCommit, at |-> 0]]
    /\ deliveries = {}
    /\ jobs = <<>>
    /\ held = [w \in Workers |-> NoJob]
    /\ verdict = [w \in Workers |-> "unchecked"]

-----------------------------------------------------------------------------
(* The job table.                                                          *)

InScope(table, s, statuses) ==
    {j \in DOMAIN table : table[j].key.scope = s /\ table[j].status \in statuses}

\* The job that holds an idempotency key.
Holders(k) == {j \in DOMAIN jobs : jobs[j].key = k /\ ~jobs[j].retired}

NewJob(k, due) ==
    [key |-> k, status |-> "queued", attempt |-> 0,
     log |-> [n \in 1..MaxAttempts |-> "none"], available |-> due,
     leasedBy |-> Nobody, lease |-> NoLease, retired |-> FALSE]

\* Faulty variant: the key of a failed job is not renamed.
RetireNothing(table, k) == table

\* Frees the key of a dead or failed job; the row keeps its history.
RetireTerminalJob(table, k) ==
    [j \in DOMAIN table |->
        IF /\ table[j].key = k
           /\ table[j].status \in TERMINAL_JOB_STATUSES
        THEN [table[j] EXCEPT !.retired = TRUE]
        ELSE table[j]]

\* Faulty variant: the revisions a new one replaces stay queued.
CloseNothing(table, s, status, keep) == table

\* Faulty variant: the UPDATE forgets `status = 'queued'`.
CloseAll(table, s, status, keep) ==
    [j \in DOMAIN table |->
        IF table[j].key.scope = s /\ table[j].status # "running"
        THEN [table[j] EXCEPT !.status = status]
        ELSE table[j]]

\* Closes every queued job of a scope that is not for commit `keep`.
CloseQueued(table, s, status, keep) ==
    [j \in DOMAIN table |->
        IF j \in InScope(table, s, {"queued"}) /\ table[j].key.head # keep
        THEN [table[j] EXCEPT !.status = status]
        ELSE table[j]]

\* Faulty variant: disabling a repository also cancels running jobs.
CancelActive(table) ==
    [j \in DOMAIN table |->
        IF table[j].status \notin {"succeeded", "superseded"}
        THEN [table[j] EXCEPT !.status = "cancelled"]
        ELSE table[j]]

\* set_repository_enabled(False) cancels what is queued and only that.
CancelQueued(table) ==
    [j \in DOMAIN table |->
        IF table[j].status = "queued"
        THEN [table[j] EXCEPT !.status = "cancelled"]
        ELSE table[j]]

\* Faulty variant: every push restarts the window (trailing-edge debounce).
DeadlinesFromLast(s, action) ==
    {IF action = UPDATE_ACTION THEN now + Debounce ELSE now}

(***************************************************************************)
(* When a new review becomes claimable: a push waits for the debounce      *)
(* window but never longer than the earliest queued job it replaces.       *)
(***************************************************************************)
Deadlines(s, action) ==
    IF action = UPDATE_ACTION /\ Debounce # 0
    THEN {now + Debounce} \cup {jobs[j].available : j \in InScope(jobs, s, {"queued"})}
    ELSE {now}

Earliest(due, deadlines) == due \in deadlines /\ \A other \in deadlines : due <= other

-----------------------------------------------------------------------------
(* Webhook events.  A redelivered id writes nothing, whether its payload   *)
(* matches (duplicate_delivery) or not (DeliveryConflictError).            *)

\* Faulty variant: ON CONFLICT DO NOTHING without the early return.
RecordedAgain(d) ==
    /\ enabled
    /\ deliveries' = deliveries \cup {d}

Recorded(d) ==
    /\ enabled                         \* else RepositoryNotOnboardedError
    /\ d \notin deliveries
    /\ deliveries' = deliveries \cup {d}

\* An event is accepted unless it is older than the scope's row, or as old
\* with another head (EventOrderConflictError).
InOrder(s, head, at) ==
    /\ at >= refs[s].at
    /\ at = refs[s].at => head = refs[s].head

Accept(s, open, base, head, at) ==
    refs' = [refs EXCEPT ![s] = [open |-> open, base |-> base, head |-> head, at |-> at]]

ReviewKey(s, base, head, action, title) ==
    [scope |-> s, base |-> base, head |-> head, action |-> action, title |-> title]

\* The delivery is recorded but changes no job: auto_review_disabled,
\* stale_delivery.
IgnoreReviewEvent(d, s, action, at) ==
    /\ Recorded(d)
    /\ \/ action # "manual" /\ ~autoReview
       \/ at < refs[s].at
    /\ UNCHANGED <<refs, jobs>>

ClosePullRequest(d, s, base, head, action, at) ==
    /\ action \in {"closed", "manual"}
    /\ action = "manual" \/ autoReview
    /\ InOrder(s, head, at)
    /\ Recorded(d)
    /\ Accept(s, FALSE, base, head, at)
    /\ jobs' = CloseQueued(jobs, s, "cancelled", NoCommit)

\* duplicate_revision: a live, finished or abandoned job has the key already.
DuplicateRevision(d, s, base, head, action, title, at) ==
    /\ action # "closed" /\ (action = "manual" \/ autoReview)
    /\ InOrder(s, head, at)
    /\ \E j \in Holders(ReviewKey(s, base, head, action, title)) :
           jobs[j].status \notin TERMINAL_JOB_STATUSES
    /\ Recorded(d)
    /\ Accept(s, TRUE, base, head, at)
    /\ UNCHANGED jobs

QueueReview(d, s, base, head, action, title, at) ==
    LET k == ReviewKey(s, base, head, action, title) IN
    /\ action # "closed" /\ (action = "manual" \/ autoReview)
    /\ InOrder(s, head, at)
    /\ \A j \in Holders(k) : jobs[j].status \in TERMINAL_JOB_STATUSES
    /\ Recorded(d)
    /\ Accept(s, TRUE, base, head, at)
    /\ \E due \in Deadlines(s, action) :
         /\ Earliest(due, Deadlines(s, action))
         /\ jobs' = Append(CloseQueued(RetireTerminalJob(jobs, k), s, "superseded", NoCommit),
                           NewJob(k, due))

EnqueueReviewEvent ==
    /\ \E d \in Deliveries, s \in PullRequests, base \in Bases, head \in Heads,
          action \in Actions, title \in Titles, at \in EventTimes :
         \/ IgnoreReviewEvent(d, s, action, at)
         \/ ClosePullRequest(d, s, base, head, action, at)
         \/ DuplicateRevision(d, s, base, head, action, title, at)
         \/ QueueReview(d, s, base, head, action, title, at)
    /\ UNCHANGED <<now, enabled, autoReview, held, verdict>>

IndexKey(s, head) ==
    [scope |-> s, base |-> NoCommit, head |-> head, action |-> "push", title |-> "push"]

StalePush(d, s, at) ==
    /\ Recorded(d)
    /\ at < refs[s].at
    /\ UNCHANGED <<refs, jobs>>

DuplicatePush(d, s, head, at) ==
    /\ InOrder(s, head, at)
    /\ \E j \in Holders(IndexKey(s, head)) : jobs[j].status \notin TERMINAL_JOB_STATUSES
    /\ Recorded(d)
    /\ Accept(s, TRUE, NoCommit, head, at)
    /\ UNCHANGED jobs

QueueIndex(d, s, head, at) ==
    LET k == IndexKey(s, head) IN
    /\ InOrder(s, head, at)
    /\ \A j \in Holders(k) : jobs[j].status \in TERMINAL_JOB_STATUSES
    /\ Recorded(d)
    /\ Accept(s, TRUE, NoCommit, head, at)
    /\ jobs' = Append(CloseQueued(RetireTerminalJob(jobs, k), s, "superseded", head),
                      NewJob(k, now))

EnqueueRepositoryIndexEvent ==
    /\ \E d \in Deliveries, s \in Branches, head \in Heads, at \in EventTimes :
         \/ StalePush(d, s, at)
         \/ DuplicatePush(d, s, head, at)
         \/ QueueIndex(d, s, head, at)
    /\ UNCHANGED <<now, enabled, autoReview, held, verdict>>

-----------------------------------------------------------------------------
(* Workers.                                                                *)

AtMost(x, cap) == IF x < cap THEN x ELSE cap

Finished(job, status, result) ==
    [job EXCEPT !.status = status, !.leasedBy = Nobody, !.lease = NoLease,
                !.log = IF @[job.attempt] = "running"
                        THEN [@ EXCEPT ![job.attempt] = result] ELSE @]

\* claim_workflow_job first takes back every expired lease; the first expiry
\* of a job is retried at once, later ones back off.
SweptJob(job) ==
    LET freed == Finished(job, IF job.attempt >= MaxAttempts THEN "dead" ELSE "queued",
                          "lease_expired")
        delay == IF job.attempt > 1
                 THEN AtMost(BaseDelay * 2^(job.attempt - 2), MaxDelay) ELSE 0
    IN  [freed EXCEPT !.available = now + delay]

Expired(job) == job.status = "running" /\ job.lease < now

Swept(table) ==
    [j \in DOMAIN table |-> IF Expired(table[j]) THEN SweptJob(table[j]) ELSE table[j]]

\* Faulty variant: only queued predecessors hold a job back.
ClaimableBesideRunning(table) ==
    {j \in DOMAIN table :
        /\ table[j].status = "queued"
        /\ enabled
        /\ table[j].available <= now
        /\ \A i \in InScope(table, table[j].key.scope, {"queued"}) : ~(i < j)}

\* Faulty variant: a job that is due overtakes one that waits for its retry.
ClaimableOvertaking(table) ==
    {j \in DOMAIN table :
        /\ table[j].status = "queued"
        /\ enabled
        /\ table[j].available <= now
        /\ InScope(table, table[j].key.scope, {"running"}) = {}}

Claimable(table) ==
    {j \in DOMAIN table :
        /\ table[j].status = "queued"
        /\ enabled
        /\ table[j].available <= now
        /\ \A i \in InScope(table, table[j].key.scope, Active) : ~(i < j)
        /\ InScope(table, table[j].key.scope, {"running"}) = {}}

\* ORDER BY priority DESC, available_at, id: reviews and index jobs have the
\* default priority.
ClaimedBefore(table, i, j) ==
    \/ table[i].available < table[j].available
    \/ table[i].available = table[j].available /\ i <= j

Leased(job, w) ==
    [job EXCEPT !.status = "running", !.attempt = @ + 1,
                !.leasedBy = w, !.lease = now + LeaseSeconds,
                !.log = [@ EXCEPT ![job.attempt + 1] = "running"]]

ClaimNothing(w) ==
    /\ held[w] = NoJob
    /\ Claimable(Swept(jobs)) = {}
    /\ jobs' = Swept(jobs)
    /\ UNCHANGED <<now, enabled, autoReview, refs, deliveries, held, verdict>>

ClaimJob(w) ==
    /\ held[w] = NoJob
    /\ \E j \in Claimable(Swept(jobs)) :
         /\ \A i \in Claimable(Swept(jobs)) : ClaimedBefore(Swept(jobs), j, i)
         /\ jobs' = [Swept(jobs) EXCEPT ![j] = Leased(@, w)]
         /\ held' = [held EXCEPT ![w] = j]
    /\ UNCHANGED <<now, enabled, autoReview, refs, deliveries, verdict>>

\* Faulty variant: a worker trusts the claim it made.
OwnsLeaseByClaim(w, job) == held[w] # NoJob

\* The predicate every later transaction of a worker repeats.
OwnsLease(w, job) == job.status = "running" /\ job.leasedBy = w /\ job.lease > now

Beaten(table, w, j) ==
    IF OwnsLease(w, table[j])
    THEN [table EXCEPT ![j] = [@ EXCEPT !.lease = now + LeaseSeconds]]
    ELSE table

HeartbeatWorkflowJob(w) ==
    /\ held[w] # NoJob
    /\ jobs' = Beaten(jobs, w, held[w])
    /\ UNCHANGED <<now, enabled, autoReview, refs, deliveries, held, verdict>>

WorkflowJobIsLatest(table, w, j) ==
    /\ OwnsLease(w, table[j])
    /\ enabled
    /\ \A i \in InScope(table, table[j].key.scope, Active) : ~(i > j)

WorkflowJobIsCurrent(table, w, j) ==
    LET k == table[j].key IN
    /\ WorkflowJobIsLatest(table, w, j)
    /\ refs[k.scope].open
    /\ refs[k.scope].base = k.base
    /\ refs[k.scope].head = k.head

\* Reviews ask whether the job is current, index jobs whether it is the latest.
StillWanted(table, w, j) ==
    IF table[j].key.scope \in PullRequests
    THEN WorkflowJobIsCurrent(table, w, j)
    ELSE WorkflowJobIsLatest(table, w, j)

\* _heartbeat_and_check_current, _heartbeat_and_check_latest: one transaction.
HeartbeatAndCheck(w) ==
    LET t == Beaten(jobs, w, held[w]) IN
    /\ held[w] # NoJob
    /\ verdict[w] # "stale"
    /\ jobs' = t
    /\ verdict' = [verdict EXCEPT ![w] =
                     IF StillWanted(t, w, held[w]) THEN "current" ELSE "stale"]
    /\ UNCHANGED <<now, enabled, autoReview, refs, deliveries, held>>

\* The worker is done with its job; the row changes only if it owns the lease.
Release(w, row) ==
    LET j == held[w] IN
    /\ held[w] # NoJob
    /\ jobs' = IF OwnsLease(w, jobs[j]) THEN [jobs EXCEPT ![j] = row] ELSE jobs
    /\ held' = [held EXCEPT ![w] = NoJob]
    /\ verdict' = [verdict EXCEPT ![w] = "unchecked"]
    /\ UNCHANGED <<now, enabled, autoReview, refs, deliveries>>

CompletedJob(job) == Finished(job, "succeeded", "succeeded")

SupersededJob(job) == Finished(job, "superseded", "failed")

\* Faulty variant: off by one in the retry test.
FailedOnceMore(job, retryable) ==
    LET retry == retryable /\ job.attempt <= MaxAttempts IN
    [Finished(job, IF retry THEN "queued" ELSE "failed", "failed")
        EXCEPT !.available = now]

FailedJob(job, retryable) ==
    LET retry == retryable /\ job.attempt < MaxAttempts
        done  == Finished(job, CASE retry -> "queued"
                                 [] ~retry /\ retryable -> "dead"
                                 [] ~retry /\ ~retryable -> "failed", "failed")
        delay == AtMost(BaseDelay * 2^(job.attempt - 1), MaxDelay)
    IN  [done EXCEPT !.available = IF retry THEN now + delay ELSE @]

CompleteWorkflowJob(w) ==
    /\ verdict[w] = "current"
    /\ Release(w, CompletedJob(jobs[held[w]]))

SupersedeWorkflowJob(w) ==
    /\ verdict[w] = "stale"
    /\ Release(w, SupersededJob(jobs[held[w]]))

\* An exception may leave the job's processing at any point.
FailWorkflowJob(w) ==
    \E retryable \in BOOLEAN : Release(w, FailedJob(jobs[held[w]], retryable))

\* The process dies; its row waits for the lease sweep.
Crash(w) ==
    /\ held[w] # NoJob
    /\ held' = [held EXCEPT ![w] = NoJob]
    /\ verdict' = [verdict EXCEPT ![w] = "unchecked"]
    /\ UNCHANGED <<now, enabled, autoReview, refs, deliveries, jobs>>

-----------------------------------------------------------------------------
(* The operator and the clock.                                             *)

SetRepositoryEnabled ==
    /\ "enabled" \in Switches
    /\ enabled' = ~enabled
    /\ jobs' = IF enabled THEN CancelQueued(jobs) ELSE jobs
    /\ UNCHANGED <<now, autoReview, refs, deliveries, held, verdict>>

SetRepositoryAutoReview ==
    /\ "auto_review" \in Switches
    /\ autoReview' = ~autoReview
    /\ UNCHANGED <<now, enabled, refs, deliveries, jobs, held, verdict>>

Tick ==
    /\ now < MaxTime
    /\ now' = now + 1
    /\ UNCHANGED <<enabled, autoReview, refs, deliveries, jobs, held, verdict>>

Work(w) ==
    \/ ClaimNothing(w) \/ ClaimJob(w)
    \/ HeartbeatWorkflowJob(w) \/ HeartbeatAndCheck(w)
    \/ CompleteWorkflowJob(w) \/ SupersedeWorkflowJob(w) \/ FailWorkflowJob(w)
    \/ Crash(w)

Next ==
    \/ EnqueueReviewEvent
    \/ EnqueueRepositoryIndexEvent
    \/ \E w \in Workers : Work(w)
    \/ SetRepositoryEnabled
    \/ SetRepositoryAutoReview
    \/ Tick

Spec == Init /\ [][Next]_vars

-----------------------------------------------------------------------------
(* Properties.                                                             *)

\* Two workers never hold running jobs of one scope, however leases expire,
\* workers crash and events supersede jobs (claim_workflow_job's two
\* NOT EXISTS clauses).
OneRunnerPerScope ==
    \A i, j \in DOMAIN jobs :
        /\ jobs[i].status = "running" /\ jobs[j].status = "running"
        /\ jobs[i].key.scope = jobs[j].key.scope
        => i = j

\* Jobs of a scope are started in the order they were enqueued, retries
\* included: a running job has no earlier job that could still run.
StartedInOrder ==
    \A i, j \in DOMAIN jobs :
        /\ jobs[j].status = "running" /\ jobs[i].status \in Active
        /\ jobs[i].key.scope = jobs[j].key.scope
        => i >= j

\* A job that waits in the queue still has an attempt left, so a claim never
\* exceeds max_attempts: fail_workflow_job and the lease sweep both count.
QueuedHasAttemptsLeft ==
    \A j \in DOMAIN jobs : jobs[j].status = "queued" => jobs[j].attempt < MaxAttempts

\* At most one job holds an idempotency key (the column is UNIQUE, so the
\* insert of a second one would abort the webhook's transaction).
KeyHeldOnce ==
    \A i, j \in DOMAIN jobs :
        /\ jobs[i].key = jobs[j].key /\ ~jobs[i].retired /\ ~jobs[j].retired
        => i = j

\* Of the jobs of a scope that were never started at most one waits in the
\* queue: every accepted revision supersedes the ones before it
\* (enqueue_review_event, enqueue_repository_index_event).
OneFreshPerScope ==
    \A i, j \in DOMAIN jobs :
        /\ jobs[i].status = "queued" /\ jobs[j].status = "queued"
        /\ jobs[i].attempt = 0 /\ jobs[j].attempt = 0
        /\ jobs[i].key.scope = jobs[j].key.scope
        => i = j

\* A settled job never becomes active again and keeps its outcome, and only
\* a dead or failed one gives up its key (_retire_terminal_job).
SettledIsFinal ==
    [][\A j \in DOMAIN jobs :
         jobs[j].status \in Settled =>
            /\ jobs'[j].status = jobs[j].status
            /\ jobs'[j].retired # jobs[j].retired
                 => jobs[j].status \in TERMINAL_JOB_STATUSES]_vars

\* A push can only bring a review forward: a job that replaces queued ones
\* is due no later than any of them, or at once (the inherited deadline of
\* enqueue_review_event).
PushNeverPostpones ==
    [][\A i \in DOMAIN jobs, j \in DOMAIN jobs' \ DOMAIN jobs :
         /\ jobs[i].status = "queued" /\ jobs[i].key.scope = jobs'[j].key.scope
         /\ jobs'[i].status = "superseded"
         => jobs'[j].available <= now \/ jobs'[j].available <= jobs[i].available]_vars

\* A redelivered webhook adds no job, whatever the settings were when it was
\* first recorded: there are never more jobs than recorded deliveries.
RedeliveryAddsNothing == Len(jobs) <= Cardinality(deliveries)

(***************************************************************************)
(* The job table, seen as the queue it promises to be.                     *)
(***************************************************************************)
Board == [j \in DOMAIN jobs |-> [scope |-> jobs[j].key.scope, status |-> jobs[j].status]]

Promise == INSTANCE ScopedQueue WITH board <- Board

\* The tables, leases and workers implement the per-scope queue: first in,
\* first started, one at a time, settled for good.
ImplementsScopedQueue == Promise!Spec

\* A request becomes one job: a redelivered webhook adds none, a revision that
\* is submitted again after its job failed takes the key over alone, and of the
\* jobs that were never tried one at most waits in each scope.
OneJobPerRequest ==
    /\ KeyHeldOnce
    /\ RedeliveryAddsNothing
    /\ OneFreshPerScope
=============================================================================
