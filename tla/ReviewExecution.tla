-------------------------- MODULE ReviewExecution --------------------------
(***************************************************************************)
(* What workers do with one pull-request revision: process_review_job and  *)
(* run_once of diffuse/worker.py, over the rows of review_runs,            *)
(* review_publications and review_check_runs (diffuse/database/            *)
(* review_store.py and check.py) and the check runs and reviews that       *)
(* GitHub keeps.                                                           *)
(*                                                                         *)
(* Every action is one committed transaction or one GitHub request.  A     *)
(* worker may lose its lease, or die, between any two of them; another     *)
(* worker then claims the job and meets the rows the first one left.  The  *)
(* job table is the one of WorkflowQueue, reduced to the jobs of a single  *)
(* revision whose reviews share one review run: same trigger, policy,      *)
(* model, prompt version and index.  Any event that makes a review of the  *)
(* revision pointless, one for another trigger of it included, is          *)
(* MoveHead, and it is not taken back.                                     *)
(***************************************************************************)
EXTENDS Integers, Sequences, FiniteSets

CONSTANTS
    Workers,        \* worker processes
    NumJobs,        \* review jobs the revision may get
    MaxAttempts,    \* workflow_jobs.max_attempts
    MAX_COMPLETION_ATTEMPTS,
    StatusCheck,    \* values policy.triggers.status_check may have: a set of Booleans
    Stalls,         \* may a lease run out under a worker that is still alive?
    MayMove,        \* may a newer event make the revision stale?
    MaxCrashes      \* bound on the crashes of worker processes

ASSUME ExecutionAssumption ==
    /\ NumJobs \in Nat \ {0}
    /\ MaxAttempts \in Nat \ {0}
    /\ MAX_COMPLETION_ATTEMPTS \in Nat \ {0}
    /\ MaxCrashes \in Nat
    /\ StatusCheck \subseteq BOOLEAN /\ Stalls \in BOOLEAN /\ MayMove \in BOOLEAN
    /\ "nobody" \notin Workers

Jobs == 1..NumJobs      \* in the order they were enqueued
Nobody == "nobody"
NoCheck == 0            \* external_id IS NULL
NoHandle == [open |-> FALSE, ext |-> NoCheck]

Active == {"queued", "running"}
TERMINAL_JOB_STATUSES == {"dead", "failed"}
Unpublished == {"generating", "ready", "publishing"}

\* review_check_conclusion yields a verdict on the report; the two other ways
\* to conclude a check carry no report.
Conclusions == {"verdict", "cancelled", "failure"}

VARIABLES
    wanted,     \* the revision is the head of an open pull request
    jobs,       \* workflow_jobs
    run,        \* the row of review_runs
    pub,        \* status of the row of review_publications
    check,      \* the row of review_check_runs
    github,     \* check runs and reviews GitHub holds for the revision
    proc,       \* what each worker process is doing
    crashes     \* crashes so far

vars == <<wanted, jobs, run, pub, check, github, proc, crashes>>
rows == <<run, pub, check>>

\* Where a worker is in process_review_job and its callees.
Steps ==
    {"idle", "entry", "getCheck", "begin", "persistSkip",
     "ensure", "ensureFind", "ensurePost", "ensureStarted", "ensureFailed",
     "afterEnsure", "generate", "genSuperseded", "genFailed", "persist", "load",
     "beforePublish", "retire", "beginPublication", "publishFind", "publishPost",
     "publishFailed", "markPublished", "threads", "conclude", "checkFailed",
     "complete", "exhausted", "completeFind", "completeStarted", "completing",
     "patch", "markCompleted", "unfinished",
     "final", "completeJob", "supersede", "fail", "terminal"}

TypeOK ==
    /\ wanted \in BOOLEAN
    /\ jobs \in [Jobs -> [status : Active \cup TERMINAL_JOB_STATUSES
                                     \cup {"absent", "succeeded", "superseded"},
                          attempt : 0..MaxAttempts,
                          owner : Workers \cup {Nobody}, live : BOOLEAN]]
    /\ run \in [status : Unpublished \cup {"none", "skipped", "published", "failed", "superseded"},
                job : Jobs \cup {0}]
    /\ pub \in {"none", "publishing", "published", "failed"}
    /\ check \in [status : {"none", "creating", "in_progress", "completing", "failed", "completed"},
                  ext : Nat, attempts : Nat,
                  code : {"none", "publication_failed", "exhausted"},
                  conclusion : Conclusions \cup {"none"}]
    /\ github.checks \in Seq(Conclusions \cup {"in_progress"})
    /\ github.reviews \in Nat
    /\ proc \in [Workers -> [pc : Steps, job : Jobs \cup {0}, gen : BOOLEAN, pub : BOOLEAN,
                             handle : [open : BOOLEAN, ext : Nat],
                             conclusion : Conclusions, next : {"supersede", "final", "idle"}]]
    /\ crashes \in 0..MaxCrashes

Idle == [pc |-> "idle", job |-> 0, gen |-> FALSE, pub |-> FALSE, handle |-> NoHandle,
         conclusion |-> "cancelled", next |-> "idle"]

Init ==
    /\ wanted = TRUE
    /\ jobs = [j \in Jobs |-> [status |-> IF j = 1 THEN "queued" ELSE "absent",
                               attempt |-> 0, owner |-> Nobody, live |-> FALSE]]
    /\ run = [status |-> "none", job |-> 0]
    /\ pub = "none"
    /\ check = [status |-> "none", ext |-> NoCheck, attempts |-> 0, code |-> "none",
                conclusion |-> "none"]
    /\ github = [checks |-> <<>>, reviews |-> 0]
    /\ proc = [w \in Workers |-> Idle]
    /\ crashes = 0

At(w, pc) == proc[w].pc = pc
To(w, pc) == proc' = [proc EXCEPT ![w].pc = pc]
Rest(w) == proc' = [proc EXCEPT ![w] = Idle]

-----------------------------------------------------------------------------
(* The job table: see WorkflowQueue for leases, delays and superseding.    *)

OwnsLease(w, j) == jobs[j].status = "running" /\ jobs[j].owner = w /\ jobs[j].live

IsCurrent(w, j) ==
    /\ OwnsLease(w, j)
    /\ wanted
    /\ \A i \in Jobs : i > j => jobs[i].status \notin Active

Freed(job, status) == [job EXCEPT !.status = status, !.owner = Nobody, !.live = FALSE]

\* Faulty variant: the sweep requeues a job whatever its attempt_count.
SweptForever ==
    [j \in Jobs |->
        IF jobs[j].status = "running" /\ ~jobs[j].live THEN Freed(jobs[j], "queued") ELSE jobs[j]]

\* A claim first takes back the jobs whose lease ran out.
Swept ==
    [j \in Jobs |->
        IF jobs[j].status = "running" /\ ~jobs[j].live
        THEN Freed(jobs[j], IF jobs[j].attempt >= MaxAttempts THEN "dead" ELSE "queued")
        ELSE jobs[j]]

Claim(w) ==
    LET due == {j \in Jobs : /\ Swept[j].status = "queued"
                             /\ \A i \in Jobs \ {j} : /\ Swept[i].status # "running"
                                                      /\ Swept[i].status = "queued" => i > j}
    IN  /\ At(w, "idle")
        /\ \/ /\ due = {} /\ Swept # jobs
              /\ jobs' = Swept
              /\ UNCHANGED proc
           \/ \E j \in due :
                /\ jobs' = [Swept EXCEPT ![j] =
                              [status |-> "running", attempt |-> @.attempt + 1,
                               owner |-> w, live |-> TRUE]]
                /\ proc' = [proc EXCEPT ![w] = [Idle EXCEPT !.pc = "entry", !.job = j]]
        /\ UNCHANGED <<wanted, rows, github, crashes>>

\* Time passes and a lease is not renewed.
LeaseExpires(j) ==
    /\ jobs[j].status = "running" /\ jobs[j].live
    /\ Stalls \/ proc[jobs[j].owner].job # j
    /\ jobs' = [jobs EXCEPT ![j].live = FALSE]
    /\ UNCHANGED <<wanted, rows, github, proc, crashes>>

\* A newer event moves the head, closes the pull request or disables the
\* repository: queued jobs of the revision are superseded or cancelled.
MoveHead ==
    /\ MayMove /\ wanted
    /\ wanted' = FALSE
    /\ jobs' = [j \in Jobs |-> IF jobs[j].status = "queued"
                               THEN Freed(jobs[j], "superseded") ELSE jobs[j]]
    /\ UNCHANGED <<rows, github, proc, crashes>>

\* The event that asked for the review is submitted again, by a re-push of the
\* commit.  Jobs share a review run only if they have the same trigger and so
\* the same idempotency key, which only a dead or failed job gives up.
Enqueue ==
    /\ wanted
    /\ \E j \in Jobs :
         /\ jobs[j].status = "absent"
         /\ \A i \in Jobs : i < j => jobs[i].status \in TERMINAL_JOB_STATUSES
         /\ jobs' = [jobs EXCEPT ![j].status = "queued"]
    /\ UNCHANGED <<wanted, rows, github, proc, crashes>>

\* The process dies and is restarted; it remembers nothing.
Crash(w) ==
    /\ crashes < MaxCrashes
    /\ ~At(w, "idle")
    /\ crashes' = crashes + 1
    /\ Rest(w)
    /\ UNCHANGED <<wanted, jobs, rows, github>>

-----------------------------------------------------------------------------
(* The rows: review_store.py and check.py.                                 *)

\* Faulty variant: every attempt starts the review over.
BeginAfresh(j) == [status |-> "generating", job |-> j]

\* The run of this job, or the one an earlier job left for the same revision.
BeginReviewRun(j) ==
    IF run.status \in {"none", "failed", "generating"}
    THEN [status |-> "generating", job |-> j]
    ELSE run

\* Faulty variant: ownership of the lease is not part of the statement.
OwnsAnyRun(w) == run.job # 0

\* The lease predicate of mark_review_superseded.
OwnsRun(w) == run.job # 0 /\ OwnsLease(w, run.job)

RunIf(statuses, to) == IF run.status \in statuses THEN [run EXCEPT !.status = to] ELSE run

\* Faulty variant: the terminal handler forgets whose run it is.
TerminalFailedAnyway(j) == RunIf(Unpublished, "failed")

MarkReviewTerminalFailed(j) == IF run.job = j THEN RunIf(Unpublished, "failed") ELSE run

CheckFailedWith(code) ==
    IF check.status \in {"none", "completed"} THEN check
    ELSE [check EXCEPT !.status = "failed", !.conclusion = "none", !.code = code]

Startable(ext) ==
    /\ \/ check.status \in {"creating", "in_progress"}
       \/ check.status = "failed" /\ check.ext = NoCheck
    /\ check.ext \in {NoCheck, ext}

Started(ext) == [check EXCEPT !.status = "in_progress", !.ext = ext, !.code = "none"]

Completable ==
    check.status \in {"creating", "in_progress", "completing", "failed"} /\ check.ext # NoCheck

Finishable == check.status \in {"in_progress", "completing", "failed"} /\ check.ext # NoCheck

HandleOf(c) == IF c.status \in {"none", "completed"} THEN NoHandle
               ELSE [open |-> TRUE, ext |-> c.ext]

-----------------------------------------------------------------------------
(* GitHub.  A request may fail before or after it took effect.             *)

\* Faulty variant: creating does not look for the check it may have created.
FoundNever == {}

\* _find_existing_check_run: the checks GitHub lists under the run's key.
Found == DOMAIN github.checks

PostCheck == [github EXCEPT !.checks = Append(@, "in_progress")]
PatchCheck(ext, conclusion) == [github EXCEPT !.checks[ext] = conclusion]
PostReview == [github EXCEPT !.reviews = @ + 1]

-----------------------------------------------------------------------------
(* process_review_job up to the status check.                              *)

\* Every _heartbeat_and_check_current in a row without a write in between is
\* one step; so is whatever raises before the review run exists.
Entry(w) ==
    /\ At(w, "entry")
    /\ \/ IsCurrent(w, proc[w].job) /\ To(w, "begin")
       \/ ~IsCurrent(w, proc[w].job)
            /\ proc' = [proc EXCEPT ![w].pc = "getCheck", ![w].conclusion = "cancelled",
                                    ![w].next = "supersede"]
       \/ To(w, "fail")
    /\ UNCHANGED <<wanted, jobs, rows, github, crashes>>

\* begin_review_run, and the trigger decision taken just before it.
Begin(w) ==
    /\ At(w, "begin")
    /\ run' = BeginReviewRun(proc[w].job)
    /\ IF run'.status = "superseded"
       THEN proc' = [proc EXCEPT ![w].pc = "getCheck", ![w].conclusion = "cancelled",
                                 ![w].next = "supersede"]
       ELSE \E eligible \in BOOLEAN :
              proc' = [proc EXCEPT
                         ![w].gen = run'.status = "generating" /\ eligible,
                         ![w].pc = IF run'.status = "generating" /\ ~eligible
                                   THEN "persistSkip" ELSE "ensure"]
    /\ UNCHANGED <<wanted, jobs, pub, check, github, crashes>>

PersistSkip(w) ==
    /\ At(w, "persistSkip")
    /\ run' = RunIf({"generating"}, "skipped")
    /\ To(w, IF run.status = "generating" THEN "ensure" ELSE "fail")
    /\ UNCHANGED <<wanted, jobs, pub, check, github, crashes>>

AfterCheck(w) == IF proc[w].gen THEN "generate" ELSE "load"

\* _ensure_native_check: begin_check_run
Ensure(w) ==
    /\ At(w, "ensure")
    /\ \/ /\ TRUE \in StatusCheck
          /\ check' = IF check.status = "completed" THEN check
                      ELSE [check EXCEPT !.status = "creating", !.code = "none"]
          /\ proc' = [proc EXCEPT
                        ![w].handle = HandleOf(check'),
                        ![w].pc = CASE check.status = "completed" -> "afterEnsure"
                                    [] check.status # "completed" /\ check.ext = NoCheck
                                         -> "ensureFind"
                                    [] OTHER -> "ensureStarted"]
       \/ FALSE \in StatusCheck /\ To(w, AfterCheck(w)) /\ UNCHANGED check
    /\ UNCHANGED <<wanted, jobs, run, pub, github, crashes>>

EnsureFind(w) ==
    /\ At(w, "ensureFind")
    /\ \/ \E ext \in Found :
            proc' = [proc EXCEPT ![w].pc = "ensureStarted", ![w].handle.ext = ext]
       \/ Found = {} /\ To(w, "ensurePost")
       \/ To(w, "ensureFailed")
    /\ UNCHANGED <<wanted, jobs, rows, github, crashes>>

EnsurePost(w) ==
    /\ At(w, "ensurePost")
    /\ \/ /\ github' = PostCheck
          /\ \/ proc' = [proc EXCEPT ![w].pc = "ensureStarted",
                                     ![w].handle.ext = Len(github.checks) + 1]
             \/ To(w, "ensureFailed")
       \/ UNCHANGED github /\ To(w, "ensureFailed")
    /\ UNCHANGED <<wanted, jobs, rows, crashes>>

EnsureStarted(w) ==
    /\ At(w, "ensureStarted")
    /\ IF Startable(proc[w].handle.ext)
       THEN check' = Started(proc[w].handle.ext) /\ To(w, "afterEnsure")
       ELSE To(w, "ensureFailed") /\ UNCHANGED check
    /\ UNCHANGED <<wanted, jobs, run, pub, github, crashes>>

EnsureFailed(w) ==
    /\ At(w, "ensureFailed")
    /\ check' = CheckFailedWith("publication_failed")
    /\ To(w, "fail")
    /\ UNCHANGED <<wanted, jobs, run, pub, github, crashes>>

AfterEnsure(w) ==
    /\ At(w, "afterEnsure")
    /\ To(w, IF IsCurrent(w, proc[w].job) THEN AfterCheck(w) ELSE "retire")
    /\ UNCHANGED <<wanted, jobs, rows, github, crashes>>

-----------------------------------------------------------------------------
(* Generation: _generate_and_persist_review.                               *)

\* Faulty variant: whatever stops the agent is taken for a supersession.
GenerateOrSuperseded(w) ==
    /\ At(w, "generate")
    /\ To(w, IF IsCurrent(w, proc[w].job) THEN "persist" ELSE "genSuperseded") \/ To(w, "genSuperseded")
    /\ UNCHANGED <<wanted, jobs, rows, github, crashes>>

\* report_progress raises once the job is not current; the agent, or the
\* retrieval of context before it, may fail whether or not it is.
Generate(w) ==
    /\ At(w, "generate")
    /\ \/ To(w, IF IsCurrent(w, proc[w].job) THEN "persist" ELSE "genSuperseded")
       \/ To(w, "genFailed")
       \/ To(w, "checkFailed")
    /\ UNCHANGED <<wanted, jobs, rows, github, crashes>>

GenerationSuperseded(w) ==
    /\ At(w, "genSuperseded")
    /\ run' = IF OwnsRun(w) THEN RunIf(Unpublished, "superseded") ELSE run
    /\ proc' = [proc EXCEPT ![w].pc = "complete", ![w].conclusion = "cancelled",
                            ![w].next = "supersede"]
    /\ UNCHANGED <<wanted, jobs, pub, check, github, crashes>>

\* mark_review_failed does not ask who owns the run.
GenerationFailed(w) ==
    /\ At(w, "genFailed")
    /\ run' = RunIf({"generating"}, "failed")
    /\ To(w, "checkFailed")
    /\ UNCHANGED <<wanted, jobs, pub, check, github, crashes>>

\* persist_review_report: `skipped` when the policy ignores every file.
Persist(w) ==
    /\ At(w, "persist")
    /\ \E status \in {"ready", "skipped"} : run' = RunIf({"generating"}, status)
    /\ To(w, IF run.status = "generating" THEN "load" ELSE "genFailed")
    /\ UNCHANGED <<wanted, jobs, pub, check, github, crashes>>

CheckFailed(w) ==
    /\ At(w, "checkFailed")
    /\ check' = IF proc[w].handle.open THEN CheckFailedWith("publication_failed") ELSE check
    /\ To(w, "fail")
    /\ UNCHANGED <<wanted, jobs, run, pub, github, crashes>>

-----------------------------------------------------------------------------
(* Publication.                                                            *)

Load(w) ==
    /\ At(w, "load")
    /\ IF run.status \in {"ready", "skipped", "publishing", "published"}
       THEN proc' = [proc EXCEPT ![w].pc = "beforePublish",
                                 ![w].pub = run.status # "skipped"]
       ELSE To(w, "checkFailed")
    /\ UNCHANGED <<wanted, jobs, rows, github, crashes>>

BeforePublish(w) ==
    /\ At(w, "beforePublish")
    /\ To(w, CASE ~IsCurrent(w, proc[w].job) -> "retire"
               [] IsCurrent(w, proc[w].job) /\ proc[w].pub -> "beginPublication"
               [] OTHER -> "conclude")
    /\ UNCHANGED <<wanted, jobs, rows, github, crashes>>

\* mark_review_superseded decides whether the worker may cancel the check.
Retire(w) ==
    /\ At(w, "retire")
    /\ run' = IF OwnsRun(w) THEN RunIf(Unpublished, "superseded") ELSE run
    /\ proc' = [proc EXCEPT ![w].pc = IF OwnsRun(w) THEN "complete" ELSE "supersede",
                            ![w].conclusion = "cancelled", ![w].next = "supersede"]
    /\ UNCHANGED <<wanted, jobs, pub, check, github, crashes>>

BeginPublication(w) ==
    /\ At(w, "beginPublication")
    /\ IF run.status \in {"ready", "publishing", "published"}
       THEN IF pub = "published"
            THEN To(w, "threads") /\ UNCHANGED <<run, pub>>
            ELSE /\ pub' = "publishing"
                 /\ run' = RunIf({"ready", "publishing"}, "publishing")
                 /\ To(w, "publishFind")
       ELSE To(w, "fail") /\ UNCHANGED <<run, pub>>
    /\ UNCHANGED <<wanted, jobs, check, github, crashes>>

\* Faulty variant: every attempt posts, without looking for its marker.
PublishBlindly(w) ==
    /\ At(w, "publishFind")
    /\ To(w, "publishPost")
    /\ UNCHANGED <<wanted, jobs, rows, github, crashes>>

\* publish_github_review looks for its own marker before it posts.
PublishFind(w) ==
    /\ At(w, "publishFind")
    /\ \/ To(w, IF github.reviews > 0 THEN "markPublished" ELSE "publishPost")
       \/ To(w, "publishFailed")
    /\ UNCHANGED <<wanted, jobs, rows, github, crashes>>

PublishPost(w) ==
    /\ At(w, "publishPost")
    /\ \/ github' = PostReview /\ (To(w, "markPublished") \/ To(w, "publishFailed"))
       \/ UNCHANGED github /\ To(w, "publishFailed")
    /\ UNCHANGED <<wanted, jobs, rows, crashes>>

PublishFailed(w) ==
    /\ At(w, "publishFailed")
    /\ pub' = "failed"
    /\ run' = RunIf({"publishing"}, "ready")
    /\ To(w, "checkFailed")
    /\ UNCHANGED <<wanted, jobs, check, github, crashes>>

\* mark_publication_published does not look at the run's status.
MarkPublished(w) ==
    /\ At(w, "markPublished")
    /\ pub' = "published"
    /\ run' = [run EXCEPT !.status = "published"]
    /\ To(w, "threads")
    /\ UNCHANGED <<wanted, jobs, check, github, crashes>>

\* _publish_native_thread_operations: its own rows are not modelled.
Threads(w) ==
    /\ At(w, "threads")
    /\ To(w, "conclude") \/ To(w, "checkFailed")
    /\ UNCHANGED <<wanted, jobs, rows, github, crashes>>

Conclude(w) ==
    /\ At(w, "conclude")
    /\ proc' = [proc EXCEPT ![w].pc = "complete", ![w].conclusion = "verdict",
                            ![w].next = "final"]
    /\ UNCHANGED <<wanted, jobs, rows, github, crashes>>

-----------------------------------------------------------------------------
(* _complete_native_check, called from four places.                        *)

\* An exception leaves the job's processing, or is logged by the caller that
\* finalizes a job which is over.
Raise(w) == IF proc[w].next = "idle" THEN Rest(w) ELSE To(w, "fail")
Return(w) == IF proc[w].next = "idle" THEN Rest(w) ELSE To(w, proc[w].next)

\* _get_native_check_for_job joins through the run's present owner.
GetCheck(w) ==
    /\ At(w, "getCheck")
    /\ proc' = [proc EXCEPT ![w].pc = "complete",
                            ![w].handle = IF run.job = proc[w].job THEN HandleOf(check)
                                          ELSE NoHandle]
    /\ UNCHANGED <<wanted, jobs, rows, github, crashes>>

\* begin_check_run_completion counts the attempt before anything can fail.
BeginCompletion(w) ==
    /\ At(w, "complete")
    /\ IF ~proc[w].handle.open \/ check.status = "completed"
       THEN Return(w) /\ UNCHANGED check
       ELSE /\ check' = [check EXCEPT !.attempts = @ + 1]
            /\ To(w, CASE check'.attempts > MAX_COMPLETION_ATTEMPTS -> "exhausted"
                       [] check'.attempts <= MAX_COMPLETION_ATTEMPTS
                            /\ proc[w].handle.ext = NoCheck -> "completeFind"
                       [] OTHER -> "completing")
    /\ UNCHANGED <<wanted, jobs, run, pub, github, crashes>>

Exhausted(w) ==
    /\ At(w, "exhausted")
    /\ check' = CheckFailedWith("exhausted")
    /\ Raise(w)
    /\ UNCHANGED <<wanted, jobs, run, pub, github, crashes>>

\* _resolve_native_check_external_id: look up, never create.
CompleteFind(w) ==
    /\ At(w, "completeFind")
    /\ \/ \E ext \in Found :
            proc' = [proc EXCEPT ![w].pc = "completeStarted", ![w].handle.ext = ext]
       \/ To(w, "unfinished")
    /\ UNCHANGED <<wanted, jobs, rows, github, crashes>>

CompleteStarted(w) ==
    /\ At(w, "completeStarted")
    /\ IF Startable(proc[w].handle.ext)
       THEN check' = Started(proc[w].handle.ext) /\ To(w, "completing")
       ELSE To(w, "unfinished") /\ UNCHANGED check
    /\ UNCHANGED <<wanted, jobs, run, pub, github, crashes>>

\* Faulty variant: the row is completed before GitHub is told.
CompletingEarly(w) ==
    /\ At(w, "completing")
    /\ IF Completable
       THEN /\ check' = [check EXCEPT !.status = "completed", !.code = "none",
                                      !.conclusion = proc[w].conclusion]
            /\ To(w, "patch")
       ELSE Raise(w) /\ UNCHANGED check
    /\ UNCHANGED <<wanted, jobs, run, pub, github, crashes>>

Completing(w) ==
    /\ At(w, "completing")
    /\ IF Completable
       THEN check' = [check EXCEPT !.status = "completing", !.code = "none"] /\ To(w, "patch")
       ELSE Raise(w) /\ UNCHANGED check
    /\ UNCHANGED <<wanted, jobs, run, pub, github, crashes>>

Patch(w) ==
    /\ At(w, "patch")
    /\ \/ /\ github' = PatchCheck(proc[w].handle.ext, proc[w].conclusion)
          /\ To(w, "markCompleted") \/ To(w, "unfinished")
       \/ UNCHANGED github /\ To(w, "unfinished")
    /\ UNCHANGED <<wanted, jobs, rows, crashes>>

MarkCompleted(w) ==
    /\ At(w, "markCompleted")
    /\ IF Finishable
       THEN /\ check' = [check EXCEPT !.status = "completed", !.code = "none",
                                      !.conclusion = proc[w].conclusion]
            /\ Return(w)
       ELSE Raise(w) /\ UNCHANGED check
    /\ UNCHANGED <<wanted, jobs, run, pub, github, crashes>>

\* Faulty variant: a completion that failed is taken for done.
UnfinishedIgnored(w) ==
    /\ At(w, "unfinished")
    /\ check' = CheckFailedWith("publication_failed")
    /\ Return(w)
    /\ UNCHANGED <<wanted, jobs, run, pub, github, crashes>>

Unfinished(w) ==
    /\ At(w, "unfinished")
    /\ check' = CheckFailedWith("publication_failed")
    /\ Raise(w)
    /\ UNCHANGED <<wanted, jobs, run, pub, github, crashes>>

-----------------------------------------------------------------------------
(* The end of a job: process_review_job's last lines and run_once.         *)

Final(w) ==
    /\ At(w, "final")
    /\ To(w, IF IsCurrent(w, proc[w].job) THEN "completeJob" ELSE "supersede")
    /\ UNCHANGED <<wanted, jobs, rows, github, crashes>>

\* Faulty variant: the job row is written without looking at its lease.
SupersedeUnguarded(w) ==
    /\ At(w, "supersede")
    /\ jobs' = [jobs EXCEPT ![proc[w].job] = Freed(@, "superseded")]
    /\ Rest(w)
    /\ UNCHANGED <<wanted, rows, github, crashes>>

Supersede(w) ==
    /\ At(w, "supersede")
    /\ jobs' = IF OwnsLease(w, proc[w].job)
               THEN [jobs EXCEPT ![proc[w].job] = Freed(@, "superseded")] ELSE jobs
    /\ Rest(w)
    /\ UNCHANGED <<wanted, rows, github, crashes>>

CompleteJob(w) ==
    /\ At(w, "completeJob")
    /\ IF OwnsLease(w, proc[w].job)
       THEN jobs' = [jobs EXCEPT ![proc[w].job] = Freed(@, "succeeded")] /\ Rest(w)
       ELSE To(w, "fail") /\ UNCHANGED jobs
    /\ UNCHANGED <<wanted, rows, github, crashes>>

\* run_once: a job that is given up for good is finalized by its worker.
Fail(w) ==
    LET j == proc[w].job IN
    /\ At(w, "fail")
    /\ \/ /\ ~OwnsLease(w, j)
          /\ Rest(w) /\ UNCHANGED jobs
       \/ /\ OwnsLease(w, j) /\ jobs[j].attempt < MaxAttempts
          /\ jobs' = [jobs EXCEPT ![j] = Freed(@, "queued")]
          /\ Rest(w)
       \/ /\ OwnsLease(w, j)
          /\ \E status \in TERMINAL_JOB_STATUSES :
               /\ status = "dead" => jobs[j].attempt >= MaxAttempts
               /\ jobs' = [jobs EXCEPT ![j] = Freed(@, status)]
          /\ To(w, "terminal")
    /\ UNCHANGED <<wanted, rows, github, crashes>>

\* Faulty variant: a review that failed for good is shown as cancelled.
FinalizeCancelled(w) == [proc EXCEPT ![w].pc = "getCheck", ![w].conclusion = "cancelled",
                                     ![w].next = "idle"]

Finalize(w) == [proc EXCEPT ![w].pc = "getCheck", ![w].conclusion = "failure",
                            ![w].next = "idle"]

Terminal(w) ==
    /\ At(w, "terminal")
    /\ run' = MarkReviewTerminalFailed(proc[w].job)
    /\ proc' = Finalize(w)
    /\ UNCHANGED <<wanted, jobs, pub, check, github, crashes>>

\* Faulty variant: a row that failed once is not reclaimed.
StrandedUntilFailed(j) ==
    /\ jobs[j].status \in TERMINAL_JOB_STATUSES
    /\ run.job = j
    /\ \/ run.status \in Unpublished
       \/ check.status \in {"creating", "in_progress", "completing"}

\* claim_stranded_review_jobs; the grace period only delays it.
Stranded(j) ==
    /\ jobs[j].status \in TERMINAL_JOB_STATUSES
    /\ run.job = j
    /\ \/ run.status \in Unpublished
       \/ /\ check.status \notin {"none", "completed"}
          /\ check.attempts < MAX_COMPLETION_ATTEMPTS

\* _finalize_stranded_reviews, run by an idle worker between two claims.
FinalizeStranded(w) ==
    \E j \in Jobs :
        /\ At(w, "idle")
        /\ Stranded(j)
        /\ run' = MarkReviewTerminalFailed(j)
        /\ proc' = [proc EXCEPT ![w] = [Idle EXCEPT !.pc = "getCheck", !.job = j,
                                                    !.conclusion = "failure"]]
        /\ UNCHANGED <<wanted, jobs, pub, check, github, crashes>>

Work(w) ==
    \/ Claim(w) \/ FinalizeStranded(w)
    \/ Entry(w) \/ Begin(w) \/ PersistSkip(w)
    \/ Ensure(w) \/ EnsureFind(w) \/ EnsurePost(w) \/ EnsureStarted(w) \/ EnsureFailed(w)
    \/ AfterEnsure(w) \/ Generate(w) \/ GenerationSuperseded(w) \/ GenerationFailed(w)
    \/ Persist(w) \/ CheckFailed(w) \/ Load(w) \/ BeforePublish(w) \/ Retire(w)
    \/ BeginPublication(w) \/ PublishFind(w) \/ PublishPost(w) \/ PublishFailed(w)
    \/ MarkPublished(w) \/ Threads(w) \/ Conclude(w)
    \/ GetCheck(w) \/ BeginCompletion(w) \/ Exhausted(w) \/ CompleteFind(w)
    \/ CompleteStarted(w) \/ Completing(w) \/ Patch(w) \/ MarkCompleted(w) \/ Unfinished(w)
    \/ Final(w) \/ Supersede(w) \/ CompleteJob(w) \/ Fail(w) \/ Terminal(w)

Next ==
    \/ \E w \in Workers : Work(w) \/ Crash(w)
    \/ \E j \in Jobs : LeaseExpires(j)
    \/ MoveHead
    \/ Enqueue

Spec == Init /\ [][Next]_vars

\* The lease of a worker that is gone runs out.
AbandonedExpires(j) ==
    LeaseExpires(j) /\ proc[jobs[j].owner].job # j

(***************************************************************************)
(* A worker's loop keeps running, its requests time out (fail) at the      *)
(* latest, and time passes for a lease nobody renews.                      *)
(***************************************************************************)
FairSpec ==
    /\ Spec
    /\ \A w \in Workers : WF_vars(Work(w))
    /\ \A j \in Jobs : WF_vars(AbandonedExpires(j))

-----------------------------------------------------------------------------
(* Properties.                                                             *)

\* A pull request receives one review of a revision, however often the
\* worker crashes or a request is answered too late: publish_github_review
\* finds the review it posted before by its marker.
OneReviewPosted == github.reviews <= 1

\* One check run is created for a review run, whatever step the worker died
\* at: ensure_github_check_run finds the one it created by its external key.
OneCheckCreated == Len(github.checks) <= 1

\* A row that says completed states the conclusion GitHub shows, so nothing
\* remains to be done for it (_complete_native_check patches before it marks).
RowAgreesWithGitHub ==
    check.status = "completed" => github.checks[check.ext] = check.conclusion

\* Where no worker outlives its lease, a check is cancelled only for a revision
\* that was replaced, however often the job is retried after a crash: the
\* handlers of process_review_job that cancel are reached through
\* heartbeat_and_check_current alone.
CancelledOnlyIfUnwanted == check.conclusion = "cancelled" => ~wanted

\* Where no worker outlives its lease, a job that succeeded left its check with
\* the verdict on its report: "Status checks follow the review-run head,
\* including intentional skips" (process_review_job).
SucceededJobHasVerdict ==
    \A j \in Jobs :
        /\ jobs[j].status = "succeeded" /\ check.status # "none"
        /\ \A i \in Jobs : i > j => jobs[i].status = "absent"
        => check.conclusion = "verdict"

\* The check of a job that some worker owns is not cancelled while its revision
\* is wanted: "A worker that no longer owns the run must not cancel the check
\* either -- the worker that does own it is still going to complete it"
\* (process_review_job).
OwnedCheckNotCancelled ==
    wanted /\ (\E w \in Workers : OwnsRun(w)) => check.conclusion # "cancelled"

\* Whoever else works on the same check, and whoever lost its lease meanwhile,
\* a job that succeeded leaves no check open: the retry of a completion that
\* failed, or of one cut off by a late worker, brings it to its end
\* (_complete_native_check, complete_workflow_job).
SucceededJobConcludesCheck ==
    \A j \in Jobs : jobs[j].status = "succeeded" => check.status = "completed"

\* A check fails only for a job that was given up (_finalize_terminal_review):
\* no error on the way to a retry is shown as one.
FailureNeedsLostJob ==
    check.conclusion = "failure" => \E j \in Jobs : jobs[j].status \in TERMINAL_JOB_STATUSES

\* A worker that still has its lease is not about to cancel the check of a
\* revision that is wanted; one that lost it may be.
OwnerCancelsOnlyIfUnwanted ==
    \A w \in Workers :
        /\ proc[w].pc \in {"complete", "completeFind", "completeStarted", "completing", "patch",
                          "markCompleted"}
        /\ proc[w].conclusion = "cancelled" /\ wanted
        => ~OwnsLease(w, proc[w].job)

\* A job ends superseded only if something came after it: "A newer pull-request
\* event superseded this review" (process_review_job).
SupersededHasSuccessor ==
    \A j \in Jobs : jobs[j].status = "superseded" => ~wanted

\* A review run is retired only when its revision was replaced: a worker
\* that merely lost its lease leaves the run to the next one
\* (mark_review_superseded).
SupersededOnlyIfUnwanted == run.status = "superseded" => ~wanted

\* A verdict is shown only for a report that was published, or skipped on
\* purpose, and the run stays so: a retry or a second job for the revision
\* never reopens it (begin_review_run, mark_review_terminal_failed).
VerdictNeedsReview == check.conclusion = "verdict" => run.status \in {"published", "skipped"}

\* The run a worker is generating into is not failed on behalf of a job that was
\* given up, by its own handler or by the sweep: "a newer job that adopts one
\* of them via `begin_review_run` waits, then wins, instead of having its
\* in-flight run marked failed underneath it" (_reconcile_stranded_reviews).
\* Only a generation that raises fails it; mark_review_failed does not ask
\* whether that is the generation of the run's owner.
InFlightRunKept ==
    [][\A w \in Workers :
         /\ run.status = "generating" /\ run'.status = "failed"
         /\ OwnsRun(w) /\ proc[w].job = run.job
         => \E v \in Workers : At(v, "genFailed") /\ proc'[v] # proc[v]]_vars

GaveUp == \E j \in Jobs : jobs[j].status \in TERMINAL_JOB_STATUSES
                          /\ \A i \in Jobs : i > j => jobs[i].status = "absent"

\* When the last job of the revision is given up, a check that GitHub still
\* shows as in progress is concluded, or its completion attempts run out:
\* "Unblock pull requests whose required check outlived its review job"
\* (_finalize_stranded_reviews).
HungCheckResolved ==
    (GaveUp /\ \E n \in DOMAIN github.checks : github.checks[n] = "in_progress")
      ~> \/ ~GaveUp
         \/ \A n \in DOMAIN github.checks : github.checks[n] # "in_progress"
         \/ check.attempts >= MAX_COMPLETION_ATTEMPTS

\* The four tables and GitHub fit together: rows have their types, and one
\* that is done says what GitHub shows.
RecordedAsShown == TypeOK /\ RowAgreesWithGitHub

\* However often a review is retried, GitHub gets one review and one check.
PostedOnce == OneReviewPosted /\ OneCheckCreated

\* With crashing workers only, the check ends with what its review came to.
CheckFollowsReview == CancelledOnlyIfUnwanted /\ SucceededJobHasVerdict

\* With late workers too, a check is concluded by the time its job succeeds,
\* fails only with a job, and is cancelled by nobody entitled to complete it.
ConcludedRightly ==
    SucceededJobConcludesCheck /\ FailureNeedsLostJob /\ OwnerCancelsOnlyIfUnwanted

\* Neither a run nor a job is retired that is still wanted.
SupersededRightly == SupersededOnlyIfUnwanted /\ SupersededHasSuccessor
=============================================================================
