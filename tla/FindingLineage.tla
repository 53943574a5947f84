--------------------------- MODULE FindingLineage ---------------------------
(***************************************************************************)
(* What becomes of a finding from one review of a pull request to the      *)
(* next: diffuse/database/finding.py and diffuse/review/lineage.py over    *)
(* the tables finding_lineages, review_findings, finding_lineage_events,   *)
(* finding_threads and finding_thread_operations, driven by the worker     *)
(* (diffuse/worker.py) and shown on GitHub by diffuse/github/threads.py    *)
(* and review_publish.py.                                                  *)
(*                                                                         *)
(* Review run r is the run of the r-th head of the pull request and of     *)
(* review job r.  The jobs of a pull request run one at a time, so there   *)
(* is one worker here; it may die between any two transactions or          *)
(* requests, and the sweep for stranded reviews runs beside it.  Leases    *)
(* that end under a worker which is still alive, status checks and runs    *)
(* that two jobs share are the business of ReviewExecution.                *)
(*                                                                         *)
(* A lineage is known by its initial fingerprint, which is unique in a     *)
(* pull request; a row that is deleted takes every reference with it.      *)
(***************************************************************************)
EXTENDS Integers, FiniteSets

CONSTANTS
    Fingerprints,   \* findings an agent may report: a set of naturals
    Similar,        \* pairs that score above the match threshold without being equal
    PathOf(_),      \* the file of a finding, under its present name
    InlineRuns,     \* runs whose report has inline_comments_enabled
    NumRuns,        \* heads the pull request may have
    MaxAttempts,    \* workflow_jobs.max_attempts
    MaxFaults      \* bound on deaths of the worker and failed requests

ASSUME LineageAssumption ==
    /\ Fingerprints \subseteq Nat
    /\ Similar \subseteq Fingerprints \X Fingerprints
    /\ InlineRuns \subseteq 1..NumRuns
    /\ NumRuns \in Nat \ {0} /\ MaxAttempts \in Nat \ {0} /\ MaxFaults \in Nat

Runs == 1..NumRuns
NoRun == 0
Kinds == {"new", "persistent", "reopened", "addressed"}
Unpublished == {"generating", "ready", "publishing"}

VARIABLES
    jobs,       \* workflow_jobs: status and attempt_count of each review job
    run,        \* review_runs: status
    lineage,    \* finding_lineages: status and first_seen_review_run_id
    findings,   \* review_findings
    events,     \* finding_lineage_events
    threads,    \* finding_threads: root comment and status
    ops,        \* finding_thread_operations: status, by event
    github,     \* reviews, their root comments, replies and resolved threads
    proc,       \* what the worker is doing
    faults     \* deaths and failures so far

vars == <<jobs, run, lineage, findings, events, threads, ops, github, proc, faults>>
tables == <<lineage, findings, events, threads, ops>>

Event == [run : Runs, lineage : Fingerprints]   \* UNIQUE (lineage_id, review_run_id)
NoLineage == [status |-> "none", first |-> NoRun]
NoThread == [root |-> NoRun, status |-> "none"]
Idle == [pc |-> "idle", run |-> NoRun, inline |-> {}, todo |-> {},
         replied |-> FALSE, resolved |-> FALSE]

TypeOK ==
    /\ jobs \in [Runs -> [status : {"absent", "queued", "running", "succeeded",
                                    "superseded", "dead"},
                          attempt : 0..MaxAttempts]]
    /\ run \in [Runs -> Unpublished \cup {"none", "published", "failed", "superseded"}]
    /\ lineage \in [Fingerprints -> [status : {"none", "pending", "active", "addressed"},
                                     first : Runs \cup {NoRun}]]
    /\ findings \subseteq [run : Runs, fp : Fingerprints, lineage : Fingerprints]
    /\ events \subseteq [run : Runs, lineage : Fingerprints, kind : Kinds, applied : BOOLEAN]
    /\ \A e, d \in events : e.run = d.run /\ e.lineage = d.lineage => e = d
    /\ threads \in [Fingerprints -> [root : Runs \cup {NoRun},
                                     status : {"none", "active", "addressed"}]]
    /\ ops \in [Event -> {"none", "publishing", "failed", "published"}]
    /\ github.review \in [Runs -> {"none", "inline", "bare"}]
    /\ github.roots \subseteq Runs \X Fingerprints
    /\ github.resolved \subseteq github.roots
    /\ github.replies \in [Event -> Nat]
    /\ proc.run \in Runs \cup {NoRun} /\ proc.inline \subseteq Fingerprints
    /\ proc.todo \subseteq Fingerprints
    /\ faults \in 0..MaxFaults

Init ==
    /\ jobs = [r \in Runs |-> [status |-> IF r = 1 THEN "queued" ELSE "absent",
                               attempt |-> 0]]
    /\ run = [r \in Runs |-> "none"]
    /\ lineage = [f \in Fingerprints |-> NoLineage]
    /\ findings = {} /\ events = {}
    /\ threads = [f \in Fingerprints |-> NoThread]
    /\ ops = [e \in Event |-> "none"]
    /\ github = [review |-> [r \in Runs |-> "none"], roots |-> {}, resolved |-> {},
                 replies |-> [e \in Event |-> 0]]
    /\ proc = Idle
    /\ faults = 0

Fault == faults < MaxFaults /\ faults' = faults + 1
At(pc) == proc.pc = pc
To(pc) == proc' = [proc EXCEPT !.pc = pc]
Goes(pc) == To(pc) /\ UNCHANGED faults
Fails(pc) == To(pc) /\ Fault
Mine == proc.run

-----------------------------------------------------------------------------
(* Jobs and the worker's life: see WorkflowQueue and ReviewExecution.      *)

Head == CHOOSE r \in Runs : /\ jobs[r].status # "absent"
                            /\ \A s \in Runs : s > r => jobs[s].status = "absent"

\* A push: the queued jobs of the pull request are superseded.
Push ==
    /\ Head < NumRuns
    /\ jobs' = [r \in Runs |->
                  CASE r = Head + 1 -> [jobs[r] EXCEPT !.status = "queued"]
                    [] jobs[r].status = "queued" -> [jobs[r] EXCEPT !.status = "superseded"]
                    [] OTHER -> jobs[r]]
    /\ UNCHANGED <<run, tables, github, proc, faults>>

\* A job whose worker is gone is queued again, or dead.
GivenBack(r) == IF jobs[r].attempt >= MaxAttempts THEN "dead" ELSE "queued"

\* claim_workflow_job sweeps the jobs whose lease ran out, then takes the
\* oldest of the scope.  No job is running but a dead worker's.
Claim ==
    LET swept == [r \in Runs |-> IF jobs[r].status = "running"
                                 THEN [jobs[r] EXCEPT !.status = GivenBack(r)] ELSE jobs[r]]
        due == {r \in Runs : /\ swept[r].status = "queued"
                             /\ \A s \in Runs : s < r => swept[s].status # "queued"}
    IN  /\ At("idle")
        /\ \/ due = {} /\ swept # jobs /\ jobs' = swept /\ UNCHANGED proc
           \/ \E r \in due :
                /\ jobs' = [swept EXCEPT ![r] = [status |-> "running", attempt |-> @.attempt + 1]]
                /\ proc' = [Idle EXCEPT !.pc = "begin", !.run = r]
        /\ UNCHANGED <<run, tables, github, faults>>

Crash ==
    /\ ~At("idle")
    /\ Fault
    /\ proc' = Idle
    /\ UNCHANGED <<jobs, run, tables, github>>

\* The job ends and the worker is free for the next one.
End(status) ==
    /\ jobs' = [jobs EXCEPT ![Mine].status = status]
    /\ proc' = Idle

-----------------------------------------------------------------------------
(* Deleting rows.  A lineage takes its findings, events, thread and        *)
(* operations with it (ON DELETE CASCADE).                                 *)

Kept(rows, gone) == {x \in rows : x.lineage \notin gone}

\* Faulty variant: every projection of the run goes, published or not.
DiscardApplied(r) ==
    LET gone == {f \in Fingerprints : lineage[f].first = r}
    IN  /\ lineage' = [f \in Fingerprints |-> IF f \in gone THEN NoLineage ELSE lineage[f]]
        /\ findings' = {x \in Kept(findings, gone) : x.run # r}
        /\ events' = {e \in Kept(events, gone) : e.run # r}
        /\ threads' = [f \in Fingerprints |-> IF f \in gone THEN NoThread ELSE threads[f]]
        /\ ops' = [e \in Event |-> IF e.lineage \in gone THEN "none" ELSE ops[e]]

\* What persist_review_report and discard_unpublished_finding_lineage take
\* away first: the run's unapplied events, its findings, and the pending
\* lineages it was the first to see.
Pending(r) == {f \in Fingerprints : lineage[f] = [status |-> "pending", first |-> r]}

Discard(r) ==
    LET gone == Pending(r)
    IN  /\ lineage' = [f \in Fingerprints |-> IF f \in gone THEN NoLineage ELSE lineage[f]]
        /\ findings' = {x \in Kept(findings, gone) : x.run # r}
        /\ events' = {e \in Kept(events, gone) : e.run = r => e.applied}
        /\ threads' = [f \in Fingerprints |-> IF f \in gone THEN NoThread ELSE threads[f]]
        /\ ops' = [e \in Event |-> IF e.lineage \in gone THEN "none" ELSE ops[e]]

\* mark_review_superseded, mark_review_terminal_failed: a published run keeps
\* its projections.
Retired(r, status) ==
    IF run[r] \in Unpublished
    THEN Discard(r) /\ run' = [run EXCEPT ![r] = status]
    ELSE UNCHANGED <<run, tables>>

-----------------------------------------------------------------------------
(* Matching the findings of a review with those of earlier ones.           *)

\* _historical_findings: lineages that were published at least once.
Published(f) == {x \in findings : /\ x.lineage = f
                                  /\ \E e \in events : /\ e.run = x.run /\ e.lineage = f
                                                       /\ e.applied}
History == {f \in Fingerprints : lineage[f].status \in {"active", "addressed"}
                                 /\ Published(f) # {}}

\* The fingerprint a lineage was last published under.
LastSeen(f) == (CHOOSE x \in Published(f) : \A y \in Published(f) : y.run <= x.run).fp

\* _finding_similarity: 2 for the same finding, 1 above the threshold.
Score(f, g) == CASE PathOf(f) # PathOf(g) -> 0
                 [] PathOf(f) = PathOf(g) /\ f = g -> 2
                 [] OTHER -> IF <<f, g>> \in Similar THEN 1 ELSE 0

\* classify_finding_lineage takes candidate pairs by falling score; the order
\* among equal scores is left open.
Greedy(match, current) ==
    LET score(p) == Score(p[1], LastSeen(p[2]))
        candidates == {p \in current \X History : score(p) > 0}
    IN  /\ match \subseteq candidates
        /\ \A p, q \in match : p # q => p[1] # q[1] /\ p[2] # q[2]
        /\ \A p \in candidates \ match :
             \E q \in match : (q[1] = p[1] \/ q[2] = p[2]) /\ score(q) >= score(p)

\* Faulty variant: a finding that came back is taken for one that never left.
TransitionsBlind(current, match, touched) ==
    LET known(f) == \E p \in match : p[1] = f
        of(f) == (CHOOSE p \in match : p[1] = f)[2]
    IN  {[fp |-> f, lineage |-> IF known(f) THEN of(f) ELSE f,
          kind |-> IF known(f) THEN "persistent" ELSE "new"] : f \in current}
        \cup {[fp |-> NoRun, lineage |-> l, kind |-> "addressed"] :
                l \in {h \in History : /\ lineage[h].status = "active"
                                       /\ \A p \in match : p[2] # h
                                       /\ PathOf(LastSeen(h)) \in touched}}

\* The transitions of a review: of its findings, and of unmatched active
\* lineages on a file the change touches.
Transitions(current, match, touched) ==
    LET known(f) == \E p \in match : p[1] = f
        of(f) == (CHOOSE p \in match : p[1] = f)[2]
    IN  {[fp |-> f, lineage |-> IF known(f) THEN of(f) ELSE f,
          kind |-> CASE ~known(f) -> "new"
                     [] known(f) /\ lineage[of(f)].status = "addressed" -> "reopened"
                     [] OTHER -> "persistent"] : f \in current}
        \cup {[fp |-> NoRun, lineage |-> l, kind |-> "addressed"] :
                l \in {h \in History : /\ lineage[h].status = "active"
                                       /\ \A p \in match : p[2] # h
                                       /\ PathOf(LastSeen(h)) \in touched}}

\* persist_finding_lineage: a new finding gets a pending lineage, or the one
\* an earlier review left pending.
Collides(t) == \E x \in t : x.kind = "new" /\ lineage[x.lineage].status \in {"active", "addressed"}

-----------------------------------------------------------------------------
(* process_review_job.                                                     *)

\* begin_review_run, after the checks at the entry: a job that is not for the
\* head leaves its run as it is.
Begin ==
    /\ At("begin")
    /\ \/ /\ Mine # Head
          /\ End("superseded")
          /\ UNCHANGED run
       \/ /\ Mine = Head
          /\ IF run[Mine] \in {"none", "failed", "generating"}
             THEN run' = [run EXCEPT ![Mine] = "generating"] /\ To("persist") /\ UNCHANGED jobs
             ELSE IF run[Mine] = "superseded" THEN End("superseded") /\ UNCHANGED run
             ELSE To("load") /\ UNCHANGED <<jobs, run>>
    /\ UNCHANGED <<tables, github, faults>>

\* persist_review_report, in one transaction: a collision undoes all of it.
\* Its deletions and Discard are the same statements.
Persist ==
    /\ At("persist")
    /\ Mine = Head
    /\ \E current \in SUBSET Fingerprints, touched \in SUBSET {PathOf(f) : f \in Fingerprints} :
       \E match \in SUBSET (current \X History) :
         LET gone == Pending(Mine)
             t == Transitions(current, match, touched)
             fresh == {x.lineage : x \in {y \in t : y.kind = "new"}}
         IN  /\ Greedy(match, current)
             /\ IF Collides(t)
                THEN To("failed") /\ UNCHANGED <<run, tables>>
                ELSE /\ lineage' = [f \in Fingerprints |->
                                      CASE f \in fresh /\ (f \in gone \/ lineage[f] = NoLineage)
                                              -> [status |-> "pending", first |-> Mine]
                                        [] f \in gone \ fresh -> NoLineage
                                        [] OTHER -> lineage[f]]
                     /\ findings' = {x \in Kept(findings, gone) : x.run # Mine} \cup
                          {[run |-> Mine, fp |-> x.fp, lineage |-> x.lineage] :
                             x \in {y \in t : y.kind # "addressed"}}
                     /\ events' = {e \in Kept(events, gone) : e.run = Mine => e.applied} \cup
                          {[run |-> Mine, lineage |-> x.lineage, kind |-> x.kind,
                            applied |-> FALSE] : x \in t}
                     /\ run' = [run EXCEPT ![Mine] = "ready"]
                     /\ To("load")
                     /\ UNCHANGED <<threads, ops>>
    /\ UNCHANGED <<jobs, github, faults>>

\* The head moves while the agent works, or before the review is published.
Supersede ==
    /\ At("persist") \/ At("load")
    /\ Mine # Head
    /\ Retired(Mine, "superseded")
    /\ End("superseded")
    /\ UNCHANGED <<github, faults>>

\* The job's processing raised, or the agent gave no report: run_once gives
\* the job back.
Fail ==
    /\ At("failed")
    /\ run' = [run EXCEPT ![Mine] = IF @ = "generating" THEN "failed" ELSE @]
    /\ End(GivenBack(Mine))
    /\ UNCHANGED <<tables, github, faults>>

AgentFails ==
    /\ At("persist")
    /\ Fails("failed")
    /\ UNCHANGED <<jobs, run, tables, github>>

\* The run of a dead job is retired, by the worker that failed it last or, if
\* it died, by _finalize_stranded_reviews in any worker some time later.
TerminalFailed(r) ==
    /\ jobs[r].status = "dead" /\ run[r] \in Unpublished
    /\ Retired(r, "failed")
    /\ UNCHANGED <<jobs, github, proc, faults>>

\* load_review_continuity and begin_publication.  The new findings go inline.
EventsOf(r) == {e \in events : e.run = r}
FingerprintOf(e) == (CHOOSE x \in findings : x.run = e.run /\ x.lineage = e.lineage).fp

\* Faulty variant: findings that were published before go inline again.
NewOfAll(r) == {FingerprintOf(e) : e \in {d \in EventsOf(r) : d.kind # "addressed"}}
NewOf(r) == {FingerprintOf(e) : e \in {d \in EventsOf(r) : d.kind = "new"}}

Load ==
    /\ At("load")
    /\ Mine = Head
    /\ IF run[Mine] = "published"
       THEN To("operations") /\ UNCHANGED run
       ELSE /\ run' = [run EXCEPT ![Mine] = "publishing"]
            /\ proc' = [proc EXCEPT !.pc = "publish",
                                    !.inline = IF Mine \in InlineRuns THEN NewOf(Mine) ELSE {}]
    /\ UNCHANGED <<jobs, tables, github, faults>>

\* publish_github_review: the review of an earlier attempt is found by its
\* marker; a rejected set of inline comments is left out of a second request.
\* A request may fail before or after it took effect.
Publish ==
    /\ At("publish")
    /\ \/ /\ github.review[Mine] # "none"
          /\ Goes("record")
          /\ UNCHANGED github
       \/ /\ github.review[Mine] = "none"
          /\ \E attached \in BOOLEAN :
               github' = [github EXCEPT
                            !.review[Mine] = IF attached THEN "inline" ELSE "bare",
                            !.roots = IF attached THEN @ \cup ({Mine} \X proc.inline) ELSE @]
          /\ Goes("record") \/ Fails("unpublished")
       \/ Fails("unpublished") /\ UNCHANGED github
    /\ UNCHANGED <<jobs, run, tables>>

Unpublish ==
    /\ At("unpublished")
    /\ run' = [run EXCEPT ![Mine] = "ready"]
    /\ To("failed")
    /\ UNCHANGED <<jobs, tables, github, faults>>

\* _mark_native_publication_published, one transaction: record_finding_threads
\* for the comments GitHub shows, activate_finding_lineage_events for the
\* rest, and the run is published.
Anchored == {f \in Fingerprints : <<Mine, f>> \in github.roots}

MapsToNew(f) ==
    \E e \in EventsOf(Mine) : /\ e.kind = "new" /\ FingerprintOf(e) = f
                              /\ threads[e.lineage].root \in {NoRun, Mine}

Recordable == \A f \in Anchored : MapsToNew(f)

\* Faulty variant: what could not be anchored is activated all the same.
LeftPendingNever(e) == FALSE

\* A new finding that was to go inline and has no thread waits for the next review.
LeftPending(e) ==
    /\ e.kind = "new" /\ threads[e.lineage] = NoThread
    /\ FingerprintOf(e) \in proc.inline \ Anchored

Expected(e) ==
    lineage[e.lineage].status = CASE e.kind = "new" -> "pending"
                                  [] e.kind = "persistent" -> "active"
                                  [] e.kind = "reopened" -> "addressed"
                                  [] e.kind = "addressed" -> "active"

ToApply == {e \in EventsOf(Mine) : ~e.applied /\ ~LeftPending(e)}

Record ==
    /\ At("record")
    /\ IF Recordable /\ \A e \in ToApply : Expected(e)
       THEN /\ threads' = [l \in Fingerprints |->
                             IF \E e \in EventsOf(Mine) : /\ e.kind = "new" /\ e.lineage = l
                                                          /\ FingerprintOf(e) \in Anchored
                             THEN [root |-> Mine, status |-> "active"] ELSE threads[l]]
            /\ lineage' = [l \in Fingerprints |->
                             IF \E e \in ToApply : e.lineage = l
                             THEN [lineage[l] EXCEPT !.status =
                                     IF \E e \in ToApply : e.lineage = l /\ e.kind = "addressed"
                                     THEN "addressed" ELSE "active"]
                             ELSE lineage[l]]
            /\ events' = {IF e \in ToApply THEN [e EXCEPT !.applied = TRUE] ELSE e : e \in events}
            /\ run' = [run EXCEPT ![Mine] = "published"]
            /\ To("operations")
       ELSE To("failed") /\ UNCHANGED <<run, lineage, events, threads>>
    /\ UNCHANGED <<jobs, findings, ops, github, faults>>

-----------------------------------------------------------------------------
(* The thread of an addressed or reopened finding.                         *)

\* Faulty variant: an operation that was under way is not taken up again.
OperationsUnfinished(r) ==
    {e.lineage : e \in {d \in EventsOf(r) :
        /\ d.kind \in {"addressed", "reopened"} /\ d.applied
        /\ threads[d.lineage] # NoThread
        /\ ops[[run |-> r, lineage |-> d.lineage]] = "none"}}

\* begin_thread_operations: every operation of the run that is not published.
Operations(r) ==
    {e.lineage : e \in {d \in EventsOf(r) :
        /\ d.kind \in {"addressed", "reopened"} /\ d.applied
        /\ threads[d.lineage] # NoThread
        /\ ops[[run |-> r, lineage |-> d.lineage]] # "published"}}

BeginOperations ==
    /\ At("operations")
    /\ ops' = [e \in Event |-> IF e.run = Mine /\ e.lineage \in Operations(Mine)
                               THEN "publishing" ELSE ops[e]]
    /\ proc' = [proc EXCEPT !.pc = "next", !.todo = Operations(Mine)]
    /\ UNCHANGED <<jobs, run, lineage, findings, events, threads, github, faults>>

\* The operation under way, in the order the rows were made.
Op == CHOOSE l \in proc.todo : \A k \in proc.todo : l <= k
OpKey == [run |-> Mine, lineage |-> Op]
Reopens == \E e \in EventsOf(Mine) : e.lineage = Op /\ e.kind = "reopened"
Root == <<threads[Op].root, FingerprintOf([run |-> threads[Op].root, lineage |-> Op])>>

\* Faulty variant: the reply of an earlier attempt is not looked for.
RepliedNever == FALSE

\* _find_existing_reply: a reply that carries the operation's marker.
Replied == github.replies[OpKey] > 0

\* _find_existing_reply and _find_thread, and the end of the list.
NextOperation ==
    /\ At("next")
    /\ IF proc.todo = {} THEN Goes("finish")
       ELSE \/ /\ proc' = [proc EXCEPT !.pc = IF Reopens THEN "unresolve" ELSE "reply",
                                       !.replied = Replied,
                                       !.resolved = Root \in github.resolved]
               /\ UNCHANGED faults
            \/ Fails("opFailed")
    /\ UNCHANGED <<jobs, run, tables, github>>

\* _set_thread_resolution, for a reopened finding before the reply and for an
\* addressed one after it.
SetResolution(resolved, next) ==
    IF proc.resolved = resolved THEN Goes(next) /\ UNCHANGED github
    ELSE \/ /\ github' = [github EXCEPT !.resolved = IF resolved THEN @ \cup {Root}
                                                     ELSE @ \ {Root}]
            /\ Goes(next) \/ Fails("opFailed")
         \/ UNCHANGED github /\ Fails("opFailed")

Unresolve ==
    /\ At("unresolve")
    /\ SetResolution(FALSE, "reply")
    /\ UNCHANGED <<jobs, run, tables>>

Reply ==
    LET next == IF Reopens THEN "mark" ELSE "resolve"
    IN  /\ At("reply")
        /\ IF proc.replied THEN Goes(next) /\ UNCHANGED github
           ELSE \/ /\ github' = [github EXCEPT !.replies[OpKey] = @ + 1]
                   /\ Goes(next) \/ Fails("opFailed")
                \/ UNCHANGED github /\ Fails("opFailed")
        /\ UNCHANGED <<jobs, run, tables>>

Resolve ==
    /\ At("resolve")
    /\ SetResolution(TRUE, "mark")
    /\ UNCHANGED <<jobs, run, tables>>

\* mark_thread_operation_published
MarkOperation ==
    /\ At("mark")
    /\ ops' = [ops EXCEPT ![OpKey] = "published"]
    /\ threads' = [threads EXCEPT ![Op].status = IF Reopens THEN "active" ELSE "addressed"]
    /\ proc' = [proc EXCEPT !.pc = "next", !.todo = @ \ {Op},
                            !.replied = FALSE, !.resolved = FALSE]
    /\ UNCHANGED <<jobs, run, lineage, findings, events, github, faults>>

\* mark_thread_operation_failed, and the exception goes on.
OperationFailed ==
    /\ At("opFailed")
    /\ ops' = [ops EXCEPT ![OpKey] = "failed"]
    /\ To("failed")
    /\ UNCHANGED <<jobs, run, lineage, findings, events, threads, github, faults>>

Finish ==
    /\ At("finish")
    /\ End(IF Mine = Head THEN "succeeded" ELSE "superseded")
    /\ UNCHANGED <<run, tables, github, faults>>

Next ==
    \/ Push \/ Claim \/ Crash \/ Begin \/ Persist \/ AgentFails \/ Supersede \/ Fail
    \/ \E r \in Runs : TerminalFailed(r)
    \/ Load \/ Publish \/ Unpublish \/ Record
    \/ BeginOperations \/ NextOperation \/ Unresolve \/ Reply \/ Resolve
    \/ MarkOperation \/ OperationFailed \/ Finish

Spec == Init /\ [][Next]_vars

-----------------------------------------------------------------------------
(* Properties.                                                             *)

\* A finding that was published stays on record, with the transition it was
\* published for, whatever is discarded or persisted later (discard_
\* unpublished_finding_lineage, persist_review_report).
PublishedStays ==
    [][\A e \in events : e.applied =>
         /\ e \in events'
         /\ \A x \in findings : x.run = e.run /\ x.lineage = e.lineage => x \in findings']_vars

\* What a review is about to publish is still what it was compared with: the
\* lineages it has events of have not changed since it was persisted (the
\* RuntimeError of activate_finding_lineage_events is not reached).
PublishedAsClassified == At("record") => \A e \in ToApply : Expected(e)

\* A finding is lost with the review that saw it first: that one was given up
\* before it was published, after the review at hand had taken over its
\* pending lineage (discard_unpublished_finding_lineage).
LostWithItsFirstReview(f) ==
    /\ lineage[f] = NoLineage
    /\ \E r \in Runs : r # Mine /\ jobs[r].status = "dead" /\ run[r] = "failed"

\* A comment of a published review maps to a new finding of the review, as
\* record_finding_threads demands, unless that was lost with an earlier review:
\* recording raises in that case and in no other.
CommentsMapUnlessLost ==
    At("record") => \A f \in Anchored : MapsToNew(f) \/ LostWithItsFirstReview(f)

\* A finding that reviews go on tracking has a thread on the pull request,
\* unless the review that brought it up had inline comments off: without one
\* it can never be resolved or answered.
TrackedHasThread ==
    \A e \in events : e.kind = "new" /\ e.applied /\ e.run \in InlineRuns =>
        /\ threads[e.lineage] # NoThread
        /\ <<threads[e.lineage].root, FingerprintOf(e)>> \in github.roots

\* However often a review is retried, a thread gets one reply for one
\* transition of its finding.
OneReplyPerTransition == \A e \in Event : github.replies[e] <= 1

\* A review job that succeeded has brought every thread it had to move to the
\* state of its finding, on GitHub and in finding_threads, with a reply; that
\* stays so until a later review moves the finding again.
ThreadsFollowFindings ==
    \A r \in Runs : \A e \in EventsOf(r) :
        /\ jobs[r].status = "succeeded"
        /\ e.kind \in {"addressed", "reopened"} /\ e.applied /\ threads[e.lineage] # NoThread
        /\ \A d \in events : d.lineage = e.lineage /\ d.run > r /\ d.applied => d.kind = "persistent"
        => LET t == threads[e.lineage]
               root == <<t.root, FingerprintOf([run |-> t.root, lineage |-> e.lineage])>>
           IN  /\ github.replies[[run |-> r, lineage |-> e.lineage]] = 1
               /\ t.status = lineage[e.lineage].status
               /\ (root \in github.resolved) = (e.kind = "addressed")

\* When a review is recorded the lineages are as its events say, and its
\* comments map to new findings unless one was lost with an earlier review.
RecordedAsClassified == TypeOK /\ PublishedAsClassified /\ CommentsMapUnlessLost

\* Every tracked finding has its thread, which follows it with one reply for
\* each of its transitions.
ThreadsKept == TrackedHasThread /\ OneReplyPerTransition /\ ThreadsFollowFindings
=============================================================================
