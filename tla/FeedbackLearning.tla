-------------------------- MODULE FeedbackLearning --------------------------
(***************************************************************************)
(* What readers think of a review, and what Diffuse learns from it: the    *)
(* reactions and replies on the thread of a finding are recorded as        *)
(* feedback events (diffuse/database/feedback.py, github/feedback.py),     *)
(* enough of them become a learning job and suggested rules, and           *)
(* operators moderate those (diffuse/database/learning.py,                 *)
(* cli/learning.py).                                                       *)
(*                                                                         *)
(* One repository, one finding thread.  A reaction carries an identifier   *)
(* of GitHub's that is never used again; the events recorded for it have   *)
(* the keys `observed` and `withdrawn`, unique and never deleted, so its   *)
(* record only moves forward.  An evidence fingerprint is a hash of the    *)
(* events in effect: here, the set itself.                                 *)
(*                                                                         *)
(* The worker of this build refuses every learning job                     *)
(* (process_rule_learning_job raises before it does anything), so the      *)
(* store's half of the synthesis, begin_rule_learning and                  *)
(* persist_rule_suggestions, is driven by whoever else claims the job: the *)
(* integration test of the store does.  That caller is taken to do it at   *)
(* any time or never; no step of it is fair.                               *)
(***************************************************************************)
EXTENDS Integers, FiniteSets

CONSTANTS
    Reactions,          \* reactions collaborators may leave
    Replies,            \* replies collaborators may write
    Candidates,         \* rules an agent may suggest, told apart by deduplication key
    Moderators,         \* operators at the command line
    MinimumEvidence,    \* minimum_evidence, and minimum_support of a candidate
    MaxAttempts,        \* workflow_jobs.max_attempts
    MaxSyncs,           \* bound on the synchronisation jobs scheduled
    MaxGenerations,     \* bound on the learning jobs scheduled
    MaxVersion,         \* bound on the edits of a rule
    MaxFaults           \* bound on the attempts that fail or die

ASSUME LearningAssumption ==
    /\ MinimumEvidence \in Nat \ {0} /\ MaxAttempts \in Nat \ {0}
    /\ MaxSyncs \in Nat /\ MaxGenerations \in Nat /\ MaxVersion \in Nat \ {0} /\ MaxFaults \in Nat
    /\ Reactions \cap Replies = {}

VARIABLES
    github,     \* each reaction as GitHub shows it
    missed,     \* reactions GitHub has once not shown after they were left (history)
    ledger,     \* review_feedback_events: the latest event of each source
    sync,       \* review_feedback_sync_states and its job
    learn,      \* suggested_rule_learning_states, its job and its run
    rule,       \* learned_rules
    seen,       \* what each moderator has on the screen
    faults      \* failures so far

vars == <<github, missed, ledger, sync, learn, rule, seen, faults>>

Events == Reactions \cup Replies
NoJob == [status |-> "none", attempt |-> 0, pc |-> "idle", got |-> {}]
JobStatus == {"none", "queued", "running", "succeeded", "failed", "dead"}
Unread == [rule |-> "none", version |-> 0]
NoRule == [status |-> "none", version |-> 0, evidence |-> {}, approved |-> {}]

TypeOK ==
    /\ github \in [Reactions -> {"absent", "shown", "hidden", "removed"}]
    /\ ledger \in [Events -> {"none", "observed", "withdrawn"}]
    /\ missed \subseteq Reactions
    /\ \A r \in Replies : ledger[r] # "withdrawn"
    /\ sync.generation \in 0..MaxSyncs /\ sync.job.status \in JobStatus
    /\ sync.job.attempt \in 0..MaxAttempts /\ sync.job.got \subseteq Reactions
    /\ learn.generation \in 0..MaxGenerations /\ learn.job.status \in JobStatus
    /\ learn.job.attempt \in 0..MaxAttempts /\ learn.job.got \subseteq Events
    /\ learn.run \in {"none", "generating", "ready", "stale"}
    /\ learn.fingerprint \subseteq Events /\ learn.last \subseteq Events
    /\ rule \in [Candidates -> [status : {"none", "suggested", "active", "inactive", "rejected"},
                                version : 0..MaxVersion, evidence : SUBSET Events,
                                approved : SUBSET (1..MaxVersion)]]
    /\ faults \in 0..MaxFaults

Init ==
    /\ github = [r \in Reactions |-> "absent"]
    /\ missed = {}
    /\ ledger = [e \in Events |-> "none"]
    /\ sync = [generation |-> 0, job |-> NoJob]
    /\ learn = [generation |-> 0, job |-> NoJob, run |-> "none", fingerprint |-> {}, last |-> {}]
    /\ rule = [c \in Candidates |-> NoRule]
    /\ seen = [m \in Moderators |-> Unread]
    /\ faults = 0

-----------------------------------------------------------------------------
(* Readers.                                                                *)

\* A collaborator reacts, takes the reaction back, or is a collaborator no
\* more, or again: only the reactions of collaborators are kept by
\* fetch_github_review_reactions.
React ==
    /\ \E r \in Reactions :
         \/ github[r] = "absent" /\ github' = [github EXCEPT ![r] = "shown"] /\ UNCHANGED missed
         \/ /\ github[r] = "shown"
            /\ \E to \in {"hidden", "removed"} : github' = [github EXCEPT ![r] = to]
            /\ missed' = missed \cup {r}
         \/ github[r] = "hidden" /\ github' = [github EXCEPT ![r] = "shown"] /\ UNCHANGED missed
    /\ UNCHANGED <<ledger, sync, learn, rule, seen, faults>>

\* record_review_comment_feedback: a delivery of a reply to the thread; the
\* event key makes a second delivery of it a duplicate.
RecordReply(r) ==
    /\ ledger[r] = "none"
    /\ ledger' = [ledger EXCEPT ![r] = "observed"]
    /\ UNCHANGED <<github, missed, sync, learn, rule, seen, faults>>

-----------------------------------------------------------------------------
(* Jobs.  One attempt of a job at a time: see WorkflowQueue.               *)

Active(job) == job.status \in {"queued", "running"}
Queued == [NoJob EXCEPT !.status = "queued"]
Claimed(job) == [job EXCEPT !.status = "running", !.attempt = @ + 1, !.pc = "begin", !.got = {}]
Done(job, status) == [job EXCEPT !.status = status, !.pc = "idle", !.got = {}]

\* An attempt failed or its worker died.
GivenBack(job) == Done(job, IF job.attempt >= MaxAttempts THEN "dead" ELSE "queued")

-----------------------------------------------------------------------------
(* Synchronising reactions: process_feedback_sync_job.                     *)

\* schedule_due_feedback_sync_jobs, with the thread due; a job in flight
\* only puts the next look off.
ScheduleSync ==
    /\ sync.generation < MaxSyncs
    /\ ~Active(sync.job)
    /\ sync' = [generation |-> sync.generation + 1, job |-> Queued]
    /\ UNCHANGED <<github, missed, ledger, learn, rule, seen, faults>>

ClaimSync ==
    /\ sync.job.status = "queued"
    /\ sync' = [sync EXCEPT !.job = Claimed(@)]
    /\ UNCHANGED <<github, missed, ledger, learn, rule, seen, faults>>

\* Faulty variant: the pages after one that cannot be read are left out.
FetchSomeReactions ==
    /\ sync.job.pc = "begin"
    /\ \E some \in SUBSET {r \in Reactions : github[r] = "shown"} :
         sync' = [sync EXCEPT !.job.pc = "reconcile", !.job.got = some]
    /\ UNCHANGED <<github, missed, ledger, learn, rule, seen, faults>>

\* begin_feedback_sync, then fetch_github_review_reactions: every page, or
\* the attempt fails.
FetchReactions ==
    /\ sync.job.pc = "begin"
    /\ sync' = [sync EXCEPT !.job.pc = "reconcile",
                            !.job.got = {r \in Reactions : github[r] = "shown"}]
    /\ UNCHANGED <<github, missed, ledger, learn, rule, seen, faults>>

\* reconcile_review_reactions: a key that exists is left alone, so what was
\* withdrawn is not observed again.
Reconciled(got) ==
    [e \in Events |->
        CASE e \in got /\ ledger[e] = "none" -> "observed"
          [] e \in Reactions \ got /\ ledger[e] = "observed" -> "withdrawn"
          [] OTHER -> ledger[e]]

Reconcile ==
    /\ sync.job.pc = "reconcile"
    /\ ledger' = Reconciled(sync.job.got)
    /\ sync' = [sync EXCEPT !.job.pc = "complete"]
    /\ UNCHANGED <<github, missed, learn, rule, seen, faults>>

CompleteSync ==
    /\ sync.job.pc = "complete"
    /\ sync' = [sync EXCEPT !.job = Done(@, "succeeded")]
    /\ UNCHANGED <<github, missed, ledger, learn, rule, seen, faults>>

\* mark_feedback_sync_failed and fail_workflow_job, or the worker dies.
FailSync ==
    /\ sync.job.status = "running" /\ faults < MaxFaults
    /\ sync' = [sync EXCEPT !.job = GivenBack(@)]
    /\ faults' = faults + 1
    /\ UNCHANGED <<github, missed, ledger, learn, rule, seen>>

-----------------------------------------------------------------------------
(* Learning: queue_rule_learning_job, and who gets the job.                *)

\* load_rule_learning_evidence: the events in effect.
Evidence == {e \in Events : ledger[e] = "observed"}
Eligible == Cardinality(Evidence) >= MinimumEvidence

\* schedule_due_rule_learning_jobs, or `diffuse learning learn`: enough
\* evidence, other than what was learned from last, and no job in flight.
ScheduleLearning ==
    /\ learn.generation < MaxGenerations
    /\ Eligible /\ Evidence # learn.last
    /\ ~Active(learn.job)
    /\ learn' = [learn EXCEPT !.generation = @ + 1, !.job = Queued, !.run = "none",
                              !.fingerprint = Evidence]
    /\ UNCHANGED <<github, missed, ledger, sync, rule, seen, faults>>

\* The worker claims the job and its handler raises NonRetryableError, so
\* run_once fails the job for good; the evidence is still to be learned from,
\* and the next look schedules another job for it.
ClaimLearning ==
    /\ learn.job.status = "queued"
    /\ learn' = [learn EXCEPT !.job = [Claimed(@) EXCEPT !.pc = "refuse"]]
    /\ UNCHANGED <<github, missed, ledger, sync, rule, seen, faults>>

RefuseLearning ==
    /\ learn.job.pc = "refuse"
    /\ learn' = [learn EXCEPT !.job = Done(@, "failed")]
    /\ UNCHANGED <<github, missed, ledger, sync, rule, seen, faults>>

\* The job is claimed by a caller of the learning store.
TakeLearning ==
    /\ learn.job.status = "queued"
    /\ learn' = [learn EXCEPT !.job = Claimed(@)]
    /\ UNCHANGED <<github, missed, ledger, sync, rule, seen, faults>>

\* begin_rule_learning: a job for evidence that has changed since is stale.
BeginLearning ==
    /\ learn.job.pc = "begin"
    /\ learn' = IF Evidence # learn.fingerprint
                THEN [learn EXCEPT !.run = "stale", !.job.pc = "complete"]
                ELSE IF learn.run = "ready" THEN [learn EXCEPT !.job.pc = "complete"]
                ELSE [learn EXCEPT !.run = "generating", !.job.pc = "persist",
                                   !.job.got = Evidence]
    /\ UNCHANGED <<github, missed, ledger, sync, rule, seen, faults>>

\* Faulty variant: a rule that was turned down is not matched.
MatchingUnlessRejected(c) == rule[c].status \notin {"none", "rejected"}

\* _matching_rule_id: a rule of any status; an edit keeps its key.
Matching(c) == rule[c].status # "none"

\* persist_rule_suggestions: a candidate cites evidence that was read for the
\* run, enough of it; a known rule gains the evidence and is otherwise left
\* alone.
Suggest(c, cited) ==
    IF Matching(c) THEN [rule[c] EXCEPT !.evidence = @ \cup cited]
    ELSE [status |-> "suggested", version |-> 1, evidence |-> cited, approved |-> {}]

PersistSuggestions ==
    /\ learn.job.pc = "persist"
    /\ learn.run = "generating" /\ learn.fingerprint = learn.job.got
    /\ \E batch \in SUBSET Candidates, cited \in SUBSET learn.job.got :
         /\ batch = {} <=> cited = {}
         /\ rule' = [c \in Candidates |->
                       IF c \in batch /\ Cardinality(cited) >= MinimumEvidence
                       THEN Suggest(c, cited) ELSE rule[c]]
    /\ learn' = [learn EXCEPT !.run = "ready", !.last = learn.job.got,
                              !.job.pc = "complete"]
    /\ UNCHANGED <<github, missed, ledger, sync, seen, faults>>

CompleteLearning ==
    /\ learn.job.pc = "complete"
    /\ learn' = [learn EXCEPT !.job = Done(@, "succeeded")]
    /\ UNCHANGED <<github, missed, ledger, sync, rule, seen, faults>>

\* Whoever has the job dies or gives up, and its lease runs out; the run stays
\* as it is.
FailLearning ==
    /\ learn.job.status = "running" /\ faults < MaxFaults
    /\ learn' = [learn EXCEPT !.job = GivenBack(@)]
    /\ faults' = faults + 1
    /\ UNCHANGED <<github, missed, ledger, sync, rule, seen>>

-----------------------------------------------------------------------------
(* Moderation: `diffuse learning list`, `show`, and moderate_learned_rule. *)

Look(m) ==
    /\ \E c \in Candidates :
         /\ rule[c].status # "none"
         /\ seen[m] # [rule |-> c, version |-> rule[c].version]
         /\ seen' = [seen EXCEPT ![m] = [rule |-> c, version |-> rule[c].version]]
    /\ UNCHANGED <<github, missed, ledger, sync, learn, rule, faults>>

\* Faulty variant: the command is carried out on whatever the rule has become.
ModeratesAny(m) == seen[m].rule # "none"

\* --expected-version is the version the operator saw.
Moderates(m) == seen[m].rule # "none" /\ rule[seen[m].rule].version = seen[m].version

Moderated(r, action, version) ==
    CASE action = "edit" /\ r.status \in {"suggested", "inactive"} /\ r.version < MaxVersion
             -> [r EXCEPT !.version = @ + 1]
      [] action = "approve" /\ r.status = "suggested"
             -> [r EXCEPT !.status = "active", !.approved = @ \cup {version}]
      [] action = "reject" /\ r.status = "suggested" -> [r EXCEPT !.status = "rejected"]
      [] action = "deactivate" /\ r.status = "active" -> [r EXCEPT !.status = "inactive"]
      [] action = "reactivate" /\ r.status = "inactive"
             -> [r EXCEPT !.status = "active", !.approved = @ \cup {version}]
      [] OTHER -> r

Moderate(m) ==
    /\ Moderates(m)
    /\ \E action \in {"edit", "approve", "reject", "deactivate", "reactivate"} :
         LET c == seen[m].rule
         IN  /\ Moderated(rule[c], action, seen[m].version) # rule[c]
             /\ rule' = [rule EXCEPT ![c] = Moderated(@, action, seen[m].version)]
    /\ UNCHANGED <<github, missed, ledger, sync, learn, seen, faults>>

Next ==
    \/ React \/ (\E r \in Replies : RecordReply(r))
    \/ ScheduleSync \/ ClaimSync \/ FetchReactions \/ Reconcile \/ CompleteSync \/ FailSync
    \/ ScheduleLearning \/ ClaimLearning \/ RefuseLearning
    \/ TakeLearning \/ BeginLearning \/ PersistSuggestions \/ CompleteLearning \/ FailLearning
    \/ \E m \in Moderators : Look(m) \/ Moderate(m)

Spec == Init /\ [][Next]_vars

-----------------------------------------------------------------------------
(* Properties.                                                             *)

\* A reaction is written off only if GitHub has, at some time since it was
\* left, not shown it as a collaborator's: no answer of GitHub's is used for
\* a reaction that came after it (reconcile_review_reactions).
WithdrawnOnlyIfGone == \A r \in Reactions : ledger[r] = "withdrawn" => r \in missed

\* A rule that reviews are told to follow reads as an operator saw it when
\* approving or reactivating it, whoever edited it in the meantime
\* (moderate_learned_rule, --expected-version).
ActiveAsApproved == \A c \in Candidates : rule[c].status = "active" => rule[c].version \in rule[c].approved

\* A rule an operator rejected is never put forward or in force again, however
\* often an agent suggests it from new evidence (persist_rule_suggestions).
RejectedStays == [][\A c \in Candidates : rule[c].status = "rejected" => rule'[c].status = "rejected"]_vars

\* What reviews are told to follow rests on what readers said and what an
\* operator approved.
LearnedAsApproved == TypeOK /\ WithdrawnOnlyIfGone /\ ActiveAsApproved
=============================================================================
