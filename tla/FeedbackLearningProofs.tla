----------------------- MODULE FeedbackLearningProofs -----------------------
(***************************************************************************)
(* Machine-checked proofs about FeedbackLearning, for every value of its   *)
(* constants that satisfies LearningAssumption.                            *)
(***************************************************************************)
EXTENDS FeedbackLearning, TLAPS

-----------------------------------------------------------------------------
(* The inductive invariant.                                                *)

JobRow(got) ==
    [status : JobStatus, attempt : 0..MaxAttempts,
     pc : {"idle", "begin", "refuse", "reconcile", "persist", "complete"}, got : SUBSET got]

RuleRow ==
    [status : {"none", "suggested", "active", "inactive", "rejected"},
     version : 0..MaxVersion, evidence : SUBSET Events, approved : SUBSET (1..MaxVersion)]

\* The types of TypeOK, with the shape of every record.
Typed ==
    /\ github \in [Reactions -> {"absent", "shown", "hidden", "removed"}]
    /\ missed \subseteq Reactions
    /\ ledger \in [Events -> {"none", "observed", "withdrawn"}]
    /\ sync \in [generation : 0..MaxSyncs, job : JobRow(Reactions)]
    /\ learn \in [generation : 0..MaxGenerations, job : JobRow(Events),
                  run : {"none", "generating", "ready", "stale"},
                  fingerprint : SUBSET Events, last : SUBSET Events]
    /\ rule \in [Candidates -> RuleRow]
    /\ seen \in [Moderators -> [rule : Candidates \cup {"none"}, version : 0..MaxVersion]]
    /\ faults \in 0..MaxFaults

\* A queued job has an attempt left: without it a claim would count too far.
AttemptsLeft ==
    /\ sync.job.status = "queued" => sync.job.attempt < MaxAttempts
    /\ learn.job.status = "queued" => learn.job.attempt < MaxAttempts

\* Only a reaction that was left on GitHub is on record or in an answer.
RecordedWasLeft ==
    \A r \in Reactions : ledger[r] # "none" \/ r \in sync.job.got => github[r] # "absent"

\* What GitHub stopped showing is remembered as missed.
GoneIsMissed == \A r \in Reactions : github[r] \in {"hidden", "removed"} => r \in missed

\* An answer that is about to be applied lacks, of the reactions on record,
\* only missed ones: nothing is recorded between the answer and its use.
AnswerIsFair ==
    sync.job.pc = "reconcile" =>
        \A r \in Reactions \ sync.job.got : ledger[r] = "observed" => r \in missed

\* A rule that exists has a version.
RulesHaveVersions == \A c \in Candidates : rule[c].status # "none" => rule[c].version >= 1

RepliesStand == \A r \in Replies : ledger[r] # "withdrawn"

IInv ==
    /\ Typed /\ AttemptsLeft /\ RecordedWasLeft /\ GoneIsMissed /\ AnswerIsFair
    /\ RulesHaveVersions /\ RepliesStand /\ WithdrawnOnlyIfGone /\ ActiveAsApproved

\* The inductive invariant implies what the run checks.
LEMMA IInvImplies == IInv => LearnedAsApproved
BY DEF IInv, Typed, JobRow, RuleRow, RepliesStand, LearnedAsApproved, TypeOK

LEMMA InitIInv == Init => IInv
BY LearningAssumption
DEF Init, IInv, Typed, JobRow, RuleRow, AttemptsLeft, RecordedWasLeft, GoneIsMissed, AnswerIsFair,
    RulesHaveVersions, RepliesStand, WithdrawnOnlyIfGone, ActiveAsApproved, NoJob, JobStatus,
    NoRule, Unread, Events

-----------------------------------------------------------------------------
(* Jobs.                                                                   *)

\* What becomes of the row of a job.
LEMMA JobMoves ==
    ASSUME NEW S, NEW j \in JobRow(S)
    PROVE  /\ Queued \in JobRow(S) /\ Queued.attempt = 0 /\ Queued.pc = "idle" /\ Queued.got = {}
           /\ j.attempt < MaxAttempts =>
                /\ Claimed(j) \in JobRow(S) /\ Claimed(j).status = "running"
                /\ Claimed(j).pc = "begin" /\ Claimed(j).got = {}
           /\ \A status \in JobStatus :
                /\ Done(j, status) \in JobRow(S) /\ Done(j, status).status = status
                /\ Done(j, status).pc = "idle" /\ Done(j, status).got = {}
                /\ Done(j, status).attempt = j.attempt
           /\ GivenBack(j) \in JobRow(S) /\ GivenBack(j).pc = "idle" /\ GivenBack(j).got = {}
           /\ GivenBack(j).status = "queued" => GivenBack(j).attempt < MaxAttempts
<1>1. Queued \in JobRow(S) /\ Queued.attempt = 0 /\ Queued.pc = "idle" /\ Queued.got = {}
  BY LearningAssumption DEF JobRow, JobStatus, Queued, NoJob
<1>2. j.attempt < MaxAttempts =>
        /\ Claimed(j) \in JobRow(S) /\ Claimed(j).status = "running"
        /\ Claimed(j).pc = "begin" /\ Claimed(j).got = {}
  <2>1. SUFFICES ASSUME j.attempt < MaxAttempts
                 PROVE  /\ Claimed(j) \in JobRow(S) /\ Claimed(j).status = "running"
                        /\ Claimed(j).pc = "begin" /\ Claimed(j).got = {}
    OBVIOUS
  <2> DEFINE n == j.attempt + 1
  <2>2. n \in 0..MaxAttempts
    BY <2>1, LearningAssumption DEF JobRow
  <2>3. Claimed(j) = [j EXCEPT !.status = "running", !.attempt = n, !.pc = "begin", !.got = {}]
    BY DEF Claimed
  <2> HIDE DEF n
  <2>4. QED
    BY <2>2, <2>3 DEF JobRow, JobStatus
<1>3. ASSUME NEW status \in JobStatus
      PROVE  /\ Done(j, status) \in JobRow(S) /\ Done(j, status).status = status
             /\ Done(j, status).pc = "idle" /\ Done(j, status).got = {}
             /\ Done(j, status).attempt = j.attempt
  BY DEF JobRow, Done
<1>4. (IF j.attempt >= MaxAttempts THEN "dead" ELSE "queued") \in JobStatus
  BY DEF JobStatus
<1>5. j.attempt \in 0..MaxAttempts
  BY DEF JobRow
<1>6. /\ GivenBack(j) \in JobRow(S) /\ GivenBack(j).pc = "idle" /\ GivenBack(j).got = {}
      /\ GivenBack(j).status = "queued" => GivenBack(j).attempt < MaxAttempts
  BY <1>3, <1>4, <1>5, LearningAssumption DEF GivenBack
<1>7. QED
  BY <1>1, <1>2, <1>3, <1>6

-----------------------------------------------------------------------------
(* Every step keeps the invariant.                                         *)

\* Readers leave and withdraw reactions and write replies.
LEMMA ReadersKeep ==
    ASSUME IInv, React \/ \E r \in Replies : RecordReply(r)
    PROVE  IInv'
<1> USE DEF IInv, Typed, AttemptsLeft, RecordedWasLeft, GoneIsMissed, AnswerIsFair,
            RulesHaveVersions, RepliesStand, WithdrawnOnlyIfGone, ActiveAsApproved
<1>1. CASE React
  BY <1>1 DEF React
<1>2. CASE \E r \in Replies : RecordReply(r)
  BY <1>2, LearningAssumption DEF RecordReply, Events
<1>3. QED
  BY <1>1, <1>2

\* Synchronisation.
LEMMA SyncKeeps ==
    ASSUME IInv,
           ScheduleSync \/ ClaimSync \/ FetchReactions \/ Reconcile \/ CompleteSync \/ FailSync
    PROVE  IInv'
<1> DEFINE job == sync.job
<1>0. job \in JobRow(Reactions) /\ sync.generation \in 0..MaxSyncs
  BY DEF IInv, Typed
<1>1. CASE /\ UNCHANGED <<github, missed, ledger, learn, rule, seen>>
           /\ faults' \in 0..MaxFaults
           /\ sync' \in [generation : 0..MaxSyncs, job : JobRow(Reactions)]
           /\ sync'.job.status = "queued" => sync'.job.attempt < MaxAttempts
           /\ sync'.job.pc # "reconcile"
           /\ sync'.job.got \subseteq job.got
  BY <1>1 DEF IInv, Typed, AttemptsLeft, RecordedWasLeft, GoneIsMissed, AnswerIsFair,
              RulesHaveVersions, RepliesStand, WithdrawnOnlyIfGone, ActiveAsApproved
<1>2. CASE ScheduleSync
  <2>1. /\ Queued \in JobRow(Reactions) /\ Queued.attempt = 0
        /\ Queued.pc = "idle" /\ Queued.got = {}
    BY <1>0, JobMoves
  <2>2. sync' = [generation |-> sync.generation + 1, job |-> Queued]
    BY <1>2 DEF ScheduleSync
  <2>3. sync.generation + 1 \in 0..MaxSyncs
    BY <1>0, <1>2, LearningAssumption DEF ScheduleSync
  <2>4. faults' \in 0..MaxFaults
    BY <1>2 DEF ScheduleSync, IInv, Typed
  <2>5. QED
    BY <1>1, <1>2, <2>1, <2>2, <2>3, <2>4, LearningAssumption DEF ScheduleSync
<1>3. CASE ClaimSync
  <2>1. /\ Claimed(job) \in JobRow(Reactions) /\ Claimed(job).status = "running"
        /\ Claimed(job).pc = "begin" /\ Claimed(job).got = {}
    BY <1>0, <1>3, JobMoves DEF ClaimSync, IInv, AttemptsLeft
  <2>2. sync' = [sync EXCEPT !.job = Claimed(job)] /\ faults' \in 0..MaxFaults
    BY <1>3 DEF ClaimSync, IInv, Typed
  <2>3. QED
    BY <1>0, <1>1, <1>3, <2>1, <2>2 DEF ClaimSync, IInv, Typed
<1>4. CASE FetchReactions
  <2> DEFINE shown == {r \in Reactions : github[r] = "shown"}
  <2>1. sync' = [sync EXCEPT !.job = [job EXCEPT !.pc = "reconcile", !.got = shown]]
    BY <1>4 DEF FetchReactions, IInv, Typed, JobRow
  <2>2. [job EXCEPT !.pc = "reconcile", !.got = shown] \in JobRow(Reactions)
    BY <1>0 DEF JobRow
  <2>3. /\ sync' \in [generation : 0..MaxSyncs, job : JobRow(Reactions)]
        /\ sync'.job.got = shown /\ sync'.job.status = job.status
        /\ sync'.job.attempt = job.attempt
    BY <1>0, <2>1, <2>2 DEF IInv, Typed, JobRow
  <2>4. \A r \in Reactions \ shown : ledger[r] = "observed" => r \in missed
    BY DEF IInv, Typed, RecordedWasLeft, GoneIsMissed
  <2>5. QED
    BY <1>4, <2>3, <2>4
    DEF FetchReactions, IInv, Typed, AttemptsLeft, RecordedWasLeft, GoneIsMissed,
        AnswerIsFair, RulesHaveVersions, RepliesStand, WithdrawnOnlyIfGone, ActiveAsApproved
<1>5. CASE Reconcile
  <2>1. sync' = [sync EXCEPT !.job = [job EXCEPT !.pc = "complete"]]
    BY <1>5 DEF Reconcile, IInv, Typed, JobRow
  <2>2. [job EXCEPT !.pc = "complete"] \in JobRow(Reactions)
    BY <1>0 DEF JobRow
  <2>3. /\ sync' \in [generation : 0..MaxSyncs, job : JobRow(Reactions)]
        /\ sync'.job.got = job.got /\ sync'.job.status = job.status /\ sync'.job.pc = "complete"
        /\ sync'.job.attempt = job.attempt
    BY <1>0, <2>1, <2>2 DEF IInv, Typed, JobRow
  <2>4. ledger' \in [Events -> {"none", "observed", "withdrawn"}]
    BY <1>5 DEF Reconcile, Reconciled, IInv, Typed
  <2>5. ASSUME NEW r \in Reactions
        PROVE  /\ ledger'[r] # "none" => github[r] # "absent"
               /\ ledger'[r] = "withdrawn" => r \in missed
    BY <1>5 DEF Reconcile, Reconciled, IInv, Typed, Events, RecordedWasLeft, AnswerIsFair,
                WithdrawnOnlyIfGone
  <2>6. \A r \in Replies : ledger'[r] # "withdrawn"
    BY <1>5, LearningAssumption DEF Reconcile, Reconciled, IInv, Typed, Events, RepliesStand
  <2>7. QED
    BY <1>5, <2>3, <2>4, <2>5, <2>6
    DEF Reconcile, IInv, Typed, AttemptsLeft, RecordedWasLeft, GoneIsMissed,
        AnswerIsFair, RulesHaveVersions, RepliesStand, WithdrawnOnlyIfGone, ActiveAsApproved
<1>6. CASE CompleteSync
  <2>1. /\ Done(job, "succeeded") \in JobRow(Reactions) /\ Done(job, "succeeded").status = "succeeded"
        /\ Done(job, "succeeded").pc = "idle" /\ Done(job, "succeeded").got = {}
    BY <1>0, JobMoves DEF JobStatus
  <2>2. sync' = [sync EXCEPT !.job = Done(job, "succeeded")] /\ faults' \in 0..MaxFaults
    BY <1>6 DEF CompleteSync, IInv, Typed
  <2>3. QED
    BY <1>0, <1>1, <1>6, <2>1, <2>2 DEF CompleteSync, IInv, Typed
<1>7. CASE FailSync
  <2>1. /\ GivenBack(job) \in JobRow(Reactions) /\ GivenBack(job).pc = "idle"
        /\ GivenBack(job).got = {}
        /\ GivenBack(job).status = "queued" => GivenBack(job).attempt < MaxAttempts
    BY <1>0, JobMoves
  <2>2. sync' = [sync EXCEPT !.job = GivenBack(job)] /\ faults' \in 0..MaxFaults
    BY <1>7, LearningAssumption DEF FailSync, IInv, Typed
  <2>3. QED
    BY <1>0, <1>1, <1>7, <2>1, <2>2 DEF FailSync, IInv, Typed
<1>8. QED
  BY <1>2, <1>3, <1>4, <1>5, <1>6, <1>7

\* A learning step that does not write rules leaves a well-formed row behind.
LEMMA LearningRow ==
    ASSUME IInv, UNCHANGED <<github, missed, ledger, sync, rule, seen>>, faults' \in 0..MaxFaults,
           learn' \in [generation : 0..MaxGenerations, job : JobRow(Events),
                       run : {"none", "generating", "ready", "stale"},
                       fingerprint : SUBSET Events, last : SUBSET Events],
           learn'.job.status = "queued" => learn'.job.attempt < MaxAttempts
    PROVE  IInv'
BY DEF IInv, Typed, AttemptsLeft, RecordedWasLeft, GoneIsMissed, AnswerIsFair,
       RulesHaveVersions, RepliesStand, WithdrawnOnlyIfGone, ActiveAsApproved

LEMMA EvidenceIsEvents == Evidence \subseteq Events
BY DEF Evidence

\* Learning.
LEMMA LearningKeeps ==
    ASSUME IInv,
           \/ ScheduleLearning \/ ClaimLearning \/ RefuseLearning \/ TakeLearning
           \/ BeginLearning \/ CompleteLearning \/ FailLearning
    PROVE  IInv'
<1> DEFINE job == learn.job
<1>0. /\ job \in JobRow(Events) /\ learn.generation \in 0..MaxGenerations
      /\ learn \in [generation : 0..MaxGenerations, job : JobRow(Events),
                    run : {"none", "generating", "ready", "stale"},
                    fingerprint : SUBSET Events, last : SUBSET Events]
      /\ faults \in 0..MaxFaults
  BY DEF IInv, Typed
<1>1. CASE ScheduleLearning
  <2>1. Queued \in JobRow(Events) /\ Queued.attempt = 0
    BY <1>0, JobMoves
  <2>2. learn' = [learn EXCEPT !.generation = learn.generation + 1, !.job = Queued,
                               !.run = "none", !.fingerprint = Evidence]
    BY <1>1 DEF ScheduleLearning
  <2>3. learn.generation + 1 \in 0..MaxGenerations
    BY <1>0, <1>1, LearningAssumption DEF ScheduleLearning
  <2>4. /\ learn' \in [generation : 0..MaxGenerations, job : JobRow(Events),
                       run : {"none", "generating", "ready", "stale"},
                       fingerprint : SUBSET Events, last : SUBSET Events]
        /\ learn'.job = Queued
    BY <1>0, <2>1, <2>2, <2>3, EvidenceIsEvents
  <2>5. UNCHANGED <<github, missed, ledger, sync, rule, seen, faults>> /\ 0 < MaxAttempts
    BY <1>1, LearningAssumption DEF ScheduleLearning
  <2>6. QED
    BY <1>0, <2>1, <2>4, <2>5, LearningRow
<1>2. CASE ClaimLearning \/ TakeLearning
  <2>1. job.attempt < MaxAttempts
    BY <1>2 DEF ClaimLearning, TakeLearning, IInv, AttemptsLeft
  <2>2. Claimed(job) \in JobRow(Events) /\ Claimed(job).status = "running"
    BY <1>0, <2>1, JobMoves
  <2>3. /\ [Claimed(job) EXCEPT !.pc = "refuse"] \in JobRow(Events)
        /\ [Claimed(job) EXCEPT !.pc = "refuse"].status = "running"
    BY <2>2 DEF JobRow
  <2>4. PICK j \in {Claimed(job), [Claimed(job) EXCEPT !.pc = "refuse"]} :
          learn' = [learn EXCEPT !.job = j]
    BY <1>2 DEF ClaimLearning, TakeLearning
  <2>5. j \in JobRow(Events) /\ j.status # "queued"
    BY <2>2, <2>3
  <2>6. QED
    BY <1>0, <1>2, <2>4, <2>5, LearningRow DEF ClaimLearning, TakeLearning
<1>3. CASE BeginLearning
  <2>1. PICK pc \in {"complete", "persist"}, got \in {job.got, Evidence},
             run \in {"stale", learn.run, "generating"} :
          learn' = [learn EXCEPT !.run = run, !.job = [job EXCEPT !.pc = pc, !.got = got]]
    <3>1. \/ learn' = [learn EXCEPT !.run = "stale", !.job.pc = "complete"]
          \/ learn' = [learn EXCEPT !.job.pc = "complete"]
          \/ learn' = [learn EXCEPT !.run = "generating", !.job.pc = "persist", !.job.got = Evidence]
      BY <1>3 DEF BeginLearning
    <3>2. /\ [learn EXCEPT !.run = "stale", !.job.pc = "complete"] =
               [learn EXCEPT !.run = "stale", !.job = [job EXCEPT !.pc = "complete", !.got = job.got]]
          /\ [learn EXCEPT !.job.pc = "complete"] =
               [learn EXCEPT !.run = learn.run, !.job = [job EXCEPT !.pc = "complete", !.got = job.got]]
          /\ [learn EXCEPT !.run = "generating", !.job.pc = "persist", !.job.got = Evidence] =
               [learn EXCEPT !.run = "generating", !.job = [job EXCEPT !.pc = "persist", !.got = Evidence]]
      BY <1>0 DEF JobRow
    <3>3. QED
      BY <3>1, <3>2
  <2>2. [job EXCEPT !.pc = pc, !.got = got] \in JobRow(Events)
    BY <1>0, EvidenceIsEvents DEF JobRow
  <2>3. /\ [job EXCEPT !.pc = pc, !.got = got].status = job.status
        /\ [job EXCEPT !.pc = pc, !.got = got].attempt = job.attempt
    BY <1>0 DEF JobRow
  <2>4. QED
    BY <1>0, <1>3, <2>1, <2>2, <2>3, LearningRow DEF BeginLearning, IInv, AttemptsLeft
<1>4. CASE CompleteLearning \/ RefuseLearning
  <2>1. PICK status \in {"succeeded", "failed"} : learn' = [learn EXCEPT !.job = Done(job, status)]
    BY <1>4 DEF CompleteLearning, RefuseLearning
  <2>2. Done(job, status) \in JobRow(Events) /\ Done(job, status).status = status
    BY <1>0, JobMoves DEF JobStatus
  <2>3. QED
    BY <1>0, <1>4, <2>1, <2>2, LearningRow DEF CompleteLearning, RefuseLearning
<1>5. CASE FailLearning
  <2>1. /\ GivenBack(job) \in JobRow(Events)
        /\ GivenBack(job).status = "queued" => GivenBack(job).attempt < MaxAttempts
    BY <1>0, JobMoves
  <2>2. learn' = [learn EXCEPT !.job = GivenBack(job)]
    BY <1>5 DEF FailLearning
  <2>3. faults' \in 0..MaxFaults
    <3>1. faults \in 0..MaxFaults /\ faults < MaxFaults /\ faults' = faults + 1
      BY <1>0, <1>5 DEF FailLearning
    <3>2. QED
      BY <3>1, LearningAssumption
  <2>4. /\ learn' \in [generation : 0..MaxGenerations, job : JobRow(Events),
                       run : {"none", "generating", "ready", "stale"},
                       fingerprint : SUBSET Events, last : SUBSET Events]
        /\ learn'.job = GivenBack(job)
    BY <1>0, <2>1, <2>2
  <2>5. UNCHANGED <<github, missed, ledger, sync, rule, seen>>
    BY <1>5 DEF FailLearning
  <2>6. QED
    BY <2>1, <2>3, <2>4, <2>5, LearningRow
<1>6. QED
  BY <1>1, <1>2, <1>3, <1>4, <1>5

\* What a suggestion makes of a rule.
LEMMA SuggestRow ==
    ASSUME IInv, NEW c \in Candidates, NEW cited \in SUBSET Events
    PROVE  /\ Suggest(c, cited) \in RuleRow
           /\ Suggest(c, cited).status # "none" /\ Suggest(c, cited).version >= 1
           /\ Suggest(c, cited).status = "active" =>
                Suggest(c, cited).version \in Suggest(c, cited).approved
           /\ rule[c].status = "rejected" => Suggest(c, cited).status = "rejected"
<1>1. rule[c] \in RuleRow
  BY DEF IInv, Typed
<1>2. CASE Matching(c)
  <2>1. Suggest(c, cited) = [rule[c] EXCEPT !.evidence = rule[c].evidence \cup cited]
    BY <1>2 DEF Suggest
  <2>2. QED
    BY <1>1, <1>2, <2>1 DEF Matching, RuleRow, IInv, RulesHaveVersions, ActiveAsApproved
<1>3. CASE ~Matching(c)
  BY <1>1, <1>3, LearningAssumption DEF Suggest, Matching, RuleRow
<1>4. QED
  BY <1>2, <1>3

\* The report of a learning job.
LEMMA PersistKeeps ==
    ASSUME IInv, PersistSuggestions
    PROVE  IInv'
<1>1. PICK batch \in SUBSET Candidates, cited \in SUBSET learn.job.got :
        rule' = [c \in Candidates |->
                   IF c \in batch /\ Cardinality(cited) >= MinimumEvidence
                   THEN Suggest(c, cited) ELSE rule[c]]
  BY DEF PersistSuggestions
<1>2. cited \in SUBSET Events
  BY DEF IInv, Typed, JobRow
<1>3. ASSUME NEW c \in Candidates
      PROVE  /\ rule'[c] \in RuleRow
             /\ rule'[c].status # "none" => rule'[c].version >= 1
             /\ rule'[c].status = "active" => rule'[c].version \in rule'[c].approved
  BY <1>1, <1>2, SuggestRow DEF IInv, Typed, RulesHaveVersions, ActiveAsApproved
<1>4. rule' \in [Candidates -> RuleRow]
  BY <1>1, <1>3
<1>0. learn.job.got \in SUBSET Events
  BY DEF IInv, Typed, JobRow
<1>5. learn' = [learn EXCEPT !.run = "ready", !.last = learn.job.got,
                             !.job = [learn.job EXCEPT !.pc = "complete"]]
  BY DEF PersistSuggestions, IInv, Typed, JobRow
<1>6. /\ [learn.job EXCEPT !.pc = "complete"] \in JobRow(Events)
      /\ [learn.job EXCEPT !.pc = "complete"].status = learn.job.status
      /\ [learn.job EXCEPT !.pc = "complete"].attempt = learn.job.attempt
  BY DEF IInv, Typed, JobRow
<1>7. /\ learn' \in [generation : 0..MaxGenerations, job : JobRow(Events),
                     run : {"none", "generating", "ready", "stale"},
                     fingerprint : SUBSET Events, last : SUBSET Events]
      /\ learn'.job.status = "queued" => learn'.job.attempt < MaxAttempts
  BY <1>0, <1>5, <1>6 DEF IInv, Typed, AttemptsLeft
<1>8. QED
  BY <1>3, <1>4, <1>7
  DEF PersistSuggestions, IInv, Typed, AttemptsLeft, RecordedWasLeft, GoneIsMissed, AnswerIsFair,
      RulesHaveVersions, RepliesStand, WithdrawnOnlyIfGone, ActiveAsApproved

\* What an operator makes of a rule whose version is the one on the screen.
LEMMA ModeratedRow ==
    ASSUME IInv, NEW c \in Candidates, NEW action, rule[c].status # "none"
    PROVE  LET r == Moderated(rule[c], action, rule[c].version)
           IN  /\ r \in RuleRow /\ r.status # "none" /\ r.version >= 1
               /\ r.status = "active" => r.version \in r.approved
               /\ rule[c].status = "rejected" => r.status = "rejected"
<1> DEFINE r == rule[c]
           n == r.version + 1
           a == r.approved \cup {r.version}
           m == Moderated(r, action, r.version)
<1>1. r \in RuleRow /\ r.version \in 1..MaxVersion
  BY LearningAssumption DEF IInv, Typed, RuleRow, RulesHaveVersions
<1>2. a \in SUBSET (1..MaxVersion)
  BY <1>1 DEF RuleRow
<1>3. r.status = "active" => r.version \in r.approved
  BY DEF IInv, ActiveAsApproved
<1>4. \/ m = r
      \/ r.status \in {"suggested", "inactive"} /\ r.version < MaxVersion
         /\ m = [r EXCEPT !.version = n]
      \/ r.status \in {"suggested", "inactive"} /\ m = [r EXCEPT !.status = "active", !.approved = a]
      \/ r.status = "suggested" /\ m = [r EXCEPT !.status = "rejected"]
      \/ r.status = "active" /\ m = [r EXCEPT !.status = "inactive"]
  BY DEF Moderated
<1>5. r.version < MaxVersion => n \in 1..MaxVersion
  BY <1>1, LearningAssumption
<1> HIDE DEF r, n, a, m
<1>6. /\ m \in RuleRow /\ m.status # "none" /\ m.version >= 1
      /\ m.status = "active" => m.version \in m.approved
      /\ r.status = "rejected" => m.status = "rejected"
  <2>0. r.status # "none"
    BY DEF r
  <2>1. CASE m = r
    BY <1>1, <1>3, <2>0, <2>1
  <2>2. CASE /\ r.status \in {"suggested", "inactive"} /\ r.version < MaxVersion
             /\ m = [r EXCEPT !.version = n]
    <3>1. n \in 1..MaxVersion /\ n \in 0..MaxVersion /\ n >= 1
      BY <1>5, <2>2, LearningAssumption
    <3>2. m \in RuleRow /\ m.status = r.status /\ m.version = n
      BY <1>1, <2>2, <3>1 DEF RuleRow
    <3>3. QED
      BY <2>2, <3>1, <3>2
  <2>3. CASE r.status \in {"suggested", "inactive"} /\ m = [r EXCEPT !.status = "active", !.approved = a]
    <3>1. r.version \in a
      BY DEF a
    <3>2. /\ m \in RuleRow /\ m.status = "active" /\ m.version = r.version
          /\ m.approved = a
      BY <1>1, <1>2, <2>3 DEF RuleRow
    <3>3. r.version >= 1
      BY <1>1
    <3>4. QED
      BY <2>3, <3>1, <3>2, <3>3
  <2>4. CASE r.status = "suggested" /\ m = [r EXCEPT !.status = "rejected"]
    BY <1>1, <2>4 DEF RuleRow
  <2>5. CASE r.status = "active" /\ m = [r EXCEPT !.status = "inactive"]
    BY <1>1, <2>5 DEF RuleRow
  <2>6. QED
    BY <1>4, <2>1, <2>2, <2>3, <2>4, <2>5
<1>7. QED
  BY <1>6 DEF r, m

\* Operators.
LEMMA ModerationKeeps ==
    ASSUME IInv, NEW m \in Moderators, Look(m) \/ Moderate(m)
    PROVE  IInv'
<1>1. CASE Look(m)
  <2>1. seen' \in [Moderators -> [rule : Candidates \cup {"none"}, version : 0..MaxVersion]]
    BY <1>1 DEF Look, IInv, Typed, RuleRow
  <2>2. QED
    BY <1>1, <2>1
    DEF Look, IInv, Typed, AttemptsLeft, RecordedWasLeft, GoneIsMissed, AnswerIsFair,
        RulesHaveVersions, RepliesStand, WithdrawnOnlyIfGone, ActiveAsApproved
<1>2. CASE Moderate(m)
  <2> DEFINE c == seen[m].rule
  <2>1. c \in Candidates /\ seen[m].version = rule[c].version
    BY <1>2 DEF Moderate, Moderates, IInv, Typed
  <2>2. PICK action : /\ Moderated(rule[c], action, rule[c].version) # rule[c]
                      /\ rule' = [rule EXCEPT ![c] = Moderated(rule[c], action, rule[c].version)]
    BY <1>2, <2>1 DEF Moderate
  <2>3. rule[c].status # "none"
    BY <2>2 DEF Moderated
  <2>4. /\ rule' \in [Candidates -> RuleRow]
        /\ \A d \in Candidates :
             /\ rule'[d].status # "none" => rule'[d].version >= 1
             /\ rule'[d].status = "active" => rule'[d].version \in rule'[d].approved
    BY <2>1, <2>2, <2>3, ModeratedRow DEF IInv, Typed, RulesHaveVersions, ActiveAsApproved
  <2>5. QED
    BY <1>2, <2>4
    DEF Moderate, IInv, Typed, AttemptsLeft, RecordedWasLeft, GoneIsMissed, AnswerIsFair,
        RulesHaveVersions, RepliesStand, WithdrawnOnlyIfGone, ActiveAsApproved
<1>3. QED
  BY <1>1, <1>2

LEMMA NextKeeps == IInv /\ [Next]_vars => IInv'
<1> SUFFICES ASSUME IInv, [Next]_vars PROVE IInv'
  OBVIOUS
<1>1. CASE React \/ \E r \in Replies : RecordReply(r)
  BY <1>1, ReadersKeep
<1>2. CASE ScheduleSync \/ ClaimSync \/ FetchReactions \/ Reconcile \/ CompleteSync \/ FailSync
  BY <1>2, SyncKeeps
<1>3. CASE \/ ScheduleLearning \/ ClaimLearning \/ RefuseLearning \/ TakeLearning
           \/ BeginLearning \/ CompleteLearning \/ FailLearning
  BY <1>3, LearningKeeps
<1>4. CASE PersistSuggestions
  BY <1>4, PersistKeeps
<1>5. CASE \E m \in Moderators : Look(m) \/ Moderate(m)
  BY <1>5, ModerationKeeps
<1>6. CASE UNCHANGED vars
  BY <1>6
  DEF vars, IInv, Typed, AttemptsLeft, RecordedWasLeft, GoneIsMissed, AnswerIsFair,
      RulesHaveVersions, RepliesStand, WithdrawnOnlyIfGone, ActiveAsApproved
<1>7. QED
  BY <1>1, <1>2, <1>3, <1>4, <1>5, <1>6 DEF Next

-----------------------------------------------------------------------------
(* Theorems.                                                               *)

\* What reviews are told to follow was approved by an operator as it reads now,
\* and a reaction is written off only if GitHub once did not show it, whatever
\* the interleaving of readers, synchronisation, learning and moderation
\* (reconcile_review_reactions, persist_rule_suggestions, moderate_learned_rule).
THEOREM RulesAsApproved == Spec => []LearnedAsApproved
<1>1. Init => IInv
  BY InitIInv
<1>2. IInv /\ [Next]_vars => IInv'
  BY NextKeeps
<1>3. IInv => LearnedAsApproved
  BY IInvImplies
<1>4. QED
  BY <1>1, <1>2, <1>3, PTL DEF Spec

\* A rejected rule stays rejected: an agent that suggests it again only adds
\* evidence (_matching_rule_id), and no command revives it.
THEOREM RejectedRulesStay == Spec => RejectedStays
<1> DEFINE Stays == \A c \in Candidates : rule[c].status = "rejected" => rule'[c].status = "rejected"
<1>1. ASSUME IInv, [Next]_vars PROVE Stays
  <2> SUFFICES ASSUME NEW c \in Candidates, rule[c].status = "rejected"
               PROVE  rule'[c].status = "rejected"
    OBVIOUS
  <2>1. CASE PersistSuggestions
    <3>1. PICK batch \in SUBSET Candidates, cited \in SUBSET learn.job.got :
            rule' = [d \in Candidates |->
                       IF d \in batch /\ Cardinality(cited) >= MinimumEvidence
                       THEN Suggest(d, cited) ELSE rule[d]]
      BY <2>1 DEF PersistSuggestions
    <3>2. cited \in SUBSET Events
      BY <1>1 DEF IInv, Typed, JobRow
    <3>3. QED
      BY <1>1, <3>1, <3>2, SuggestRow
  <2>2. CASE \E m \in Moderators : Moderate(m)
    <3>1. PICK m \in Moderators : Moderate(m)
      BY <2>2
    <3> DEFINE d == seen[m].rule
    <3>2. d \in Candidates /\ seen[m].version = rule[d].version
      BY <1>1, <3>1 DEF Moderate, Moderates, IInv, Typed
    <3>3. PICK action : rule' = [rule EXCEPT ![d] = Moderated(rule[d], action, rule[d].version)]
      BY <3>1, <3>2 DEF Moderate
    <3>4. CASE c = d
      BY <1>1, <3>2, <3>3, <3>4, ModeratedRow DEF IInv, Typed
    <3>5. CASE c # d
      BY <1>1, <3>2, <3>3, <3>5 DEF IInv, Typed
    <3>6. QED
      BY <3>4, <3>5
  <2>3. CASE UNCHANGED rule
    BY <2>3
  <2>4. QED
    BY <1>1, <2>1, <2>2, <2>3
    DEF Next, vars, React, RecordReply, ScheduleSync, ClaimSync, FetchReactions, Reconcile,
        CompleteSync, FailSync, ScheduleLearning, ClaimLearning, RefuseLearning, TakeLearning,
        BeginLearning, CompleteLearning, FailLearning, Look
<1>2. Spec => []IInv
  <2>1. Init => IInv
    BY InitIInv
  <2>2. IInv /\ [Next]_vars => IInv'
    BY NextKeeps
  <2>3. QED
    BY <2>1, <2>2, PTL DEF Spec
<1>3. IInv /\ [Next]_vars => [Stays]_vars
  BY <1>1
<1>4. QED
  BY <1>2, <1>3, PTL DEF Spec, RejectedStays
=============================================================================
