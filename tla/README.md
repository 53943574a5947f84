# A TLA+ model of Diffuse

Diffuse reviews pull requests: GitHub events become durable jobs in PostgreSQL,
workers claim the jobs, generate a report with an agent, publish it as a GitHub
review and conclude a status check. This directory holds TLA+ specifications of
the parts where processes, failures and time meet and of the algorithms that
decide what is reviewed, by whom and what is published, the TLC configurations
that check them on small instances, and TLAPS proofs, for every instance, of the
safety of every state machine among them and of what the algorithms compute. `PROJECT.json` lists components,
runs, mutants, the map from definitions to source lines, hazards and theorems.

Paths below are relative to `src/packages/server/src/diffuse/` unless they
start with `relay/`, `host/` or `protocol/` (the packages of those names).

## 1. The system

| Component | State | Operations | Interacts with |
|---|---|---|---|
| workflow queue (`review/workflow.py`) | `workflow_jobs`, `workflow_attempts`, `pull_requests`, `repository_refs`, `scm_webhook_deliveries` | enqueue review / index / conversation / feedback / learning events, claim, heartbeat, currency checks, complete, supersede, fail, stranded sweep | webhooks and poller write it, workers drain it, the registry's switches gate it |
| worker (`worker.py`) | none that survives; a job and a lease | `run_once`, `process_*_job`, `run_forever`, stranded sweep | queue, review store, checks, GitHub, agent host |
| review store (`database/review_store.py`) | `review_runs`, `review_publications`, findings | begin / persist / fail / supersede / publish | worker, finding lineage |
| status checks (`database/check.py`, `github/check.py`) | `review_check_runs`; GitHub's check runs | begin, start, count attempts, complete, exhaust | worker, sweep, GitHub |
| finding lineage and threads (`database/finding.py`, `review/lineage.py`, `github/threads.py`) | lineages, lineage events, thread operations | classify, activate, discard, reply and resolve | review store, GitHub |
| agent investigations and Agent Host (`database/agent_investigation.py`, `review/agent_client.py`, `host/`, `protocol/`) | sessions, capabilities, replay ledger, sandboxes | create, resolve, complete, cancel, abandon | worker, agent runtimes |
| delivery relay and poller (`relay/`, `github/delivery_poller.py`) | events, leases, connection codes, instances | record, pull, acknowledge, redeem | GitHub, the webhook ingest |
| index store and mirror (`repository/indexing/`, `repository/mirror.py`) | snapshots, chunks, graph, mirror state | build, activate, retire | index jobs, retrieval |
| repository clusters and retrieval (`repository/cross_repository.py`, `repository/retrieval/`) | clusters and members | create, add, remove, plan, retrieve, format | CLI writes it, reviews read it |
| policy, report assembly, provenance (`repository/policy/`, `review/report_assembly.py`, `review/provenance.py`) | none | pure functions | index jobs, worker |
| feedback, conversation, learning (`database/feedback.py`, `conversation.py`, `learning.py`) | feedback, replies, learned rules | record, schedule, generate, publish, moderate | queue, GitHub |
| registry, migrations, API, CLI | `repositories`, schema versions | register, enable, migrate | everything |

What is hard in it: several worker processes share the tables and may be slow,
killed or partitioned between any two transactions; leases expire under live
workers; webhooks are redelivered, late and out of order; GitHub requests fail
after taking effect; rows of one job are adopted by the next; and a required
check that nobody concludes blocks a merge for ever.

What makes each part correct: the queue starts the jobs of a pull request in
order and one at a time, never loses the newest revision and never runs a
revision twice; a review is posted once; a check shows what happened to the
review it belongs to, and is concluded in the end; a worker without a lease
changes nothing that belongs to its successor; the relay loses no event and
delivers each in the end, and hands a credential once, to a server whose user
can access the installation; an agent host runs one review at a time, a session
ends once, and a report contains only what another agent verified in the same
attempt; the active snapshot is exactly one revision and never goes back; the
history of a finding follows what was published, and each thread gets each
reply once; a rule that reviews obey is one an operator approved as it stands.

## 2. Modules

* `ScopedQueue` - what the job table promises: jobs of a scope start first in
  first out and one at a time, and a settled job stays settled. It knows nothing
  of leases, attempts, time or events.
* `WorkflowQueue` - the tables and transactions of `review/workflow.py`, with
  the switches of `repository/registry.py`. One action per committed
  transaction; an exception rolls back, so its case is a guard. `jobs` is the job
  table in id order with its attempts; `refs` the newest event of a pull request
  or branch; `held` and `verdict` what a worker process believes. One repository
  is modelled: repositories share only the order in which due jobs are claimed.
  Commits, titles and deliveries are model values; an idempotency key is the
  record of what the code concatenates. The clock is a bounded counter.
* `WorkflowQueueProofs` - the theorems about `WorkflowQueue`.
* `ReviewExecution` - `process_review_job`, `run_once` and the stranded sweep
  over one revision: the rows of `review_runs`, `review_publications` and
  `review_check_runs`, GitHub's check runs and reviews, and a program counter
  per worker. One action per transaction or GitHub request, so that a crash, a
  lost lease or another worker can come between any two. Consecutive currency
  checks without a write in between are one step. Jobs are those that share one
  review run: the run's fingerprint contains the trigger fingerprint, so they
  also share an idempotency key and a second one exists only after the first
  died. Texts, findings, models and thread operations are left out; a request
  may fail before or after its effect. Database errors are not modelled apart
  from a crash of the worker.
* `DeliveryRelay` - an event's way from the webhook through the relay to the
  poller of a self-hosted server: `relay/store.py`, the event handlers of
  `relay/app.py` and `github/delivery_poller.py`. One installation. `arrived`
  is the event table (receipt order), `receipts` and `leases` the delivery
  table, `instance` and `token` the row that is not revoked; `batch`, `acking`
  and `granted` say where a poller is in `pull_once`. A request is two
  transactions, authentication and effect. A poller may give up at any moment,
  and an admitted request it leaves behind (`orphans`) may still be served, so
  lost responses and late effects are one mechanism. Ingestion is one step with
  the outcome admitted or raised; what an admitted event does there is
  `WorkflowQueue`, whose `OneJobPerRequest` is what makes a repeated
  delivery harmless.
* `RelayEnrollment` - how a server gets its credential: connect sessions, OAuth
  states, connection codes, bindings and uninstallation. The relay runs as
  serverless invocations over one database, so browser requests are processes
  (`request`) whose transactions interleave; a session's remaining life is
  `2` (a second or more), `1` (less than a second) or `0`, because polling and
  completing round it differently. Secrets are numbers; sealing and hashing are
  left out.
* `DeliveryRelayProofs`, `RelayEnrollmentProofs` - their theorems. Likewise
  `ReviewExecutionProofs`, `AgentInvestigationProofs`, `IndexStoreProofs`,
  `FindingLineageProofs` and `FeedbackLearningProofs` for the modules they extend.
* `AgentInvestigation` - the generation of one review: the worker's side
  (`review/agent_client.py`, the part of `worker.py` that calls it), the rows of
  `agent_investigations` (`row`), the two agent hosts (`host`, `slots`, and
  `order`, the sessions in the order the hosts took them on; `host/api.py`) and
  the tool endpoint (`call`, `log`; `investigation/`). A dispatch is a request
  (`post`) that may be lost, late or answered by a host that restarted. Sessions
  expire in the order of their dispatch, so the clock is a count. A lease may run
  out under a live worker.
* `AgentProtocol` - the operators both sides share (`protocol/`,
  `host/investigation.py`, `host/claude.py`): grants and envelopes with their
  expiry, acceptance of a result, how the end of a CLI run is classified, and the
  two attempts of a session. A signature is the key it was made with.
* `IndexStore` - snapshots of the default branch (`snap`), index jobs (`job`)
  and builds by hand that share the lock of the mirror (`lock`), each builder a
  program counter over the transactions of `build_repository_index`. A file's
  content is a model value, and a snapshot a function from paths to contents;
  embeddings, chunks and graph follow the file they come from.
* `FindingLineage` - findings, lineages, lineage events, threads and thread
  operations of one pull request, over the reviews of successive heads, with the
  GitHub side (`github`: review comments, replies, resolutions). Similarity of
  texts is the constant `Similar`; the matching itself (`Greedy`) is translated.
  Reviews of one pull request do not overlap, which is what `WorkflowQueue`
  proves; the superseding of an older run, crashes and lost responses are here.
* `FeedbackLearning` - reactions and replies on GitHub (`github`), what was
  recorded of them (`ledger`), the synchronisation job (`sync`), the learning job
  (`learn`), rules (`rule`) and moderators with a list on their screen (`seen`).
  Scheduling, claiming and giving back follow the queue. The worker of this build
  refuses every learning job (`RefuseLearning`; `worker.py:2196` raises before the
  rest of the handler, which is unreachable and left out). `begin_rule_learning`
  and `persist_rule_suggestions` are driven by whoever else claims the job
  (`TakeLearning`), as the integration test of the store does; nothing says that
  anybody does, so nothing is claimed about learning in the end.
* `PathGlobs`, `PolicyResolution` - the glob matcher of `repository/policy/` by
  sets of offsets, and discovery, layering, overrides, context files, flags,
  triggers and the prompt's budget. Operators, each next to a reference
  definition that says what a pattern spells or a nested policy means
  (`PathIsSpelled`, `SettingIsNearest`, `RuleIsNearest`, ...): it takes any input,
  the run evaluates it on the bounded ones and a theorem states it for all.
* `ContextRetrieval` - repository clusters with their limit, the plan of what a
  review may read, fusion and ranking of search results, the character budget.
  A cluster operation is one transaction on the tables as it finds them. Scores
  are fractions in the code; here they are whole numbers over `Denominator`,
  exact for the first four places of a list and rounded down beyond. Its limits
  (`MAX_RELATED_REPOSITORIES`, `MAX_RETRIEVAL_CANDIDATES`) are constants.
* `ReportAssembly` - from candidates and decisions to findings, risk and score;
  how many candidates are verified and findings published are constants.
* `SortedLists` - Python's `sorted`, slices, comprehensions and `sum`, and answers
  that may be an error. `Sorted(S, R)` has at n the element with n - 1 before it:
  without recursion, so that theorems can say what a sorted list holds.
* `ReviewProvenance` - signals in commits, the author's family, the choice of
  the reviewer and the models.
* `MC...` - instantiations for TLC: symmetry, the trees of two revisions, which
  user owns which installation. The algorithm modules have no state of their own.
  They are instantiated where the program calls them (policies and retrieval by
  the index, protocol, routing and assembly by investigations), and their
  properties (`PolicyHolds`, `ProtocolHolds`, `ReportIsSound`) are evaluated once,
  in the initial state, over every bounded input. `MCAgentInvestigation` and
  `MCIndexStore` extend them (`ReviewProvenance` is an instance), so the configurations give
  their limits values, and the theorems about them are in
  `AgentInvestigationProofs` and `IndexStoreProofs`.

How they fit together: the poller's events (`DeliveryRelay`) become jobs
(`WorkflowQueue`); a claimed review job is `ReviewExecution`, whose generation step
is `AgentInvestigation` and whose publication step is detailed in
`FindingLineage`; `IndexStore` and `FeedbackLearning` are the other handlers. Each
of these takes over from the queue what is proved there: one running job per
scope, lease and attempts.

Definitions named `...Never`, `...Anyway`, `Faulty variant` in a comment and so
on are mutations of the definition that follows them: each property is violated
when the mutation it is listed with replaces the original.

## 3. Runs

| Run | Question | Properties |
|---|---|---|
| `leases` | two workers on the jobs of a pull request and of a branch, two attempts' worth of time | exclusion, order, refinement of `ScopedQueue`, `SettledIsFinal` against a worker that comes late |
| `events` | two heads, arbitrary timestamps, pushes, closes, manual requests and redeliveries with a debounce window, both switches flipped | `OneJobPerRequest` (one holder of a key, one fresh job per scope, and a redelivery adds nothing), `SettledIsFinal`, `PushNeverPostpones` |
| `review_crashes` | a crash at any step, failing requests, a moving head, one job of two attempts, two workers | `RecordedAsShown` (typed, and the row agrees with GitHub), `PostedOnce` (review and check), `CheckFollowsReview` (cancelled only for a replaced revision, a verdict for a job that succeeded), and `HungCheckResolved` under `FairSpec` |
| `review_stalls` | leases that expire under live workers; a second job adopts the run of one that was given up while that one's worker and the sweep are still at it; a crash, failing requests | `SupersededRightly`, `VerdictNeedsReview`, `InFlightRunKept`, `ConcludedRightly` (a job that succeeds leaves no check open, a check fails only with a job, no worker that owns its job cancels a wanted check) |
| `review_late` | leases that expire between two attempts of one job, what `worker.py:1901` says of it | `OwnedCheckNotCancelled`, violated |
| `delivery` | two servers, a good and a poisoned delivery, three webhook requests, rotation, suspension, uninstallation, a fault | no event is lost, a dead token stays dead |
| `progress` | one event at a time, in spite of a fault | `EventuallyDelivered` under `FairSpec` |
| `enrollment` | two users with overlapping installations, two concurrent requests, one session, connection codes | bound with consent, its end final, a credential shown once and never lost inside the relay |
| `investigations` | two workers, two hosts, two sessions; a lost lease, a restart, an expiry, a moved head, late and lost requests | `SlotsHeld`, `ReportIsVerified`, `LogNamesItsAttempt`, `EndsStay` (a settled session and a cancellation stay); over bounded inputs `ProtocolHolds`, `ReportIsSound` |
| `index` | two workers and a build by hand, two pushes, a crash, a stale build | `ActiveIsExact`, `HistoryAdvances` (a finished snapshot is immutable, the active one only advances), `MirrorGuarded`; over bounded inputs `PolicyHolds` |
| `lineage` | three reviews, two findings that are alike, two faults | `RecordedAsClassified` (lineages as they were classified, and comments map to new findings unless one went with an abandoned review), `ThreadsKept` (a tracked finding has its thread, one reply per transition, threads follow findings), `PublishedStays` |
| `learning` | a reaction that comes and goes, a reply, one rule, two operators with stale lists, two faults | `LearnedAsApproved`, `RejectedStays` |

All of them hold but the one that says so, a disagreement of the code with its own
comment (`findings` in `PROJECT.json`): "A worker that no longer owns the run must
not cancel the check either -- the worker that does own it is still going to
complete it" (`worker.py:1901`). After the check is created the code asks the
store first. The handler of `ReviewSupersededError` (`worker.py:1972`) does not,
although generation raises that error for a lost lease too; nor do the exits at
the top of `process_review_job` (`worker.py:1777` and on), by which the shortest
trace goes. The owner then finds the check completed, and its verdict is not shown.

Bounds. Two workers suffice for every race of an owner with a successor; the
sweep needs no third process because an idle worker runs it. `MaxAttempts` 2
distinguishes the first, a retried and the last attempt, `MAX_COMPLETION_ATTEMPTS`
2 (8 in the code) an attempt before, at and after the limit. Two heads and two
or three deliveries let a revision be replaced and come back. `MaxTime` lets a
lease expire, a retry become due and a debounce window close. `MaxCrashes` 1
lets one worker die at any step; attempts bound everything else. The two review
runs ask for status checks; that a policy may ask for none is left to the theorems
about `SupersededRightly`, `VerdictNeedsReview` and `InFlightRunKept`, which hold
for any `StatusCheck`. `review_stalls` has two jobs of one attempt each; a worker
outlasted by the next attempt of its own job is seen by `review_late` and by the
theorems. Deadlock is not
checked in `ReviewExecution`: when every job is settled the model has nothing
left to do; the relay's bounded counters of webhooks, states and credentials run
out likewise, and the sessions, pushes, reviews and generations of the other
modules. Symmetry is used in safety runs only. In the relay, two servers
and two credentials give a rotation, three webhook requests a redelivery of an
event next to another one, one fault a request that is left behind and served
late. Two requests over one session give every race of two browsers; three
installations let both users be offered a choice of which they share one part.
Two sessions are a candidate and a verifier, or the candidates of two attempts;
`Retained` 1 (128 in the code) lets a settled session be pruned. Two revisions
that differ in one file, share one and add one give every way a path can be
reused or written; three snapshots let a build be overtaken. Three reviews let a
finding appear, vanish and come back, or match another one. The largest inputs of
the operators: patterns of five characters over paths of four, four
repositories in clusters with a limit of two, three candidates with two
published, two commits.

Fairness. `FairSpec` assumes that each worker's loop keeps taking steps (requests
have timeouts, so a step that waits fails at the latest), and that the lease of a
worker that is gone runs out. Nothing is assumed of crashes, of events, or of a
request ever succeeding: a check whose requests always fail runs out of attempts.
In `DeliveryRelay`, `FairSpec` assumes that a poller keeps polling (`run_forever`,
restarted by Compose) and that leases run out; faults are bounded by `MaxFaults`
instead of being made unlikely, and no fairness is assumed of `orphans`. The other
modules state no liveness and no fairness.

Seen while modelling, where the code does something a reader may not expect.
None of it is claimed by a property that holds; where a run stays clear of a case,
the hazard in `PROJECT.json` says so.

* Queue: push A, push B, force-push back to A inside the debounce window; the last
  event is a duplicate of A's superseded job, and the head is not reviewed
  (`review/workflow.py:512`). With automatic reviews off the pull-request row
  goes stale (`:336`).
* Review: two workers that overlap because a lease ran out may create two checks
  (`github/check.py:162`); a review that failed for good and is submitted again
  reuses the completed check row, which keeps showing the failure
  (`database/check.py:112`); a `ready` run handed to a newer job can be failed by
  the sweep for the dead one (`database/review_store.py:382`);
  `mark_review_failed` does not look at the lease; the sweep's limit (`< 8`) and
  the limit that records exhaustion (`> 8`) never meet.
* Relay: a webhook redelivered after its acknowledgement is stored again; events
  stored before a suspension are handed out during it; a session completed with
  knowledge from before an uninstallation binds the installation again.
* Agents: a POST that arrives after the worker gave up starts a session that
  holds the host's slot until it times out; a worker that lost its lease may
  still insert a session (`worker.py:797`); the sessions of a crashed worker stay
  `dispatched`; a message that mentions both quota and credentials is read
  differently from an envelope and from standard error.
* Index: a crashed build leaves a `building` row that makes retries raise for
  3600 seconds, and a newer one of that kind makes an older build superseded; a
  build superseded after it began stays `building`; a late worker may set
  `mirror_state` back; a `ValueError` from writing the policy ends the job.
* Lineage: a pending lineage is reused by the next review and deleted with the one
  that saw it first. Review 1 sees a finding and its job dies; review 2 reuses the
  lineage and posts its comments; the sweep of job 1 deletes the lineage
  (`database/finding.py:346`) and with it, by cascade, the finding and the event of
  review 2, whose recording then raises (`:538`) on every retry
  (`RecordedAsClassified` says that nothing else makes a comment miss its finding);
  a fingerprint collision raises on every retry; thread operations of a dead job are never taken up again; a
  lease lost during publication is only logged.
* Feedback and learning: the scheduler queues another learning job for the same
  evidence after the worker refused one; a reaction that was once withdrawn is never counted
  again; more than 100 active rules fail every review of the repository, and
  moderation does not count them; the same comment under another delivery id
  violates a UNIQUE constraint.
* Policy: overrides are validated in the order of file names and applied in the
  order of directories (`repository/policy/discovery.py:131`), which differ for
  names that sort before `.diffuse`: if `(app)/` or `.config/` overrides a rule
  that the root declares, the policy is refused, because its file is looked at
  before the root's (theorem `EarlyNamesAreRefused`; the bounded inputs have no
  such name); merged triggers are a union per filter, so two paths
  may together accept a pull request that neither accepts.
* Clusters and report: two operators who add to two clusters that share a
  repository may exceed its limit together, after which its reviews are refused;
  `context.repos` reorders the plan and does not narrow it; duplicates are
  removed and the report is cut before findings are sorted by revised severity.

## 4. Proofs

`WorkflowQueueProofs` proves for all constants satisfying `QueueAssumption`
(non-empty limits, disjoint scopes, a commit is never the placeholder for none):

* `QueueTypeCorrect`, `QueuedJobsCanRun`: `TypeOK` and `QueuedHasAttemptsLeft`,
  which together are the inductive invariant `IndInv`. The second is needed for
  the first: a claim increments `attempt_count`, which stays within
  `max_attempts` only because a queued job has an attempt left.
* `ScopeOrder`, `ScopeExclusion`: `StartedInOrder` is inductive on top of
  `IndInv`, because a claim requires that no older job of the scope is active,
  and no step makes a settled job active; exclusion follows from it.
* `KeysUnique`: at most one job holds an idempotency key, because a job is
  inserted only when the holders of its key are dead or failed, and the same
  transaction retires them.
* `SettledJobsStay`: the action property `SettledIsFinal`.
* `RequestsQueuedOnce`: `OneJobPerRequest`, from `KeysUnique` and `FreshInv`. An index event spares
  the queued job of its own commit; that there is none then is an argument about
  keys: the spared job would hold the key of the new one (`IndexKeys`), and a
  queued job has not given its key up (`RetiredIsTerminal`). A job queued again
  is no fresh one because a running job has spent an attempt (`RunningIsTried`).
* `PushesNeverPostpone`: the action property `PushNeverPostpones`; only a step
  that records a new delivery appends a job, due no later than what it replaces
  (`Submits`).
* `QueueImplementsScopedQueue`: the refinement. Every step either rewrites rows
  in ways the abstract queue allows or appends one queued job (`StepShape`);
  the mapping forgets everything but scope and status.

`DeliveryRelayProofs` proves for all constants satisfying `RelayAssumption`, from
the inductive invariant `IInv` (`TypeOK`, `AckedIsIngested`, `TokensIssued`):

* `RelayTypeCorrect`.
* `NoEventLost`: the action property `OnlyIngestedLeaves`. Rows are deleted by
  the sweep and by acknowledgements; what a poller, or a request it left behind,
  acknowledges is in the database of its server (`AckedIsIngested`).
* `DeadTokensStayDead`: a new binding gets a token above every token in any
  server's environment (`TokensIssued`).

`RelayEnrollmentProofs` proves for all constants satisfying
`EnrollmentAssumption`:

* `EnrollmentTypeCorrect`.
* `SessionsBoundWithConsent`, `InstallationsVerified`: every request in progress
  carries a list that its user can access and, with a session, a user who
  authorized in it (`RequestsJustified`); so does every choice a session offers
  (`OffersJustified`). A completed session takes its installation from such a
  list.
* `CredentialsShownOnce`, `CredentialsReachable`: the tokens of ready sessions
  are distinct and not yet shown, and tokens not yet issued are nowhere.
* `EndedSessionsStay`: the action property `EndedSessionStays`.

`QueuedHasAttemptsLeft` and `VerifiedByAnOwner` (theorems `QueuedJobsCanRun` and
`InstallationsVerified`) are proved only; the runs check what rests on them.

`ReviewExecutionProofs` proves for any number of workers, attempts and crashes
(`ExecutionAssumption`). Every result starts from `JInv`: the types, one running
job at a time and in order (what `WorkflowQueue` proves), and which job and run
the worker at each step of `process_review_job` has in hand (`Placed`).

* `TypesKept`, `RetiredOnlyIfReplaced`: `TypeOK` and `SupersededRightly`, leases
  that run out under live workers included.
* `VerdictOnlyForReview`: `VerdictNeedsReview`. A verdict is only asked for once
  the run is published or skipped, and a run stays so (`VInv`).
* `RunInFlightIsKept`: the action property `InFlightRunKept`, late workers included:
  a job that was given up is not the job of a run in flight.
* `NothingPostedTwice`: `PostedOnce` when no live worker outlasts its lease
  (`~Stalls`). A worker between a request
  and its record knows what GitHub has (`PInv`). With stalls two workers can be
  between looking for a review and posting one.
* `CheckRecordedAsShown`: `RecordedAsShown` with `~Stalls` and one job for the
  revision. `GInv` says for each step which check the worker's handle names and
  how far its completion is. With more jobs the worker that finalizes a job that
  was given up may be at the check together with the worker of the next job.
* `ChecksFollowReviews`: `CheckFollowsReview` with, besides, a policy that asks
  for status checks (`StatusCheck = {TRUE}`); `SInv` follows the verdict from the
  check to the job. These are the constants of `review_crashes`, but for the
  numbers of workers, attempts and crashes.

  Each of these hypotheses is needed: TLC finds counterexamples to these three
  properties with `Stalls = TRUE`, to the last two of the theorems with two jobs,
  and to the last one when the policy may ask for no check.
* `ChecksConcludedRightly`: `ConcludedRightly` for any number of jobs and with
  leases that run out under live workers; of the policy it needs that it asks for
  checks. `OInv` says what a worker at each step may be about to conclude the check
  with, and that a worker about to report success saw the row completed; a
  completed row stays so. It is what remains of the comment at `worker.py:1901`:
  a worker that still owns its job never cancels, one that does not may.

`AgentInvestigationProofs` proves, from `IInv`, for any workers, callers, errors
and bounds on sessions, retained results and restarts
(`InvestigationAssumption`):

* `SlotsAreHeld`: `SlotsHeld`. A host has one thread at most, and its slot is
  free exactly when it has none (`SlotsFit`, `HostsFit`). That attempts stay
  within their bound is a counting argument: every start of the run was paid for
  with a claim (`Counted`).
* `CallsFiledRightly`: `LogNamesItsAttempt`. A call in flight carries the attempt
  of the row of its session, and rows keep theirs (`CallsFit`, `Keeps`).
* `ReportsAreVerified`: `ReportIsVerified`. At every step a worker's two sessions
  are a candidate and, once that is completed, a verifier of its result at the
  other host (`Pair`, `ClientsFit`); the results are ones that were accepted for
  their session (`RowsFit`).
* `EndedStayEnded`: the action property `EndsStay`.
* `RunsAreClassified`, `SessionsAreAccounted`, `GrantsAreBound`: what
  `ProtocolHolds` evaluates of the protocol over bounded inputs, for every run of a CLI, any
  costs and durations, and any scope, time to live and moment. An expiry is
  stamped in whole seconds, rounded down, so it is never later than it was meant
  (`WholeSecondsBelow`).
* `ForgeriesCannotRoute`, `RoutedByAssertionsOnly`, `ModelPairIsRouted`: who
  reviews a change, for any commits. The signals of the commits without what
  anybody can write into them are exactly the asserted ones
  (`UnforgeablePullRequest`), and from a set of asserted signals the runtime is
  that of their one family or the default (`AssertedIsRouted`). With the three
  theorems before them they give `ProtocolIsAgreed`: `ProtocolHolds`.
* `ReportsAreSupported`, `ScoresFall`: the report, for any candidates, decisions,
  policy and limits. Sorting is counting: along a strict total order of a finite
  set each element has as many before it as its place says, so each place is
  taken once (`RankTaken`, `SortedIs`); the selected candidates, the published
  numbers and the findings are so ordered (`CandidatesOrdered`, `NumbersOrdered`,
  `FoundOrdered`), and one candidate per key is selected (`SelectedKeys`). They
  give `ReportsHold`: `ReportIsSound`.

`IndexStoreProofs` proves, from `IInv`, for any commits, trees, builders and
bounds (`IndexAssumption`):

* `MirrorIsGuarded`: `MirrorGuarded`. A builder that raises, is superseded or
  crashes gives the lock back on its way out.
* `ActiveSnapshotsAreExact`: `ActiveIsExact`. What a builder between two
  transactions knows is the point (`Begun`): the snapshot it compares with was
  active once and is immutable, and the files it will copy are those of its own
  commit.
* `SnapshotsOnlyAdvance`: the action property `HistoryAdvances`.

It proves besides, of the operators that an index build and a review apply to
policies, clusters and search results, for inputs of any size:

* `ClustersStaySound`, `PlansAreAuthorized`, `PlansAreNotTooLong`: what an accepted
  cluster operation leaves, and what a plan made from it reads. Whoever is beside
  more repositories than before shares a cluster with the added one, and those are
  the ones `AddMember` looks at. It is about one operation at a time: two adds to
  different clusters lock different rows (section 3), and against that the plan's
  own check of its length is the guard.
* `PathGlobsMatch`, `FilterGlobsMatch`: over any characters, patterns match what
  they spell. A token is a move between sets of offsets, a list of tokens the run
  of its moves; folding two wildcards replaces two moves by one that does the same
  (`WildcardsFold`, `FoldedLeads`), a choice leads where one of its branches leads
  (`WrittenOutLeads`), and read backwards the run says what the tokens cover
  (`SpelledIs`).
* `NearestSettings`, `IgnoredOnceIsIgnored`, `NearestRules`: for any layers in
  different directories (`LayersApart`), a path's policy is what the nearest
  directory with a say gives. Sorted, the layers above a path stand from the root
  down (`NearerComesLater`), and after the last of them that speaks of a setting
  nothing changes it (`Stays`). `OverridesHaveRules`: discovery accepts the
  policies whose overrides have a rule, if no directory of the root sorts before
  `.diffuse`; `EarlyNamesAreRefused` shows that it is not so otherwise.
* `TriggersAreMerged`, `IgnoredPathsAreMute`, `ApprovedComeFirst`,
  `OnlyContextIsRead`, `PromptsFit`: merging, what the operator approved, guidance
  files and the prompt.
* `RetrievalIsFair`, `ContextsFit`: what is retrieved and shown. An earlier place is
  worth at least as much as a later one, of two chunks the graph does not know the
  one with the better lexical rank stands earlier, and another repository weighs
  less; hence a better match of the primary never ranks below
  (`BetterMatchOutranks`). The searches answer with chunks of the repository they
  are asked about, each once (`SearchesStand`).
* `PoliciesHold`: `PolicyHolds`, which are these theorems for the bounded inputs.

These theorems are about recursive functions, for which no induction theorem can
be cited. Instead, a function that is defined by recursion is shown to be the run
of its steps (`RunExists`, `RunByRecursion`), and what every step keeps holds at
the end because there is no least step at which it fails (`LeastExists`,
`Induction`).

`FeedbackLearningProofs` proves, from `IInv`, for any reactions, replies, rules
and bounds (`LearningAssumption`):

* `RulesAsApproved`: `LearnedAsApproved`. A reaction is written off from an
  answer of GitHub that may be old; of the reactions on record such an answer
  lacks only ones that GitHub stopped showing (`AnswerIsFair`, `GoneIsMissed`).
* `RejectedRulesStay`: the action property `RejectedStays`.

`FindingLineageProofs` proves for any findings, similarities, numbers of reviews,
attempts and faults (`LineageAssumption`), from `AllInv`, which has four layers:
`JInv` (jobs, runs and the worker's step), `KInv` (rows and statuses), `TInv`
(threads) and `OInv` (operations on threads).

* `PublishedIsKept`: the action property `PublishedStays`. Events are discarded
  only of runs that are not published, and only a published run has applied ones.
* `RecordsAsClassified`: `RecordedAsClassified`. A finding that was to be published
  inline loses its event only with its lineage, and a lineage only goes with the
  review that saw it first, whose job is dead. Between persisting a review and
  recording it no lineage it has an event of changes its status (`Unchanged`),
  because the worker at a review has the newest run with events (`Newest`) and
  a run that was replaced before its worker began is superseded there, its
  events discarded.
* `ThreadsFollow`: `ThreadsKept`. What the worker read of a thread is still so
  at each of the steps between (`MovingFits`), an operation that is marked left
  its reply and the thread resolved or open, until a later transition of the
  same finding (`MovedFits`), and a job succeeds only when all its operations
  are marked (`TodoFits`, `SucceededFits`).

The assumptions say that limits are natural numbers, that sets have the types
the code gives them and that placeholders are not among real values; all of them
are evaluated by the runs.

Every safety property that a run checks is proved, for the constants above.
Only model-checked:

* liveness (`HungCheckResolved`, `EventuallyDelivered`), which these provers cannot
  show under fairness.

## 5. Not modelled, and what is left to prove

Not modelled, with the reason:

* conversation: its handler raises `NonRetryableError` at once in this build, so
  every job fails and nothing behind it runs;
* chunker and code graph: text analysis driven by tree-sitter grammars that are
  not part of the repository; diff parsing, prompts and tool-log formatting: text
  handling, of which the decisions are inputs of the modules above;
* the SQL of the searches: its rows are inputs of `ContextRetrieval`;
* migrations: numbered files under one advisory lock before anything else runs;
* GitHub App tokens, the HTTP API, most of the CLI: request plumbing in front of
  transactions modelled elsewhere; registration of repositories and the binding
  of their GitHub identity;
* the rest of the learning handler: unreachable in this build;
* cryptography, sandboxes and command lines of the agents, rendering.

Left to prove:

1. what remains true of what a check shows when a revision has several jobs or a
   worker outlasts its lease, where `RecordedAsShown` and `CheckFollowsReview` do
   not hold (`ChecksConcludedRightly` is about when it is concluded and by whom);
2. `GuidanceFor`, `RootTriggers` and the flags of all paths, of which only
   `IgnoredPathsAreMute` is stated.
