------------------------ MODULE FindingLineageProofs ------------------------
(***************************************************************************)
(* Proofs about FindingLineage for any findings, similarity, number of     *)
(* heads, attempts and faults: what was published stays                    *)
(* (PublishedIsKept), a review is recorded as it was classified            *)
(* (RecordsAsClassified), and every thread follows its finding             *)
(* (ThreadsFollow).                                                        *)
(***************************************************************************)
EXTENDS FindingLineage, FiniteSetTheorems, WellFoundedInduction, TLAPS

Pcs == {"idle", "begin", "persist", "failed", "load", "publish", "unpublished", "record",
        "operations", "next", "unresolve", "reply", "resolve", "mark", "opFailed", "finish"}

JobRow == [status : {"absent", "queued", "running", "succeeded", "superseded", "dead"},
           attempt : 0..MaxAttempts]
RunStatus == Unpublished \cup {"none", "published", "failed", "superseded"}
LineageRow == [status : {"none", "pending", "active", "addressed"}, first : Runs \cup {NoRun}]
FindingRow == [run : Runs, fp : Fingerprints, lineage : Fingerprints]
EventRow == [run : Runs, lineage : Fingerprints, kind : Kinds, applied : BOOLEAN]
ThreadRow == [root : Runs \cup {NoRun}, status : {"none", "active", "addressed"}]
GitHubRow == [review : [Runs -> {"none", "inline", "bare"}], roots : SUBSET (Runs \X Fingerprints),
              resolved : SUBSET (Runs \X Fingerprints), replies : [Event -> Nat]]
ProcRow == [pc : Pcs, run : Runs \cup {NoRun}, inline : SUBSET Fingerprints,
            todo : SUBSET Fingerprints, replied : BOOLEAN, resolved : BOOLEAN]

\* The types of the tables and the worker, with the form of every record.
Typed ==
    /\ jobs \in [Runs -> JobRow] /\ run \in [Runs -> RunStatus]
    /\ lineage \in [Fingerprints -> LineageRow]
    /\ findings \subseteq FindingRow /\ events \subseteq EventRow
    /\ threads \in [Fingerprints -> ThreadRow]
    /\ ops \in [Event -> {"none", "publishing", "failed", "published"}]
    /\ proc \in ProcRow
    /\ faults \in 0..MaxFaults

-----------------------------------------------------------------------------
(* Jobs and runs.                                                          *)

\* Heads are numbered one after the other.
Numbered == \E h \in Runs : \A r \in Runs : jobs[r].status # "absent" <=> r <= h

\* A job that may be claimed has an attempt left, and the worker's job runs.
JobsFit ==
    /\ \A r \in Runs : /\ jobs[r].status = "queued" => jobs[r].attempt < MaxAttempts
                       /\ jobs[r].status = "absent" => jobs[r].attempt = 0
    /\ ~At("idle") => Mine \in Runs /\ jobs[Mine].status = "running"

OpSteps == {"next", "unresolve", "reply", "resolve", "mark", "opFailed"}

\* The status of the run at each step of the worker, and that it has an
\* operation while it is at one.
RunFits ==
    /\ At("persist") => run[Mine] = "generating"
    /\ At("load") => run[Mine] \in {"ready", "publishing", "published"}
    /\ proc.pc \in {"publish", "unpublished", "record"} => run[Mine] = "publishing"
    /\ proc.pc \in OpSteps \cup {"operations", "finish"} => run[Mine] = "published"
    /\ proc.pc \in OpSteps \ {"next"} => proc.todo # {}

-----------------------------------------------------------------------------
(* Findings, events and lineages.                                          *)

Matches(e, x) == x.run = e.run /\ x.lineage = e.lineage

\* Only a run that was persisted has events, only one that was published has
\* applied ones, these are of a lineage that is not pending any more, and an
\* event of a finding has its finding.
EventsFit ==
    \A e \in events :
      /\ run[e.run] \in {"ready", "publishing", "published"}
      /\ jobs[e.run].status # "absent"
      /\ e.applied => run[e.run] = "published" /\ lineage[e.lineage].status \in {"active", "addressed"}
      /\ e.kind # "addressed" => \E x \in findings : Matches(e, x)

LineagesFit == \A f \in Fingerprints : lineage[f].status = "none" => lineage[f] = NoLineage

JInv == Typed /\ Numbered /\ JobsFit /\ RunFits /\ EventsFit /\ LineagesFit

\* Rows are unique.
RowsUnique ==
    /\ \A e, d \in events : e.run = d.run /\ e.lineage = d.lineage => e = d
    /\ \A x, y \in findings : Matches(x, y) => x = y
    /\ \A x, y \in findings : x.run = y.run /\ x.fp = y.fp => x = y

\* Past its beginning, the worker's run is the newest that has events.
Newest == proc.pc \notin {"idle", "begin"} => \A e \in events : e.run <= Mine

\* A run that may still be recorded finds the lineages as it left them.
Recent(r) == r = Head \/ (r = Mine /\ proc.pc \notin {"idle", "begin"})
Unchanged ==
    \A e \in events : ~e.applied /\ run[e.run] # "published" /\ Recent(e.run) => Expected(e)

KInv == RowsUnique /\ Newest /\ Unchanged

-----------------------------------------------------------------------------
(* Threads.                                                                *)

\* A thread is of a finding that was published, and has its root comment.
ThreadsFit ==
    \A l \in Fingerprints : threads[l] # NoThread =>
      /\ threads[l].root \in Runs /\ run[threads[l].root] = "published"
      /\ threads[l].status \in {"active", "addressed"}
      /\ lineage[l].status \in {"active", "addressed"}
      /\ \E x \in findings : x.run = threads[l].root /\ x.lineage = l /\ <<x.run, x.fp>> \in github.roots

GitHubFits == github \in GitHubRow /\ github.resolved \subseteq github.roots

\* A finding that was anchored keeps the thread of its first run.
TrackedFits ==
    \A e \in events : e.kind = "new" /\ e.applied /\ e.run \in InlineRuns =>
        threads[e.lineage] # NoThread /\ threads[e.lineage].root = e.run

\* The findings that were to go inline.
InlineFits ==
    proc.pc \in {"publish", "unpublished", "record"} /\ Mine \in InlineRuns =>
      \A e \in events : \A x \in findings :
        e.run = Mine /\ e.kind = "new" /\ Matches(e, x) => x.fp \in proc.inline

\* The last transition of a lineage is its status.
Later(e) == {d \in events : /\ d.lineage = e.lineage /\ d.run > e.run /\ d.applied
                            /\ d.kind # "persistent"}
StatusOf(e) == IF e.kind = "addressed" THEN "addressed" ELSE "active"
LastFits ==
    \A e \in events : e.applied /\ e.kind \in {"addressed", "reopened"} /\ Later(e) = {} =>
        lineage[e.lineage].status = StatusOf(e)

TInv == ThreadsFit /\ GitHubFits /\ TrackedFits /\ InlineFits /\ LastFits

-----------------------------------------------------------------------------
(* Operations on threads.                                                  *)

Key(e) == [run |-> e.run, lineage |-> e.lineage]
Due(e) == e.applied /\ e.kind \in {"addressed", "reopened"} /\ threads[e.lineage] # NoThread

\* The operations of the worker: those to do, and the others are done.
TodoFits ==
    /\ proc.pc \in OpSteps =>
         \A l \in proc.todo : /\ ops[[run |-> Mine, lineage |-> l]] = "publishing"
                              /\ \E e \in events : e.run = Mine /\ e.lineage = l /\ Due(e)
    /\ proc.pc \in OpSteps \cup {"finish"} =>
         \A e \in events : e.run = Mine /\ Due(e) => e.lineage \in proc.todo \/ ops[Key(e)] = "published"
    /\ At("finish") => proc.todo = {}

SucceededFits ==
    \A e \in events : jobs[e.run].status = "succeeded" /\ Due(e) => ops[Key(e)] = "published"

\* What the worker knows of the thread it is moving.
MovingFits ==
    /\ proc.pc \in {"unresolve", "reply"} => (proc.replied <=> github.replies[OpKey] = 1)
    /\ At("unresolve") => Reopens /\ (proc.resolved <=> Root \in github.resolved)
    /\ At("reply") => IF Reopens THEN Root \notin github.resolved
                      ELSE proc.resolved <=> Root \in github.resolved
    /\ At("resolve") => ~Reopens /\ (proc.resolved <=> Root \in github.resolved)
    /\ proc.pc \in {"resolve", "mark"} => github.replies[OpKey] = 1
    /\ At("mark") => (Root \in github.resolved <=> ~Reopens)

\* What a finished operation left, until a later one of the thread.
MovedFits ==
    \A e \in events : Due(e) /\ ops[Key(e)] = "published" =>
        /\ github.replies[Key(e)] = 1
        /\ Later(e) = {} =>
             /\ threads[e.lineage].status = StatusOf(e)
             /\ \A x \in findings : x.run = threads[e.lineage].root /\ x.lineage = e.lineage =>
                  (<<x.run, x.fp>> \in github.resolved <=> e.kind = "addressed")

RepliesFit == \A e \in Event : github.replies[e] <= 1

\* Only a published run has operations.
OpsFit == \A k \in Event : ops[k] # "none" => run[k.run] = "published"

OInv == OpsFit /\ TodoFits /\ SucceededFits /\ MovingFits /\ MovedFits /\ RepliesFit

-----------------------------------------------------------------------------
(* Comments and the findings they belong to.                               *)

\* A new finding names its lineage.
NewFits == \A e \in events : \A x \in findings : e.kind = "new" /\ Matches(e, x) => x.fp = e.lineage

\* A run that is past its generation, or was given up with its job.
GivenUp(r) == jobs[r].status = "dead" /\ run[r] = "failed"
Settled(r) == run[r] \in {"ready", "publishing", "published", "superseded"} \/ GivenUp(r)

\* A finding of a run is still there, or went with the lineage another run
\* was the first to see.
HasNew(r, f) == \E e \in events : e.run = r /\ e.lineage = f /\ e.kind = "new"
Lost(r, f) == lineage[f] = NoLineage /\ \E s \in Runs : s # r /\ GivenUp(s)
Known(r, f) == HasNew(r, f) \/ Lost(r, f)

RootsFit ==
    \A r \in Runs, f \in Fingerprints : <<r, f>> \in github.roots =>
      /\ Settled(r) /\ jobs[r].status # "absent"
      /\ run[r] \in {"ready", "publishing"} /\ Recent(r) => Known(r, f)

InlineKnown == At("publish") => \A f \in proc.inline : Known(Mine, f)

CInv == NewFits /\ RootsFit /\ InlineKnown

-----------------------------------------------------------------------------
(* Jobs and the worker.                                                    *)

LEMMA Constants ==
    /\ NumRuns \in Nat \ {0} /\ MaxAttempts \in Nat \ {0} /\ MaxFaults \in Nat
    /\ Runs \subseteq Nat /\ NoRun \notin Runs /\ 1 \in Runs /\ Fingerprints \subseteq Nat
BY LineageAssumption DEF Runs, NoRun

LEMMA Shapes ==
    /\ Idle \in ProcRow /\ Idle.pc = "idle" /\ Idle.run = NoRun
    /\ NoLineage \in LineageRow /\ NoLineage.status = "none"
    /\ NoThread \in ThreadRow /\ NoThread.root = NoRun /\ NoThread.status = "none"
BY DEF Idle, ProcRow, Pcs, NoLineage, LineageRow, NoThread, ThreadRow

\* The newest head.
HeadOf(j) == CHOOSE r \in Runs : /\ j[r].status # "absent"
                                 /\ \A s \in Runs : s > r => j[s].status = "absent"

LEMMA HeadOfIs ==
    ASSUME NEW j, \E h \in Runs : \A r \in Runs : j[r].status # "absent" <=> r <= h
    PROVE  HeadOf(j) \in Runs /\ \A r \in Runs : j[r].status # "absent" <=> r <= HeadOf(j)
<1>1. PICK h \in Runs : \A r \in Runs : j[r].status # "absent" <=> r <= h
  OBVIOUS
<1> DEFINE P(r) == j[r].status # "absent" /\ \A s \in Runs : s > r => j[s].status = "absent"
<1>2. P(h)
  BY <1>1, Constants
<1>3. HeadOf(j) = CHOOSE r \in Runs : P(r)
  BY DEF HeadOf
<1>4. HeadOf(j) \in Runs /\ P(HeadOf(j))
  <2> HIDE DEF P
  <2>1. QED
    BY <1>2, <1>3
<1>5. HeadOf(j) = h
  <2>1. HeadOf(j) <= h
    BY <1>1, <1>4
  <2>2. ~(h > HeadOf(j))
    BY <1>2, <1>4
  <2> HIDE DEF P
  <2>3. HeadOf(j) \in Nat /\ h \in Nat
    BY <1>4, Constants
  <2>4. QED
    BY <2>1, <2>2, <2>3
<1>6. QED
  BY <1>1, <1>5

LEMMA HeadIs ==
    ASSUME Numbered
    PROVE  Head \in Runs /\ \A r \in Runs : jobs[r].status # "absent" <=> r <= Head
<1>1. Head = HeadOf(jobs)
  BY DEF Head, HeadOf
<1>2. QED
  BY <1>1, HeadOfIs DEF Numbered

LEMMA ToRow ==
    ASSUME Typed, NEW pc \in Pcs, To(pc)
    PROVE  /\ proc' \in ProcRow /\ proc'.pc = pc /\ proc'.run = proc.run /\ proc'.inline = proc.inline
           /\ proc'.todo = proc.todo /\ proc'.replied = proc.replied /\ proc'.resolved = proc.resolved
BY DEF Typed, To, ProcRow

\* The worker goes on with its run, or is free.
Moves == proc' \in ProcRow /\ (proc' = Idle \/ (proc.pc # "idle" /\ proc'.run = proc.run))

JobPart == jobs \in [Runs -> JobRow] /\ proc \in ProcRow /\ Numbered /\ JobsFit

LEMMA JobsSame ==
    ASSUME JInv, Moves, jobs' = jobs
    PROVE  JobPart'
<1>1. jobs \in [Runs -> JobRow] /\ Numbered /\ JobsFit
  BY DEF JInv, Typed
<1>2. Numbered'
  BY <1>1 DEF Numbered
<1>3. JobsFit'
  BY <1>1, Shapes DEF JobsFit, At, Mine, Moves
<1>4. QED
  BY <1>1, <1>2, <1>3 DEF JobPart, Moves

\* Jobs keep their place when no job is added.
LEMMA JobsRewritten ==
    ASSUME JInv, jobs' \in [Runs -> JobRow], proc' \in ProcRow,
           \A r \in Runs : /\ jobs[r].status = "absent" => jobs'[r] = jobs[r]
                           /\ jobs[r].status # "absent" => jobs'[r].status # "absent"
                           /\ jobs'[r].status = "queued" => jobs'[r].attempt < MaxAttempts,
           proc'.pc # "idle" => proc'.run \in Runs /\ jobs'[proc'.run].status = "running"
    PROVE  JobPart'
<1>1. Numbered'
  <2>1. PICK h \in Runs : \A r \in Runs : jobs[r].status # "absent" <=> r <= h
    BY DEF JInv, Numbered
  <2>2. \A r \in Runs : jobs'[r].status # "absent" <=> r <= h
    BY <2>1
  <2>3. QED
    BY <2>2 DEF Numbered
<1>2. JobsFit'
  BY DEF JInv, JobsFit, At, Mine
<1>3. QED
  BY <1>1, <1>2 DEF JobPart

LEMMA JobEnds ==
    ASSUME JInv, ~At("idle"), NEW status \in {"succeeded", "superseded", "dead", "queued"},
           status = "queued" => jobs[Mine].attempt < MaxAttempts, End(status)
    PROVE  JobPart'
<1>1. Mine \in Runs /\ jobs[Mine].status = "running" /\ jobs \in [Runs -> JobRow]
  BY DEF JInv, JobsFit, Typed
<1> DEFINE new == [jobs[Mine] EXCEPT !.status = status]
<1>2. jobs' = [jobs EXCEPT ![Mine] = new] /\ proc' = Idle
  BY DEF End
<1>3. new \in JobRow /\ new.status = status /\ new.attempt = jobs[Mine].attempt
  BY <1>1 DEF JobRow
<1> HIDE DEF new
<1>4. jobs' \in [Runs -> JobRow]
  BY <1>1, <1>2, <1>3
<1>5. ASSUME NEW r \in Runs
      PROVE  /\ jobs[r].status = "absent" => jobs'[r] = jobs[r]
             /\ jobs[r].status # "absent" => jobs'[r].status # "absent"
             /\ jobs'[r].status = "queued" => jobs'[r].attempt < MaxAttempts
  BY <1>1, <1>2, <1>3 DEF JInv, JobsFit
<1>6. QED
  BY <1>2, <1>4, <1>5, JobsRewritten, Shapes

LEMMA GivenBackFits ==
    ASSUME JInv, NEW r \in Runs
    PROVE  /\ GivenBack(r) \in {"dead", "queued"}
           /\ GivenBack(r) = "queued" => jobs[r].attempt < MaxAttempts
<1>1. jobs[r] \in JobRow
  BY DEF JInv, Typed
<1>2. jobs[r].attempt \in 0..MaxAttempts
  BY <1>1 DEF JobRow
<1>3. QED
  BY <1>2, Constants DEF GivenBack

LEMMA PushJobs ==
    ASSUME JInv, Push
    PROVE  JobPart' /\ \A r \in Runs : jobs[r].status = "running" => jobs'[r] = jobs[r]
<1>1. /\ jobs \in [Runs -> JobRow] /\ Head \in Runs /\ Head < NumRuns /\ proc' = proc /\ proc \in ProcRow
      /\ \A r \in Runs : jobs[r].status # "absent" <=> r <= Head
  BY HeadIs DEF JInv, Typed, Push
<1> DEFINE h == Head
           first(r) == [jobs[r] EXCEPT !.status = "queued"]
           over(r) == [jobs[r] EXCEPT !.status = "superseded"]
<1>2. jobs' = [r \in Runs |-> CASE r = h + 1 -> first(r)
                                [] jobs[r].status = "queued" -> over(r)
                                [] OTHER -> jobs[r]]
  BY Zenon DEF Push
<1>3. ASSUME NEW r \in Runs
      PROVE  /\ first(r) \in JobRow /\ first(r).status = "queued" /\ first(r).attempt = jobs[r].attempt
             /\ over(r) \in JobRow /\ over(r).status = "superseded"
  <2>1. jobs[r] \in JobRow
    BY <1>1
  <2>2. QED
    BY <2>1 DEF JobRow
<1> HIDE DEF first, over, h
<1>4. h + 1 \in Runs /\ h \in Nat /\ h = Head
  BY <1>1, Constants DEF Runs, h
<1>7. jobs[h + 1].status = "absent"
  BY <1>1, <1>4
<1> DEFINE row(r) == CASE r = h + 1 -> first(r)
                       [] jobs[r].status = "queued" -> over(r)
                       [] OTHER -> jobs[r]
<1>5. ASSUME NEW r \in Runs
      PROVE  /\ r = h + 1 => jobs'[r] = first(r)
             /\ r # h + 1 /\ jobs[r].status = "queued" => jobs'[r] = over(r)
             /\ r # h + 1 /\ jobs[r].status # "queued" => jobs'[r] = jobs[r]
  <2>1. jobs' = [x \in Runs |-> row(x)]
    BY <1>2, Zenon
  <2> HIDE DEF row
  <2>2. jobs'[r] = row(r)
    BY <2>1
  <2>3. /\ r = h + 1 => row(r) = first(r)
        /\ r # h + 1 /\ jobs[r].status = "queued" => row(r) = over(r)
        /\ r # h + 1 /\ jobs[r].status # "queued" => row(r) = jobs[r]
    BY <1>7 DEF row
  <2>4. QED
    BY <2>2, <2>3
<1>6. jobs' \in [Runs -> JobRow]
  <2>1. \A r \in Runs : jobs'[r] \in JobRow
    BY <1>1, <1>3, <1>5
  <2>2. QED
    BY <1>2, <2>1
<1>8. Numbered'
  <2>1. \A r \in Runs : jobs'[r].status # "absent" <=> r <= h + 1
    BY <1>1, <1>3, <1>4, <1>5, Constants
  <2>2. QED
    BY <1>4, <2>1 DEF Numbered
<1>9. \A r \in Runs : jobs[r].status = "running" => jobs'[r] = jobs[r]
  BY <1>5, <1>7
<1>10. JobsFit'
  <2>1. ASSUME NEW r \in Runs
        PROVE  /\ jobs'[r].status = "queued" => jobs'[r].attempt < MaxAttempts
               /\ jobs'[r].status = "absent" => jobs'[r].attempt = 0
    <3>1. jobs[h + 1].attempt = 0 /\ 0 < MaxAttempts
      BY <1>4, <1>7, Constants DEF JInv, JobsFit
    <3>2. QED
      BY <1>3, <1>5, <3>1 DEF JInv, JobsFit
  <2>2. QED
    BY <1>1, <1>9, <2>1 DEF JInv, JobsFit, At, Mine
<1>11. QED
  BY <1>1, <1>6, <1>8, <1>9, <1>10 DEF JobPart

\* Who swept and who claimed.
LEMMA ClaimJobs ==
    ASSUME JInv, Claim
    PROVE  /\ JobPart' /\ run' = run /\ UNCHANGED tables /\ At("idle")
           /\ \A r \in Runs : /\ jobs[r].status # "absent" <=> jobs'[r].status # "absent"
                              /\ jobs'[r].status = "succeeded" => jobs[r].status = "succeeded"
           /\ proc' = proc \/ (proc'.pc = "begin" /\ proc'.todo = {} /\ proc'.run \in Runs)
<1>1. jobs \in [Runs -> JobRow] /\ proc \in ProcRow /\ JobsFit
  BY DEF JInv, Typed
<1> DEFINE back(r) == [jobs[r] EXCEPT !.status = GivenBack(r)]
           sw(r) == IF jobs[r].status = "running" THEN back(r) ELSE jobs[r]
           swept == [r \in Runs |-> sw(r)]
           due == {r \in Runs : /\ swept[r].status = "queued"
                                /\ \A s \in Runs : s < r => swept[s].status # "queued"}
           up(r) == [status |-> "running", attempt |-> swept[r].attempt + 1]
           at(r) == [Idle EXCEPT !.pc = "begin", !.run = r]
<1>2. /\ At("idle") /\ UNCHANGED <<run, tables, github, faults>>
      /\ \/ jobs' = swept /\ proc' = proc
         \/ \E r \in due : jobs' = [swept EXCEPT ![r] = up(r)] /\ proc' = at(r)
  BY DEF Claim
<1>3. ASSUME NEW r \in Runs
      PROVE  back(r) \in JobRow /\ back(r).status = GivenBack(r) /\ back(r).attempt = jobs[r].attempt
  <2>1. jobs[r] \in JobRow
    BY <1>1
  <2>2. QED
    BY <2>1, GivenBackFits DEF JobRow
<1> HIDE DEF back
<1>4. ASSUME NEW r \in Runs
      PROVE  /\ swept[r] = sw(r) /\ sw(r) \in JobRow
             /\ jobs[r].status = "absent" => sw(r) = jobs[r]
             /\ jobs[r].status # "absent" => sw(r).status # "absent"
             /\ sw(r).status = "queued" => sw(r).attempt < MaxAttempts
             /\ sw(r).status = "succeeded" => jobs[r].status = "succeeded"
  BY <1>1, <1>3, GivenBackFits DEF JobsFit
<1> HIDE DEF sw
<1>5. swept \in [Runs -> JobRow] /\ DOMAIN swept = Runs
  BY <1>4
<1> HIDE DEF swept
<1>6. CASE jobs' = swept /\ proc' = proc
  <2>1. JobPart'
    BY <1>1, <1>2, <1>4, <1>5, <1>6, JobsRewritten DEF At
  <2>2. QED
    BY <1>2, <1>4, <1>6, <2>1
<1>7. ASSUME NEW q \in due, jobs' = [swept EXCEPT ![q] = up(q)], proc' = at(q)
      PROVE  /\ JobPart' /\ proc'.pc = "begin" /\ proc'.todo = {} /\ proc'.run \in Runs
             /\ \A r \in Runs : /\ jobs[r].status # "absent" <=> jobs'[r].status # "absent"
                                /\ jobs'[r].status = "succeeded" => jobs[r].status = "succeeded"
  <2>1. q \in Runs /\ sw(q).status = "queued" /\ swept[q] = sw(q) /\ sw(q) \in JobRow
    BY <1>4
  <2> DEFINE n == swept[q].attempt + 1
  <2>2. n \in 0..MaxAttempts
    <3>1. sw(q).attempt \in 0..MaxAttempts /\ sw(q).attempt < MaxAttempts
      BY <1>4, <2>1 DEF JobRow
    <3>2. QED
      BY <2>1, <3>1, Constants
  <2> HIDE DEF n
  <2>3. up(q) = [status |-> "running", attempt |-> n]
    BY DEF n
  <2>4. up(q) \in JobRow /\ up(q).status = "running"
    BY <2>2, <2>3 DEF JobRow
  <2> HIDE DEF up
  <2>5. at(q) \in ProcRow /\ at(q).pc = "begin" /\ at(q).todo = {} /\ at(q).run = q
    BY <2>1 DEF Idle, ProcRow, Pcs
  <2> HIDE DEF at, due
  <2>6. jobs' \in [Runs -> JobRow]
    BY <1>5, <1>7, <2>4
  <2>7. ASSUME NEW r \in Runs
        PROVE  /\ jobs[r].status = "absent" => jobs'[r] = jobs[r]
               /\ jobs[r].status # "absent" => jobs'[r].status # "absent"
               /\ jobs'[r].status = "queued" => jobs'[r].attempt < MaxAttempts
               /\ jobs'[r].status = "succeeded" => jobs[r].status = "succeeded"
    <3>1. CASE r = q
      <4>1. jobs'[r] = up(q)
        BY <1>5, <1>7, <2>1, <3>1
      <4>2. jobs[r].status # "absent"
        BY <1>4, <2>1, <3>1
      <4>3. QED
        BY <2>4, <4>1, <4>2
    <3>2. CASE r # q
      <4>1. jobs'[r] = sw(r)
        BY <1>4, <1>5, <1>7, <3>2
      <4>2. QED
        BY <1>4, <4>1
    <3>3. QED
      BY <3>1, <3>2
  <2>8. jobs'[q].status = "running"
    BY <1>5, <1>7, <2>1, <2>4
  <2>9. JobPart'
    BY <1>7, <2>1, <2>5, <2>6, <2>7, <2>8, JobsRewritten
  <2>10. QED
    BY <1>7, <2>1, <2>5, <2>7, <2>9
<1>8. QED
  <2> HIDE DEF due, up, at
  <2>1. QED
    BY <1>2, <1>6, <1>7

-----------------------------------------------------------------------------
(* What steps do to the tables.                                            *)

RowPart ==
    /\ run \in [Runs -> RunStatus] /\ lineage \in [Fingerprints -> LineageRow]
    /\ findings \subseteq FindingRow /\ events \subseteq EventRow
    /\ threads \in [Fingerprints -> ThreadRow]
    /\ ops \in [Event -> {"none", "publishing", "failed", "published"}]
    /\ EventsFit /\ LineagesFit

\* No job goes away.
Grows == \A r \in Runs : jobs[r].status # "absent" => jobs'[r].status # "absent"

\* What was published is kept.
Keeps ==
    \A e \in events : e.applied =>
      /\ e \in events'
      /\ \A x \in findings : x.run = e.run /\ x.lineage = e.lineage => x \in findings'

LEMMA RowsNow ==
    ASSUME JInv
    PROVE  /\ RowPart
           /\ \A e \in events : /\ e \in EventRow /\ e.run \in Runs /\ e.lineage \in Fingerprints
                                /\ e.kind \in Kinds /\ e.applied \in BOOLEAN
           /\ \A x \in findings : /\ x \in FindingRow /\ x.run \in Runs /\ x.fp \in Fingerprints
                                  /\ x.lineage \in Fingerprints
BY DEF JInv, Typed, RowPart, EventRow, FindingRow

LEMMA RowsSame ==
    ASSUME JInv, Grows, UNCHANGED <<run, lineage, findings, events>>,
           threads' \in [Fingerprints -> ThreadRow],
           ops' \in [Event -> {"none", "publishing", "failed", "published"}]
    PROVE  RowPart' /\ Keeps
<1>1. RowPart /\ \A e \in events : e.run \in Runs
  BY RowsNow
<1>2. EventsFit'
  BY <1>1 DEF RowPart, EventsFit, Grows
<1>3. LineagesFit'
  BY <1>1 DEF RowPart, LineagesFit
<1>4. QED
  BY <1>1, <1>2, <1>3 DEF RowPart, Keeps

LEMMA RunMoves ==
    ASSUME JInv, Grows, UNCHANGED tables, NEW r \in Runs, NEW s \in RunStatus,
           run' = [run EXCEPT ![r] = s], run[r] # "published",
           run[r] \in {"ready", "publishing"} => s \in {"ready", "publishing"}
    PROVE  RowPart' /\ Keeps
<1>1. RowPart /\ \A e \in events : e.run \in Runs
  BY RowsNow
<1>2. run' \in [Runs -> RunStatus] /\ run'[r] = s /\ \A q \in Runs : q # r => run'[q] = run[q]
  BY <1>1 DEF RowPart
<1>3. UNCHANGED <<lineage, findings, events, threads, ops>>
  BY DEF tables
<1>4. EventsFit'
  <2>1. ASSUME NEW e \in events
        PROVE  /\ run'[e.run] \in {"ready", "publishing", "published"}
               /\ jobs'[e.run].status # "absent"
               /\ e.applied => run'[e.run] = "published" /\ lineage[e.lineage].status \in {"active", "addressed"}
               /\ e.kind # "addressed" => \E x \in findings : Matches(e, x)
    BY <1>1, <1>2 DEF RowPart, EventsFit, Grows
  <2>2. QED
    BY <1>3, <2>1 DEF EventsFit
<1>5. LineagesFit'
  BY <1>1, <1>3 DEF RowPart, LineagesFit
<1>6. QED
  BY <1>1, <1>2, <1>3, <1>4, <1>5 DEF RowPart, Keeps

\* Discard takes only what was not published.
DiscardGoes(r) ==
    /\ \A f \in Fingerprints : IF f \in Pending(r) THEN lineage'[f] = NoLineage /\ threads'[f] = NoThread
                               ELSE lineage'[f] = lineage[f] /\ threads'[f] = threads[f]
    /\ findings' = {x \in findings : x.lineage \notin Pending(r) /\ x.run # r}
    /\ events' = {e \in events : e.lineage \notin Pending(r) /\ e.run # r}
    /\ \A e \in Event : ops'[e] = IF e.lineage \in Pending(r) THEN "none" ELSE ops[e]

LEMMA DiscardRows ==
    ASSUME JInv, Grows, NEW r \in Runs, NEW s \in RunStatus, Discard(r), run[r] \in Unpublished,
           run' = [run EXCEPT ![r] = s]
    PROVE  RowPart' /\ Keeps /\ DiscardGoes(r)
<1>1. RowPart /\ (\A e \in events : e.run \in Runs /\ e.lineage \in Fingerprints) /\ run[r] # "published"
  BY RowsNow DEF Unpublished
<1>2. run' \in [Runs -> RunStatus] /\ run'[r] = s /\ \A q \in Runs : q # r => run'[q] = run[q]
  BY <1>1 DEF RowPart
<1>3. \A e \in events : e.run = r => ~e.applied
  BY <1>1 DEF RowPart, EventsFit
<1>4. DiscardGoes(r)
  <2>1. findings' = {x \in findings : x.lineage \notin Pending(r) /\ x.run # r}
    BY DEF Discard, Kept
  <2>2. events' = {e \in events : e.lineage \notin Pending(r) /\ e.run # r}
    BY <1>3 DEF Discard, Kept
  <2>3. \A e \in Event : ops'[e] = IF e.lineage \in Pending(r) THEN "none" ELSE ops[e]
    BY DEF Discard
  <2>4. \A f \in Fingerprints : IF f \in Pending(r) THEN lineage'[f] = NoLineage /\ threads'[f] = NoThread
                                ELSE lineage'[f] = lineage[f] /\ threads'[f] = threads[f]
    BY DEF Discard
  <2>5. QED
    BY <2>1, <2>2, <2>3, <2>4 DEF DiscardGoes
<1>5. \A f \in Fingerprints : lineage[f].status \in {"active", "addressed"} => f \notin Pending(r)
  BY DEF Pending
<1>6. lineage' \in [Fingerprints -> LineageRow]
  BY <1>1, Shapes DEF Discard, RowPart
<1>7. threads' \in [Fingerprints -> ThreadRow]
  BY <1>1, Shapes DEF Discard, RowPart
<1>8. ops' \in [Event -> {"none", "publishing", "failed", "published"}]
  BY <1>1 DEF Discard, RowPart
<1>9. EventsFit'
  <2>1. ASSUME NEW e \in events'
        PROVE  /\ run'[e.run] \in {"ready", "publishing", "published"}
               /\ jobs'[e.run].status # "absent"
               /\ e.applied => run'[e.run] = "published" /\ lineage'[e.lineage].status \in {"active", "addressed"}
               /\ e.kind # "addressed" => \E x \in findings' : Matches(e, x)
    <3>1. e \in events /\ e.run # r /\ e.lineage \notin Pending(r)
      BY <1>4 DEF DiscardGoes
    <3>2. run'[e.run] = run[e.run] /\ lineage'[e.lineage] = lineage[e.lineage]
      BY <1>1, <1>2, <1>4, <3>1 DEF DiscardGoes
    <3>3. ASSUME e.kind # "addressed"
          PROVE  \E x \in findings' : Matches(e, x)
      <4>1. PICK x \in findings : Matches(e, x)
        BY <1>1, <3>1, <3>3 DEF RowPart, EventsFit
      <4>2. x \in findings'
        BY <1>4, <3>1, <4>1 DEF DiscardGoes, Matches
      <4>3. QED
        BY <4>1, <4>2
    <3>4. QED
      BY <1>1, <3>1, <3>2, <3>3 DEF RowPart, EventsFit, Grows
  <2>2. QED
    BY <2>1 DEF EventsFit
<1>10. LineagesFit'
  BY <1>1, <1>4, Shapes DEF DiscardGoes, RowPart, LineagesFit
<1>11. Keeps
  <2>1. ASSUME NEW e \in events, e.applied
        PROVE  e.lineage \notin Pending(r) /\ e.run # r
    BY <1>1, <1>3, <1>5, <2>1 DEF RowPart, EventsFit
  <2>2. QED
    BY <1>4, <2>1 DEF Keeps, DiscardGoes
<1>12. findings' \subseteq FindingRow /\ events' \subseteq EventRow
  BY <1>1, <1>4 DEF RowPart, DiscardGoes
<1>13. QED
  BY <1>2, <1>4, <1>6, <1>7, <1>8, <1>9, <1>10, <1>11, <1>12 DEF RowPart

-----------------------------------------------------------------------------
(* What a review is classified as.                                         *)

\* A transition, against the lineages as they are.
Shape(x) ==
    /\ x.kind \in Kinds /\ x.lineage \in Fingerprints
    /\ x.kind # "addressed" => x.fp \in Fingerprints
    /\ x.kind = "new" => x.lineage = x.fp /\ lineage[x.lineage].status \notin {"active", "addressed"}
    /\ x.kind \in {"persistent", "addressed"} => lineage[x.lineage].status = "active"
    /\ x.kind = "reopened" => lineage[x.lineage].status = "addressed"

Classified(t) ==
    /\ \A x \in t : Shape(x)
    /\ \A x, y \in t : x.lineage = y.lineage => x = y
    /\ \A x, y \in t : x.kind # "addressed" /\ y.kind # "addressed" /\ x.fp = y.fp => x = y

LEMMA TransitionShape ==
    ASSUME NEW current \in SUBSET Fingerprints, NEW match \in SUBSET (current \X History), NEW touched,
           NEW x \in Transitions(current, match, touched)
    PROVE  /\ x = [fp |-> x.fp, lineage |-> x.lineage, kind |-> x.kind]
           /\ \/ x.kind = "new" /\ x.fp \in current /\ x.lineage = x.fp /\ ~\E p \in match : p[1] = x.fp
              \/ /\ x.fp \in current /\ x.lineage \in History
                 /\ \E p \in match : p[1] = x.fp /\ p[2] = x.lineage
                 /\ x.kind = IF lineage[x.lineage].status = "addressed" THEN "reopened" ELSE "persistent"
              \/ /\ x.kind = "addressed" /\ x.lineage \in History /\ lineage[x.lineage].status = "active"
                 /\ x.fp = NoRun /\ \A p \in match : p[2] # x.lineage
<1> DEFINE known(f) == \E p \in match : p[1] = f
           pair(f) == CHOOSE p \in match : p[1] = f
           of(f) == pair(f)[2]
           kind(f) == CASE ~known(f) -> "new"
                        [] known(f) /\ lineage[of(f)].status = "addressed" -> "reopened"
                        [] OTHER -> "persistent"
           left == {h \in History : /\ lineage[h].status = "active"
                                    /\ \A p \in match : p[2] # h
                                    /\ PathOf(LastSeen(h)) \in touched}
<1>1. \/ \E f \in current : x = [fp |-> f, lineage |-> IF known(f) THEN of(f) ELSE f, kind |-> kind(f)]
      \/ \E l \in left : x = [fp |-> NoRun, lineage |-> l, kind |-> "addressed"]
  BY DEF Transitions
<1>2. ASSUME NEW f \in current, known(f)
      PROVE  pair(f) \in match /\ pair(f)[1] = f /\ of(f) \in History
  <2>1. pair(f) \in match /\ pair(f)[1] = f
    BY <1>2
  <2> HIDE DEF pair
  <2>2. QED
    BY <2>1
<1>3. ASSUME NEW f \in current
      PROVE  kind(f) = IF known(f) THEN IF lineage[of(f)].status = "addressed" THEN "reopened" ELSE "persistent"
                       ELSE "new"
  <2> HIDE DEF pair, known, of
  <2>1. QED
    BY DEF kind
<1> HIDE DEF kind, pair
<1>4. CASE \E f \in current : x = [fp |-> f, lineage |-> IF known(f) THEN of(f) ELSE f, kind |-> kind(f)]
  <2>1. PICK f \in current : x = [fp |-> f, lineage |-> IF known(f) THEN of(f) ELSE f, kind |-> kind(f)]
    BY <1>4
  <2>2. CASE known(f)
    <3>1. x.fp = f /\ x.lineage = of(f) /\ x.kind = kind(f) /\ x = [fp |-> x.fp, lineage |-> x.lineage, kind |-> x.kind]
      <4> HIDE DEF known, of
      <4>1. QED
        BY <2>1, <2>2
    <3>2. QED
      BY <1>2, <1>3, <2>2, <3>1
  <2>3. CASE ~known(f)
    <3>1. x.fp = f /\ x.lineage = f /\ x.kind = "new" /\ x = [fp |-> x.fp, lineage |-> x.lineage, kind |-> x.kind]
      <4> HIDE DEF known, of
      <4>1. QED
        BY <1>3, <2>1, <2>3
    <3>2. QED
      BY <2>3, <3>1
  <2>4. QED
    BY <2>2, <2>3
<1>5. CASE \E l \in left : x = [fp |-> NoRun, lineage |-> l, kind |-> "addressed"]
  BY <1>5
<1>6. QED
  BY <1>1, <1>4, <1>5

LEMMA ClassifiedRightly ==
    ASSUME JInv, NEW current \in SUBSET Fingerprints, NEW match \in SUBSET (current \X History), NEW touched,
           Greedy(match, current), ~Collides(Transitions(current, match, touched))
    PROVE  Classified(Transitions(current, match, touched))
<1> DEFINE t == Transitions(current, match, touched)
           new(x) == x.kind = "new" /\ x.fp \in current /\ x.lineage = x.fp /\ ~\E p \in match : p[1] = x.fp
           old(x) == /\ x.fp \in current /\ x.lineage \in History
                     /\ \E p \in match : p[1] = x.fp /\ p[2] = x.lineage
                     /\ x.kind = IF lineage[x.lineage].status = "addressed" THEN "reopened" ELSE "persistent"
           off(x) == /\ x.kind = "addressed" /\ x.lineage \in History /\ lineage[x.lineage].status = "active"
                     /\ x.fp = NoRun /\ \A p \in match : p[2] # x.lineage
           full(x) == x = [fp |-> x.fp, lineage |-> x.lineage, kind |-> x.kind]
<1>1. \A x \in t : full(x) /\ (new(x) \/ old(x) \/ off(x))
  BY TransitionShape
<1>2. \A p, q \in match : p # q => p[1] # q[1] /\ p[2] # q[2]
  BY DEF Greedy
<1>3. \A x \in t : x.kind = "new" => lineage[x.lineage].status \notin {"active", "addressed"}
  BY DEF Collides
<1>4. \A f \in History : f \in Fingerprints /\ lineage[f].status \in {"active", "addressed"}
  BY DEF History
<1> HIDE DEF t, full
<1>5. \A x \in t : Shape(x)
  BY <1>1, <1>3, <1>4 DEF Shape, Kinds
<1>6. ASSUME NEW x \in t, NEW y \in t, x.fp = y.fp, x.lineage = y.lineage, x.kind = y.kind
      PROVE  x = y
  BY <1>1, <1>6 DEF full
<1>7. ASSUME NEW x \in t, NEW y \in t, x.lineage = y.lineage
      PROVE  x = y
  BY <1>1, <1>2, <1>3, <1>4, <1>6, <1>7
<1>8. ASSUME NEW x \in t, NEW y \in t, x.kind # "addressed", y.kind # "addressed", x.fp = y.fp
      PROVE  x = y
  BY <1>1, <1>2, <1>6, <1>8
<1>9. QED
  BY <1>5, <1>7, <1>8 DEF Classified, t

-----------------------------------------------------------------------------
(* What a review leaves when its report is persisted.                      *)

NewFinding(x) == [run |-> Mine, fp |-> x.fp, lineage |-> x.lineage]
NewEvent(x) == [run |-> Mine, lineage |-> x.lineage, kind |-> x.kind, applied |-> FALSE]
PendingRow == [status |-> "pending", first |-> Mine]

PersistTo(t) ==
    /\ lineage' = [f \in Fingerprints |-> lineage'[f]]
    /\ \A f \in Fingerprints :
         IF \E x \in t : x.kind = "new" /\ x.lineage = f
         THEN lineage'[f] = IF f \in Pending(Mine) \/ lineage[f] = NoLineage THEN PendingRow ELSE lineage[f]
         ELSE lineage'[f] = IF f \in Pending(Mine) THEN NoLineage ELSE lineage[f]
    /\ findings' = {x \in findings : x.lineage \notin Pending(Mine) /\ x.run # Mine} \cup
                     {NewFinding(x) : x \in {y \in t : y.kind # "addressed"}}
    /\ events' = {e \in events : e.lineage \notin Pending(Mine)} \cup {NewEvent(x) : x \in t}
    /\ run' = [run EXCEPT ![Mine] = "ready"] /\ To("load")
    /\ UNCHANGED <<threads, ops>>

Persisted == \E t : Classified(t) /\ PersistTo(t)

LEMMA PersistGoes ==
    ASSUME JInv, Persist
    PROVE  /\ At("persist") /\ Mine \in Runs /\ Mine = Head /\ run[Mine] = "generating"
           /\ \A e \in events : e.run # Mine
           /\ UNCHANGED <<jobs, github, faults>>
           /\ Persisted \/ (To("failed") /\ UNCHANGED <<run, tables>>)
<1>1. /\ At("persist") /\ Mine \in Runs /\ Mine = Head /\ run[Mine] = "generating" /\ ~At("idle")
      /\ UNCHANGED <<jobs, github, faults>>
  BY DEF Persist, JInv, JobsFit, RunFits, At
<1>2. \A e \in events : e.run # Mine
  BY <1>1 DEF JInv, EventsFit
<1>3. PICK current \in SUBSET Fingerprints, touched \in SUBSET {PathOf(f) : f \in Fingerprints} :
      \E match \in SUBSET (current \X History) :
         LET gone == Pending(Mine)
             t == Transitions(current, match, touched)
             fresh == {x.lineage : x \in {y \in t : y.kind = "new"}}
         IN  /\ Greedy(match, current)
             /\ IF Collides(t)
                THEN To("failed") /\ UNCHANGED <<run, tables>>
                ELSE /\ lineage' = [f \in Fingerprints |->
                                      CASE f \in fresh /\ (f \in gone \/ lineage[f] = NoLineage)
                                              -> [status |-> "pending", first |-> Mine]
                                        [] f \in gone \ fresh -> NoLineage
                                        [] OTHER -> lineage[f]]
                     /\ findings' = {x \in Kept(findings, gone) : x.run # Mine} \cup
                          {[run |-> Mine, fp |-> x.fp, lineage |-> x.lineage] :
                             x \in {y \in t : y.kind # "addressed"}}
                     /\ events' = {e \in Kept(events, gone) : e.run = Mine => e.applied} \cup
                          {[run |-> Mine, lineage |-> x.lineage, kind |-> x.kind,
                            applied |-> FALSE] : x \in t}
                     /\ run' = [run EXCEPT ![Mine] = "ready"]
                     /\ To("load")
                     /\ UNCHANGED <<threads, ops>>
  BY Zenon DEF Persist
<1>4. PICK match \in SUBSET (current \X History) :
         LET gone == Pending(Mine)
             t == Transitions(current, match, touched)
             fresh == {x.lineage : x \in {y \in t : y.kind = "new"}}
         IN  /\ Greedy(match, current)
             /\ IF Collides(t)
                THEN To("failed") /\ UNCHANGED <<run, tables>>
                ELSE /\ lineage' = [f \in Fingerprints |->
                                      CASE f \in fresh /\ (f \in gone \/ lineage[f] = NoLineage)
                                              -> [status |-> "pending", first |-> Mine]
                                        [] f \in gone \ fresh -> NoLineage
                                        [] OTHER -> lineage[f]]
                     /\ findings' = {x \in Kept(findings, gone) : x.run # Mine} \cup
                          {[run |-> Mine, fp |-> x.fp, lineage |-> x.lineage] :
                             x \in {y \in t : y.kind # "addressed"}}
                     /\ events' = {e \in Kept(events, gone) : e.run = Mine => e.applied} \cup
                          {[run |-> Mine, lineage |-> x.lineage, kind |-> x.kind,
                            applied |-> FALSE] : x \in t}
                     /\ run' = [run EXCEPT ![Mine] = "ready"]
                     /\ To("load")
                     /\ UNCHANGED <<threads, ops>>
  BY <1>3, Zenon
<1> DEFINE t == Transitions(current, match, touched)
           fresh == {x.lineage : x \in {y \in t : y.kind = "new"}}
           gone == Pending(Mine)
<1>5. CASE Collides(t)
  BY <1>1, <1>2, <1>4, <1>5
<1>6. CASE ~Collides(t)
  <2>1. Classified(t)
    BY <1>4, <1>6, ClassifiedRightly
  <2> DEFINE row(f) == CASE f \in fresh /\ (f \in gone \/ lineage[f] = NoLineage)
                              -> [status |-> "pending", first |-> Mine]
                         [] f \in gone \ fresh -> NoLineage
                         [] OTHER -> lineage[f]
  <2>2. /\ lineage' = [f \in Fingerprints |-> row(f)]
        /\ findings' = {x \in Kept(findings, gone) : x.run # Mine} \cup
             {[run |-> Mine, fp |-> x.fp, lineage |-> x.lineage] : x \in {y \in t : y.kind # "addressed"}}
        /\ events' = {e \in Kept(events, gone) : e.run = Mine => e.applied} \cup
             {[run |-> Mine, lineage |-> x.lineage, kind |-> x.kind, applied |-> FALSE] : x \in t}
        /\ run' = [run EXCEPT ![Mine] = "ready"] /\ To("load") /\ UNCHANGED <<threads, ops>>
    BY <1>4, <1>6, Zenon
  <2> HIDE DEF t
  <2>3. ASSUME NEW f \in Fingerprints
        PROVE  IF \E x \in t : x.kind = "new" /\ x.lineage = f
               THEN lineage'[f] = IF f \in Pending(Mine) \/ lineage[f] = NoLineage THEN PendingRow ELSE lineage[f]
               ELSE lineage'[f] = IF f \in Pending(Mine) THEN NoLineage ELSE lineage[f]
    <3>1. f \in fresh <=> \E x \in t : x.kind = "new" /\ x.lineage = f
      OBVIOUS
    <3> HIDE DEF fresh, gone
    <3>2. row(f) = IF f \in fresh THEN IF f \in gone \/ lineage[f] = NoLineage THEN PendingRow ELSE lineage[f]
                   ELSE IF f \in gone THEN NoLineage ELSE lineage[f]
      BY DEF row, PendingRow
    <3> HIDE DEF row
    <3>3. lineage'[f] = row(f)
      BY <2>2
    <3>4. QED
      BY <3>1, <3>2, <3>3 DEF gone
  <2> HIDE DEF row, fresh
  <2>4. findings' = {x \in findings : x.lineage \notin Pending(Mine) /\ x.run # Mine} \cup
                      {NewFinding(x) : x \in {y \in t : y.kind # "addressed"}}
    BY <2>2 DEF Kept, NewFinding
  <2>5. events' = {e \in events : e.lineage \notin Pending(Mine)} \cup {NewEvent(x) : x \in t}
    <3>1. {e \in Kept(events, gone) : e.run = Mine => e.applied} = {e \in events : e.lineage \notin Pending(Mine)}
      BY <1>2 DEF Kept
    <3>2. QED
      BY <2>2, <3>1 DEF NewEvent
  <2>6. PersistTo(t)
    <3>1. lineage' = [f \in Fingerprints |-> lineage'[f]]
      BY <2>2
    <3>2. QED
      BY <2>2, <2>3, <2>4, <2>5, <3>1 DEF PersistTo
  <2>7. QED
    BY <1>1, <1>2, <2>1, <2>6 DEF Persisted
<1>7. QED
  BY <1>5, <1>6

\* Old rows and new ones.
LEMMA PersistSplits ==
    ASSUME JInv, Mine \in Runs, NEW t, Classified(t), PersistTo(t)
    PROVE  /\ \A e \in events' : \/ e \in events /\ e.lineage \notin Pending(Mine)
                                 \/ \E x \in t : e = NewEvent(x)
           /\ \A y \in findings' : \/ y \in findings /\ y.lineage \notin Pending(Mine) /\ y.run # Mine
                                   \/ \E x \in t : x.kind # "addressed" /\ y = NewFinding(x)
           /\ \A x \in t : /\ NewEvent(x) \in events' /\ NewEvent(x) \in EventRow
                           /\ NewEvent(x).run = Mine /\ NewEvent(x).lineage = x.lineage
                           /\ NewEvent(x).kind = x.kind /\ NewEvent(x).applied = FALSE
           /\ \A x \in t : x.kind # "addressed" =>
                           /\ NewFinding(x) \in findings' /\ NewFinding(x) \in FindingRow
                           /\ NewFinding(x).run = Mine /\ NewFinding(x).lineage = x.lineage
                           /\ NewFinding(x).fp = x.fp
<1>1. \A x \in t : Shape(x)
  BY DEF Classified
<1>2. ASSUME NEW x \in t
      PROVE  /\ NewEvent(x) \in EventRow
             /\ NewEvent(x).run = Mine /\ NewEvent(x).lineage = x.lineage
             /\ NewEvent(x).kind = x.kind /\ NewEvent(x).applied = FALSE
  BY <1>1 DEF Shape, NewEvent, EventRow
<1>3. ASSUME NEW x \in t, x.kind # "addressed"
      PROVE  /\ NewFinding(x) \in FindingRow
             /\ NewFinding(x).run = Mine /\ NewFinding(x).lineage = x.lineage /\ NewFinding(x).fp = x.fp
  BY <1>1, <1>3 DEF Shape, NewFinding, FindingRow
<1>4. /\ findings' = {x \in findings : x.lineage \notin Pending(Mine) /\ x.run # Mine} \cup
                     {NewFinding(x) : x \in {y \in t : y.kind # "addressed"}}
      /\ events' = {e \in events : e.lineage \notin Pending(Mine)} \cup {NewEvent(x) : x \in t}
  BY DEF PersistTo
<1>5. QED
  BY <1>2, <1>3, <1>4

\* The lineage of each transition, as the review leaves it.
LEMMA PersistLeaves ==
    ASSUME JInv, Mine \in Runs, NEW t, Classified(t), PersistTo(t)
    PROVE  /\ lineage' \in [Fingerprints -> LineageRow]
           /\ \A f \in Fingerprints : /\ lineage'[f] \in LineageRow
                                      /\ lineage'[f].status = "none" => lineage'[f] = NoLineage
                                      /\ lineage[f].status \in {"active", "addressed"} => lineage'[f] = lineage[f]
                                      /\ f \notin Pending(Mine) /\ lineage[f].status # "none" => lineage'[f] = lineage[f]
           /\ \A x \in t : lineage'[x.lineage].status = CASE x.kind = "new" -> "pending"
                                                          [] x.kind = "persistent" -> "active"
                                                          [] x.kind = "reopened" -> "addressed"
                                                          [] x.kind = "addressed" -> "active"
<1>1. PendingRow \in LineageRow /\ PendingRow.status = "pending"
  BY DEF PendingRow, LineageRow
<1>2. ASSUME NEW f \in Fingerprints
      PROVE  /\ lineage[f] \in LineageRow /\ lineage[f].status \in {"none", "pending", "active", "addressed"}
             /\ lineage[f].status = "none" => lineage[f] = NoLineage
             /\ f \in Pending(Mine) => lineage[f].status = "pending"
  BY DEF JInv, Typed, LineagesFit, Pending, LineageRow
<1>3. ASSUME NEW f \in Fingerprints
      PROVE  /\ lineage'[f] \in LineageRow
             /\ lineage'[f].status = "none" => lineage'[f] = NoLineage
             /\ lineage[f].status \in {"active", "addressed"} => lineage'[f] = lineage[f]
             /\ f \notin Pending(Mine) /\ lineage[f].status # "none" => lineage'[f] = lineage[f]
  BY <1>1, <1>2, Shapes DEF PersistTo
<1>4. ASSUME NEW x \in t
      PROVE  lineage'[x.lineage].status = CASE x.kind = "new" -> "pending"
                                            [] x.kind = "persistent" -> "active"
                                            [] x.kind = "reopened" -> "addressed"
                                            [] x.kind = "addressed" -> "active"
  <2>1. Shape(x)
    BY DEF Classified
  <2>2. CASE x.kind = "new"
    <3>1. lineage'[x.lineage] = IF x.lineage \in Pending(Mine) \/ lineage[x.lineage] = NoLineage
                                THEN PendingRow ELSE lineage[x.lineage]
      BY <2>1, <2>2 DEF PersistTo, Shape
    <3>2. lineage'[x.lineage].status = "pending"
      BY <1>1, <1>2, <2>1, <2>2, <3>1 DEF Shape
    <3>3. QED
      BY <2>2, <3>2
  <2>3. CASE x.kind # "new"
    BY <1>3, <2>1, <2>3 DEF Shape, Kinds
  <2>4. QED
    BY <2>2, <2>3
<1>5. lineage' \in [Fingerprints -> LineageRow]
  <2>1. lineage' = [f \in Fingerprints |-> lineage'[f]]
    BY DEF PersistTo
  <2>2. QED
    BY <1>3, <2>1
<1>6. QED
  BY <1>3, <1>4, <1>5

RowsFrom(t) ==
    /\ \A e \in events' : \/ e \in events /\ e.lineage \notin Pending(Mine)
                          \/ \E x \in t : /\ e = NewEvent(x) /\ e.run = Mine /\ e.lineage = x.lineage
                                          /\ e.kind = x.kind /\ e.applied = FALSE
    /\ \A y \in findings' : \/ y \in findings /\ y.lineage \notin Pending(Mine) /\ y.run # Mine
                            \/ \E x \in t : /\ x.kind # "addressed" /\ y = NewFinding(x)
                                            /\ y.run = Mine /\ y.lineage = x.lineage /\ y.fp = x.fp

LEMMA PersistFrom ==
    ASSUME JInv, Mine \in Runs, NEW t, Classified(t), PersistTo(t)
    PROVE  RowsFrom(t)
<1>1. ASSUME NEW e \in events', ~(e \in events /\ e.lineage \notin Pending(Mine))
      PROVE  \E x \in t : /\ e = NewEvent(x) /\ e.run = Mine /\ e.lineage = x.lineage
                          /\ e.kind = x.kind /\ e.applied = FALSE
  <2>1. PICK x \in t : e = NewEvent(x)
    BY <1>1, PersistSplits
  <2>2. e.run = Mine /\ e.lineage = x.lineage /\ e.kind = x.kind /\ e.applied = FALSE
    BY <2>1, PersistSplits
  <2>3. QED
    BY <2>1, <2>2
<1>2. ASSUME NEW y \in findings', ~(y \in findings /\ y.lineage \notin Pending(Mine) /\ y.run # Mine)
      PROVE  \E x \in t : /\ x.kind # "addressed" /\ y = NewFinding(x)
                          /\ y.run = Mine /\ y.lineage = x.lineage /\ y.fp = x.fp
  <2>1. PICK x \in t : x.kind # "addressed" /\ y = NewFinding(x)
    BY <1>2, PersistSplits
  <2>2. y.run = Mine /\ y.lineage = x.lineage /\ y.fp = x.fp
    BY <2>1, PersistSplits
  <2>3. QED
    BY <2>1, <2>2
<1>3. QED
  BY <1>1, <1>2 DEF RowsFrom

LEMMA PersistRows ==
    ASSUME JInv, Grows, Mine \in Runs, run[Mine] = "generating", \A e \in events : e.run # Mine,
           jobs[Mine].status # "absent", NEW t, Classified(t), PersistTo(t)
    PROVE  RowPart' /\ Keeps
<1>1. RowPart /\ \A e \in events : e \in EventRow /\ e.run \in Runs /\ e.lineage \in Fingerprints
  BY RowsNow
<1>2. \A x \in t : Shape(x)
  BY DEF Classified
<1>3. run' \in [Runs -> RunStatus] /\ run'[Mine] = "ready" /\ \A q \in Runs : q # Mine => run'[q] = run[q]
  BY <1>1 DEF PersistTo, RowPart, RunStatus, Unpublished
<1>4. /\ lineage' \in [Fingerprints -> LineageRow]
      /\ \A f \in Fingerprints : /\ lineage'[f].status = "none" => lineage'[f] = NoLineage
                                 /\ lineage[f].status \in {"active", "addressed"} => lineage'[f] = lineage[f]
  BY PersistLeaves
<1>5. findings' \subseteq FindingRow /\ events' \subseteq EventRow
  BY <1>1, PersistSplits, RowsNow
<1>6. EventsFit'
  <2>1. ASSUME NEW e \in events'
        PROVE  /\ run'[e.run] \in {"ready", "publishing", "published"}
               /\ jobs'[e.run].status # "absent"
               /\ e.applied => run'[e.run] = "published" /\ lineage'[e.lineage].status \in {"active", "addressed"}
               /\ e.kind # "addressed" => \E x \in findings' : Matches(e, x)
    <3>1. CASE e \in events /\ e.lineage \notin Pending(Mine)
      <4>1. run'[e.run] = run[e.run] /\ e.run # Mine
        BY <1>1, <1>3, <3>1
      <4>2. ASSUME e.kind # "addressed"
            PROVE  \E x \in findings' : Matches(e, x)
        <5>1. PICK x \in findings : Matches(e, x)
          BY <1>1, <3>1, <4>2 DEF RowPart, EventsFit
        <5>2. x \in {y \in findings : y.lineage \notin Pending(Mine) /\ y.run # Mine}
          BY <3>1, <4>1, <5>1 DEF Matches
        <5>3. x \in findings'
          BY <5>2 DEF PersistTo
        <5>4. QED
          BY <5>1, <5>3
      <4>3. QED
        BY <1>1, <1>4, <3>1, <4>1, <4>2 DEF RowPart, EventsFit, Grows
    <3>2. CASE \E x \in t : e = NewEvent(x)
      <4>1. PICK x \in t : e = NewEvent(x)
        BY <3>2
      <4>2. e.run = Mine /\ ~e.applied /\ e.lineage = x.lineage /\ e.kind = x.kind
        BY <4>1, PersistSplits
      <4>3. ASSUME e.kind # "addressed"
            PROVE  \E y \in findings' : Matches(e, y)
        <5>1. NewFinding(x) \in findings' /\ NewFinding(x).run = Mine /\ NewFinding(x).lineage = x.lineage
          BY <4>2, <4>3, PersistSplits
        <5>2. QED
          BY <4>2, <5>1 DEF Matches
      <4>4. QED
        BY <1>3, <4>2, <4>3 DEF Grows
    <3>3. QED
      BY <3>1, <3>2, PersistSplits
  <2>2. QED
    BY <2>1 DEF EventsFit
<1>7. LineagesFit'
  BY <1>4 DEF LineagesFit
<1>8. Keeps
  <2>1. ASSUME NEW e \in events, e.applied
        PROVE  e.lineage \notin Pending(Mine) /\ e.run # Mine
    BY <1>1, <2>1 DEF RowPart, EventsFit, Pending
  <2>2. QED
    BY <2>1 DEF Keeps, PersistTo
<1>9. threads' = threads /\ ops' = ops
  BY DEF PersistTo
<1>10. QED
  BY <1>1, <1>3, <1>4, <1>5, <1>6, <1>7, <1>8, <1>9 DEF RowPart

-----------------------------------------------------------------------------
(* What is left when a review is recorded.                                 *)

Rooted(l) == \E e \in EventsOf(Mine) : e.kind = "new" /\ e.lineage = l /\ FingerprintOf(e) \in Anchored

RecordTo ==
    /\ Recordable /\ \A e \in ToApply : Expected(e)
    /\ threads' \in [Fingerprints -> ThreadRow] /\ lineage' \in [Fingerprints -> LineageRow]
    /\ \A l \in Fingerprints :
         /\ threads'[l] = IF Rooted(l) THEN [root |-> Mine, status |-> "active"] ELSE threads[l]
         /\ (\A e \in ToApply : e.lineage # l) => lineage'[l] = lineage[l]
         /\ (\E e \in ToApply : e.lineage = l) => lineage'[l].first = lineage[l].first
         /\ (\E e \in ToApply : e.lineage = l /\ e.kind = "addressed") => lineage'[l].status = "addressed"
         /\ (\E e \in ToApply : e.lineage = l) /\ (\A e \in ToApply : e.lineage = l => e.kind # "addressed")
              => lineage'[l].status = "active"
    /\ run' = [run EXCEPT ![Mine] = "published"] /\ To("operations")

\* The events, as the record leaves them.
RecordSets ==
    /\ \A e \in events : \E d \in events' :
         /\ d.run = e.run /\ d.lineage = e.lineage /\ d.kind = e.kind /\ d.applied = (e.applied \/ e \in ToApply)
         /\ e.applied => d = e
    /\ \A d \in events' : \E e \in events :
         /\ d.run = e.run /\ d.lineage = e.lineage /\ d.kind = e.kind /\ d.applied = (e.applied \/ e \in ToApply)
         /\ e \notin ToApply => d = e
         /\ d = [e EXCEPT !.applied = d.applied]
    /\ events' \subseteq EventRow

LEMMA RecordGoes ==
    ASSUME JInv, Record
    PROVE  /\ At("record") /\ Mine \in Runs /\ run[Mine] = "publishing"
           /\ UNCHANGED <<jobs, findings, ops, github, faults>>
           /\ (RecordTo /\ RecordSets) \/ (To("failed") /\ UNCHANGED <<run, tables>>)
<1>1. /\ At("record") /\ Mine \in Runs /\ run[Mine] = "publishing"
      /\ UNCHANGED <<jobs, findings, ops, github, faults>>
  BY DEF Record, JInv, JobsFit, RunFits, At
<1>2. RowPart /\ \A e \in events : /\ e \in EventRow /\ e.run \in Runs /\ e.lineage \in Fingerprints
                                   /\ e.applied \in BOOLEAN
  BY RowsNow
<1>3. CASE ~(Recordable /\ \A e \in ToApply : Expected(e))
  BY <1>1, <1>3 DEF Record, tables
<1>4. CASE Recordable /\ \A e \in ToApply : Expected(e)
  <2> DEFINE th(l) == IF \E e \in EventsOf(Mine) : /\ e.kind = "new" /\ e.lineage = l
                                                   /\ FingerprintOf(e) \in Anchored
                      THEN [root |-> Mine, status |-> "active"] ELSE threads[l]
             st(l) == IF \E e \in ToApply : e.lineage = l /\ e.kind = "addressed" THEN "addressed" ELSE "active"
             moved(l) == [lineage[l] EXCEPT !.status = st(l)]
             ln(l) == IF \E e \in ToApply : e.lineage = l THEN moved(l) ELSE lineage[l]
             on(e) == [e EXCEPT !.applied = TRUE]
             ev(e) == IF e \in ToApply THEN on(e) ELSE e
  <2>1. /\ threads' = [l \in Fingerprints |-> th(l)] /\ lineage' = [l \in Fingerprints |-> ln(l)]
        /\ events' = {ev(e) : e \in events}
        /\ run' = [run EXCEPT ![Mine] = "published"] /\ To("operations")
    BY <1>4, Zenon DEF Record
  <2>2. ASSUME NEW l \in Fingerprints
        PROVE  th(l) \in ThreadRow /\ th(l) = IF Rooted(l) THEN [root |-> Mine, status |-> "active"] ELSE threads[l]
    <3>1. [root |-> Mine, status |-> "active"] \in ThreadRow
      BY <1>1 DEF ThreadRow
    <3>2. QED
      BY <1>2, <3>1 DEF RowPart, Rooted
  <2> HIDE DEF th
  <2>3. ASSUME NEW l \in Fingerprints
        PROVE  moved(l) \in LineageRow /\ moved(l).status = st(l) /\ moved(l).first = lineage[l].first
    <3>1. lineage[l] \in LineageRow /\ st(l) \in {"addressed", "active"}
      BY <1>2 DEF RowPart
    <3> HIDE DEF st
    <3>2. QED
      BY <3>1 DEF LineageRow
  <2> HIDE DEF moved
  <2>4. ASSUME NEW l \in Fingerprints
        PROVE  /\ ln(l) \in LineageRow
               /\ (\A e \in ToApply : e.lineage # l) => ln(l) = lineage[l]
               /\ (\E e \in ToApply : e.lineage = l) => ln(l).first = lineage[l].first
               /\ (\E e \in ToApply : e.lineage = l /\ e.kind = "addressed") => ln(l).status = "addressed"
               /\ (\E e \in ToApply : e.lineage = l) /\ (\A e \in ToApply : e.lineage = l => e.kind # "addressed")
                    => ln(l).status = "active"
    BY <1>2, <2>3 DEF RowPart
  <2> HIDE DEF ln
  <2>5. ASSUME NEW e \in events
        PROVE  /\ on(e) \in EventRow /\ on(e).run = e.run /\ on(e).lineage = e.lineage /\ on(e).kind = e.kind
               /\ on(e).applied = TRUE
    BY <1>2 DEF EventRow
  <2> HIDE DEF on
  <2>6. ASSUME NEW e \in events
        PROVE  /\ ev(e) \in EventRow /\ ev(e).run = e.run /\ ev(e).lineage = e.lineage /\ ev(e).kind = e.kind
               /\ ev(e).applied = (e.applied \/ e \in ToApply)
               /\ e \notin ToApply => ev(e) = e
    BY <1>2, <2>5
  <2>7. \A e \in events : e.applied => e \notin ToApply
    BY DEF ToApply
  <2>8. ASSUME NEW e \in events
        PROVE  ev(e) = [e EXCEPT !.applied = ev(e).applied]
    <3>1. e = [run |-> e.run, lineage |-> e.lineage, kind |-> e.kind, applied |-> e.applied]
      BY <1>2 DEF EventRow
    <3>2. ev(e) = [run |-> ev(e).run, lineage |-> ev(e).lineage, kind |-> ev(e).kind, applied |-> ev(e).applied]
      <4>1. ev(e) \in EventRow
        BY <2>6
      <4> HIDE DEF ev
      <4>2. QED
        BY <4>1 DEF EventRow
    <3> HIDE DEF ev
    <3>3. ev(e).run = e.run /\ ev(e).lineage = e.lineage /\ ev(e).kind = e.kind
      BY <2>6
    <3>4. QED
      BY <1>2, <3>1, <3>2, <3>3 DEF EventRow
  <2> HIDE DEF ev
  <2>9. RecordSets
    BY <2>1, <2>6, <2>7, <2>8 DEF RecordSets
  <2>10. threads' \in [Fingerprints -> ThreadRow] /\ lineage' \in [Fingerprints -> LineageRow]
    BY <2>1, <2>2, <2>4
  <2>11. RecordTo
    BY <1>4, <2>1, <2>2, <2>4, <2>10 DEF RecordTo
  <2>12. QED
    BY <1>1, <2>9, <2>11
<1>5. QED
  BY <1>3, <1>4

LEMMA RecordRows ==
    ASSUME JInv, Grows, Mine \in Runs, run[Mine] = "publishing", RecordTo, RecordSets,
           UNCHANGED <<findings, ops>>
    PROVE  RowPart' /\ Keeps
<1>1. RowPart /\ \A e \in events : e.run \in Runs /\ e.lineage \in Fingerprints
  BY RowsNow
<1>2. run' \in [Runs -> RunStatus] /\ run'[Mine] = "published" /\ \A q \in Runs : q # Mine => run'[q] = run[q]
  BY <1>1 DEF RecordTo, RowPart, RunStatus
<1>3. \A e \in events : e.applied => e.run # Mine
  BY <1>1 DEF RowPart, EventsFit
<1>4. \A e \in ToApply : e \in events /\ e.run = Mine
  BY DEF ToApply, EventsOf
<1>5. ASSUME NEW l \in Fingerprints, lineage[l].status \in {"active", "addressed"}
      PROVE  lineage'[l].status \in {"active", "addressed"}
  BY <1>5 DEF RecordTo
<1>6. EventsFit'
  <2>1. ASSUME NEW d \in events'
        PROVE  /\ run'[d.run] \in {"ready", "publishing", "published"}
               /\ jobs'[d.run].status # "absent"
               /\ d.applied => run'[d.run] = "published" /\ lineage'[d.lineage].status \in {"active", "addressed"}
               /\ d.kind # "addressed" => \E x \in findings' : Matches(d, x)
    <3>1. PICK e \in events : /\ d.run = e.run /\ d.lineage = e.lineage /\ d.kind = e.kind
                              /\ d.applied = (e.applied \/ e \in ToApply)
      BY DEF RecordSets
    <3>2. run'[d.run] \in {"ready", "publishing", "published"} /\ jobs'[d.run].status # "absent"
      BY <1>1, <1>2, <3>1 DEF RowPart, EventsFit, Grows
    <3>3. d.kind # "addressed" => \E x \in findings' : Matches(d, x)
      BY <1>1, <3>1 DEF RowPart, EventsFit, Matches
    <3>4. CASE e \in ToApply
      <4>1. lineage'[e.lineage].status \in {"active", "addressed"}
        BY <1>1, <3>4 DEF RecordTo
      <4>2. QED
        BY <1>2, <1>4, <3>1, <3>2, <3>3, <3>4, <4>1
    <3>5. CASE e.applied
      BY <1>1, <1>2, <1>3, <1>5, <3>1, <3>2, <3>3, <3>5 DEF RowPart, EventsFit
    <3>6. CASE e \notin ToApply /\ ~e.applied
      BY <3>1, <3>2, <3>3, <3>6
    <3>7. QED
      BY <3>4, <3>5, <3>6
  <2>2. QED
    BY <2>1 DEF EventsFit
<1>7. LineagesFit'
  <2>1. ASSUME NEW l \in Fingerprints, lineage'[l].status = "none"
        PROVE  lineage'[l] = NoLineage
    <3>1. \A e \in ToApply : e.lineage # l
      BY <2>1 DEF RecordTo
    <3>2. QED
      BY <1>1, <2>1, <3>1 DEF RecordTo, RowPart, LineagesFit
  <2>2. QED
    BY <2>1 DEF LineagesFit
<1>8. Keeps
  BY DEF Keeps, RecordSets
<1>9. lineage' \in [Fingerprints -> LineageRow] /\ threads' \in [Fingerprints -> ThreadRow] /\ events' \subseteq EventRow
  BY DEF RecordTo, RecordSets
<1>10. QED
  BY <1>1, <1>2, <1>6, <1>7, <1>8, <1>9 DEF RowPart

-----------------------------------------------------------------------------
(* Every step keeps the first part of the invariant, and what was          *)
(* published.                                                              *)

LEMMA Combines ==
    ASSUME JobPart', RowPart', RunFits', faults' \in 0..MaxFaults
    PROVE  JInv'
BY DEF JobPart, RowPart, JInv, Typed

\* The fingerprint of an event is that of its finding.
LEMMA FingerprintIs ==
    ASSUME NEW e, \E x \in findings : Matches(e, x)
    PROVE  \E x \in findings : Matches(e, x) /\ FingerprintOf(e) = x.fp
<1> DEFINE it == CHOOSE x \in findings : Matches(e, x)
<1>1. it \in findings /\ Matches(e, it)
  OBVIOUS
<1>2. FingerprintOf(e) = it.fp
  BY DEF FingerprintOf, Matches
<1> HIDE DEF it
<1>3. QED
  BY <1>1, <1>2

LEMMA OpIs ==
    ASSUME proc.todo \subseteq Fingerprints, proc.todo # {}
    PROVE  Op \in proc.todo /\ Op \in Fingerprints
<1>1. proc.todo \subseteq Nat
  BY Constants
<1> DEFINE R == OpToRel(<, Nat)
<1>2. PICK l \in proc.todo : \A k \in proc.todo : ~(<<k, l>> \in R)
  <2>1. IsWellFoundedOn(R, Nat)
    BY NatLessThanWellFounded
  <2> HIDE DEF R
  <2>2. QED
    BY <1>1, <2>1, WFMin
<1>3. ASSUME NEW k \in proc.todo
      PROVE  l <= k
  <2>1. k \in Nat /\ l \in Nat
    BY <1>1
  <2>2. ~(k < l)
    BY <1>2, <2>1 DEF OpToRel
  <2>3. QED
    BY <2>1, <2>2
<1>4. Op \in proc.todo
  BY <1>3 DEF Op
<1>5. QED
  BY <1>4

LEMMA FaultFits ==
    ASSUME JInv
    PROVE  (Fault => faults' \in 0..MaxFaults) /\ (UNCHANGED faults => faults' \in 0..MaxFaults)
BY Constants DEF JInv, Typed, Fault

Good == JInv' /\ Keeps
OpStatus == {"none", "publishing", "failed", "published"}

LEMMA WorkerAt ==
    ASSUME JInv, ~At("idle")
    PROVE  /\ Mine \in Runs /\ jobs[Mine].status = "running" /\ proc \in ProcRow /\ proc.pc \in Pcs
           /\ proc.todo \subseteq Fingerprints /\ run[Mine] \in RunStatus
BY DEF JInv, JobsFit, Typed, ProcRow

\* A step of the worker that leaves jobs, runs, lineages, findings and
\* events alone.
LEMMA Plain ==
    ASSUME JInv, Moves, UNCHANGED <<jobs, run, lineage, findings, events>>,
           threads' \in [Fingerprints -> ThreadRow], ops' \in [Event -> OpStatus],
           faults' \in 0..MaxFaults, RunFits'
    PROVE  Good
<1>1. Grows
  BY DEF Grows
<1>2. RowPart' /\ Keeps
  BY <1>1, RowsSame DEF OpStatus
<1>3. JobPart'
  BY JobsSame
<1>4. QED
  BY <1>2, <1>3, Combines DEF Good

LEMMA TablesNow ==
    ASSUME JInv
    PROVE  threads \in [Fingerprints -> ThreadRow] /\ ops \in [Event -> OpStatus]
BY DEF JInv, Typed, OpStatus

LEMMA GoodCrash ==
    ASSUME JInv, Crash
    PROVE  Good
<1>1. Moves /\ faults' \in 0..MaxFaults
  BY FaultFits, Shapes DEF Crash, Moves
<1>2. RunFits'
  BY Shapes DEF RunFits, Crash, At, OpSteps
<1>3. UNCHANGED <<jobs, run, lineage, findings, events, threads, ops>>
  BY DEF Crash, tables
<1>4. QED
  BY <1>1, <1>2, <1>3, Plain, TablesNow

LEMMA PushGrows ==
    ASSUME JInv, Push
    PROVE  Grows /\ \A r \in Runs : jobs'[r].status = "succeeded" => jobs[r].status = "succeeded"
<1>1. ASSUME NEW r \in Runs
      PROVE  /\ jobs[r].status # "absent" => jobs'[r].status # "absent"
             /\ jobs'[r].status = "succeeded" => jobs[r].status = "succeeded"
  <2>1. jobs[r] \in JobRow
    BY DEF JInv, Typed
  <2> DEFINE first == [jobs[r] EXCEPT !.status = "queued"]
             over == [jobs[r] EXCEPT !.status = "superseded"]
  <2>2. first.status = "queued" /\ over.status = "superseded"
    BY <2>1 DEF JobRow
  <2>3. jobs'[r] = first \/ jobs'[r] = over \/ jobs'[r] = jobs[r]
    <3> DEFINE row(q) == CASE q = Head + 1 -> [jobs[q] EXCEPT !.status = "queued"]
                           [] jobs[q].status = "queued" -> [jobs[q] EXCEPT !.status = "superseded"]
                           [] OTHER -> jobs[q]
    <3>1. jobs' = [q \in Runs |-> row(q)]
      BY Zenon DEF Push
    <3>2. row(r) = first \/ row(r) = over \/ row(r) = jobs[r]
      <4> HIDE DEF first, over
      <4>1. row(r) = CASE r = Head + 1 -> first [] jobs[r].status = "queued" -> over [] OTHER -> jobs[r]
        BY Zenon DEF first, over
      <4> HIDE DEF row
      <4>2. QED
        BY <4>1
    <3> HIDE DEF row, first, over
    <3>3. QED
      BY <3>1, <3>2
  <2> HIDE DEF first, over
  <2>4. QED
    BY <2>2, <2>3
<1>2. QED
  BY <1>1 DEF Grows

LEMMA GoodPush ==
    ASSUME JInv, Push
    PROVE  Good
<1>1. JobPart' /\ UNCHANGED <<run, lineage, findings, events, threads, ops, proc, faults>>
  BY PushJobs DEF Push, tables
<1>2. Grows
  BY PushGrows
<1>3. RowPart' /\ Keeps
  BY <1>1, <1>2, RowsSame, TablesNow DEF OpStatus
<1>4. RunFits'
  BY <1>1 DEF JInv, RunFits, At, Mine
<1>5. QED
  BY <1>1, <1>3, <1>4, Combines, FaultFits DEF Good

LEMMA GoodClaim ==
    ASSUME JInv, Claim
    PROVE  Good
<1>1. /\ JobPart' /\ run' = run /\ UNCHANGED tables /\ At("idle") /\ faults' = faults
      /\ \A r \in Runs : jobs[r].status # "absent" <=> jobs'[r].status # "absent"
      /\ proc' = proc \/ (proc'.pc = "begin" /\ proc'.todo = {})
  BY ClaimJobs DEF Claim
<1>2. RowPart' /\ Keeps
  <2>1. Grows /\ UNCHANGED <<lineage, findings, events, threads, ops>>
    BY <1>1 DEF Grows, tables
  <2>2. QED
    BY <1>1, <2>1, RowsSame, TablesNow DEF OpStatus
<1>3. RunFits'
  BY <1>1 DEF JInv, RunFits, At, Mine, OpSteps
<1>4. QED
  BY <1>1, <1>2, <1>3, Combines, FaultFits DEF Good

\* The job ends.
LEMMA EndGoes ==
    ASSUME JInv, ~At("idle"), NEW status \in {"succeeded", "superseded", "dead", "queued"},
           status = "queued" => jobs[Mine].attempt < MaxAttempts, End(status)
    PROVE  /\ JobPart' /\ Grows /\ RunFits' /\ proc' = Idle
           /\ jobs'[Mine].status = status /\ \A r \in Runs : r # Mine => jobs'[r] = jobs[r]
<1>1. Mine \in Runs /\ jobs[Mine].status = "running" /\ jobs \in [Runs -> JobRow]
  BY DEF JInv, JobsFit, Typed
<1>2. jobs'[Mine].status = status /\ \A r \in Runs : r # Mine => jobs'[r] = jobs[r]
  <2> DEFINE new == [jobs[Mine] EXCEPT !.status = status]
  <2>1. jobs' = [jobs EXCEPT ![Mine] = new]
    BY DEF End
  <2>2. new.status = status
    BY <1>1 DEF JobRow
  <2> HIDE DEF new
  <2>3. QED
    BY <1>1, <2>1, <2>2
<1>3. RunFits' /\ proc' = Idle
  BY Shapes DEF End, RunFits, At, OpSteps
<1>4. Grows
  BY <1>2 DEF Grows
<1>5. QED
  BY <1>2, <1>3, <1>4, JobEnds

LEMMA GoodBegin ==
    ASSUME JInv, Begin
    PROVE  Good
<1>1. At("begin") /\ ~At("idle") /\ UNCHANGED <<lineage, findings, events, threads, ops, github, faults>>
  BY DEF Begin, At, tables
<1>2. Mine \in Runs /\ run[Mine] \in RunStatus /\ proc.pc = "begin" /\ proc \in ProcRow
  BY <1>1, WorkerAt DEF At
<1>3. CASE End("superseded") /\ UNCHANGED run
  <2>1. JobPart' /\ Grows /\ RunFits'
    BY <1>1, <1>3, EndGoes
  <2>2. RowPart' /\ Keeps
    BY <1>1, <1>3, <2>1, RowsSame, TablesNow DEF OpStatus
  <2>3. QED
    BY <1>1, <2>1, <2>2, Combines, FaultFits DEF Good
<1>4. CASE /\ run[Mine] \in {"none", "failed", "generating"} /\ run' = [run EXCEPT ![Mine] = "generating"]
           /\ To("persist") /\ UNCHANGED jobs
  <2>1. Moves /\ proc'.pc = "persist" /\ proc'.run = Mine
    BY <1>2, <1>4, ToRow DEF Moves, JInv, Mine, Pcs
  <2>2. JobPart' /\ Grows
    BY <1>4, <2>1, JobsSame DEF Grows
  <2>3. RowPart' /\ Keeps
    BY <1>1, <1>2, <1>4, <2>2, RunMoves DEF RunStatus, Unpublished, tables
  <2>4. run'[Mine] = "generating"
    BY <1>2, <1>4 DEF JInv, Typed
  <2>5. RunFits'
    BY <2>1, <2>4 DEF RunFits, At, Mine, OpSteps
  <2>6. QED
    BY <1>1, <2>2, <2>3, <2>5, Combines, FaultFits DEF Good
<1>5. CASE run[Mine] \notin {"none", "failed", "generating", "superseded"} /\ To("load") /\ UNCHANGED <<jobs, run>>
  <2>1. Moves /\ proc'.pc = "load" /\ proc'.run = Mine
    BY <1>2, <1>5, ToRow DEF Moves, JInv, Mine, Pcs
  <2>2. RunFits'
    BY <1>2, <1>5, <2>1 DEF RunFits, At, Mine, OpSteps, RunStatus, Unpublished
  <2>3. QED
    BY <1>1, <1>5, <2>1, <2>2, Plain, TablesNow, FaultFits
<1>6. QED
  BY <1>1, <1>3, <1>4, <1>5 DEF Begin

LEMMA GoodPersist ==
    ASSUME JInv, Persist
    PROVE  Good
<1>1. /\ At("persist") /\ Mine \in Runs /\ run[Mine] = "generating" /\ (\A e \in events : e.run # Mine)
      /\ UNCHANGED <<jobs, github, faults>> /\ proc.pc = "persist" /\ jobs[Mine].status # "absent"
  BY PersistGoes DEF At, JInv, JobsFit
<1>2. Grows
  BY <1>1 DEF Grows
<1>3. CASE Persisted
  <2>1. PICK t : Classified(t) /\ PersistTo(t)
    BY <1>3 DEF Persisted
  <2>2. RowPart' /\ Keeps
    BY <1>1, <1>2, <2>1, PersistRows
  <2>3. Moves /\ proc'.pc = "load" /\ proc'.run = Mine
    BY <1>1, <2>1, ToRow DEF Moves, JInv, Mine, Pcs, PersistTo
  <2>4. run'[Mine] = "ready"
    BY <1>1, <2>1 DEF JInv, Typed, PersistTo
  <2>5. RunFits'
    BY <2>3, <2>4 DEF RunFits, At, Mine, OpSteps
  <2>6. JobPart'
    BY <1>1, <2>3, JobsSame
  <2>7. QED
    BY <1>1, <2>2, <2>5, <2>6, Combines, FaultFits DEF Good
<1>4. CASE To("failed") /\ UNCHANGED <<run, tables>>
  <2>1. Moves /\ proc'.pc = "failed" /\ proc'.run = Mine
    BY <1>1, <1>4, ToRow DEF Moves, JInv, Mine, Pcs
  <2>2. RunFits'
    BY <2>1 DEF RunFits, At, OpSteps
  <2>3. QED
    BY <1>1, <1>4, <2>1, <2>2, Plain, TablesNow, FaultFits DEF tables
<1>5. QED
  BY <1>3, <1>4, PersistGoes

\* A step that only moves the worker, to where its run may be in any state.
LEMMA GoodToFailed ==
    ASSUME JInv, ~At("idle"), To("failed"), UNCHANGED <<jobs, run, lineage, findings, events>>,
           threads' \in [Fingerprints -> ThreadRow], ops' \in [Event -> OpStatus], faults' \in 0..MaxFaults
    PROVE  Good
<1>1. Moves /\ proc'.pc = "failed"
  BY ToRow DEF Moves, JInv, Mine, Pcs, At
<1>2. RunFits'
  BY <1>1 DEF RunFits, At, OpSteps
<1>3. QED
  BY <1>1, <1>2, Plain

LEMMA GoodAgentFails ==
    ASSUME JInv, AgentFails
    PROVE  Good
<1>1. ~At("idle") /\ To("failed") /\ UNCHANGED <<jobs, run, lineage, findings, events, threads, ops>> /\ Fault
  BY DEF AgentFails, Fails, At, tables
<1>2. QED
  BY <1>1, GoodToFailed, TablesNow, FaultFits

\* What retiring a run does.
LEMMA RetiredGoes ==
    ASSUME JInv, Grows, NEW r \in Runs, NEW s \in RunStatus, Retired(r, s)
    PROVE  RowPart' /\ Keeps
<1>1. CASE run[r] \in Unpublished
  BY <1>1, DiscardRows DEF Retired
<1>2. CASE run[r] \notin Unpublished
  BY <1>2, RowsSame, TablesNow DEF Retired, tables, OpStatus
<1>3. QED
  BY <1>1, <1>2

LEMMA GoodSupersede ==
    ASSUME JInv, Supersede
    PROVE  Good
<1>1. ~At("idle") /\ End("superseded") /\ Retired(Mine, "superseded") /\ faults' = faults
  BY DEF Supersede, At
<1>2. JobPart' /\ Grows /\ RunFits' /\ Mine \in Runs
  BY <1>1, EndGoes, WorkerAt
<1>3. RowPart' /\ Keeps
  BY <1>1, <1>2, RetiredGoes DEF RunStatus
<1>4. QED
  BY <1>1, <1>2, <1>3, Combines, FaultFits DEF Good

LEMMA GoodFail ==
    ASSUME JInv, Fail
    PROVE  Good
<1>1. ~At("idle") /\ End(GivenBack(Mine)) /\ UNCHANGED tables /\ faults' = faults
  BY DEF Fail, At
<1>2. Mine \in Runs /\ run \in [Runs -> RunStatus]
  BY <1>1, WorkerAt DEF JInv, Typed
<1>3. JobPart' /\ Grows /\ RunFits'
  BY <1>1, <1>2, EndGoes, GivenBackFits
<1>4. RowPart' /\ Keeps
  <2>1. CASE run[Mine] = "generating"
    <3>1. run' = [run EXCEPT ![Mine] = "failed"]
      BY <1>2, <2>1 DEF Fail
    <3>2. QED
      BY <1>1, <1>2, <1>3, <2>1, <3>1, RunMoves DEF RunStatus
  <2>2. CASE run[Mine] # "generating"
    <3>1. run' = run
      BY <1>2, <2>2 DEF Fail
    <3>2. QED
      BY <1>1, <1>3, <3>1, RowsSame, TablesNow DEF tables, OpStatus
  <2>3. QED
    BY <2>1, <2>2
<1>5. QED
  BY <1>1, <1>3, <1>4, Combines, FaultFits DEF Good

LEMMA GoodTerminalFailed ==
    ASSUME JInv, NEW r \in Runs, TerminalFailed(r)
    PROVE  Good
<1>1. /\ jobs[r].status = "dead" /\ run[r] \in Unpublished /\ Retired(r, "failed")
      /\ UNCHANGED <<jobs, github, proc, faults>>
  BY DEF TerminalFailed
<1>2. Grows
  BY <1>1 DEF Grows
<1>3. RowPart' /\ Keeps
  BY <1>1, <1>2, RetiredGoes DEF RunStatus
<1>4. ~At("idle") => Mine # r
  BY <1>1 DEF JInv, JobsFit
<1>5. \A q \in Runs : q # r => run'[q] = run[q]
  BY <1>1 DEF Retired, JInv, Typed
<1>6. RunFits'
  <2>1. CASE At("idle")
    BY <1>1, <2>1 DEF RunFits, At, OpSteps
  <2>2. CASE ~At("idle")
    <3>1. run'[Mine] = run[Mine]
      BY <1>4, <1>5, <2>2, WorkerAt
    <3>2. QED
      BY <1>1, <3>1 DEF RunFits, At, Mine, JInv
  <2>3. QED
    BY <2>1, <2>2
<1>7. JobPart'
  BY <1>1 DEF JobPart, JInv, Typed, Numbered, JobsFit, At, Mine
<1>8. QED
  BY <1>1, <1>3, <1>6, <1>7, Combines, FaultFits DEF Good

LEMMA NewOfFits ==
    ASSUME JInv, NEW r \in Runs
    PROVE  NewOf(r) \subseteq Fingerprints
<1>1. ASSUME NEW e \in events, e.kind = "new"
      PROVE  FingerprintOf(e) \in Fingerprints
  <2>1. \E x \in findings : Matches(e, x)
    BY <1>1 DEF JInv, EventsFit
  <2>2. QED
    BY <2>1, FingerprintIs, RowsNow
<1>2. QED
  BY <1>1 DEF NewOf, EventsOf

LEMMA GoodLoad ==
    ASSUME JInv, Load
    PROVE  Good
<1>1. /\ At("load") /\ ~At("idle") /\ proc.pc = "load"
      /\ UNCHANGED <<jobs, lineage, findings, events, threads, ops, github, faults>>
  BY DEF Load, At, tables
<1>2. Mine \in Runs /\ proc \in ProcRow /\ run \in [Runs -> RunStatus] /\ run[Mine] \in {"ready", "publishing", "published"}
  BY <1>1, WorkerAt DEF JInv, RunFits, Typed
<1>3. CASE run[Mine] = "published"
  <2>1. To("operations") /\ run' = run
    BY <1>3 DEF Load
  <2>2. Moves /\ proc'.pc = "operations" /\ proc'.run = Mine
    BY <1>1, <2>1, ToRow DEF Moves, JInv, Mine, Pcs
  <2>3. RunFits'
    BY <1>3, <2>1, <2>2 DEF RunFits, At, Mine, OpSteps
  <2>4. QED
    BY <1>1, <2>1, <2>2, <2>3, Plain, TablesNow, FaultFits
<1>4. CASE run[Mine] # "published"
  <2> DEFINE in == IF Mine \in InlineRuns THEN NewOf(Mine) ELSE {}
  <2>1. run' = [run EXCEPT ![Mine] = "publishing"] /\ proc' = [proc EXCEPT !.pc = "publish", !.inline = in]
    BY <1>4 DEF Load
  <2>2. in \subseteq Fingerprints
    BY <1>2, NewOfFits
  <2> HIDE DEF in
  <2>3. proc' \in ProcRow /\ proc'.pc = "publish" /\ proc'.run = Mine
    BY <1>2, <2>1, <2>2 DEF ProcRow, Pcs, Mine
  <2>4. Moves
    BY <1>1, <2>3 DEF Moves, Mine
  <2>5. Grows /\ JobPart'
    BY <1>1, <2>4, JobsSame DEF Grows
  <2>6. RowPart' /\ Keeps
    BY <1>1, <1>2, <1>4, <2>1, <2>5, RunMoves DEF RunStatus, Unpublished, tables
  <2>7. run'[Mine] = "publishing"
    BY <1>2, <2>1
  <2>8. RunFits'
    BY <2>3, <2>7 DEF RunFits, At, Mine, OpSteps
  <2>9. QED
    BY <1>1, <2>5, <2>6, <2>8, Combines, FaultFits DEF Good
<1>5. QED
  BY <1>3, <1>4

LEMMA GoodPublish ==
    ASSUME JInv, Publish
    PROVE  Good
<1>1. /\ proc.pc = "publish" /\ run[Mine] = "publishing"
      /\ UNCHANGED <<jobs, run, lineage, findings, events, threads, ops>>
  BY DEF Publish, At, tables, JInv, RunFits
<1>2. faults' \in 0..MaxFaults
  BY FaultFits DEF Publish, Goes, Fails
<1>3. To("record") \/ To("unpublished")
  BY DEF Publish, Goes, Fails
<1>4. Moves /\ proc'.pc \in {"record", "unpublished"} /\ proc'.run = Mine
  BY <1>1, <1>3, ToRow DEF Moves, JInv, Mine, Pcs
<1>5. RunFits'
  BY <1>1, <1>4 DEF RunFits, At, Mine, OpSteps
<1>6. QED
  BY <1>1, <1>2, <1>4, <1>5, Plain, TablesNow

LEMMA GoodUnpublish ==
    ASSUME JInv, Unpublish
    PROVE  Good
<1>1. /\ proc.pc = "unpublished" /\ ~At("idle") /\ run[Mine] = "publishing" /\ run' = [run EXCEPT ![Mine] = "ready"]
      /\ To("failed") /\ UNCHANGED <<jobs, tables, faults>>
  BY DEF Unpublish, At, JInv, RunFits
<1>2. Moves /\ proc'.pc = "failed" /\ Mine \in Runs
  BY <1>1, ToRow, WorkerAt DEF Moves, JInv, Mine, Pcs
<1>3. Grows /\ JobPart'
  BY <1>1, <1>2, JobsSame DEF Grows
<1>4. RowPart' /\ Keeps
  BY <1>1, <1>2, <1>3, RunMoves DEF RunStatus, Unpublished
<1>5. RunFits'
  BY <1>2 DEF RunFits, At, OpSteps
<1>6. QED
  BY <1>1, <1>3, <1>4, <1>5, Combines, FaultFits DEF Good

LEMMA GoodRecord ==
    ASSUME JInv, Record
    PROVE  Good
<1>1. /\ At("record") /\ Mine \in Runs /\ run[Mine] = "publishing" /\ ~At("idle") /\ proc.pc = "record"
      /\ UNCHANGED <<jobs, findings, ops, github, faults>>
  BY RecordGoes DEF At
<1>2. CASE RecordTo /\ RecordSets
  <2>1. Moves /\ proc'.pc = "operations" /\ proc'.run = Mine
    BY <1>1, <1>2, ToRow DEF Moves, JInv, Mine, Pcs, RecordTo
  <2>2. Grows /\ JobPart'
    BY <1>1, <2>1, JobsSame DEF Grows
  <2>3. RowPart' /\ Keeps
    BY <1>1, <1>2, <2>2, RecordRows
  <2>4. run'[Mine] = "published"
    BY <1>1, <1>2 DEF RecordTo, JInv, Typed
  <2>5. RunFits'
    BY <2>1, <2>4 DEF RunFits, At, Mine, OpSteps
  <2>6. QED
    BY <1>1, <2>2, <2>3, <2>5, Combines, FaultFits DEF Good
<1>3. CASE To("failed") /\ UNCHANGED <<run, tables>>
  BY <1>1, <1>3, GoodToFailed, TablesNow, FaultFits DEF tables
<1>4. QED
  BY <1>2, <1>3, RecordGoes

-----------------------------------------------------------------------------
(* Operations.                                                             *)

LEMMA OperationsAre ==
    ASSUME JInv, NEW r \in Runs
    PROVE  /\ Operations(r) \subseteq Fingerprints
           /\ \A l \in Operations(r) : \E e \in events : e.run = r /\ e.lineage = l /\ Due(e)
           /\ \A e \in events : e.run = r /\ Due(e) => e.lineage \in Operations(r) \/ ops[Key(e)] = "published"
<1>1. \A e \in events : e.lineage \in Fingerprints
  BY RowsNow
<1>2. \A l \in Operations(r) : \E e \in events :
         /\ e.run = r /\ e.lineage = l /\ e.kind \in {"addressed", "reopened"} /\ e.applied
         /\ threads[e.lineage] # NoThread
  BY DEF Operations, EventsOf
<1>3. ASSUME NEW e \in events, e.run = r, Due(e)
      PROVE  e.lineage \in Operations(r) \/ ops[Key(e)] = "published"
  BY <1>3 DEF Due, Key, Operations, EventsOf
<1>4. QED
  BY <1>1, <1>2, <1>3 DEF Due

LEMMA BeginOperationsGoes ==
    ASSUME JInv, BeginOperations
    PROVE  /\ proc.pc = "operations" /\ Mine \in Runs /\ run[Mine] = "published"
           /\ UNCHANGED <<jobs, run, lineage, findings, events, threads, github, faults>>
           /\ ops' \in [Event -> OpStatus]
           /\ \A k \in Event : ops'[k] = IF k.run = Mine /\ k.lineage \in Operations(Mine)
                                         THEN "publishing" ELSE ops[k]
           /\ proc' \in ProcRow /\ proc'.pc = "next" /\ proc'.run = Mine /\ proc'.todo = Operations(Mine)
<1>1. /\ proc.pc = "operations" /\ Mine \in Runs /\ run[Mine] = "published" /\ proc \in ProcRow
      /\ UNCHANGED <<jobs, run, lineage, findings, events, threads, github, faults>>
  BY WorkerAt DEF BeginOperations, At, JInv, RunFits
<1>2. /\ ops' = [e \in Event |-> IF e.run = Mine /\ e.lineage \in Operations(Mine)
                                 THEN "publishing" ELSE ops[e]]
      /\ proc' = [proc EXCEPT !.pc = "next", !.todo = Operations(Mine)]
  BY DEF BeginOperations
<1>3. Operations(Mine) \subseteq Fingerprints
  BY <1>1, OperationsAre
<1>4. proc' \in ProcRow /\ proc'.pc = "next" /\ proc'.run = Mine /\ proc'.todo = Operations(Mine)
  BY <1>1, <1>2, <1>3 DEF ProcRow, Pcs, Mine
<1>5. ops' \in [Event -> OpStatus]
  BY <1>2, TablesNow DEF OpStatus
<1>6. QED
  BY <1>1, <1>2, <1>4, <1>5

LEMMA GoodBeginOperations ==
    ASSUME JInv, BeginOperations
    PROVE  Good
<1>1. Moves
  BY BeginOperationsGoes DEF Moves, Mine
<1>2. RunFits'
  BY BeginOperationsGoes DEF RunFits, At, Mine, OpSteps
<1>3. QED
  BY <1>1, <1>2, BeginOperationsGoes, Plain, TablesNow, FaultFits

\* The operation under way.
LEMMA OpNow ==
    ASSUME JInv, proc.pc \in OpSteps \ {"next"}
    PROVE  /\ Mine \in Runs /\ run[Mine] = "published" /\ proc \in ProcRow /\ proc.pc \in Pcs
           /\ proc.todo \subseteq Fingerprints /\ Op \in proc.todo /\ Op \in Fingerprints
           /\ OpKey \in Event /\ OpKey.run = Mine /\ OpKey.lineage = Op
<1>1. ~At("idle") /\ proc.todo # {} /\ run[Mine] = "published"
  BY DEF JInv, RunFits, At, OpSteps
<1>2. Mine \in Runs /\ proc \in ProcRow /\ proc.pc \in Pcs /\ proc.todo \subseteq Fingerprints
  BY <1>1, WorkerAt
<1>3. Op \in proc.todo /\ Op \in Fingerprints
  BY <1>1, <1>2, OpIs
<1>4. QED
  BY <1>1, <1>2, <1>3 DEF OpKey, Event

LEMMA NextOperationGoes ==
    ASSUME JInv, NextOperation
    PROVE  /\ proc.pc = "next" /\ Mine \in Runs /\ run[Mine] = "published"
           /\ UNCHANGED <<jobs, run, lineage, findings, events, threads, ops, github>> /\ faults' \in 0..MaxFaults
           /\ proc' \in ProcRow /\ proc'.run = Mine /\ proc'.todo = proc.todo
           /\ \/ proc.todo = {} /\ proc'.pc = "finish"
              \/ /\ proc.todo # {} /\ proc'.pc = IF Reopens THEN "unresolve" ELSE "reply"
                 /\ proc'.replied = Replied /\ proc'.resolved = (Root \in github.resolved)
              \/ proc.todo # {} /\ proc'.pc = "opFailed"
<1>1. /\ proc.pc = "next" /\ Mine \in Runs /\ run[Mine] = "published" /\ proc \in ProcRow
      /\ UNCHANGED <<jobs, run, lineage, findings, events, threads, ops, github>>
  BY WorkerAt DEF NextOperation, At, JInv, RunFits, OpSteps, tables
<1>2. faults' \in 0..MaxFaults
  BY FaultFits DEF NextOperation, Goes, Fails
<1>3. CASE proc.todo = {}
  <2>1. To("finish")
    BY <1>3 DEF NextOperation, Goes
  <2>2. QED
    BY <1>1, <1>2, <1>3, <2>1, ToRow DEF JInv, Mine, Pcs
<1>4. CASE proc.todo # {} /\ Fails("opFailed")
  BY <1>1, <1>2, <1>4, ToRow DEF JInv, Mine, Pcs, Fails
<1>5. CASE /\ proc.todo # {}
           /\ proc' = [proc EXCEPT !.pc = IF Reopens THEN "unresolve" ELSE "reply",
                                   !.replied = Replied, !.resolved = Root \in github.resolved]
  <2> DEFINE pc == IF Reopens THEN "unresolve" ELSE "reply"
             a == Replied
             b == Root \in github.resolved
  <2>1. pc \in Pcs
    BY DEF Pcs
  <2>2. a \in BOOLEAN /\ b \in BOOLEAN
    BY DEF Replied
  <2>3. proc' = [proc EXCEPT !.pc = pc, !.replied = a, !.resolved = b]
    BY <1>5, Zenon
  <2> HIDE DEF pc, a, b
  <2>4. /\ proc' \in ProcRow /\ proc'.run = proc.run /\ proc'.todo = proc.todo /\ proc'.pc = pc
        /\ proc'.replied = a /\ proc'.resolved = b
    BY <1>1, <2>1, <2>2, <2>3 DEF ProcRow
  <2>5. proc'.pc = (IF Reopens THEN "unresolve" ELSE "reply") /\ proc'.replied = Replied
    BY <2>4 DEF pc, a
  <2>6. proc'.resolved = (Root \in github.resolved)
    BY <2>4 DEF b
  <2>7. proc'.run = Mine
    BY <2>4 DEF Mine
  <2>8. QED
    BY <1>1, <1>2, <1>5, <2>4, <2>5, <2>6, <2>7
<1>6. QED
  BY <1>3, <1>4, <1>5 DEF NextOperation

LEMMA GoodNextOperation ==
    ASSUME JInv, NextOperation
    PROVE  Good
<1>1. Moves
  BY NextOperationGoes DEF Moves, Mine
<1>2. RunFits'
  BY NextOperationGoes DEF RunFits, At, Mine, OpSteps
<1>3. QED
  BY <1>1, <1>2, NextOperationGoes, Plain, TablesNow

\* A request of an operation.
LEMMA RequestGoes ==
    ASSUME JInv, Unresolve \/ Reply \/ Resolve
    PROVE  /\ proc.pc \in {"unresolve", "reply", "resolve"}
           /\ UNCHANGED <<jobs, run, lineage, findings, events, threads, ops>> /\ faults' \in 0..MaxFaults
           /\ \E pc \in {"reply", "mark", "resolve", "opFailed"} : To(pc) /\ proc'.pc = pc
           /\ proc' \in ProcRow /\ proc'.run = Mine /\ proc'.todo = proc.todo
           /\ proc'.replied = proc.replied /\ proc'.resolved = proc.resolved
<1>1. /\ proc.pc \in {"unresolve", "reply", "resolve"}
      /\ UNCHANGED <<jobs, run, lineage, findings, events, threads, ops>>
  BY DEF Unresolve, Reply, Resolve, At, tables
<1>2. /\ Goes("reply") \/ Goes("mark") \/ Goes("resolve") \/ Fails("opFailed")
  BY DEF Unresolve, Reply, Resolve, SetResolution
<1>3. faults' \in 0..MaxFaults
  BY <1>2, FaultFits DEF Goes, Fails
<1>4. PICK pc \in {"reply", "mark", "resolve", "opFailed"} : To(pc)
  BY <1>2 DEF Goes, Fails
<1>5. pc \in Pcs
  BY DEF Pcs
<1>6. QED
  BY <1>1, <1>3, <1>4, <1>5, ToRow DEF JInv, Mine

LEMMA GoodRequest ==
    ASSUME JInv, Unresolve \/ Reply \/ Resolve
    PROVE  Good
<1>1. Moves
  BY RequestGoes DEF Moves, Mine
<1>2. run[Mine] = "published" /\ proc.todo # {}
  BY RequestGoes DEF JInv, RunFits, OpSteps
<1>3. RunFits'
  BY <1>2, RequestGoes DEF RunFits, At, Mine, OpSteps
<1>4. QED
  BY <1>1, <1>3, RequestGoes, Plain, TablesNow

LEMMA MarkGoes ==
    ASSUME JInv, MarkOperation
    PROVE  /\ proc.pc = "mark" /\ UNCHANGED <<jobs, run, lineage, findings, events, github, faults>>
           /\ ops' \in [Event -> OpStatus] /\ ops'[OpKey] = "published" /\ \A k \in Event : k # OpKey => ops'[k] = ops[k]
           /\ threads' \in [Fingerprints -> ThreadRow] /\ \A l \in Fingerprints : l # Op => threads'[l] = threads[l]
           /\ threads'[Op].root = threads[Op].root
           /\ threads'[Op].status = IF Reopens THEN "active" ELSE "addressed"
           /\ proc' \in ProcRow /\ proc'.pc = "next" /\ proc'.run = Mine /\ proc'.todo = proc.todo \ {Op}
<1>1. proc.pc = "mark" /\ UNCHANGED <<jobs, run, lineage, findings, events, github, faults>>
  BY DEF MarkOperation, At
<1>2. Op \in Fingerprints /\ OpKey \in Event /\ proc \in ProcRow
  BY <1>1, OpNow DEF OpSteps
<1>3. ops' \in [Event -> OpStatus] /\ ops'[OpKey] = "published" /\ \A k \in Event : k # OpKey => ops'[k] = ops[k]
  BY <1>2, TablesNow DEF MarkOperation, OpStatus
<1> DEFINE st == IF Reopens THEN "active" ELSE "addressed"
           new == [threads[Op] EXCEPT !.status = st]
<1>4. threads' = [threads EXCEPT ![Op] = new]
  BY DEF MarkOperation
<1>5. st \in {"active", "addressed"}
  OBVIOUS
<1>6. new \in ThreadRow /\ new.root = threads[Op].root /\ new.status = st
  <2>1. threads[Op] \in ThreadRow
    BY <1>2, TablesNow
  <2> HIDE DEF st
  <2>2. QED
    BY <1>5, <2>1 DEF ThreadRow
<1> HIDE DEF new
<1>7. threads' \in [Fingerprints -> ThreadRow] /\ threads'[Op] = new /\ \A l \in Fingerprints : l # Op => threads'[l] = threads[l]
  BY <1>2, <1>4, <1>6, TablesNow
<1>8. proc' \in ProcRow /\ proc'.pc = "next" /\ proc'.run = Mine /\ proc'.todo = proc.todo \ {Op}
  BY <1>2 DEF MarkOperation, ProcRow, Pcs, Mine
<1>9. QED
  BY <1>1, <1>3, <1>6, <1>7, <1>8

LEMMA GoodMark ==
    ASSUME JInv, MarkOperation
    PROVE  Good
<1>1. Moves
  BY MarkGoes DEF Moves, Mine
<1>2. run[Mine] = "published"
  BY MarkGoes DEF JInv, RunFits, OpSteps
<1>3. RunFits'
  BY <1>2, MarkGoes DEF RunFits, At, Mine, OpSteps
<1>4. QED
  BY <1>1, <1>3, MarkGoes, Plain, FaultFits

LEMMA OperationFailedGoes ==
    ASSUME JInv, OperationFailed
    PROVE  /\ proc.pc = "opFailed" /\ UNCHANGED <<jobs, run, lineage, findings, events, threads, github, faults>>
           /\ ops' \in [Event -> OpStatus] /\ ops'[OpKey] = "failed" /\ \A k \in Event : k # OpKey => ops'[k] = ops[k]
           /\ To("failed") /\ proc'.pc = "failed" /\ proc'.run = Mine
<1>1. proc.pc = "opFailed" /\ UNCHANGED <<jobs, run, lineage, findings, events, threads, github, faults>> /\ To("failed")
  BY DEF OperationFailed, At
<1>2. OpKey \in Event /\ proc \in ProcRow
  BY <1>1, OpNow DEF OpSteps
<1>3. ops' \in [Event -> OpStatus] /\ ops'[OpKey] = "failed" /\ \A k \in Event : k # OpKey => ops'[k] = ops[k]
  BY <1>2, TablesNow DEF OperationFailed, OpStatus
<1>4. QED
  BY <1>1, <1>3, ToRow DEF JInv, Mine, Pcs

LEMMA GoodFinish ==
    ASSUME JInv, Finish
    PROVE  Good
<1> DEFINE status == IF Mine = Head THEN "succeeded" ELSE "superseded"
<1>1. ~At("idle") /\ End(status) /\ UNCHANGED <<run, tables, faults>>
  BY DEF Finish, At
<1>2. status \in {"succeeded", "superseded"}
  OBVIOUS
<1> HIDE DEF status
<1>3. JobPart' /\ Grows /\ RunFits'
  BY <1>1, <1>2, EndGoes
<1>4. RowPart' /\ Keeps
  BY <1>1, <1>3, RowsSame, TablesNow DEF tables, OpStatus
<1>5. QED
  BY <1>1, <1>3, <1>4, Combines, FaultFits DEF Good

LEMMA StepIsGood ==
    ASSUME JInv, [Next]_vars
    PROVE  Good
<1>1. CASE UNCHANGED vars
  <2>1. UNCHANGED <<jobs, run, lineage, findings, events, threads, ops, proc, faults>>
    BY <1>1 DEF vars
  <2>2. Keeps
    BY <2>1 DEF Keeps
  <2>3. JobPart' /\ RowPart' /\ RunFits' /\ faults' \in 0..MaxFaults
    BY <2>1 DEF JInv, Typed, JobPart, RowPart, Numbered, JobsFit, RunFits, EventsFit, LineagesFit, At, Mine
  <2>4. QED
    BY <2>2, <2>3, Combines DEF Good
<1>2. CASE OperationFailed
  <2>1. ~At("idle")
    BY <1>2 DEF OperationFailed, At
  <2>2. QED
    BY <1>2, <2>1, OperationFailedGoes, GoodToFailed, TablesNow, FaultFits
<1>3. QED
  BY <1>1, <1>2, GoodPush, GoodClaim, GoodCrash, GoodBegin, GoodPersist, GoodAgentFails, GoodSupersede, GoodFail,
     GoodTerminalFailed, GoodLoad, GoodPublish, GoodUnpublish, GoodRecord, GoodBeginOperations,
     GoodNextOperation, GoodRequest, GoodMark, GoodFinish
     DEF Next

LEMMA InitJInv ==
    ASSUME Init
    PROVE  JInv
<1>1. Typed
  <2>1. \A r \in Runs : [status |-> IF r = 1 THEN "queued" ELSE "absent", attempt |-> 0] \in JobRow
    BY Constants DEF JobRow
  <2>2. jobs \in [Runs -> JobRow]
    BY <2>1 DEF Init
  <2>3. QED
    BY <2>2, Shapes, Constants DEF Typed, Init, RunStatus
<1>2. Numbered
  <2>1. \A r \in Runs : jobs[r].status # "absent" <=> r <= 1
    BY Constants DEF Init, Runs
  <2>2. QED
    BY <2>1, Constants DEF Numbered
<1>3. JobsFit
  BY Constants, Shapes DEF Init, JobsFit, At
<1>4. RunFits /\ EventsFit /\ LineagesFit
  BY Shapes DEF Init, RunFits, EventsFit, LineagesFit, At, OpSteps
<1>5. QED
  BY <1>1, <1>2, <1>3, <1>4 DEF JInv

\* PublishedIsKept: in discard_unpublished_finding_lineage and
\* persist_review_report, for any number of heads and of retries, no step
\* takes away a transition that was published, nor its finding.
THEOREM PublishedIsKept == Spec => PublishedStays
<1> DEFINE A == \A e \in events : e.applied =>
                  /\ e \in events'
                  /\ \A x \in findings : x.run = e.run /\ x.lineage = e.lineage => x \in findings'
<1>1. Init => JInv
  BY InitJInv
<1>2. JInv /\ [Next]_vars => JInv' /\ [A]_vars
  BY StepIsGood DEF Good, Keeps
<1>3. PublishedStays <=> [][A]_vars
  BY DEF PublishedStays
<1> HIDE DEF A
<1>4. QED
  BY <1>1, <1>2, <1>3, PTL DEF Spec

-----------------------------------------------------------------------------
(* What a step may do to findings, events and lineages, and where it may   *)
(* take the worker.                                                        *)

Quiet == UNCHANGED <<lineage, findings, events>>
Drops == \E r \in Runs : run[r] \in Unpublished /\ DiscardGoes(r)
Persists == /\ At("persist") /\ Mine \in Runs /\ Mine = Head
            /\ (\A e \in events : e.run # Mine) /\ Persisted
Records == /\ At("record") /\ Mine \in Runs /\ run[Mine] = "publishing"
           /\ RecordTo /\ RecordSets /\ UNCHANGED findings

Early == {"idle", "begin"}
Follows == \/ proc' = proc \/ proc'.pc \in Early
           \/ proc'.run = Mine /\ proc.pc \notin Early
           \/ proc.pc = "begin" /\ Mine = Head /\ proc'.run = Mine

RunsStay == \A r \in Runs : run[r] = "published" => run'[r] = "published"

Kinded == Grows /\ Follows /\ RunsStay /\ (Quiet \/ Drops \/ Persists \/ Records)

LEMMA ToFollows ==
    ASSUME JInv, proc.pc \notin Early, NEW pc, To(pc)
    PROVE  Follows
<1>1. proc'.run = Mine
  BY DEF To, Mine, JInv, Typed, ProcRow
<1>2. QED
  BY <1>1 DEF Follows

LEMMA RunOnly ==
    ASSUME JInv, NEW r \in Runs, NEW s, run' = [run EXCEPT ![r] = s], run[r] # "published" \/ s = "published"
    PROVE  RunsStay
BY DEF RunsStay, JInv, Typed

LEMMA RetiredKinded ==
    ASSUME JInv, NEW r \in Runs, NEW s \in RunStatus, Retired(r, s), Grows
    PROVE  RunsStay /\ (Quiet \/ Drops)
<1>1. CASE run[r] \in Unpublished
  <2>1. Discard(r) /\ run' = [run EXCEPT ![r] = s]
    BY <1>1 DEF Retired
  <2>2. DiscardGoes(r)
    BY <1>1, <2>1, DiscardRows
  <2>3. RunsStay
    BY <1>1, <2>1, RunOnly DEF Unpublished
  <2>4. QED
    BY <1>1, <2>2, <2>3 DEF Drops
<1>2. CASE run[r] \notin Unpublished
  BY <1>2 DEF Retired, RunsStay, Quiet, tables
<1>3. QED
  BY <1>1, <1>2

LEMMA EndKinded ==
    ASSUME JInv, ~At("idle"), NEW status \in {"succeeded", "superseded", "dead", "queued"},
           status = "queued" => jobs[Mine].attempt < MaxAttempts, End(status)
    PROVE  Grows /\ Follows
BY EndGoes, Shapes DEF Follows, Early

LEMMA KindedBegin ==
    ASSUME JInv, Begin
    PROVE  Kinded
<1>1. ~At("idle") /\ proc.pc = "begin" /\ Quiet /\ Mine \in Runs
  BY WorkerAt DEF Begin, At, Quiet, tables
<1>2. CASE End("superseded") /\ UNCHANGED run
  BY <1>1, <1>2, EndKinded DEF Kinded, RunsStay
<1>3. CASE Mine = Head /\ UNCHANGED jobs /\ (To("persist") \/ To("load"))
  <2>1. proc'.run = Mine
    BY <1>3 DEF To, Mine, JInv, Typed, ProcRow
  <2>2. Follows /\ Grows
    BY <1>1, <1>3, <2>1 DEF Follows, Grows
  <2>3. run' = run \/ (run' = [run EXCEPT ![Mine] = "generating"] /\ run[Mine] \in {"none", "failed", "generating"})
    BY DEF Begin
  <2>4. RunsStay
    BY <1>1, <2>3, RunOnly DEF RunsStay
  <2>5. QED
    BY <1>1, <2>2, <2>4 DEF Kinded
<1>4. QED
  BY <1>2, <1>3 DEF Begin

LEMMA StepIsKinded ==
    ASSUME JInv, [Next]_vars
    PROVE  Kinded
<1>1. CASE UNCHANGED vars
  BY <1>1 DEF vars, Kinded, Grows, Follows, RunsStay, Quiet
<1>2. CASE Push
  BY <1>2, PushGrows DEF Push, Kinded, Follows, RunsStay, Quiet, tables
<1>3. CASE Claim
  BY <1>3, ClaimJobs DEF Kinded, Grows, Follows, Early, RunsStay, Quiet, tables
<1>4. CASE Crash
  BY <1>4, Shapes DEF Crash, Kinded, Grows, Follows, Early, RunsStay, Quiet, tables
<1>5. CASE Begin
  BY <1>5, KindedBegin
<1>6. CASE Persist
  <2>1. proc.pc \notin Early /\ Grows /\ run[Mine] # "published" /\ Mine \in Runs
    BY <1>6, PersistGoes DEF At, Early, Grows
  <2>2. CASE Persisted
    <3>1. PICK t : PersistTo(t)
      BY <2>2 DEF Persisted
    <3>2. To("load") /\ run' = [run EXCEPT ![Mine] = "ready"]
      BY <3>1 DEF PersistTo
    <3>3. Follows /\ RunsStay
      BY <2>1, <3>2, ToFollows, RunOnly
    <3>4. QED
      BY <1>6, <2>1, <2>2, <3>3, PersistGoes DEF Kinded, Persists
  <2>3. CASE To("failed") /\ UNCHANGED <<run, tables>>
    BY <2>1, <2>3, ToFollows DEF Kinded, RunsStay, Quiet, tables
  <2>4. QED
    BY <1>6, <2>2, <2>3, PersistGoes
<1>7. CASE AgentFails
  BY <1>7, ToFollows DEF AgentFails, Fails, At, Early, Kinded, Grows, RunsStay, Quiet, tables
<1>8. CASE Supersede
  <2>1. ~At("idle") /\ End("superseded") /\ Retired(Mine, "superseded") /\ Mine \in Runs
    BY <1>8, WorkerAt DEF Supersede, At
  <2>2. Grows /\ Follows
    BY <2>1, EndKinded
  <2>3. QED
    BY <2>1, <2>2, RetiredKinded DEF Kinded, RunStatus
<1>9. CASE Fail
  <2>1. ~At("idle") /\ End(GivenBack(Mine)) /\ Quiet /\ Mine \in Runs
    BY <1>9, WorkerAt DEF Fail, At, Quiet, tables
  <2>2. Grows /\ Follows
    BY <2>1, EndKinded, GivenBackFits
  <2>3. RunsStay
    BY <1>9 DEF Fail, RunsStay, JInv, Typed
  <2>4. QED
    BY <2>1, <2>2, <2>3 DEF Kinded
<1>10. CASE \E r \in Runs : TerminalFailed(r)
  <2>1. PICK r \in Runs : TerminalFailed(r)
    BY <1>10
  <2>2. Grows /\ Follows /\ Retired(r, "failed")
    BY <2>1 DEF TerminalFailed, Grows, Follows
  <2>3. QED
    BY <2>2, RetiredKinded DEF Kinded, RunStatus
<1>11. CASE Load
  <2>1. ~At("idle") /\ proc.pc \notin Early /\ Grows /\ Quiet
    BY <1>11 DEF Load, At, Early, Grows, Quiet, tables
  <2>2. proc'.run = Mine
    BY <1>11 DEF Load, To, Mine, JInv, Typed, ProcRow
  <2>3. RunsStay
    BY <1>11 DEF Load, RunsStay, JInv, Typed
  <2>4. QED
    BY <2>1, <2>2, <2>3 DEF Kinded, Follows
<1>12. CASE Publish
  <2>1. proc.pc \notin Early /\ Grows /\ Quiet /\ RunsStay
    BY <1>12 DEF Publish, At, Early, Grows, Quiet, RunsStay, tables
  <2>2. To("record") \/ To("unpublished")
    BY <1>12 DEF Publish, Goes, Fails
  <2>3. QED
    BY <2>1, <2>2, ToFollows DEF Kinded
<1>13. CASE Unpublish
  <2>1. proc.pc \notin Early /\ Grows /\ Quiet /\ To("failed") /\ Mine \in Runs
    BY <1>13, WorkerAt DEF Unpublish, At, Early, Grows, Quiet, tables
  <2>2. RunsStay
    BY <1>13, <2>1, RunOnly DEF Unpublish, JInv, RunFits, At
  <2>3. QED
    BY <2>1, <2>2, ToFollows DEF Kinded
<1>14. CASE Record
  <2>1. proc.pc \notin Early /\ Grows /\ Mine \in Runs
    BY <1>14, RecordGoes DEF At, Early, Grows
  <2>2. CASE RecordTo /\ RecordSets
    <3>1. Follows /\ RunsStay
      BY <2>1, <2>2, ToFollows, RunOnly DEF RecordTo
    <3>2. QED
      BY <1>14, <2>1, <2>2, <3>1, RecordGoes DEF Kinded, Records
  <2>3. CASE To("failed") /\ UNCHANGED <<run, tables>>
    BY <2>1, <2>3, ToFollows DEF Kinded, RunsStay, Quiet, tables
  <2>4. QED
    BY <1>14, <2>2, <2>3, RecordGoes
<1>15. CASE BeginOperations
  BY <1>15, BeginOperationsGoes DEF Kinded, Grows, Follows, Early, RunsStay, Quiet
<1>16. CASE NextOperation
  BY <1>16, NextOperationGoes DEF Kinded, Grows, Follows, Early, RunsStay, Quiet
<1>17. CASE Unresolve \/ Reply \/ Resolve
  BY <1>17, RequestGoes DEF Kinded, Grows, Follows, Early, RunsStay, Quiet
<1>18. CASE MarkOperation
  BY <1>18, MarkGoes DEF Kinded, Grows, Follows, Early, RunsStay, Quiet
<1>19. CASE OperationFailed
  BY <1>19, OperationFailedGoes DEF Kinded, Grows, Follows, Early, RunsStay, Quiet
<1>20. CASE Finish
  <2> DEFINE status == IF Mine = Head THEN "succeeded" ELSE "superseded"
  <2>1. ~At("idle") /\ End(status) /\ Quiet /\ RunsStay
    BY <1>20 DEF Finish, At, Quiet, RunsStay, tables
  <2>2. status \in {"succeeded", "superseded"}
    OBVIOUS
  <2> HIDE DEF status
  <2>3. QED
    BY <2>1, <2>2, EndKinded DEF Kinded
<1>21. QED
  BY <1>1, <1>2, <1>3, <1>4, <1>5, <1>6, <1>7, <1>8, <1>9, <1>10, <1>11, <1>12, <1>13, <1>14, <1>15, <1>16,
     <1>17, <1>18, <1>19, <1>20 DEF Next

-----------------------------------------------------------------------------
(* Every step keeps the second part.                                       *)

LEMMA RowsStayUnique ==
    ASSUME JInv, KInv, Kinded
    PROVE  RowsUnique'
<1> DEFINE SameRow(e, d) == e.run = d.run /\ e.lineage = d.lineage
<1>1. /\ \A e, d \in events : SameRow(e, d) => e = d
      /\ \A x, y \in findings : SameRow(x, y) => x = y
      /\ \A x, y \in findings : x.run = y.run /\ x.fp = y.fp => x = y
  BY DEF KInv, RowsUnique, Matches
<1>2. SUFFICES /\ \A e, d \in events' : SameRow(e, d) => e = d
               /\ \A x, y \in findings' : SameRow(x, y) => x = y
               /\ \A x, y \in findings' : x.run = y.run /\ x.fp = y.fp => x = y
  BY DEF RowsUnique, Matches
<1>3. CASE Quiet
  BY <1>1, <1>3 DEF Quiet
<1>4. CASE Drops
  <2>1. findings' \subseteq findings /\ events' \subseteq events
    BY <1>4 DEF Drops, DiscardGoes
  <2>2. QED
    BY <1>1, <2>1
<1>5. CASE Persists
  <2>1. PICK t : Classified(t) /\ PersistTo(t)
    BY <1>5 DEF Persists, Persisted
  <2>2. Mine \in Runs /\ \A e \in events : e.run # Mine
    BY <1>5 DEF Persists
  <2>2a. RowsFrom(t)
    BY <2>1, <2>2, PersistFrom
  <2>3. /\ \A x, y \in t : x.lineage = y.lineage => x = y
        /\ \A x, y \in t : x.kind # "addressed" /\ y.kind # "addressed" /\ x.fp = y.fp => x = y
    BY <2>1 DEF Classified
  <2>4. ASSUME NEW e \in events', NEW d \in events', SameRow(e, d)
        PROVE  e = d
    <3>1. \/ e \in events /\ e.run # Mine
          \/ e.run = Mine /\ \E x \in t : e = NewEvent(x) /\ e.lineage = x.lineage
      BY <2>2, <2>2a DEF RowsFrom
    <3>2. \/ d \in events /\ d.run # Mine
          \/ d.run = Mine /\ \E x \in t : d = NewEvent(x) /\ d.lineage = x.lineage
      BY <2>2, <2>2a DEF RowsFrom
    <3>3. QED
      BY <1>1, <2>3, <2>4, <3>1, <3>2
  <2>5. ASSUME NEW y \in findings'
        PROVE  \/ y \in findings /\ y.run # Mine
               \/ y.run = Mine /\ \E x \in t : x.kind # "addressed" /\ y = NewFinding(x) /\ y.lineage = x.lineage /\ y.fp = x.fp
    BY <2>2, <2>2a DEF RowsFrom
  <2>6. ASSUME NEW y \in findings', NEW z \in findings', SameRow(y, z)
        PROVE  y = z
    BY <1>1, <2>3, <2>5, <2>6
  <2>7. ASSUME NEW y \in findings', NEW z \in findings', y.run = z.run, y.fp = z.fp
        PROVE  y = z
    BY <1>1, <2>3, <2>5, <2>7
  <2>8. QED
    BY <2>4, <2>6, <2>7
<1>6. CASE Records
  <2>1. ASSUME NEW c \in events', NEW d \in events', SameRow(c, d)
        PROVE  c = d
    <3>1. PICK e \in events : /\ c.run = e.run /\ c.lineage = e.lineage /\ c.applied = (e.applied \/ e \in ToApply)
                              /\ c = [e EXCEPT !.applied = c.applied]
      BY <1>6 DEF Records, RecordSets
    <3>2. PICK f \in events : /\ d.run = f.run /\ d.lineage = f.lineage /\ d.applied = (f.applied \/ f \in ToApply)
                              /\ d = [f EXCEPT !.applied = d.applied]
      BY <1>6 DEF Records, RecordSets
    <3>3. e = f
      BY <1>1, <2>1, <3>1, <3>2
    <3>4. c.applied = d.applied
      BY <3>1, <3>2, <3>3
    <3>5. QED
      BY <3>1, <3>2, <3>3, <3>4
  <2>2. QED
    BY <1>1, <1>6, <2>1 DEF Records
<1>7. QED
  BY <1>3, <1>4, <1>5, <1>6 DEF Kinded

\* Where the events of a later state come from.
LEMMA EventsFrom ==
    ASSUME JInv, Kinded, NEW d \in events'
    PROVE  \/ d \in events
           \/ d.run = Mine /\ At("persist") /\ Mine = Head /\ ~d.applied /\ proc'.run = Mine /\ proc'.pc = "load"
           \/ /\ At("record") /\ d.run = Mine /\ run'[Mine] = "published" /\ d.applied
              /\ \E e \in events : e.run = d.run /\ e.lineage = d.lineage /\ e.kind = d.kind /\ ~e.applied
<1>1. CASE Quiet
  BY <1>1 DEF Quiet
<1>2. CASE Drops
  BY <1>2 DEF Drops, DiscardGoes
<1>3. CASE Persists
  <2>1. PICK t : Classified(t) /\ PersistTo(t)
    BY <1>3 DEF Persists, Persisted
  <2>2. proc'.run = Mine /\ proc'.pc = "load"
    BY <2>1, ToRow DEF PersistTo, JInv, Mine, Pcs
  <2>3. RowsFrom(t)
    BY <1>3, <2>1, PersistFrom DEF Persists
  <2>4. QED
    BY <1>3, <2>2, <2>3 DEF Persists, RowsFrom
<1>4. CASE Records
  <2>1. PICK e \in events : /\ d.run = e.run /\ d.lineage = e.lineage /\ d.kind = e.kind
                            /\ d.applied = (e.applied \/ e \in ToApply) /\ (e \notin ToApply => d = e)
    BY <1>4 DEF Records, RecordSets
  <2>2. CASE e \notin ToApply
    BY <2>1, <2>2
  <2>3. CASE e \in ToApply
    <3>1. e.run = Mine /\ ~e.applied
      BY <2>3 DEF ToApply, EventsOf
    <3>2. run'[Mine] = "published"
      BY <1>4 DEF Records, RecordTo, JInv, Typed
    <3>3. QED
      BY <1>4, <2>1, <2>3, <3>1, <3>2 DEF Records
  <2>4. QED
    BY <2>2, <2>3
<1>5. QED
  BY <1>1, <1>2, <1>3, <1>4 DEF Kinded

LEMMA HeadGrows ==
    ASSUME JInv, JInv', Grows
    PROVE  /\ Head \in Runs /\ Head' \in Runs /\ Head <= Head'
           /\ \A e \in events : e.run <= Head
           /\ \A e \in events : e.run = Head' => e.run = Head
<1>1. Head \in Runs /\ \A r \in Runs : jobs[r].status # "absent" <=> r <= Head
  BY HeadIs DEF JInv
<1>2. Numbered'
  BY DEF JInv
<1>3. Head' \in Runs /\ \A r \in Runs : jobs'[r].status # "absent" <=> r <= Head'
  <2>1. Head' = HeadOf(jobs')
    BY DEF Head, HeadOf
  <2>2. QED
    BY <1>2, <2>1, HeadOfIs DEF Numbered
<1>4. \A e \in events : e.run \in Runs /\ jobs[e.run].status # "absent"
  BY RowsNow DEF JInv, EventsFit
<1>5. Head <= Head'
  BY <1>1, <1>3, Constants DEF Grows
<1>6. ASSUME NEW e \in events
      PROVE  e.run <= Head /\ (e.run = Head' => e.run = Head)
  <2>1. e.run \in Runs /\ e.run <= Head
    BY <1>1, <1>4
  <2>2. e.run \in Nat /\ Head \in Nat
    BY <1>1, <2>1, Constants
  <2>3. QED
    BY <1>5, <2>1, <2>2
<1>7. QED
  BY <1>1, <1>3, <1>5, <1>6

LEMMA NewestStays ==
    ASSUME JInv, JInv', KInv, Kinded
    PROVE  Newest'
<1> DEFINE me == proc'.run
<1>1. SUFFICES ASSUME proc'.pc \notin Early, NEW d \in events'
               PROVE  d.run <= me
  BY DEF Newest, Early, Mine
<1>2. Newest /\ \A e \in events : e.run \in Runs
  BY RowsNow DEF KInv
<1>3. \A e \in events : e.run <= Head
  BY HeadGrows DEF Kinded
<1>4. \A e \in events : e.run <= me
  BY <1>1, <1>2, <1>3 DEF Newest, Kinded, Follows, Early, Mine
<1>5. d.run = me \/ \E e \in events : d.run = e.run
  BY EventsFrom
<1>6. me \in Runs
  <2>1. JobsFit' /\ proc'.pc # "idle"
    BY <1>1 DEF JInv, Early
  <2>2. QED
    BY <2>1 DEF JobsFit, At, Mine
<1>7. QED
  <2>1. me \in Nat
    BY <1>6, Constants
  <2> HIDE DEF me
  <2>2. QED
    BY <1>4, <1>5, <2>1

LEMMA UnchangedStays ==
    ASSUME JInv, JInv', KInv, Kinded
    PROVE  Unchanged'
<1> DEFINE Fits(e, s) == s = CASE e.kind = "new" -> "pending"
                               [] e.kind = "persistent" -> "active"
                               [] e.kind = "reopened" -> "addressed"
                               [] e.kind = "addressed" -> "active"
<1>1. SUFFICES ASSUME NEW d \in events', ~d.applied, run'[d.run] # "published",
                      d.run = Head' \/ (d.run = proc'.run /\ proc'.pc \notin Early)
               PROVE  Fits(d, lineage'[d.lineage].status)
  BY DEF Unchanged, Recent, Expected, Early, Mine
<1>2. \A e \in events : ~e.applied /\ run[e.run] # "published" /\ Recent(e.run) => Fits(e, lineage[e.lineage].status)
  BY DEF KInv, Unchanged, Expected
<1> HIDE DEF Fits
<1>3. /\ Head \in Runs /\ \A e \in events : e.run \in Runs /\ e.lineage \in Fingerprints
      /\ \A e \in events : e.run = Head' => e.run = Head
      /\ \A e \in events : e.run <= Head
  BY HeadGrows, RowsNow DEF Kinded
<1>4. d \in events => run[d.run] # "published"
  BY <1>1, <1>3 DEF Kinded, RunsStay
<1>5. d \in events => Recent(d.run)
  BY <1>1, <1>3 DEF Kinded, Follows, Recent, Early, Mine
<1>6. d \in events => Fits(d, lineage[d.lineage].status)
  BY <1>1, <1>2, <1>4, <1>5
<1>7. CASE Quiet
  BY <1>6, <1>7 DEF Quiet
<1>8. CASE Drops
  <2>1. d \in events /\ lineage'[d.lineage] = lineage[d.lineage]
    BY <1>3, <1>8 DEF Drops, DiscardGoes
  <2>2. QED
    BY <1>6, <2>1
<1>9. CASE Persists
  <2>1. PICK t : Classified(t) /\ PersistTo(t)
    BY <1>9 DEF Persists, Persisted
  <2>2. Mine \in Runs /\ Mine = Head /\ (\A e \in events : e.run # Mine) /\ proc.pc = "persist"
    BY <1>9 DEF Persists, At
  <2>3. d \notin events
    BY <1>5, <2>2 DEF Recent
  <2>4. RowsFrom(t)
    BY <2>1, <2>2, PersistFrom
  <2>5. PICK x \in t : d.lineage = x.lineage /\ d.kind = x.kind
    BY <2>3, <2>4 DEF RowsFrom
  <2>6. lineage'[x.lineage].status = CASE x.kind = "new" -> "pending"
                                       [] x.kind = "persistent" -> "active"
                                       [] x.kind = "reopened" -> "addressed"
                                       [] x.kind = "addressed" -> "active"
    BY <2>1, <2>2, PersistLeaves
  <2>7. Fits(x, lineage'[x.lineage].status)
    BY <2>6 DEF Fits
  <2>8. QED
    BY <2>5, <2>7 DEF Fits
<1>10. CASE Records
  <2>1. proc.pc = "record" /\ Mine \in Runs /\ run'[Mine] = "published"
    BY <1>10 DEF Records, At, RecordTo, JInv, Typed
  <2>2. d \in events
    BY <1>1, <2>1, EventsFrom DEF At
  <2>3. d.run # Mine
    BY <1>1, <2>1
  <2>4. d.run = Head /\ d.run <= Mine
    BY <1>5, <2>1, <2>2, <2>3 DEF Recent, KInv, Newest
  <2>5. Mine <= Head
    <3>1. jobs[Mine].status # "absent"
      BY <2>1 DEF JInv, JobsFit, At
    <3>2. QED
      BY <2>1, <3>1, HeadIs DEF JInv
  <2>6. QED
    BY <1>3, <2>1, <2>3, <2>4, <2>5, Constants
<1>11. QED
  BY <1>7, <1>8, <1>9, <1>10 DEF Kinded

LEMMA StepKInv ==
    ASSUME JInv, KInv, [Next]_vars
    PROVE  JInv' /\ KInv'
<1>1. JInv' /\ Kinded
  BY StepIsGood, StepIsKinded DEF Good
<1>2. QED
  BY <1>1, RowsStayUnique, NewestStays, UnchangedStays DEF KInv

-----------------------------------------------------------------------------
(* What a step may do to threads, operations and GitHub.                   *)

Bare == UNCHANGED <<threads, ops, github>>

Effects ==
    \/ Quiet /\ Bare
    \/ Drops /\ UNCHANGED github
    \/ Persists /\ UNCHANGED github
    \/ Records /\ UNCHANGED <<ops, github>>
    \/ Publish \/ Unresolve \/ Reply \/ Resolve \/ BeginOperations \/ MarkOperation \/ OperationFailed

LEMMA RetiredEffects ==
    ASSUME JInv, NEW r \in Runs, NEW s \in RunStatus, Retired(r, s), Grows, UNCHANGED github
    PROVE  Effects
<1>1. CASE run[r] \in Unpublished
  <2>1. DiscardGoes(r)
    BY <1>1, DiscardRows DEF Retired
  <2>2. QED
    BY <1>1, <2>1 DEF Drops, Effects
<1>2. CASE run[r] \notin Unpublished
  BY <1>2 DEF Retired, Quiet, Bare, Effects, tables
<1>3. QED
  BY <1>1, <1>2

LEMMA StepHasEffects ==
    ASSUME JInv, [Next]_vars
    PROVE  Effects
<1>1. CASE UNCHANGED vars
  BY <1>1 DEF vars, Quiet, Bare, Effects
<1>2. CASE \/ Push \/ Claim \/ Crash \/ Begin \/ AgentFails \/ Fail \/ Load \/ Unpublish \/ NextOperation \/ Finish
  <2>1. Quiet /\ Bare
    BY <1>2 DEF Push, Claim, Crash, Begin, AgentFails, Fail, Load, Unpublish, NextOperation, Finish,
                Quiet, Bare, tables
  <2>2. QED
    BY <2>1 DEF Effects
<1>3. CASE Persist
  <2>1. github' = github
    BY <1>3, PersistGoes
  <2>2. CASE Persisted
    BY <1>3, <2>1, <2>2, PersistGoes DEF Persists, Effects
  <2>3. CASE UNCHANGED <<run, tables>>
    BY <2>1, <2>3 DEF Quiet, Bare, Effects, tables
  <2>4. QED
    BY <1>3, <2>2, <2>3, PersistGoes
<1>4. CASE Supersede \/ \E r \in Runs : TerminalFailed(r)
  <2>1. PICK r \in Runs, s \in RunStatus : Retired(r, s) /\ UNCHANGED github
    <3>1. CASE Supersede
      BY <3>1, WorkerAt DEF Supersede, At, RunStatus
    <3>2. CASE \E r \in Runs : TerminalFailed(r)
      BY <3>2 DEF TerminalFailed, RunStatus
    <3>3. QED
      BY <1>4, <3>1, <3>2
  <2>2. Grows
    BY StepIsKinded DEF Kinded
  <2>3. QED
    BY <2>1, <2>2, RetiredEffects
<1>5. CASE Record
  <2>1. UNCHANGED <<ops, github>>
    BY <1>5, RecordGoes
  <2>2. CASE RecordTo /\ RecordSets
    BY <1>5, <2>1, <2>2, RecordGoes DEF Records, Effects
  <2>3. CASE UNCHANGED <<run, tables>>
    BY <2>1, <2>3 DEF Quiet, Bare, Effects, tables
  <2>4. QED
    BY <1>5, <2>2, <2>3, RecordGoes
<1>6. CASE Publish \/ Unresolve \/ Reply \/ Resolve \/ BeginOperations \/ MarkOperation \/ OperationFailed
  BY <1>6 DEF Effects
<1>7. QED
  BY <1>1, <1>2, <1>3, <1>4, <1>5, <1>6 DEF Next

-----------------------------------------------------------------------------
(* The thread and the operation the worker is at.                          *)

\* The root comment of a thread.
LEMMA ThreadRoot ==
    ASSUME RowsUnique, ThreadsFit, NEW l \in Fingerprints, threads[l] # NoThread
    PROVE  \E x \in findings :
             /\ x.run = threads[l].root /\ x.lineage = l /\ <<x.run, x.fp>> \in github.roots
             /\ FingerprintOf([run |-> threads[l].root, lineage |-> l]) = x.fp
             /\ \A y \in findings : y.run = threads[l].root /\ y.lineage = l => y = x
<1>1. PICK x \in findings : x.run = threads[l].root /\ x.lineage = l /\ <<x.run, x.fp>> \in github.roots
  BY DEF ThreadsFit
<1> DEFINE e == [run |-> threads[l].root, lineage |-> l]
<1>2. \A y \in findings : y.run = threads[l].root /\ y.lineage = l => y = x
  BY <1>1 DEF RowsUnique, Matches
<1>3. Matches(e, x) /\ \A y \in findings : Matches(e, y) => y = x
  BY <1>1, <1>2 DEF Matches
<1>4. FingerprintOf(e) = x.fp
  <2> HIDE DEF e
  <2>1. QED
    BY <1>1, <1>3, FingerprintIs
<1>5. QED
  BY <1>1, <1>2, <1>4

LEMMA EventFingerprint ==
    ASSUME JInv, RowsUnique, NEW e \in events, e.kind # "addressed"
    PROVE  \E x \in findings : /\ Matches(e, x) /\ FingerprintOf(e) = x.fp
                               /\ \A y \in findings : Matches(e, y) => y = x
<1>1. \E x \in findings : Matches(e, x)
  BY DEF JInv, EventsFit
<1>2. QED
  BY <1>1, FingerprintIs DEF RowsUnique, Matches

\* The event behind the operation under way, and the thread it moves.
OpEvent(d) == /\ d.run = Mine /\ d.lineage = Op /\ Due(d) /\ Key(d) = OpKey /\ (Reopens <=> d.kind = "reopened")
              /\ \A e \in events : e.run = Mine /\ e.lineage = Op => e = d
OpRoot(x) == /\ x.run = threads[Op].root /\ x.lineage = Op /\ Root = <<x.run, x.fp>>
             /\ <<x.run, x.fp>> \in github.roots
             /\ \A y \in findings : y.run = x.run /\ y.lineage = Op => y = x

LEMMA OpFacts ==
    ASSUME JInv, KInv, ThreadsFit, TodoFits, proc.pc \in OpSteps, proc.todo # {}
    PROVE  /\ Mine \in Runs /\ Op \in proc.todo /\ Op \in Fingerprints /\ OpKey \in Event
           /\ OpKey.run = Mine /\ OpKey.lineage = Op
           /\ ops[OpKey] = "publishing" /\ threads[Op] # NoThread
           /\ \E d \in events : OpEvent(d)
           /\ \E x \in findings : OpRoot(x)
<1>1. ~At("idle")
  BY DEF At, OpSteps
<1>2. Mine \in Runs /\ Op \in proc.todo /\ Op \in Fingerprints
  BY <1>1, WorkerAt, OpIs
<1>3. OpKey \in Event /\ OpKey = [run |-> Mine, lineage |-> Op] /\ OpKey.run = Mine /\ OpKey.lineage = Op
  BY <1>2 DEF OpKey, Event
<1>4. ops[OpKey] = "publishing"
  BY <1>2, <1>3 DEF TodoFits
<1>5. PICK d \in events : d.run = Mine /\ d.lineage = Op /\ Due(d)
  BY <1>2 DEF TodoFits
<1>6. \A e \in events : e.run = Mine /\ e.lineage = Op => e = d
  BY <1>5 DEF KInv, RowsUnique
<1>7. Key(d) = OpKey
  BY <1>3, <1>5 DEF Key
<1>8. Reopens <=> d.kind = "reopened"
  BY <1>5, <1>6 DEF Reopens, EventsOf
<1>9. OpEvent(d)
  BY <1>5, <1>6, <1>7, <1>8 DEF OpEvent
<1>10. threads[Op] # NoThread
  BY <1>5 DEF Due
<1>11. PICK x \in findings :
             /\ x.run = threads[Op].root /\ x.lineage = Op /\ <<x.run, x.fp>> \in github.roots
             /\ FingerprintOf([run |-> threads[Op].root, lineage |-> Op]) = x.fp
             /\ \A y \in findings : y.run = threads[Op].root /\ y.lineage = Op => y = x
  BY <1>2, <1>10, ThreadRoot DEF KInv
<1>12. OpRoot(x)
  BY <1>11 DEF OpRoot, Root
<1>13. QED
  BY <1>2, <1>3, <1>4, <1>9, <1>10, <1>12

-----------------------------------------------------------------------------
(* Requests to GitHub.                                                     *)

\* What stays on GitHub whatever the request.
Still == /\ github' \in GitHubRow /\ github.roots \subseteq github'.roots

LEMMA PublishGoes ==
    ASSUME JInv, GitHubFits, Publish
    PROVE  /\ Still /\ github'.resolved = github.resolved /\ github'.replies = github.replies
           /\ github'.resolved \subseteq github'.roots
           /\ proc.pc = "publish" /\ proc'.pc \in {"record", "unpublished"} /\ proc'.run = Mine
           /\ proc'.inline = proc.inline /\ UNCHANGED <<jobs, run, lineage, findings, events, threads, ops>>
<1>1. /\ proc.pc = "publish" /\ ~At("idle") /\ github \in GitHubRow /\ github.resolved \subseteq github.roots
      /\ UNCHANGED <<jobs, run, lineage, findings, events, threads, ops>>
  BY DEF Publish, At, GitHubFits, tables
<1>2. Mine \in Runs /\ proc.inline \subseteq Fingerprints
  BY <1>1, WorkerAt DEF ProcRow
<1>3. /\ github.review \in [Runs -> {"none", "inline", "bare"}] /\ github.roots \subseteq Runs \X Fingerprints
      /\ github.resolved \subseteq Runs \X Fingerprints /\ github.replies \in [Event -> Nat]
  BY <1>1 DEF GitHubRow
<1>4. To("record") \/ To("unpublished")
  BY DEF Publish, Goes, Fails
<1>5. proc'.pc \in {"record", "unpublished"} /\ proc'.run = Mine /\ proc'.inline = proc.inline
  BY <1>4, ToRow DEF JInv, Mine, Pcs
<1>6. CASE github' = github
  BY <1>1, <1>5, <1>6 DEF Still
<1>7. CASE \E attached \in BOOLEAN :
               github' = [github EXCEPT
                            !.review[Mine] = IF attached THEN "inline" ELSE "bare",
                            !.roots = IF attached THEN @ \cup ({Mine} \X proc.inline) ELSE @]
  <2>1. PICK attached \in BOOLEAN :
               github' = [github EXCEPT
                            !.review[Mine] = IF attached THEN "inline" ELSE "bare",
                            !.roots = IF attached THEN @ \cup ({Mine} \X proc.inline) ELSE @]
    BY <1>7
  <2> DEFINE how == IF attached THEN "inline" ELSE "bare"
             rv == [github.review EXCEPT ![Mine] = how]
             rt == IF attached THEN github.roots \cup ({Mine} \X proc.inline) ELSE github.roots
  <2>2. github' = [github EXCEPT !.review = rv, !.roots = rt]
    BY <1>1, <2>1 DEF GitHubRow
  <2>3. rv \in [Runs -> {"none", "inline", "bare"}]
    BY <1>2, <1>3
  <2>4. rt \subseteq Runs \X Fingerprints /\ github.roots \subseteq rt
    BY <1>2, <1>3
  <2> HIDE DEF rv, rt, how
  <2>5. /\ github' \in GitHubRow /\ github'.roots = rt /\ github'.resolved = github.resolved
        /\ github'.replies = github.replies
    BY <1>1, <2>2, <2>3, <2>4 DEF GitHubRow
  <2>6. QED
    BY <1>1, <1>5, <2>4, <2>5 DEF Still
<1>8. QED
  BY <1>6, <1>7 DEF Publish

AllInv == JInv /\ KInv /\ TInv /\ OInv /\ CInv

\* The thread under way is resolved or opened again, or nothing happens.
LEMMA ResolutionGoes ==
    ASSUME AllInv, proc.pc \in OpSteps \ {"next"}, NEW b \in BOOLEAN, NEW next, SetResolution(b, next)
    PROVE  /\ Still /\ github'.replies = github.replies /\ github'.roots = github.roots
           /\ github'.resolved \subseteq github'.roots
           /\ \/ github'.resolved = github.resolved
              \/ b /\ github'.resolved = github.resolved \cup {Root}
              \/ ~b /\ github'.resolved = github.resolved \ {Root}
           /\ To(next) \/ To("opFailed")
           /\ To(next) /\ ~To("opFailed") => IF proc.resolved = b THEN github' = github
                         ELSE github'.resolved = IF b THEN github.resolved \cup {Root} ELSE github.resolved \ {Root}
<1>1. github \in GitHubRow /\ github.resolved \subseteq github.roots /\ proc.todo # {}
  BY DEF AllInv, TInv, GitHubFits, JInv, RunFits
<1>2. PICK x \in findings : OpRoot(x)
  BY <1>1, OpFacts DEF AllInv, TInv, OInv
<1>3. Root \in github.roots
  BY <1>2 DEF OpRoot
<1>4. To(next) \/ To("opFailed")
  BY DEF SetResolution, Goes, Fails
<1>5. CASE github' = github /\ (proc.resolved = b \/ To("opFailed"))
  BY <1>1, <1>4, <1>5 DEF Still
<1>6. CASE github' = [github EXCEPT !.resolved = IF b THEN @ \cup {Root} ELSE @ \ {Root}] /\ proc.resolved # b
  <2> DEFINE rs == IF b THEN github.resolved \cup {Root} ELSE github.resolved \ {Root}
  <2>1. github' = [github EXCEPT !.resolved = rs]
    BY <1>6
  <2>2. rs \subseteq github.roots
    BY <1>1, <1>3
  <2> HIDE DEF rs
  <2>3. github.roots \subseteq Runs \X Fingerprints
    BY <1>1 DEF GitHubRow
  <2>4. /\ github' \in GitHubRow /\ github'.roots = github.roots /\ github'.resolved = rs
        /\ github'.replies = github.replies
    BY <1>1, <2>1, <2>2, <2>3 DEF GitHubRow
  <2>5. github'.resolved \subseteq github'.roots /\ github'.resolved = IF b THEN github.resolved \cup {Root} ELSE github.resolved \ {Root}
    BY <2>2, <2>4 DEF rs
  <2>6. QED
    BY <1>4, <1>6, <2>4, <2>5 DEF Still
<1>7. QED
  BY <1>5, <1>6 DEF SetResolution, Goes, Fails

LEMMA ReplyGoes ==
    ASSUME AllInv, Reply
    PROVE  /\ Still /\ github'.resolved = github.resolved /\ github'.roots = github.roots
           /\ github'.resolved \subseteq github'.roots
           /\ github'.replies[OpKey] <= 1
           /\ \A k \in Event : k # OpKey => github'.replies[k] = github.replies[k]
           /\ proc'.pc \in {"mark", "resolve"} => github'.replies[OpKey] = 1
           /\ proc'.pc \in {"opFailed", IF Reopens THEN "mark" ELSE "resolve"}
<1>1. /\ github \in GitHubRow /\ github.resolved \subseteq github.roots /\ proc.todo # {}
      /\ proc.pc = "reply" /\ RepliesFit /\ (proc.replied <=> github.replies[OpKey] = 1)
  BY DEF AllInv, TInv, OInv, GitHubFits, JInv, RunFits, OpSteps, MovingFits, Reply, At
<1>2. OpKey \in Event
  BY <1>1, OpFacts DEF AllInv, TInv, OInv, OpSteps
<1>3. github.replies \in [Event -> Nat]
  BY <1>1 DEF GitHubRow
<1> DEFINE next == IF Reopens THEN "mark" ELSE "resolve"
<1>4. next \in {"mark", "resolve"}
  OBVIOUS
<1>5. \/ proc.replied /\ To(next) /\ github' = github
      \/ ~proc.replied /\ (To(next) \/ To("opFailed")) /\ github' = [github EXCEPT !.replies[OpKey] = @ + 1]
      \/ To("opFailed") /\ github' = github
  BY DEF Reply, Goes, Fails
<1>6. \A pc \in {"mark", "resolve", "opFailed"} : To(pc) => proc'.pc = pc
  BY ToRow DEF AllInv, JInv, Pcs
<1> HIDE DEF next
<1>7. CASE proc.replied /\ To(next) /\ github' = github
  BY <1>1, <1>4, <1>6, <1>7 DEF Still, next
<1>8. CASE To("opFailed") /\ github' = github
  <2>1. proc'.pc = "opFailed" /\ github.replies[OpKey] <= 1
    BY <1>1, <1>2, <1>6, <1>8 DEF RepliesFit
  <2>2. QED
    BY <1>1, <1>8, <2>1 DEF Still
<1>9. CASE ~proc.replied /\ (To(next) \/ To("opFailed")) /\ github' = [github EXCEPT !.replies[OpKey] = @ + 1]
  <2>1. github.replies[OpKey] = 0
    BY <1>1, <1>2, <1>3, <1>9 DEF RepliesFit
  <2> DEFINE rp == [github.replies EXCEPT ![OpKey] = 1]
  <2>2. github' = [github EXCEPT !.replies = rp]
    BY <1>1, <1>9, <2>1 DEF GitHubRow
  <2>3. rp \in [Event -> Nat] /\ rp[OpKey] = 1 /\ \A k \in Event : k # OpKey => rp[k] = github.replies[k]
    BY <1>2, <1>3
  <2> HIDE DEF rp
  <2>4. /\ github' \in GitHubRow /\ github'.roots = github.roots /\ github'.resolved = github.resolved
        /\ github'.replies = rp
    BY <1>1, <2>2, <2>3 DEF GitHubRow
  <2>5. proc'.pc = next \/ proc'.pc = "opFailed"
    BY <1>4, <1>6, <1>9
  <2>6. QED
    BY <1>1, <2>3, <2>4, <2>5 DEF Still, next
<1>10. QED
  BY <1>5, <1>7, <1>8, <1>9

-----------------------------------------------------------------------------
(* Every step keeps the third part: threads.                               *)

LEMMA GitHubStays ==
    ASSUME AllInv, Effects
    PROVE  GitHubFits' /\ github.roots \subseteq github'.roots
<1>1. GitHubFits /\ JInv
  BY DEF AllInv, TInv
<1>2. CASE github' = github
  BY <1>1, <1>2 DEF GitHubFits
<1>3. CASE Publish
  BY <1>1, <1>3, PublishGoes DEF GitHubFits, Still
<1>4. CASE Unresolve \/ Resolve
  <2>1. proc.pc \in OpSteps \ {"next"}
    BY <1>4 DEF Unresolve, Resolve, At, OpSteps
  <2>2. SetResolution(FALSE, "reply") \/ SetResolution(TRUE, "mark")
    BY <1>4 DEF Unresolve, Resolve
  <2>3. Still /\ github'.resolved \subseteq github'.roots
    BY <2>1, <2>2, ResolutionGoes
  <2>4. QED
    BY <2>3 DEF GitHubFits, Still
<1>5. CASE Reply
  BY <1>5, ReplyGoes DEF GitHubFits, Still
<1>6. CASE BeginOperations \/ MarkOperation \/ OperationFailed
  BY <1>1, <1>2, <1>6, BeginOperationsGoes, MarkGoes, OperationFailedGoes
<1>7. QED
  BY <1>2, <1>3, <1>4, <1>5, <1>6 DEF Effects, Bare

\* A finding that is recorded as new had a pending lineage, so it had neither
\* a thread nor a transition that was applied before.
LEMMA RootedIsNew ==
    ASSUME AllInv, Records, NEW l \in Fingerprints, Rooted(l)
    PROVE  /\ lineage[l].status = "pending" /\ threads[l] = NoThread
           /\ \A e \in events : e.lineage = l => ~e.applied
           /\ \E e \in ToApply : /\ e.kind = "new" /\ e.lineage = l /\ e.run = Mine
                                 /\ \E x \in findings : Matches(e, x) /\ <<Mine, x.fp>> \in github.roots
<1>1. JInv /\ KInv /\ ThreadsFit /\ Mine \in Runs /\ run[Mine] = "publishing" /\ \A e \in ToApply : Expected(e)
  BY DEF AllInv, TInv, Records, RecordTo
<1>2. PICK e \in events : e.run = Mine /\ e.kind = "new" /\ e.lineage = l /\ FingerprintOf(e) \in Anchored
  BY DEF Rooted, EventsOf
<1>3. ~e.applied
  BY <1>1, <1>2 DEF JInv, EventsFit
<1>4. e \in ToApply
  BY <1>2, <1>3 DEF ToApply, EventsOf, LeftPending
<1>5. lineage[l].status = "pending"
  BY <1>1, <1>2, <1>4 DEF Expected
<1>6. threads[l] = NoThread
  BY <1>1, <1>5 DEF ThreadsFit
<1>7. \A d \in events : d.lineage = l => ~d.applied
  BY <1>1, <1>5 DEF JInv, EventsFit
<1>8. \E x \in findings : Matches(e, x) /\ <<Mine, x.fp>> \in github.roots
  BY <1>1, <1>2, EventFingerprint DEF KInv, Anchored
<1>9. QED
  BY <1>2, <1>4, <1>5, <1>6, <1>7, <1>8

\* What makes a thread fit, for any state of the tables.
ThreadOk(t, rn, ln, fs, rs, l) ==
    /\ t.root \in Runs /\ rn[t.root] = "published"
    /\ t.status \in {"active", "addressed"} /\ ln.status \in {"active", "addressed"}
    /\ \E x \in fs : x.run = t.root /\ x.lineage = l /\ <<x.run, x.fp>> \in rs

LEMMA ThreadsStay ==
    ASSUME AllInv, Kinded, Effects
    PROVE  ThreadsFit'
<1>1. JInv /\ KInv /\ ThreadsFit /\ RunsStay /\ github.roots \subseteq github'.roots
  BY GitHubStays DEF AllInv, TInv, Kinded
<1>2. \A l \in Fingerprints : threads[l] # NoThread => ThreadOk(threads[l], run, lineage[l], findings, github.roots, l)
  BY <1>1 DEF ThreadsFit, ThreadOk
<1>3. SUFFICES ASSUME NEW l \in Fingerprints, threads'[l] # NoThread
               PROVE  ThreadOk(threads'[l], run', lineage'[l], findings', github'.roots, l)
  BY DEF ThreadsFit, ThreadOk
<1>4. CASE Quiet /\ threads' = threads
  BY <1>1, <1>2, <1>3, <1>4 DEF ThreadOk, Quiet, RunsStay
<1>5. CASE Drops
  <2>1. PICK r \in Runs : run[r] \in Unpublished /\ DiscardGoes(r)
    BY <1>5 DEF Drops
  <2>2. l \notin Pending(r) /\ threads'[l] = threads[l] /\ lineage'[l] = lineage[l]
    BY <1>3, <2>1 DEF DiscardGoes
  <2>3. threads[l].root # r
    BY <1>2, <1>3, <2>1, <2>2 DEF ThreadOk, Unpublished
  <2>4. PICK x \in findings : x.run = threads[l].root /\ x.lineage = l /\ <<x.run, x.fp>> \in github.roots
    BY <1>2, <1>3, <2>2 DEF ThreadOk
  <2>5. x \in findings'
    BY <2>1, <2>2, <2>3, <2>4 DEF DiscardGoes
  <2>6. \E y \in findings' : y.run = threads'[l].root /\ y.lineage = l /\ <<y.run, y.fp>> \in github'.roots
    BY <1>1, <2>2, <2>4, <2>5
  <2>7. ThreadOk(threads'[l], run, lineage'[l], findings, github.roots, l)
    BY <1>2, <1>3, <2>2
  <2>8. QED
    BY <1>1, <2>6, <2>7 DEF ThreadOk, RunsStay
<1>6. CASE Persists
  <2>1. PICK t : Classified(t) /\ PersistTo(t)
    BY <1>6 DEF Persists, Persisted
  <2>2. Mine \in Runs /\ run[Mine] = "generating" /\ threads' = threads
    BY <1>1, <1>6, <2>1 DEF Persists, PersistTo, JInv, RunFits
  <2>3. lineage'[l] = lineage[l] /\ l \notin Pending(Mine)
    BY <1>1, <1>2, <1>3, <2>1, <2>2, PersistLeaves DEF ThreadOk, Pending
  <2>4. PICK x \in findings : x.run = threads[l].root /\ x.lineage = l /\ <<x.run, x.fp>> \in github.roots
    BY <1>2, <1>3, <2>2 DEF ThreadOk
  <2>5. x.run # Mine
    BY <1>2, <1>3, <2>2, <2>4 DEF ThreadOk
  <2>6. x \in {y \in findings : y.lineage \notin Pending(Mine) /\ y.run # Mine}
    BY <2>3, <2>4, <2>5
  <2>7. x \in findings'
    BY <2>1, <2>6 DEF PersistTo
  <2>8. QED
    BY <1>1, <1>2, <1>3, <2>2, <2>3, <2>4, <2>7 DEF ThreadOk, RunsStay
<1>7. CASE Records
  <2>1. /\ Mine \in Runs /\ run'[Mine] = "published" /\ findings' = findings /\ RecordTo
        /\ threads'[l] = IF Rooted(l) THEN [root |-> Mine, status |-> "active"] ELSE threads[l]
    BY <1>1, <1>7 DEF Records, RecordTo, JInv, Typed
  <2>2. CASE Rooted(l)
    <3>1. PICK e \in ToApply : /\ e.kind = "new" /\ e.lineage = l /\ e.run = Mine
                               /\ \E x \in findings : Matches(e, x) /\ <<Mine, x.fp>> \in github.roots
      BY <1>7, <2>2, RootedIsNew
    <3>2. lineage'[l].status \in {"active", "addressed"}
      BY <2>1, <3>1 DEF RecordTo
    <3>3. threads'[l].root = Mine /\ threads'[l].status = "active"
      BY <2>1, <2>2
    <3>4. QED
      BY <1>1, <2>1, <3>1, <3>2, <3>3 DEF ThreadOk, Matches
  <2>3. CASE ~Rooted(l)
    <3>1. ThreadOk(threads[l], run, lineage[l], findings, github.roots, l) /\ threads'[l] = threads[l]
      BY <1>2, <1>3, <2>1, <2>3
    <3>2. lineage'[l].status \in {"active", "addressed"}
      BY <2>1, <3>1 DEF RecordTo, ThreadOk
    <3>3. QED
      BY <1>1, <2>1, <3>1, <3>2 DEF ThreadOk, RunsStay
  <2>4. QED
    BY <2>2, <2>3
<1>8. CASE MarkOperation
  <2>1. proc.pc \in OpSteps /\ proc.todo # {} /\ Quiet
    BY <1>1, <1>8, MarkGoes DEF JInv, RunFits, OpSteps, Quiet
  <2>2. Op \in Fingerprints /\ threads[Op] # NoThread
    BY <2>1, OpFacts DEF AllInv, TInv, OInv
  <2>3. threads[l] # NoThread /\ threads'[l].root = threads[l].root
    BY <1>1, <1>3, <1>8, <2>2, MarkGoes
  <2>4. threads'[l].status \in {"active", "addressed"}
    BY <1>1, <1>2, <1>8, <2>2, <2>3, MarkGoes DEF ThreadOk
  <2>5. QED
    BY <1>1, <1>2, <2>1, <2>3, <2>4 DEF ThreadOk, Quiet, RunsStay
<1>9. CASE Publish \/ Unresolve \/ Reply \/ Resolve \/ BeginOperations \/ OperationFailed
  <2>1. Quiet /\ threads' = threads
    BY <1>1, <1>9, RequestGoes, BeginOperationsGoes, OperationFailedGoes DEF Publish, Quiet, tables
  <2>2. QED
    BY <1>4, <2>1
<1>10. QED
  BY <1>4, <1>5, <1>6, <1>7, <1>8, <1>9 DEF Effects, Bare

LEMMA TrackedStays ==
    ASSUME AllInv, Kinded, Effects
    PROVE  TrackedFits'
<1>1. JInv /\ KInv /\ TrackedFits /\ ThreadsFit /\ InlineFits
  BY DEF AllInv, TInv
<1>2. SUFFICES ASSUME NEW d \in events', d.kind = "new", d.applied, d.run \in InlineRuns
               PROVE  threads'[d.lineage] # NoThread /\ threads'[d.lineage].root = d.run
  BY DEF TrackedFits
<1>3. d \in events => /\ threads[d.lineage] # NoThread /\ threads[d.lineage].root = d.run
                      /\ d.lineage \in Fingerprints /\ d.run \in Runs
  BY <1>1, <1>2, RowsNow DEF TrackedFits
<1>4. CASE Quiet /\ threads' = threads
  BY <1>3, <1>4 DEF Quiet
<1>5. CASE Drops
  <2>1. d \in events /\ threads'[d.lineage] = threads[d.lineage]
    BY <1>3, <1>5 DEF Drops, DiscardGoes
  <2>2. QED
    BY <1>3, <2>1
<1>6. CASE Persists
  <2>1. threads' = threads
    BY <1>6 DEF Persists, Persisted, PersistTo
  <2>2. d \in events
    BY <1>1, <1>2, <1>6, EventsFrom DEF Persists, At
  <2>3. QED
    BY <1>3, <2>1, <2>2
<1>7. CASE Records
  <2>1. /\ proc.pc = "record" /\ Mine \in Runs /\ run[Mine] = "publishing"
        /\ \A l \in Fingerprints :
             threads'[l] = IF Rooted(l) THEN [root |-> Mine, status |-> "active"] ELSE threads[l]
        /\ \A e \in ToApply : Expected(e)
    BY <1>7 DEF Records, RecordTo, At
  <2>2. CASE d \in events
    <3>1. ~Rooted(d.lineage)
      BY <1>2, <1>3, <1>7, <2>2, RootedIsNew
    <3>2. QED
      BY <1>3, <2>1, <2>2, <3>1
  <2>3. CASE d \notin events
    <3>1. PICK e \in events : /\ d.run = e.run /\ d.lineage = e.lineage /\ d.kind = e.kind
                              /\ (e \notin ToApply => d = e)
      BY <1>7 DEF Records, RecordSets
    <3>2. e \in ToApply
      BY <2>3, <3>1
    <3>3. e.run = Mine /\ ~LeftPending(e) /\ lineage[e.lineage].status = "pending" /\ e.lineage \in Fingerprints
      BY <1>1, <1>2, <2>1, <3>1, <3>2, RowsNow DEF ToApply, EventsOf, Expected
    <3>4. threads[e.lineage] = NoThread
      BY <1>1, <3>3 DEF ThreadsFit
    <3>5. PICK x \in findings : Matches(e, x) /\ FingerprintOf(e) = x.fp
      BY <1>1, <1>2, <3>1, EventFingerprint DEF KInv
    <3>6. x.fp \in proc.inline
      BY <1>1, <1>2, <2>1, <3>1, <3>3, <3>5 DEF InlineFits
    <3>7. FingerprintOf(e) \in Anchored
      BY <1>2, <3>1, <3>3, <3>4, <3>5, <3>6 DEF LeftPending
    <3>8. Rooted(e.lineage)
      BY <1>2, <3>1, <3>3, <3>7 DEF Rooted, EventsOf
    <3>9. threads'[d.lineage] = [root |-> Mine, status |-> "active"]
      BY <2>1, <3>1, <3>3, <3>8
    <3>10. threads'[d.lineage].root = Mine /\ threads'[d.lineage].status = "active"
      BY <3>9
    <3>11. QED
      BY <3>1, <3>3, <3>10, Shapes
  <2>4. QED
    BY <2>2, <2>3
<1>8. CASE MarkOperation
  <2>1. events' = events /\ proc.pc \in OpSteps /\ proc.todo # {}
    BY <1>1, <1>8, MarkGoes DEF JInv, RunFits, OpSteps
  <2>2. Op \in Fingerprints
    BY <2>1, OpFacts DEF AllInv, TInv, OInv
  <2>3. threads'[d.lineage] = threads[d.lineage] \/ threads'[d.lineage].status \in {"active", "addressed"}
    BY <1>1, <1>3, <1>8, <2>1, MarkGoes
  <2>4. threads'[d.lineage].root = threads[d.lineage].root
    BY <1>1, <1>3, <1>8, <2>1, MarkGoes
  <2>5. QED
    BY <1>3, <2>1, <2>3, <2>4, Shapes
<1>9. CASE Publish \/ Unresolve \/ Reply \/ Resolve \/ BeginOperations \/ OperationFailed
  <2>1. Quiet /\ threads' = threads
    BY <1>1, <1>9, RequestGoes, BeginOperationsGoes, OperationFailedGoes DEF Publish, Quiet, tables
  <2>2. QED
    BY <1>4, <2>1
<1>10. QED
  BY <1>4, <1>5, <1>6, <1>7, <1>8, <1>9 DEF Effects, Bare

\* The later transitions of an event, in any table of events.
LaterIn(es, e) == {d \in es : /\ d.lineage = e.lineage /\ d.run > e.run /\ d.applied
                              /\ d.kind # "persistent"}

LEMMA LaterKept ==
    ASSUME Keeps, NEW d, LaterIn(events', d) = {}
    PROVE  LaterIn(events, d) = {}
BY DEF LaterIn, Keeps

\* An event that is applied in the next state is one already, or is recorded.
LEMMA AppliedFrom ==
    ASSUME AllInv, Kinded, NEW d \in events', d.applied
    PROVE  \/ d \in events
           \/ Records /\ \E e \in ToApply : e.run = d.run /\ e.lineage = d.lineage /\ e.kind = d.kind
<1>1. JInv
  BY DEF AllInv
<1>2. CASE Quiet
  BY <1>2 DEF Quiet
<1>3. CASE Drops
  BY <1>3 DEF Drops, DiscardGoes
<1>4. CASE Persists
  BY <1>1, <1>4, EventsFrom DEF Persists, At
<1>5. CASE Records
  BY <1>5 DEF Records, RecordSets
<1>6. QED
  BY <1>2, <1>3, <1>4, <1>5 DEF Kinded

\* What a recorded event finds: it is of the worker's run, later than every
\* other applied event of its lineage.
LEMMA RecordedIsLater ==
    ASSUME AllInv, Records, NEW e \in ToApply
    PROVE  /\ e \in events /\ e.run = Mine /\ ~e.applied /\ e.lineage \in Fingerprints /\ Expected(e)
           /\ \A c \in events : c.applied => c.run \in Nat /\ c.run < e.run
           /\ \A c \in events : c.run = Mine /\ c.lineage = e.lineage => c = e
           /\ \E c \in events' : /\ c.run = e.run /\ c.lineage = e.lineage /\ c.kind = e.kind /\ c.applied
<1>1. JInv /\ KInv /\ Mine \in Runs /\ run[Mine] = "publishing" /\ proc.pc = "record" /\ RecordTo /\ RecordSets
  BY DEF AllInv, Records, At
<1>2. e \in events /\ e.run = Mine /\ ~e.applied /\ e.lineage \in Fingerprints /\ Expected(e)
  BY <1>1, RowsNow DEF ToApply, EventsOf, RecordTo
<1>3. \A c \in events : c.run = Mine /\ c.lineage = e.lineage => c = e
  BY <1>1, <1>2 DEF KInv, RowsUnique
<1>4. ASSUME NEW c \in events, c.applied
      PROVE  c.run \in Nat /\ c.run < e.run
  <2>1. c.run # Mine /\ c.run \in Runs
    BY <1>1, <1>4, RowsNow DEF JInv, EventsFit
  <2>2. c.run <= Mine
    BY <1>1 DEF KInv, Newest
  <2>3. c.run \in Nat /\ Mine \in Nat
    BY <1>1, <2>1, Constants
  <2>4. QED
    BY <1>2, <2>1, <2>2, <2>3
<1>5. \E c \in events' : /\ c.run = e.run /\ c.lineage = e.lineage /\ c.kind = e.kind /\ c.applied
  BY <1>1, <1>2 DEF RecordSets
<1>6. QED
  BY <1>2, <1>3, <1>4, <1>5

LEMMA LastStays ==
    ASSUME AllInv, Kinded, Keeps
    PROVE  LastFits'
<1>1. JInv /\ KInv /\ LastFits
  BY DEF AllInv, TInv
<1>2. SUFFICES ASSUME NEW d \in events', d.applied, d.kind \in {"addressed", "reopened"}, LaterIn(events', d) = {}
               PROVE  lineage'[d.lineage].status = StatusOf(d)
  BY DEF LastFits, LaterIn, Later, StatusOf
<1>3. ASSUME d \in events
      PROVE  /\ lineage[d.lineage].status = StatusOf(d) /\ d.lineage \in Fingerprints /\ d.run \in Runs
             /\ lineage[d.lineage].status \in {"active", "addressed"}
  <2>1. LaterIn(events, d) = {}
    BY <1>2, LaterKept
  <2>2. QED
    BY <1>1, <1>2, <1>3, <2>1, RowsNow DEF LastFits, LaterIn, Later, StatusOf
<1>4. CASE Quiet
  BY <1>3, <1>4 DEF Quiet
<1>5. CASE Drops
  <2>1. d \in events /\ lineage'[d.lineage] = lineage[d.lineage]
    BY <1>3, <1>5 DEF Drops, DiscardGoes
  <2>2. QED
    BY <1>3, <2>1
<1>6. CASE Persists
  <2>1. d \in events
    BY <1>2, <1>6, AppliedFrom DEF Persists, Records, At
  <2>2. PICK t : Classified(t) /\ PersistTo(t)
    BY <1>6 DEF Persists, Persisted
  <2>3. lineage'[d.lineage] = lineage[d.lineage]
    BY <1>1, <1>3, <1>6, <2>1, <2>2, PersistLeaves DEF Persists
  <2>4. QED
    BY <1>3, <2>1, <2>3
<1>7. CASE Records
  <2>1. RecordTo
    BY <1>7 DEF Records
  <2>2. CASE \E e \in ToApply : e.run = d.run /\ e.lineage = d.lineage /\ e.kind = d.kind
    <3>1. PICK e \in ToApply : e.run = d.run /\ e.lineage = d.lineage /\ e.kind = d.kind
      BY <2>2
    <3>2. e.lineage \in Fingerprints /\ \A c \in ToApply : c.lineage = e.lineage => c = e
      BY <1>7, RecordedIsLater
    <3>3. QED
      BY <1>2, <2>1, <3>1, <3>2 DEF RecordTo, StatusOf
  <2>3. CASE d \in events
    <3>1. CASE \A e \in ToApply : e.lineage # d.lineage
      BY <1>3, <2>1, <2>3, <3>1 DEF RecordTo
    <3>2. CASE \E e \in ToApply : e.lineage = d.lineage
      <4>1. PICK e \in ToApply : e.lineage = d.lineage
        BY <3>2
      <4>2. PICK c \in events' : c.run = e.run /\ c.lineage = e.lineage /\ c.kind = e.kind /\ c.applied
        BY <1>7, RecordedIsLater
      <4>3. d.run \in Nat /\ d.run < e.run /\ e.run \in Nat
        BY <1>2, <1>7, <2>3, RecordedIsLater, RowsNow, <1>1, Constants DEF Records
      <4>4. c.kind = "persistent"
        BY <1>2, <4>1, <4>2, <4>3 DEF LaterIn
      <4>5. e.kind = "persistent" /\ Expected(e) /\ \A b \in ToApply : b.lineage = e.lineage => b = e
        BY <1>7, <4>2, <4>4, RecordedIsLater
      <4>6. lineage[d.lineage].status = "active" /\ lineage'[d.lineage].status = "active"
        BY <1>3, <2>1, <2>3, <4>1, <4>5 DEF Expected, RecordTo
      <4>7. QED
        BY <1>3, <2>3, <4>6
    <3>3. QED
      BY <3>1, <3>2
  <2>4. QED
    BY <1>2, <2>2, <2>3, AppliedFrom
<1>8. QED
  BY <1>4, <1>5, <1>6, <1>7 DEF Kinded

\* The findings that go inline are settled when the publication begins.
LEMMA InlineStays ==
    ASSUME AllInv, [Next]_vars, Kinded
    PROVE  InlineFits'
<1> DEFINE Steps == {"publish", "unpublished", "record"}
<1>1. JInv /\ KInv /\ InlineFits
  BY DEF AllInv, TInv
<1>2. SUFFICES ASSUME proc'.pc \in Steps, proc'.run \in InlineRuns, NEW e \in events', NEW x \in findings',
                      e.run = proc'.run, e.kind = "new", Matches(e, x)
               PROVE  x.fp \in proc'.inline
  BY DEF InlineFits, Mine, Matches
<1>3. CASE Load
  <2>1. findings' = findings /\ events' = events
    BY <1>3 DEF Load, tables
  <2> DEFINE in == IF Mine \in InlineRuns THEN NewOf(Mine) ELSE {}
  <2>2. proc' = [proc EXCEPT !.pc = "publish", !.inline = in]
    <3>1. ~To("operations")
      BY <1>1, <1>2, ToRow DEF JInv, Pcs
    <3>2. QED
      BY <1>3, <3>1 DEF Load
  <2>3. proc'.run = Mine /\ proc'.inline = in
    BY <1>1, <2>2 DEF JInv, Typed, ProcRow, Mine
  <2>4. proc'.inline = NewOf(Mine)
    BY <1>2, <2>3
  <2>5. PICK y \in findings : Matches(e, y) /\ FingerprintOf(e) = y.fp /\ \A z \in findings : Matches(e, z) => z = y
    BY <1>1, <1>2, <2>1, EventFingerprint DEF KInv
  <2>6. FingerprintOf(e) = x.fp
    BY <1>2, <2>1, <2>5
  <2>7. QED
    BY <1>2, <2>1, <2>3, <2>4, <2>6 DEF NewOf, EventsOf
<1>4. CASE /\ events' \subseteq events /\ findings' \subseteq findings
           /\ proc.pc \in Steps /\ proc'.run = proc.run /\ proc'.inline = proc.inline
  BY <1>1, <1>2, <1>4 DEF InlineFits, Mine
<1>5. CASE UNCHANGED vars \/ Push
  BY <1>2, <1>4, <1>5 DEF vars, Push, tables
<1>6. CASE \E r \in Runs : TerminalFailed(r)
  <2>1. proc' = proc
    BY <1>6 DEF TerminalFailed
  <2>2. Quiet \/ Drops
    <3>1. PICK r \in Runs : TerminalFailed(r)
      BY <1>6
    <3>2. QED
      BY <1>1, <3>1, RetiredKinded DEF TerminalFailed, RunStatus, Kinded
  <2>3. events' \subseteq events /\ findings' \subseteq findings
    BY <2>2 DEF Quiet, Drops, DiscardGoes
  <2>4. QED
    BY <1>2, <1>4, <2>1, <2>3
<1>7. CASE Publish
  <2>1. /\ proc.pc = "publish" /\ proc'.run = proc.run /\ proc'.inline = proc.inline
        /\ findings' = findings /\ events' = events
    BY <1>1, <1>7, PublishGoes DEF AllInv, TInv, Mine
  <2>2. QED
    BY <1>4, <2>1
<1>8. CASE Claim
  BY <1>1, <1>2, <1>8, ClaimJobs DEF At
<1>9. CASE Crash \/ Supersede \/ Fail \/ Finish
  BY <1>2, <1>9, Shapes DEF Crash, Supersede, Fail, Finish, End
<1>10. CASE Begin
  <2>1. proc' = Idle \/ To("persist") \/ To("load")
    BY <1>10 DEF Begin, End
  <2>2. QED
    BY <1>1, <1>2, <2>1, Shapes, ToRow DEF JInv, Pcs
<1>11. CASE Persist \/ AgentFails \/ Unpublish \/ Record
  <2>1. To("load") \/ To("failed") \/ To("operations")
    BY <1>1, <1>11, PersistGoes, RecordGoes DEF Persisted, PersistTo, RecordTo, AgentFails, Fails, Unpublish
  <2>2. QED
    BY <1>1, <1>2, <2>1, ToRow DEF JInv, Pcs
<1>12. CASE BeginOperations \/ NextOperation \/ Unresolve \/ Reply \/ Resolve \/ MarkOperation \/ OperationFailed
  BY <1>1, <1>2, <1>12, BeginOperationsGoes, NextOperationGoes, RequestGoes, MarkGoes, OperationFailedGoes
<1>13. QED
  BY <1>3, <1>5, <1>6, <1>7, <1>8, <1>9, <1>10, <1>11, <1>12 DEF Next

LEMMA StepTInv ==
    ASSUME AllInv, [Next]_vars
    PROVE  TInv'
<1>1. Kinded /\ Effects /\ Keeps
  BY StepIsKinded, StepHasEffects, StepIsGood DEF AllInv, Good
<1>2. QED
  BY <1>1, ThreadsStay, GitHubStays, TrackedStays, InlineStays, LastStays DEF TInv

-----------------------------------------------------------------------------
(* Every step keeps the fourth part: operations.                           *)

LEMMA KeysAre ==
    ASSUME JInv, NEW e \in events
    PROVE  Key(e) \in Event /\ Key(e).run = e.run /\ Key(e).lineage = e.lineage
BY RowsNow DEF Key, Event

LEMMA EventRuns == \A k \in Event : k.run \in Runs /\ k.lineage \in Fingerprints
BY DEF Event

\* Operations only change at the three steps that are about them, or with
\* their lineage.
LEMMA OpsFrom ==
    ASSUME AllInv, Effects, NEW k \in Event
    PROVE  \/ ops'[k] = ops[k]
           \/ (\E r \in Runs : run[r] \in Unpublished /\ DiscardGoes(r) /\ k.lineage \in Pending(r)) /\ ops'[k] = "none"
           \/ BeginOperations /\ k.run = Mine /\ ops'[k] = "publishing"
           \/ MarkOperation /\ k = OpKey /\ ops'[k] = "published"
           \/ OperationFailed /\ k = OpKey /\ ops'[k] = "failed"
<1>1. JInv
  BY DEF AllInv
<1>2. CASE Drops
  BY <1>2 DEF Drops, DiscardGoes
<1>3. CASE BeginOperations
  BY <1>1, <1>3, BeginOperationsGoes
<1>4. CASE MarkOperation
  BY <1>1, <1>4, MarkGoes
<1>5. CASE OperationFailed
  BY <1>1, <1>5, OperationFailedGoes
<1>6. CASE Persists
  BY <1>6 DEF Persists, Persisted, PersistTo
<1>7. CASE Publish \/ Unresolve \/ Reply \/ Resolve
  BY <1>1, <1>7, RequestGoes DEF Publish, tables
<1>8. QED
  BY <1>2, <1>3, <1>4, <1>5, <1>6, <1>7 DEF Effects, Bare

LEMMA OpsStay ==
    ASSUME AllInv, Kinded, Effects
    PROVE  OpsFit'
<1>1. JInv /\ OpsFit /\ RunsStay
  BY DEF AllInv, OInv, Kinded
<1>2. SUFFICES ASSUME NEW k \in Event, ops'[k] # "none"
               PROVE  run'[k.run] = "published"
  BY DEF OpsFit
<1>3. k.run \in Runs
  BY EventRuns
<1>4. CASE ops'[k] = ops[k]
  BY <1>1, <1>2, <1>3, <1>4 DEF OpsFit, RunsStay
<1>5. CASE BeginOperations /\ k.run = Mine
  BY <1>1, <1>5, <1>3, BeginOperationsGoes DEF RunsStay
<1>6. CASE (MarkOperation \/ OperationFailed) /\ k = OpKey
  <2>1. proc.pc \in OpSteps \ {"next"}
    BY <1>6 DEF MarkOperation, OperationFailed, At, OpSteps
  <2>2. QED
    BY <1>1, <1>3, <1>6, <2>1, OpNow DEF RunsStay
<1>7. QED
  BY <1>2, <1>4, <1>5, <1>6, OpsFrom

LEMMA RepliesStay ==
    ASSUME AllInv, Effects
    PROVE  /\ RepliesFit'
           /\ \A k \in Event : github'.replies[k] = github.replies[k] \/ (Reply /\ k = OpKey)
<1>1. JInv /\ RepliesFit /\ GitHubFits
  BY DEF AllInv, OInv, TInv
<1>2. CASE github'.replies = github.replies
  BY <1>1, <1>2 DEF RepliesFit
<1>3. CASE Reply
  BY <1>1, <1>3, ReplyGoes DEF RepliesFit
<1>4. CASE Publish
  BY <1>1, <1>2, <1>4, PublishGoes
<1>5. CASE Unresolve \/ Resolve
  <2>1. proc.pc \in OpSteps \ {"next"}
    BY <1>5 DEF Unresolve, Resolve, At, OpSteps
  <2>2. SetResolution(FALSE, "reply") \/ SetResolution(TRUE, "mark")
    BY <1>5 DEF Unresolve, Resolve
  <2>3. QED
    BY <1>2, <2>1, <2>2, ResolutionGoes
<1>6. CASE BeginOperations \/ MarkOperation \/ OperationFailed
  BY <1>1, <1>2, <1>6, BeginOperationsGoes, MarkGoes, OperationFailedGoes
<1>7. QED
  BY <1>2, <1>3, <1>4, <1>5, <1>6 DEF Effects, Bare

DueIn(th, e) == e.applied /\ e.kind \in {"addressed", "reopened"} /\ th[e.lineage] # NoThread

\* A transition that has a thread to move had it before, or is recorded now.
LEMMA DueFrom ==
    ASSUME AllInv, Kinded, Effects, NEW d \in events', DueIn(threads', d)
    PROVE  \/ /\ d \in events /\ Due(d) /\ d.lineage \in Fingerprints /\ d.run \in Runs
              /\ threads'[d.lineage].root = threads[d.lineage].root
              /\ threads'[d.lineage] = threads[d.lineage] \/ (MarkOperation /\ d.lineage = Op)
              /\ \A r \in Runs : DiscardGoes(r) => d.lineage \notin Pending(r) \/ ~Drops
           \/ Records /\ d.run = Mine /\ run[Mine] = "publishing" /\ Mine \in Runs /\ d.lineage \in Fingerprints
<1>1. JInv /\ KInv /\ d.applied /\ d.kind \in {"addressed", "reopened"}
  BY DEF AllInv, DueIn
<1>2. CASE d \notin events
  BY <1>1, <1>2, AppliedFrom, RecordedIsLater DEF Records
<1>3. CASE d \in events
  <2>1. d.lineage \in Fingerprints /\ d.run \in Runs
    BY <1>1, <1>3, RowsNow
  <2>2. \A r \in Runs : DiscardGoes(r) => d.lineage \notin Pending(r)
    BY DEF DiscardGoes
  <2>3. CASE threads'[d.lineage] = threads[d.lineage]
    BY <1>1, <1>3, <2>1, <2>2, <2>3 DEF DueIn, Due
  <2>4. CASE Drops
    <3>1. threads'[d.lineage] = threads[d.lineage]
      BY <2>1, <2>2, <2>4 DEF Drops, DiscardGoes
    <3>2. QED
      BY <2>3, <3>1
  <2>5. CASE Records
    <3>1. ~Rooted(d.lineage)
      BY <1>1, <1>3, <2>1, <2>5, RootedIsNew
    <3>2. threads'[d.lineage] = threads[d.lineage]
      BY <2>1, <2>5, <3>1 DEF Records, RecordTo
    <3>3. QED
      BY <2>3, <3>2
  <2>6. CASE MarkOperation
    <3>1. proc.pc \in OpSteps /\ proc.todo # {}
      BY <1>1, <2>6, MarkGoes DEF JInv, RunFits, OpSteps
    <3>2. Op \in Fingerprints /\ threads[Op] # NoThread
      BY <3>1, OpFacts DEF AllInv, TInv, OInv
    <3>3. CASE d.lineage # Op
      BY <1>1, <2>1, <2>3, <2>6, <3>3, MarkGoes
    <3>4. CASE d.lineage = Op
      BY <1>1, <1>3, <2>1, <2>2, <2>6, <3>2, <3>4, MarkGoes DEF Due
    <3>5. QED
      BY <3>3, <3>4
  <2>7. CASE Persists
    BY <2>3, <2>7 DEF Persists, Persisted, PersistTo
  <2>8. CASE Publish \/ Unresolve \/ Reply \/ Resolve \/ BeginOperations \/ OperationFailed
    BY <1>1, <2>3, <2>8, RequestGoes, BeginOperationsGoes, OperationFailedGoes DEF Publish, tables
  <2>9. QED
    BY <2>3, <2>4, <2>5, <2>6, <2>7, <2>8 DEF Effects, Bare
<1>4. QED
  BY <1>2, <1>3

\* Only Finish makes a job succeed.
LEMMA SuccessFrom ==
    ASSUME JInv, [Next]_vars, NEW r \in Runs, jobs'[r].status = "succeeded"
    PROVE  jobs[r].status = "succeeded" \/ (Finish /\ r = Mine)
<1>1. CASE jobs' = jobs
  BY <1>1
<1>2. CASE Push
  BY <1>2, PushGrows
<1>3. CASE Claim
  BY <1>3, ClaimJobs
<1>4. CASE Begin /\ ~UNCHANGED jobs
  <2>1. End("superseded") /\ ~At("idle")
    BY <1>4 DEF Begin, At
  <2>2. QED
    BY <2>1, EndGoes
<1>5. CASE Supersede
  <2>1. End("superseded") /\ ~At("idle")
    BY <1>5 DEF Supersede, At
  <2>2. QED
    BY <2>1, EndGoes
<1>6. CASE Fail
  <2>1. End(GivenBack(Mine)) /\ ~At("idle")
    BY <1>6 DEF Fail, At
  <2>2. QED
    BY <2>1, EndGoes, GivenBackFits, WorkerAt
<1>7. CASE Finish
  <2> DEFINE status == IF Mine = Head THEN "succeeded" ELSE "superseded"
  <2>1. End(status) /\ ~At("idle")
    BY <1>7 DEF Finish, At
  <2>2. status \in {"succeeded", "superseded"}
    OBVIOUS
  <2> HIDE DEF status
  <2>3. QED
    BY <1>7, <2>1, <2>2, EndGoes
<1>8. CASE Persist \/ Record \/ BeginOperations \/ NextOperation \/ Unresolve \/ Reply \/ Resolve \/ MarkOperation
           \/ OperationFailed
  BY <1>1, <1>8, PersistGoes, RecordGoes, BeginOperationsGoes, NextOperationGoes, RequestGoes, MarkGoes,
     OperationFailedGoes
<1>9. CASE Crash \/ AgentFails \/ (\E q \in Runs : TerminalFailed(q)) \/ Load \/ Publish \/ Unpublish
  BY <1>1, <1>9 DEF Crash, AgentFails, TerminalFailed, Load, Publish, Unpublish
<1>10. QED
  BY <1>1, <1>2, <1>3, <1>4, <1>5, <1>6, <1>7, <1>8, <1>9 DEF Next, vars

LEMMA SucceededStays ==
    ASSUME AllInv, [Next]_vars, Kinded, Effects
    PROVE  SucceededFits'
<1>1. JInv /\ SucceededFits /\ TodoFits
  BY DEF AllInv, OInv
<1>2. SUFFICES ASSUME NEW d \in events', jobs'[d.run].status = "succeeded", DueIn(threads', d)
               PROVE  ops'[Key(d)] = "published"
  BY DEF SucceededFits, Due, DueIn, Key
<1>3. CASE Records /\ d.run = Mine /\ Mine \in Runs
  BY <1>1, <1>2, <1>3, SuccessFrom DEF Records, At, Finish, JInv, JobsFit
<1>4. CASE d \in events /\ Due(d) /\ d.run \in Runs /\ \A r \in Runs : DiscardGoes(r) => d.lineage \notin Pending(r) \/ ~Drops
  <2>1. Key(d) \in Event /\ Key(d).run = d.run /\ Key(d).lineage = d.lineage
    BY <1>1, <1>4, KeysAre
  <2>2. CASE Finish /\ d.run = Mine
    <3>1. proc.pc = "finish" /\ ops' = ops /\ proc.todo = {}
      BY <1>1, <2>2 DEF Finish, At, tables, TodoFits
    <3>2. QED
      BY <1>1, <1>4, <2>2, <3>1 DEF TodoFits
  <2>3. CASE jobs[d.run].status = "succeeded"
    <3>1. ops[Key(d)] = "published"
      BY <1>1, <1>4, <2>3 DEF SucceededFits
    <3>2. ~At("idle") => d.run # Mine
      BY <1>1, <2>3 DEF JInv, JobsFit
    <3>3. ~(BeginOperations /\ Key(d).run = Mine)
      BY <2>1, <3>2 DEF BeginOperations, At
    <3>4. ~((MarkOperation \/ OperationFailed) /\ Key(d) = OpKey)
      <4>1. SUFFICES ASSUME MarkOperation \/ OperationFailed
                     PROVE  OpKey.run = Mine /\ ~At("idle")
        BY <2>1, <3>2
      <4>2. proc.pc \in OpSteps \ {"next"}
        BY <4>1 DEF MarkOperation, OperationFailed, At, OpSteps
      <4>3. QED
        BY <1>1, <4>2, OpNow DEF At, OpSteps
    <3>5. ~\E r \in Runs : run[r] \in Unpublished /\ DiscardGoes(r) /\ Key(d).lineage \in Pending(r)
      BY <1>4, <2>1 DEF Drops
    <3>6. ops'[Key(d)] = ops[Key(d)]
      BY <2>1, <3>3, <3>4, <3>5, OpsFrom
    <3>7. QED
      BY <3>1, <3>6
  <2>4. QED
    BY <1>1, <1>2, <1>4, <2>2, <2>3, SuccessFrom
<1>5. QED
  BY <1>2, <1>3, <1>4, DueFrom

\* A finished operation is not the last one of the thread that is being moved.
LEMMA OpIsLast ==
    ASSUME AllInv, proc.pc \in OpSteps, proc.todo # {}, NEW d \in events, Due(d), d.lineage = Op,
           ops[Key(d)] = "published"
    PROVE  LaterIn(events, d) # {}
<1>1. JInv /\ KInv /\ ops[OpKey] = "publishing" /\ Mine \in Runs
  BY OpFacts DEF AllInv, TInv, OInv
<1>2. PICK c \in events : OpEvent(c)
  BY OpFacts DEF AllInv, TInv, OInv
<1>3. d # c
  BY <1>1, <1>2 DEF OpEvent
<1>4. d.run # Mine
  BY <1>2, <1>3 DEF OpEvent
<1>5. d.run <= Mine /\ d.run \in Runs
  BY <1>1, RowsNow DEF KInv, Newest, OpSteps
<1>6. c.run = Mine /\ c.lineage = Op /\ c.applied /\ c.kind # "persistent"
  BY <1>2 DEF OpEvent, Due
<1>7. c.run > d.run
  <2>1. d.run \in Nat /\ Mine \in Nat
    BY <1>1, <1>5, Constants
  <2>2. QED
    BY <1>4, <1>5, <1>6, <2>1
<1>8. c \in LaterIn(events, d)
  BY <1>2, <1>6, <1>7 DEF LaterIn
<1>9. QED
  BY <1>8

\* Resolving or opening a thread is the only way resolved threads change.
LEMMA ResolvedFrom ==
    ASSUME AllInv, Effects, NEW p
    PROVE  \/ p \in github'.resolved <=> p \in github.resolved
           \/ (Unresolve \/ Resolve) /\ p = Root
<1>1. JInv /\ GitHubFits
  BY DEF AllInv, TInv
<1>2. CASE github'.resolved = github.resolved
  BY <1>2
<1>3. CASE Reply
  BY <1>2, <1>3, ReplyGoes
<1>4. CASE Publish
  BY <1>1, <1>2, <1>4, PublishGoes
<1>5. CASE Unresolve \/ Resolve
  <2>1. proc.pc \in OpSteps \ {"next"}
    BY <1>5 DEF Unresolve, Resolve, At, OpSteps
  <2>2. SetResolution(FALSE, "reply") \/ SetResolution(TRUE, "mark")
    BY <1>5 DEF Unresolve, Resolve
  <2>3. \/ github'.resolved = github.resolved
        \/ github'.resolved = github.resolved \cup {Root}
        \/ github'.resolved = github.resolved \ {Root}
    BY <2>1, <2>2, ResolutionGoes
  <2>4. QED
    BY <1>5, <2>3
<1>6. CASE BeginOperations \/ MarkOperation \/ OperationFailed
  BY <1>1, <1>2, <1>6, BeginOperationsGoes, MarkGoes, OperationFailedGoes
<1>7. QED
  BY <1>2, <1>3, <1>4, <1>5, <1>6 DEF Effects, Bare

\* Every finding of a published run was there before.
LEMMA FindingsFrom ==
    ASSUME JInv, Kinded, NEW x \in findings', run[x.run] = "published"
    PROVE  x \in findings
<1>1. CASE Quiet
  BY <1>1 DEF Quiet
<1>2. CASE Drops
  BY <1>2 DEF Drops, DiscardGoes
<1>3. CASE Persists
  <2>1. PICK t : Classified(t) /\ PersistTo(t)
    BY <1>3 DEF Persists, Persisted
  <2>2. RowsFrom(t) /\ run[Mine] = "generating"
    BY <1>3, <2>1, PersistFrom DEF Persists, JInv, RunFits
  <2>3. QED
    BY <2>2 DEF RowsFrom
<1>4. CASE Records
  BY <1>4 DEF Records
<1>5. QED
  BY <1>1, <1>2, <1>3, <1>4 DEF Kinded

MovedOk(e, th, fs, rs) ==
    /\ th[e.lineage].status = StatusOf(e)
    /\ \A x \in fs : x.run = th[e.lineage].root /\ x.lineage = e.lineage =>
         (<<x.run, x.fp>> \in rs <=> e.kind = "addressed")

LEMMA MovedStays ==
    ASSUME AllInv, Kinded, Effects, Keeps
    PROVE  MovedFits'
<1>1. JInv /\ KInv /\ MovedFits /\ ThreadsFit /\ OpsFit /\ TodoFits /\ MovingFits
  BY DEF AllInv, OInv, TInv
<1>2. SUFFICES ASSUME NEW d \in events', DueIn(threads', d), ops'[Key(d)] = "published"
               PROVE  /\ github'.replies[Key(d)] = 1
                      /\ LaterIn(events', d) = {} => MovedOk(d, threads', findings', github'.resolved)
  BY DEF MovedFits, Due, DueIn, Key, Later, LaterIn, MovedOk, StatusOf
<1>3. CASE Records /\ d.run = Mine /\ run[Mine] = "publishing" /\ Mine \in Runs /\ d.lineage \in Fingerprints
  <2>1. Key(d) \in Event /\ Key(d).run = Mine
    BY <1>3 DEF Key, Event
  <2>2. ops[Key(d)] = "none"
    BY <1>1, <1>3, <2>1 DEF OpsFit
  <2>3. ~MarkOperation
    BY <1>3 DEF MarkOperation, Records, At
  <2>4. QED
    BY <1>2, <2>1, <2>2, <2>3, OpsFrom
<1>4. ASSUME d \in events, Due(d), d.lineage \in Fingerprints, d.run \in Runs,
             threads'[d.lineage].root = threads[d.lineage].root,
             threads'[d.lineage] = threads[d.lineage] \/ (MarkOperation /\ d.lineage = Op)
      PROVE  /\ github'.replies[Key(d)] = 1
             /\ LaterIn(events', d) = {} => MovedOk(d, threads', findings', github'.resolved)
  <2>1. Key(d) \in Event /\ Key(d).run = d.run /\ Key(d).lineage = d.lineage /\ threads[d.lineage] # NoThread
    BY <1>1, <1>4, KeysAre DEF Due
  <2>2. \A x \in findings' : x.run = threads'[d.lineage].root /\ x.lineage = d.lineage => x \in findings
    BY <1>1, <1>4, <2>1, FindingsFrom DEF ThreadsFit
  <2>3. CASE ops[Key(d)] = "published"
    <3>1. github.replies[Key(d)] = 1 /\ (LaterIn(events, d) = {} => MovedOk(d, threads, findings, github.resolved))
      BY <1>1, <1>4, <2>3 DEF MovedFits, Later, LaterIn, MovedOk
    <3>2. ~(Reply /\ Key(d) = OpKey)
      <4>1. SUFFICES ASSUME Reply
                     PROVE  ops[OpKey] = "publishing"
        BY <2>3
      <4>2. proc.pc \in OpSteps /\ proc.todo # {}
        BY <1>1, <4>1 DEF Reply, At, OpSteps, JInv, RunFits
      <4>3. QED
        BY <4>2, OpFacts DEF AllInv, TInv, OInv
    <3>3. github'.replies[Key(d)] = 1
      BY <2>1, <3>1, <3>2, RepliesStay
    <3>4. ASSUME LaterIn(events', d) = {}
          PROVE  MovedOk(d, threads', findings', github'.resolved)
      <4>1. LaterIn(events, d) = {}
        BY <3>4, LaterKept
      <4>2. MovedOk(d, threads, findings, github.resolved)
        BY <3>1, <4>1
      <4>3. d.lineage = Op => ~(proc.pc \in OpSteps /\ proc.todo # {})
        BY <1>4, <2>3, <4>1, OpIsLast
      <4>4. threads'[d.lineage] = threads[d.lineage]
        BY <1>1, <1>4, <4>3, MarkGoes DEF JInv, RunFits, OpSteps
      <4>5. ASSUME NEW x \in findings', x.run = threads'[d.lineage].root, x.lineage = d.lineage
            PROVE  <<x.run, x.fp>> \in github'.resolved <=> <<x.run, x.fp>> \in github.resolved
        <5>1. SUFFICES ASSUME Unresolve \/ Resolve, <<x.run, x.fp>> = Root
                       PROVE  FALSE
          BY ResolvedFrom
        <5>2. proc.pc \in OpSteps /\ proc.todo # {}
          BY <1>1, <5>1 DEF Unresolve, Resolve, At, OpSteps, JInv, RunFits
        <5>3. PICK y \in findings : OpRoot(y)
          BY <5>2, OpFacts DEF AllInv, TInv, OInv
        <5>4. x.run = y.run /\ x.fp = y.fp /\ y.lineage = Op
          BY <5>1, <5>3 DEF OpRoot
        <5>5. x \in findings
          BY <2>2, <4>5
        <5>6. x = y
          BY <1>1, <5>4, <5>5 DEF KInv, RowsUnique
        <5>7. QED
          BY <4>3, <4>5, <5>2, <5>4, <5>6
      <4>6. QED
        BY <2>2, <4>2, <4>4, <4>5 DEF MovedOk
    <3>5. QED
      BY <3>3, <3>4
  <2>4. CASE ops[Key(d)] # "published"
    <3>1. MarkOperation /\ Key(d) = OpKey
      BY <1>2, <2>1, <2>4, OpsFrom
    <3>2. proc.pc = "mark" /\ proc.pc \in OpSteps /\ proc.todo # {} /\ At("mark")
      BY <1>1, <3>1, MarkGoes DEF JInv, RunFits, OpSteps, At
    <3>3. PICK c \in events : OpEvent(c)
      BY <3>2, OpFacts DEF AllInv, TInv, OInv
    <3>4. PICK y \in findings : OpRoot(y)
      BY <3>2, OpFacts DEF AllInv, TInv, OInv
    <3>5. OpKey.run = Mine /\ OpKey.lineage = Op
      BY <3>2, OpFacts DEF AllInv, TInv, OInv
    <3>6. d = c /\ d.lineage = Op /\ d.kind \in {"addressed", "reopened"}
      BY <1>4, <2>1, <3>1, <3>3, <3>5 DEF OpEvent, Due
    <3>7. github.replies[OpKey] = 1 /\ (Root \in github.resolved <=> ~Reopens)
      BY <1>1, <3>2 DEF MovingFits
    <3>8. /\ github' = github /\ threads'[Op].status = IF Reopens THEN "active" ELSE "addressed"
          /\ threads'[Op].root = threads[Op].root
      BY <1>1, <3>1, MarkGoes
    <3>9. Reopens <=> d.kind = "reopened"
      BY <3>3, <3>6 DEF OpEvent
    <3>10. threads'[d.lineage].status = StatusOf(d)
      BY <3>6, <3>8, <3>9 DEF StatusOf
    <3>11. ASSUME NEW x \in findings', x.run = threads'[d.lineage].root, x.lineage = d.lineage
           PROVE  <<x.run, x.fp>> \in github'.resolved <=> d.kind = "addressed"
      <4>1. x = y
        BY <2>2, <3>4, <3>6, <3>8, <3>11 DEF OpRoot
      <4>2. Root = <<x.run, x.fp>>
        BY <3>4, <4>1 DEF OpRoot
      <4>3. QED
        BY <3>6, <3>7, <3>8, <3>9, <4>2
    <3>12. QED
      BY <3>1, <3>7, <3>8, <3>10, <3>11 DEF MovedOk
  <2>5. QED
    BY <2>3, <2>4
<1>5. QED
  BY <1>2, <1>3, <1>4, DueFrom

\* A step of others: the worker's run keeps what was applied, and its threads.
Aside ==
    /\ proc' = proc /\ github' = github /\ events' \subseteq events /\ findings' \subseteq findings
    /\ \A e \in events : e.applied => e \in events' /\ ops'[Key(e)] = ops[Key(e)]
    /\ \A l \in Fingerprints : threads'[l] # NoThread => threads'[l] = threads[l]
    /\ \A l \in Fingerprints : threads[l] # NoThread =>
         /\ threads'[l] = threads[l]
         /\ \A x \in findings : x.run = threads[l].root /\ x.lineage = l => x \in findings'

Others == UNCHANGED vars \/ Push \/ \E r \in Runs : TerminalFailed(r)

LEMMA OthersAside ==
    ASSUME AllInv, Others
    PROVE  Aside
<1>1. JInv /\ ThreadsFit /\ proc' = proc /\ github' = github
  BY DEF AllInv, TInv, Others, vars, Push, TerminalFailed
<1>2. CASE Quiet /\ Bare
  BY <1>1, <1>2 DEF Aside, Quiet, Bare
<1>3. CASE Drops
  <2>1. PICK r \in Runs : run[r] \in Unpublished /\ DiscardGoes(r)
    BY <1>3 DEF Drops
  <2>2. events' \subseteq events /\ findings' \subseteq findings
    BY <2>1 DEF DiscardGoes
  <2>3. ASSUME NEW e \in events, e.applied
        PROVE  e \in events' /\ ops'[Key(e)] = ops[Key(e)]
    <3>1. run[e.run] = "published" /\ lineage[e.lineage].status \in {"active", "addressed"}
      BY <1>1, <2>3 DEF JInv, EventsFit
    <3>2. e.run # r /\ e.lineage \notin Pending(r)
      BY <2>1, <3>1 DEF Unpublished, Pending
    <3>3. Key(e) \in Event /\ Key(e).lineage = e.lineage
      BY <1>1, KeysAre
    <3>4. QED
      BY <2>1, <3>2, <3>3 DEF DiscardGoes
  <2>4. \A l \in Fingerprints : threads'[l] # NoThread => threads'[l] = threads[l]
    BY <2>1 DEF DiscardGoes
  <2>5. ASSUME NEW l \in Fingerprints, threads[l] # NoThread
        PROVE  /\ threads'[l] = threads[l]
               /\ \A x \in findings : x.run = threads[l].root /\ x.lineage = l => x \in findings'
    <3>1. run[threads[l].root] = "published" /\ lineage[l].status \in {"active", "addressed"}
      BY <1>1, <2>5 DEF ThreadsFit
    <3>2. threads[l].root # r /\ l \notin Pending(r)
      BY <2>1, <3>1 DEF Unpublished, Pending
    <3>3. QED
      BY <2>1, <3>2 DEF DiscardGoes
  <2>6. QED
    BY <1>1, <2>2, <2>3, <2>4, <2>5 DEF Aside
<1>4. CASE \E r \in Runs : TerminalFailed(r)
  <2>1. PICK r \in Runs : TerminalFailed(r)
    BY <1>4
  <2>2. Grows
    BY <2>1 DEF TerminalFailed, Grows
  <2>3. DiscardGoes(r) /\ run[r] \in Unpublished
    BY <1>1, <2>1, <2>2, DiscardRows DEF TerminalFailed, Retired, RunStatus
  <2>4. QED
    BY <1>3, <2>3 DEF Drops
<1>5. CASE UNCHANGED vars \/ Push
  BY <1>2, <1>5 DEF vars, Push, Quiet, Bare, tables
<1>6. QED
  BY <1>4, <1>5 DEF Others

TodoAt(pc, me, todo, es, th, op) ==
    /\ pc \in OpSteps =>
         \A l \in todo : /\ op[[run |-> me, lineage |-> l]] = "publishing"
                         /\ \E e \in es : e.run = me /\ e.lineage = l /\ DueIn(th, e)
    /\ pc \in OpSteps \cup {"finish"} =>
         \A e \in es : e.run = me /\ DueIn(th, e) => e.lineage \in todo \/ op[Key(e)] = "published"
    /\ pc = "finish" => todo = {}

\* The steps that leave the worker with an operation, or done with them.
LEMMA OtherSteps ==
    ASSUME JInv, [Next]_vars, proc'.pc \in OpSteps \cup {"finish"}
    PROVE  Others \/ BeginOperations \/ NextOperation \/ Unresolve \/ Reply \/ Resolve \/ MarkOperation
<1> DEFINE Rest == {"idle", "begin", "persist", "load", "failed", "record", "unpublished", "publish", "operations"}
<1>1. proc'.pc \notin Rest
  BY DEF OpSteps
<1>2. ASSUME NEW pc \in Rest, To(pc)
      PROVE  FALSE
  BY <1>1, <1>2, ToRow DEF JInv, Pcs
<1> HIDE DEF Rest
<1>3. {"idle", "begin", "persist", "load", "failed", "record", "unpublished", "publish", "operations"} \subseteq Rest
  BY DEF Rest
<1>4. CASE Crash \/ Supersede \/ Fail \/ Finish
  BY <1>1, <1>3, <1>4, Shapes DEF Crash, Supersede, Fail, Finish, End
<1>5. CASE Claim
  <2>1. proc'.pc = proc.pc \/ proc'.pc = "begin"
    BY <1>5, ClaimJobs
  <2>2. proc.pc = "idle"
    BY <1>5 DEF Claim, At
  <2>3. QED
    BY <1>1, <1>3, <2>1, <2>2
<1>6. CASE Begin
  <2>1. proc' = Idle \/ To("persist") \/ To("load")
    BY <1>6 DEF Begin, End
  <2>2. QED
    BY <1>1, <1>2, <1>3, <2>1, Shapes
<1>7. CASE Persist \/ AgentFails \/ Unpublish \/ Record
  <2>1. To("load") \/ To("failed") \/ To("operations")
    BY <1>7, PersistGoes, RecordGoes DEF Persisted, PersistTo, RecordTo, AgentFails, Fails, Unpublish
  <2>2. QED
    BY <1>2, <1>3, <2>1
<1>8. CASE Load
  <2>1. To("operations") \/ proc'.pc = "publish"
    BY <1>8 DEF Load, JInv, Typed, ProcRow
  <2>2. QED
    BY <1>1, <1>2, <1>3, <2>1
<1>9. CASE Publish
  <2>1. To("record") \/ To("unpublished")
    BY <1>9 DEF Publish, Goes, Fails
  <2>2. QED
    BY <1>2, <1>3, <2>1
<1>10. CASE OperationFailed
  BY <1>1, <1>3, <1>10, OperationFailedGoes
<1>11. QED
  BY <1>4, <1>5, <1>6, <1>7, <1>8, <1>9, <1>10 DEF Next, Others

LEMMA TodoStays ==
    ASSUME AllInv, [Next]_vars
    PROVE  TodoFits'
<1>1. JInv /\ KInv /\ TodoAt(proc.pc, Mine, proc.todo, events, threads, ops)
  BY DEF AllInv, OInv, TodoFits, TodoAt, Due, DueIn, At
<1>2. SUFFICES TodoAt(proc'.pc, proc'.run, proc'.todo, events', threads', ops')
  BY DEF TodoFits, TodoAt, Due, DueIn, At, Mine, Key
<1>3. CASE proc'.pc \notin OpSteps \cup {"finish"}
  BY <1>3 DEF TodoAt
<1>4. CASE Others
  <2>1. Aside
    BY <1>4, OthersAside
  <2>2. ASSUME NEW e \in events', e.run = Mine, DueIn(threads', e)
        PROVE  e \in events /\ DueIn(threads, e) /\ ops'[Key(e)] = ops[Key(e)]
    BY <1>1, <2>1, <2>2, RowsNow DEF Aside, DueIn
  <2>3. ASSUME NEW l \in proc.todo, proc.pc \in OpSteps
        PROVE  /\ ops'[[run |-> Mine, lineage |-> l]] = "publishing"
               /\ \E e \in events' : e.run = Mine /\ e.lineage = l /\ DueIn(threads', e)
    <3>1. PICK e \in events : e.run = Mine /\ e.lineage = l /\ DueIn(threads, e)
      BY <1>1, <2>3 DEF TodoAt
    <3>2. e \in events' /\ ops'[Key(e)] = ops[Key(e)] /\ DueIn(threads', e)
      BY <1>1, <2>1, <3>1, RowsNow DEF Aside, DueIn
    <3>3. ops[[run |-> Mine, lineage |-> l]] = "publishing" /\ Key(e) = [run |-> Mine, lineage |-> l]
      BY <1>1, <2>3, <3>1 DEF TodoAt, Key
    <3>4. QED
      BY <3>1, <3>2, <3>3
  <2>4. proc'.pc = proc.pc /\ proc'.run = Mine /\ proc'.todo = proc.todo
    BY <2>1 DEF Aside, Mine
  <2>5. QED
    BY <1>1, <2>2, <2>3, <2>4 DEF TodoAt
<1>5. CASE BeginOperations
  <2>1. /\ proc'.pc = "next" /\ proc'.run = Mine /\ proc'.todo = Operations(Mine) /\ Mine \in Runs
        /\ events' = events /\ threads' = threads
        /\ \A k \in Event : ops'[k] = IF k.run = Mine /\ k.lineage \in Operations(Mine) THEN "publishing" ELSE ops[k]
    BY <1>1, <1>5, BeginOperationsGoes
  <2>2. ASSUME NEW l \in Operations(Mine)
        PROVE  /\ ops'[[run |-> Mine, lineage |-> l]] = "publishing"
               /\ \E e \in events : e.run = Mine /\ e.lineage = l /\ DueIn(threads, e)
    <3>1. \E e \in events : e.run = Mine /\ e.lineage = l /\ DueIn(threads, e)
      BY <1>1, <2>1, OperationsAre DEF Due, DueIn
    <3> DEFINE k == [run |-> Mine, lineage |-> l]
    <3>2. k \in Event /\ k.run = Mine /\ k.lineage = l
      BY <1>1, <2>1, OperationsAre DEF Event
    <3> HIDE DEF k
    <3>3. ops'[k] = "publishing"
      BY <2>1, <3>2
    <3>4. QED
      BY <3>1, <3>3 DEF k
  <2>3. ASSUME NEW e \in events, e.run = Mine, DueIn(threads, e)
        PROVE  e.lineage \in Operations(Mine) \/ ops'[Key(e)] = "published"
    <3>1. e.lineage \in Operations(Mine) \/ ops[Key(e)] = "published"
      BY <1>1, <2>1, <2>3, OperationsAre DEF Due, DueIn
    <3>2. QED
      BY <1>1, <2>1, <2>3, <3>1, KeysAre
  <2>4. QED
    BY <2>1, <2>2, <2>3 DEF TodoAt, OpSteps
<1>6. CASE NextOperation \/ Unresolve \/ Reply \/ Resolve
  <2>1. /\ proc.pc \in OpSteps /\ proc'.run = Mine /\ proc'.todo = proc.todo
        /\ UNCHANGED <<events, threads, ops>>
        /\ proc'.pc \in OpSteps \/ (proc'.pc = "finish" /\ proc'.todo = {})
    BY <1>1, <1>6, NextOperationGoes, RequestGoes DEF OpSteps
  <2>2. QED
    BY <1>1, <2>1 DEF TodoAt, OpSteps
<1>7. CASE MarkOperation
  <2>1. /\ proc.pc = "mark" /\ proc'.pc = "next" /\ proc'.run = Mine /\ proc'.todo = proc.todo \ {Op}
        /\ events' = events /\ ops'[OpKey] = "published" /\ \A k \in Event : k # OpKey => ops'[k] = ops[k]
        /\ \A l \in Fingerprints : l # Op => threads'[l] = threads[l]
    BY <1>1, <1>7, MarkGoes
  <2>2. proc.pc \in OpSteps /\ proc.todo # {}
    BY <1>1, <2>1 DEF JInv, RunFits, OpSteps
  <2>3. /\ Mine \in Runs /\ Op \in proc.todo /\ Op \in Fingerprints /\ OpKey \in Event
        /\ OpKey.run = Mine /\ OpKey.lineage = Op /\ threads[Op] # NoThread
    BY <2>2, OpFacts DEF AllInv, TInv, OInv
  <2>4. ASSUME NEW l \in proc.todo \ {Op}
        PROVE  /\ ops'[[run |-> Mine, lineage |-> l]] = "publishing"
               /\ \E e \in events : e.run = Mine /\ e.lineage = l /\ DueIn(threads', e)
    <3>1. PICK e \in events : e.run = Mine /\ e.lineage = l /\ DueIn(threads, e)
      BY <1>1, <2>2 DEF TodoAt
    <3>2. DueIn(threads', e)
      BY <1>1, <2>1, <3>1, RowsNow DEF DueIn
    <3>3. Key(e) \in Event /\ Key(e) # OpKey /\ Key(e) = [run |-> Mine, lineage |-> l]
      <4>1. Key(e) \in Event /\ Key(e).lineage = l
        BY <1>1, <3>1, KeysAre
      <4>2. QED
        BY <2>3, <3>1, <4>1 DEF Key
    <3>4. ops[[run |-> Mine, lineage |-> l]] = "publishing"
      BY <1>1, <2>2 DEF TodoAt
    <3>5. QED
      BY <2>1, <3>1, <3>2, <3>3, <3>4
  <2>5. ASSUME NEW e \in events, e.run = Mine, DueIn(threads', e)
        PROVE  e.lineage \in proc.todo \ {Op} \/ ops'[Key(e)] = "published"
    <3>1. Key(e) \in Event /\ Key(e).run = Mine /\ Key(e).lineage = e.lineage /\ e.lineage \in Fingerprints
      BY <1>1, <2>5, KeysAre, RowsNow
    <3>2. CASE e.lineage = Op
      <4>1. Key(e) = OpKey
        BY <2>5, <3>2 DEF Key, OpKey
      <4>2. QED
        BY <2>1, <4>1
    <3>3. CASE e.lineage # Op
      <4>1. DueIn(threads, e)
        BY <2>1, <2>5, <3>1, <3>3 DEF DueIn
      <4>2. e.lineage \in proc.todo \/ ops[Key(e)] = "published"
        BY <1>1, <2>2, <2>5, <4>1 DEF TodoAt
      <4>3. Key(e) # OpKey
        BY <2>3, <3>1, <3>3
      <4>4. QED
        BY <2>1, <3>1, <3>3, <4>2, <4>3
    <3>4. QED
      BY <3>2, <3>3
  <2>6. QED
    BY <2>1, <2>4, <2>5 DEF TodoAt, OpSteps
<1>8. QED
  BY <1>1, <1>3, <1>4, <1>5, <1>6, <1>7, OtherSteps

\* The operation, its event and its root comment, in any state.
OpOf(todo) == CHOOSE l \in todo : \A k \in todo : l <= k
FingerAt(fs, e) == (CHOOSE x \in fs : x.run = e.run /\ x.lineage = e.lineage).fp
RootAt(fs, th, l) == <<th[l].root, FingerAt(fs, [run |-> th[l].root, lineage |-> l])>>
ReopensAt(es, me, l) == \E e \in es : e.run = me /\ e.lineage = l /\ e.kind = "reopened"

LEMMA OpForms ==
    /\ Op = OpOf(proc.todo) /\ Op' = OpOf(proc'.todo)
    /\ OpKey = [run |-> proc.run, lineage |-> OpOf(proc.todo)]
    /\ OpKey' = [run |-> proc'.run, lineage |-> OpOf(proc'.todo)]
    /\ Root = RootAt(findings, threads, OpOf(proc.todo))
    /\ Root' = RootAt(findings', threads', OpOf(proc'.todo))
    /\ Reopens <=> ReopensAt(events, proc.run, OpOf(proc.todo))
    /\ Reopens' <=> ReopensAt(events', proc'.run, OpOf(proc'.todo))
<1>1. Op = OpOf(proc.todo) /\ Op' = OpOf(proc'.todo)
  BY DEF Op, OpOf
<1>2. OpKey = [run |-> proc.run, lineage |-> OpOf(proc.todo)] /\ OpKey' = [run |-> proc'.run, lineage |-> OpOf(proc'.todo)]
  BY <1>1 DEF OpKey, Mine
<1>3. \A e : FingerprintOf(e) = FingerAt(findings, e)
  BY DEF FingerprintOf, FingerAt
<1>4. Root = RootAt(findings, threads, OpOf(proc.todo))
  BY <1>1, <1>3 DEF Root, RootAt
<1>5. Root' = <<threads'[Op'].root, FingerAt(findings', [run |-> threads'[Op'].root, lineage |-> Op'])>>
  BY Zenon DEF Root, FingerprintOf, FingerAt
<1>6. Root' = RootAt(findings', threads', OpOf(proc'.todo))
  BY <1>1, <1>5 DEF RootAt
<1>7. Reopens <=> ReopensAt(events, proc.run, OpOf(proc.todo))
  BY <1>1 DEF Reopens, ReopensAt, EventsOf, Mine
<1>8. Reopens' <=> ReopensAt(events', proc'.run, OpOf(proc'.todo))
  <2>1. Reopens' <=> \E e \in {d \in events' : d.run = proc'.run} : e.lineage = Op' /\ e.kind = "reopened"
    BY DEF Reopens, EventsOf, Mine
  <2>2. QED
    BY <1>1, <2>1 DEF ReopensAt
<1>9. QED
  BY <1>1, <1>2, <1>4, <1>6, <1>7, <1>8

LEMMA OpSame ==
    ASSUME proc'.todo = proc.todo, proc'.run = proc.run, UNCHANGED <<events, findings, threads>>
    PROVE  Op' = Op /\ OpKey' = OpKey /\ Root' = Root /\ (Reopens' <=> Reopens)
BY OpForms

LEMMA OpAside ==
    ASSUME AllInv, Aside, proc.pc \in OpSteps, proc.todo # {}
    PROVE  OpKey' = OpKey /\ Root' = Root /\ (Reopens' <=> Reopens)
<1>1. proc' = proc
  BY DEF Aside
<1>2. Op' = Op /\ OpKey' = OpKey
  BY <1>1, OpForms
<1>3. PICK d \in events : OpEvent(d)
  BY OpFacts DEF AllInv, TInv, OInv
<1>4. PICK x \in findings : OpRoot(x)
  BY OpFacts DEF AllInv, TInv, OInv
<1>5. Op \in Fingerprints /\ threads[Op] # NoThread
  BY OpFacts DEF AllInv, TInv, OInv
<1>6. d \in events' /\ events' \subseteq events
  BY <1>3 DEF Aside, OpEvent, Due
<1>7. threads'[Op] = threads[Op] /\ x \in findings' /\ findings' \subseteq findings
  BY <1>4, <1>5 DEF Aside, OpRoot
<1>8. Reopens' <=> Reopens
  <2>1. \A e \in events : e.run = proc.run /\ e.lineage = Op => e = d
    BY <1>3 DEF OpEvent, Mine
  <2>2. d.run = proc.run /\ d.lineage = Op
    BY <1>3 DEF OpEvent, Mine
  <2>3. ReopensAt(events, proc.run, Op) <=> d.kind = "reopened"
    BY <2>1, <2>2 DEF ReopensAt
  <2>4. ReopensAt(events', proc.run, Op) <=> d.kind = "reopened"
    BY <1>6, <2>1, <2>2 DEF ReopensAt
  <2>5. QED
    BY <1>1, <2>3, <2>4, OpForms
<1>9. Root' = Root
  <2> DEFINE e == [run |-> threads[Op].root, lineage |-> Op]
             p(y) == y.run = e.run /\ y.lineage = e.lineage
             it == CHOOSE y \in findings' : p(y)
  <2>1. p(x) /\ \A y \in findings' : p(y) => y = x
    BY <1>4, <1>7 DEF OpRoot
  <2>2. FingerAt(findings', e) = it.fp
    BY DEF FingerAt
  <2>3. it = x
    <3> HIDE DEF p
    <3>1. QED
      BY <1>7, <2>1
  <2> HIDE DEF it
  <2>4. FingerAt(findings', e) = x.fp
    BY <2>2, <2>3
  <2>5. RootAt(findings', threads', Op) = <<x.run, x.fp>>
    BY <1>4, <1>7, <2>4 DEF RootAt, OpRoot
  <2>6. Root' = RootAt(findings', threads', Op)
    BY <1>1, OpForms
  <2>7. Root = <<x.run, x.fp>>
    BY <1>4 DEF OpRoot
  <2>8. QED
    BY <2>5, <2>6, <2>7
<1>10. QED
  BY <1>2, <1>8, <1>9

\* What the worker knows after a step that leaves the operation as it is.
MovingTo ==
    /\ proc'.pc \in {"unresolve", "reply"} => (proc'.replied <=> github'.replies[OpKey] = 1)
    /\ proc'.pc = "unresolve" => Reopens /\ (proc'.resolved <=> Root \in github'.resolved)
    /\ proc'.pc = "reply" => IF Reopens THEN Root \notin github'.resolved
                             ELSE proc'.resolved <=> Root \in github'.resolved
    /\ proc'.pc = "resolve" => ~Reopens /\ (proc'.resolved <=> Root \in github'.resolved)
    /\ proc'.pc \in {"resolve", "mark"} => github'.replies[OpKey] = 1
    /\ proc'.pc = "mark" => (Root \in github'.resolved <=> ~Reopens)

LEMMA MovingStays ==
    ASSUME AllInv, [Next]_vars
    PROVE  MovingFits'
<1> DEFINE Steps == {"unresolve", "reply", "resolve", "mark"}
<1>1. JInv /\ KInv /\ MovingFits /\ RepliesFit /\ GitHubFits
  BY DEF AllInv, OInv, TInv
<1>2. CASE proc'.pc \notin Steps
  BY <1>2 DEF MovingFits, At
<1>3. ASSUME OpKey' = OpKey, Root' = Root, Reopens' <=> Reopens, MovingTo
      PROVE  MovingFits'
  BY <1>3 DEF MovingFits, MovingTo, At
<1>4. CASE Others /\ proc'.pc \in Steps
  <2>1. Aside
    BY <1>4, OthersAside
  <2>2. proc' = proc /\ github' = github /\ proc.pc \in OpSteps /\ proc.todo # {}
    BY <1>1, <1>4, <2>1 DEF Aside, OpSteps, JInv, RunFits
  <2>3. MovingTo
    BY <1>1, <2>2 DEF MovingTo, MovingFits, At
  <2>4. QED
    BY <1>3, <2>1, <2>2, <2>3, OpAside
<1>5. CASE NextOperation /\ proc'.pc \in Steps
  <2>1. /\ proc.pc \in OpSteps /\ proc.todo # {} /\ proc'.todo = proc.todo /\ proc'.run = proc.run
        /\ UNCHANGED <<events, findings, threads, github>>
        /\ proc'.pc = (IF Reopens THEN "unresolve" ELSE "reply")
        /\ proc'.replied = Replied /\ proc'.resolved = (Root \in github.resolved)
    BY <1>1, <1>5, NextOperationGoes DEF OpSteps, Mine
  <2>2. OpKey \in Event
    BY <2>1, OpFacts DEF AllInv, TInv, OInv
  <2>3. github.replies[OpKey] \in Nat /\ github.replies[OpKey] <= 1
    BY <1>1, <2>2 DEF GitHubFits, GitHubRow, RepliesFit
  <2>4. Replied <=> github.replies[OpKey] = 1
    BY <2>3 DEF Replied
  <2>5. MovingTo
    BY <2>1, <2>4 DEF MovingTo
  <2>6. QED
    BY <1>3, <2>1, <2>5, OpSame
<1>6. CASE (Unresolve \/ Reply \/ Resolve) /\ proc'.pc \in Steps
  <2>1. /\ proc.pc \in {"unresolve", "reply", "resolve"} /\ proc.pc \in OpSteps \ {"next"}
        /\ proc'.todo = proc.todo /\ proc'.run = proc.run
        /\ proc'.replied = proc.replied /\ proc'.resolved = proc.resolved
        /\ UNCHANGED <<events, findings, threads>>
    BY <1>1, <1>6, RequestGoes DEF OpSteps, Mine
  <2>2. ~To("opFailed")
    BY <1>1, <1>6, ToRow DEF JInv, Pcs
  <2>3. proc.resolved \in BOOLEAN /\ proc.replied \in BOOLEAN
    BY <1>1 DEF JInv, Typed, ProcRow
  <2>4. CASE Unresolve
    <3>1. SetResolution(FALSE, "reply") /\ proc.pc = "unresolve"
      BY <2>4 DEF Unresolve, At
    <3>2. To("reply") /\ github'.replies = github.replies
      BY <2>1, <2>2, <3>1, ResolutionGoes
    <3>3. proc'.pc = "reply"
      BY <1>1, <3>2, ToRow DEF JInv, Pcs
    <3>4. IF proc.resolved = FALSE THEN github' = github ELSE github'.resolved = github.resolved \ {Root}
      BY <2>1, <2>2, <3>1, <3>2, ResolutionGoes
    <3>5. /\ proc.replied <=> github.replies[OpKey] = 1
          /\ Reopens /\ (proc.resolved <=> Root \in github.resolved)
      BY <1>1, <3>1 DEF MovingFits, At
    <3>6. Root \notin github'.resolved
      BY <2>3, <3>4, <3>5
    <3>7. MovingTo
      BY <2>1, <3>2, <3>3, <3>5, <3>6 DEF MovingTo
    <3>8. QED
      BY <1>3, <2>1, <3>7, OpSame
  <2>5. CASE Resolve
    <3>1. SetResolution(TRUE, "mark") /\ proc.pc = "resolve"
      BY <2>5 DEF Resolve, At
    <3>2. To("mark") /\ github'.replies = github.replies
      BY <2>1, <2>2, <3>1, ResolutionGoes
    <3>3. proc'.pc = "mark"
      BY <1>1, <3>2, ToRow DEF JInv, Pcs
    <3>4. IF proc.resolved = TRUE THEN github' = github ELSE github'.resolved = github.resolved \cup {Root}
      BY <2>1, <2>2, <3>1, <3>2, ResolutionGoes
    <3>5. /\ github.replies[OpKey] = 1
          /\ ~Reopens /\ (proc.resolved <=> Root \in github.resolved)
      BY <1>1, <3>1 DEF MovingFits, At
    <3>6. Root \in github'.resolved
      BY <2>3, <3>4, <3>5
    <3>7. MovingTo
      BY <2>1, <3>2, <3>3, <3>5, <3>6 DEF MovingTo
    <3>8. QED
      BY <1>3, <2>1, <3>7, OpSame
  <2>6. CASE Reply
    <3>1. /\ proc.pc = "reply" /\ github'.resolved = github.resolved
          /\ proc'.pc \in {"mark", "resolve"} => github'.replies[OpKey] = 1
          /\ proc'.pc \in {"opFailed", IF Reopens THEN "mark" ELSE "resolve"}
      BY <2>6, ReplyGoes DEF Reply, At
    <3>2. IF Reopens THEN Root \notin github.resolved ELSE proc.resolved <=> Root \in github.resolved
      BY <1>1, <3>1 DEF MovingFits, At
    <3>3. proc'.pc = IF Reopens THEN "mark" ELSE "resolve"
      BY <1>6, <3>1
    <3>4. MovingTo
      BY <2>1, <3>1, <3>2, <3>3 DEF MovingTo
    <3>5. QED
      BY <1>3, <2>1, <3>4, OpSame
  <2>7. QED
    BY <1>6, <2>4, <2>5, <2>6
<1>7. CASE BeginOperations \/ MarkOperation
  <2>1. proc'.pc = "next"
    BY <1>1, <1>7, BeginOperationsGoes, MarkGoes
  <2>2. QED
    BY <1>2, <2>1
<1>8. QED
  BY <1>1, <1>2, <1>4, <1>5, <1>6, <1>7, OtherSteps DEF OpSteps

LEMMA StepOInv ==
    ASSUME AllInv, [Next]_vars
    PROVE  OInv'
<1>1. Kinded /\ Effects /\ Keeps
  BY StepIsKinded, StepHasEffects, StepIsGood DEF AllInv, Good
<1>2. QED
  BY <1>1, OpsStay, TodoStays, SucceededStays, MovingStays, MovedStays, RepliesStay DEF OInv

-----------------------------------------------------------------------------
(* Every step keeps the fifth part: comments.                              *)

\* A dead job stays dead, and so does what became of its run.
LEMMA DeadStays ==
    ASSUME JInv, [Next]_vars, NEW r \in Runs, jobs[r].status = "dead"
    PROVE  jobs'[r].status = "dead"
<1>1. jobs \in [Runs -> JobRow] /\ (~At("idle") => Mine # r)
  BY DEF JInv, Typed, JobsFit
<1>2. CASE jobs' = jobs
  BY <1>2
<1>3. CASE Push
  <2>1. Head \in Nat /\ r \in Nat /\ r <= Head
    BY HeadIs, Constants DEF JInv
  <2>2. Head + 1 # r
    BY <2>1
  <2>3. QED
    BY <1>1, <1>3, <2>2 DEF Push
<1>4. CASE Claim
  <2> DEFINE swept == [q \in Runs |-> IF jobs[q].status = "running"
                                      THEN [jobs[q] EXCEPT !.status = GivenBack(q)] ELSE jobs[q]]
             due == {q \in Runs : /\ swept[q].status = "queued"
                                  /\ \A s \in Runs : s < q => swept[s].status # "queued"}
  <2>1. swept[r] = jobs[r] /\ r \notin due
    OBVIOUS
  <2>2. \/ jobs' = swept
        \/ \E q \in due : jobs' = [swept EXCEPT ![q] = [status |-> "running", attempt |-> @.attempt + 1]]
    BY <1>4 DEF Claim
  <2>3. QED
    BY <2>1, <2>2
<1>5. CASE ~At("idle") /\ \E status : End(status)
  BY <1>1, <1>5 DEF End
<1>6. CASE Begin \/ Supersede \/ Fail \/ Finish
  BY <1>2, <1>5, <1>6 DEF Begin, Supersede, Fail, Finish, At
<1>7. CASE Persist \/ Record \/ BeginOperations \/ NextOperation \/ Unresolve \/ Reply \/ Resolve
           \/ MarkOperation \/ OperationFailed
  BY <1>2, <1>7 DEF Persist, Record, BeginOperations, NextOperation, Unresolve, Reply, Resolve,
                    MarkOperation, OperationFailed
<1>8. CASE Crash \/ AgentFails \/ (\E q \in Runs : TerminalFailed(q)) \/ Load \/ Publish \/ Unpublish
           \/ UNCHANGED vars
  BY <1>2, <1>8 DEF Crash, AgentFails, TerminalFailed, Load, Publish, Unpublish, vars
<1>9. QED
  BY <1>3, <1>4, <1>6, <1>7, <1>8 DEF Next

\* What a step may make of a run.
LEMMA RunStep ==
    ASSUME JInv, [Next]_vars
    PROVE  \/ run' = run
           \/ \E r \in Runs : run[r] \in Unpublished /\ Retired(r, "superseded") /\ r = Mine /\ Supersede
           \/ \E r \in Runs : run[r] \in Unpublished /\ jobs[r].status = "dead" /\ TerminalFailed(r)
           \/ /\ Mine \in Runs /\ jobs[Mine].status = "running" /\ \E s : run' = [run EXCEPT ![Mine] = s]
              /\ \/ run[Mine] \in {"none", "failed", "generating"}
                 \/ run[Mine] \in Unpublished /\ run'[Mine] \in {"ready", "publishing", "published"}
<1> DEFINE Set(s) == run' = [run EXCEPT ![Mine] = s]
<1>1. run \in [Runs -> RunStatus] /\ (~At("idle") => Mine \in Runs /\ jobs[Mine].status = "running")
  BY DEF JInv, Typed, JobsFit
<1>2. CASE Begin \/ Fail
  BY <1>1, <1>2 DEF Begin, Fail, At
<1>3. CASE Load \/ Unpublish
  BY <1>1, <1>3 DEF Load, Unpublish, At, JInv, RunFits, Unpublished
<1>4. CASE Persist
  <2>1. (run' = run \/ Set("ready")) /\ run[Mine] = "generating" /\ ~At("idle")
    BY <1>4, PersistGoes DEF Persisted, PersistTo, At
  <2>2. QED
    BY <1>1, <2>1
<1>5. CASE Record
  <2>1. run' = run \/ Set("published")
    BY <1>5, RecordGoes DEF RecordTo
  <2>2. QED
    BY <1>1, <1>5, <2>1 DEF Record, At, JInv, RunFits, Unpublished
<1>6. CASE Supersede
  <2>1. Retired(Mine, "superseded") /\ Mine \in Runs
    BY <1>1, <1>6 DEF Supersede, At
  <2>2. QED
    BY <1>6, <2>1 DEF Retired
<1>7. CASE \E r \in Runs : TerminalFailed(r)
  BY <1>7 DEF TerminalFailed
<1>8. CASE Push \/ Claim \/ Crash \/ AgentFails \/ Publish \/ Finish \/ UNCHANGED vars
  BY <1>8 DEF Push, Claim, Crash, AgentFails, Publish, Finish, vars
<1>9. CASE BeginOperations \/ NextOperation \/ Unresolve \/ Reply \/ Resolve \/ MarkOperation \/ OperationFailed
  BY <1>9 DEF BeginOperations, NextOperation, Unresolve, Reply, Resolve, MarkOperation, OperationFailed
<1>10. QED
  BY <1>2, <1>3, <1>4, <1>5, <1>6, <1>7, <1>8, <1>9 DEF Next

LEMMA SettledStays ==
    ASSUME JInv, [Next]_vars, NEW r \in Runs, Settled(r)
    PROVE  Settled(r)' /\ (GivenUp(r) => GivenUp(r)')
<1>1. run \in [Runs -> RunStatus] /\ (jobs[r].status = "dead" => jobs'[r].status = "dead")
  BY DeadStays DEF JInv, Typed
<1>2. CASE run'[r] = run[r]
  BY <1>1, <1>2 DEF Settled, GivenUp
<1>3. CASE run'[r] # run[r]
  <2>1. CASE run[r] \in Unpublished /\ Retired(r, "superseded")
    BY <1>1, <2>1 DEF Retired, Settled, GivenUp, Unpublished
  <2>2. CASE run[r] \in Unpublished /\ jobs[r].status = "dead" /\ TerminalFailed(r)
    BY <1>1, <2>2 DEF TerminalFailed, Retired, Settled, GivenUp, Unpublished
  <2>3. CASE r = Mine /\ jobs[Mine].status = "running" /\ run[Mine] \in {"none", "failed", "generating"}
    BY <2>3 DEF Settled, GivenUp
  <2>4. CASE r = Mine /\ jobs[Mine].status = "running" /\ run'[Mine] \in {"ready", "publishing", "published"}
    BY <2>4 DEF Settled, GivenUp
  <2>5. ASSUME NEW q \in Runs, NEW s, q # r, run[q] \in Unpublished, Retired(q, s)
        PROVE  FALSE
    BY <1>1, <1>3, <2>5 DEF Retired
  <2>6. QED
    BY <1>1, <1>3, <2>1, <2>2, <2>3, <2>4, <2>5, RunStep DEF TerminalFailed
<1>4. QED
  BY <1>2, <1>3

\* Findings, events and lineages change in these steps only.
LEMMA Quieter ==
    ASSUME [Next]_vars
    PROVE  Quiet \/ Persist \/ Record \/ Supersede \/ \E r \in Runs : TerminalFailed(r)
<1>1. CASE Push \/ Claim \/ Crash \/ Begin \/ AgentFails \/ Fail \/ Load \/ Publish \/ Unpublish \/ NextOperation
           \/ Finish \/ UNCHANGED vars
  BY <1>1 DEF Push, Claim, Crash, Begin, AgentFails, Fail, Load, Publish, Unpublish, NextOperation, Finish,
              vars, tables, Quiet
<1>2. CASE BeginOperations \/ Unresolve \/ Reply \/ Resolve \/ MarkOperation \/ OperationFailed
  BY <1>2 DEF BeginOperations, Unresolve, Reply, Resolve, MarkOperation, OperationFailed, tables, Quiet
<1>3. QED
  BY <1>1, <1>2 DEF Next

\* A run that is settled and may still be recorded could be recorded before.
LEMMA RunBefore ==
    ASSUME JInv, [Next]_vars, NEW r \in Runs, Settled(r), run'[r] \in {"ready", "publishing"}
    PROVE  run[r] \in {"ready", "publishing"}
<1>1. CASE run[r] \in {"published", "superseded"}
  <2>1. run[r] \notin Unpublished \cup {"none", "failed", "generating"} /\ run \in [Runs -> RunStatus]
    BY <1>1 DEF Unpublished, JInv, Typed
  <2>2. run'[r] = run[r]
    BY <2>1, RunStep DEF TerminalFailed, Retired
  <2>3. QED
    BY <1>1, <2>2
<1>2. CASE GivenUp(r)
  <2>1. run'[r] = "failed"
    BY <1>2, SettledStays DEF GivenUp
  <2>2. QED
    BY <2>1
<1>3. QED
  BY <1>1, <1>2 DEF Settled

\* A review that is not yet on record keeps its new findings, unless another
\* review that was given up takes a lineage with it.
LEMMA KnownStays ==
    ASSUME JInv, JInv', KInv, Kinded, [Next]_vars, NEW r \in Runs, NEW f \in Fingerprints, Recent(r),
           run[r] \in {"ready", "publishing"}, run'[r] \in {"ready", "publishing"}, Known(r, f)
    PROVE  Known(r, f)'
<1>1. /\ \A e \in events : e.run \in Runs /\ e.lineage \in Fingerprints
      /\ run \in [Runs -> RunStatus] /\ \A s \in Runs : GivenUp(s) => GivenUp(s)'
  BY RowsNow, SettledStays DEF JInv, Typed, Settled
<1>2. CASE Quiet
  BY <1>1, <1>2 DEF Quiet, Known, HasNew, Lost
<1>3. CASE Supersede
  <2>1. Mine \in Runs /\ Retired(Mine, "superseded") /\ proc.pc \in {"persist", "load"}
    BY <1>3, WorkerAt DEF Supersede, At
  <2>2. CASE run[Mine] \notin Unpublished
    BY <1>1, <1>2, <2>1, <2>2 DEF Retired, Quiet, tables
  <2>3. CASE run[Mine] \in Unpublished
    <3>1. r # Mine /\ run'[Mine] = "superseded" /\ DiscardGoes(Mine)
      BY <1>1, <2>1, <2>3, DiscardRows DEF Retired, Kinded, RunStatus
    <3>2. r = Head /\ \A e \in events : e.run <= Mine
      BY <2>1, <3>1 DEF Recent, KInv, Newest
    <3>3. Mine <= Head
      <4>1. jobs[Mine].status # "absent"
        BY <2>1 DEF JInv, JobsFit, At
      <4>2. QED
        BY <2>1, <4>1, HeadIs DEF JInv
    <3>4. ~HasNew(r, f)
      BY <2>1, <3>1, <3>2, <3>3, Constants DEF HasNew
    <3>5. Lost(r, f)
      BY <3>4 DEF Known
    <3>6. lineage'[f] = NoLineage
      BY <3>1, <3>5 DEF Lost, DiscardGoes
    <3>7. QED
      BY <1>1, <3>5, <3>6 DEF Known, Lost
  <2>4. QED
    BY <2>2, <2>3
<1>4. CASE \E s \in Runs : TerminalFailed(s)
  <2>1. PICK s \in Runs : jobs[s].status = "dead" /\ run[s] \in Unpublished /\ Retired(s, "failed")
    BY <1>4 DEF TerminalFailed
  <2>2. r # s /\ run'[s] = "failed" /\ DiscardGoes(s)
    BY <1>1, <2>1, DiscardRows DEF Retired, Kinded, RunStatus
  <2>3. GivenUp(s)'
    BY <2>1, <2>2, DeadStays DEF GivenUp
  <2>4. CASE Lost(r, f)
    <3>1. lineage'[f] = NoLineage
      BY <2>2, <2>4 DEF Lost, DiscardGoes
    <3>2. QED
      BY <1>1, <2>4, <3>1 DEF Known, Lost
  <2>5. CASE HasNew(r, f)
    <3>1. PICK e \in events : e.run = r /\ e.lineage = f /\ e.kind = "new"
      BY <2>5 DEF HasNew
    <3>2. CASE f \in Pending(s)
      <4>1. lineage'[f] = NoLineage
        BY <2>2, <3>2 DEF DiscardGoes
      <4>2. QED
        BY <2>2, <2>3, <4>1 DEF Known, Lost
    <3>3. CASE f \notin Pending(s)
      <4>1. e \in events'
        BY <2>2, <3>1, <3>3 DEF DiscardGoes
      <4>2. QED
        BY <3>1, <4>1 DEF Known, HasNew
    <3>4. QED
      BY <3>2, <3>3
  <2>6. QED
    BY <2>4, <2>5 DEF Known
<1>5. CASE Persist
  <2>1. Mine = Head /\ run[Mine] = "generating"
    BY <1>5, PersistGoes
  <2>2. QED
    BY <2>1 DEF Recent
<1>6. CASE Record
  <2>1. CASE UNCHANGED tables
    BY <1>2, <2>1 DEF Quiet, tables
  <2>2. CASE RecordTo /\ RecordSets
    <3>1. /\ \A e \in ToApply : Expected(e) /\ e \in events
          /\ \A l \in Fingerprints : (\A e \in ToApply : e.lineage # l) => lineage'[l] = lineage[l]
          /\ \A e \in events : \E d \in events' : d.run = e.run /\ d.lineage = e.lineage /\ d.kind = e.kind
      BY <2>2 DEF RecordTo, RecordSets, ToApply, EventsOf
    <3>2. CASE HasNew(r, f)
      <4>1. PICK e \in events : e.run = r /\ e.lineage = f /\ e.kind = "new"
        BY <3>2 DEF HasNew
      <4>2. PICK d \in events' : d.run = e.run /\ d.lineage = e.lineage /\ d.kind = e.kind
        BY <3>1
      <4>3. QED
        BY <4>1, <4>2 DEF Known, HasNew
    <3>3. CASE Lost(r, f)
      <4>1. ASSUME NEW e \in ToApply
            PROVE  e.lineage # f
        <5>1. Expected(e) /\ e.kind \in Kinds
          BY <3>1, RowsNow
        <5>2. lineage[e.lineage].status # "none"
          BY <5>1 DEF Expected, Kinds
        <5>3. QED
          BY <3>3, <5>2, Shapes DEF Lost
      <4>2. lineage'[f] = NoLineage
        BY <3>1, <3>3, <4>1 DEF Lost
      <4>3. QED
        BY <1>1, <3>3, <4>2 DEF Known, Lost
    <3>4. QED
      BY <3>2, <3>3 DEF Known
  <2>3. QED
    BY <1>6, <2>1, <2>2, RecordGoes
<1>7. QED
  BY <1>2, <1>3, <1>4, <1>5, <1>6, Quieter

LEMMA NewFitsStays ==
    ASSUME JInv, NewFits, Kinded
    PROVE  NewFits'
<1>1. \A e \in events : \A x \in findings : e.kind = "new" /\ Matches(e, x) => x.fp = e.lineage
  BY DEF NewFits
<1>2. CASE Quiet
  BY <1>1, <1>2 DEF Quiet, NewFits, Matches
<1>3. CASE Drops
  <2>1. findings' \subseteq findings /\ events' \subseteq events
    BY <1>3 DEF Drops, DiscardGoes
  <2>2. QED
    BY <1>1, <2>1 DEF NewFits, Matches
<1>4. CASE Persists
  <2>1. PICK t : Classified(t) /\ PersistTo(t)
    BY <1>4 DEF Persists, Persisted
  <2>2. RowsFrom(t) /\ \A e \in events : e.run # Mine
    BY <1>4, <2>1, PersistFrom DEF Persists
  <2>3. ASSUME NEW e \in events', NEW y \in findings', e.kind = "new", Matches(e, y)
        PROVE  y.fp = e.lineage
    <3>1. CASE e \in events
      <4>1. y \in findings
        BY <2>2, <2>3, <3>1 DEF RowsFrom, Matches
      <4>2. QED
        BY <1>1, <2>3, <3>1, <4>1
    <3>2. CASE e \notin events
      <4>1. PICK x \in t : e.run = Mine /\ e.lineage = x.lineage /\ e.kind = x.kind
        BY <2>2, <3>2 DEF RowsFrom
      <4>2. PICK z \in t : y.lineage = z.lineage /\ y.fp = z.fp
        BY <2>2, <2>3, <4>1 DEF RowsFrom, Matches
      <4>3. x = z
        BY <2>1, <2>3, <4>1, <4>2 DEF Classified, Matches
      <4>4. x.lineage = x.fp
        BY <2>1, <2>3, <4>1 DEF Classified, Shape
      <4>5. QED
        BY <4>1, <4>2, <4>3, <4>4
    <3>3. QED
      BY <3>1, <3>2
  <2>4. QED
    BY <2>3 DEF NewFits, Matches
<1>5. CASE Records
  <2>1. ASSUME NEW d \in events', NEW x \in findings', d.kind = "new", Matches(d, x)
        PROVE  x.fp = d.lineage
    <3>1. PICK e \in events : d.run = e.run /\ d.lineage = e.lineage /\ d.kind = e.kind
      BY <1>5 DEF Records, RecordSets
    <3>2. x \in findings /\ Matches(e, x)
      BY <1>5, <2>1, <3>1 DEF Records, Matches
    <3>3. QED
      BY <1>1, <2>1, <3>1, <3>2
  <2>2. QED
    BY <2>1 DEF NewFits, Matches
<1>6. QED
  BY <1>2, <1>3, <1>4, <1>5 DEF Kinded

\* The inline findings of a publication are those it begins with.
LEMMA InlineKnownStays ==
    ASSUME AllInv, JInv', Kinded, [Next]_vars
    PROVE  InlineKnown'
<1>1. JInv /\ KInv /\ NewFits /\ InlineKnown
  BY DEF AllInv, CInv
<1> DEFINE Now(m, f) == \/ \E e \in events' : e.run = m /\ e.lineage = f /\ e.kind = "new"
                        \/ lineage'[f] = NoLineage /\ \E s \in Runs : s # m /\ GivenUp(s)'
<1>2. SUFFICES ASSUME proc'.pc = "publish", NEW f \in proc'.inline
               PROVE  Now(proc'.run, f)
  BY DEF InlineKnown, At, Mine, Known, HasNew, Lost
<1>3. CASE Load
  <2>1. findings' = findings /\ events' = events
    BY <1>3 DEF Load, tables
  <2> DEFINE in == IF Mine \in InlineRuns THEN NewOf(Mine) ELSE {}
  <2>2. proc' = [proc EXCEPT !.pc = "publish", !.inline = in]
    <3>1. ~To("operations")
      BY <1>1, <1>2, ToRow DEF JInv, Pcs
    <3>2. QED
      BY <1>3, <3>1 DEF Load
  <2>3. proc'.run = Mine /\ proc'.inline = in
    BY <1>1, <2>2 DEF JInv, Typed, ProcRow, Mine
  <2>4. f \in NewOf(Mine)
    BY <1>2, <2>3
  <2>5. PICK e \in events : e.run = Mine /\ e.kind = "new" /\ f = FingerprintOf(e)
    BY <2>4 DEF NewOf, EventsOf
  <2>6. PICK y \in findings : Matches(e, y) /\ FingerprintOf(e) = y.fp
    BY <1>1, <2>5, EventFingerprint DEF KInv
  <2>7. f = e.lineage
    BY <1>1, <2>5, <2>6 DEF NewFits
  <2>8. QED
    BY <2>1, <2>3, <2>5, <2>7
<1>4. CASE proc' = proc
  <2>1. proc.pc = "publish" /\ Mine \in Runs /\ f \in Fingerprints /\ f \in proc.inline
    BY <1>1, <1>2, <1>4, WorkerAt DEF At, ProcRow
  <2>2. Recent(Mine) /\ run[Mine] = "publishing" /\ run'[Mine] = "publishing"
    BY <1>1, <1>4, <2>1 DEF Recent, JInv, RunFits, At, Mine
  <2>3. Known(Mine, f)
    BY <1>1, <2>1 DEF InlineKnown, At
  <2>4. PICK m \in Runs : m = Mine /\ m = proc'.run
    BY <1>4, <2>1 DEF Mine
  <2>5. Known(m, f) /\ Recent(m) /\ run[m] = "publishing" /\ run'[m] = "publishing"
    BY <2>2, <2>3, <2>4
  <2>6. Known(m, f)'
    BY <1>1, <2>1, <2>5, KnownStays
  <2>7. QED
    BY <2>4, <2>6 DEF Known, HasNew, Lost
<1>5. CASE UNCHANGED vars \/ Push \/ \E r \in Runs : TerminalFailed(r)
  BY <1>4, <1>5 DEF vars, Push, TerminalFailed
<1>6. CASE Publish
  BY <1>1, <1>2, <1>6, PublishGoes DEF AllInv, TInv
<1>7. CASE Claim
  BY <1>1, <1>2, <1>7, ClaimJobs DEF At
<1>8. CASE Crash \/ Supersede \/ Fail \/ Finish
  BY <1>2, <1>8, Shapes DEF Crash, Supersede, Fail, Finish, End
<1>9. CASE Begin
  <2>1. proc' = Idle \/ To("persist") \/ To("load")
    BY <1>9 DEF Begin, End
  <2>2. QED
    BY <1>1, <1>2, <2>1, Shapes, ToRow DEF JInv, Pcs
<1>10. CASE Persist \/ AgentFails \/ Unpublish \/ Record
  <2>1. To("load") \/ To("failed") \/ To("operations")
    BY <1>1, <1>10, PersistGoes, RecordGoes DEF Persisted, PersistTo, RecordTo, AgentFails, Fails, Unpublish
  <2>2. QED
    BY <1>1, <1>2, <2>1, ToRow DEF JInv, Pcs
<1>11. CASE BeginOperations \/ NextOperation \/ Unresolve \/ Reply \/ Resolve \/ MarkOperation \/ OperationFailed
  BY <1>1, <1>2, <1>11, BeginOperationsGoes, NextOperationGoes, RequestGoes, MarkGoes, OperationFailedGoes
<1>12. QED
  BY <1>3, <1>5, <1>6, <1>7, <1>8, <1>9, <1>10, <1>11 DEF Next

\* Where a root comment comes from.
LEMMA RootFrom ==
    ASSUME AllInv, Effects, NEW r \in Runs, NEW f \in Fingerprints, <<r, f>> \in github'.roots,
           <<r, f>> \notin github.roots
    PROVE  Publish /\ proc.pc = "publish" /\ r = Mine /\ f \in proc.inline
<1>1. JInv /\ GitHubFits
  BY DEF AllInv, TInv
<1>2. CASE github' = github
  BY <1>2
<1>3. CASE Publish
  <2>1. proc.pc = "publish" /\ github \in GitHubRow
    BY <1>1, <1>3, PublishGoes DEF GitHubFits
  <2>2. github'.roots \subseteq github.roots \cup ({Mine} \X proc.inline)
    BY <1>3, <2>1 DEF Publish, GitHubRow
  <2>3. QED
    BY <1>3, <2>1, <2>2
<1>4. CASE Unresolve \/ Resolve \/ Reply
  <2>1. github'.roots = github.roots
    BY <1>1, <1>4 DEF Unresolve, Resolve, Reply, SetResolution, GitHubFits, GitHubRow
  <2>2. QED
    BY <2>1
<1>5. CASE BeginOperations \/ MarkOperation \/ OperationFailed
  BY <1>1, <1>2, <1>5, BeginOperationsGoes, MarkGoes, OperationFailedGoes
<1>6. QED
  BY <1>2, <1>3, <1>4, <1>5 DEF Effects, Bare

LEMMA RootsStay ==
    ASSUME AllInv, JInv', Kinded, Effects, [Next]_vars
    PROVE  RootsFit'
<1>1. JInv /\ KInv /\ RootsFit /\ InlineKnown /\ Grows
  BY DEF AllInv, CInv, Kinded
<1>2. SUFFICES ASSUME NEW r \in Runs, NEW f \in Fingerprints, <<r, f>> \in github'.roots
               PROVE  /\ Settled(r)' /\ jobs'[r].status # "absent"
                      /\ run'[r] \in {"ready", "publishing"} /\ Recent(r)' => Known(r, f)'
  BY DEF RootsFit
<1>3. Settled(r) /\ jobs[r].status # "absent" /\ (run[r] \in {"ready", "publishing"} /\ Recent(r) => Known(r, f))
  <2>1. CASE <<r, f>> \in github.roots
    BY <1>1, <2>1 DEF RootsFit
  <2>2. CASE <<r, f>> \notin github.roots
    <3>1. proc.pc = "publish" /\ r = Mine /\ f \in proc.inline
      BY <1>2, <2>2, RootFrom
    <3>2. run[Mine] = "publishing" /\ jobs[Mine].status = "running"
      BY <1>1, <3>1 DEF JInv, RunFits, JobsFit, At
    <3>3. Known(Mine, f)
      BY <1>1, <3>1 DEF InlineKnown, At
    <3>4. QED
      BY <3>1, <3>2, <3>3 DEF Settled
  <2>3. QED
    BY <2>1, <2>2
<1>4. Settled(r)' /\ jobs'[r].status # "absent"
  BY <1>1, <1>3, SettledStays DEF Grows
<1>5. ASSUME run'[r] \in {"ready", "publishing"}, Recent(r)'
      PROVE  Known(r, f)'
  <2>1. Recent(r)
    <3>1. CASE r = Head'
      <4>1. r <= Head /\ Head <= Head' /\ Head \in Runs
        BY <1>1, <1>3, HeadIs, HeadGrows DEF JInv
      <4>2. QED
        BY <3>1, <4>1, Constants DEF Recent
    <3>2. CASE r = proc'.run /\ proc'.pc \notin {"idle", "begin"}
      BY <1>1, <3>2 DEF Kinded, Follows, Recent, Early, Mine
    <3>3. QED
      BY <1>5, <3>1, <3>2 DEF Recent, Mine
  <2>2. run[r] \in {"ready", "publishing"}
    BY <1>1, <1>3, <1>5, RunBefore
  <2>3. QED
    BY <1>1, <1>3, <1>5, <2>1, <2>2, KnownStays
<1>6. QED
  BY <1>4, <1>5

LEMMA StepCInv ==
    ASSUME AllInv, [Next]_vars
    PROVE  CInv'
<1>1. JInv' /\ Kinded /\ Effects
  BY StepIsKinded, StepHasEffects, StepIsGood DEF AllInv, Good
<1>2. QED
  BY <1>1, NewFitsStays, RootsStay, InlineKnownStays DEF AllInv, CInv

LEMMA InitAllInv ==
    ASSUME Init
    PROVE  AllInv
<1>1. JInv
  BY InitJInv
<1>2. KInv
  BY Shapes DEF Init, KInv, RowsUnique, Newest, Unchanged
<1>3. github \in GitHubRow /\ github.resolved = {} /\ github.replies = [e \in Event |-> 0]
  BY DEF Init, GitHubRow
<1>4. TInv
  BY <1>3, Shapes DEF Init, TInv, ThreadsFit, GitHubFits, TrackedFits, InlineFits, LastFits
<1>5. OInv
  BY <1>3, Shapes DEF Init, OInv, OpsFit, TodoFits, SucceededFits, MovingFits, MovedFits, RepliesFit, OpSteps, At
<1>6. CInv
  BY <1>3 DEF Init, CInv, NewFits, RootsFit, InlineKnown, Idle, At
<1>7. QED
  BY <1>1, <1>2, <1>4, <1>5, <1>6 DEF AllInv

LEMMA Invariance == Spec => []AllInv
<1>1. Init => AllInv
  BY InitAllInv
<1>2. AllInv /\ [Next]_vars => AllInv'
  BY StepKInv, StepTInv, StepOInv, StepCInv DEF AllInv
<1>3. QED
  BY <1>1, <1>2, PTL DEF Spec

\* RecordsAsClassified: the tables keep their types and unique keys, and when
\* _mark_native_publication_published records a review, every lineage it has
\* an event of still has the status the review was classified against (the
\* RuntimeError of activate_finding_lineage_events is never raised), and every
\* comment GitHub shows maps to a new finding of the review (the one of
\* record_finding_threads is not raised) unless the lineage was deleted with
\* another review, which was given up.
THEOREM RecordsAsClassified == Spec => []RecordedAsClassified
<1>1. AllInv => TypeOK
  <2>1. SUFFICES ASSUME AllInv PROVE TypeOK
    OBVIOUS
  <2>2. Typed /\ RowsUnique /\ GitHubFits
    BY <2>1 DEF AllInv, JInv, KInv, TInv
  <2>3. proc.run \in Runs \cup {NoRun} /\ proc.inline \subseteq Fingerprints /\ proc.todo \subseteq Fingerprints
    BY <2>2 DEF Typed, ProcRow
  <2>4. /\ github.review \in [Runs -> {"none", "inline", "bare"}] /\ github.roots \subseteq Runs \X Fingerprints
        /\ github.resolved \subseteq github.roots /\ github.replies \in [Event -> Nat]
    BY <2>2 DEF GitHubFits, GitHubRow
  <2>5. QED
    BY <2>2, <2>3, <2>4 DEF TypeOK, Typed, RowsUnique, JobRow, RunStatus, LineageRow, FindingRow, EventRow, ThreadRow
<1>2. AllInv => PublishedAsClassified
  <2>1. SUFFICES ASSUME AllInv, At("record"), NEW e \in ToApply PROVE Expected(e)
    BY DEF PublishedAsClassified
  <2>2. e \in events /\ e.run = Mine /\ ~e.applied /\ run[Mine] = "publishing" /\ proc.pc = "record"
    BY <2>1 DEF ToApply, EventsOf, AllInv, JInv, RunFits, At
  <2>3. Recent(e.run)
    BY <2>2 DEF Recent
  <2>4. QED
    BY <2>1, <2>2, <2>3 DEF AllInv, KInv, Unchanged
<1>3. AllInv => CommentsMapUnlessLost
  <2>1. SUFFICES ASSUME AllInv, At("record"), NEW f \in Anchored, ~LostWithItsFirstReview(f)
                 PROVE  MapsToNew(f)
    BY DEF CommentsMapUnlessLost
  <2>2. /\ JInv /\ KInv /\ NewFits /\ RootsFit /\ ThreadsFit
        /\ Mine \in Runs /\ f \in Fingerprints /\ <<Mine, f>> \in github.roots /\ run[Mine] = "publishing"
    BY <2>1, WorkerAt DEF AllInv, TInv, CInv, JInv, RunFits, Anchored, At
  <2>3. Recent(Mine)
    BY <2>1 DEF Recent, At
  <2>4. Known(Mine, f) /\ ~Lost(Mine, f)
    BY <2>1, <2>2, <2>3 DEF RootsFit, LostWithItsFirstReview, Lost, GivenUp
  <2>5. PICK e \in events : e.run = Mine /\ e.lineage = f /\ e.kind = "new"
    BY <2>4 DEF Known, HasNew
  <2>6. PICK x \in findings : Matches(e, x) /\ FingerprintOf(e) = x.fp
    BY <2>2, <2>5, EventFingerprint DEF KInv
  <2>7. FingerprintOf(e) = f
    BY <2>2, <2>5, <2>6 DEF NewFits
  <2>8. threads[f] = NoThread
    <3>1. ~e.applied /\ e.run = Mine /\ run[e.run] # "published"
      BY <2>2, <2>5 DEF JInv, EventsFit
    <3>2. lineage[f].status = "pending"
      BY <2>2, <2>3, <2>5, <3>1 DEF KInv, Unchanged, Expected
    <3>3. QED
      BY <2>2, <3>2 DEF ThreadsFit
  <2>9. QED
    BY <2>5, <2>7, <2>8, Shapes DEF MapsToNew, EventsOf
<1>4. AllInv => RecordedAsClassified
  BY <1>1, <1>2, <1>3 DEF RecordedAsClassified
<1>5. QED
  BY <1>4, Invariance, PTL

\* ThreadsFollow: a finding that was published inline has its thread, however
\* often a review is retried a thread gets one reply for each transition, and
\* after a review job that succeeded (publish_thread_operations) the thread
\* follows its finding on GitHub and in finding_threads.
THEOREM ThreadsFollow == Spec => []ThreadsKept
<1>1. AllInv => TrackedHasThread
  <2>1. SUFFICES ASSUME AllInv, NEW e \in events, e.kind = "new", e.applied, e.run \in InlineRuns
                 PROVE  threads[e.lineage] # NoThread /\ <<threads[e.lineage].root, FingerprintOf(e)>> \in github.roots
    BY DEF TrackedHasThread
  <2>2. JInv /\ RowsUnique /\ ThreadsFit /\ e.lineage \in Fingerprints
    BY <2>1, RowsNow DEF AllInv, KInv, TInv
  <2>3. threads[e.lineage] # NoThread /\ threads[e.lineage].root = e.run
    BY <2>1 DEF AllInv, TInv, TrackedFits
  <2>4. PICK x \in findings : x.run = e.run /\ x.lineage = e.lineage /\ <<x.run, x.fp>> \in github.roots
    BY <2>2, <2>3, ThreadRoot, ZenonT(40)
  <2>5. FingerprintOf(e) = x.fp
    BY <2>1, <2>2, <2>4, EventFingerprint DEF Matches
  <2>6. QED
    BY <2>3, <2>4, <2>5
<1>2. AllInv => OneReplyPerTransition
  BY DEF AllInv, OInv, RepliesFit, OneReplyPerTransition
<1>3. AllInv => ThreadsFollowFindings
  <2>1. SUFFICES ASSUME AllInv, NEW r \in Runs, NEW e \in events, e.run = r, jobs[r].status = "succeeded",
                        e.kind \in {"addressed", "reopened"}, e.applied, threads[e.lineage] # NoThread,
                        \A d \in events : d.lineage = e.lineage /\ d.run > r /\ d.applied => d.kind = "persistent"
                 PROVE  LET t == threads[e.lineage]
                            root == <<t.root, FingerprintOf([run |-> t.root, lineage |-> e.lineage])>>
                        IN  /\ github.replies[[run |-> r, lineage |-> e.lineage]] = 1
                            /\ t.status = lineage[e.lineage].status
                            /\ (root \in github.resolved) = (e.kind = "addressed")
    BY DEF ThreadsFollowFindings, EventsOf
  <2>2. JInv /\ RowsUnique /\ ThreadsFit /\ e.lineage \in Fingerprints
    BY <2>1, RowsNow DEF AllInv, KInv, TInv
  <2>3. Due(e) /\ Later(e) = {} /\ Key(e) = [run |-> r, lineage |-> e.lineage]
    BY <2>1 DEF Due, Later, Key
  <2>4. ops[Key(e)] = "published"
    BY <2>1, <2>3 DEF AllInv, OInv, SucceededFits
  <2>5. /\ github.replies[Key(e)] = 1 /\ threads[e.lineage].status = StatusOf(e)
        /\ \A x \in findings : x.run = threads[e.lineage].root /\ x.lineage = e.lineage =>
             (<<x.run, x.fp>> \in github.resolved <=> e.kind = "addressed")
    BY <2>1, <2>3, <2>4 DEF AllInv, OInv, MovedFits
  <2>6. lineage[e.lineage].status = StatusOf(e)
    BY <2>1, <2>3 DEF AllInv, TInv, LastFits
  <2>7. PICK x \in findings :
             /\ x.run = threads[e.lineage].root /\ x.lineage = e.lineage
             /\ FingerprintOf([run |-> threads[e.lineage].root, lineage |-> e.lineage]) = x.fp
    BY <2>1, <2>2, ThreadRoot
  <2>8. <<threads[e.lineage].root, FingerprintOf([run |-> threads[e.lineage].root, lineage |-> e.lineage])>> \in github.resolved
          <=> e.kind = "addressed"
    BY <2>5, <2>7
  <2>9. QED
    BY <2>3, <2>5, <2>6, <2>8
<1>4. AllInv => ThreadsKept
  BY <1>1, <1>2, <1>3 DEF ThreadsKept
<1>5. QED
  BY <1>4, Invariance, PTL
=============================================================================
