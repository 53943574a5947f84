------------------------ MODULE ReviewExecutionProofs ------------------------
(***************************************************************************)
(* Proofs about ReviewExecution, for every number of workers, attempts and *)
(* crashes.  Some results need workers that renew their leases (~Stalls):  *)
(* then a worker in process_review_job owns its lease, and no other worker *)
(* is in there with it.  Two of those also need a revision with one job:   *)
(* the worker that finalizes a job given up may otherwise still be at the  *)
(* check when the next job's worker is.                                    *)
(***************************************************************************)
EXTENDS ReviewExecution, SequenceTheorems, TLAPS

-----------------------------------------------------------------------------
(* Types.                                                                  *)

JobRow == [status : Active \cup TERMINAL_JOB_STATUSES \cup {"absent", "succeeded", "superseded"},
           attempt : 0..MaxAttempts, owner : Workers \cup {Nobody}, live : BOOLEAN]
RunRow == [status : Unpublished \cup {"none", "skipped", "published", "failed", "superseded"},
           job : Jobs \cup {0}]
CheckRow == [status : {"none", "creating", "in_progress", "completing", "failed", "completed"},
             ext : Nat, attempts : Nat, code : {"none", "publication_failed", "exhausted"},
             conclusion : Conclusions \cup {"none"}]
GitHub == [checks : Seq(Conclusions \cup {"in_progress"}), reviews : Nat]
Handle == [open : BOOLEAN, ext : Nat]
Process == [pc : Steps, job : Jobs \cup {0}, gen : BOOLEAN, pub : BOOLEAN, handle : Handle,
            conclusion : Conclusions, next : {"supersede", "final", "idle"}]

\* The types of TypeOK, with the shape of every record; a job that waits, or
\* will, has an attempt left.
Typed ==
    /\ wanted \in BOOLEAN /\ jobs \in [Jobs -> JobRow] /\ run \in RunRow
    /\ pub \in {"none", "publishing", "published", "failed"}
    /\ check \in CheckRow /\ github \in GitHub /\ proc \in [Workers -> Process]
    /\ crashes \in 0..MaxCrashes
    /\ \A j \in Jobs : jobs[j].status \in {"absent", "queued"} => jobs[j].attempt < MaxAttempts

LEMMA TypedImplies == Typed => TypeOK
BY DEF Typed, TypeOK, JobRow, RunRow, CheckRow, GitHub, Handle, Process

LEMMA IdleIsAProcess == Idle \in Process
BY DEF Idle, Process, Handle, NoHandle, NoCheck, Steps, Conclusions

LEMMA InitTyped == Init => Typed
<1> SUFFICES ASSUME Init PROVE Typed
  OBVIOUS
<1>1. jobs \in [Jobs -> JobRow] /\ \A j \in Jobs : jobs[j].attempt = 0
  <2> DEFINE row(j) == [status |-> IF j = 1 THEN "queued" ELSE "absent", attempt |-> 0,
                        owner |-> Nobody, live |-> FALSE]
  <2>1. \A j \in Jobs : row(j) \in JobRow /\ row(j).attempt = 0
    BY ExecutionAssumption DEF JobRow, Active
  <2>2. jobs = [j \in Jobs |-> row(j)]
    BY DEF Init
  <2> HIDE DEF row
  <2>3. QED
    BY <2>1, <2>2
<1>2. run \in RunRow /\ check \in CheckRow /\ github \in GitHub
  BY DEF Init, RunRow, CheckRow, GitHub, NoCheck
<1>3. QED
  BY <1>1, <1>2, IdleIsAProcess, ExecutionAssumption DEF Init, Typed

\* One worker's process changes.
Moves(w, q) == q \in Process /\ proc' = [proc EXCEPT ![w] = q]

LEMMA ToMoves ==
    ASSUME Typed, NEW w \in Workers, NEW pc \in Steps, To(w, pc)
    PROVE  Moves(w, [proc[w] EXCEPT !.pc = pc])
BY DEF Typed, To, Moves, Process

LEMMA ResumesTyped ==
    ASSUME Typed, NEW w \in Workers, NEW q, Moves(w, q)
    PROVE  proc' \in [Workers -> Process]
BY DEF Typed, Moves

\* Every step of a worker moves its own process, if any.
LEMMA OwnProcess ==
    ASSUME Typed, NEW w \in Workers, Work(w) \/ Crash(w)
    PROVE  UNCHANGED proc \/ \E q : Moves(w, q)
<1> DEFINE p == proc[w]
<1>0. /\ p \in Process /\ proc \in [Workers -> Process] /\ p.handle \in Handle
      /\ check \in CheckRow /\ run \in RunRow
  BY DEF Typed, Process
<1>1. ASSUME \E pc \in Steps : To(w, pc) PROVE \E q : Moves(w, q)
  BY <1>1, ToMoves
<1>2. ASSUME Rest(w) PROVE \E q : Moves(w, q)
  BY <1>2, IdleIsAProcess DEF Rest, Moves
<1>3. ASSUME Return(w) \/ Raise(w) PROVE \E q : Moves(w, q)
  <2>1. p.next = "idle" \/ p.next \in Steps
    BY <1>0 DEF Process, Steps
  <2>2. QED
    BY <1>1, <1>2, <1>3, <2>1 DEF Return, Raise, Steps
<1>4. CASE Claim(w)
  <2>1. CASE UNCHANGED proc
    BY <2>1
  <2>2. CASE \E j \in Jobs : proc' = [proc EXCEPT ![w] = [Idle EXCEPT !.pc = "entry", !.job = j]]
    <3>1. ASSUME NEW j \in Jobs PROVE [Idle EXCEPT !.pc = "entry", !.job = j] \in Process
      BY IdleIsAProcess DEF Process, Steps
    <3>2. QED
      BY <2>2, <3>1 DEF Moves
  <2>3. QED
    BY <1>4, <2>1, <2>2 DEF Claim
<1>5. CASE FinalizeStranded(w)
  <2>1. PICK j \in Jobs : proc' = [proc EXCEPT ![w] = [Idle EXCEPT !.pc = "getCheck", !.job = j,
                                                             !.conclusion = "failure"]]
    BY <1>5 DEF FinalizeStranded
  <2>2. [Idle EXCEPT !.pc = "getCheck", !.job = j, !.conclusion = "failure"] \in Process
    BY IdleIsAProcess DEF Process, Steps, Conclusions
  <2>3. QED
    BY <2>1, <2>2 DEF Moves
<1>6. ASSUME NEW pc \in Steps, NEW c \in Conclusions, NEW n \in {"supersede", "final", "idle"},
             proc' = [proc EXCEPT ![w].pc = pc, ![w].conclusion = c, ![w].next = n]
      PROVE  \E q : Moves(w, q)
  <2>1. [p EXCEPT !.pc = pc, !.conclusion = c, !.next = n] \in Process
    BY <1>0 DEF Process
  <2>2. proc' = [proc EXCEPT ![w] = [p EXCEPT !.pc = pc, !.conclusion = c, !.next = n]]
    BY <1>0, <1>6
  <2>3. QED
    BY <2>1, <2>2 DEF Moves
<1>7. CASE Entry(w) \/ GenerationSuperseded(w) \/ Retire(w) \/ Conclude(w) \/ Terminal(w)
  <2>1. CASE Entry(w) /\ \E pc \in Steps : To(w, pc)
    BY <1>1, <2>1
  <2>2. CASE Retire(w)
    BY <1>6, <2>2 DEF Retire, Steps, Conclusions
  <2>3. CASE GenerationSuperseded(w) \/ Conclude(w) \/ Terminal(w)
    BY <1>6, <2>3 DEF GenerationSuperseded, Conclude, Terminal, Finalize, Steps, Conclusions
  <2>4. CASE Entry(w) /\ ~\E pc \in Steps : To(w, pc)
    BY <1>6, <2>4 DEF Entry, Steps, Conclusions
  <2>5. QED
    BY <1>7, <2>1, <2>2, <2>3, <2>4
<1>8. CASE Begin(w)
  <2>1. CASE proc' = [proc EXCEPT ![w].pc = "getCheck", ![w].conclusion = "cancelled",
                                  ![w].next = "supersede"]
    BY <1>6, <2>1 DEF Steps, Conclusions
  <2>2. CASE \E g \in BOOLEAN, pc \in {"persistSkip", "ensure"} :
               proc' = [proc EXCEPT ![w].gen = g, ![w].pc = pc]
    <3>1. PICK g \in BOOLEAN, pc \in {"persistSkip", "ensure"} :
               proc' = [proc EXCEPT ![w].gen = g, ![w].pc = pc]
      BY <2>2
    <3>2. [p EXCEPT !.gen = g, !.pc = pc] \in Process
      BY <1>0 DEF Process, Steps
    <3>3. proc' = [proc EXCEPT ![w] = [p EXCEPT !.gen = g, !.pc = pc]]
      BY <1>0, <3>1
    <3>4. QED
      BY <3>2, <3>3 DEF Moves
  <2>3. CASE run'.status # "superseded"
    <3>1. PICK eligible \in BOOLEAN :
              proc' = [proc EXCEPT
                         ![w].gen = run'.status = "generating" /\ eligible,
                         ![w].pc = IF run'.status = "generating" /\ ~eligible
                                   THEN "persistSkip" ELSE "ensure"]
      BY <1>8, <2>3 DEF Begin
    <3>2. /\ (run'.status = "generating" /\ eligible) \in BOOLEAN
          /\ (IF run'.status = "generating" /\ ~eligible THEN "persistSkip" ELSE "ensure")
               \in {"persistSkip", "ensure"}
      OBVIOUS
    <3>3. QED
      BY <2>2, <3>1, <3>2
  <2>4. QED
    BY <1>8, <2>1, <2>3 DEF Begin
<1>9. ASSUME NEW pc \in Steps, NEW h \in Handle,
             proc' = [proc EXCEPT ![w].pc = pc, ![w].handle = h]
      PROVE  \E q : Moves(w, q)
  <2>1. [p EXCEPT !.pc = pc, !.handle = h] \in Process
    BY <1>0 DEF Process
  <2>2. proc' = [proc EXCEPT ![w] = [p EXCEPT !.pc = pc, !.handle = h]]
    BY <1>0, <1>9
  <2>3. QED
    BY <2>1, <2>2 DEF Moves
<1>10. CASE EnsureFind(w) \/ EnsurePost(w) \/ CompleteFind(w)
  <2>1. CASE \E pc \in Steps : To(w, pc)
    BY <1>1, <2>1
  <2>2. CASE \E pc \in Steps, ext \in Nat : proc' = [proc EXCEPT ![w].pc = pc, ![w].handle.ext = ext]
    <3>1. PICK pc \in Steps, ext \in Nat : proc' = [proc EXCEPT ![w].pc = pc, ![w].handle.ext = ext]
      BY <2>2
    <3>2. [p.handle EXCEPT !.ext = ext] \in Handle
      BY <1>0 DEF Handle
    <3>3. proc' = [proc EXCEPT ![w].pc = pc, ![w].handle = [p.handle EXCEPT !.ext = ext]]
      BY <1>0, <3>1 DEF Process
    <3>4. QED
      BY <1>9, <3>2, <3>3
  <2>3. Found \subseteq Nat /\ Len(github.checks) + 1 \in Nat
    <3>1. github.checks \in Seq(Conclusions \cup {"in_progress"})
      BY DEF Typed, GitHub
    <3>2. QED
      BY <3>1 DEF Found
  <2>4. QED
    BY <1>10, <2>1, <2>2, <2>3 DEF EnsureFind, EnsurePost, CompleteFind, Steps
<1>11. \A c \in CheckRow : HandleOf(c) \in Handle
  BY DEF HandleOf, CheckRow, Handle, NoHandle, NoCheck
<1>12. CASE Ensure(w)
  <2>1. CASE To(w, AfterCheck(w))
    BY <1>1, <2>1 DEF AfterCheck, Steps
  <2>2. check' \in CheckRow
    BY <1>0, <1>12 DEF Ensure, CheckRow
  <2>3. CASE \E pc \in Steps : proc' = [proc EXCEPT ![w].handle = HandleOf(check'), ![w].pc = pc]
    <3>1. PICK pc \in Steps : proc' = [proc EXCEPT ![w].handle = HandleOf(check'), ![w].pc = pc]
      BY <2>3
    <3>2. proc' = [proc EXCEPT ![w].pc = pc, ![w].handle = HandleOf(check')]
      BY <1>0, <3>1
    <3>3. QED
      BY <1>9, <1>11, <2>2, <3>2
  <2>4. (CASE check.status = "completed" -> "afterEnsure"
           [] check.status # "completed" /\ check.ext = NoCheck -> "ensureFind"
           [] OTHER -> "ensureStarted") \in Steps
    BY DEF Steps
  <2>5. QED
    BY <1>12, <2>1, <2>3, <2>4 DEF Ensure
<1>13. CASE GetCheck(w)
  <2>1. (IF run.job = p.job THEN HandleOf(check) ELSE NoHandle) \in Handle
    BY <1>0, <1>11 DEF Handle, NoHandle, NoCheck
  <2>2. QED
    BY <1>9, <1>13, <2>1 DEF GetCheck, Steps
<1>14. CASE Load(w)
  <2>1. CASE \E b \in BOOLEAN : proc' = [proc EXCEPT ![w].pc = "beforePublish", ![w].pub = b]
    <3>1. PICK b \in BOOLEAN : proc' = [proc EXCEPT ![w].pc = "beforePublish", ![w].pub = b]
      BY <2>1
    <3>2. [p EXCEPT !.pc = "beforePublish", !.pub = b] \in Process
      BY <1>0 DEF Process, Steps
    <3>3. proc' = [proc EXCEPT ![w] = [p EXCEPT !.pc = "beforePublish", !.pub = b]]
      BY <1>0, <3>1
    <3>4. QED
      BY <3>2, <3>3 DEF Moves
  <2>2. (run.status # "skipped") \in BOOLEAN
    OBVIOUS
  <2>3. QED
    BY <1>1, <1>14, <2>1, <2>2 DEF Load, Steps
<1>15. CASE \/ PersistSkip(w) \/ EnsureStarted(w) \/ EnsureFailed(w) \/ AfterEnsure(w)
            \/ Generate(w) \/ GenerationFailed(w) \/ Persist(w) \/ CheckFailed(w)
            \/ BeforePublish(w) \/ BeginPublication(w) \/ PublishFind(w) \/ PublishPost(w)
            \/ PublishFailed(w) \/ MarkPublished(w) \/ Threads(w) \/ Final(w)
  <2>1. \E pc \in Steps : To(w, pc)
    BY <1>15
    DEF PersistSkip, EnsureStarted, EnsureFailed, AfterEnsure, AfterCheck, Generate,
        GenerationFailed, Persist, CheckFailed, BeforePublish, BeginPublication, PublishFind,
        PublishPost, PublishFailed, MarkPublished, Threads, Final, Steps
  <2>2. QED
    BY <1>1, <2>1
<1>16. CASE \/ BeginCompletion(w) \/ Exhausted(w) \/ CompleteStarted(w) \/ Completing(w)
            \/ Patch(w) \/ MarkCompleted(w) \/ Unfinished(w)
  <2>1. Return(w) \/ Raise(w) \/ \E pc \in Steps : To(w, pc)
    BY <1>16
    DEF BeginCompletion, Exhausted, CompleteStarted, Completing, Patch, MarkCompleted,
        Unfinished, Steps
  <2>2. QED
    BY <1>1, <1>3, <2>1
<1>17. CASE Supersede(w) \/ CompleteJob(w) \/ Fail(w) \/ Crash(w)
  <2>1. Rest(w) \/ \E pc \in Steps : To(w, pc)
    BY <1>17 DEF Supersede, CompleteJob, Fail, Crash, Steps
  <2>2. QED
    BY <1>1, <1>2, <2>1
<1>18. QED
  BY <1>4, <1>5, <1>7, <1>8, <1>10, <1>12, <1>13, <1>14, <1>15, <1>16, <1>17 DEF Work

\* The rows of the review and what GitHub holds.
LEMMA RowsTyped ==
    ASSUME Typed, NEW w \in Workers, Work(w) \/ Crash(w)
    PROVE  /\ run' \in RunRow /\ pub' \in {"none", "publishing", "published", "failed"}
           /\ check' \in CheckRow /\ github' \in GitHub
           /\ wanted' = wanted /\ crashes' \in 0..MaxCrashes
<1> DEFINE p == proc[w]
<1>0. /\ p \in Process /\ p.handle \in Handle /\ p.job \in Jobs \cup {0} /\ p.handle.ext \in Nat
      /\ p.conclusion \in Conclusions
      /\ run \in RunRow /\ check \in CheckRow /\ github \in GitHub
      /\ github.checks \in Seq(Conclusions \cup {"in_progress"}) /\ github.reviews \in Nat
      /\ crashes \in 0..MaxCrashes
      /\ pub \in {"none", "publishing", "published", "failed"}
  BY DEF Typed, Process, Handle, GitHub
<1>1. \A to \in {"skipped", "superseded", "failed", "ready", "publishing", "published"} :
        [run EXCEPT !.status = to] \in RunRow
  BY <1>0 DEF RunRow, Unpublished
<1>2. \A c \in {"publication_failed", "exhausted"} : CheckFailedWith(c) \in CheckRow
  BY <1>0 DEF CheckFailedWith, CheckRow
<1>3. Started(p.handle.ext) \in CheckRow
  BY <1>0 DEF Started, CheckRow
<1>4. CASE \/ Claim(w) \/ Entry(w) \/ EnsureFind(w) \/ AfterEnsure(w) \/ Generate(w) \/ Load(w)
           \/ BeforePublish(w) \/ PublishFind(w) \/ Threads(w) \/ Conclude(w) \/ GetCheck(w)
           \/ CompleteFind(w) \/ Final(w) \/ Supersede(w) \/ CompleteJob(w) \/ Fail(w) \/ Crash(w)
  <2>1. UNCHANGED <<wanted, run, pub, check, github>>
    BY <1>4
    DEF Crash, Claim, Entry, EnsureFind, AfterEnsure, Generate, Load, BeforePublish, PublishFind,
        Threads, Conclude, GetCheck, CompleteFind, Final, Supersede, CompleteJob, Fail, rows
  <2>2. crashes' = crashes \/ (crashes < MaxCrashes /\ crashes' = crashes + 1)
    BY <1>4
    DEF Crash, Claim, Entry, EnsureFind, AfterEnsure, Generate, Load, BeforePublish, PublishFind,
        Threads, Conclude, GetCheck, CompleteFind, Final, Supersede, CompleteJob, Fail
  <2>3. QED
    BY <1>0, <2>1, <2>2, ExecutionAssumption
<1>5. CASE \/ Begin(w) \/ PersistSkip(w) \/ GenerationSuperseded(w) \/ GenerationFailed(w)
           \/ Persist(w) \/ Retire(w) \/ BeginPublication(w) \/ PublishFailed(w)
           \/ MarkPublished(w) \/ Terminal(w) \/ FinalizeStranded(w)
  <2>1. /\ UNCHANGED <<wanted, check, github, crashes>>
        /\ pub' \in {"failed", "publishing", "published", pub}
    BY <1>5
    DEF Begin, PersistSkip, GenerationSuperseded, GenerationFailed, Persist, Retire,
        BeginPublication, PublishFailed, MarkPublished, Terminal, FinalizeStranded
  <2>2. CASE Begin(w)
    <3>1. BeginReviewRun(p.job) \in RunRow
      BY <1>0 DEF BeginReviewRun, RunRow, Unpublished
    <3>2. QED
      BY <1>0, <2>1, <2>2, <3>1 DEF Begin
  <2>3. CASE ~Begin(w)
    <3>1. \/ run' = run
          \/ \E to \in {"skipped", "superseded", "failed", "ready", "publishing", "published"} :
               run' = [run EXCEPT !.status = to]
      BY <1>5, <2>3
      DEF PersistSkip, GenerationSuperseded, GenerationFailed, Persist, Retire, BeginPublication,
          PublishFailed, MarkPublished, Terminal, FinalizeStranded, MarkReviewTerminalFailed, RunIf
    <3>2. QED
      BY <1>0, <1>1, <2>1, <3>1
  <2>4. QED
    BY <2>2, <2>3
<1>6. CASE \/ Ensure(w) \/ EnsureStarted(w) \/ EnsureFailed(w) \/ CheckFailed(w)
           \/ BeginCompletion(w) \/ Exhausted(w) \/ CompleteStarted(w) \/ Completing(w)
           \/ MarkCompleted(w) \/ Unfinished(w)
  <2>1. check' \in CheckRow
    <3>1. CASE Ensure(w)
      BY <1>0, <3>1 DEF Ensure, CheckRow
    <3>2. CASE EnsureStarted(w) \/ CompleteStarted(w)
      BY <1>0, <1>3, <3>2 DEF EnsureStarted, CompleteStarted
    <3>3. CASE EnsureFailed(w) \/ CheckFailed(w) \/ Exhausted(w) \/ Unfinished(w)
      BY <1>0, <1>2, <3>3 DEF EnsureFailed, CheckFailed, Exhausted, Unfinished
    <3>4. CASE BeginCompletion(w)
      <4>1. [check EXCEPT !.attempts = check.attempts + 1] \in CheckRow
        BY <1>0 DEF CheckRow
      <4>2. QED
        BY <1>0, <3>4, <4>1 DEF BeginCompletion
    <3>5. CASE Completing(w) \/ MarkCompleted(w)
      BY <1>0, <3>5 DEF Completing, MarkCompleted, CheckRow
    <3>6. QED
      BY <1>6, <3>1, <3>2, <3>3, <3>4, <3>5
  <2>2. UNCHANGED <<wanted, run, pub, github, crashes>>
    BY <1>6
    DEF Ensure, EnsureStarted, EnsureFailed, CheckFailed, BeginCompletion, Exhausted,
        CompleteStarted, Completing, MarkCompleted, Unfinished
  <2>3. QED
    BY <1>0, <2>1, <2>2
<1>7. CASE EnsurePost(w) \/ PublishPost(w) \/ Patch(w)
  <2>1. github' \in GitHub
    <3>1. Append(github.checks, "in_progress") \in Seq(Conclusions \cup {"in_progress"})
      BY <1>0
    <3>2. [github.checks EXCEPT ![p.handle.ext] = p.conclusion] \in Seq(Conclusions \cup {"in_progress"})
      <4>1. CASE p.handle.ext \in 1..Len(github.checks)
        BY <1>0, <4>1, ExceptSeq
      <4>2. CASE p.handle.ext \notin 1..Len(github.checks)
        <5>1. [github.checks EXCEPT ![p.handle.ext] = p.conclusion] = github.checks
          BY <1>0, <4>2
        <5>2. QED
          BY <1>0, <5>1
      <4>3. QED
        BY <4>1, <4>2
    <3>3. PostCheck \in GitHub
      BY <1>0, <3>1 DEF PostCheck, GitHub
    <3>4. PatchCheck(p.handle.ext, p.conclusion) \in GitHub
      BY <1>0, <3>2 DEF PatchCheck, GitHub
    <3>5. PostReview \in GitHub
      BY <1>0 DEF PostReview, GitHub
    <3>6. QED
      BY <1>0, <1>7, <3>3, <3>4, <3>5 DEF EnsurePost, PublishPost, Patch
  <2>2. QED
    BY <1>0, <1>7, <2>1 DEF EnsurePost, PublishPost, Patch, rows
<1>8. QED
  BY <1>4, <1>5, <1>6, <1>7 DEF Work

\* What becomes of jobs.
LEMMA FreedRow ==
    ASSUME NEW row \in JobRow,
           NEW status \in Active \cup TERMINAL_JOB_STATUSES \cup {"succeeded", "superseded"}
    PROVE  /\ Freed(row, status) \in JobRow /\ Freed(row, status).status = status
           /\ Freed(row, status).attempt = row.attempt /\ Freed(row, status).owner = Nobody
BY DEF Freed, JobRow

LEMMA SweptRows ==
    ASSUME Typed
    PROVE  /\ Swept \in [Jobs -> JobRow]
           /\ \A j \in Jobs :
                /\ Swept[j].status \in {"absent", "queued"} => Swept[j].attempt < MaxAttempts
                /\ \/ Swept[j] = jobs[j]
                   \/ /\ jobs[j].status = "running" /\ ~jobs[j].live
                      /\ Swept[j].status \in {"queued", "dead"} /\ Swept[j].owner = Nobody
<1> DEFINE to(j) == IF jobs[j].attempt >= MaxAttempts THEN "dead" ELSE "queued"
           row(j) == IF jobs[j].status = "running" /\ ~jobs[j].live
                     THEN Freed(jobs[j], to(j)) ELSE jobs[j]
<1>1. Swept = [j \in Jobs |-> row(j)]
  BY Zenon DEF Swept
<1>2. ASSUME NEW j \in Jobs
      PROVE  /\ row(j) \in JobRow
             /\ row(j).status \in {"absent", "queued"} => row(j).attempt < MaxAttempts
             /\ \/ row(j) = jobs[j]
                \/ /\ jobs[j].status = "running" /\ ~jobs[j].live
                   /\ row(j).status \in {"queued", "dead"} /\ row(j).owner = Nobody
  <2>0. /\ jobs[j] \in JobRow /\ jobs[j].attempt \in 0..MaxAttempts
        /\ jobs[j].status \in {"absent", "queued"} => jobs[j].attempt < MaxAttempts
    BY DEF Typed, JobRow
  <2>1. CASE jobs[j].status = "running" /\ ~jobs[j].live
    <3>1. row(j) = Freed(jobs[j], to(j)) /\ to(j) \in {"queued", "dead"}
      BY <2>1
    <3>2. /\ row(j) \in JobRow /\ row(j).status = to(j)
          /\ row(j).attempt = jobs[j].attempt /\ row(j).owner = Nobody
      BY <2>0, <3>1, FreedRow DEF Active, TERMINAL_JOB_STATUSES
    <3>3. to(j) = "queued" => jobs[j].attempt < MaxAttempts
      BY <2>0, ExecutionAssumption
    <3>4. QED
      BY <2>1, <3>1, <3>2, <3>3
  <2>2. CASE ~(jobs[j].status = "running" /\ ~jobs[j].live)
    BY <2>0, <2>2
  <2>3. QED
    BY <2>1, <2>2
<1> HIDE DEF row
<1>3. QED
  BY <1>1, <1>2

\* A job's row is replaced by one that its worker, or nobody, runs.
LEMMA ClaimedRow ==
    ASSUME Typed, NEW w \in Workers, NEW j \in Jobs, Swept[j].status = "queued"
    PROVE  [status |-> "running", attempt |-> Swept[j].attempt + 1, owner |-> w, live |-> TRUE]
             \in JobRow
<1>1. Swept[j].attempt \in 0..MaxAttempts /\ Swept[j].attempt < MaxAttempts
  BY SweptRows DEF JobRow
<1>2. Swept[j].attempt + 1 \in 0..MaxAttempts
  BY <1>1, ExecutionAssumption
<1>3. QED
  BY <1>2 DEF JobRow, Active

LEMMA JobsTyped ==
    ASSUME Typed, Next,
           \A w \in Workers : Supersede(w) \/ CompleteJob(w) \/ Fail(w) =>
                                jobs' = jobs \/ proc[w].job \in Jobs
    PROVE  /\ jobs' \in [Jobs -> JobRow]
           /\ \A j \in Jobs : jobs'[j].status \in {"absent", "queued"} => jobs'[j].attempt < MaxAttempts
<1>0. /\ jobs \in [Jobs -> JobRow]
      /\ \A j \in Jobs : jobs[j].status \in {"absent", "queued"} => jobs[j].attempt < MaxAttempts
  BY DEF Typed
<1>1. ASSUME UNCHANGED jobs
      PROVE  /\ jobs' \in [Jobs -> JobRow]
             /\ \A j \in Jobs : jobs'[j].status \in {"absent", "queued"} => jobs'[j].attempt < MaxAttempts
  BY <1>0, <1>1
<1>2. ASSUME NEW j \in Jobs, NEW row \in JobRow, jobs' = [jobs EXCEPT ![j] = row],
             row.status \in {"absent", "queued"} => row.attempt < MaxAttempts
      PROVE  /\ jobs' \in [Jobs -> JobRow]
             /\ \A i \in Jobs : jobs'[i].status \in {"absent", "queued"} => jobs'[i].attempt < MaxAttempts
  BY <1>0, <1>2
<1>3. ASSUME NEW w \in Workers, Work(w) \/ Crash(w)
      PROVE  /\ jobs' \in [Jobs -> JobRow]
             /\ \A j \in Jobs : jobs'[j].status \in {"absent", "queued"} => jobs'[j].attempt < MaxAttempts
  <2>1. CASE Claim(w)
    <3>1. CASE jobs' = Swept
      BY <3>1, SweptRows
    <3>2. CASE \E j \in Jobs : /\ Swept[j].status = "queued"
                               /\ jobs' = [Swept EXCEPT ![j] =
                                             [status |-> "running", attempt |-> Swept[j].attempt + 1,
                                              owner |-> w, live |-> TRUE]]
      <4>1. PICK j \in Jobs : /\ Swept[j].status = "queued"
                              /\ jobs' = [Swept EXCEPT ![j] =
                                             [status |-> "running", attempt |-> Swept[j].attempt + 1,
                                              owner |-> w, live |-> TRUE]]
        BY <3>2
      <4> DEFINE row == [status |-> "running", attempt |-> Swept[j].attempt + 1,
                         owner |-> w, live |-> TRUE]
      <4>2. row \in JobRow /\ row.status = "running"
        BY <4>1, ClaimedRow
      <4> HIDE DEF row
      <4>3. jobs' = [Swept EXCEPT ![j] = row]
        BY <4>1 DEF row
      <4>4. QED
        BY <4>2, <4>3, SweptRows
    <3>3. QED
      BY <2>1, <3>1, <3>2 DEF Claim
  <2>2. CASE (Supersede(w) \/ CompleteJob(w) \/ Fail(w)) /\ jobs' # jobs
    <3> DEFINE j == proc[w].job
    <3>1. j \in Jobs /\ jobs[j] \in JobRow
      BY <1>0, <2>2
    <3>2. PICK status \in {"superseded", "succeeded", "queued", "dead", "failed"} :
            /\ jobs' = [jobs EXCEPT ![j] = Freed(jobs[j], status)]
            /\ status = "queued" => jobs[j].attempt < MaxAttempts
      BY <2>2 DEF Supersede, CompleteJob, Fail, TERMINAL_JOB_STATUSES
    <3>3. /\ Freed(jobs[j], status) \in JobRow /\ Freed(jobs[j], status).status = status
          /\ Freed(jobs[j], status).attempt = jobs[j].attempt
      BY <3>1, FreedRow DEF Active, TERMINAL_JOB_STATUSES
    <3>4. QED
      BY <1>2, <3>1, <3>2, <3>3
  <2>3. CASE UNCHANGED jobs
    BY <1>1, <2>3
  <2>4. QED
    BY <1>3, <2>1, <2>2, <2>3
    DEF Work, Crash, FinalizeStranded, Entry, Begin, PersistSkip, Ensure, EnsureFind, EnsurePost,
        EnsureStarted, EnsureFailed, AfterEnsure, Generate, GenerationSuperseded, GenerationFailed,
        Persist, CheckFailed, Load, BeforePublish, Retire, BeginPublication, PublishFind,
        PublishPost, PublishFailed, MarkPublished, Threads, Conclude, GetCheck, BeginCompletion,
        Exhausted, CompleteFind, CompleteStarted, Completing, Patch, MarkCompleted, Unfinished,
        Final, Terminal
<1>4. ASSUME NEW j \in Jobs, LeaseExpires(j)
      PROVE  /\ jobs' \in [Jobs -> JobRow]
             /\ \A i \in Jobs : jobs'[i].status \in {"absent", "queued"} => jobs'[i].attempt < MaxAttempts
  <2>1. [jobs[j] EXCEPT !.live = FALSE] \in JobRow
    BY <1>0 DEF JobRow
  <2>2. [jobs[j] EXCEPT !.live = FALSE].status = "running"
    BY <1>0, <1>4 DEF JobRow, LeaseExpires
  <2>3. jobs' = [jobs EXCEPT ![j] = [jobs[j] EXCEPT !.live = FALSE]]
    BY <1>0, <1>4 DEF LeaseExpires
  <2>4. QED
    BY <1>2, <2>1, <2>2, <2>3
<1>5. CASE MoveHead
  <2> DEFINE row(j) == IF jobs[j].status = "queued" THEN Freed(jobs[j], "superseded") ELSE jobs[j]
  <2>1. jobs' = [j \in Jobs |-> row(j)]
    BY <1>5 DEF MoveHead
  <2>2. \A j \in Jobs : /\ row(j) \in JobRow
                        /\ row(j).status \in {"absent", "queued"} => row(j).attempt < MaxAttempts
    <3>1. ASSUME NEW j \in Jobs
          PROVE  Freed(jobs[j], "superseded") \in JobRow /\ Freed(jobs[j], "superseded").status = "superseded"
      BY <1>0, FreedRow
    <3>2. QED
      BY <1>0, <3>1
  <2> HIDE DEF row
  <2>3. \A j \in Jobs : jobs'[j] = row(j)
    BY <2>1
  <2>4. jobs' \in [Jobs -> JobRow]
    BY <2>1, <2>2
  <2>5. QED
    BY <2>2, <2>3, <2>4
<1>6. CASE Enqueue
  <2>1. PICK j \in Jobs : jobs[j].status = "absent" /\ jobs' = [jobs EXCEPT ![j].status = "queued"]
    BY <1>6 DEF Enqueue
  <2>2. [jobs[j] EXCEPT !.status = "queued"] \in JobRow
    BY <1>0 DEF JobRow, Active
  <2>3. [jobs[j] EXCEPT !.status = "queued"].attempt = jobs[j].attempt
    BY <1>0 DEF JobRow
  <2>4. jobs' = [jobs EXCEPT ![j] = [jobs[j] EXCEPT !.status = "queued"]]
    BY <1>0, <2>1
  <2>5. QED
    BY <1>0, <1>2, <2>1, <2>2, <2>3, <2>4
<1>7. QED
  BY <1>3, <1>4, <1>5, <1>6 DEF Next

-----------------------------------------------------------------------------
(* Who works on what.                                                      *)

\* The steps of _complete_native_check, which also runs for a job that is over.
CompletionSteps ==
    {"getCheck", "complete", "exhausted", "completeFind", "completeStarted", "completing",
     "patch", "markCompleted", "unfinished"}

\* In process_review_job, as opposed to finalizing a job that is over.
Working(p) == p.pc \notin {"idle", "terminal"} /\ ~(p.pc \in CompletionSteps /\ p.next = "idle")

\* On its way to supersede its job.
Losing(p) == p.pc \in {"genSuperseded", "retire", "supersede"} \/ p.next = "supersede"

\* One job of the revision runs at a time, and there is a later job only if the
\* earlier ones were given up.
OneRunning == \A i, j \in Jobs : jobs[i].status = "running" /\ jobs[j].status = "running" => i = j
InOrder == \A i, j \in Jobs : i < j /\ jobs[j].status # "absent" =>
                                jobs[i].status \in TERMINAL_JOB_STATUSES

\* What a worker at work knows of the lease it may still have.
Placed(w, p) ==
    /\ Working(p) => p.job \in Jobs /\ \A j \in Jobs : OwnsLease(w, j) => j = p.job
    /\ Working(p) /\ Losing(p) => ~(wanted /\ OwnsLease(w, p.job))
    /\ p.pc = "terminal" => p.job \in Jobs /\ jobs[p.job].status \in TERMINAL_JOB_STATUSES
    /\ ~Stalls /\ Working(p) => OwnsLease(w, p.job)

AtWork == \A w \in Workers : Placed(w, proc[w])

\* Whoever may post has found nothing posted.
Posting(p) ==
    /\ p.pc = "publishPost" => github.reviews = 0
    /\ p.pc = "ensurePost" => Len(github.checks) = 0

JInv == Typed /\ OneRunning /\ InOrder /\ AtWork /\ SupersededRightly

LEMMA ToKeeps ==
    ASSUME Typed, NEW w \in Workers, NEW pc \in Steps, To(w, pc)
    PROVE  /\ proc'[w].pc = pc /\ proc'[w].job = proc[w].job /\ proc'[w].next = proc[w].next
           /\ proc'[w].conclusion = proc[w].conclusion /\ proc'[w].pub = proc[w].pub
           /\ proc'[w].handle = proc[w].handle
BY DEF Typed, To, Process

\* A step that leaves the job table alone: nobody begins to work, and a worker
\* gives its job up only if it saw that it must.
Quiet(w) ==
    LET p == proc[w]  q == proc'[w] IN
    /\ UNCHANGED <<wanted, jobs>>
    /\ q.pc # "terminal"
    /\ Working(q) => Working(p) /\ q.job = p.job
    /\ Working(q) /\ Losing(q) =>
         (Working(p) /\ Losing(p)) \/ ~IsCurrent(w, p.job) \/ run.status = "superseded"

\* To the next step within process_review_job.
LEMMA MovingOnIsQuiet ==
    ASSUME Typed, NEW w \in Workers, NEW pc \in Steps, To(w, pc), UNCHANGED <<wanted, jobs>>,
           Working(proc[w]), pc # "terminal",
           pc \in {"genSuperseded", "retire", "supersede"} =>
             Losing(proc[w]) \/ ~IsCurrent(w, proc[w].job)
    PROVE  Quiet(w)
BY ToKeeps DEF Quiet, Working, Losing

\* Back to the loop, or on with the finalization of a job that is over.
LEMMA NotWorkingIsQuiet ==
    ASSUME Typed, NEW w \in Workers, UNCHANGED <<wanted, jobs>>,
           ~Working(proc'[w]), proc'[w].pc # "terminal"
    PROVE  Quiet(w)
BY DEF Quiet

LEMMA ReturnIsQuiet ==
    ASSUME Typed, NEW w \in Workers, Return(w) \/ Raise(w), UNCHANGED <<wanted, jobs>>,
           proc[w].pc \in CompletionSteps
    PROVE  Quiet(w)
<1>0. proc[w].next \in {"supersede", "final", "idle"} /\ proc \in [Workers -> Process]
  BY DEF Typed, Process
<1>1. CASE proc[w].next = "idle"
  <2>1. proc'[w] = Idle
    BY <1>0, <1>1 DEF Return, Raise, Rest
  <2>2. QED
    BY <2>1, NotWorkingIsQuiet DEF Idle, Working
<1>2. CASE proc[w].next # "idle"
  <2>1. Working(proc[w])
    BY <1>2 DEF Working, CompletionSteps
  <2>2. PICK pc \in {"fail", "supersede", "final"} : To(w, pc) /\ (pc = "supersede" => Losing(proc[w]))
    BY <1>0, <1>2 DEF Return, Raise, Losing
  <2>3. QED
    BY <2>1, <2>2, MovingOnIsQuiet DEF Steps
<1>3. QED
  BY <1>1, <1>2

\* On within _complete_native_check.
LEMMA CompletingIsQuiet ==
    ASSUME Typed, NEW w \in Workers, UNCHANGED <<wanted, jobs>>, proc[w].pc \in CompletionSteps,
           proc'[w].pc \in CompletionSteps, proc'[w].next = proc[w].next,
           proc'[w].job = proc[w].job
    PROVE  Quiet(w)
BY DEF Quiet, Working, Losing, CompletionSteps

LEMMA QuietSteps ==
    ASSUME Typed, NEW w \in Workers, Work(w) \/ Crash(w),
           ~Claim(w), ~Supersede(w), ~CompleteJob(w), ~Fail(w)
    PROVE  Quiet(w)
<1> DEFINE p == proc[w]
<1>0. p \in Process /\ proc \in [Workers -> Process]
  BY DEF Typed
<1>1. CASE \/ PersistSkip(w) \/ EnsureStarted(w) \/ EnsureFailed(w) \/ AfterEnsure(w)
           \/ Generate(w) \/ GenerationFailed(w) \/ Persist(w) \/ CheckFailed(w)
           \/ BeforePublish(w) \/ BeginPublication(w) \/ PublishFind(w) \/ PublishPost(w)
           \/ PublishFailed(w) \/ MarkPublished(w) \/ Threads(w) \/ Final(w)
  <2>1. /\ UNCHANGED <<wanted, jobs>>
        /\ \E pc \in Steps : /\ To(w, pc) /\ pc # "terminal"
                             /\ pc \in {"genSuperseded", "retire", "supersede"} => ~IsCurrent(w, p.job)
    BY <1>1
    DEF PersistSkip, EnsureStarted, EnsureFailed, AfterEnsure, AfterCheck, Generate,
        GenerationFailed, Persist, CheckFailed, BeforePublish, BeginPublication, PublishFind,
        PublishPost, PublishFailed, MarkPublished, Threads, Final, Steps
  <2>2. Working(p)
    BY <1>1
    DEF PersistSkip, EnsureStarted, EnsureFailed, AfterEnsure, Generate, GenerationFailed, Persist,
        CheckFailed, BeforePublish, BeginPublication, PublishFind, PublishPost, PublishFailed,
        MarkPublished, Threads, Final, At, Working, CompletionSteps
  <2>3. QED
    BY <2>1, <2>2, MovingOnIsQuiet
<1>2. CASE Ensure(w) \/ EnsureFind(w) \/ EnsurePost(w) \/ Load(w)
  <2>1. /\ UNCHANGED <<wanted, jobs>> /\ Working(p)
    BY <1>2 DEF Ensure, EnsureFind, EnsurePost, Load, At, Working, CompletionSteps
  <2>2. /\ proc'[w].pc \in {"afterEnsure", "ensureFind", "ensureStarted", "generate", "load",
                            "ensurePost", "ensureFailed", "beforePublish", "checkFailed"}
        /\ proc'[w].next = p.next /\ proc'[w].job = p.job
    <3>1. CASE \E pc \in {"generate", "load", "ensurePost", "ensureFailed", "checkFailed"} : To(w, pc)
      BY <3>1, ToKeeps DEF Steps
    <3>2. ASSUME NEW h, NEW pc \in {"afterEnsure", "ensureFind", "ensureStarted"},
                 proc' = [proc EXCEPT ![w].handle = h, ![w].pc = pc]
          PROVE  proc'[w].pc = pc /\ proc'[w].next = p.next /\ proc'[w].job = p.job
      BY <1>0, <3>2 DEF Process
    <3>3. CASE Ensure(w)
      BY <1>0, <3>1, <3>2, <3>3 DEF Ensure, AfterCheck
    <3>4. CASE EnsureFind(w) \/ EnsurePost(w)
      BY <1>0, <3>1, <3>4 DEF EnsureFind, EnsurePost, Process
    <3>5. CASE Load(w)
      BY <1>0, <3>1, <3>5 DEF Load, Process
    <3>6. QED
      BY <1>2, <3>3, <3>4, <3>5
  <2>3. QED
    BY <2>1, <2>2 DEF Quiet, Working, Losing
<1>3. CASE GenerationSuperseded(w) \/ Retire(w)
  <2>1. /\ UNCHANGED <<wanted, jobs>> /\ Working(p) /\ Losing(p)
    BY <1>3 DEF GenerationSuperseded, Retire, At, Working, Losing, CompletionSteps
  <2>2. proc'[w].pc \in {"complete", "supersede"} /\ proc'[w].job = p.job
    BY <1>0, <1>3 DEF GenerationSuperseded, Retire, Process
  <2>3. QED
    BY <2>1, <2>2 DEF Quiet
<1>4. CASE Entry(w)
  <2>1. CASE To(w, "begin") \/ To(w, "fail")
    <3>1. PICK pc \in {"begin", "fail"} : To(w, pc)
      BY <2>1
    <3>2. UNCHANGED <<wanted, jobs>> /\ Working(p)
      BY <1>4 DEF Entry, At, Working, CompletionSteps
    <3>3. QED
      BY <3>1, <3>2, MovingOnIsQuiet DEF Steps
  <2>2. CASE /\ ~IsCurrent(w, p.job)
             /\ proc' = [proc EXCEPT ![w].pc = "getCheck", ![w].conclusion = "cancelled",
                                     ![w].next = "supersede"]
    <3>1. proc'[w].pc = "getCheck" /\ proc'[w].job = p.job
      BY <1>0, <2>2 DEF Process
    <3>2. UNCHANGED <<wanted, jobs>> /\ Working(p)
      BY <1>4 DEF Entry, At, Working, CompletionSteps
    <3>3. QED
      BY <2>2, <3>1, <3>2 DEF Quiet
  <2>3. QED
    BY <1>4, <2>1, <2>2 DEF Entry
<1>5. CASE Begin(w)
  <2>1. UNCHANGED <<wanted, jobs>> /\ Working(p)
    BY <1>5 DEF Begin, At, Working, CompletionSteps
  <2>2. CASE run'.status = "superseded"
    <3>1. run.status = "superseded"
      BY <1>5, <2>2 DEF Begin, BeginReviewRun
    <3>2. proc'[w].pc = "getCheck" /\ proc'[w].job = p.job
      BY <1>0, <1>5, <2>2 DEF Begin, Process
    <3>3. QED
      BY <2>1, <3>1, <3>2 DEF Quiet
  <2>3. CASE run'.status # "superseded"
    <3>1. /\ proc'[w].pc \in {"persistSkip", "ensure"}
          /\ proc'[w].next = p.next /\ proc'[w].job = p.job
      <4>1. PICK g \in BOOLEAN, pc \in {"persistSkip", "ensure"} :
              proc' = [proc EXCEPT ![w].gen = g, ![w].pc = pc]
        <5>1. PICK eligible \in BOOLEAN :
                proc' = [proc EXCEPT
                           ![w].gen = run'.status = "generating" /\ eligible,
                           ![w].pc = IF run'.status = "generating" /\ ~eligible
                                     THEN "persistSkip" ELSE "ensure"]
          BY <1>5, <2>3 DEF Begin
        <5>2. /\ (run'.status = "generating" /\ eligible) \in BOOLEAN
              /\ (IF run'.status = "generating" /\ ~eligible THEN "persistSkip" ELSE "ensure")
                   \in {"persistSkip", "ensure"}
          OBVIOUS
        <5>3. QED
          BY <5>1, <5>2
      <4>2. QED
        BY <1>0, <4>1 DEF Process
    <3>2. QED
      BY <2>1, <3>1 DEF Quiet, Working, Losing
  <2>4. QED
    BY <2>2, <2>3
<1>6. CASE Conclude(w)
  <2>1. UNCHANGED <<wanted, jobs>> /\ Working(p)
    BY <1>6 DEF Conclude, At, Working, CompletionSteps
  <2>2. proc'[w].pc = "complete" /\ proc'[w].next = "final" /\ proc'[w].job = p.job
    BY <1>0, <1>6 DEF Conclude, Process
  <2>3. QED
    BY <2>1, <2>2 DEF Quiet, Losing
<1>7. CASE Terminal(w) \/ FinalizeStranded(w) \/ Crash(w)
  <2>1. UNCHANGED <<wanted, jobs>>
    BY <1>7 DEF Terminal, FinalizeStranded, Crash
  <2>2. proc'[w].pc \in {"getCheck", "idle"} /\ proc'[w].next = "idle"
    <3>1. CASE Terminal(w)
      BY <1>0, <3>1 DEF Terminal, Finalize, Process
    <3>2. CASE FinalizeStranded(w)
      BY <1>0, <3>2 DEF FinalizeStranded, Idle
    <3>3. CASE Crash(w)
      BY <1>0, <3>3 DEF Crash, Rest, Idle
    <3>4. QED
      BY <1>7, <3>1, <3>2, <3>3
  <2>3. QED
    BY <2>1, <2>2, NotWorkingIsQuiet DEF Working, CompletionSteps
<1>8. CASE \/ GetCheck(w) \/ BeginCompletion(w) \/ Exhausted(w) \/ CompleteFind(w)
           \/ CompleteStarted(w) \/ Completing(w) \/ Patch(w) \/ MarkCompleted(w) \/ Unfinished(w)
  <2>1. UNCHANGED <<wanted, jobs>> /\ p.pc \in CompletionSteps
    BY <1>8
    DEF GetCheck, BeginCompletion, Exhausted, CompleteFind, CompleteStarted, Completing, Patch,
        MarkCompleted, Unfinished, At, CompletionSteps
  <2>2. CASE Return(w) \/ Raise(w)
    BY <2>1, <2>2, ReturnIsQuiet
  <2>3. CASE \E pc \in CompletionSteps : To(w, pc)
    <3>1. CompletionSteps \subseteq Steps
      BY DEF CompletionSteps, Steps
    <3>2. QED
      BY <2>1, <2>3, <3>1, ToKeeps, CompletingIsQuiet
  <2>4. CASE GetCheck(w) \/ CompleteFind(w)
    <3>1. CASE \E pc \in CompletionSteps : To(w, pc)
      BY <2>3, <3>1
    <3>2. CASE ~\E pc \in CompletionSteps : To(w, pc)
      <4>1. /\ proc'[w].pc \in CompletionSteps /\ proc'[w].next = p.next
            /\ proc'[w].job = p.job
        BY <1>0, <2>4, <3>2 DEF GetCheck, CompleteFind, CompletionSteps, Process
      <4>2. QED
        BY <2>1, <4>1, CompletingIsQuiet
    <3>3. QED
      BY <3>1, <3>2
  <2>5. QED
    BY <1>8, <2>2, <2>3, <2>4
    DEF BeginCompletion, Exhausted, CompleteStarted, Completing, Patch, MarkCompleted, Unfinished,
        CompletionSteps
<1>9. QED
  BY <1>1, <1>2, <1>3, <1>4, <1>5, <1>6, <1>7, <1>8 DEF Work

\* What a worker may do to the review run: one that is published, or was
\* skipped on purpose, stays so, and it is retired by a worker that owns it.
Settled == run.status \in {"published", "skipped"}

RunStep(w) ==
    /\ Settled => Settled'
    /\ run'.status = "superseded" =>
         \/ run.status = "superseded"
         \/ (At(w, "genSuperseded") \/ At(w, "retire")) /\ OwnsRun(w)

LEMMA RunSteps ==
    ASSUME Typed, NEW w \in Workers, Work(w) \/ Crash(w)
    PROVE  RunStep(w)
<1>0. run \in RunRow
  BY DEF Typed
<1>1. ASSUME NEW S \in SUBSET {"generating", "ready", "publishing"},
             NEW to \in {"skipped", "superseded", "failed", "ready", "publishing"},
             run' = RunIf(S, to),
             to = "superseded" => (At(w, "genSuperseded") \/ At(w, "retire")) /\ OwnsRun(w)
      PROVE  RunStep(w)
  BY <1>0, <1>1 DEF RunStep, Settled, RunIf, RunRow
<1>2. CASE UNCHANGED run
  BY <1>2 DEF RunStep, Settled
<1>3. CASE Begin(w)
  BY <1>0, <1>3 DEF Begin, BeginReviewRun, RunStep, Settled
<1>4. CASE MarkPublished(w)
  BY <1>0, <1>4 DEF MarkPublished, RunStep, Settled, RunRow
<1>5. CASE PersistSkip(w) \/ GenerationFailed(w) \/ Persist(w) \/ PublishFailed(w) \/ BeginPublication(w)
  BY <1>1, <1>2, <1>5
  DEF PersistSkip, GenerationFailed, Persist, PublishFailed, BeginPublication
<1>6. CASE GenerationSuperseded(w) \/ Retire(w) \/ Terminal(w) \/ FinalizeStranded(w)
  BY <1>1, <1>2, <1>6
  DEF GenerationSuperseded, Retire, Terminal, FinalizeStranded, MarkReviewTerminalFailed, Unpublished
<1>7. QED
  BY <1>2, <1>3, <1>4, <1>5, <1>6
  DEF Work, Crash, rows, Claim, Entry, Ensure, EnsureFind, EnsurePost, EnsureStarted, EnsureFailed,
      AfterEnsure, Generate, CheckFailed, Load, BeforePublish, PublishFind, PublishPost, Threads,
      Conclude, GetCheck, BeginCompletion, Exhausted, CompleteFind, CompleteStarted, Completing,
      Patch, MarkCompleted, Unfinished, Final, Supersede, CompleteJob, Fail

\* A job that is not current for its worker, though wanted, is not its job.
LEMMA NotCurrentNotOwned ==
    ASSUME JInv, NEW w \in Workers, NEW j \in Jobs, ~IsCurrent(w, j)
    PROVE  ~(wanted /\ OwnsLease(w, j))
<1> SUFFICES ASSUME wanted, OwnsLease(w, j) PROVE FALSE
  OBVIOUS
<1>1. PICK i \in Jobs : i > j /\ jobs[i].status \in Active
  BY DEF IsCurrent
<1>2. j < i /\ jobs[i].status # "absent"
  BY <1>1 DEF Jobs, Active
<1>3. jobs[j].status \in TERMINAL_JOB_STATUSES
  BY <1>2 DEF JInv, InOrder
<1>4. QED
  BY <1>3 DEF OwnsLease, TERMINAL_JOB_STATUSES

LEMMA SupersededRunKeeps ==
    ASSUME JInv, NEW w \in Workers, RunStep(w), wanted' = wanted
    PROVE  SupersededOnlyIfUnwanted'
<1>1. CASE (At(w, "genSuperseded") \/ At(w, "retire")) /\ OwnsRun(w)
  <2>1. Working(proc[w]) /\ Losing(proc[w])
    BY <1>1 DEF At, Working, Losing, CompletionSteps
  <2>2. run.job \in Jobs
    BY <1>1 DEF OwnsRun, JInv, Typed, RunRow
  <2>3. Placed(w, proc[w])
    BY DEF JInv, AtWork
  <2>4. ~wanted
    BY <1>1, <2>1, <2>2, <2>3 DEF Placed, OwnsRun
  <2>5. QED
    BY <2>4 DEF SupersededOnlyIfUnwanted
<1>2. QED
  BY <1>1 DEF RunStep, JInv, SupersededRightly, SupersededOnlyIfUnwanted

JobsInvariant == OneRunning /\ InOrder /\ AtWork /\ SupersededHasSuccessor

LEMMA QuietKeeps ==
    ASSUME JInv, NEW w \in Workers, Quiet(w), \A v \in Workers \ {w} : proc'[v] = proc[v]
    PROVE  JobsInvariant'
<1>1. OneRunning' /\ InOrder' /\ SupersededHasSuccessor'
  BY DEF JInv, Quiet, OneRunning, InOrder, SupersededRightly, SupersededHasSuccessor
<1>2. ASSUME NEW v \in Workers PROVE Placed(v, proc[v])'
  <2>0. Placed(v, proc[v])
    BY DEF JInv, AtWork
  <2>1. CASE v # w
    BY <2>0, <2>1 DEF Placed, Quiet, OwnsLease
  <2>2. CASE v = w
    <3> DEFINE p == proc[w]  q == proc'[w]
    <3>1. Working(q) => /\ q.job \in Jobs /\ \A j \in Jobs : OwnsLease(w, j)' => j = q.job
                        /\ ~Stalls => OwnsLease(w, proc[w].job)'
      BY <2>0, <2>2 DEF Placed, Quiet, OwnsLease
    <3>2. ASSUME Working(q), Losing(q) PROVE ~(wanted' /\ OwnsLease(w, proc[w].job)')
      <4>1. Working(p) /\ q.job = p.job /\ p.job \in Jobs
        BY <2>0, <2>2, <3>2 DEF Quiet, Placed
      <4>2. ~(wanted /\ OwnsLease(w, p.job))
        <5>1. CASE Losing(p)
          BY <2>0, <2>2, <4>1, <5>1 DEF Placed
        <5>2. CASE ~IsCurrent(w, p.job)
          BY <4>1, <5>2, NotCurrentNotOwned
        <5>3. CASE run.status = "superseded"
          BY <5>3 DEF JInv, SupersededRightly, SupersededOnlyIfUnwanted
        <5>4. QED
          BY <3>2, <5>1, <5>2, <5>3 DEF Quiet
      <4>3. QED
        BY <4>1, <4>2 DEF Quiet, OwnsLease
    <3>3. q.pc # "terminal"
      BY DEF Quiet
    <3>4. QED
      BY <2>2, <3>1, <3>2, <3>3 DEF Placed, OwnsLease
  <2>3. QED
    BY <2>1, <2>2
<1>3. QED
  BY <1>1, <1>2 DEF JobsInvariant, AtWork

\* Rows that others rely on stay: a job given up, and one there is not.
JobsFollow ==
    \A j \in Jobs :
      /\ jobs[j].status \in TERMINAL_JOB_STATUSES => jobs'[j].status \in TERMINAL_JOB_STATUSES
      /\ jobs'[j].status # "absent" => jobs[j].status # "absent"

LEMMA OrderKeeps ==
    ASSUME JInv, JobsFollow
    PROVE  InOrder'
BY DEF JInv, InOrder, JobsFollow

LEMMA SweepKeeps ==
    ASSUME JInv, jobs' = Swept, UNCHANGED <<wanted, proc>>
    PROVE  JobsInvariant'
<1>0. \A j \in Jobs : \/ jobs'[j] = jobs[j]
                      \/ /\ jobs[j].status = "running" /\ ~jobs[j].live
                         /\ jobs'[j].status \in {"queued", "dead"}
  BY SweptRows DEF JInv
<1>1. OneRunning' /\ SupersededHasSuccessor'
  BY <1>0 DEF JInv, OneRunning, SupersededRightly, SupersededHasSuccessor
<1>2. InOrder'
  BY <1>0, OrderKeeps DEF JobsFollow, TERMINAL_JOB_STATUSES
<1>3. \A v \in Workers, j \in Jobs : OwnsLease(v, j)' <=> OwnsLease(v, j)
  BY <1>0 DEF OwnsLease
<1>4. \A j \in Jobs : jobs[j].status \in TERMINAL_JOB_STATUSES => jobs'[j].status \in TERMINAL_JOB_STATUSES
  BY <1>0 DEF TERMINAL_JOB_STATUSES
<1>5. ASSUME NEW v \in Workers PROVE Placed(v, proc[v])'
  <2>1. Placed(v, proc[v]) /\ proc'[v] = proc[v]
    BY DEF JInv, AtWork
  <2>2. /\ Working(proc[v]) => proc[v].job \in Jobs
        /\ proc[v].pc = "terminal" => proc[v].job \in Jobs
    BY <2>1 DEF Placed
  <2>3. Working(proc[v]) => (OwnsLease(v, proc[v].job)' <=> OwnsLease(v, proc[v].job))
    BY <1>0, <2>2 DEF OwnsLease
  <2>4. QED
    BY <1>3, <1>4, <2>1, <2>2, <2>3 DEF Placed
<1>6. QED
  BY <1>1, <1>2, <1>5 DEF JobsInvariant, AtWork

\* claim_next_job
LEMMA ClaimKeeps ==
    ASSUME JInv, NEW w \in Workers, Claim(w)
    PROVE  JobsInvariant'
<1>0. /\ Typed /\ UNCHANGED wanted /\ At(w, "idle") /\ proc \in [Workers -> Process]
      /\ Swept \in [Jobs -> JobRow]
      /\ \A j \in Jobs : \/ Swept[j] = jobs[j]
                         \/ /\ jobs[j].status = "running" /\ ~jobs[j].live
                            /\ Swept[j].status \in {"queued", "dead"}
  BY SweptRows DEF JInv, Claim, Typed
<1>1. CASE jobs' = Swept /\ UNCHANGED proc
  BY <1>0, <1>1, SweepKeeps
<1>2. CASE ~(jobs' = Swept /\ UNCHANGED proc)
  <2>1. PICK j \in Jobs :
          /\ Swept[j].status = "queued"
          /\ \A i \in Jobs \ {j} : Swept[i].status # "running"
          /\ jobs' = [Swept EXCEPT ![j] = [status |-> "running", attempt |-> Swept[j].attempt + 1,
                                           owner |-> w, live |-> TRUE]]
          /\ proc' = [proc EXCEPT ![w] = [Idle EXCEPT !.pc = "entry", !.job = j]]
    BY <1>2 DEF Claim
  <2>2. /\ jobs'[j].status = "running" /\ jobs'[j].owner = w /\ jobs'[j].live
        /\ \A i \in Jobs \ {j} : jobs'[i] = Swept[i] /\ jobs'[i].status # "running"
    BY <1>0, <2>1
  <2>3. /\ proc'[w].pc = "entry" /\ proc'[w].job = j /\ proc'[w].next = "idle"
        /\ \A v \in Workers \ {w} : proc'[v] = proc[v]
    BY <1>0, <2>1 DEF Idle
  <2>4. jobs[j].status \notin TERMINAL_JOB_STATUSES \cup {"absent", "superseded"}
    BY <1>0, <2>1 DEF TERMINAL_JOB_STATUSES
  <2>5. OneRunning'
    BY <2>2 DEF OneRunning
  <2>6. JobsFollow
    BY <1>0, <2>2, <2>4 DEF JobsFollow, TERMINAL_JOB_STATUSES
  <2>7. InOrder'
    BY <2>6, OrderKeeps
  <2>8. SupersededHasSuccessor'
    BY <1>0, <2>2 DEF JInv, SupersededRightly, SupersededHasSuccessor
  <2>9. ASSUME NEW v \in Workers PROVE Placed(v, proc[v])'
    <3>1. CASE v = w
      BY <2>2, <2>3, <3>1 DEF Placed, OwnsLease, Losing
    <3>2. CASE v # w
      <4>1. Placed(v, proc[v]) /\ proc'[v] = proc[v]
        BY <2>3, <3>2 DEF JInv, AtWork
      <4>2. \A i \in Jobs : ~OwnsLease(v, i)'
        BY <2>2, <3>2 DEF OwnsLease
      <4>3. \A i \in Jobs : ~OwnsLease(v, i)
        BY <1>0, <2>1, <2>2 DEF OwnsLease
      <4>4. proc[v].pc = "terminal" => jobs'[proc[v].job].status \in TERMINAL_JOB_STATUSES
        BY <2>6, <4>1 DEF Placed, JobsFollow
      <4>5. QED
        BY <4>1, <4>2, <4>3, <4>4 DEF Placed
    <3>3. QED
      BY <3>1, <3>2
  <2>10. QED
    BY <2>5, <2>7, <2>8, <2>9 DEF JobsInvariant, AtWork
<1>3. QED
  BY <1>1, <1>2

\* A worker ends its job: complete_workflow_job, supersede and fail.
LEMMA EndingKeeps ==
    ASSUME JInv, NEW w \in Workers, Supersede(w) \/ CompleteJob(w) \/ Fail(w)
    PROVE  JobsInvariant' /\ proc[w].job \in Jobs
<1> DEFINE j == proc[w].job
<1>0. Placed(w, proc[w]) /\ Working(proc[w]) /\ proc \in [Workers -> Process] /\ jobs \in [Jobs -> JobRow]
  BY DEF JInv, AtWork, Typed, Supersede, CompleteJob, Fail, At, Working, CompletionSteps
<1>1. j \in Jobs
  BY <1>0 DEF Placed
<1>2. CASE jobs' = jobs
  <2>1. Rest(w) \/ To(w, "fail") \/ To(w, "terminal")
    BY DEF Supersede, CompleteJob, Fail
  <2>2. CASE Rest(w)
    <3>1. proc'[w] = Idle /\ \A v \in Workers \ {w} : proc'[v] = proc[v]
      BY <1>0, <2>2 DEF Rest
    <3>2. Quiet(w)
      BY <1>2, <3>1, NotWorkingIsQuiet DEF Idle, Working, JInv, Supersede, CompleteJob, Fail
    <3>3. QED
      BY <1>1, <3>1, <3>2, QuietKeeps
  <2>3. CASE To(w, "fail")
    <3>1. \A v \in Workers \ {w} : proc'[v] = proc[v]
      BY <1>0, <2>3 DEF To
    <3>2. UNCHANGED <<wanted, jobs>>
      BY <1>2 DEF Supersede, CompleteJob, Fail
    <3>3. Quiet(w)
      BY <1>0, <2>3, <3>2, MovingOnIsQuiet DEF JInv, Steps
    <3>4. QED
      BY <1>1, <3>1, <3>3, QuietKeeps
  <2>4. CASE To(w, "terminal")
    <3>1. proc'[w].pc = "terminal"
      BY <2>4, ToKeeps DEF JInv, Steps
    <3>2. OwnsLease(w, j) /\ \E s \in TERMINAL_JOB_STATUSES : jobs' = [jobs EXCEPT ![j] = Freed(jobs[j], s)]
      <4>1. ~Rest(w)
        BY <1>0, <3>1 DEF Rest, Idle
      <4>2. ~To(w, "fail")
        BY <3>1, ToKeeps DEF JInv, Steps
      <4>3. QED
        BY <4>1, <4>2 DEF Supersede, CompleteJob, Fail
    <3>3. jobs'[j].status \in TERMINAL_JOB_STATUSES /\ jobs[j].status = "running"
      BY <1>0, <1>1, <3>2, FreedRow DEF OwnsLease
    <3>4. QED
      BY <1>2, <3>3 DEF TERMINAL_JOB_STATUSES
  <2>5. QED
    BY <2>1, <2>2, <2>3, <2>4
<1>3. CASE jobs' # jobs
  <2>1. PICK status \in {"superseded", "succeeded", "queued", "dead", "failed"} :
          /\ OwnsLease(w, j) /\ jobs' = [jobs EXCEPT ![j] = Freed(jobs[j], status)]
          /\ status = "superseded" => At(w, "supersede")
          /\ Rest(w) \/ (To(w, "terminal") /\ status \in TERMINAL_JOB_STATUSES)
    BY <1>3 DEF Supersede, CompleteJob, Fail, TERMINAL_JOB_STATUSES
  <2>2. /\ jobs'[j].status = status /\ jobs'[j].owner = Nobody
        /\ \A i \in Jobs \ {j} : jobs'[i] = jobs[i]
        /\ jobs[j].status = "running"
    BY <1>0, <1>1, <2>1, FreedRow DEF OwnsLease, Active, TERMINAL_JOB_STATUSES
  <2>3. /\ \A v \in Workers \ {w} : proc'[v] = proc[v]
        /\ \/ proc'[w] = Idle
           \/ /\ proc'[w].pc = "terminal" /\ proc'[w].job = j
              /\ status \in TERMINAL_JOB_STATUSES
    <3>1. CASE Rest(w)
      BY <1>0, <3>1 DEF Rest
    <3>2. CASE To(w, "terminal") /\ status \in TERMINAL_JOB_STATUSES
      <4>1. \A v \in Workers \ {w} : proc'[v] = proc[v]
        BY <1>0, <3>2 DEF To
      <4>2. QED
        BY <3>2, <4>1, ToKeeps DEF JInv, Steps
    <3>3. QED
      BY <2>1, <3>1, <3>2
  <2>4. UNCHANGED wanted
    BY DEF Supersede, CompleteJob, Fail
  <2>5. OneRunning'
    BY <2>2 DEF JInv, OneRunning
  <2>6. JobsFollow
    BY <2>2 DEF JobsFollow, TERMINAL_JOB_STATUSES
  <2>7. InOrder'
    BY <2>6, OrderKeeps
  <2>8. SupersededHasSuccessor'
    <3>1. status = "superseded" => ~wanted
      <4>1. status = "superseded" => Losing(proc[w])
        BY <2>1 DEF At, Losing
      <4>2. QED
        BY <1>0, <2>1, <4>1 DEF Placed
    <3>2. QED
      BY <2>2, <2>4, <3>1 DEF JInv, SupersededRightly, SupersededHasSuccessor
  <2>9. ASSUME NEW v \in Workers PROVE Placed(v, proc[v])'
    <3>1. CASE v = w
      <4>1. ~Working(proc'[w])
        BY <2>3 DEF Working, Idle
      <4>2. proc'[w].pc = "terminal" => proc'[w].job = j /\ jobs'[j].status \in TERMINAL_JOB_STATUSES
        BY <2>2, <2>3 DEF Idle
      <4>3. QED
        BY <1>1, <3>1, <4>1, <4>2 DEF Placed
    <3>2. CASE v # w
      <4>1. Placed(v, proc[v]) /\ proc'[v] = proc[v]
        BY <2>3, <3>2 DEF JInv, AtWork
      <4>2. \A i \in Jobs : OwnsLease(v, i)' <=> OwnsLease(v, i)
        <5>1. jobs[j].owner # v
          BY <2>1, <3>2 DEF OwnsLease
        <5>2. jobs'[j].owner # v
          BY <2>2, ExecutionAssumption DEF Nobody
        <5>3. QED
          BY <2>2, <5>1, <5>2 DEF OwnsLease
      <4>3. Working(proc[v]) => (OwnsLease(v, proc[v].job)' <=> OwnsLease(v, proc[v].job))
        <5>1. Working(proc[v]) => proc[v].job \in Jobs
          BY <4>1 DEF Placed
        <5>2. QED
          BY <4>1, <4>2, <5>1 DEF OwnsLease
      <4>4. proc[v].pc = "terminal" => jobs'[proc[v].job].status \in TERMINAL_JOB_STATUSES
        BY <2>6, <4>1 DEF Placed, JobsFollow
      <4>5. QED
        BY <2>4, <4>1, <4>2, <4>3, <4>4 DEF Placed
    <3>3. QED
      BY <3>1, <3>2
  <2>10. QED
    BY <1>1, <2>5, <2>7, <2>8, <2>9 DEF JobsInvariant, AtWork
<1>4. QED
  BY <1>2, <1>3

\* Time, newer events and repeated ones.
LEMMA OutsideKeeps ==
    ASSUME JInv, (\E j \in Jobs : LeaseExpires(j)) \/ MoveHead \/ Enqueue
    PROVE  JobsInvariant' /\ UNCHANGED <<run, proc>> /\ (wanted' => wanted)
<1>0. /\ jobs \in [Jobs -> JobRow] /\ UNCHANGED <<run, proc>> /\ (wanted' => wanted)
  BY DEF JInv, Typed, LeaseExpires, MoveHead, Enqueue, rows
<1>1. ASSUME NEW v \in Workers, JobsFollow,
             \A i \in Jobs : OwnsLease(v, i)' => OwnsLease(v, i),
             ~Stalls /\ Working(proc[v]) => OwnsLease(v, proc[v].job)'
      PROVE  Placed(v, proc[v])'
  <2>1. Placed(v, proc[v]) /\ proc'[v] = proc[v]
    BY <1>0 DEF JInv, AtWork
  <2>2. Working(proc[v]) => (OwnsLease(v, proc[v].job)' => OwnsLease(v, proc[v].job))
    <3>1. Working(proc[v]) => proc[v].job \in Jobs
      BY <2>1 DEF Placed
    <3>2. QED
      BY <1>1, <2>1, <3>1 DEF OwnsLease
  <2>3. proc[v].pc = "terminal" => jobs'[proc[v].job].status \in TERMINAL_JOB_STATUSES
    BY <1>1, <2>1 DEF Placed, JobsFollow
  <2>4. QED
    BY <1>0, <1>1, <2>1, <2>2, <2>3 DEF Placed
<1>2. ASSUME NEW v \in Workers PROVE /\ Working(proc[v]) => proc[v].job \in Jobs
                                     /\ ~Stalls /\ Working(proc[v]) => OwnsLease(v, proc[v].job)
  BY DEF JInv, AtWork, Placed
<1>3. CASE \E j \in Jobs : LeaseExpires(j)
  <2>1. PICK j \in Jobs : LeaseExpires(j)
    BY <1>3
  <2>2. /\ jobs'[j].status = jobs[j].status /\ jobs'[j].owner = jobs[j].owner /\ ~jobs'[j].live
        /\ \A i \in Jobs \ {j} : jobs'[i] = jobs[i]
    BY <1>0, <2>1 DEF LeaseExpires, JobRow
  <2>3. OneRunning' /\ SupersededHasSuccessor' /\ JobsFollow
    BY <2>1, <2>2
    DEF JInv, OneRunning, SupersededRightly, SupersededHasSuccessor, JobsFollow, LeaseExpires
  <2>4. ASSUME NEW v \in Workers PROVE Placed(v, proc[v])'
    <3>1. \A i \in Jobs : OwnsLease(v, i)' => OwnsLease(v, i)
      BY <2>2 DEF OwnsLease
    <3>2. ~Stalls /\ Working(proc[v]) => OwnsLease(v, proc[v].job)'
      <4>1. ~Stalls /\ Working(proc[v]) => proc[v].job # j
        BY <1>2, <2>1 DEF LeaseExpires, OwnsLease
      <4>2. QED
        BY <1>0, <1>2, <2>2, <4>1 DEF OwnsLease
    <3>3. QED
      BY <1>1, <2>3, <3>1, <3>2
  <2>5. QED
    BY <1>0, <2>3, <2>4, OrderKeeps DEF JobsInvariant, AtWork
<1>4. CASE MoveHead
  <2>1. \A j \in Jobs :
          /\ jobs[j].status # "queued" => jobs'[j] = jobs[j]
          /\ jobs[j].status = "queued" => jobs'[j].status = "superseded"
    <3>1. \A j \in Jobs : jobs'[j] = IF jobs[j].status = "queued" THEN Freed(jobs[j], "superseded")
                                     ELSE jobs[j]
      BY <1>4 DEF MoveHead
    <3>2. \A j \in Jobs : Freed(jobs[j], "superseded").status = "superseded"
      BY <1>0, FreedRow
    <3>3. QED
      BY <3>1, <3>2
  <2>2. ~wanted'
    BY <1>4 DEF MoveHead
  <2>3. OneRunning' /\ SupersededHasSuccessor' /\ JobsFollow
    BY <2>1, <2>2 DEF JInv, OneRunning, SupersededHasSuccessor, JobsFollow, TERMINAL_JOB_STATUSES
  <2>4. \A v \in Workers, i \in Jobs : OwnsLease(v, i)' <=> OwnsLease(v, i)
    BY <2>1 DEF OwnsLease
  <2>5. ASSUME NEW v \in Workers PROVE Placed(v, proc[v])'
    <3>1. ~Stalls /\ Working(proc[v]) => OwnsLease(v, proc[v].job)'
      BY <1>0, <1>2, <2>1 DEF OwnsLease
    <3>2. QED
      BY <1>1, <2>3, <2>4, <3>1
  <2>6. QED
    BY <1>0, <2>3, <2>5, OrderKeeps DEF JobsInvariant, AtWork
<1>5. CASE Enqueue
  <2>1. PICK j \in Jobs :
          /\ jobs[j].status = "absent"
          /\ \A i \in Jobs : i < j => jobs[i].status \in TERMINAL_JOB_STATUSES
          /\ jobs' = [jobs EXCEPT ![j].status = "queued"]
    BY <1>5 DEF Enqueue
  <2>2. jobs'[j].status = "queued" /\ \A i \in Jobs \ {j} : jobs'[i] = jobs[i]
    BY <1>0, <2>1 DEF JobRow
  <2>3. OneRunning' /\ SupersededHasSuccessor'
    BY <1>0, <1>5, <2>2
    DEF JInv, OneRunning, SupersededRightly, SupersededHasSuccessor, Enqueue
  <2>4. InOrder'
    BY <2>1, <2>2 DEF JInv, InOrder, TERMINAL_JOB_STATUSES
  <2>5. ASSUME NEW v \in Workers PROVE Placed(v, proc[v])'
    <3>1. Placed(v, proc[v]) /\ proc'[v] = proc[v]
      BY <1>0 DEF JInv, AtWork
    <3>2. \A i \in Jobs : OwnsLease(v, i)' <=> OwnsLease(v, i)
      BY <2>1, <2>2 DEF OwnsLease
    <3>3. Working(proc[v]) => (OwnsLease(v, proc[v].job)' <=> OwnsLease(v, proc[v].job))
      BY <1>2, <2>1, <2>2, <3>1 DEF OwnsLease
    <3>4. proc[v].pc = "terminal" => jobs'[proc[v].job].status \in TERMINAL_JOB_STATUSES
      BY <2>1, <2>2, <3>1 DEF Placed, TERMINAL_JOB_STATUSES
    <3>5. QED
      BY <1>0, <3>1, <3>2, <3>3, <3>4 DEF Placed
  <2>6. QED
    BY <1>0, <2>3, <2>4, <2>5 DEF JobsInvariant, AtWork
<1>6. QED
  BY <1>3, <1>4, <1>5

LEMMA InitJInv == Init => JInv
<1> SUFFICES ASSUME Init PROVE JInv
  OBVIOUS
<1>1. Typed
  BY InitTyped
<1>2. \A j \in Jobs : jobs[j].status = IF j = 1 THEN "queued" ELSE "absent"
  BY DEF Init
<1>3. OneRunning /\ SupersededRightly
  BY <1>2 DEF OneRunning, SupersededRightly, SupersededHasSuccessor, SupersededOnlyIfUnwanted, Init
<1>4. InOrder
  BY <1>2, ExecutionAssumption DEF InOrder, Jobs
<1>5. AtWork
  BY DEF AtWork, Placed, Working, Idle, Init
<1>6. QED
  BY <1>1, <1>3, <1>4, <1>5 DEF JInv

LEMMA NextJInv ==
    ASSUME JInv, [Next]_vars
    PROVE  JInv'
<1>1. CASE UNCHANGED vars
  BY <1>1
  DEF vars, JInv, Typed, OneRunning, InOrder, AtWork, Placed, OwnsLease, SupersededRightly,
      SupersededOnlyIfUnwanted, SupersededHasSuccessor
<1>2. ASSUME NEW w \in Workers, Work(w) \/ Crash(w)
      PROVE  JInv'
  <2>0. Typed /\ Next
    BY <1>2 DEF JInv, Next
  <2>1. /\ run' \in RunRow /\ pub' \in {"none", "publishing", "published", "failed"}
        /\ check' \in CheckRow /\ github' \in GitHub
        /\ wanted' = wanted /\ crashes' \in 0..MaxCrashes
    BY <1>2, <2>0, RowsTyped
  <2>2. proc' \in [Workers -> Process]
    BY <1>2, <2>0, OwnProcess, ResumesTyped DEF Typed
  <2>3. /\ jobs' \in [Jobs -> JobRow]
        /\ \A j \in Jobs : jobs'[j].status \in {"absent", "queued"} => jobs'[j].attempt < MaxAttempts
    BY <2>0, EndingKeeps, JobsTyped
  <2>4. Typed'
    BY <2>0, <2>1, <2>2, <2>3 DEF Typed
  <2>5. JobsInvariant'
    <3>1. CASE Claim(w)
      BY <3>1, ClaimKeeps
    <3>2. CASE Supersede(w) \/ CompleteJob(w) \/ Fail(w)
      BY <3>2, EndingKeeps
    <3>3. CASE ~Claim(w) /\ ~Supersede(w) /\ ~CompleteJob(w) /\ ~Fail(w)
      <4>1. Quiet(w)
        BY <1>2, <2>0, <3>3, QuietSteps
      <4>2. \A v \in Workers \ {w} : proc'[v] = proc[v]
        BY <1>2, <2>0, OwnProcess DEF Moves, Typed
      <4>3. QED
        BY <4>1, <4>2, QuietKeeps
    <3>4. QED
      BY <3>1, <3>2, <3>3
  <2>6. SupersededOnlyIfUnwanted'
    BY <1>2, <2>0, <2>1, RunSteps, SupersededRunKeeps
  <2>7. QED
    BY <2>4, <2>5, <2>6 DEF JInv, JobsInvariant, SupersededRightly
<1>3. CASE (\E j \in Jobs : LeaseExpires(j)) \/ MoveHead \/ Enqueue
  <2>0. Typed /\ Next
    BY <1>3 DEF JInv, Next
  <2>1. JobsInvariant' /\ UNCHANGED <<run, proc>> /\ (wanted' => wanted)
    BY <1>3, OutsideKeeps
  <2>2. UNCHANGED <<pub, check, github, crashes>> /\ wanted' \in BOOLEAN
    BY <1>3, <2>0 DEF LeaseExpires, MoveHead, Enqueue, rows, Typed
  <2>3. /\ jobs' \in [Jobs -> JobRow]
        /\ \A j \in Jobs : jobs'[j].status \in {"absent", "queued"} => jobs'[j].attempt < MaxAttempts
    BY <2>0, EndingKeeps, JobsTyped
  <2>4. Typed'
    BY <2>0, <2>1, <2>2, <2>3 DEF Typed
  <2>5. SupersededOnlyIfUnwanted'
    BY <2>1 DEF JInv, SupersededRightly, SupersededOnlyIfUnwanted
  <2>6. QED
    BY <2>1, <2>4, <2>5 DEF JInv, JobsInvariant, SupersededRightly
<1>4. QED
  BY <1>1, <1>2, <1>3 DEF Next

\* A job or a run is retired only for a revision that was replaced: a worker
\* that lost its lease, however late it notices, retires nothing
\* (process_review_job, mark_review_superseded).
THEOREM RetiredOnlyIfReplaced == Spec => []SupersededRightly
<1>1. JInv => SupersededRightly
  BY DEF JInv
<1>2. JInv /\ [Next]_vars => JInv'
  BY NextJInv
<1>3. QED
  BY <1>1, <1>2, InitJInv, PTL DEF Spec

\* The rows keep their types, and attempts never exceed their bound.
THEOREM TypesKept == Spec => []TypeOK
<1>1. JInv => TypeOK
  BY TypedImplies DEF JInv
<1>2. JInv /\ [Next]_vars => JInv'
  BY NextJInv
<1>3. QED
  BY <1>1, <1>2, InitJInv, PTL DEF Spec

-----------------------------------------------------------------------------
(* The verdict.                                                            *)

\* A worker about to conclude its check, or to settle what it will say.
Concluding(p) ==
    \/ p.conclusion = "verdict"
    \/ p.pc \in {"threads", "conclude"}
    \/ p.pc = "beforePublish" /\ ~p.pub

VInv ==
    /\ check.conclusion = "verdict" \/ pub = "published" => Settled
    /\ \A w \in Workers : Concluding(proc[w]) => Settled

\* A worker learns that the review is settled from the rows, never by itself.
LEMMA ConcludingSteps ==
    ASSUME Typed, NEW w \in Workers, Work(w) \/ Crash(w)
    PROVE  Concluding(proc'[w]) => Settled' \/ Concluding(proc[w]) \/ pub = "published"
<1> DEFINE p == proc[w]  q == proc'[w]
<1> SUFFICES ASSUME Concluding(q), ~Concluding(p), pub # "published" PROVE Settled'
  OBVIOUS
<1>0. /\ p \in Process /\ proc \in [Workers -> Process] /\ run \in RunRow
      /\ p.conclusion # "verdict" /\ p.pc \notin {"threads", "conclude"}
  BY DEF Typed, Concluding
<1>1. ASSUME NEW pc \in Steps \ {"threads", "conclude", "beforePublish"}, To(w, pc) PROVE FALSE
  BY <1>0, <1>1, ToKeeps DEF Concluding
<1>2. ASSUME Rest(w) PROVE FALSE
  BY <1>0, <1>2 DEF Rest, Idle, Concluding
<1>3. ASSUME Return(w) \/ Raise(w) PROVE FALSE
  <2>1. p.next \in {"supersede", "final", "idle"}
    BY <1>0 DEF Process
  <2>2. QED
    BY <1>1, <1>2, <1>3, <2>1 DEF Return, Raise, Steps
<1>4. ASSUME q.pc \notin {"threads", "conclude", "beforePublish"}, q.conclusion = p.conclusion
      PROVE  FALSE
  BY <1>0, <1>4 DEF Concluding
<1>5. ASSUME q.pc \notin {"threads", "conclude", "beforePublish"}, q.conclusion # "verdict"
      PROVE  FALSE
  BY <1>5 DEF Concluding
<1>6. CASE Claim(w)
  <2>1. Idle \in Process /\ Idle.conclusion = "cancelled"
    BY IdleIsAProcess DEF Idle
  <2>2. CASE UNCHANGED proc
    BY <2>2
  <2>3. ASSUME NEW j, proc' = [proc EXCEPT ![w] = [Idle EXCEPT !.pc = "entry", !.job = j]]
        PROVE  FALSE
    BY <1>0, <1>5, <2>1, <2>3 DEF Process
  <2>4. QED
    BY <1>6, <2>2, <2>3 DEF Claim
<1>7. CASE FinalizeStranded(w)
  BY <1>0, <1>5, <1>7 DEF FinalizeStranded, Idle
<1>8. CASE Entry(w)
  <2>1. ASSUME proc' = [proc EXCEPT ![w].pc = "getCheck", ![w].conclusion = "cancelled",
                                    ![w].next = "supersede"]
        PROVE  FALSE
    BY <1>0, <1>5, <2>1 DEF Process
  <2>2. QED
    BY <1>1, <1>8, <2>1 DEF Entry, Steps
<1>9. CASE Begin(w)
  <2>1. CASE run'.status = "superseded"
    BY <1>0, <1>5, <1>9, <2>1 DEF Begin, Process
  <2>2. CASE run'.status # "superseded"
    <3>1. ASSUME NEW g, NEW pc \in {"persistSkip", "ensure"},
                 proc' = [proc EXCEPT ![w].gen = g, ![w].pc = pc]
          PROVE  FALSE
      BY <1>0, <1>4, <3>1 DEF Process
    <3>2. PICK eligible \in BOOLEAN :
            proc' = [proc EXCEPT
                       ![w].gen = run'.status = "generating" /\ eligible,
                       ![w].pc = IF run'.status = "generating" /\ ~eligible
                                 THEN "persistSkip" ELSE "ensure"]
      BY <1>9, <2>2 DEF Begin
    <3>3. (IF run'.status = "generating" /\ ~eligible THEN "persistSkip" ELSE "ensure")
             \in {"persistSkip", "ensure"}
      OBVIOUS
    <3>4. QED
      BY <3>1, <3>2, <3>3
  <2>3. QED
    BY <2>1, <2>2
<1>10. CASE Ensure(w)
  <2>1. ASSUME NEW h, NEW pc \in {"afterEnsure", "ensureFind", "ensureStarted"},
               proc' = [proc EXCEPT ![w].handle = h, ![w].pc = pc]
        PROVE  FALSE
    BY <1>0, <1>4, <2>1 DEF Process
  <2>2. (CASE check.status = "completed" -> "afterEnsure"
           [] check.status # "completed" /\ check.ext = NoCheck -> "ensureFind"
           [] OTHER -> "ensureStarted") \in {"afterEnsure", "ensureFind", "ensureStarted"}
    OBVIOUS
  <2>3. QED
    BY <1>1, <1>10, <2>1, <2>2 DEF Ensure, AfterCheck, Steps
<1>11. CASE EnsureFind(w) \/ EnsurePost(w) \/ CompleteFind(w) \/ GetCheck(w)
  <2>1. ASSUME NEW ext, NEW pc \in {"ensureStarted", "completeStarted"},
               proc' = [proc EXCEPT ![w].pc = pc, ![w].handle.ext = ext]
        PROVE  FALSE
    BY <1>0, <1>4, <2>1 DEF Process
  <2>2. ASSUME NEW h, proc' = [proc EXCEPT ![w].pc = "complete", ![w].handle = h] PROVE FALSE
    BY <1>0, <1>4, <2>2 DEF Process
  <2>3. QED
    BY <1>1, <1>11, <2>1, <2>2 DEF EnsureFind, EnsurePost, CompleteFind, GetCheck, Steps
<1>12. CASE GenerationSuperseded(w) \/ Retire(w) \/ Terminal(w)
  BY <1>0, <1>5, <1>12 DEF GenerationSuperseded, Retire, Terminal, Finalize, Process
<1>13. CASE Load(w)
  <2>1. CASE run.status \in {"ready", "skipped", "publishing", "published"}
    <3>1. q.conclusion = p.conclusion /\ q.pc = "beforePublish" /\ q.pub = (run.status # "skipped")
      BY <1>0, <1>13, <2>1 DEF Load, Process
    <3>2. run.status = "skipped"
      BY <1>0, <3>1 DEF Concluding
    <3>3. QED
      BY <1>13, <3>2 DEF Load, rows, Settled
  <2>2. QED
    BY <1>1, <1>13, <2>1 DEF Load, Steps
<1>14. CASE BeforePublish(w)
  <2>1. p.pub
    BY <1>14 DEF BeforePublish, At, Concluding
  <2>2. QED
    BY <1>1, <1>14, <2>1 DEF BeforePublish, Steps
<1>15. CASE BeginPublication(w)
  BY <1>1, <1>15 DEF BeginPublication, Steps
<1>16. CASE MarkPublished(w)
  BY <1>0, <1>16 DEF MarkPublished, Settled, RunRow
<1>17. CASE Threads(w) \/ Conclude(w)
  BY <1>0, <1>17 DEF Threads, Conclude, At
<1>18. CASE \/ PersistSkip(w) \/ EnsureStarted(w) \/ EnsureFailed(w) \/ AfterEnsure(w)
            \/ Generate(w) \/ GenerationFailed(w) \/ Persist(w) \/ CheckFailed(w)
            \/ PublishFind(w) \/ PublishPost(w) \/ PublishFailed(w) \/ Final(w)
  <2>1. \E pc \in Steps \ {"threads", "conclude", "beforePublish"} : To(w, pc)
    BY <1>18
    DEF PersistSkip, EnsureStarted, EnsureFailed, AfterEnsure, AfterCheck, Generate,
        GenerationFailed, Persist, CheckFailed, PublishFind, PublishPost, PublishFailed, Final,
        Steps
  <2>2. QED
    BY <1>1, <2>1
<1>19. CASE \/ BeginCompletion(w) \/ Exhausted(w) \/ CompleteStarted(w) \/ Completing(w)
            \/ Patch(w) \/ MarkCompleted(w) \/ Unfinished(w)
            \/ Supersede(w) \/ CompleteJob(w) \/ Fail(w) \/ Crash(w)
  <2>1. \/ Return(w) \/ Raise(w) \/ Rest(w)
        \/ \E pc \in Steps \ {"threads", "conclude", "beforePublish"} : To(w, pc)
    BY <1>19
    DEF BeginCompletion, Exhausted, CompleteStarted, Completing, Patch, MarkCompleted, Unfinished,
        Supersede, CompleteJob, Fail, Crash, Steps
  <2>2. QED
    BY <1>1, <1>2, <1>3, <2>1
<1>20. QED
  BY <1>6, <1>7, <1>8, <1>9, <1>10, <1>11, <1>12, <1>13, <1>14, <1>15, <1>16, <1>17, <1>18, <1>19
  DEF Work

\* The rows say so only if the worker that writes them does.
LEMMA VerdictRows ==
    ASSUME Typed, NEW w \in Workers, Work(w) \/ Crash(w)
    PROVE  /\ check'.conclusion = "verdict" =>
                check.conclusion = "verdict" \/ proc[w].conclusion = "verdict"
           /\ pub' = "published" => pub = "published" \/ Settled'
<1>0. check \in CheckRow /\ run \in RunRow
  BY DEF Typed
<1>1. CASE UNCHANGED <<check, pub>>
  BY <1>1
<1>2. CASE UNCHANGED check /\ pub' \in {"failed", "publishing", pub}
  BY <1>2
<1>3. CASE MarkPublished(w)
  BY <1>0, <1>3 DEF MarkPublished, Settled, RunRow
<1>4. CASE MarkCompleted(w)
  BY <1>0, <1>4 DEF MarkCompleted, CheckRow
<1>5. CASE UNCHANGED pub /\ check'.conclusion \in {"none", check.conclusion}
  BY <1>5
<1>6. CASE Ensure(w) \/ BeginCompletion(w) \/ Completing(w)
  BY <1>0, <1>5, <1>6 DEF Ensure, BeginCompletion, Completing, CheckRow
<1>7. CASE EnsureStarted(w) \/ CompleteStarted(w)
  BY <1>0, <1>5, <1>7 DEF EnsureStarted, CompleteStarted, Started, CheckRow
<1>8. CASE EnsureFailed(w) \/ CheckFailed(w) \/ Exhausted(w) \/ Unfinished(w)
  BY <1>0, <1>5, <1>8 DEF EnsureFailed, CheckFailed, Exhausted, Unfinished, CheckFailedWith, CheckRow
<1>9. CASE PublishFailed(w) \/ BeginPublication(w)
  BY <1>2, <1>9 DEF PublishFailed, BeginPublication
<1>10. CASE ~\/ MarkPublished(w) \/ MarkCompleted(w) \/ Ensure(w) \/ BeginCompletion(w)
             \/ Completing(w) \/ EnsureStarted(w) \/ CompleteStarted(w) \/ EnsureFailed(w)
             \/ CheckFailed(w) \/ Exhausted(w) \/ Unfinished(w) \/ PublishFailed(w)
             \/ BeginPublication(w)
  <2>1. UNCHANGED <<check, pub>>
    BY <1>10
    DEF Work, Crash, rows, Claim, FinalizeStranded, Entry, Begin, PersistSkip, EnsureFind,
        EnsurePost, AfterEnsure, Generate, GenerationSuperseded, GenerationFailed, Persist, Load,
        BeforePublish, Retire, PublishFind, PublishPost, Threads, Conclude, GetCheck, CompleteFind,
        Patch, Final, Supersede, CompleteJob, Fail, Terminal
  <2>2. QED
    BY <1>1, <2>1
<1>11. QED
  BY <1>3, <1>4, <1>6, <1>7, <1>8, <1>9, <1>10

\* A check shows a verdict only for a review that was published, or skipped on
\* purpose, and no later attempt, job or crash takes that back, even if
\* leases run out under workers that are still alive (begin_review_run,
\* mark_review_terminal_failed).
THEOREM VerdictOnlyForReview == Spec => []VerdictNeedsReview
<1>1. Init => VInv
  BY DEF Init, VInv, Concluding, Idle
<1>2. ASSUME JInv, VInv, [Next]_vars PROVE VInv'
  <2>0. Typed
    BY <1>2 DEF JInv
  <2>1. CASE UNCHANGED <<run, pub, check, proc>>
    BY <1>2, <2>1 DEF VInv, Settled
  <2>2. ASSUME NEW w \in Workers, Work(w) \/ Crash(w) PROVE VInv'
    <3>1. Settled => Settled'
      BY <2>0, <2>2, RunSteps DEF RunStep
    <3>2. \A v \in Workers \ {w} : proc'[v] = proc[v]
      BY <2>0, <2>2, OwnProcess DEF Moves, Typed
    <3>3. Concluding(proc'[w]) => Settled' \/ Concluding(proc[w]) \/ pub = "published"
      BY <2>0, <2>2, ConcludingSteps
    <3>4. /\ check'.conclusion = "verdict" =>
               check.conclusion = "verdict" \/ proc[w].conclusion = "verdict"
          /\ pub' = "published" => pub = "published" \/ Settled'
      BY <2>0, <2>2, VerdictRows
    <3>5. proc[w].conclusion = "verdict" => Settled
      BY <1>2 DEF VInv, Concluding
    <3>6. \A v \in Workers : Concluding(proc'[v]) => Settled'
      BY <1>2, <3>1, <3>2, <3>3 DEF VInv
    <3>7. check'.conclusion = "verdict" \/ pub' = "published" => Settled'
      BY <1>2, <3>1, <3>4, <3>5 DEF VInv
    <3>8. QED
      BY <3>6, <3>7 DEF VInv
  <2>3. QED
    BY <1>2, <2>1, <2>2 DEF Next, vars, rows, LeaseExpires, MoveHead, Enqueue
<1>3. JInv /\ [Next]_vars => JInv'
  BY NextJInv
<1>4. VInv => VerdictNeedsReview
  BY DEF VInv, Settled, VerdictNeedsReview
<1>5. QED
  BY <1>1, <1>2, <1>3, <1>4, InitJInv, PTL DEF Spec

-----------------------------------------------------------------------------
(* What GitHub holds, when workers renew their leases.                     *)

\* Then one worker at most is in process_review_job.
LEMMA OneWorks ==
    ASSUME JInv, ~Stalls, NEW v \in Workers, NEW w \in Workers,
           Working(proc[v]), Working(proc[w])
    PROVE  v = w
<1>1. /\ proc[v].job \in Jobs /\ OwnsLease(v, proc[v].job)
      /\ proc[w].job \in Jobs /\ OwnsLease(w, proc[w].job)
  BY DEF JInv, AtWork, Placed
<1>2. proc[v].job = proc[w].job
  BY <1>1 DEF JInv, OneRunning, OwnsLease
<1>3. QED
  BY <1>1, <1>2 DEF OwnsLease

\* GitHub holds one more review, or one more check, only by the request for it.
LEMMA GitHubSteps ==
    ASSUME Typed, NEW w \in Workers, Work(w) \/ Crash(w)
    PROVE  \/ github'.reviews = github.reviews /\ Len(github'.checks) = Len(github.checks)
           \/ /\ At(w, "ensurePost") /\ proc'[w].pc \in {"ensureStarted", "ensureFailed"}
              /\ github'.reviews = github.reviews
              /\ Len(github'.checks) = Len(github.checks) + 1
           \/ /\ At(w, "publishPost") /\ proc'[w].pc \in {"markPublished", "publishFailed"}
              /\ github'.reviews = github.reviews + 1
              /\ Len(github'.checks) = Len(github.checks)
<1>0. /\ github \in GitHub /\ github.checks \in Seq(Conclusions \cup {"in_progress"})
      /\ github.reviews \in Nat /\ proc \in [Workers -> Process]
  BY DEF Typed, GitHub
<1>1. CASE UNCHANGED github
  BY <1>1
<1>2. CASE EnsurePost(w) /\ github' = PostCheck
  <2>1. Len(Append(github.checks, "in_progress")) = Len(github.checks) + 1
    BY <1>0
  <2>2. proc'[w].pc \in {"ensureStarted", "ensureFailed"}
    BY <1>0, <1>2 DEF EnsurePost, To, Process
  <2>3. QED
    BY <1>0, <1>2, <2>1, <2>2 DEF EnsurePost, PostCheck, GitHub
<1>3. CASE PublishPost(w) /\ github' = PostReview
  <2>1. proc'[w].pc \in {"markPublished", "publishFailed"} \/ UNCHANGED github
    BY <1>0, <1>3 DEF PublishPost, To, Process
  <2>2. QED
    BY <1>0, <1>3, <2>1 DEF PublishPost, PostReview, GitHub
<1>4. CASE Patch(w) /\ github' = PatchCheck(proc[w].handle.ext, proc[w].conclusion)
  <2>1. github'.reviews = github.reviews
        /\ github'.checks = [github.checks EXCEPT ![proc[w].handle.ext] = proc[w].conclusion]
    BY <1>0, <1>4 DEF PatchCheck, GitHub
  <2>2. proc[w].conclusion \in Conclusions
    BY DEF Typed, Process
  <2>3. CASE proc[w].handle.ext \in 1..Len(github.checks)
    <3>1. Len(github'.checks) = Len(github.checks)
      BY <1>0, <2>1, <2>2, <2>3, ExceptSeq
    <3>2. QED
      BY <2>1, <3>1
  <2>4. CASE proc[w].handle.ext \notin 1..Len(github.checks)
    <3>1. DOMAIN github.checks = 1..Len(github.checks)
      BY <1>0
    <3>2. github.checks = [i \in 1..Len(github.checks) |-> github.checks[i]]
      BY <1>0, <3>1
    <3>3. github'.checks = github.checks
      BY <2>1, <2>4, <3>1, <3>2
    <3>4. QED
      BY <2>1, <3>3
  <2>5. QED
    BY <2>3, <2>4
<1>5. QED
  BY <1>1, <1>2, <1>3, <1>4
  DEF Work, Crash, rows, Claim, FinalizeStranded, Entry, Begin, PersistSkip, Ensure, EnsureFind,
      EnsurePost, EnsureStarted, EnsureFailed, AfterEnsure, Generate, GenerationSuperseded,
      GenerationFailed, Persist, CheckFailed, Load, BeforePublish, Retire, BeginPublication,
      PublishFind, PublishPost, PublishFailed, MarkPublished, Threads, Conclude, GetCheck,
      BeginCompletion, Exhausted, CompleteFind, CompleteStarted, Completing, Patch, MarkCompleted,
      Unfinished, Final, Supersede, CompleteJob, Fail, Terminal

\* A worker is about to post only once it looked and found nothing.
LEMMA PostingSteps ==
    ASSUME Typed, NEW w \in Workers, Work(w) \/ Crash(w),
           proc'[w].pc \in {"publishPost", "ensurePost"}, proc'[w] # proc[w]
    PROVE  UNCHANGED github /\ Posting(proc[w])'
<1> DEFINE p == proc[w]  q == proc'[w]
<1>0. /\ p \in Process /\ proc \in [Workers -> Process] /\ github.reviews \in Nat
      /\ github.checks \in Seq(Conclusions \cup {"in_progress"})
  BY DEF Typed, GitHub
<1>1. ASSUME NEW pc \in Steps \ {"publishPost", "ensurePost"}, To(w, pc) PROVE FALSE
  BY <1>1, ToKeeps
<1>2. ASSUME Rest(w) PROVE FALSE
  BY <1>0, <1>2 DEF Rest, Idle
<1>3. ASSUME Return(w) \/ Raise(w) PROVE FALSE
  <2>1. p.next \in {"supersede", "final", "idle"}
    BY <1>0 DEF Process
  <2>2. QED
    BY <1>1, <1>2, <1>3, <2>1 DEF Return, Raise, Steps
<1>4. CASE EnsureFind(w)
  <2>1. ASSUME NEW ext \in Found,
               proc' = [proc EXCEPT ![w].pc = "ensureStarted", ![w].handle.ext = ext]
        PROVE  FALSE
    BY <1>0, <2>1 DEF Process
  <2>2. Found = {} /\ To(w, "ensurePost")
    BY <1>1, <1>4, <2>1 DEF EnsureFind, Steps
  <2>3. Len(github.checks) = 0
    <3>1. DOMAIN github.checks = 1..Len(github.checks) /\ Len(github.checks) \in Nat
      BY <1>0
    <3>2. 1 \notin 1..Len(github.checks)
      BY <2>2, <3>1 DEF Found
    <3>3. QED
      BY <3>1, <3>2
  <2>4. q.pc = "ensurePost"
    BY <2>2, ToKeeps DEF Steps
  <2>5. QED
    BY <1>4, <2>3, <2>4 DEF EnsureFind, Posting
<1>5. CASE PublishFind(w)
  <2>0. ~To(w, "publishFailed") /\ ~To(w, "markPublished")
    BY <1>1 DEF Steps
  <2>1. github.reviews = 0 /\ To(w, "publishPost")
    BY <1>0, <1>5, <2>0 DEF PublishFind
  <2>2. q.pc = "publishPost"
    BY <2>1, ToKeeps DEF Steps
  <2>3. QED
    BY <1>5, <2>1, <2>2 DEF PublishFind, Posting
<1>6. CASE Claim(w)
  <2>1. Idle \in Process
    BY IdleIsAProcess
  <2>2. CASE UNCHANGED proc
    BY <2>2
  <2>3. ASSUME NEW j, proc' = [proc EXCEPT ![w] = [Idle EXCEPT !.pc = "entry", !.job = j]]
        PROVE  FALSE
    BY <1>0, <2>1, <2>3 DEF Process
  <2>4. QED
    BY <1>6, <2>2, <2>3 DEF Claim
<1>7. CASE FinalizeStranded(w)
  BY <1>0, <1>7 DEF FinalizeStranded, Idle
<1>8. CASE Entry(w)
  <2>1. ASSUME proc' = [proc EXCEPT ![w].pc = "getCheck", ![w].conclusion = "cancelled",
                                    ![w].next = "supersede"]
        PROVE  FALSE
    BY <1>0, <2>1 DEF Process
  <2>2. QED
    BY <1>1, <1>8, <2>1 DEF Entry, Steps
<1>9. CASE Begin(w)
  <2>1. CASE run'.status = "superseded"
    BY <1>0, <1>9, <2>1 DEF Begin, Process
  <2>2. CASE run'.status # "superseded"
    <3>1. ASSUME NEW g, NEW pc \in {"persistSkip", "ensure"},
                 proc' = [proc EXCEPT ![w].gen = g, ![w].pc = pc]
          PROVE  FALSE
      BY <1>0, <3>1 DEF Process
    <3>2. PICK eligible \in BOOLEAN :
            proc' = [proc EXCEPT
                       ![w].gen = run'.status = "generating" /\ eligible,
                       ![w].pc = IF run'.status = "generating" /\ ~eligible
                                 THEN "persistSkip" ELSE "ensure"]
      BY <1>9, <2>2 DEF Begin
    <3>3. (IF run'.status = "generating" /\ ~eligible THEN "persistSkip" ELSE "ensure")
             \in {"persistSkip", "ensure"}
      OBVIOUS
    <3>4. QED
      BY <3>1, <3>2, <3>3
  <2>3. QED
    BY <2>1, <2>2
<1>10. CASE Ensure(w)
  <2>1. ASSUME NEW h, NEW pc \in {"afterEnsure", "ensureFind", "ensureStarted"},
               proc' = [proc EXCEPT ![w].handle = h, ![w].pc = pc]
        PROVE  FALSE
    BY <1>0, <2>1 DEF Process
  <2>2. (CASE check.status = "completed" -> "afterEnsure"
           [] check.status # "completed" /\ check.ext = NoCheck -> "ensureFind"
           [] OTHER -> "ensureStarted") \in {"afterEnsure", "ensureFind", "ensureStarted"}
    OBVIOUS
  <2>3. QED
    BY <1>1, <1>10, <2>1, <2>2 DEF Ensure, AfterCheck, Steps
<1>11. CASE EnsurePost(w) \/ CompleteFind(w) \/ GetCheck(w)
  <2>1. ASSUME NEW ext, NEW pc \in {"ensureStarted", "completeStarted"},
               proc' = [proc EXCEPT ![w].pc = pc, ![w].handle.ext = ext]
        PROVE  FALSE
    BY <1>0, <2>1 DEF Process
  <2>2. ASSUME NEW h, proc' = [proc EXCEPT ![w].pc = "complete", ![w].handle = h] PROVE FALSE
    BY <1>0, <2>2 DEF Process
  <2>3. QED
    BY <1>1, <1>11, <2>1, <2>2 DEF EnsurePost, CompleteFind, GetCheck, Steps
<1>12. CASE GenerationSuperseded(w) \/ Retire(w) \/ Terminal(w) \/ Conclude(w)
  BY <1>0, <1>12 DEF GenerationSuperseded, Retire, Terminal, Finalize, Conclude, Process
<1>13. CASE Load(w)
  <2>1. ASSUME NEW b, proc' = [proc EXCEPT ![w].pc = "beforePublish", ![w].pub = b] PROVE FALSE
    BY <1>0, <2>1 DEF Process
  <2>2. QED
    BY <1>1, <1>13, <2>1 DEF Load, Steps
<1>14. CASE \/ PersistSkip(w) \/ EnsureStarted(w) \/ EnsureFailed(w) \/ AfterEnsure(w)
            \/ Generate(w) \/ GenerationFailed(w) \/ Persist(w) \/ CheckFailed(w)
            \/ BeforePublish(w) \/ BeginPublication(w) \/ PublishPost(w)
            \/ PublishFailed(w) \/ MarkPublished(w) \/ Threads(w) \/ Final(w)
  <2>1. \E pc \in Steps \ {"publishPost", "ensurePost"} : To(w, pc)
    BY <1>14
    DEF PersistSkip, EnsureStarted, EnsureFailed, AfterEnsure, AfterCheck, Generate,
        GenerationFailed, Persist, CheckFailed, BeforePublish, BeginPublication, PublishPost,
        PublishFailed, MarkPublished, Threads, Final, Steps
  <2>2. QED
    BY <1>1, <2>1
<1>15. CASE \/ BeginCompletion(w) \/ Exhausted(w) \/ CompleteStarted(w) \/ Completing(w)
            \/ Patch(w) \/ MarkCompleted(w) \/ Unfinished(w)
            \/ Supersede(w) \/ CompleteJob(w) \/ Fail(w) \/ Crash(w)
  <2>1. \/ Return(w) \/ Raise(w) \/ Rest(w)
        \/ \E pc \in Steps \ {"publishPost", "ensurePost"} : To(w, pc)
    BY <1>15
    DEF BeginCompletion, Exhausted, CompleteStarted, Completing, Patch, MarkCompleted, Unfinished,
        Supersede, CompleteJob, Fail, Crash, Steps
  <2>2. QED
    BY <1>1, <1>2, <1>3, <2>1
<1>16. QED
  BY <1>4, <1>5, <1>6, <1>7, <1>8, <1>9, <1>10, <1>11, <1>12, <1>13, <1>14, <1>15 DEF Work

PInv == PostedOnce /\ \A w \in Workers : Posting(proc[w])

LEMMA InitPInv == Init => PInv
BY DEF Init, PInv, PostedOnce, OneReviewPosted, OneCheckCreated, Posting, Idle

LEMMA NextPInv ==
    ASSUME ~Stalls, JInv, PInv, [Next]_vars
    PROVE  PInv'
<1>0. /\ Typed /\ github.reviews \in Nat /\ Len(github.checks) \in Nat
      /\ github.reviews <= 1 /\ Len(github.checks) <= 1
  BY DEF JInv, Typed, GitHub, PInv, PostedOnce, OneReviewPosted, OneCheckCreated
<1>1. CASE UNCHANGED <<github, proc>>
  BY <1>1 DEF PInv, PostedOnce, OneReviewPosted, OneCheckCreated, Posting
<1>2. ASSUME NEW w \in Workers, Work(w) \/ Crash(w)
      PROVE  PInv'
  <2>1. \A v \in Workers \ {w} : proc'[v] = proc[v]
    BY <1>0, <1>2, OwnProcess DEF Moves, Typed
  <2>2. \/ github'.reviews = github.reviews /\ Len(github'.checks) = Len(github.checks)
        \/ /\ At(w, "ensurePost") /\ proc'[w].pc \in {"ensureStarted", "ensureFailed"}
           /\ github'.reviews = github.reviews
           /\ Len(github'.checks) = Len(github.checks) + 1
        \/ /\ At(w, "publishPost") /\ proc'[w].pc \in {"markPublished", "publishFailed"}
           /\ github'.reviews = github.reviews + 1
           /\ Len(github'.checks) = Len(github.checks)
    BY <1>0, <1>2, GitHubSteps
  <2>3. PostedOnce'
    <3>1. Posting(proc[w])
      BY DEF PInv
    <3>2. github'.reviews <= 1 /\ Len(github'.checks) <= 1
      BY <1>0, <2>2, <3>1 DEF Posting, At
    <3>3. QED
      BY <3>2 DEF PostedOnce, OneReviewPosted, OneCheckCreated
  <2>4. ASSUME NEW v \in Workers PROVE Posting(proc[v])'
    <3> SUFFICES ASSUME proc'[v].pc \in {"publishPost", "ensurePost"} PROVE Posting(proc[v])'
      BY DEF Posting
    <3>1. CASE proc'[v] # proc[v]
      BY <1>0, <1>2, <2>1, <3>1, PostingSteps
    <3>2. CASE proc'[v] = proc[v]
      <4>1. Working(proc[v]) /\ Posting(proc[v])
        BY <3>2 DEF Working, CompletionSteps, PInv
      <4>2. CASE github'.reviews = github.reviews /\ Len(github'.checks) = Len(github.checks)
        BY <3>2, <4>1, <4>2 DEF Posting
      <4>3. CASE At(w, "ensurePost") \/ At(w, "publishPost")
        <5>1. Working(proc[w])
          BY <4>3 DEF At, Working, CompletionSteps
        <5>2. v = w
          BY <4>1, <5>1, OneWorks
        <5>3. QED
          BY <2>2, <4>2, <5>2
      <4>4. QED
        BY <2>2, <4>2, <4>3
    <3>3. QED
      BY <3>1, <3>2
  <2>5. QED
    BY <2>3, <2>4 DEF PInv
<1>3. QED
  BY <1>1, <1>2 DEF Next, vars, rows, LeaseExpires, MoveHead, Enqueue

\* A revision gets one review and one check run, whatever step a worker dies
\* at and however often the job is retried or enqueued again: each request
\* looks for what an earlier one left (publish_github_review,
\* ensure_github_check_run).
THEOREM NothingPostedTwice ==
    ASSUME ~Stalls
    PROVE  Spec => []PostedOnce
<1>2. JInv /\ PInv /\ [Next]_vars => PInv'
  BY NextPInv
<1>3. JInv /\ [Next]_vars => JInv'
  BY NextJInv
<1>4. PInv => PostedOnce
  BY DEF PInv
<1>5. QED
  BY <1>2, <1>3, <1>4, InitPInv, InitJInv, PTL DEF Spec

\* While a worker that owns the run generates into it, nobody marks the run
\* failed on behalf of a job that was given up, be it the worker of that job or
\* the one that reconciles stranded reviews: such a job is not the run's
\* (mark_review_terminal_failed, _finalize_stranded_reviews).
THEOREM RunInFlightIsKept == Spec => InFlightRunKept
<1> DEFINE Kept == \A w \in Workers :
                     /\ run.status = "generating" /\ run'.status = "failed"
                     /\ OwnsRun(w) /\ proc[w].job = run.job
                     => \E v \in Workers : At(v, "genFailed") /\ proc'[v] # proc[v]
<1>1. ASSUME JInv, [Next]_vars PROVE [Kept]_vars
  <2> SUFFICES ASSUME NEW v \in Workers, Next,
                      run.status = "generating", run'.status = "failed",
                      OwnsRun(v), proc[v].job = run.job
               PROVE  \E w \in Workers : At(w, "genFailed") /\ proc'[w] # proc[w]
    BY <1>1
  <2>0. /\ Typed /\ run \in RunRow /\ proc \in [Workers -> Process]
        /\ run.job \in Jobs /\ OwnsLease(v, run.job)
    BY <1>1 DEF JInv, Typed, RunRow, OwnsRun
  <2>1. PICK w \in Workers : Work(w) \/ Crash(w)
    BY DEF Next, LeaseExpires, MoveHead, Enqueue, rows
  <2>2. GenerationFailed(w) \/ (\E j \in Jobs : MarkReviewTerminalFailed(j) # run
                                  /\ jobs[j].status \in TERMINAL_JOB_STATUSES)
    <3>1. run' # run
      OBVIOUS
    <3>2. Terminal(w) => proc[w].job \in Jobs /\ jobs[proc[w].job].status \in TERMINAL_JOB_STATUSES
      BY <1>1 DEF Terminal, At, JInv, AtWork, Placed
    <3>3. ASSUME NEW S \in SUBSET {"generating", "ready", "publishing"},
                 NEW to \in {"skipped", "superseded", "ready", "publishing"}, run' = RunIf(S, to)
          PROVE  FALSE
      BY <2>0, <3>3 DEF RunIf, RunRow
    <3>4. CASE \/ PersistSkip(w) \/ Persist(w) \/ PublishFailed(w) \/ BeginPublication(w)
      BY <3>1, <3>3, <3>4 DEF PersistSkip, Persist, PublishFailed, BeginPublication
    <3>5. CASE GenerationSuperseded(w) \/ Retire(w)
      BY <3>1, <3>3, <3>5 DEF GenerationSuperseded, Retire, Unpublished
    <3>6. CASE Begin(w) \/ MarkPublished(w)
      BY <2>0, <3>6 DEF Begin, BeginReviewRun, MarkPublished, RunRow
    <3>7. CASE Terminal(w) \/ FinalizeStranded(w)
      BY <3>1, <3>2, <3>7 DEF Terminal, FinalizeStranded, Stranded
    <3>8. CASE GenerationFailed(w)
      BY <3>8
    <3>9. QED
      BY <2>1, <3>1, <3>4, <3>5, <3>6, <3>7, <3>8
      DEF Work, Crash, rows, Claim, Entry, Ensure, EnsureFind, EnsurePost, EnsureStarted,
          EnsureFailed, AfterEnsure, Generate, CheckFailed, Load, BeforePublish, PublishFind,
          PublishPost, Threads, Conclude, GetCheck, BeginCompletion, Exhausted, CompleteFind,
          CompleteStarted, Completing, Patch, MarkCompleted, Unfinished, Final, Supersede,
          CompleteJob, Fail
  <2>3. ~\E j \in Jobs : /\ MarkReviewTerminalFailed(j) # run
                         /\ jobs[j].status \in TERMINAL_JOB_STATUSES
    BY <2>0 DEF MarkReviewTerminalFailed, OwnsLease, TERMINAL_JOB_STATUSES
  <2>4. GenerationFailed(w)
    BY <2>2, <2>3
  <2>5. At(w, "genFailed") /\ proc[w].pc = "genFailed" /\ proc'[w].pc = "checkFailed"
    BY <2>0, <2>4, ToKeeps DEF GenerationFailed, At, Steps
  <2>6. QED
    BY <2>5
<1>2. JInv /\ [Next]_vars => JInv'
  BY NextJInv
<1>3. QED
  BY <1>1, <1>2, InitJInv, PTL DEF Spec, InFlightRunKept

-----------------------------------------------------------------------------
(* The check of a revision with one job, whose workers renew their leases. *)

\* Past begin_check_run_completion.
Past == CompletionSteps \ {"getCheck", "complete"}

Finalizing(p) == p.pc \in CompletionSteps /\ p.next = "idle"

\* Who completes a check, with what, and where it returns to.
Fits(p) ==
    /\ p.pc \in CompletionSteps =>
         \/ p.next = "supersede" /\ p.conclusion = "cancelled"
         \/ p.next = "final" /\ p.conclusion = "verdict" /\ p.pc # "getCheck"
         \/ p.next = "idle" /\ p.conclusion = "failure"
    /\ p.pc \in {"ensureStarted", "completeStarted", "completing", "patch", "markCompleted"} =>
         p.handle.ext # NoCheck

Over(j) == jobs[j].status \in TERMINAL_JOB_STATUSES

\* What a worker knows of the check.
Knows(p) ==
    /\ Fits(p)
    /\ p.handle.ext # NoCheck => p.handle.ext \in DOMAIN github.checks
    /\ Finalizing(p) => Over(1)
    /\ p.pc \in Past => \/ check.status # "completed"
                        \/ Finalizing(p) /\ check.conclusion = "failure"
    /\ p.pc = "markCompleted" => github.checks[p.handle.ext] = p.conclusion

\* The row of the check against GitHub and the job.
Shown ==
    /\ check.ext # NoCheck => check.ext \in DOMAIN github.checks
    /\ check.status = "completed" <=> check.conclusion # "none"
    /\ check.status = "completed" => /\ check.ext # NoCheck
                                     /\ github.checks[check.ext] = check.conclusion
    /\ check.conclusion = "cancelled" => ~wanted
    /\ check.conclusion = "failure" => Over(1)

GInv == Shown /\ \A w \in Workers : Knows(proc[w])

\* From begin_check_run to the verdict.
EnsuredSteps ==
    {"ensureFind", "ensurePost", "ensureStarted", "afterEnsure", "generate", "persist", "load",
     "beforePublish", "beginPublication", "publishFind", "publishPost", "markPublished",
     "threads", "conclude"}
Ensured(p) == p.pc \in EnsuredSteps \/ (p.pc = "complete" /\ p.next = "final")

\* With a status check asked for, a worker gives it a verdict before its job
\* succeeds.
SInv ==
    /\ jobs[1].status = "succeeded" => check.conclusion = "verdict"
    /\ \A w \in Workers :
         /\ Ensured(proc[w]) /\ ~proc[w].handle.open => check.status = "completed"
         /\ proc[w].pc = "final" => check.status = "completed"
         /\ proc[w].pc = "completeJob" => check.conclusion = "verdict"

\* What a step does to the row of the check: it changes one that is not
\* completed, or completes it with what the worker was told to show.
LEMMA CheckSteps ==
    ASSUME Typed, NEW w \in Workers, Work(w) \/ Crash(w)
    PROVE  \/ check' = check
           \/ /\ check.status # "completed" /\ check'.status # "completed"
              /\ check'.conclusion \in {"none", check.conclusion}
              /\ check'.ext \in {check.ext, proc[w].handle.ext}
           \/ /\ At(w, "markCompleted") /\ check.status # "completed"
              /\ check.ext # NoCheck /\ check'.ext = check.ext
              /\ check'.status = "completed" /\ check'.conclusion = proc[w].conclusion
<1>0. check \in CheckRow
  BY DEF Typed
<1>1. CASE MarkCompleted(w)
  BY <1>0, <1>1 DEF MarkCompleted, Finishable, CheckRow
<1>2. CASE Ensure(w) \/ Completing(w)
  BY <1>0, <1>2 DEF Ensure, Completing, Completable, CheckRow
<1>3. CASE EnsureStarted(w) \/ CompleteStarted(w)
  BY <1>0, <1>3 DEF EnsureStarted, CompleteStarted, Started, Startable, CheckRow
<1>4. CASE EnsureFailed(w) \/ CheckFailed(w) \/ Exhausted(w) \/ Unfinished(w)
  BY <1>0, <1>4 DEF EnsureFailed, CheckFailed, Exhausted, Unfinished, CheckFailedWith, CheckRow
<1>5. CASE BeginCompletion(w)
  BY <1>0, <1>5 DEF BeginCompletion, CheckRow
<1>6. CASE ~\/ MarkCompleted(w) \/ Ensure(w) \/ Completing(w) \/ EnsureStarted(w)
            \/ CompleteStarted(w) \/ EnsureFailed(w) \/ CheckFailed(w) \/ Exhausted(w)
            \/ Unfinished(w) \/ BeginCompletion(w)
  <2>1. UNCHANGED check
    BY <1>6
    DEF Work, Crash, rows, Claim, FinalizeStranded, Entry, Begin, PersistSkip, EnsureFind,
        EnsurePost, AfterEnsure, Generate, GenerationSuperseded, GenerationFailed, Persist, Load,
        BeforePublish, Retire, BeginPublication, PublishFind, PublishPost, PublishFailed,
        MarkPublished, Threads, Conclude, GetCheck, CompleteFind, Patch, Final, Supersede,
        CompleteJob, Fail, Terminal
  <2>2. QED
    BY <2>1
<1>7. QED
  BY <1>1, <1>2, <1>3, <1>4, <1>5, <1>6

LEMMA ChecksShown ==
    ASSUME Typed, NEW w \in Workers, Work(w) \/ Crash(w)
    PROVE  \/ github'.checks = github.checks
           \/ At(w, "ensurePost") /\ github'.checks = Append(github.checks, "in_progress")
           \/ /\ At(w, "patch")
              /\ github'.checks = [github.checks EXCEPT ![proc[w].handle.ext] = proc[w].conclusion]
<1>0. github \in GitHub
  BY DEF Typed
<1>1. CASE UNCHANGED github
  BY <1>1
<1>2. CASE EnsurePost(w)
  BY <1>0, <1>2 DEF EnsurePost, PostCheck, GitHub
<1>3. CASE PublishPost(w)
  BY <1>0, <1>3 DEF PublishPost, PostReview, GitHub
<1>4. CASE Patch(w)
  BY <1>0, <1>4 DEF Patch, PatchCheck, GitHub
<1>5. QED
  BY <1>1, <1>2, <1>3, <1>4
  DEF Work, Crash, rows, Claim, FinalizeStranded, Entry, Begin, PersistSkip, Ensure, EnsureFind,
      EnsureStarted, EnsureFailed, AfterEnsure, Generate, GenerationSuperseded, GenerationFailed,
      Persist, CheckFailed, Load, BeforePublish, Retire, BeginPublication, PublishFind,
      PublishFailed, MarkPublished, Threads, Conclude, GetCheck, BeginCompletion, Exhausted,
      CompleteFind, CompleteStarted, Completing, MarkCompleted, Unfinished, Final, Supersede,
      CompleteJob, Fail, Terminal

\* A worker knows a check from the row, from GitHub's list, or because GitHub
\* just answered that it created it.
HandleStep(w) ==
    LET p == proc[w]  q == proc'[w] IN
    \/ q.handle = p.handle
    \/ q.handle = NoHandle /\ q.pc \in {"idle", "entry", "getCheck"}
    \/ At(w, "ensure") /\ q.handle = HandleOf(check')
    \/ At(w, "getCheck") /\ q.handle \in {HandleOf(check), NoHandle} /\ q.next = p.next
    \/ q.handle.open = p.handle.open /\ q.handle.ext \in DOMAIN github'.checks

LEMMA HandleSteps ==
    ASSUME Typed, NEW w \in Workers, Work(w) \/ Crash(w)
    PROVE  HandleStep(w)
<1> DEFINE p == proc[w]  q == proc'[w]
<1>0. /\ p \in Process /\ proc \in [Workers -> Process] /\ p.handle \in Handle
      /\ Idle \in Process /\ Idle.handle = NoHandle /\ Idle.pc = "idle"
      /\ github.checks \in Seq(Conclusions \cup {"in_progress"}) /\ github \in GitHub
  <2>1. Idle.handle = NoHandle /\ Idle.pc = "idle"
    BY DEF Idle
  <2>2. QED
    BY <2>1, IdleIsAProcess DEF Typed, Process, GitHub
<1>1. CASE q.handle = p.handle
  BY <1>1 DEF HandleStep
<1>2. CASE \E pc \in Steps : To(w, pc)
  BY <1>1, <1>2, ToKeeps
<1>3. CASE Rest(w)
  BY <1>0, <1>3 DEF Rest, HandleStep
<1>4. CASE Return(w) \/ Raise(w)
  <2>1. p.next \in {"supersede", "final", "idle"}
    BY <1>0 DEF Process
  <2>2. QED
    BY <1>2, <1>3, <1>4, <2>1 DEF Return, Raise, Steps
<1>5. CASE Claim(w)
  <2>1. ASSUME NEW j, proc' = [proc EXCEPT ![w] = [Idle EXCEPT !.pc = "entry", !.job = j]]
        PROVE  HandleStep(w)
    BY <1>0, <2>1 DEF HandleStep, Process
  <2>2. QED
    BY <1>1, <1>5, <2>1 DEF Claim
<1>6. CASE FinalizeStranded(w)
  <2>1. ASSUME NEW j, proc' = [proc EXCEPT ![w] = [Idle EXCEPT !.pc = "getCheck", !.job = j,
                                                              !.conclusion = "failure"]]
        PROVE  HandleStep(w)
    BY <1>0, <2>1 DEF HandleStep, Process
  <2>2. QED
    BY <1>6, <2>1 DEF FinalizeStranded
<1>7. CASE Entry(w) \/ GenerationSuperseded(w) \/ Retire(w) \/ Conclude(w) \/ Terminal(w)
  <2>1. ASSUME NEW pc, NEW c, NEW n,
               proc' = [proc EXCEPT ![w].pc = pc, ![w].conclusion = c, ![w].next = n]
        PROVE  HandleStep(w)
    BY <1>0, <1>1, <2>1 DEF Process
  <2>2. QED
    BY <1>2, <1>7, <2>1
    DEF Entry, GenerationSuperseded, Retire, Conclude, Terminal, Finalize, Steps
<1>8. CASE Begin(w)
  <2>1. ASSUME NEW g, NEW pc, proc' = [proc EXCEPT ![w].gen = g, ![w].pc = pc]
        PROVE  HandleStep(w)
    BY <1>0, <1>1, <2>1 DEF Process
  <2>2. CASE run'.status = "superseded"
    BY <1>0, <1>1, <1>8, <2>2 DEF Begin, Process
  <2>3. CASE run'.status # "superseded"
    BY <1>8, <2>1, <2>3 DEF Begin
  <2>4. QED
    BY <2>2, <2>3
<1>9. CASE Ensure(w)
  <2>1. ASSUME NEW pc, proc' = [proc EXCEPT ![w].handle = HandleOf(check'), ![w].pc = pc]
        PROVE  HandleStep(w)
    <3>1. q.handle = HandleOf(check')
      BY <1>0, <2>1 DEF Process
    <3>2. QED
      BY <1>9, <3>1 DEF Ensure, HandleStep
  <2>2. QED
    BY <1>2, <1>9, <2>1 DEF Ensure, AfterCheck, Steps
<1>10. CASE GetCheck(w)
  <2>1. /\ q.handle = (IF run.job = p.job THEN HandleOf(check) ELSE NoHandle)
        /\ q.next = p.next
    BY <1>0, <1>10 DEF GetCheck, Process
  <2>2. QED
    BY <1>10, <2>1 DEF GetCheck, HandleStep
<1>11. CASE EnsureFind(w) \/ EnsurePost(w) \/ CompleteFind(w)
  <2>1. ASSUME NEW ext \in DOMAIN github'.checks, NEW pc,
               proc' = [proc EXCEPT ![w].pc = pc, ![w].handle.ext = ext]
        PROVE  HandleStep(w)
    <3>1. q.handle = [p.handle EXCEPT !.ext = ext]
      BY <1>0, <2>1 DEF Process
    <3>2. QED
      BY <1>0, <3>1 DEF HandleStep, Handle
  <2>2. CASE \E ext \in Found, pc \in Steps :
               UNCHANGED github /\ proc' = [proc EXCEPT ![w].pc = pc, ![w].handle.ext = ext]
    BY <2>1, <2>2 DEF Found
  <2>3. CASE /\ github' = PostCheck
             /\ proc' = [proc EXCEPT ![w].pc = "ensureStarted",
                                     ![w].handle.ext = Len(github.checks) + 1]
    <3>1. Len(github.checks) + 1 \in DOMAIN Append(github.checks, "in_progress")
      BY <1>0
    <3>2. github'.checks = Append(github.checks, "in_progress")
      BY <1>0, <2>3 DEF PostCheck, GitHub
    <3>3. QED
      BY <2>1, <2>3, <3>1, <3>2
  <2>4. QED
    BY <1>2, <1>11, <2>2, <2>3 DEF EnsureFind, EnsurePost, CompleteFind, Steps
<1>12. CASE Load(w)
  <2>1. ASSUME NEW b, proc' = [proc EXCEPT ![w].pc = "beforePublish", ![w].pub = b]
        PROVE  HandleStep(w)
    BY <1>0, <1>1, <2>1 DEF Process
  <2>2. QED
    BY <1>2, <1>12, <2>1 DEF Load, Steps
<1>13. CASE \/ PersistSkip(w) \/ EnsureStarted(w) \/ EnsureFailed(w) \/ AfterEnsure(w)
            \/ Generate(w) \/ GenerationFailed(w) \/ Persist(w) \/ CheckFailed(w)
            \/ BeforePublish(w) \/ BeginPublication(w) \/ PublishFind(w) \/ PublishPost(w)
            \/ PublishFailed(w) \/ MarkPublished(w) \/ Threads(w) \/ Final(w)
  <2>1. \E pc \in Steps : To(w, pc)
    BY <1>13
    DEF PersistSkip, EnsureStarted, EnsureFailed, AfterEnsure, AfterCheck, Generate,
        GenerationFailed, Persist, CheckFailed, BeforePublish, BeginPublication, PublishFind,
        PublishPost, PublishFailed, MarkPublished, Threads, Final, Steps
  <2>2. QED
    BY <1>2, <2>1
<1>14. CASE \/ BeginCompletion(w) \/ Exhausted(w) \/ CompleteStarted(w) \/ Completing(w)
            \/ Patch(w) \/ MarkCompleted(w) \/ Unfinished(w)
            \/ Supersede(w) \/ CompleteJob(w) \/ Fail(w) \/ Crash(w)
  <2>1. Return(w) \/ Raise(w) \/ Rest(w) \/ \E pc \in Steps : To(w, pc)
    BY <1>14
    DEF BeginCompletion, Exhausted, CompleteStarted, Completing, Patch, MarkCompleted, Unfinished,
        Supersede, CompleteJob, Fail, Crash, Steps
  <2>2. QED
    BY <1>2, <1>3, <1>4, <2>1
<1>15. QED
  BY <1>5, <1>6, <1>7, <1>8, <1>9, <1>10, <1>11, <1>12, <1>13, <1>14 DEF Work

\* How a worker comes to complete a check, and how it goes on.
CompletionStep(w) ==
    LET p == proc[w]  q == proc'[w] IN
    /\ Fits(q)
    /\ Finalizing(q) => Finalizing(p) \/ p.pc = "terminal" \/ \E j \in Jobs : Over(j)
    /\ q.pc \in Past => \/ check'.status # "completed"
                        \/ check' = check /\ p.pc \in Past /\ q.next = p.next
    /\ q.pc = "markCompleted" =>
         /\ p.pc = "patch" /\ q.handle = p.handle /\ q.conclusion = p.conclusion
         /\ github'.checks = [github.checks EXCEPT ![p.handle.ext] = p.conclusion]

LEMMA CompletionKeeps ==
    ASSUME Typed, NEW w \in Workers, Work(w) \/ Crash(w), Fits(proc[w])
    PROVE  CompletionStep(w)
<1> DEFINE p == proc[w]  q == proc'[w]  There == CompletionSteps \cup {"ensureStarted"}
<1>0. /\ p \in Process /\ proc \in [Workers -> Process] /\ p.handle \in Handle
      /\ github \in GitHub /\ github.checks \in Seq(Conclusions \cup {"in_progress"})
  BY DEF Typed, Process, GitHub
<1>a. CASE q.pc \notin There
  BY <1>a DEF CompletionStep, Fits, Finalizing, Past, CompletionSteps
<1>1. ASSUME NEW pc \in Steps \ There, To(w, pc) PROVE CompletionStep(w)
  BY <1>a, <1>1, ToKeeps
<1>2. ASSUME Rest(w) PROVE CompletionStep(w)
  <2>1. q = Idle
    BY <1>0, <1>2 DEF Rest
  <2>2. QED
    BY <1>a, <2>1 DEF Idle, CompletionSteps
<1>3. ASSUME Return(w) \/ Raise(w) PROVE CompletionStep(w)
  <2>1. p.next \in {"supersede", "final", "idle"}
    BY <1>0 DEF Process
  <2>2. QED
    BY <1>1, <1>2, <1>3, <2>1 DEF Return, Raise, Steps, CompletionSteps
<1>4. ASSUME q.pc \in {"getCheck", "complete"}, Fits(q),
             q.next = "idle" => p.pc \in CompletionSteps /\ p.next = "idle"
      PROVE  CompletionStep(w)
  BY <1>4 DEF CompletionStep, Finalizing, Past, CompletionSteps
<1>5. CASE Claim(w)
  <2>1. ASSUME NEW j, proc' = [proc EXCEPT ![w] = [Idle EXCEPT !.pc = "entry", !.job = j]]
        PROVE  q.pc = "entry"
    BY <1>0, <2>1, IdleIsAProcess DEF Process
  <2>2. q.pc \in {"idle", "entry"}
    BY <1>5, <2>1 DEF Claim, At
  <2>3. QED
    BY <1>a, <2>2 DEF CompletionSteps
<1>6. CASE FinalizeStranded(w)
  <2>1. PICK j \in Jobs : /\ Stranded(j)
                          /\ proc' = [proc EXCEPT ![w] = [Idle EXCEPT !.pc = "getCheck", !.job = j,
                                                                     !.conclusion = "failure"]]
    BY <1>6 DEF FinalizeStranded
  <2>2. Over(j)
    BY <2>1 DEF Stranded, Over
  <2>3. q.pc = "getCheck" /\ q.next = "idle" /\ q.conclusion = "failure"
    BY <1>0, <2>1 DEF Idle
  <2>4. QED
    BY <2>2, <2>3 DEF CompletionStep, Fits, Finalizing, Past, CompletionSteps
<1>7. CASE Terminal(w)
  <2>1. q.pc = "getCheck" /\ q.next = "idle" /\ q.conclusion = "failure" /\ p.pc = "terminal"
    BY <1>0, <1>7 DEF Terminal, Finalize, At, Process
  <2>2. QED
    BY <2>1 DEF CompletionStep, Fits, Finalizing, Past, CompletionSteps
<1>8. ASSUME NEW pc \in {"getCheck", "complete", "supersede"},
             proc' = [proc EXCEPT ![w].pc = pc, ![w].conclusion = "cancelled",
                                  ![w].next = "supersede"]
      PROVE  CompletionStep(w)
  <2>1. q.pc = pc /\ q.next = "supersede" /\ q.conclusion = "cancelled"
    BY <1>0, <1>8 DEF Process
  <2>2. QED
    BY <1>4, <1>a, <2>1 DEF Fits, CompletionSteps
<1>9. CASE Entry(w)
  BY <1>1, <1>8, <1>9 DEF Entry, Steps, CompletionSteps
<1>10. CASE GenerationSuperseded(w)
  BY <1>8, <1>10 DEF GenerationSuperseded
<1>11. CASE Retire(w)
  BY <1>8, <1>11 DEF Retire
<1>12. CASE Conclude(w)
  <2>1. q.pc = "complete" /\ q.next = "final" /\ q.conclusion = "verdict"
    BY <1>0, <1>12 DEF Conclude, Process
  <2>2. QED
    BY <1>4, <2>1 DEF Fits, CompletionSteps
<1>13. CASE Begin(w)
  <2>1. CASE run'.status = "superseded"
    BY <1>8, <1>13, <2>1 DEF Begin
  <2>2. CASE run'.status # "superseded"
    <3>1. ASSUME NEW g, NEW pc \in {"persistSkip", "ensure"},
                 proc' = [proc EXCEPT ![w].gen = g, ![w].pc = pc]
          PROVE  CompletionStep(w)
      <4>1. q.pc = pc
        BY <1>0, <3>1 DEF Process
      <4>2. QED
        BY <1>a, <4>1 DEF CompletionSteps
    <3>2. PICK eligible \in BOOLEAN :
            proc' = [proc EXCEPT
                       ![w].gen = run'.status = "generating" /\ eligible,
                       ![w].pc = IF run'.status = "generating" /\ ~eligible
                                 THEN "persistSkip" ELSE "ensure"]
      BY <1>13, <2>2 DEF Begin
    <3>3. (IF run'.status = "generating" /\ ~eligible THEN "persistSkip" ELSE "ensure")
             \in {"persistSkip", "ensure"}
      OBVIOUS
    <3>4. QED
      BY <3>1, <3>2, <3>3
  <2>3. QED
    BY <2>1, <2>2
<1>14. ASSUME q.pc = "ensureStarted", q.handle.ext # NoCheck PROVE CompletionStep(w)
  BY <1>14 DEF CompletionStep, Fits, Finalizing, Past, CompletionSteps
<1>15. CASE Ensure(w)
  <2>1. CASE To(w, AfterCheck(w))
    BY <1>1, <2>1 DEF AfterCheck, Steps, CompletionSteps
  <2>2. CASE ~To(w, AfterCheck(w))
    <3>0. check' \in CheckRow /\ check \in CheckRow
      BY <1>15, RowsTyped DEF Typed, Work
    <3>1. q.handle = HandleOf(check') /\
          q.pc = CASE check.status = "completed" -> "afterEnsure"
                   [] check.status # "completed" /\ check.ext = NoCheck -> "ensureFind"
                   [] OTHER -> "ensureStarted"
      BY <1>0, <1>15, <2>2 DEF Ensure, Process
    <3>2. CASE check.status = "completed"
      BY <1>a, <3>1, <3>2 DEF CompletionSteps
    <3>3. CASE check.status # "completed" /\ check.ext = NoCheck
      BY <1>a, <3>1, <3>3 DEF CompletionSteps
    <3>4. CASE check.status # "completed" /\ check.ext # NoCheck
      <4>1. q.pc = "ensureStarted"
        BY <3>1, <3>4
      <4>2. check'.status = "creating" /\ check'.ext = check.ext
        BY <1>15, <2>2, <3>0, <3>4 DEF Ensure, CheckRow
      <4>3. q.handle.ext = check.ext
        BY <3>1, <4>2 DEF HandleOf
      <4>4. QED
        BY <1>14, <3>4, <4>1, <4>3
    <3>5. QED
      BY <3>2, <3>3, <3>4
  <2>3. QED
    BY <2>1, <2>2
<1>16. CASE EnsureFind(w) \/ EnsurePost(w)
  <2>1. ASSUME NEW ext, ext # NoCheck,
               proc' = [proc EXCEPT ![w].pc = "ensureStarted", ![w].handle.ext = ext]
        PROVE  CompletionStep(w)
    <3>1. q.pc = "ensureStarted" /\ q.handle.ext = ext
      BY <1>0, <2>1 DEF Process, Handle
    <3>2. QED
      BY <1>14, <2>1, <3>1
  <2>2. /\ \A ext \in Found : ext # NoCheck
        /\ Len(github.checks) + 1 # NoCheck
    BY <1>0 DEF Found, NoCheck
  <2>3. QED
    BY <1>1, <1>16, <2>1, <2>2 DEF EnsureFind, EnsurePost, Steps, CompletionSteps
<1>17. CASE GetCheck(w)
  <2>1. q.pc = "complete" /\ q.next = p.next /\ q.conclusion = p.conclusion /\ p.pc = "getCheck"
    BY <1>0, <1>17 DEF GetCheck, At, Process
  <2>2. QED
    BY <1>4, <2>1 DEF Fits, CompletionSteps
<1>18. ASSUME p.pc \in CompletionSteps, p.pc # "getCheck",
              NEW pc \in {"exhausted", "completeFind", "unfinished"}, To(w, pc),
              check'.status # "completed" \/ (check' = check /\ p.pc \in Past)
       PROVE  CompletionStep(w)
  <2>1. q.pc = pc /\ q.next = p.next /\ q.conclusion = p.conclusion
    BY <1>18, ToKeeps DEF Steps
  <2>2. QED
    BY <1>18, <2>1 DEF CompletionStep, Fits, Finalizing, CompletionSteps
<1>19. ASSUME p.pc \in CompletionSteps, p.pc # "getCheck",
              NEW pc \in {"completing", "patch"}, To(w, pc), p.handle.ext # NoCheck,
              check'.status # "completed"
       PROVE  CompletionStep(w)
  <2>1. q.pc = pc /\ q.next = p.next /\ q.conclusion = p.conclusion /\ q.handle = p.handle
    BY <1>19, ToKeeps DEF Steps
  <2>2. QED
    BY <1>19, <2>1 DEF CompletionStep, Fits, Finalizing, CompletionSteps
<1>20. CASE BeginCompletion(w)
  <2>1. CASE ~p.handle.open \/ check.status = "completed"
    BY <1>3, <1>20, <2>1 DEF BeginCompletion
  <2>2. CASE ~(~p.handle.open \/ check.status = "completed")
    <3>1. check'.status # "completed" /\ p.pc = "complete"
      BY <1>20, <2>2 DEF BeginCompletion, At, Typed, CheckRow
    <3>2. \/ \E pc \in {"exhausted", "completeFind"} : To(w, pc)
          \/ To(w, "completing") /\ p.handle.ext # NoCheck
      <4>1. CASE check'.attempts > MAX_COMPLETION_ATTEMPTS
        BY <1>20, <2>2, <4>1 DEF BeginCompletion
      <4>2. CASE ~(check'.attempts > MAX_COMPLETION_ATTEMPTS) /\ p.handle.ext = NoCheck
        <5>1. check'.attempts <= MAX_COMPLETION_ATTEMPTS
          <6>1. check'.attempts \in Nat
            BY <1>20, RowsTyped DEF CheckRow, Work
          <6>2. QED
            BY <4>2, <6>1, ExecutionAssumption
        <5>2. QED
          BY <1>20, <2>2, <4>2, <5>1 DEF BeginCompletion
      <4>3. CASE ~(check'.attempts > MAX_COMPLETION_ATTEMPTS) /\ p.handle.ext # NoCheck
        BY <1>20, <2>2, <4>3 DEF BeginCompletion
      <4>4. QED
        BY <4>1, <4>2, <4>3
    <3>3. QED
      BY <1>18, <1>19, <3>1, <3>2 DEF CompletionSteps
  <2>3. QED
    BY <2>1, <2>2
<1>21. CASE CompleteFind(w)
  <2>0. p.pc = "completeFind" /\ check' = check
    BY <1>21 DEF CompleteFind, At, rows
  <2>1. CASE To(w, "unfinished")
    BY <1>18, <2>0, <2>1 DEF Past, CompletionSteps
  <2>2. ASSUME NEW ext \in Found,
               proc' = [proc EXCEPT ![w].pc = "completeStarted", ![w].handle.ext = ext]
        PROVE  CompletionStep(w)
    <3>1. /\ q.pc = "completeStarted" /\ q.handle.ext = ext
          /\ q.next = p.next /\ q.conclusion = p.conclusion
      BY <1>0, <2>2 DEF Process, Handle
    <3>2. ext # NoCheck
      BY <1>0 DEF Found, NoCheck
    <3>3. QED
      BY <2>0, <3>1, <3>2 DEF CompletionStep, Fits, Finalizing, Past, CompletionSteps
  <2>3. QED
    BY <1>21, <2>1, <2>2 DEF CompleteFind
<1>22. CASE CompleteStarted(w)
  <2>0. p.pc = "completeStarted" /\ p.handle.ext # NoCheck
    BY <1>22 DEF CompleteStarted, At, Fits
  <2>1. CASE Startable(p.handle.ext)
    <3>1. check'.status = "in_progress" /\ To(w, "completing")
      BY <1>22, <2>1 DEF CompleteStarted, Started, Typed, CheckRow
    <3>2. QED
      BY <1>19, <2>0, <3>1 DEF CompletionSteps
  <2>2. CASE ~Startable(p.handle.ext)
    BY <1>18, <1>22, <2>0, <2>2 DEF CompleteStarted, Past, CompletionSteps
  <2>3. QED
    BY <2>1, <2>2
<1>23. CASE Completing(w)
  <2>0. p.pc = "completing" /\ p.handle.ext # NoCheck
    BY <1>23 DEF Completing, At, Fits
  <2>1. CASE Completable
    <3>1. check'.status = "completing" /\ To(w, "patch")
      BY <1>23, <2>1 DEF Completing, Typed, CheckRow
    <3>2. QED
      BY <1>19, <2>0, <3>1 DEF CompletionSteps
  <2>2. CASE ~Completable
    BY <1>3, <1>23, <2>2 DEF Completing
  <2>3. QED
    BY <2>1, <2>2
<1>24. CASE Patch(w)
  <2>0. p.pc = "patch" /\ p.handle.ext # NoCheck /\ check' = check
    BY <1>24 DEF Patch, At, Fits, rows
  <2>1. CASE To(w, "unfinished")
    BY <1>18, <2>0, <2>1 DEF Past, CompletionSteps
  <2>2. CASE To(w, "markCompleted") /\ ~To(w, "unfinished")
    <3>1. github'.checks = [github.checks EXCEPT ![p.handle.ext] = p.conclusion]
      BY <1>0, <1>24, <2>2 DEF Patch, PatchCheck, GitHub
    <3>2. /\ q.pc = "markCompleted" /\ q.handle = p.handle /\ q.next = p.next
          /\ q.conclusion = p.conclusion
      BY <2>2, ToKeeps DEF Steps
    <3>3. QED
      BY <2>0, <3>1, <3>2 DEF CompletionStep, Fits, Finalizing, Past, CompletionSteps
  <2>3. QED
    BY <1>24, <2>1, <2>2 DEF Patch
<1>25. CASE Load(w)
  <2>1. ASSUME NEW b, proc' = [proc EXCEPT ![w].pc = "beforePublish", ![w].pub = b]
        PROVE  CompletionStep(w)
    <3>1. q.pc = "beforePublish"
      BY <1>0, <2>1 DEF Process
    <3>2. QED
      BY <1>a, <3>1 DEF CompletionSteps
  <2>2. QED
    BY <1>1, <1>25, <2>1 DEF Load, Steps, CompletionSteps
<1>26. CASE \/ PersistSkip(w) \/ EnsureStarted(w) \/ EnsureFailed(w) \/ AfterEnsure(w)
            \/ Generate(w) \/ GenerationFailed(w) \/ Persist(w) \/ CheckFailed(w)
            \/ BeforePublish(w) \/ BeginPublication(w) \/ PublishFind(w) \/ PublishPost(w)
            \/ PublishFailed(w) \/ MarkPublished(w) \/ Threads(w) \/ Final(w)
  <2>1. \E pc \in Steps \ There : To(w, pc)
    BY <1>26
    DEF PersistSkip, EnsureStarted, EnsureFailed, AfterEnsure, AfterCheck, Generate,
        GenerationFailed, Persist, CheckFailed, BeforePublish, BeginPublication, PublishFind,
        PublishPost, PublishFailed, MarkPublished, Threads, Final, Steps, CompletionSteps
  <2>2. QED
    BY <1>1, <2>1
<1>27. CASE Exhausted(w) \/ MarkCompleted(w) \/ Unfinished(w)
  BY <1>3, <1>27 DEF Exhausted, MarkCompleted, Unfinished
<1>28. CASE Supersede(w) \/ CompleteJob(w) \/ Fail(w) \/ Crash(w)
  <2>1. Rest(w) \/ \E pc \in Steps \ There : To(w, pc)
    BY <1>28 DEF Supersede, CompleteJob, Fail, Crash, Steps, CompletionSteps
  <2>2. QED
    BY <1>1, <1>2, <2>1
<1>29. QED
  BY <1>5, <1>6, <1>7, <1>9, <1>10, <1>11, <1>12, <1>13, <1>15, <1>16, <1>17, <1>20, <1>21, <1>22,
     <1>23, <1>24, <1>25, <1>26, <1>27, <1>28 DEF Work

\* A worker between two jobs, or about to finalize one, leaves the check alone.
LEMMA IdleLeavesCheck ==
    ASSUME NEW w \in Workers, Work(w) \/ Crash(w), proc[w].pc \in {"idle", "terminal"}
    PROVE  check' = check
<1>1. Claim(w) \/ FinalizeStranded(w) \/ Terminal(w) \/ Crash(w)
  BY
  DEF Work, At, Entry, Begin, PersistSkip, Ensure, EnsureFind, EnsurePost, EnsureStarted,
      EnsureFailed, AfterEnsure, Generate, GenerationSuperseded, GenerationFailed, Persist,
      CheckFailed, Load, BeforePublish, Retire, BeginPublication, PublishFind, PublishPost,
      PublishFailed, MarkPublished, Threads, Conclude, GetCheck, BeginCompletion, Exhausted,
      CompleteFind, CompleteStarted, Completing, Patch, MarkCompleted, Unfinished, Final,
      Supersede, CompleteJob, Fail
<1>2. QED
  BY <1>1 DEF Claim, FinalizeStranded, Terminal, Crash, rows

\* A job that was given up stays so, and one succeeds only by its worker.
LEMMA JobsMove ==
    ASSUME JInv, Next, NEW j \in Jobs
    PROVE  /\ Over(j) => jobs'[j].status \in TERMINAL_JOB_STATUSES
           /\ jobs'[j].status = "succeeded" =>
                jobs[j].status = "succeeded" \/ \E w \in Workers : At(w, "completeJob")
<1>0. Typed /\ jobs \in [Jobs -> JobRow]
  BY DEF JInv, Typed
<1>1. CASE jobs' = jobs
  BY <1>1 DEF Over
<1>2. ASSUME NEW w \in Workers, Claim(w)
      PROVE  /\ jobs[j].status \in TERMINAL_JOB_STATUSES => jobs'[j].status \in TERMINAL_JOB_STATUSES
             /\ jobs'[j].status = "succeeded" => jobs[j].status = "succeeded"
  <2>1. /\ Swept \in [Jobs -> JobRow]
        /\ \/ Swept[j] = jobs[j]
           \/ jobs[j].status = "running" /\ Swept[j].status \in {"queued", "dead"}
    BY <1>0, SweptRows
  <2>2. CASE jobs' = Swept
    BY <2>1, <2>2 DEF TERMINAL_JOB_STATUSES
  <2>3. ASSUME NEW i \in Jobs, NEW row, Swept[i].status = "queued",
               jobs' = [Swept EXCEPT ![i] = row], row.status = "running"
        PROVE  /\ jobs[j].status \in TERMINAL_JOB_STATUSES => jobs'[j].status \in TERMINAL_JOB_STATUSES
               /\ jobs'[j].status = "succeeded" => jobs[j].status = "succeeded"
    BY <2>1, <2>3 DEF TERMINAL_JOB_STATUSES
  <2>4. ASSUME NEW i \in Jobs
        PROVE  [status |-> "running", attempt |-> Swept[i].attempt + 1, owner |-> w,
                live |-> TRUE].status = "running"
    OBVIOUS
  <2>5. QED
    BY <1>2, <2>2, <2>3, <2>4 DEF Claim
<1>3. ASSUME NEW w \in Workers, Supersede(w) \/ CompleteJob(w) \/ Fail(w)
      PROVE  /\ jobs[j].status \in TERMINAL_JOB_STATUSES => jobs'[j].status \in TERMINAL_JOB_STATUSES
             /\ jobs'[j].status = "succeeded" => jobs[j].status = "succeeded" \/ At(w, "completeJob")
  <2>1. proc[w].job \in Jobs
    BY <1>3, EndingKeeps
  <2>2. CASE jobs' = jobs
    BY <2>2
  <2>3. CASE jobs' # jobs
    <3>1. PICK status \in {"superseded", "succeeded", "queued", "dead", "failed"} :
            /\ OwnsLease(w, proc[w].job)
            /\ jobs' = [jobs EXCEPT ![proc[w].job] = Freed(jobs[proc[w].job], status)]
            /\ status = "succeeded" => At(w, "completeJob")
      BY <1>3, <2>3 DEF Supersede, CompleteJob, Fail, TERMINAL_JOB_STATUSES
    <3>2. Freed(jobs[proc[w].job], status).status = status /\ jobs[proc[w].job].status = "running"
      BY <1>0, <2>1, <3>1, FreedRow DEF OwnsLease, Active, TERMINAL_JOB_STATUSES
    <3>3. QED
      BY <1>0, <2>1, <3>1, <3>2 DEF TERMINAL_JOB_STATUSES
  <2>4. QED
    BY <2>2, <2>3
<1>4. CASE (\E i \in Jobs : LeaseExpires(i)) \/ Enqueue
  BY <1>0, <1>4 DEF LeaseExpires, Enqueue, JobRow, TERMINAL_JOB_STATUSES, Over
<1>5. CASE MoveHead
  <2>1. jobs'[j] = IF jobs[j].status = "queued" THEN Freed(jobs[j], "superseded") ELSE jobs[j]
    BY <1>5 DEF MoveHead
  <2>2. Freed(jobs[j], "superseded").status = "superseded"
    BY <1>0, FreedRow
  <2>3. QED
    BY <2>1, <2>2 DEF TERMINAL_JOB_STATUSES, Over
<1>6. ASSUME NEW w \in Workers, Work(w) \/ Crash(w), ~Claim(w), ~Supersede(w), ~CompleteJob(w),
             ~Fail(w)
      PROVE  jobs' = jobs
  BY <1>0, <1>6, QuietSteps DEF Quiet
<1>7. QED
  BY <1>1, <1>2, <1>3, <1>4, <1>5, <1>6 DEF Next, Over

\* With one job, a worker in process_review_job is alone with the check.
LEMMA WorksAlone ==
    ASSUME ~Stalls, NumJobs = 1, JInv, GInv, NEW v \in Workers, NEW w \in Workers, v # w,
           Working(proc[v])
    PROVE  proc[w].pc \in {"idle", "terminal"} /\ ~Over(1)
<1>1. Jobs = {1}
  BY DEF Jobs
<1>2. jobs[1].status = "running"
  BY <1>1 DEF JInv, AtWork, Placed, OwnsLease
<1>3. ~Over(1)
  BY <1>2 DEF Over, TERMINAL_JOB_STATUSES
<1>4. ~Finalizing(proc[w])
  BY <1>3 DEF GInv, Knows
<1>5. ~Working(proc[w])
  BY OneWorks
<1>6. QED
  BY <1>3, <1>4, <1>5 DEF Working, Finalizing

LEMMA InitGInv == Init => GInv
BY DEF Init, GInv, Shown, Knows, Fits, Finalizing, Past, CompletionSteps, Idle, NoHandle, NoCheck

LEMMA NextGInv ==
    ASSUME ~Stalls, NumJobs = 1, JInv, PInv, GInv, [Next]_vars
    PROVE  GInv'
<1>0. /\ Typed /\ Jobs = {1} /\ github.checks \in Seq(Conclusions \cup {"in_progress"})
      /\ Len(github.checks) <= 1 /\ Len(github.checks) \in Nat
      /\ DOMAIN github.checks = 1..Len(github.checks)
  BY DEF JInv, Typed, GitHub, Jobs, PInv, PostedOnce, OneCheckCreated
<1>1. CASE UNCHANGED vars \/ (\E j \in Jobs : LeaseExpires(j)) \/ MoveHead \/ Enqueue
  <2>1. UNCHANGED <<check, github, proc>>
    BY <1>1 DEF vars, rows, LeaseExpires, MoveHead, Enqueue
  <2>2. (Over(1) => jobs'[1].status \in TERMINAL_JOB_STATUSES) /\ (wanted' => wanted)
    <3>1. CASE UNCHANGED vars
      BY <3>1 DEF vars, Over
    <3>2. CASE (\E j \in Jobs : LeaseExpires(j)) \/ MoveHead \/ Enqueue
      <4>1. Next
        BY <3>2 DEF Next
      <4>2. QED
        BY <1>0, <3>2, <4>1, JobsMove, OutsideKeeps
    <3>3. QED
      BY <1>1, <3>1, <3>2
  <2>3. QED
    BY <2>1, <2>2 DEF GInv, Shown, Knows, Fits, Finalizing, Over
<1>2. ASSUME NEW w \in Workers, Work(w) \/ Crash(w)
      PROVE  GInv'
  <2> DEFINE p == proc[w]
  <2>0. Knows(p) /\ Placed(w, p) /\ p \in Process
    BY <1>0 DEF GInv, JInv, AtWork, Typed
  <2>1. \A v \in Workers \ {w} : proc'[v] = proc[v]
    BY <1>0, <1>2, OwnProcess DEF Moves, Typed
  <2>2. wanted' = wanted
    BY <1>0, <1>2, RowsTyped
  <2>3. Over(1) => jobs'[1].status \in TERMINAL_JOB_STATUSES
    BY <1>0, <1>2, JobsMove DEF Next
  <2>4. \/ check' = check
        \/ /\ check.status # "completed" /\ check'.status # "completed"
           /\ check'.conclusion \in {"none", check.conclusion}
           /\ check'.ext \in {check.ext, p.handle.ext}
        \/ /\ At(w, "markCompleted") /\ check.status # "completed"
           /\ check.ext # NoCheck /\ check'.ext = check.ext
           /\ check'.status = "completed" /\ check'.conclusion = p.conclusion
    BY <1>0, <1>2, CheckSteps
  <2>5. \/ github'.checks = github.checks
        \/ At(w, "ensurePost") /\ github'.checks = Append(github.checks, "in_progress")
        \/ At(w, "patch") /\ github'.checks = [github.checks EXCEPT ![p.handle.ext] = p.conclusion]
    BY <1>0, <1>2, ChecksShown
  <2>6. HandleStep(w) /\ CompletionStep(w)
    BY <1>0, <1>2, <2>0, HandleSteps, CompletionKeeps DEF Knows
  <2>7. PInv' /\ JInv'
    BY <1>2, NextPInv, NextJInv DEF Next
  \* What GitHub lists, it keeps listing, and it shows what it showed but for
  \* the check that is patched.
  <2>8. /\ DOMAIN github.checks \subseteq DOMAIN github'.checks
        /\ \A e \in DOMAIN github.checks :
             github'.checks[e] = IF At(w, "patch") /\ e = p.handle.ext
                                      /\ github'.checks # github.checks
                                 THEN p.conclusion ELSE github.checks[e]
    <3>1. CASE github'.checks = github.checks
      BY <3>1
    <3>2. CASE At(w, "ensurePost") /\ github'.checks = Append(github.checks, "in_progress")
      BY <1>0, <3>2 DEF At
    <3>3. CASE At(w, "patch") /\ github'.checks = [github.checks EXCEPT ![p.handle.ext] = p.conclusion]
      BY <1>0, <3>3
    <3>4. QED
      BY <2>5, <3>1, <3>2, <3>3
  <2>9. At(w, "patch") \/ At(w, "markCompleted") =>
          /\ p.handle.ext # NoCheck /\ p.handle.ext \in DOMAIN github.checks
          /\ Finalizing(p) => p.conclusion = "failure"
          /\ ~Finalizing(p) => Working(p)
          /\ p.conclusion = "cancelled" => Working(p) /\ Losing(p)
          /\ p.conclusion = "failure" => Finalizing(p)
    BY <2>0 DEF At, Knows, Fits, Finalizing, Working, Losing, CompletionSteps
  <2>10. \A e, f \in DOMAIN github.checks : e = f
    BY <1>0
  <2>11. Shown'
    <3>1. check'.ext # NoCheck => check'.ext \in DOMAIN github'.checks
      BY <2>0, <2>4, <2>8 DEF GInv, Shown, Knows
    <3>2. check'.status = "completed" <=> check'.conclusion # "none"
      <4>1. p.conclusion # "none"
        BY <2>0 DEF Process, Conclusions
      <4>2. QED
        BY <2>4, <4>1 DEF GInv, Shown
    <3>3. ASSUME check'.status = "completed"
          PROVE  check'.ext # NoCheck /\ github'.checks[check'.ext] = check'.conclusion
      <4>1. CASE check' = check
        <5>1. /\ check.ext # NoCheck /\ check.ext \in DOMAIN github.checks
              /\ github.checks[check.ext] = check.conclusion
          BY <3>3, <4>1 DEF GInv, Shown
        <5>2. At(w, "patch") => check.conclusion = "failure" /\ p.conclusion = "failure"
          BY <2>0, <2>9, <3>3, <4>1 DEF Knows, At, Past, CompletionSteps
        <5>3. QED
          BY <2>8, <4>1, <5>1, <5>2
      <4>2. CASE At(w, "markCompleted") /\ check.ext # NoCheck /\ check'.ext = check.ext
                 /\ check'.conclusion = p.conclusion
        <5>1. check.ext = p.handle.ext
          BY <2>9, <2>10, <4>2 DEF GInv, Shown
        <5>2. github.checks[p.handle.ext] = p.conclusion
          BY <2>0, <4>2 DEF Knows, At
        <5>3. ~At(w, "patch")
          BY <4>2 DEF At
        <5>4. QED
          BY <2>8, <2>9, <4>2, <5>1, <5>2, <5>3
      <4>3. QED
        BY <2>4, <3>3, <4>1, <4>2
    <3>4. check'.conclusion = "cancelled" => ~wanted
      <4>1. At(w, "markCompleted") /\ p.conclusion = "cancelled" => ~wanted
        BY <2>0, <2>9 DEF Placed
      <4>2. QED
        BY <2>4, <4>1 DEF GInv, Shown
    <3>5. check'.conclusion = "failure" => Over(1)
      <4>1. At(w, "markCompleted") /\ p.conclusion = "failure" => Over(1)
        BY <2>0, <2>9 DEF Knows
      <4>2. QED
        BY <2>4, <4>1 DEF GInv, Shown
    <3>6. QED
      BY <2>2, <2>3, <3>1, <3>2, <3>3, <3>4, <3>5 DEF Shown, Over
  <2>12. Knows(p)'
    <3> DEFINE q == proc'[w]
    <3>1. Fits(q)
      BY <2>6 DEF CompletionStep
    <3>2. q.handle.ext # NoCheck => q.handle.ext \in DOMAIN github'.checks
      <4>1. At(w, "ensure") /\ q.handle = HandleOf(check') => q.handle.ext \in {NoCheck, check'.ext}
        BY DEF HandleOf, NoHandle
      <4>2. q.handle \in {HandleOf(check), NoHandle} => q.handle.ext \in {NoCheck, check.ext}
        BY DEF HandleOf, NoHandle
      <4>3. q.handle.ext \in {NoCheck, p.handle.ext, check.ext, check'.ext}
              \/ q.handle.ext \in DOMAIN github'.checks
        BY <2>6, <4>1, <4>2 DEF HandleStep
      <4>4. check'.ext # NoCheck => check'.ext \in DOMAIN github'.checks
        BY <2>11 DEF Shown
      <4>5. QED
        BY <2>0, <2>8, <4>3, <4>4 DEF GInv, Shown, Knows
    <3>3. Finalizing(q) => jobs'[1].status \in TERMINAL_JOB_STATUSES
      <4>1. p.pc = "terminal" => Over(1)
        BY <1>0, <2>0 DEF Placed, Over
      <4>2. QED
        BY <1>0, <2>0, <2>3, <2>6, <4>1 DEF CompletionStep, Knows
    <3>4. q.pc \in Past => \/ check'.status # "completed"
                           \/ Finalizing(q) /\ check'.conclusion = "failure"
      <4>1. q.pc \in Past /\ p.pc \in Past /\ q.next = p.next => (Finalizing(q) <=> Finalizing(p))
        BY DEF Finalizing, Past
      <4>2. QED
        BY <2>0, <2>6, <4>1 DEF CompletionStep, Knows
    <3>5. q.pc = "markCompleted" => github'.checks[q.handle.ext] = q.conclusion
      <4>1. SUFFICES ASSUME q.pc = "markCompleted" PROVE github'.checks[q.handle.ext] = q.conclusion
        OBVIOUS
      <4>2. /\ At(w, "patch") /\ q.handle = p.handle /\ q.conclusion = p.conclusion
            /\ github'.checks = [github.checks EXCEPT ![p.handle.ext] = p.conclusion]
        BY <2>6, <4>1 DEF CompletionStep, At
      <4>3. QED
        BY <2>9, <4>2
    <3>6. QED
      BY <3>1, <3>2, <3>3, <3>4, <3>5 DEF Knows, Over, Fits, Finalizing
  <2>13. ASSUME NEW v \in Workers, v # w PROVE Knows(proc[v])'
    <3>1. proc'[v] = proc[v] /\ Knows(proc[v])
      BY <2>1, <2>13 DEF GInv
    <3>2. Working(proc[v]) => check' = check /\ github'.checks = github.checks
      <4>1. Working(proc[v]) => p.pc \in {"idle", "terminal"}
        BY <2>13, WorksAlone
      <4>2. p.pc \in {"idle", "terminal"} => check' = check /\ github'.checks = github.checks
        BY <1>2, <2>5, IdleLeavesCheck DEF At
      <4>3. QED
        BY <4>1, <4>2
    <3>3. Finalizing(proc[v]) /\ (At(w, "patch") \/ At(w, "markCompleted")) => p.conclusion = "failure"
      <4>1. Finalizing(proc[v]) => Over(1)
        BY <3>1 DEF Knows
      <4>2. Working(p) => ~Over(1)
        BY <2>13, WorksAlone
      <4>3. QED
        BY <2>9, <4>1, <4>2
    <3>4. proc[v].handle.ext # NoCheck => proc[v].handle.ext \in DOMAIN github'.checks
      BY <2>8, <3>1 DEF Knows
    <3>5. proc[v].pc \in Past => \/ check'.status # "completed"
                                 \/ Finalizing(proc[v]) /\ check'.conclusion = "failure"
      <4>1. proc[v].pc \in Past => Working(proc[v]) \/ Finalizing(proc[v])
        BY DEF Past, Working, Finalizing, CompletionSteps
      <4>2. QED
        BY <2>4, <3>1, <3>2, <3>3, <4>1 DEF Knows
    <3>6. proc[v].pc = "markCompleted" => github'.checks[proc[v].handle.ext] = proc[v].conclusion
      <4>1. SUFFICES ASSUME proc[v].pc = "markCompleted"
                     PROVE  github'.checks[proc[v].handle.ext] = proc[v].conclusion
        OBVIOUS
      <4>2. /\ proc[v].handle.ext # NoCheck /\ proc[v].handle.ext \in DOMAIN github.checks
            /\ github.checks[proc[v].handle.ext] = proc[v].conclusion
            /\ Working(proc[v]) \/ Finalizing(proc[v])
            /\ Finalizing(proc[v]) => proc[v].conclusion = "failure"
        BY <3>1, <4>1 DEF Knows, Fits, Working, Finalizing, CompletionSteps
      <4>3. QED
        BY <2>8, <3>2, <3>3, <4>2
    <3>7. Finalizing(proc[v]) => jobs'[1].status \in TERMINAL_JOB_STATUSES
      BY <2>3, <3>1 DEF Knows
    <3>8. QED
      BY <3>1, <3>4, <3>5, <3>6, <3>7 DEF Knows, Over, Fits, Finalizing
  <2>14. QED
    BY <2>11, <2>12, <2>13 DEF GInv
<1>3. QED
  BY <1>1, <1>2 DEF Next

\* A check that is recorded as completed shows on GitHub what the row says,
\* and the rows keep their types, when no worker loses its lease and the
\* revision has one job (_complete_native_check).
THEOREM CheckRecordedAsShown ==
    ASSUME ~Stalls, NumJobs = 1
    PROVE  Spec => []RecordedAsShown
<1>1. Init => PInv /\ GInv
  BY InitPInv, InitGInv
<1>2. JInv /\ PInv /\ [Next]_vars => PInv'
  BY NextPInv
<1>3. JInv /\ [Next]_vars => JInv'
  BY NextJInv
<1>4. JInv /\ PInv /\ GInv /\ [Next]_vars => GInv'
  BY NextGInv
<1>5. JInv /\ GInv => RecordedAsShown
  BY TypedImplies DEF JInv, GInv, Shown, RecordedAsShown, RowAgreesWithGitHub
<1>6. QED
  BY <1>1, <1>2, <1>3, <1>4, <1>5, InitJInv, PTL DEF Spec

\* From the check that is ensured to the verdict it gets.
EnsuredStep(w) ==
    LET p == proc[w]  q == proc'[w] IN
    /\ Ensured(q) => \/ Ensured(p) /\ q.handle.open = p.handle.open
                     \/ q.handle.open \/ check'.status = "completed"
    /\ q.pc = "final" => \/ check'.status = "completed"
                         \/ Ensured(p) /\ ~p.handle.open
    /\ q.pc = "completeJob" => IsCurrent(w, p.job) /\ p.pc = "final" /\ check' = check

LEMMA EnsuredKeeps ==
    ASSUME StatusCheck = {TRUE}, Typed, NEW w \in Workers, Work(w) \/ Crash(w), Fits(proc[w])
    PROVE  EnsuredStep(w)
<1> DEFINE p == proc[w]  q == proc'[w]
           There == EnsuredSteps \cup {"complete", "final", "completeJob"}
<1>0. /\ p \in Process /\ proc \in [Workers -> Process] /\ p.handle \in Handle /\ check \in CheckRow
  BY DEF Typed, Process
<1>a. CASE q.pc \notin There
  BY <1>a DEF EnsuredStep, Ensured
<1>b. ASSUME q.pc \in EnsuredSteps, p.pc \in EnsuredSteps, q.handle.open = p.handle.open
      PROVE  EnsuredStep(w)
  BY <1>b DEF EnsuredStep, Ensured, EnsuredSteps
<1>1. ASSUME NEW pc \in Steps \ There, To(w, pc) PROVE EnsuredStep(w)
  BY <1>a, <1>1, ToKeeps
<1>2. ASSUME Rest(w) PROVE EnsuredStep(w)
  <2>1. q = Idle
    BY <1>0, <1>2 DEF Rest
  <2>2. QED
    BY <1>a, <2>1 DEF Idle, EnsuredSteps
<1>3. ASSUME Raise(w) PROVE EnsuredStep(w)
  BY <1>1, <1>2, <1>3 DEF Raise, Steps, EnsuredSteps
<1>4. ASSUME Return(w), check'.status = "completed" \/ (Ensured(p) /\ ~p.handle.open) \/ p.next # "final"
      PROVE  EnsuredStep(w)
  <2>0. p.next \in {"supersede", "final", "idle"}
    BY <1>0 DEF Process
  <2>1. CASE p.next = "idle"
    BY <1>2, <1>4, <2>1 DEF Return
  <2>2. CASE p.next = "supersede"
    BY <1>1, <1>4, <2>2 DEF Return, Steps, EnsuredSteps
  <2>3. CASE p.next = "final"
    <3>1. q.pc = "final"
      BY <1>4, <2>3, ToKeeps DEF Return, Steps
    <3>2. QED
      BY <1>4, <2>3, <3>1 DEF EnsuredStep, Ensured, EnsuredSteps
  <2>4. QED
    BY <2>0, <2>1, <2>2, <2>3
<1>5. CASE Claim(w)
  <2>1. ASSUME NEW j, proc' = [proc EXCEPT ![w] = [Idle EXCEPT !.pc = "entry", !.job = j]]
        PROVE  q.pc = "entry"
    BY <1>0, <2>1, IdleIsAProcess DEF Process
  <2>2. q.pc \in {"idle", "entry"}
    BY <1>5, <2>1 DEF Claim, At
  <2>3. QED
    BY <1>a, <2>2 DEF EnsuredSteps
<1>6. CASE FinalizeStranded(w) \/ Terminal(w)
  <2>1. q.pc = "getCheck"
    <3>1. CASE FinalizeStranded(w)
      BY <1>0, <3>1 DEF FinalizeStranded, Idle
    <3>2. CASE Terminal(w)
      BY <1>0, <3>2 DEF Terminal, Finalize, Process
    <3>3. QED
      BY <1>6, <3>1, <3>2
  <2>2. QED
    BY <1>a, <2>1 DEF EnsuredSteps
<1>7. ASSUME NEW pc \in {"getCheck", "complete", "supersede"},
             proc' = [proc EXCEPT ![w].pc = pc, ![w].conclusion = "cancelled",
                                  ![w].next = "supersede"]
      PROVE  EnsuredStep(w)
  <2>1. q.pc = pc /\ q.next = "supersede"
    BY <1>0, <1>7 DEF Process
  <2>2. QED
    BY <2>1 DEF EnsuredStep, Ensured, EnsuredSteps
<1>8. CASE Entry(w)
  BY <1>1, <1>7, <1>8 DEF Entry, Steps, EnsuredSteps
<1>9. CASE GenerationSuperseded(w)
  BY <1>7, <1>9 DEF GenerationSuperseded
<1>10. CASE Retire(w)
  BY <1>7, <1>10 DEF Retire
<1>11. CASE Begin(w)
  <2>1. CASE run'.status = "superseded"
    BY <1>7, <1>11, <2>1 DEF Begin
  <2>2. CASE run'.status # "superseded"
    <3>1. ASSUME NEW g, NEW pc \in {"persistSkip", "ensure"},
                 proc' = [proc EXCEPT ![w].gen = g, ![w].pc = pc]
          PROVE  EnsuredStep(w)
      <4>1. q.pc = pc
        BY <1>0, <3>1 DEF Process
      <4>2. QED
        BY <1>a, <4>1 DEF EnsuredSteps
    <3>2. PICK eligible \in BOOLEAN :
            proc' = [proc EXCEPT
                       ![w].gen = run'.status = "generating" /\ eligible,
                       ![w].pc = IF run'.status = "generating" /\ ~eligible
                                 THEN "persistSkip" ELSE "ensure"]
      BY <1>11, <2>2 DEF Begin
    <3>3. (IF run'.status = "generating" /\ ~eligible THEN "persistSkip" ELSE "ensure")
             \in {"persistSkip", "ensure"}
      OBVIOUS
    <3>4. QED
      BY <3>1, <3>2, <3>3
  <2>3. QED
    BY <2>1, <2>2
<1>12. CASE Conclude(w)
  <2>1. q.pc = "complete" /\ q.handle = p.handle /\ p.pc = "conclude"
    BY <1>0, <1>12 DEF Conclude, At, Process
  <2>2. QED
    BY <2>1 DEF EnsuredStep, Ensured, EnsuredSteps
<1>13. CASE Ensure(w)
  <2>1. /\ check'.status = "completed" \/ check'.status = "creating"
        /\ q.handle = HandleOf(check')
        /\ q.pc \in EnsuredSteps
    <3>1. /\ check' = IF check.status = "completed" THEN check
                      ELSE [check EXCEPT !.status = "creating", !.code = "none"]
          /\ proc' = [proc EXCEPT
                        ![w].handle = HandleOf(check'),
                        ![w].pc = CASE check.status = "completed" -> "afterEnsure"
                                    [] check.status # "completed" /\ check.ext = NoCheck
                                         -> "ensureFind"
                                    [] OTHER -> "ensureStarted"]
      BY <1>13 DEF Ensure
    <3>2. (CASE check.status = "completed" -> "afterEnsure"
             [] check.status # "completed" /\ check.ext = NoCheck -> "ensureFind"
             [] OTHER -> "ensureStarted") \in EnsuredSteps
      BY DEF EnsuredSteps
    <3>3. q.handle = HandleOf(check') /\ q.pc \in EnsuredSteps
      BY <1>0, <3>1, <3>2 DEF Process
    <3>4. check'.status = "completed" \/ check'.status = "creating"
      BY <1>0, <3>1 DEF CheckRow
    <3>5. QED
      BY <3>3, <3>4
  <2>2. q.handle.open \/ check'.status = "completed"
    BY <2>1 DEF HandleOf
  <2>3. QED
    BY <2>1, <2>2 DEF EnsuredStep, EnsuredSteps
<1>14. ASSUME p.pc \in EnsuredSteps, NEW pc \in EnsuredSteps, To(w, pc) PROVE EnsuredStep(w)
  BY <1>14, <1>b, ToKeeps DEF EnsuredSteps, Steps
<1>15. CASE EnsureFind(w) \/ EnsurePost(w)
  <2>0. p.pc \in EnsuredSteps
    BY <1>15 DEF EnsureFind, EnsurePost, At, EnsuredSteps
  <2>1. ASSUME NEW ext, proc' = [proc EXCEPT ![w].pc = "ensureStarted", ![w].handle.ext = ext]
        PROVE  EnsuredStep(w)
    <3>1. q.pc = "ensureStarted" /\ q.handle.open = p.handle.open
      BY <1>0, <2>1 DEF Process, Handle
    <3>2. QED
      BY <1>b, <2>0, <3>1 DEF EnsuredSteps
  <2>2. QED
    BY <1>1, <1>14, <1>15, <2>0, <2>1 DEF EnsureFind, EnsurePost, Steps, EnsuredSteps
<1>16. CASE Load(w)
  <2>1. ASSUME NEW b, proc' = [proc EXCEPT ![w].pc = "beforePublish", ![w].pub = b]
        PROVE  EnsuredStep(w)
    <3>1. q.pc = "beforePublish" /\ q.handle = p.handle
      BY <1>0, <2>1 DEF Process
    <3>2. QED
      BY <1>b, <1>16, <3>1 DEF EnsuredSteps, Load, At
  <2>2. QED
    BY <1>1, <1>16, <2>1 DEF Load, Steps, EnsuredSteps
<1>17. CASE \/ EnsureStarted(w) \/ AfterEnsure(w) \/ Generate(w) \/ Persist(w) \/ BeforePublish(w)
            \/ BeginPublication(w) \/ PublishFind(w) \/ PublishPost(w) \/ MarkPublished(w)
            \/ Threads(w)
  <2>1. /\ p.pc \in EnsuredSteps
        /\ \E pc \in EnsuredSteps \cup (Steps \ There) : To(w, pc)
    BY <1>17
    DEF EnsureStarted, AfterEnsure, AfterCheck, Generate, Persist, BeforePublish, BeginPublication,
        PublishFind, PublishPost, MarkPublished, Threads, At, EnsuredSteps, Steps
  <2>2. QED
    BY <1>1, <1>14, <2>1
<1>18. CASE \/ PersistSkip(w) \/ EnsureFailed(w) \/ GenerationFailed(w) \/ CheckFailed(w)
            \/ PublishFailed(w)
  <2>1. PersistSkip(w) => To(w, "ensure") \/ To(w, "fail")
    BY DEF PersistSkip
  <2>2. QED
    BY <1>1, <1>18, <2>1
    DEF EnsureFailed, GenerationFailed, CheckFailed, PublishFailed, Steps, EnsuredSteps
<1>19. CASE GetCheck(w)
  <2>1. q.pc = "complete" /\ q.next = p.next /\ p.pc = "getCheck"
    BY <1>0, <1>19 DEF GetCheck, At, Process
  <2>2. p.next # "final"
    BY <2>1 DEF Fits, CompletionSteps
  <2>3. QED
    BY <2>1, <2>2 DEF EnsuredStep, Ensured, EnsuredSteps
<1>20. CASE BeginCompletion(w)
  <2>1. CASE ~p.handle.open \/ check.status = "completed"
    <3>1. p.pc = "complete" /\ Return(w) /\ check' = check
      BY <1>20, <2>1 DEF BeginCompletion, At
    <3>2. p.next = "final" => Ensured(p)
      BY <3>1 DEF Ensured
    <3>3. QED
      BY <1>4, <2>1, <3>1, <3>2
  <2>2. CASE ~(~p.handle.open \/ check.status = "completed")
    <3>1. \E pc \in {"exhausted", "completeFind", "completing"} : To(w, pc)
      BY <1>20, <2>2 DEF BeginCompletion
    <3>2. QED
      BY <1>1, <3>1 DEF Steps, EnsuredSteps
  <2>3. QED
    BY <2>1, <2>2
<1>21. CASE MarkCompleted(w)
  <2>1. CASE Finishable
    BY <1>0, <1>4, <1>21, <2>1 DEF MarkCompleted, CheckRow
  <2>2. CASE ~Finishable
    BY <1>3, <1>21, <2>2 DEF MarkCompleted
  <2>3. QED
    BY <2>1, <2>2
<1>22. CASE CompleteFind(w)
  <2>1. ASSUME NEW ext, proc' = [proc EXCEPT ![w].pc = "completeStarted", ![w].handle.ext = ext]
        PROVE  EnsuredStep(w)
    <3>1. q.pc = "completeStarted"
      BY <1>0, <2>1 DEF Process
    <3>2. QED
      BY <1>a, <3>1 DEF EnsuredSteps
  <2>2. QED
    BY <1>1, <1>22, <2>1 DEF CompleteFind, Steps, EnsuredSteps
<1>23. CASE Exhausted(w) \/ CompleteStarted(w) \/ Completing(w) \/ Patch(w) \/ Unfinished(w)
  <2>1. Raise(w) \/ \E pc \in Steps \ There : To(w, pc)
    BY <1>23 DEF Exhausted, CompleteStarted, Completing, Patch, Unfinished, Steps, EnsuredSteps
  <2>2. QED
    BY <1>1, <1>3, <2>1
<1>24. CASE Final(w)
  <2>1. CASE IsCurrent(w, p.job)
    <3>1. q.pc = "completeJob" /\ p.pc = "final" /\ check' = check
      BY <1>24, <2>1, ToKeeps DEF Final, At, rows, Steps
    <3>2. QED
      BY <2>1, <3>1 DEF EnsuredStep, Ensured, EnsuredSteps
  <2>2. CASE ~IsCurrent(w, p.job)
    BY <1>1, <1>24, <2>2 DEF Final, Steps, EnsuredSteps
  <2>3. QED
    BY <2>1, <2>2
<1>25. CASE Supersede(w) \/ CompleteJob(w) \/ Fail(w) \/ Crash(w)
  <2>1. Rest(w) \/ \E pc \in Steps \ There : To(w, pc)
    BY <1>25 DEF Supersede, CompleteJob, Fail, Crash, Steps, EnsuredSteps
  <2>2. QED
    BY <1>1, <1>2, <2>1
<1>26. QED
  BY <1>5, <1>6, <1>8, <1>9, <1>10, <1>11, <1>12, <1>13, <1>15, <1>16, <1>17, <1>18, <1>19, <1>20,
     <1>21, <1>22, <1>23, <1>24, <1>25 DEF Work

\* A check ends cancelled only for a revision that was replaced, and a job that
\* succeeds leaves its check with a verdict, when no worker loses its lease,
\* the revision has one job and its policy asks for a status check
\* (process_review_job).
THEOREM ChecksFollowReviews ==
    ASSUME ~Stalls, NumJobs = 1, StatusCheck = {TRUE}
    PROVE  Spec => []CheckFollowsReview
<1>0. Jobs = {1}
  BY DEF Jobs
<1>1. Init => PInv /\ GInv /\ SInv
  <2>1. Init => SInv
    BY <1>0 DEF Init, SInv, Ensured, EnsuredSteps, Idle
  <2>2. QED
    BY <2>1, InitPInv, InitGInv
<1>2. JInv /\ PInv /\ [Next]_vars => PInv'
  BY NextPInv
<1>3. JInv /\ [Next]_vars => JInv'
  BY NextJInv
<1>4. JInv /\ PInv /\ GInv /\ [Next]_vars => GInv'
  BY NextGInv
<1>5. ASSUME JInv, GInv, SInv, GInv', [Next]_vars PROVE SInv'
  <2>0. Typed
    BY <1>5 DEF JInv
  <2>1. CASE UNCHANGED vars
    BY <1>5, <2>1 DEF vars, SInv
  <2>2. CASE (\E j \in Jobs : LeaseExpires(j)) \/ MoveHead \/ Enqueue
    <3>1. UNCHANGED <<check, proc>> /\ Next
      BY <2>2 DEF rows, LeaseExpires, MoveHead, Enqueue, Next
    <3>2. jobs'[1].status = "succeeded" =>
            jobs[1].status = "succeeded" \/ \E w \in Workers : At(w, "completeJob")
      BY <1>0, <1>5, <3>1, JobsMove
    <3>3. QED
      BY <1>5, <3>1, <3>2 DEF SInv, At
  <2>3. ASSUME NEW w \in Workers, Work(w) \/ Crash(w)
        PROVE  SInv'
    <3>1. \A v \in Workers \ {w} : proc'[v] = proc[v]
      BY <2>0, <2>3, OwnProcess DEF Moves, Typed
    <3>2. EnsuredStep(w)
      BY <2>0, <1>5, <2>3, EnsuredKeeps DEF GInv, Knows
    <3>3. /\ check.status = "completed" => check' = check
          /\ check.conclusion = "verdict" => check' = check
      <4>1. check.status = "completed" => check' = check
        BY <2>0, <2>3, CheckSteps
      <4>2. check.conclusion = "verdict" => check.status = "completed"
        BY <1>5 DEF GInv, Shown
      <4>3. QED
        BY <4>1, <4>2
    <3>4. jobs'[1].status = "succeeded" => check'.conclusion = "verdict"
      <4>1. jobs'[1].status = "succeeded" =>
              jobs[1].status = "succeeded" \/ \E v \in Workers : At(v, "completeJob")
        BY <1>0, <1>5, <2>3, JobsMove DEF Next
      <4>2. QED
        BY <1>5, <3>3, <4>1 DEF SInv, At
    <3>5. proc'[w].pc = "completeJob" => check'.conclusion = "verdict"
      <4>1. SUFFICES ASSUME proc'[w].pc = "completeJob" PROVE check'.conclusion = "verdict"
        OBVIOUS
      <4>2. IsCurrent(w, proc[w].job) /\ proc[w].pc = "final" /\ check' = check
        BY <3>2, <4>1 DEF EnsuredStep
      <4>3. check.status = "completed" /\ wanted
        BY <1>5, <4>2 DEF SInv, IsCurrent
      <4>4. ~Over(1)
        <5>1. Working(proc[w])
          BY <4>2 DEF Working, CompletionSteps
        <5>2. proc[w].job = 1
          BY <1>0, <1>5, <5>1 DEF JInv, AtWork, Placed
        <5>3. QED
          BY <4>2, <5>2 DEF IsCurrent, OwnsLease, Over, TERMINAL_JOB_STATUSES
      <4>5. check.conclusion \in {"verdict", "cancelled", "failure", "none"}
        BY <2>0 DEF Typed, CheckRow, Conclusions
      <4>6. check.conclusion \notin {"none", "cancelled", "failure"}
        BY <1>5, <4>3, <4>4 DEF GInv, Shown
      <4>7. QED
        BY <4>2, <4>5, <4>6
    <3>6. /\ Ensured(proc'[w]) /\ ~proc'[w].handle.open => check'.status = "completed"
          /\ proc'[w].pc = "final" => check'.status = "completed"
      <4>1. Ensured(proc[w]) /\ ~proc[w].handle.open => check.status = "completed"
        BY <1>5 DEF SInv
      <4>2. QED
        BY <3>2, <3>3, <4>1 DEF EnsuredStep
    <3>7. ASSUME NEW v \in Workers
          PROVE  /\ Ensured(proc'[v]) /\ ~proc'[v].handle.open => check'.status = "completed"
                 /\ proc'[v].pc = "final" => check'.status = "completed"
                 /\ proc'[v].pc = "completeJob" => check'.conclusion = "verdict"
      <4>1. CASE v = w
        BY <3>5, <3>6, <4>1
      <4>2. CASE v # w
        BY <1>5, <3>1, <3>3, <4>2 DEF SInv
      <4>3. QED
        BY <4>1, <4>2
    <3>8. QED
      BY <3>4, <3>7 DEF SInv
  <2>4. QED
    BY <1>5, <2>1, <2>2, <2>3 DEF Next
<1>6. GInv /\ SInv => CheckFollowsReview
  BY <1>0
  DEF GInv, Shown, SInv, CheckFollowsReview, CancelledOnlyIfUnwanted, SucceededJobHasVerdict
<1>7. QED
  BY <1>1, <1>2, <1>3, <1>4, <1>5, <1>6, InitJInv, PTL DEF Spec
-----------------------------------------------------------------------------
(* The check of a revision whose workers may be late, with any jobs.       *)

\* What holds of the check and of the workers at it, whoever lost its lease: a
\* job succeeds after its check is completed, and a failure is shown for a job
\* that was given up.
OInv ==
    /\ check.conclusion = "failure" => \E j \in Jobs : Over(j)
    /\ \A j \in Jobs : jobs[j].status = "succeeded" => check.status = "completed"
    /\ \A w \in Workers :
         /\ Fits(proc[w])
         /\ Finalizing(proc[w]) => \E j \in Jobs : Over(j)
         /\ Ensured(proc[w]) /\ ~proc[w].handle.open => check.status = "completed"
         /\ proc[w].pc \in {"final", "completeJob"} => check.status = "completed"

LEMMA InitOInv == Init => OInv
BY DEF Init, OInv, Fits, Finalizing, Ensured, EnsuredSteps, CompletionSteps, Idle

LEMMA NextOInv ==
    ASSUME StatusCheck = {TRUE}, JInv, OInv, [Next]_vars
    PROVE  OInv'
<1>0. Typed
  BY DEF JInv
<1>1. CASE UNCHANGED vars
  BY <1>1 DEF vars, OInv, Over
<1>2. ASSUME Next
      PROVE  /\ (\E j \in Jobs : Over(j)) => \E j \in Jobs : Over(j)'
             /\ \A j \in Jobs : jobs'[j].status = "succeeded" => check.status = "completed"
  <2>1. ASSUME NEW j \in Jobs
        PROVE  /\ Over(j) => Over(j)'
               /\ jobs'[j].status = "succeeded" =>
                    jobs[j].status = "succeeded" \/ \E w \in Workers : At(w, "completeJob")
    BY <1>2, JobsMove DEF Over
  <2>2. QED
    BY <2>1 DEF OInv, At
<1>3. CASE (\E j \in Jobs : LeaseExpires(j)) \/ MoveHead \/ Enqueue
  <2>1. UNCHANGED <<check, proc>> /\ Next
    BY <1>3 DEF rows, LeaseExpires, MoveHead, Enqueue, Next
  <2>2. QED
    BY <1>2, <2>1 DEF OInv
<1>4. ASSUME NEW w \in Workers, Work(w) \/ Crash(w)
      PROVE  OInv'
  <2> DEFINE p == proc[w]  q == proc'[w]
  <2>1. Next
    BY <1>4 DEF Next
  <2>2. \A v \in Workers \ {w} : proc'[v] = proc[v]
    BY <1>0, <1>4, OwnProcess DEF Moves, Typed
  <2>3. Fits(p) /\ (Finalizing(p) => \E j \in Jobs : Over(j))
    BY DEF OInv
  <2>4. CompletionStep(w) /\ EnsuredStep(w)
    BY <1>0, <1>4, <2>3, CompletionKeeps, EnsuredKeeps
  <2>5. check.status = "completed" => check' = check
    BY <1>0, <1>4, CheckSteps
  <2>6. check'.conclusion = "failure" => \E j \in Jobs : Over(j)'
    <3>1. \/ check'.conclusion \in {"none", check.conclusion}
          \/ At(w, "markCompleted") /\ check'.conclusion = p.conclusion
      BY <1>0, <1>4, CheckSteps
    <3>2. At(w, "markCompleted") /\ p.conclusion = "failure" => Finalizing(p)
      BY <2>3 DEF At, Fits, Finalizing, CompletionSteps
    <3>3. QED
      BY <1>2, <2>1, <2>3, <3>1, <3>2 DEF OInv
  <2>7. Fits(q)
    BY <2>4 DEF CompletionStep
  <2>8. Finalizing(q) => \E j \in Jobs : Over(j)'
    <3>1. p.pc = "terminal" => \E j \in Jobs : Over(j)
      BY DEF JInv, AtWork, Placed, Over
    <3>2. QED
      BY <1>2, <2>1, <2>3, <2>4, <3>1 DEF CompletionStep
  <2>9. /\ Ensured(q) /\ ~q.handle.open => check'.status = "completed"
        /\ q.pc \in {"final", "completeJob"} => check'.status = "completed"
    <3>1. /\ Ensured(p) /\ ~p.handle.open => check.status = "completed"
          /\ p.pc = "final" => check.status = "completed"
      BY DEF OInv
    <3>2. QED
      BY <2>4, <2>5, <3>1 DEF EnsuredStep
  <2>10. ASSUME NEW v \in Workers
         PROVE  /\ Fits(proc'[v])
                /\ Finalizing(proc'[v]) => \E j \in Jobs : Over(j)'
                /\ Ensured(proc'[v]) /\ ~proc'[v].handle.open => check'.status = "completed"
                /\ proc'[v].pc \in {"final", "completeJob"} => check'.status = "completed"
    <3>1. CASE v = w
      BY <2>7, <2>8, <2>9, <3>1
    <3>2. CASE v # w
      BY <1>2, <2>1, <2>2, <2>5, <3>2 DEF OInv
    <3>3. QED
      BY <3>1, <3>2
  <2>11. \A j \in Jobs : jobs'[j].status = "succeeded" => check'.status = "completed"
    BY <1>2, <2>1, <2>5
  <2>12. QED
    BY <2>6, <2>10, <2>11 DEF OInv
<1>5. QED
  BY <1>1, <1>3, <1>4 DEF Next

\* With any number of jobs and attempts, and with leases that run out under
\* workers that are still alive: a job succeeds only after its check was
\* completed, a check fails only if some job of the revision was given up, and
\* a worker that still owns its job is not about to cancel the check of a
\* wanted revision (process_review_job, _complete_native_check,
\* _finalize_terminal_review).  The policy asks for a status check throughout.
THEOREM ChecksConcludedRightly ==
    ASSUME StatusCheck = {TRUE}
    PROVE  Spec => []ConcludedRightly
<1>1. JInv /\ [Next]_vars => JInv'
  BY NextJInv
<1>2. JInv /\ OInv /\ [Next]_vars => OInv'
  BY NextOInv
<1>3. ASSUME JInv, OInv PROVE ConcludedRightly
  <2>1. SucceededJobConcludesCheck /\ FailureNeedsLostJob
    BY <1>3 DEF OInv, Over, SucceededJobConcludesCheck, FailureNeedsLostJob
  <2>2. ASSUME NEW w \in Workers,
               proc[w].pc \in {"complete", "completeFind", "completeStarted", "completing", "patch",
                               "markCompleted"},
               proc[w].conclusion = "cancelled", wanted
        PROVE  ~OwnsLease(w, proc[w].job)
    <3>1. proc[w].next = "supersede"
      BY <1>3, <2>2 DEF OInv, Fits, CompletionSteps
    <3>2. Working(proc[w]) /\ Losing(proc[w])
      BY <2>2, <3>1 DEF Working, Losing
    <3>3. QED
      BY <1>3, <2>2, <3>2 DEF JInv, AtWork, Placed
  <2>3. QED
    BY <2>1, <2>2 DEF ConcludedRightly, OwnerCancelsOnlyIfUnwanted
<1>4. QED
  BY <1>1, <1>2, <1>3, InitJInv, InitOInv, PTL DEF Spec
=============================================================================
