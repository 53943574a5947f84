------------------------ MODULE WorkflowQueueProofs ------------------------
(***************************************************************************)
(* Machine-checked proofs about WorkflowQueue, for every value of its      *)
(* constants that satisfies QueueAssumption.                               *)
(***************************************************************************)
EXTENDS WorkflowQueue, FiniteSetTheorems, TLAPS

-----------------------------------------------------------------------------
(* Rows.                                                                   *)

\* Closing a row (complete, supersede, fail, sweep) keeps its identity.
LEMMA FinishedRow ==
    ASSUME NEW job \in Job, NEW status \in Active \cup Settled, NEW result \in AttemptStatus
    PROVE  /\ Finished(job, status, result) \in Job
           /\ Finished(job, status, result).key = job.key
           /\ Finished(job, status, result).status = status
           /\ Finished(job, status, result).attempt = job.attempt
           /\ Finished(job, status, result).retired = job.retired
<1> DEFINE log == IF job.log[job.attempt] = "running"
                  THEN [job.log EXCEPT ![job.attempt] = result] ELSE job.log
<1>1. log \in [1..MaxAttempts -> AttemptStatus]
  BY DEF Job
<1>2. Finished(job, status, result) =
        [job EXCEPT !.status = status, !.leasedBy = Nobody, !.lease = NoLease, !.log = log]
  BY DEF Finished
<1> HIDE DEF log
<1>3. NoLease \in Int
  BY DEF NoLease
<1>4. QED
  BY <1>1, <1>2, <1>3 DEF Job

\* A row taken back from an expired lease is queued again or dead.
LEMMA SweptRow ==
    ASSUME NEW job \in Job, now \in Nat
    PROVE  /\ SweptJob(job) \in Job
           /\ SweptJob(job).key = job.key
           /\ SweptJob(job).status = IF job.attempt >= MaxAttempts THEN "dead" ELSE "queued"
           /\ SweptJob(job).attempt = job.attempt
           /\ SweptJob(job).retired = job.retired
<1> DEFINE st == IF job.attempt >= MaxAttempts THEN "dead" ELSE "queued"
<1> DEFINE freed == Finished(job, st, "lease_expired")
<1> DEFINE delay == IF job.attempt > 1
                    THEN AtMost(BaseDelay * 2^(job.attempt - 2), MaxDelay) ELSE 0
<1>1. st \in Active \cup Settled /\ "lease_expired" \in AttemptStatus
  BY DEF Active, Settled, TERMINAL_JOB_STATUSES, AttemptStatus
<1>2. /\ freed \in Job /\ freed.key = job.key /\ freed.status = st
      /\ freed.attempt = job.attempt /\ freed.retired = job.retired
  BY <1>1, FinishedRow
<1>3. delay \in Int
  BY QueueAssumption DEF AtMost, Job
<1>4. SweptJob(job) = [freed EXCEPT !.available = now + delay]
  BY DEF SweptJob
<1> HIDE DEF freed, delay
<1>5. now + delay \in Int
  BY <1>3
<1>6. QED
  BY <1>2, <1>4, <1>5 DEF Job

\* fail_workflow_job: queued again while attempts remain, otherwise settled.
LEMMA FailedRow ==
    ASSUME NEW job \in Job, NEW retryable \in BOOLEAN, now \in Nat
    PROVE  /\ FailedJob(job, retryable) \in Job
           /\ FailedJob(job, retryable).key = job.key
           /\ FailedJob(job, retryable).status \in {"queued", "dead", "failed"}
           /\ FailedJob(job, retryable).status = "queued" => job.attempt < MaxAttempts
           /\ FailedJob(job, retryable).attempt = job.attempt
           /\ FailedJob(job, retryable).retired = job.retired
<1> DEFINE retry == retryable /\ job.attempt < MaxAttempts
<1> DEFINE st == CASE retry -> "queued"
                   [] ~retry /\ retryable -> "dead"
                   [] ~retry /\ ~retryable -> "failed"
<1> DEFINE done == Finished(job, st, "failed")
<1> DEFINE delay == AtMost(BaseDelay * 2^(job.attempt - 1), MaxDelay)
<1> DEFINE due == IF retry THEN now + delay ELSE done.available
<1>1. st \in {"queued", "dead", "failed"} /\ (st = "queued" => job.attempt < MaxAttempts)
  OBVIOUS
<1>2. st \in Active \cup Settled /\ "failed" \in AttemptStatus
  BY <1>1 DEF Active, Settled, TERMINAL_JOB_STATUSES, AttemptStatus
<1> HIDE DEF st
<1>3. /\ done \in Job /\ done.key = job.key /\ done.status = st
      /\ done.attempt = job.attempt /\ done.retired = job.retired
  BY <1>2, FinishedRow
<1>4. FailedJob(job, retryable) = [done EXCEPT !.available = due]
  BY DEF FailedJob, st
<1> HIDE DEF done
<1>5. due \in Int
  BY <1>3, QueueAssumption DEF AtMost, Job
<1> HIDE DEF due
<1>6. QED
  BY <1>1, <1>3, <1>4, <1>5 DEF Job

\* claim_workflow_job opens one more attempt of a job that has one left.
LEMMA LeasedRow ==
    ASSUME NEW job \in Job, NEW w \in Workers, now \in Nat, job.attempt < MaxAttempts
    PROVE  /\ Leased(job, w) \in Job
           /\ Leased(job, w).key = job.key
           /\ Leased(job, w).status = "running"
           /\ Leased(job, w).attempt = job.attempt + 1
           /\ Leased(job, w).retired = job.retired
<1> DEFINE log == [job.log EXCEPT ![job.attempt + 1] = "running"]
<1>1. log \in [1..MaxAttempts -> AttemptStatus]
  BY DEF Job, AttemptStatus
<1>2. now + LeaseSeconds \in Int /\ job.attempt + 1 \in 0..MaxAttempts
  BY QueueAssumption DEF Job
<1>3. "running" \in Active \cup Settled
  BY DEF Active
<1>4. Leased(job, w) =
        [job EXCEPT !.status = "running", !.attempt = job.attempt + 1,
                    !.leasedBy = w, !.lease = now + LeaseSeconds, !.log = log]
  BY DEF Leased
<1> HIDE DEF log
<1>5. QED
  BY <1>1, <1>2, <1>3, <1>4 DEF Job

\* A freshly inserted row.
LEMMA NewRow ==
    ASSUME NEW k \in Key, NEW due \in Int
    PROVE  /\ NewJob(k, due) \in Job
           /\ NewJob(k, due).key = k
           /\ NewJob(k, due).status = "queued"
           /\ NewJob(k, due).attempt = 0
           /\ NewJob(k, due).retired = FALSE
           /\ NewJob(k, due).available = due
BY QueueAssumption DEF NewJob, Job, Active, AttemptStatus, NoLease

-----------------------------------------------------------------------------
(* Tables.                                                                 *)

\* A table whose rows are rewritten one by one is a table of the same length.
LEMMA RewrittenTable ==
    ASSUME NEW table \in Seq(Job), NEW f, DOMAIN f = DOMAIN table,
           f = [j \in DOMAIN table |-> f[j]],
           \A j \in DOMAIN table : f[j] \in Job
    PROVE  f \in Seq(Job) /\ Len(f) = Len(table)
OBVIOUS

\* The lease sweep rewrites exactly the expired rows.
LEMMA SweptTable ==
    ASSUME NEW table \in Seq(Job), now \in Nat
    PROVE  /\ Swept(table) \in Seq(Job)
           /\ Len(Swept(table)) = Len(table)
           /\ DOMAIN Swept(table) = DOMAIN table
           /\ \A j \in DOMAIN table :
                Swept(table)[j] = IF Expired(table[j]) THEN SweptJob(table[j]) ELSE table[j]
<1>1. \A j \in DOMAIN table :
        Swept(table)[j] = IF Expired(table[j]) THEN SweptJob(table[j]) ELSE table[j]
  BY DEF Swept
<1>2. \A j \in DOMAIN table : Swept(table)[j] \in Job
  BY <1>1, SweptRow
<1>3. Swept(table) = [j \in DOMAIN table |-> Swept(table)[j]] /\ DOMAIN Swept(table) = DOMAIN table
  BY DEF Swept
<1>4. QED
  BY <1>1, <1>2, <1>3, RewrittenTable

\* Retiring a key changes nothing but the flag of dead and failed rows.
LEMMA RetiredTable ==
    ASSUME NEW table \in Seq(Job), NEW k
    PROVE  /\ RetireTerminalJob(table, k) \in Seq(Job)
           /\ Len(RetireTerminalJob(table, k)) = Len(table)
           /\ DOMAIN RetireTerminalJob(table, k) = DOMAIN table
           /\ \A j \in DOMAIN table :
                RetireTerminalJob(table, k)[j] =
                  IF table[j].key = k /\ table[j].status \in TERMINAL_JOB_STATUSES
                  THEN [table[j] EXCEPT !.retired = TRUE] ELSE table[j]
<1> DEFINE f == RetireTerminalJob(table, k)
<1>1. \A j \in DOMAIN table :
         f[j] = IF table[j].key = k /\ table[j].status \in TERMINAL_JOB_STATUSES
                THEN [table[j] EXCEPT !.retired = TRUE] ELSE table[j]
  BY DEF RetireTerminalJob
<1>2. \A job \in Job : [job EXCEPT !.retired = TRUE] \in Job
  BY DEF Job
<1>3. f = [j \in DOMAIN table |-> f[j]] /\ DOMAIN f = DOMAIN table
  BY DEF RetireTerminalJob
<1>4. \A j \in DOMAIN table : table[j] \in Job
  OBVIOUS
<1> HIDE DEF f
<1>5. \A j \in DOMAIN table : f[j] \in Job
  BY <1>1, <1>2, <1>4, Zenon
<1>6. f \in Seq(Job) /\ Len(f) = Len(table)
  BY <1>3, <1>5, RewrittenTable
<1>7. QED
  BY <1>1, <1>3, <1>6 DEF f

\* Closing the queued rows of a scope changes only their status.
LEMMA ClosedTable ==
    ASSUME NEW table \in Seq(Job), NEW s, NEW status \in Settled, NEW keep
    PROVE  /\ CloseQueued(table, s, status, keep) \in Seq(Job)
           /\ Len(CloseQueued(table, s, status, keep)) = Len(table)
           /\ DOMAIN CloseQueued(table, s, status, keep) = DOMAIN table
           /\ \A j \in DOMAIN table :
                \/ CloseQueued(table, s, status, keep)[j] = table[j]
                \/ /\ table[j].status = "queued" /\ table[j].key.scope = s
                   /\ CloseQueued(table, s, status, keep)[j] = [table[j] EXCEPT !.status = status]
<1> DEFINE f == CloseQueued(table, s, status, keep)
<1>1. \A j \in DOMAIN table :
        \/ f[j] = table[j]
        \/ /\ table[j].status = "queued" /\ table[j].key.scope = s
           /\ f[j] = [table[j] EXCEPT !.status = status]
  BY DEF CloseQueued, InScope
<1>2. \A job \in Job : [job EXCEPT !.status = status] \in Job
  BY DEF Job
<1>3. f = [j \in DOMAIN table |-> f[j]] /\ DOMAIN f = DOMAIN table
  BY DEF CloseQueued
<1>4. \A j \in DOMAIN table : table[j] \in Job
  OBVIOUS
<1> HIDE DEF f
<1>5. ASSUME NEW j \in DOMAIN table PROVE f[j] \in Job
  <2>1. [table[j] EXCEPT !.status = status] \in Job
    BY <1>2, <1>4
  <2>2. f[j] = table[j] \/ f[j] = [table[j] EXCEPT !.status = status]
    BY <1>1, Zenon
  <2>3. QED
    BY <1>4, <2>1, <2>2, Zenon
<1>6. f \in Seq(Job) /\ Len(f) = Len(table)
  BY <1>3, <1>5, RewrittenTable
<1>7. QED
  BY <1>1, <1>3, <1>6 DEF f

\* It closes each of them that is not for commit `keep`.
LEMMA ClosedRows ==
    ASSUME NEW table, NEW s, NEW status, NEW keep, NEW j \in DOMAIN table,
           table[j].status = "queued", table[j].key.scope = s, table[j].key.head # keep
    PROVE  CloseQueued(table, s, status, keep)[j] = [table[j] EXCEPT !.status = status]
BY DEF CloseQueued, InScope

\* Disabling a repository cancels the queued rows and no other.
LEMMA CancelledTable ==
    ASSUME NEW table \in Seq(Job)
    PROVE  /\ CancelQueued(table) \in Seq(Job)
           /\ Len(CancelQueued(table)) = Len(table)
           /\ DOMAIN CancelQueued(table) = DOMAIN table
           /\ \A j \in DOMAIN table :
                \/ CancelQueued(table)[j] = table[j]
                \/ /\ table[j].status = "queued"
                   /\ CancelQueued(table)[j] = [table[j] EXCEPT !.status = "cancelled"]
<1> DEFINE f == CancelQueued(table)
<1>1. \A j \in DOMAIN table :
        \/ f[j] = table[j]
        \/ table[j].status = "queued" /\ f[j] = [table[j] EXCEPT !.status = "cancelled"]
  BY DEF CancelQueued
<1>2. \A job \in Job : [job EXCEPT !.status = "cancelled"] \in Job
  BY DEF Job, Settled
<1>3. f = [j \in DOMAIN table |-> f[j]] /\ DOMAIN f = DOMAIN table
  BY DEF CancelQueued
<1>4. \A j \in DOMAIN table : table[j] \in Job
  OBVIOUS
<1> HIDE DEF f
<1>5. ASSUME NEW j \in DOMAIN table PROVE f[j] \in Job
  <2>1. [table[j] EXCEPT !.status = "cancelled"] \in Job
    BY <1>2, <1>4
  <2>2. f[j] = table[j] \/ f[j] = [table[j] EXCEPT !.status = "cancelled"]
    BY <1>1, Zenon
  <2>3. QED
    BY <1>4, <2>1, <2>2, Zenon
<1>6. f \in Seq(Job) /\ Len(f) = Len(table)
  BY <1>3, <1>5, RewrittenTable
<1>7. QED
  BY <1>1, <1>3, <1>6 DEF f

-----------------------------------------------------------------------------
(* The shape of a step.                                                    *)

\* What a transaction may do to one row.
RowMoves(o, n) ==
    /\ n.key = o.key
    /\ \/ n.status = o.status
       \/ o.status = "queued" /\ n.status \in {"running", "cancelled", "superseded"}
       \/ o.status = "running" /\ n.status \in {"queued", "dead", "failed", "succeeded", "superseded"}
    /\ \/ n.retired = o.retired
       \/ n.retired = TRUE /\ o.status \in TERMINAL_JOB_STATUSES
    /\ n.status = "queued" => n.attempt < MaxAttempts
    /\ \/ n.attempt = o.attempt /\ (n.status = "running" => o.status = "running")
       \/ n.attempt = o.attempt + 1 /\ n.status = "running"

\* Row j of the table starts a turn only when its scope is free.
StartsAlone(table, j) ==
    \A i \in DOMAIN table :
        table[i].key.scope = table[j].key.scope /\ i # j =>
            /\ table[i].status # "running"
            /\ i < j => table[i].status \in Settled

Rewrites(t, u) ==
    /\ u \in Seq(Job)
    /\ Len(u) = Len(t) /\ DOMAIN u = DOMAIN t
    /\ \A j \in DOMAIN t : RowMoves(t[j], u[j])
    /\ \A j \in DOMAIN t :
          t[j].status # "running" /\ u[j].status = "running" => StartsAlone(u, j)

Extends(t, u) ==
    /\ u \in Seq(Job)
    /\ Len(u) = Len(t) + 1 /\ DOMAIN u = DOMAIN t \cup {Len(t) + 1}
    /\ LET n == u[Len(t) + 1] IN
       /\ n.status = "queued" /\ n.attempt = 0 /\ ~n.retired
       /\ \A j \in DOMAIN t :
            /\ RowMoves(t[j], u[j])
            /\ u[j].key = n.key => u[j].retired
            /\ \/ u[j].status = t[j].status
               \/ /\ t[j].status = "queued" /\ u[j].status = "superseded"
                  /\ t[j].key.scope = n.key.scope

IndInv == TypeOK /\ QueuedHasAttemptsLeft

\* The table u has a new job, beside no queued job of its scope but for `keep`.
Displaces(u, k, due, keep) ==
    /\ Extends(jobs, u)
    /\ u[Len(jobs) + 1].key = k /\ u[Len(jobs) + 1].available = due
    /\ \A j \in DOMAIN jobs : u[j].status = "queued" =>
          jobs[j].key.scope # k.scope \/ jobs[j].key.head = keep

\* A new job with key k displaces the queued jobs of its scope and frees k.
LEMMA SubmitExtends ==
    ASSUME IndInv, NEW k \in Key, NEW due \in Int, NEW keep,
           \A j \in Holders(k) : jobs[j].status \in TERMINAL_JOB_STATUSES
    PROVE  Displaces(Append(CloseQueued(RetireTerminalJob(jobs, k), k.scope, "superseded", keep),
                            NewJob(k, due)), k, due, keep)
<1> DEFINE r == RetireTerminalJob(jobs, k)
           c == CloseQueued(r, k.scope, "superseded", keep)
           n == NewJob(k, due)
           u == Append(c, n)
<1>1. jobs \in Seq(Job) /\ \A j \in DOMAIN jobs : jobs[j] \in Job
  BY DEF IndInv, TypeOK
<1>2. /\ r \in Seq(Job) /\ Len(r) = Len(jobs) /\ DOMAIN r = DOMAIN jobs
      /\ \A j \in DOMAIN jobs :
           r[j] = IF jobs[j].key = k /\ jobs[j].status \in TERMINAL_JOB_STATUSES
                  THEN [jobs[j] EXCEPT !.retired = TRUE] ELSE jobs[j]
  BY <1>1, RetiredTable
<1>3. "superseded" \in Settled
  BY DEF Settled
<1> HIDE DEF r
<1>4. /\ c \in Seq(Job) /\ Len(c) = Len(r) /\ DOMAIN c = DOMAIN r
      /\ \A j \in DOMAIN r :
           \/ c[j] = r[j]
           \/ /\ r[j].status = "queued" /\ r[j].key.scope = k.scope
              /\ c[j] = [r[j] EXCEPT !.status = "superseded"]
      /\ \A j \in DOMAIN r :
           r[j].status = "queued" /\ r[j].key.scope = k.scope /\ r[j].key.head # keep =>
             c[j] = [r[j] EXCEPT !.status = "superseded"]
  <2>1. \A j \in DOMAIN r :
          r[j].status = "queued" /\ r[j].key.scope = k.scope /\ r[j].key.head # keep =>
            c[j] = [r[j] EXCEPT !.status = "superseded"]
    BY ClosedRows
  <2>2. QED
    BY <1>2, <1>3, <2>1, ClosedTable
<1> HIDE DEF c
<1>5. /\ n \in Job /\ n.key = k /\ n.status = "queued" /\ n.attempt = 0 /\ n.retired = FALSE
      /\ n.available = due
  BY NewRow
<1> HIDE DEF n
<1>6. /\ u \in Seq(Job) /\ Len(u) = Len(jobs) + 1
      /\ DOMAIN u = DOMAIN jobs \cup {Len(jobs) + 1}
      /\ u[Len(jobs) + 1] = n
      /\ \A j \in DOMAIN jobs : u[j] = c[j]
  BY <1>1, <1>2, <1>4, <1>5
<1> HIDE DEF u
<1>7. ASSUME NEW j \in DOMAIN jobs
      PROVE  /\ RowMoves(jobs[j], u[j])
             /\ u[j].key = n.key => u[j].retired
             /\ \/ u[j].status = jobs[j].status
                \/ /\ jobs[j].status = "queued" /\ u[j].status = "superseded"
                   /\ jobs[j].key.scope = n.key.scope
             /\ u[j].status = "queued" => jobs[j].key.scope # k.scope \/ jobs[j].key.head = keep
  <2>1. jobs[j] \in Job /\ jobs[j].retired \in BOOLEAN
    BY <1>1 DEF Job
  <2>2. jobs[j].status = "queued" => jobs[j].attempt < MaxAttempts
    BY DEF IndInv, QueuedHasAttemptsLeft
  <2>3. jobs[j].key = k /\ jobs[j].status \notin TERMINAL_JOB_STATUSES => jobs[j].retired
    BY <2>1 DEF Holders
  <2>4. /\ r[j] \in Job /\ r[j].key = jobs[j].key /\ r[j].status = jobs[j].status
        /\ r[j].attempt = jobs[j].attempt
        /\ r[j].key = k => r[j].retired
        /\ \/ r[j].retired = jobs[j].retired
           \/ r[j].retired = TRUE /\ jobs[j].status \in TERMINAL_JOB_STATUSES
    BY <1>2, <2>1, <2>3 DEF Job
  <2>5. /\ u[j].key = r[j].key /\ u[j].attempt = r[j].attempt /\ u[j].retired = r[j].retired
        /\ \/ u[j].status = r[j].status
           \/ /\ r[j].status = "queued" /\ u[j].status = "superseded"
              /\ r[j].key.scope = k.scope
    <3>1. u[j] = r[j] \/ (/\ r[j].status = "queued" /\ r[j].key.scope = k.scope
                          /\ u[j] = [r[j] EXCEPT !.status = "superseded"])
      BY <1>2, <1>4, <1>6
    <3>2. QED
      BY <3>1, <2>4 DEF Job
  <2>6. u[j].status = "queued" => jobs[j].key.scope # k.scope \/ jobs[j].key.head = keep
    <3> SUFFICES ASSUME u[j].status = "queued", jobs[j].key.scope = k.scope, jobs[j].key.head # keep
                 PROVE  FALSE
      OBVIOUS
    <3>1. u[j] = [r[j] EXCEPT !.status = "superseded"]
      BY <1>2, <1>4, <1>6, <2>4, <2>5
    <3>2. QED
      BY <2>4, <3>1 DEF Job
  <2>7. QED
    BY <1>5, <2>2, <2>4, <2>5, <2>6 DEF RowMoves
<1>8. QED
  BY <1>5, <1>6, <1>7 DEF Displaces, Extends, u, c, r, n

\* Leaving the table alone is a step of that shape.
LEMMA SameRewrites ==
    ASSUME IndInv
    PROVE  Rewrites(jobs, jobs)
BY DEF IndInv, TypeOK, QueuedHasAttemptsLeft, Rewrites, RowMoves

\* The lease sweep.
LEMMA SweepRewrites ==
    ASSUME IndInv
    PROVE  /\ Rewrites(jobs, Swept(jobs))
           /\ \A j \in DOMAIN jobs : Swept(jobs)[j].status = "running" => jobs[j].status = "running"
<1> DEFINE u == Swept(jobs)
<1>1. jobs \in Seq(Job) /\ now \in Nat /\ \A j \in DOMAIN jobs : jobs[j] \in Job
  BY QueueAssumption DEF IndInv, TypeOK
<1>2. /\ u \in Seq(Job) /\ Len(u) = Len(jobs) /\ DOMAIN u = DOMAIN jobs
      /\ \A j \in DOMAIN jobs :
           u[j] = IF Expired(jobs[j]) THEN SweptJob(jobs[j]) ELSE jobs[j]
  BY <1>1, SweptTable
<1> HIDE DEF u
<1>3. ASSUME NEW j \in DOMAIN jobs
      PROVE  RowMoves(jobs[j], u[j]) /\ (u[j].status = "running" => jobs[j].status = "running")
  <2>1. jobs[j] \in Job /\ jobs[j].attempt \in Nat
    BY <1>1 DEF Job
  <2>2. CASE Expired(jobs[j])
    <3>1. u[j] = SweptJob(jobs[j])
      BY <1>2, <2>2
    <3>2. QED
      BY <1>1, <2>1, <2>2, <3>1, SweptRow, QueueAssumption DEF RowMoves, Expired
  <2>3. CASE ~Expired(jobs[j])
    BY <1>2, <2>3 DEF RowMoves, IndInv, QueuedHasAttemptsLeft
  <2>4. QED
    BY <2>2, <2>3
<1>4. QED
  BY <1>2, <1>3 DEF Rewrites, u

\* A claim: the sweep, then one due job of a free scope starts.
LEMMA ClaimRewrites ==
    ASSUME IndInv, NEW w \in Workers, NEW j \in Claimable(Swept(jobs))
    PROVE  Rewrites(jobs, [Swept(jobs) EXCEPT ![j] = Leased(@, w)])
<1> DEFINE sw == Swept(jobs)
           row == Leased(sw[j], w)
           u == [sw EXCEPT ![j] = row]
<1>1. now \in Nat /\ jobs \in Seq(Job)
  BY QueueAssumption DEF IndInv, TypeOK
<1>2. /\ sw \in Seq(Job) /\ Len(sw) = Len(jobs) /\ DOMAIN sw = DOMAIN jobs
      /\ \A i \in DOMAIN jobs : RowMoves(jobs[i], sw[i])
      /\ \A i \in DOMAIN jobs : sw[i].status = "running" => jobs[i].status = "running"
  BY SweepRewrites DEF Rewrites
<1>3. /\ j \in DOMAIN sw /\ sw[j].status = "queued"
      /\ \A i \in DOMAIN sw : sw[i].key.scope = sw[j].key.scope =>
            /\ sw[i].status \in Active => ~(i < j)
            /\ sw[i].status # "running"
  BY DEF Claimable, InScope
<1> HIDE DEF sw
<1>4. \A i \in DOMAIN sw : sw[i] \in Job /\ sw[i].status \in Active \cup Settled
  <2>1. \A i \in DOMAIN sw : sw[i] \in Job
    BY <1>2
  <2>2. QED
    BY <2>1 DEF Job
<1>5. sw[j].attempt < MaxAttempts
  BY <1>2, <1>3 DEF RowMoves
<1>6. /\ row \in Job /\ row.key = sw[j].key /\ row.status = "running"
      /\ row.retired = sw[j].retired /\ row.attempt = sw[j].attempt + 1
  BY <1>1, <1>3, <1>4, <1>5, LeasedRow
<1> HIDE DEF row
<1>7. /\ u \in Seq(Job) /\ Len(u) = Len(jobs) /\ DOMAIN u = DOMAIN jobs
      /\ u[j] = row /\ \A i \in DOMAIN jobs : i # j => u[i] = sw[i]
  BY <1>2, <1>3, <1>6
<1> HIDE DEF u
<1>8. RowMoves(jobs[j], u[j])
  BY <1>2, <1>3, <1>6, <1>7 DEF RowMoves
<1>9. StartsAlone(u, j)
  BY <1>2, <1>3, <1>4, <1>6, <1>7 DEF StartsAlone
<1>10. Rewrites(jobs, u)
  BY <1>2, <1>7, <1>8, <1>9 DEF Rewrites
<1>11. QED
  BY <1>10 DEF u, row, sw

\* Replacing the row of a running job by one that is closed, or still running.
LEMMA RowRewrites ==
    ASSUME IndInv, NEW j \in DOMAIN jobs, NEW row \in Job,
           RowMoves(jobs[j], row), row.status = "running" => jobs[j].status = "running"
    PROVE  Rewrites(jobs, [jobs EXCEPT ![j] = row])
<1> DEFINE u == [jobs EXCEPT ![j] = row]
<1>1. /\ u \in Seq(Job) /\ Len(u) = Len(jobs) /\ DOMAIN u = DOMAIN jobs
      /\ u[j] = row /\ \A i \in DOMAIN jobs : i # j => u[i] = jobs[i]
  BY DEF IndInv, TypeOK
<1> HIDE DEF u
<1>2. \A i \in DOMAIN jobs : RowMoves(jobs[i], jobs[i])
  BY DEF RowMoves, IndInv, QueuedHasAttemptsLeft
<1>3. QED
  BY <1>1, <1>2 DEF Rewrites, u

\* The row a heartbeat writes differs in its lease only.
LEMMA BeatRewrites ==
    ASSUME IndInv, NEW w \in Workers, NEW j \in DOMAIN jobs
    PROVE  Rewrites(jobs, Beaten(jobs, w, j))
<1>1. CASE OwnsLease(w, jobs[j])
  <2> DEFINE row == [jobs[j] EXCEPT !.lease = now + LeaseSeconds]
  <2>1. jobs[j] \in Job /\ now + LeaseSeconds \in Int /\ jobs[j].status = "running"
    BY <1>1, QueueAssumption DEF IndInv, TypeOK, OwnsLease
  <2>2. /\ row \in Job /\ row.key = jobs[j].key /\ row.status = jobs[j].status
        /\ row.attempt = jobs[j].attempt /\ row.retired = jobs[j].retired
    BY <2>1 DEF Job
  <2>3. Beaten(jobs, w, j) = [jobs EXCEPT ![j] = row]
    BY <1>1 DEF Beaten
  <2> HIDE DEF row
  <2>4. RowMoves(jobs[j], row)
    BY <2>1, <2>2 DEF RowMoves
  <2>5. QED
    BY <2>1, <2>2, <2>3, <2>4, RowRewrites
<1>2. CASE ~OwnsLease(w, jobs[j])
  BY <1>2, SameRewrites DEF Beaten
<1>3. QED
  BY <1>1, <1>2

\* A worker that gives up its job closes the row it owns, or none.
LEMMA ReleaseRewrites ==
    ASSUME IndInv, NEW w \in Workers, NEW row, Release(w, row),
           row \in Job, row.key = jobs[held[w]].key, row.retired = jobs[held[w]].retired,
           row.attempt = jobs[held[w]].attempt,
           row.status \in {"queued", "dead", "failed", "succeeded", "superseded"},
           row.status = "queued" => row.attempt < MaxAttempts
    PROVE  Rewrites(jobs, jobs')
<1>1. held[w] \in DOMAIN jobs
  BY DEF IndInv, TypeOK, Release
<1>2. CASE OwnsLease(w, jobs[held[w]])
  <2>1. RowMoves(jobs[held[w]], row) /\ row.status # "running"
    BY <1>2 DEF RowMoves, OwnsLease
  <2>2. Rewrites(jobs, [jobs EXCEPT ![held[w]] = row])
    BY <1>1, <2>1, RowRewrites
  <2>3. QED
    BY <1>2, <2>2 DEF Release
<1>3. CASE ~OwnsLease(w, jobs[held[w]])
  BY <1>3, SameRewrites DEF Release
<1>4. QED
  BY <1>2, <1>3

\* Whatever a worker does, it rewrites rows and appends none.
LEMMA WorkRewrites ==
    ASSUME IndInv, NEW w \in Workers, Work(w)
    PROVE  Rewrites(jobs, jobs')
<1>1. held[w] # NoJob => held[w] \in DOMAIN jobs /\ jobs[held[w]] \in Job
  BY DEF IndInv, TypeOK
<1>2. now \in Nat
  BY QueueAssumption DEF IndInv, TypeOK
<1>3. CASE ClaimNothing(w)
  BY <1>3, SweepRewrites DEF ClaimNothing
<1>4. CASE ClaimJob(w)
  BY <1>4, ClaimRewrites DEF ClaimJob
<1>5. CASE HeartbeatWorkflowJob(w)
  BY <1>1, <1>5, BeatRewrites DEF HeartbeatWorkflowJob
<1>6. CASE HeartbeatAndCheck(w)
  BY <1>1, <1>6, BeatRewrites DEF HeartbeatAndCheck
<1>7. CASE CompleteWorkflowJob(w)
  <2> DEFINE row == CompletedJob(jobs[held[w]])
  <2>1. Release(w, row)
    BY <1>7 DEF CompleteWorkflowJob
  <2>2. "succeeded" \in Settled /\ "succeeded" \in AttemptStatus
    BY DEF Settled, AttemptStatus
  <2>3. /\ row \in Job /\ row.key = jobs[held[w]].key
        /\ row.retired = jobs[held[w]].retired /\ row.status = "succeeded"
        /\ row.attempt = jobs[held[w]].attempt
    BY <1>1, <2>1, <2>2, FinishedRow DEF CompletedJob, Release
  <2> HIDE DEF row
  <2>4. QED
    BY <2>1, <2>3, ReleaseRewrites
<1>8. CASE SupersedeWorkflowJob(w)
  <2> DEFINE row == SupersededJob(jobs[held[w]])
  <2>1. Release(w, row)
    BY <1>8 DEF SupersedeWorkflowJob
  <2>2. "superseded" \in Settled /\ "failed" \in AttemptStatus
    BY DEF Settled, AttemptStatus
  <2>3. /\ row \in Job /\ row.key = jobs[held[w]].key
        /\ row.retired = jobs[held[w]].retired /\ row.status = "superseded"
        /\ row.attempt = jobs[held[w]].attempt
    BY <1>1, <2>1, <2>2, FinishedRow DEF SupersededJob, Release
  <2> HIDE DEF row
  <2>4. QED
    BY <2>1, <2>3, ReleaseRewrites
<1>9. CASE FailWorkflowJob(w)
  <2>1. PICK retryable \in BOOLEAN : Release(w, FailedJob(jobs[held[w]], retryable))
    BY <1>9 DEF FailWorkflowJob
  <2> DEFINE row == FailedJob(jobs[held[w]], retryable)
  <2>2. /\ row \in Job /\ row.key = jobs[held[w]].key
        /\ row.retired = jobs[held[w]].retired /\ row.attempt = jobs[held[w]].attempt
        /\ row.status \in {"queued", "dead", "failed"}
        /\ row.status = "queued" => row.attempt < MaxAttempts
    BY <1>1, <1>2, <2>1, FailedRow DEF Release
  <2>3. Release(w, row)
    BY <2>1
  <2> HIDE DEF row
  <2>4. QED
    BY <2>2, <2>3, ReleaseRewrites
<1>10. CASE Crash(w)
  BY <1>10, SameRewrites DEF Crash
<1>11. QED
  BY <1>3, <1>4, <1>5, <1>6, <1>7, <1>8, <1>9, <1>10 DEF Work

\* Closing the queued rows of a scope, without a new job.
LEMMA CloseRewrites ==
    ASSUME IndInv, NEW s, NEW keep
    PROVE  Rewrites(jobs, CloseQueued(jobs, s, "cancelled", keep))
<1> DEFINE u == CloseQueued(jobs, s, "cancelled", keep)
<1>1. jobs \in Seq(Job) /\ \A j \in DOMAIN jobs : jobs[j] \in Job
  BY DEF IndInv, TypeOK
<1>2. /\ u \in Seq(Job) /\ Len(u) = Len(jobs) /\ DOMAIN u = DOMAIN jobs
      /\ \A j \in DOMAIN jobs :
           \/ u[j] = jobs[j]
           \/ jobs[j].status = "queued" /\ u[j] = [jobs[j] EXCEPT !.status = "cancelled"]
  <2>1. "cancelled" \in Settled
    BY DEF Settled
  <2>2. QED
    BY <1>1, <2>1, ClosedTable
<1> HIDE DEF u
<1>3. ASSUME NEW j \in DOMAIN jobs
      PROVE  RowMoves(jobs[j], u[j]) /\ (u[j].status = "running" => jobs[j].status = "running")
  <2>1. CASE u[j] = jobs[j]
    BY <2>1 DEF RowMoves, IndInv, QueuedHasAttemptsLeft
  <2>2. CASE jobs[j].status = "queued" /\ u[j] = [jobs[j] EXCEPT !.status = "cancelled"]
    BY <1>1, <2>2 DEF RowMoves, Job
  <2>3. QED
    BY <1>2, <2>1, <2>2
<1>4. QED
  BY <1>2, <1>3 DEF Rewrites, u

\* Disabling the repository.
LEMMA CancelRewrites ==
    ASSUME IndInv
    PROVE  Rewrites(jobs, CancelQueued(jobs))
<1> DEFINE u == CancelQueued(jobs)
<1>1. jobs \in Seq(Job) /\ \A j \in DOMAIN jobs : jobs[j] \in Job
  BY DEF IndInv, TypeOK
<1>2. /\ u \in Seq(Job) /\ Len(u) = Len(jobs) /\ DOMAIN u = DOMAIN jobs
      /\ \A j \in DOMAIN jobs :
           \/ u[j] = jobs[j]
           \/ jobs[j].status = "queued" /\ u[j] = [jobs[j] EXCEPT !.status = "cancelled"]
  BY <1>1, CancelledTable
<1> HIDE DEF u
<1>3. ASSUME NEW j \in DOMAIN jobs
      PROVE  RowMoves(jobs[j], u[j]) /\ (u[j].status = "running" => jobs[j].status = "running")
  <2>1. CASE u[j] = jobs[j]
    BY <2>1 DEF RowMoves, IndInv, QueuedHasAttemptsLeft
  <2>2. CASE jobs[j].status = "queued" /\ u[j] = [jobs[j] EXCEPT !.status = "cancelled"]
    BY <1>1, <2>2 DEF RowMoves, Job
  <2>3. QED
    BY <1>2, <2>1, <2>2
<1>4. QED
  BY <1>2, <1>3 DEF Rewrites, u

\* A pull-request event.
LEMMA ReviewEventShape ==
    ASSUME IndInv, EnqueueReviewEvent
    PROVE  Rewrites(jobs, jobs') \/ Extends(jobs, jobs')
<1>1. PICK d \in Deliveries, s \in PullRequests, base \in Bases, head \in Heads,
           action \in Actions, title \in Titles, at \in EventTimes :
         \/ IgnoreReviewEvent(d, s, action, at)
         \/ ClosePullRequest(d, s, base, head, action, at)
         \/ DuplicateRevision(d, s, base, head, action, title, at)
         \/ QueueReview(d, s, base, head, action, title, at)
  BY DEF EnqueueReviewEvent
<1>2. CASE IgnoreReviewEvent(d, s, action, at)
  BY <1>2, SameRewrites DEF IgnoreReviewEvent
<1>3. CASE ClosePullRequest(d, s, base, head, action, at)
  BY <1>3, CloseRewrites DEF ClosePullRequest
<1>4. CASE DuplicateRevision(d, s, base, head, action, title, at)
  BY <1>4, SameRewrites DEF DuplicateRevision
<1>5. CASE QueueReview(d, s, base, head, action, title, at)
  <2> DEFINE k == ReviewKey(s, base, head, action, title)
  <2>1. k \in Key /\ k.scope = s
    BY DEF ReviewKey, Key, Scopes
  <2>2. \A j \in Holders(k) : jobs[j].status \in TERMINAL_JOB_STATUSES
    BY <1>5 DEF QueueReview
  <2>3. PICK due \in Deadlines(s, action) :
          jobs' = Append(CloseQueued(RetireTerminalJob(jobs, k), s, "superseded", NoCommit),
                         NewJob(k, due))
    BY <1>5 DEF QueueReview
  <2> HIDE DEF k
  <2>4. due \in Int
    <3>1. \A j \in DOMAIN jobs : jobs[j] \in Job /\ jobs[j].available \in Int
      <4>1. \A j \in DOMAIN jobs : jobs[j] \in Job
        BY DEF IndInv, TypeOK
      <4>2. QED
        BY <4>1 DEF Job
    <3>2. now \in Int /\ now + Debounce \in Int
      BY QueueAssumption DEF IndInv, TypeOK
    <3>3. QED
      BY <3>1, <3>2 DEF Deadlines, InScope
  <2>5. QED
    BY <2>1, <2>2, <2>3, <2>4, SubmitExtends DEF Displaces
<1>6. QED
  BY <1>1, <1>2, <1>3, <1>4, <1>5

\* A push to the default branch.
LEMMA IndexEventShape ==
    ASSUME IndInv, EnqueueRepositoryIndexEvent
    PROVE  Rewrites(jobs, jobs') \/ Extends(jobs, jobs')
<1>1. PICK d \in Deliveries, s \in Branches, head \in Heads, at \in EventTimes :
         \/ StalePush(d, s, at)
         \/ DuplicatePush(d, s, head, at)
         \/ QueueIndex(d, s, head, at)
  BY DEF EnqueueRepositoryIndexEvent
<1>2. CASE StalePush(d, s, at)
  BY <1>2, SameRewrites DEF StalePush
<1>3. CASE DuplicatePush(d, s, head, at)
  BY <1>3, SameRewrites DEF DuplicatePush
<1>4. CASE QueueIndex(d, s, head, at)
  <2> DEFINE k == IndexKey(s, head)
  <2>1. k \in Key /\ k.scope = s
    BY DEF IndexKey, Key, Scopes
  <2>2. \A j \in Holders(k) : jobs[j].status \in TERMINAL_JOB_STATUSES
    BY <1>4 DEF QueueIndex
  <2>3. jobs' = Append(CloseQueued(RetireTerminalJob(jobs, k), s, "superseded", head),
                       NewJob(k, now))
    BY <1>4 DEF QueueIndex
  <2>4. now \in Int
    BY QueueAssumption DEF IndInv, TypeOK
  <2> HIDE DEF k
  <2>5. QED
    BY <2>1, <2>2, <2>3, <2>4, SubmitExtends DEF Displaces
<1>5. QED
  BY <1>1, <1>2, <1>3, <1>4

\* Every step of the system rewrites the table row by row or appends one row.
LEMMA StepShape ==
    ASSUME IndInv, [Next]_vars
    PROVE  Rewrites(jobs, jobs') \/ Extends(jobs, jobs')
<1>1. CASE EnqueueReviewEvent
  BY <1>1, ReviewEventShape
<1>2. CASE EnqueueRepositoryIndexEvent
  BY <1>2, IndexEventShape
<1>3. CASE \E w \in Workers : Work(w)
  BY <1>3, WorkRewrites
<1>4. CASE SetRepositoryEnabled
  BY <1>4, CancelRewrites, SameRewrites DEF SetRepositoryEnabled
<1>5. CASE SetRepositoryAutoReview
  BY <1>5, SameRewrites DEF SetRepositoryAutoReview
<1>6. CASE Tick
  BY <1>6, SameRewrites DEF Tick
<1>7. CASE UNCHANGED vars
  BY <1>7, SameRewrites DEF vars
<1>8. QED
  BY <1>1, <1>2, <1>3, <1>4, <1>5, <1>6, <1>7 DEF Next

-----------------------------------------------------------------------------
(* The invariants.                                                         *)

\* The other tables stay well-formed.
LEMMA OtherTables ==
    ASSUME IndInv, [Next]_vars,
           jobs' \in Seq(Job), DOMAIN jobs \subseteq DOMAIN jobs'
    PROVE  /\ now' \in 0..MaxTime
           /\ enabled' \in BOOLEAN /\ autoReview' \in BOOLEAN
           /\ refs' \in [Scopes -> Ref]
           /\ deliveries' \subseteq Deliveries
           /\ held' \in [Workers -> Nat]
           /\ verdict' \in [Workers -> {"unchecked", "current", "stale"}]
           /\ \A w \in Workers : held'[w] \in DOMAIN jobs' \cup {NoJob}
<1> USE DEF IndInv, TypeOK
<1>1. CASE EnqueueReviewEvent
  <2>1. PICK d \in Deliveries, s \in PullRequests, base \in Bases, head \in Heads,
             action \in Actions, title \in Titles, at \in EventTimes :
           \/ IgnoreReviewEvent(d, s, action, at)
           \/ ClosePullRequest(d, s, base, head, action, at)
           \/ DuplicateRevision(d, s, base, head, action, title, at)
           \/ QueueReview(d, s, base, head, action, title, at)
    BY <1>1 DEF EnqueueReviewEvent
  <2>2. deliveries' \subseteq Deliveries
    BY <2>1 DEF IgnoreReviewEvent, ClosePullRequest, DuplicateRevision, QueueReview, Recorded
  <2>3. \/ refs' = refs
        \/ \E open \in BOOLEAN : Accept(s, open, base, head, at)
    BY <2>1 DEF IgnoreReviewEvent, ClosePullRequest, DuplicateRevision, QueueReview
  <2>4. refs' \in [Scopes -> Ref]
    <3>1. \A open \in BOOLEAN :
            [open |-> open, base |-> base, head |-> head, at |-> at] \in Ref
      BY DEF Ref
    <3>2. QED
      BY <2>3, <3>1 DEF Accept, Scopes
  <2>5. QED
    BY <1>1, <2>2, <2>4 DEF EnqueueReviewEvent
<1>2. CASE EnqueueRepositoryIndexEvent
  <2>1. PICK d \in Deliveries, s \in Branches, head \in Heads, at \in EventTimes :
           \/ StalePush(d, s, at)
           \/ DuplicatePush(d, s, head, at)
           \/ QueueIndex(d, s, head, at)
    BY <1>2 DEF EnqueueRepositoryIndexEvent
  <2>2. deliveries' \subseteq Deliveries
    BY <2>1 DEF StalePush, DuplicatePush, QueueIndex, Recorded
  <2>3. refs' = refs \/ Accept(s, TRUE, NoCommit, head, at)
    BY <2>1 DEF StalePush, DuplicatePush, QueueIndex
  <2>4. refs' \in [Scopes -> Ref]
    <3>1. [open |-> TRUE, base |-> NoCommit, head |-> head, at |-> at] \in Ref
      BY DEF Ref
    <3>2. QED
      BY <2>3, <3>1 DEF Accept, Scopes
  <2>5. QED
    BY <1>2, <2>2, <2>4 DEF EnqueueRepositoryIndexEvent
<1>3. CASE \E w \in Workers : Work(w)
  <2>1. PICK w \in Workers : Work(w)
    BY <1>3
  <2>2. UNCHANGED <<now, enabled, autoReview, refs, deliveries>>
    BY <2>1 DEF Work, ClaimNothing, ClaimJob, HeartbeatWorkflowJob, HeartbeatAndCheck,
                CompleteWorkflowJob, SupersedeWorkflowJob, FailWorkflowJob, Crash, Release
  <2>3. \/ held' = held
        \/ held' = [held EXCEPT ![w] = NoJob]
        \/ \E j \in Claimable(Swept(jobs)) : held' = [held EXCEPT ![w] = j]
    BY <2>1 DEF Work, ClaimNothing, ClaimJob, HeartbeatWorkflowJob, HeartbeatAndCheck,
                CompleteWorkflowJob, SupersedeWorkflowJob, FailWorkflowJob, Crash, Release
  <2>4. \/ verdict' = verdict
        \/ \E v \in {"unchecked", "current", "stale"} : verdict' = [verdict EXCEPT ![w] = v]
    BY <2>1 DEF Work, ClaimNothing, ClaimJob, HeartbeatWorkflowJob, HeartbeatAndCheck,
                CompleteWorkflowJob, SupersedeWorkflowJob, FailWorkflowJob, Crash, Release
  <2>5. \A j \in Claimable(Swept(jobs)) : j \in DOMAIN jobs /\ j \in Nat
    <3>1. DOMAIN Swept(jobs) = DOMAIN jobs /\ DOMAIN jobs \subseteq Nat
      BY DEF Swept
    <3>2. QED
      BY <3>1 DEF Claimable
  <2>6. held' \in [Workers -> Nat] /\ \A v \in Workers : held'[v] \in DOMAIN jobs \cup {NoJob}
    <3>1. NoJob \in Nat
      BY DEF NoJob
    <3>2. QED
      BY <2>3, <2>5, <3>1
  <2>7. QED
    BY <2>2, <2>4, <2>6
<1>4. CASE SetRepositoryEnabled
  BY <1>4 DEF SetRepositoryEnabled
<1>5. CASE SetRepositoryAutoReview
  BY <1>5 DEF SetRepositoryAutoReview
<1>6. CASE Tick
  BY <1>6, QueueAssumption DEF Tick
<1>7. CASE UNCHANGED vars
  BY <1>7 DEF vars
<1>8. QED
  BY <1>1, <1>2, <1>3, <1>4, <1>5, <1>6, <1>7 DEF Next

\* The initial database is well-formed and empty.
LEMMA InitIndInv == Init => IndInv
BY QueueAssumption DEF Init, IndInv, TypeOK, QueuedHasAttemptsLeft, Ref, NoJob

\* Every step preserves the typing and leaves an attempt to every queued job.
LEMMA NextIndInv == IndInv /\ [Next]_vars => IndInv'
<1> SUFFICES ASSUME IndInv, [Next]_vars PROVE IndInv'
  OBVIOUS
<1>1. jobs' \in Seq(Job) /\ DOMAIN jobs \subseteq DOMAIN jobs'
  BY StepShape DEF Rewrites, Extends
<1>2. TypeOK'
  BY <1>1, OtherTables DEF TypeOK
<1>3. QueuedHasAttemptsLeft'
  <2>1. CASE Rewrites(jobs, jobs')
    BY <2>1 DEF Rewrites, RowMoves, QueuedHasAttemptsLeft
  <2>2. CASE Extends(jobs, jobs')
    BY <2>2, QueueAssumption DEF Extends, RowMoves, QueuedHasAttemptsLeft
  <2>3. QED
    BY <2>1, <2>2, StepShape
<1>4. QED
  BY <1>2, <1>3 DEF IndInv

\* Every table of the queue keeps its type, attempt_count within
\* max_attempts included.
THEOREM QueueTypeCorrect == Spec => []TypeOK
<1>1. IndInv => TypeOK
  BY DEF IndInv
<1>2. QED
  BY <1>1, InitIndInv, NextIndInv, PTL DEF Spec

\* A queued job always has an attempt left, for every max_attempts, lease
\* length and backoff.
THEOREM QueuedJobsCanRun == Spec => []QueuedHasAttemptsLeft
<1>1. IndInv => QueuedHasAttemptsLeft
  BY DEF IndInv
<1>2. QED
  BY <1>1, InitIndInv, NextIndInv, PTL DEF Spec

\* Jobs of one scope start in the order they were enqueued.
THEOREM ScopeOrder == Spec => []StartedInOrder
<1>1. Init => StartedInOrder
  BY DEF Init, StartedInOrder
<1>2. IndInv /\ StartedInOrder /\ [Next]_vars => StartedInOrder'
  <2> SUFFICES ASSUME IndInv, StartedInOrder, [Next]_vars
               PROVE  StartedInOrder'
    OBVIOUS
  <2>0. jobs' \in Seq(Job)
    BY StepShape DEF Rewrites, Extends
  <2> SUFFICES ASSUME NEW i \in DOMAIN jobs', NEW j \in DOMAIN jobs',
                      jobs'[j].status = "running", jobs'[i].status \in Active,
                      jobs'[i].key.scope = jobs'[j].key.scope, i < j
               PROVE  FALSE
    BY <2>0 DEF StartedInOrder
  <2>1. CASE Rewrites(jobs, jobs')
    <3>1. RowMoves(jobs[i], jobs'[i]) /\ RowMoves(jobs[j], jobs'[j])
      BY <2>1 DEF Rewrites
    <3>2. i \in DOMAIN jobs /\ j \in DOMAIN jobs /\ i \in Int /\ j \in Int
      BY <2>1 DEF Rewrites
    <3>3. CASE jobs[j].status = "running"
      <4>1. jobs[i].status \in Active
        BY <3>1 DEF RowMoves, Active
      <4>2. jobs[i].key.scope = jobs[j].key.scope
        BY <3>1 DEF RowMoves
      <4>3. QED
        BY <3>2, <3>3, <4>1, <4>2 DEF StartedInOrder
    <3>4. CASE jobs[j].status # "running"
      <4>1. StartsAlone(jobs', j)
        BY <2>1, <3>2, <3>4 DEF Rewrites
      <4>2. jobs'[i].status \in Settled
        BY <2>1, <3>2, <4>1 DEF StartsAlone, Rewrites
      <4>3. QED
        BY <4>2 DEF Active, Settled, TERMINAL_JOB_STATUSES
    <3>5. QED
      BY <3>3, <3>4
  <2>2. CASE Extends(jobs, jobs')
    <3>1. j \in DOMAIN jobs /\ i \in DOMAIN jobs /\ i \in Int /\ j \in Int
      BY <2>2 DEF Extends, IndInv, TypeOK
    <3>2. RowMoves(jobs[i], jobs'[i]) /\ RowMoves(jobs[j], jobs'[j])
      BY <2>2, <3>1 DEF Extends
    <3>3. jobs[j].status = "running" /\ jobs[i].status \in Active
      BY <2>2, <3>1, <3>2 DEF Extends, RowMoves, Active
    <3>4. QED
      BY <3>1, <3>2, <3>3 DEF StartedInOrder, RowMoves
  <2>3. QED
    BY <2>1, <2>2, StepShape
<1>3. QED
  BY <1>1, <1>2, InitIndInv, NextIndInv, PTL DEF Spec

\* At most one job of a scope runs at any time, however many workers claim,
\* crash, stall past their lease and come back.
THEOREM ScopeExclusion == Spec => []OneRunnerPerScope
<1>1. TypeOK /\ StartedInOrder => OneRunnerPerScope
  <2> SUFFICES ASSUME TypeOK, StartedInOrder, NEW i \in DOMAIN jobs, NEW j \in DOMAIN jobs,
                      jobs[i].status = "running", jobs[j].status = "running",
                      jobs[i].key.scope = jobs[j].key.scope
               PROVE  i = j
    BY DEF OneRunnerPerScope
  <2>1. i >= j /\ j >= i
    BY DEF StartedInOrder, Active
  <2>2. i \in Int /\ j \in Int
    BY DEF TypeOK
  <2>3. QED
    BY <2>1, <2>2
<1>2. QED
  BY <1>1, QueueTypeCorrect, ScopeOrder, PTL

\* The UNIQUE constraint on idempotency_key is never hit: a key is reused only
\* after the failed job that held it was retired.
THEOREM KeysUnique == Spec => []KeyHeldOnce
<1>1. Init => KeyHeldOnce
  BY DEF Init, KeyHeldOnce
<1>2. IndInv /\ KeyHeldOnce /\ [Next]_vars => KeyHeldOnce'
  <2> SUFFICES ASSUME IndInv, KeyHeldOnce, [Next]_vars,
                      NEW i \in DOMAIN jobs', NEW j \in DOMAIN jobs',
                      jobs'[i].key = jobs'[j].key, ~jobs'[i].retired, ~jobs'[j].retired
               PROVE  i = j
    BY DEF KeyHeldOnce
  <2>1. ASSUME NEW k \in DOMAIN jobs, RowMoves(jobs[k], jobs'[k]), ~jobs'[k].retired
        PROVE  jobs[k].key = jobs'[k].key /\ ~jobs[k].retired
    BY <2>1 DEF RowMoves
  <2>2. CASE Rewrites(jobs, jobs')
    BY <2>1, <2>2 DEF Rewrites, KeyHeldOnce
  <2>3. CASE Extends(jobs, jobs')
    <3>1. \A k \in DOMAIN jobs : RowMoves(jobs[k], jobs'[k])
      BY <2>3 DEF Extends
    <3>2. CASE i \in DOMAIN jobs /\ j \in DOMAIN jobs
      BY <2>1, <3>1, <3>2 DEF KeyHeldOnce
    <3>3. CASE i = Len(jobs) + 1 \/ j = Len(jobs) + 1
      BY <2>3, <3>3 DEF Extends
    <3>4. QED
      BY <2>3, <3>2, <3>3 DEF Extends
  <2>4. QED
    BY <2>2, <2>3, StepShape
<1>3. QED
  BY <1>1, <1>2, InitIndInv, NextIndInv, PTL DEF Spec

\* No transaction changes the outcome of a settled job, and only a dead or
\* failed one gives up its idempotency key.
THEOREM SettledJobsStay == Spec => SettledIsFinal
<1>1. IndInv /\ [Next]_vars =>
        [\A j \in DOMAIN jobs :
           jobs[j].status \in Settled =>
              /\ jobs'[j].status = jobs[j].status
              /\ jobs'[j].retired # jobs[j].retired
                   => jobs[j].status \in TERMINAL_JOB_STATUSES]_vars
  <2> SUFFICES ASSUME IndInv, [Next]_vars, NEW j \in DOMAIN jobs, jobs[j].status \in Settled
               PROVE  /\ jobs'[j].status = jobs[j].status
                      /\ jobs'[j].retired # jobs[j].retired
                           => jobs[j].status \in TERMINAL_JOB_STATUSES
    OBVIOUS
  <2>1. RowMoves(jobs[j], jobs'[j])
    BY StepShape DEF Rewrites, Extends
  <2>2. QED
    BY <2>1 DEF RowMoves, Settled, TERMINAL_JOB_STATUSES
<1>2. QED
  BY <1>1, InitIndInv, NextIndInv, PTL DEF Spec, SettledIsFinal

-----------------------------------------------------------------------------
(* The refinement.                                                         *)

\* The queue implements ScopedQueue under the mapping Board.
THEOREM QueueImplementsScopedQueue == Spec => ImplementsScopedQueue
<1>1. Init => Promise!Init
  BY DEF Init, Promise!Init, Board
<1>2. IndInv /\ [Next]_vars => [Promise!Next]_Board
  <2> SUFFICES ASSUME IndInv, [Next]_vars PROVE Promise!Next
    OBVIOUS
  <2>1. /\ DOMAIN Board = DOMAIN jobs /\ DOMAIN Board' = DOMAIN jobs'
        /\ \A j \in DOMAIN jobs :
             Board[j] = [scope |-> jobs[j].key.scope, status |-> jobs[j].status]
        /\ \A j \in DOMAIN jobs' :
             Board'[j] = [scope |-> jobs'[j].key.scope, status |-> jobs'[j].status]
    BY DEF Board
  <2>2. CASE Rewrites(jobs, jobs')
    <3>1. DOMAIN Board' = DOMAIN Board
      BY <2>1, <2>2 DEF Rewrites
    <3>2. \A j \in DOMAIN Board : Promise!Moves(Board[j], Board'[j])
      BY <2>1, <2>2 DEF Rewrites, RowMoves, Promise!Moves, Promise!Waiting, Promise!Running,
                        Promise!Outcomes
    <3>3. ASSUME NEW j \in DOMAIN Board,
                 Board[j].status # "running", Board'[j].status = "running"
          PROVE  Promise!MayStart(Board', j)
      <4>1. StartsAlone(jobs', j)
        BY <2>1, <2>2, <3>3 DEF Rewrites
      <4>2. QED
        BY <2>1, <2>2, <4>1 DEF Rewrites, StartsAlone, Promise!MayStart, Promise!Running,
                                Promise!Outcomes, Settled, TERMINAL_JOB_STATUSES
    <3>4. QED
      BY <3>1, <3>2, <3>3 DEF Promise!Next, Promise!Advance, Promise!Running
  <2>3. CASE Extends(jobs, jobs')
    <3>1. Len(Board) = Len(jobs) /\ Len(Board') = Len(jobs')
      <4>1. jobs \in Seq(Job) /\ jobs' \in Seq(Job)
        BY <2>3 DEF Extends, IndInv, TypeOK
      <4>2. QED
        BY <4>1 DEF Board
    <3>2. Len(Board') = Len(Board) + 1 /\ Board'[Len(Board) + 1].status = "queued"
      <4>1. Len(jobs') = Len(jobs) + 1 /\ Len(jobs) + 1 \in DOMAIN jobs'
            /\ jobs'[Len(jobs) + 1].status = "queued"
        BY <2>3 DEF Extends
      <4>2. Board'[Len(jobs) + 1].status = jobs'[Len(jobs) + 1].status
        BY <2>1, <4>1
      <4>3. QED
        BY <3>1, <4>1, <4>2
    <3>3. ASSUME NEW j \in DOMAIN Board
          PROVE  \/ Board'[j] = Board[j]
                 \/ /\ Board[j].status = "queued"
                    /\ Board[j].scope = Board'[Len(Board) + 1].scope
                    /\ Board'[j] = [Board[j] EXCEPT !.status = "superseded"]
      <4>1. /\ jobs'[j].key = jobs[j].key
            /\ \/ jobs'[j].status = jobs[j].status
               \/ /\ jobs[j].status = "queued" /\ jobs'[j].status = "superseded"
                  /\ jobs[j].key.scope = jobs'[Len(jobs) + 1].key.scope
        BY <2>1, <2>3 DEF Extends, RowMoves
      <4>2. Len(jobs) + 1 \in DOMAIN jobs' /\ j \in DOMAIN jobs /\ j \in DOMAIN jobs'
        BY <2>1, <2>3 DEF Extends
      <4>3. QED
        BY <2>1, <3>1, <4>1, <4>2
    <3>4. QED
      BY <3>2, <3>3 DEF Promise!Next, Promise!Submit, Promise!Waiting
  <2>4. QED
    BY <2>2, <2>3, StepShape
<1>3. QED
  BY <1>1, <1>2, InitIndInv, NextIndInv, PTL DEF Spec, ImplementsScopedQueue, Promise!Spec

-----------------------------------------------------------------------------
(* One job for each request.                                               *)

\* A running job has spent an attempt.
RunningIsTried == \A j \in DOMAIN jobs : jobs[j].status = "running" => jobs[j].attempt > 0

\* Only a dead or failed job gave up its key.
RetiredIsTerminal == \A j \in DOMAIN jobs : jobs[j].retired => jobs[j].status \in TERMINAL_JOB_STATUSES

\* The key of an index job says its scope and commit and nothing else.
IndexKeys ==
    \A j \in DOMAIN jobs : jobs[j].key.scope \in Branches =>
        jobs[j].key = IndexKey(jobs[j].key.scope, jobs[j].key.head)

\* Every job was inserted with a delivery of its own.
JobsCounted == IsFiniteSet(deliveries) /\ RedeliveryAddsNothing

FreshInv ==
    /\ IndInv /\ RunningIsTried /\ RetiredIsTerminal /\ IndexKeys
    /\ JobsCounted /\ OneFreshPerScope

\* Delivery d queues a job with key k that is due at `due`: it leaves no
\* other job queued in the scope, and comes no later than those it replaces.
Submits(d, k, due) ==
    /\ d \notin deliveries /\ deliveries' = deliveries \cup {d}
    /\ Extends(jobs, jobs')
    /\ jobs'[Len(jobs) + 1].key = k /\ jobs'[Len(jobs) + 1].available = due
    /\ k.scope \in Branches => k = IndexKey(k.scope, k.head)
    /\ \A j \in DOMAIN jobs : jobs'[j].status = "queued" => jobs[j].key.scope # k.scope
    /\ \/ due <= now
       \/ \A j \in DOMAIN jobs :
            jobs[j].status = "queued" /\ jobs[j].key.scope = k.scope => due <= jobs[j].available

\* Every other step keeps the number of jobs and forgets no delivery.
Keeps ==
    /\ Rewrites(jobs, jobs')
    /\ \/ deliveries' = deliveries
       \/ \E d \in Deliveries : deliveries' = deliveries \cup {d}

\* A pull-request event queues one job or none.
LEMMA ReviewEventSubmits ==
    ASSUME FreshInv, EnqueueReviewEvent
    PROVE  Keeps \/ \E d, k, due : Submits(d, k, due)
<1>0. IndInv /\ now \in Int /\ now + Debounce \in Int
  BY QueueAssumption DEF FreshInv, IndInv, TypeOK
<1>1. PICK d \in Deliveries, s \in PullRequests, base \in Bases, head \in Heads,
           action \in Actions, title \in Titles, at \in EventTimes :
         \/ IgnoreReviewEvent(d, s, action, at)
         \/ ClosePullRequest(d, s, base, head, action, at)
         \/ DuplicateRevision(d, s, base, head, action, title, at)
         \/ QueueReview(d, s, base, head, action, title, at)
  BY DEF EnqueueReviewEvent
<1>2. d \notin deliveries /\ deliveries' = deliveries \cup {d}
  BY <1>1 DEF IgnoreReviewEvent, ClosePullRequest, DuplicateRevision, QueueReview, Recorded
<1>3. CASE IgnoreReviewEvent(d, s, action, at)
  BY <1>0, <1>2, <1>3, SameRewrites DEF IgnoreReviewEvent, Keeps
<1>4. CASE ClosePullRequest(d, s, base, head, action, at)
  BY <1>0, <1>2, <1>4, CloseRewrites DEF ClosePullRequest, Keeps
<1>5. CASE DuplicateRevision(d, s, base, head, action, title, at)
  BY <1>0, <1>2, <1>5, SameRewrites DEF DuplicateRevision, Keeps
<1>6. CASE QueueReview(d, s, base, head, action, title, at)
  <2> DEFINE k == ReviewKey(s, base, head, action, title)
  <2>1. k \in Key /\ k.scope = s /\ s \notin Branches
    BY QueueAssumption DEF ReviewKey, Key, Scopes
  <2>2. \A j \in Holders(k) : jobs[j].status \in TERMINAL_JOB_STATUSES
    BY <1>6 DEF QueueReview
  <2>3. PICK due \in Deadlines(s, action) :
          /\ Earliest(due, Deadlines(s, action))
          /\ jobs' = Append(CloseQueued(RetireTerminalJob(jobs, k), s, "superseded", NoCommit),
                            NewJob(k, due))
    BY <1>6 DEF QueueReview
  <2> HIDE DEF k
  <2>4. \A j \in DOMAIN jobs : jobs[j].available \in Int /\ jobs[j].key.head \in Heads
    <3>1. \A j \in DOMAIN jobs : jobs[j] \in Job
      BY <1>0 DEF IndInv, TypeOK
    <3>2. QED
      BY <3>1 DEF Job, Key
  <2>5. due \in Int
    BY <1>0, <2>3, <2>4 DEF Deadlines, InScope
  <2>6. /\ Extends(jobs, jobs')
        /\ jobs'[Len(jobs) + 1].key = k /\ jobs'[Len(jobs) + 1].available = due
        /\ \A j \in DOMAIN jobs : jobs'[j].status = "queued" =>
              jobs[j].key.scope # k.scope \/ jobs[j].key.head = NoCommit
    <3>1. Displaces(jobs', k, due, NoCommit)
      BY <1>0, <2>1, <2>2, <2>3, <2>5, SubmitExtends
    <3>2. QED
      BY <3>1 DEF Displaces
  <2>7. \A j \in DOMAIN jobs : jobs'[j].status = "queued" => jobs[j].key.scope # k.scope
    BY <2>4, <2>6, QueueAssumption
  <2>8. \/ due <= now
        \/ \A j \in DOMAIN jobs :
             jobs[j].status = "queued" /\ jobs[j].key.scope = k.scope => due <= jobs[j].available
    <3>1. CASE action = UPDATE_ACTION /\ Debounce # 0
      <4>1. \A j \in DOMAIN jobs :
              jobs[j].status = "queued" /\ jobs[j].key.scope = s =>
                jobs[j].available \in Deadlines(s, action)
        BY <3>1 DEF Deadlines, InScope
      <4>2. QED
        BY <2>1, <2>3, <4>1 DEF Earliest
    <3>2. CASE ~(action = UPDATE_ACTION /\ Debounce # 0)
      <4>1. due = now
        BY <2>3, <3>2 DEF Deadlines
      <4>2. QED
        BY <1>0, <4>1
    <3>3. QED
      BY <3>1, <3>2
  <2>9. Submits(d, k, due)
    BY <1>2, <2>1, <2>6, <2>7, <2>8 DEF Submits
  <2>10. QED
    BY <2>9
<1>7. QED
  BY <1>1, <1>3, <1>4, <1>5, <1>6

\* A push to the default branch queues one job or none.  The job it spares, one
\* for the same commit, would hold the key of the new one.
LEMMA IndexEventSubmits ==
    ASSUME FreshInv, EnqueueRepositoryIndexEvent
    PROVE  Keeps \/ \E d, k, due : Submits(d, k, due)
<1>0. IndInv /\ now \in Int
  BY QueueAssumption DEF FreshInv, IndInv, TypeOK
<1>1. PICK d \in Deliveries, s \in Branches, head \in Heads, at \in EventTimes :
         \/ StalePush(d, s, at)
         \/ DuplicatePush(d, s, head, at)
         \/ QueueIndex(d, s, head, at)
  BY DEF EnqueueRepositoryIndexEvent
<1>2. d \notin deliveries /\ deliveries' = deliveries \cup {d}
  BY <1>1 DEF StalePush, DuplicatePush, QueueIndex, Recorded
<1>3. CASE StalePush(d, s, at)
  BY <1>0, <1>2, <1>3, SameRewrites DEF StalePush, Keeps
<1>4. CASE DuplicatePush(d, s, head, at)
  BY <1>0, <1>2, <1>4, SameRewrites DEF DuplicatePush, Keeps
<1>5. CASE QueueIndex(d, s, head, at)
  <2> DEFINE k == IndexKey(s, head)
  <2>1. k \in Key /\ k.scope = s /\ k.head = head
    BY DEF IndexKey, Key, Scopes
  <2>2. \A j \in Holders(k) : jobs[j].status \in TERMINAL_JOB_STATUSES
    BY <1>5 DEF QueueIndex
  <2>3. jobs' = Append(CloseQueued(RetireTerminalJob(jobs, k), s, "superseded", head),
                       NewJob(k, now))
    BY <1>5 DEF QueueIndex
  <2>4. k = IndexKey(k.scope, k.head)
    BY <2>1
  <2> HIDE DEF k
  <2>5. /\ Extends(jobs, jobs')
        /\ jobs'[Len(jobs) + 1].key = k /\ jobs'[Len(jobs) + 1].available = now
        /\ \A j \in DOMAIN jobs : jobs'[j].status = "queued" =>
              jobs[j].key.scope # k.scope \/ jobs[j].key.head = head
    <3>1. Displaces(jobs', k, now, head)
      BY <1>0, <2>1, <2>2, <2>3, SubmitExtends
    <3>2. QED
      BY <3>1 DEF Displaces
  <2>6. ASSUME NEW j \in DOMAIN jobs, jobs'[j].status = "queued", jobs[j].key.scope = k.scope
        PROVE  FALSE
    <3>1. jobs[j].key = k
      BY <2>1, <2>4, <2>5, <2>6 DEF FreshInv, IndexKeys
    <3>2. jobs'[j].retired /\ RowMoves(jobs[j], jobs'[j]) /\ jobs[j].retired \in BOOLEAN
      <4>1. jobs[j] \in Job
        BY <1>0 DEF IndInv, TypeOK
      <4>2. jobs'[j].key = k
        BY <2>5, <3>1 DEF Extends, RowMoves
      <4>3. QED
        BY <2>5, <4>1, <4>2 DEF Extends, Job
    <3>3. jobs[j].status \in TERMINAL_JOB_STATUSES
      BY <3>2 DEF FreshInv, RetiredIsTerminal, RowMoves
    <3>4. QED
      BY <2>6, <3>2, <3>3 DEF RowMoves, TERMINAL_JOB_STATUSES
  <2>7. Submits(d, k, now)
    BY <1>0, <1>2, <2>4, <2>5, <2>6 DEF Submits
  <2>8. QED
    BY <2>7
<1>6. QED
  BY <1>1, <1>3, <1>4, <1>5

\* Only an event with a new delivery id adds a job.
LEMMA StepSubmits ==
    ASSUME FreshInv, [Next]_vars
    PROVE  Keeps \/ \E d, k, due : Submits(d, k, due)
<1>0. IndInv
  BY DEF FreshInv
<1>1. CASE EnqueueReviewEvent
  BY <1>1, ReviewEventSubmits
<1>2. CASE EnqueueRepositoryIndexEvent
  BY <1>2, IndexEventSubmits
<1>3. CASE \E w \in Workers : Work(w)
  <2>1. PICK w \in Workers : Work(w)
    BY <1>3
  <2>2. deliveries' = deliveries
    BY <2>1 DEF Work, ClaimNothing, ClaimJob, HeartbeatWorkflowJob, HeartbeatAndCheck,
                CompleteWorkflowJob, SupersedeWorkflowJob, FailWorkflowJob, Crash, Release
  <2>3. QED
    BY <1>0, <2>1, <2>2, WorkRewrites DEF Keeps
<1>4. CASE SetRepositoryEnabled
  BY <1>0, <1>4, CancelRewrites, SameRewrites DEF SetRepositoryEnabled, Keeps
<1>5. CASE SetRepositoryAutoReview
  BY <1>0, <1>5, SameRewrites DEF SetRepositoryAutoReview, Keeps
<1>6. CASE Tick
  BY <1>0, <1>6, SameRewrites DEF Tick, Keeps
<1>7. CASE UNCHANGED vars
  BY <1>0, <1>7, SameRewrites DEF vars, Keeps
<1>8. QED
  BY <1>1, <1>2, <1>3, <1>4, <1>5, <1>6, <1>7 DEF Next

\* What a step does to one row, as far as FreshInv is concerned.
LEMMA FreshRow ==
    ASSUME FreshInv, NEW j \in DOMAIN jobs, jobs' \in Seq(Job), j \in DOMAIN jobs',
           RowMoves(jobs[j], jobs'[j])
    PROVE  /\ jobs'[j].key = jobs[j].key
           /\ jobs'[j].status = "running" => jobs'[j].attempt > 0
           /\ jobs'[j].retired => jobs'[j].status \in TERMINAL_JOB_STATUSES
           /\ jobs'[j].key.scope \in Branches =>
                jobs'[j].key = IndexKey(jobs'[j].key.scope, jobs'[j].key.head)
           /\ jobs'[j].status = "queued" /\ jobs'[j].attempt = 0 =>
                jobs[j].status = "queued" /\ jobs[j].attempt = 0
<1>1. jobs[j] \in Job /\ jobs'[j] \in Job
  BY DEF FreshInv, IndInv, TypeOK
<1>2. jobs[j].attempt \in Nat /\ jobs'[j].attempt \in Nat
  BY <1>1, QueueAssumption DEF Job
<1>3. /\ jobs[j].status = "running" => jobs[j].attempt > 0
      /\ jobs[j].retired => jobs[j].status \in TERMINAL_JOB_STATUSES
      /\ jobs[j].key.scope \in Branches =>
           jobs[j].key = IndexKey(jobs[j].key.scope, jobs[j].key.head)
  BY DEF FreshInv, RunningIsTried, RetiredIsTerminal, IndexKeys
<1>4. jobs'[j].key = jobs[j].key
  BY DEF RowMoves
<1>5. jobs'[j].status = "running" => jobs'[j].attempt > 0
  BY <1>2, <1>3 DEF RowMoves
<1>6. jobs'[j].retired => jobs'[j].status \in TERMINAL_JOB_STATUSES
  BY <1>3 DEF RowMoves, TERMINAL_JOB_STATUSES
<1>7. jobs'[j].status = "queued" /\ jobs'[j].attempt = 0 =>
        jobs[j].status = "queued" /\ jobs[j].attempt = 0
  BY <1>2, <1>3 DEF RowMoves
<1>8. QED
  BY <1>3, <1>4, <1>5, <1>6, <1>7

\* FreshInv is inductive.
LEMMA NextFreshInv == FreshInv /\ [Next]_vars => FreshInv'
<1> SUFFICES ASSUME FreshInv, [Next]_vars PROVE FreshInv'
  OBVIOUS
<1>1. IndInv'
  BY NextIndInv DEF FreshInv
<1>2. jobs \in Seq(Job) /\ Len(jobs) \in Nat /\ DOMAIN jobs = 1..Len(jobs)
  BY DEF FreshInv, IndInv, TypeOK
<1>3. CASE Keeps
  <2>1. /\ jobs' \in Seq(Job) /\ Len(jobs') = Len(jobs) /\ DOMAIN jobs' = DOMAIN jobs
        /\ \A j \in DOMAIN jobs : RowMoves(jobs[j], jobs'[j])
    BY <1>3 DEF Keeps, Rewrites
  <2>2. RunningIsTried' /\ RetiredIsTerminal' /\ IndexKeys'
    BY <2>1, FreshRow DEF RunningIsTried, RetiredIsTerminal, IndexKeys
  <2>3. JobsCounted'
    <3>1. IsFiniteSet(deliveries') /\ Cardinality(deliveries) <= Cardinality(deliveries')
      <4>1. IsFiniteSet(deliveries) /\ Cardinality(deliveries) \in Nat
        BY FS_CardinalityType DEF FreshInv, JobsCounted
      <4>2. \A d \in Deliveries :
              /\ IsFiniteSet(deliveries \cup {d})
              /\ Cardinality(deliveries \cup {d}) \in {Cardinality(deliveries), Cardinality(deliveries) + 1}
        BY <4>1, FS_AddElement
      <4>3. QED
        BY <1>3, <4>1, <4>2 DEF Keeps
    <3>2. Cardinality(deliveries) \in Nat /\ Cardinality(deliveries') \in Nat
      BY <3>1, FS_CardinalityType DEF FreshInv, JobsCounted
    <3>3. QED
      BY <1>2, <2>1, <3>1, <3>2 DEF FreshInv, JobsCounted, RedeliveryAddsNothing
  <2>4. OneFreshPerScope'
    <3> SUFFICES ASSUME NEW i \in DOMAIN jobs', NEW j \in DOMAIN jobs',
                        jobs'[i].status = "queued", jobs'[j].status = "queued",
                        jobs'[i].attempt = 0, jobs'[j].attempt = 0,
                        jobs'[i].key.scope = jobs'[j].key.scope
                 PROVE  i = j
      BY DEF OneFreshPerScope
    <3>1. /\ jobs[i].status = "queued" /\ jobs[i].attempt = 0 /\ jobs[i].key = jobs'[i].key
          /\ jobs[j].status = "queued" /\ jobs[j].attempt = 0 /\ jobs[j].key = jobs'[j].key
      BY <2>1, FreshRow
    <3>2. QED
      BY <2>1, <3>1 DEF FreshInv, OneFreshPerScope
  <2>5. QED
    BY <1>1, <2>2, <2>3, <2>4 DEF FreshInv
<1>4. CASE \E d, k, due : Submits(d, k, due)
  <2>0. PICK d, k, due : Submits(d, k, due)
    BY <1>4
  <2> DEFINE n == jobs'[Len(jobs) + 1]
  <2>1. /\ jobs' \in Seq(Job) /\ Len(jobs') = Len(jobs) + 1
        /\ DOMAIN jobs' = DOMAIN jobs \cup {Len(jobs) + 1}
        /\ \A j \in DOMAIN jobs : RowMoves(jobs[j], jobs'[j])
        /\ n.status = "queued" /\ n.attempt = 0 /\ ~n.retired /\ n.key = k
        /\ k.scope \in Branches => k = IndexKey(k.scope, k.head)
    BY <2>0 DEF Submits, Extends
  <2> HIDE DEF n
  <2>2. RunningIsTried' /\ RetiredIsTerminal' /\ IndexKeys'
    <3>1. \A j \in DOMAIN jobs :
             /\ jobs'[j].status = "running" => jobs'[j].attempt > 0
             /\ jobs'[j].retired => jobs'[j].status \in TERMINAL_JOB_STATUSES
             /\ jobs'[j].key.scope \in Branches =>
                  jobs'[j].key = IndexKey(jobs'[j].key.scope, jobs'[j].key.head)
      BY <2>1, FreshRow
    <3>2. QED
      BY <2>1, <3>1 DEF RunningIsTried, RetiredIsTerminal, IndexKeys, n
  <2>3. JobsCounted'
    <3>1. IsFiniteSet(deliveries) /\ d \notin deliveries /\ deliveries' = deliveries \cup {d}
      BY <2>0 DEF Submits, FreshInv, JobsCounted
    <3>2. /\ IsFiniteSet(deliveries') /\ Cardinality(deliveries) \in Nat
          /\ Cardinality(deliveries') = Cardinality(deliveries) + 1
      BY <3>1, FS_AddElement, FS_CardinalityType
    <3>3. QED
      BY <1>2, <2>1, <3>2 DEF FreshInv, JobsCounted, RedeliveryAddsNothing
  <2>4. OneFreshPerScope'
    <3> SUFFICES ASSUME NEW i \in DOMAIN jobs', NEW j \in DOMAIN jobs',
                        jobs'[i].status = "queued", jobs'[j].status = "queued",
                        jobs'[i].attempt = 0, jobs'[j].attempt = 0,
                        jobs'[i].key.scope = jobs'[j].key.scope
                 PROVE  i = j
      BY DEF OneFreshPerScope
    <3>1. ASSUME NEW l \in DOMAIN jobs, jobs'[l].status = "queued"
          PROVE  jobs'[l].key.scope # k.scope /\ jobs'[l].key = jobs[l].key
      BY <2>0, <2>1, <3>1, FreshRow DEF Submits
    <3>2. CASE i \in DOMAIN jobs /\ j \in DOMAIN jobs
      <4>1. /\ jobs[i].status = "queued" /\ jobs[i].attempt = 0 /\ jobs[i].key = jobs'[i].key
            /\ jobs[j].status = "queued" /\ jobs[j].attempt = 0 /\ jobs[j].key = jobs'[j].key
        BY <2>1, <3>2, FreshRow
      <4>2. QED
        BY <3>2, <4>1 DEF FreshInv, OneFreshPerScope
    <3>3. CASE i = Len(jobs) + 1 \/ j = Len(jobs) + 1
      BY <2>1, <3>1, <3>3 DEF n
    <3>4. QED
      BY <2>1, <3>2, <3>3
  <2>5. QED
    BY <1>1, <2>2, <2>3, <2>4 DEF FreshInv
<1>5. QED
  BY <1>3, <1>4, StepSubmits

\* FreshInv holds of the empty database.
LEMMA InitFreshInv == Init => FreshInv
<1> SUFFICES ASSUME Init PROVE FreshInv
  OBVIOUS
<1>1. IndInv
  BY InitIndInv
<1>2. Len(jobs) = 0 /\ DOMAIN jobs = {} /\ deliveries = {}
  BY DEF Init
<1>3. JobsCounted
  BY <1>2, FS_EmptySet DEF JobsCounted, RedeliveryAddsNothing
<1>4. QED
  BY <1>1, <1>2, <1>3 DEF FreshInv, RunningIsTried, RetiredIsTerminal, IndexKeys, OneFreshPerScope

\* A delivery becomes one job at most, however often it is redelivered, and of
\* the jobs of a scope that were never tried one at most is queued, through
\* retries, cancellations and reused keys.
THEOREM RequestsQueuedOnce == Spec => []OneJobPerRequest
<1>1. FreshInv /\ KeyHeldOnce => OneJobPerRequest
  BY DEF FreshInv, JobsCounted, OneJobPerRequest
<1>2. QED
  BY <1>1, KeysUnique, InitFreshInv, NextFreshInv, PTL DEF Spec

\* A push brings a waiting review forward or leaves it where it is, for every
\* debounce window: the job it queues inherits the earliest deadline.
THEOREM PushesNeverPostpone == Spec => PushNeverPostpones
<1> DEFINE A == \A i \in DOMAIN jobs, j \in DOMAIN jobs' \ DOMAIN jobs :
                  /\ jobs[i].status = "queued" /\ jobs[i].key.scope = jobs'[j].key.scope
                  /\ jobs'[i].status = "superseded"
                  => jobs'[j].available <= now \/ jobs'[j].available <= jobs[i].available
<1>1. FreshInv /\ [Next]_vars => A
  <2> SUFFICES ASSUME FreshInv, [Next]_vars,
                      NEW i \in DOMAIN jobs, NEW j \in DOMAIN jobs' \ DOMAIN jobs,
                      jobs[i].status = "queued", jobs[i].key.scope = jobs'[j].key.scope
               PROVE  jobs'[j].available <= now \/ jobs'[j].available <= jobs[i].available
    OBVIOUS
  <2>1. DOMAIN jobs' # DOMAIN jobs
    OBVIOUS
  <2>2. PICK d, k, due : Submits(d, k, due)
    BY <2>1, StepSubmits DEF Keeps, Rewrites
  <2>3. j = Len(jobs) + 1
    BY <2>2 DEF Submits, Extends
  <2>4. QED
    BY <2>2, <2>3 DEF Submits
<1> HIDE DEF A
<1>2. FreshInv /\ [Next]_vars => [A]_vars
  BY <1>1
<1>3. Spec => [][A]_vars
  BY <1>2, InitFreshInv, NextFreshInv, PTL DEF Spec
<1>4. QED
  BY <1>3 DEF PushNeverPostpones, A
=============================================================================
