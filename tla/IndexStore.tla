----------------------------- MODULE IndexStore -----------------------------
(***************************************************************************)
(* The index of one repository: immutable snapshots of its default branch  *)
(* (repository/indexing/store.py), built by index jobs of the worker and   *)
(* by hand (indexing/index_repo.py) from a checkout of a shared mirror     *)
(* (repository/mirror.py), and made active one after the other.            *)
(*                                                                         *)
(* A snapshot maps paths to versions of their content; it stands for the   *)
(* chunks, files, symbols and policy rows of the snapshot alike, which are *)
(* written by the same transaction.  begin_index_snapshot and              *)
(* activate_snapshot both lock the row of the repository, so each is one   *)
(* step.  repositories.mirror_state and last_fetched_sha, which only the   *)
(* command line shows, are left out.                                       *)
(***************************************************************************)
EXTENDS Integers, Sequences, FiniteSets

CONSTANTS
    Builders,       \* processes that build an index
    Shared,         \* the workers among them whose mirrors lie in one directory
    Commits,        \* revisions of the default branch
    Paths,          \* files of the repository
    Tree,           \* the content of each revision
    MaxPushes,      \* bound on the index jobs
    MaxSnapshots,   \* bound on the snapshots
    MaxAttempts,    \* workflow_jobs.max_attempts
    MaxCrashes      \* bound on the crashes

None == "none"
Missing == "missing"                    \* a path without rows in a snapshot
Contents == {Missing} \cup UNION {{Tree[c][p] : p \in Paths} : c \in Commits}

ASSUME IndexAssumption ==
    /\ Shared \subseteq Builders
    /\ MaxPushes \in Nat /\ MaxSnapshots \in Nat \ {0}
    /\ MaxAttempts \in Nat \ {0} /\ MaxCrashes \in Nat
    /\ None \notin Builders
    /\ Tree \in [Commits -> [Paths -> Contents]]

Empty == [p \in Paths |-> Missing]
Snapshots == 1..MaxSnapshots
Manual == 0                             \* the job of a build by hand

VARIABLES
    pushes,     \* revisions that index jobs were enqueued for, in order
    job,        \* workflow_jobs of type index_repository: [status, by, attempts]
    snap,       \* index_snapshots and the rows that belong to them
    lock,       \* who holds the lock file of the mirror
    build,      \* what each builder is doing
    crashes

vars == <<pushes, job, snap, lock, build, crashes>>

NoSnapshot == [status |-> "absent", commit |-> None, files |-> Empty, stale |-> FALSE,
               activated |-> FALSE]
NoJob == [status |-> "absent", by |-> None, attempts |-> 0]
Idle == [pc |-> "idle", next |-> "none", job |-> Manual, commit |-> None, id |-> 0,
         previous |-> 0, reuse |-> {}, inTry |-> FALSE]

TypeOK ==
    /\ pushes \in Seq(Commits) /\ Len(pushes) <= MaxPushes
    /\ job \in [1..MaxPushes ->
         [status : {"absent", "queued", "running", "succeeded", "superseded", "dead"},
          by : Builders \cup {None}, attempts : 0..MaxAttempts]]
    /\ snap \in [Snapshots ->
         [status : {"absent", "building", "active", "failed", "superseded"},
          commit : Commits \cup {None}, files : [Paths -> Contents],
          stale : BOOLEAN, activated : BOOLEAN]]
    /\ lock \in Shared \cup {None}
    /\ build \in [Builders ->
         [pc : {"idle", "over", "start", "checkout", "begin", "compare", "finalize", "leave", "complete",
                "raise"},
          next : {"none", "retry", "dead", "superseded"},
          job : 0..MaxPushes, commit : Commits \cup {None}, id : {0} \cup Snapshots,
          previous : {0} \cup Snapshots, reuse : SUBSET Paths, inTry : BOOLEAN]]
    /\ crashes \in 0..MaxCrashes

Init ==
    /\ pushes = <<>>
    /\ job = [p \in 1..MaxPushes |-> NoJob]
    /\ snap = [s \in Snapshots |-> NoSnapshot]
    /\ lock = None
    /\ build = [b \in Builders |-> Idle]
    /\ crashes = 0

At(b, pc) == build[b].pc = pc
\* A worker goes on to its next job, the command was one process.
Over(b) == IF b \in Shared THEN Idle ELSE [Idle EXCEPT !.pc = "over"]
\* Leaves the build with an exception, which the index job answers with `next`.
Raise(b, next) == build' = [build EXCEPT ![b].pc = "raise", ![b].next = next,
                                         ![b].previous = 0, ![b].reuse = {}]

Active == {s \in Snapshots : snap[s].status = "active"}
Viable == {s \in Snapshots : snap[s].status \in {"building", "active"}}
Newest(S) == CHOOSE s \in S : \A t \in S : t <= s

-----------------------------------------------------------------------------
(* Index jobs, reduced from WorkflowQueue: one of the scope runs at a time, *)
(* and a push supersedes the queued job of an older one.                   *)

Push(c) ==
    LET n == Len(pushes) + 1 IN
    /\ n <= MaxPushes
    /\ pushes' = Append(pushes, c)
    /\ job' = [p \in 1..MaxPushes |->
                 IF p = n THEN [NoJob EXCEPT !.status = "queued"]
                 ELSE IF job[p].status = "queued" THEN [job[p] EXCEPT !.status = "superseded"]
                 ELSE job[p]]
    /\ UNCHANGED <<snap, lock, build, crashes>>

Claim(b) ==
    /\ At(b, "idle") /\ b \in Shared
    /\ \A p \in 1..MaxPushes : job[p].status # "running"
    /\ \E p \in 1..MaxPushes :
         /\ job[p].status = "queued"
         /\ job' = [job EXCEPT ![p] = [status |-> "running", by |-> b, attempts |-> @.attempts + 1]]
         /\ build' = [build EXCEPT ![b] = [Idle EXCEPT !.pc = "start", !.job = p,
                                                       !.commit = pushes[p]]]
    /\ UNCHANGED <<pushes, snap, lock, crashes>>

Retried(j) == [j EXCEPT !.status = IF j.attempts < MaxAttempts THEN "queued" ELSE "dead",
                        !.by = None]

LeaseExpires(p) ==
    /\ job[p].status = "running"
    /\ job' = [job EXCEPT ![p] = Retried(@)]
    /\ UNCHANGED <<pushes, snap, lock, build, crashes>>

Owns(b) == job[build[b].job].by = b

\* _heartbeat_and_check_latest
Latest(b) == Owns(b) /\ build[b].job = Len(pushes)

\* report_progress, then on with the build; a build by hand has no progress to
\* report.
Report(b, build1) ==
    build' = IF build[b].job = Manual \/ Latest(b) THEN [build EXCEPT ![b] = build1]
             ELSE [build EXCEPT ![b] = [build1 EXCEPT !.pc = "raise", !.next = "superseded",
                                                      !.inTry = build[b].inTry]]

\* index_repo run by hand, on a checkout of its own.
BuildByHand(b, c) ==
    /\ At(b, "idle") /\ b \notin Shared
    /\ build' = [build EXCEPT ![b] = [Idle EXCEPT !.pc = "begin", !.commit = c]]
    /\ UNCHANGED <<pushes, job, snap, lock, crashes>>

-----------------------------------------------------------------------------
(* process_index_job and _index_repository_job.                            *)

\* The repository may have been disabled or renamed meanwhile.
Start(b) ==
    /\ At(b, "start")
    /\ IF ~Latest(b) THEN Raise(b, "superseded")
       ELSE Raise(b, "dead") \/ build' = [build EXCEPT ![b].pc = "checkout"]
    /\ UNCHANGED <<pushes, job, snap, lock, crashes>>

\* RepositoryMirror.checkout up to its yield: fetch, resolve, measure, add a
\* worktree; each may fail, and the lock is then given back.
Checkout(b) ==
    /\ At(b, "checkout") /\ lock = None
    /\ \/ lock' = b /\ Report(b, [build[b] EXCEPT !.pc = "begin"])
       \/ UNCHANGED lock /\ Raise(b, "retry")
    /\ UNCHANGED <<pushes, job, snap, crashes>>

-----------------------------------------------------------------------------
(* index_repo.                                                             *)

\* A build of the revision that was not touched for stale_after_seconds.
FailStale(c) ==
    [s \in Snapshots |-> IF snap[s].status = "building" /\ snap[s].commit = c /\ snap[s].stale
                         THEN [snap[s] EXCEPT !.status = "failed", !.stale = FALSE] ELSE snap[s]]

\* begin_index_snapshot
Begin(b) ==
    LET c == build[b].commit
        active == {s \in Active : snap[s].commit = c}
        swept == FailStale(c)
        building == {s \in Snapshots : swept[s].status = "building" /\ swept[s].commit = c}
        free == {s \in Snapshots : snap[s].status = "absent"}
        new == CHOOSE s \in free : \A t \in free : s <= t
        previous == IF Active = {} THEN 0 ELSE Newest(Active)
    IN  /\ At(b, "begin")
        /\ \/ Raise(b, "retry") /\ UNCHANGED snap
           \/ active # {} /\ UNCHANGED snap /\ Report(b, [build[b] EXCEPT !.pc = "leave"])
           \/ /\ active = {} /\ building # {}
              /\ snap' = swept
              /\ Raise(b, "retry")
           \/ /\ active = {} /\ building = {} /\ free # {}
              /\ snap' = [swept EXCEPT ![new] = [NoSnapshot EXCEPT !.status = "building", !.commit = c]]
              /\ Report(b, [build[b] EXCEPT !.pc = "compare", !.id = new, !.previous = previous,
                                            !.inTry = TRUE])
        /\ UNCHANGED <<pushes, job, lock, crashes>>

\* Faulty variant: a path that was indexed before is taken to be unchanged.
Indexed(b) == {p \in Paths : build[b].previous # 0
                                /\ snap[build[b].previous].files[p] # Missing}

\* The paths whose content hash is that of the previous snapshot.
Unchanged(b) == {p \in Paths : build[b].previous # 0
                                /\ snap[build[b].previous].files[p] = Tree[build[b].commit][p]}

\* The graph, chunks and files are computed, and compared with what there is.
\* An exception from here on fails the snapshot.
Compare(b) ==
    /\ At(b, "compare")
    /\ \/ /\ snap' = [snap EXCEPT ![build[b].id].stale =
                        IF snap[build[b].id].status = "building" THEN FALSE ELSE @]
          /\ Report(b, [build[b] EXCEPT !.pc = "finalize", !.reuse = Unchanged(b)])
       \/ Raise(b, "retry") /\ UNCHANGED snap
    /\ UNCHANGED <<pushes, job, lock, crashes>>

\* copy_unchanged_chunks and copy_unchanged_files, upsert_chunks and
\* upsert_repository_files.
Copied(b, p) == snap[build[b].previous].files[p]
Upserted(b, p) == Tree[build[b].commit][p]
Written(b) == [p \in Paths |-> IF p \in build[b].reuse THEN Copied(b, p) ELSE Upserted(b, p)]

\* validate_snapshot_ready: as many files as were found.
Ready(b) == Cardinality({p \in Paths : Written(b)[p] # Missing})
              = Cardinality({p \in Paths : Tree[build[b].commit][p] # Missing})

\* Faulty variant: whoever finishes last becomes active.
ActivateLast(id, files) ==
    [s \in Snapshots |->
        IF s = id THEN [snap[s] EXCEPT !.status = "active", !.files = files, !.activated = TRUE]
        ELSE IF snap[s].status = "active" THEN [snap[s] EXCEPT !.status = "superseded"] ELSE snap[s]]

\* activate_snapshot, unless a newer snapshot is being built or active.
Activated(id, files) ==
    IF id # Newest(Viable)
    THEN [snap EXCEPT ![id].status = "superseded", ![id].files = files, ![id].stale = FALSE]
    ELSE [s \in Snapshots |->
            IF s = id THEN [snap[s] EXCEPT !.status = "active", !.files = files, !.stale = FALSE,
                                           !.activated = TRUE]
            ELSE IF snap[s].status = "active" THEN [snap[s] EXCEPT !.status = "superseded"]
            ELSE snap[s]]

\* Faulty variant: rows are written to a snapshot of any status.
WritableAny(id) == TRUE

\* write_repository_policy raises a ValueError unless the snapshot is building.
Writable(id) == snap[id].status = "building"

\* The last transaction: write, validate, activate.
Finalize(b) ==
    LET id == build[b].id IN
    /\ At(b, "finalize")
    /\ \/ /\ Writable(id) /\ Ready(b)
          /\ snap' = IF snap[id].status = "building" THEN Activated(id, Written(b))
                     ELSE [snap EXCEPT ![id].files = Written(b)]
          /\ Report(b, [build[b] EXCEPT !.pc = "leave", !.previous = 0, !.reuse = {}])
       \/ ~Writable(id) /\ Raise(b, "dead") /\ UNCHANGED snap
       \/ Raise(b, "retry") /\ UNCHANGED snap
    /\ UNCHANGED <<pushes, job, lock, crashes>>

\* Faulty variant: the lock is kept by a build that was superseded.
LockKept(b) == IF lock = b /\ build[b].next # "superseded" THEN None ELSE lock

LockAfter(b) == IF lock = b THEN None ELSE lock

\* complete_workflow_job, supersede and fail: each asks for the lease.
EndJob(b, status) ==
    job' = IF build[b].job = Manual \/ ~Owns(b) THEN job
           ELSE [job EXCEPT ![build[b].job] = IF status = "retry" THEN Retried(@)
                                              ELSE [@ EXCEPT !.status = status, !.by = None]]

\* mark_snapshot_failed, unless the exception came before the try block, as that
\* of a build superseded right after begin_index_snapshot does.  The checkout is
\* removed, and the job ends as the exception tells.
Raised(b) ==
    LET id == build[b].id IN
    /\ At(b, "raise")
    /\ snap' = IF build[b].inTry /\ snap[id].status = "building"
               THEN [snap EXCEPT ![id].status = "failed", ![id].stale = FALSE] ELSE snap
    /\ lock' = LockAfter(b)
    /\ EndJob(b, build[b].next)
    /\ build' = [build EXCEPT ![b] = Over(b)]
    /\ UNCHANGED <<pushes, crashes>>

\* The end of the checkout, and the last look at the lease and the queue.
Leave(b) ==
    /\ At(b, "leave")
    /\ lock' = LockAfter(b)
    /\ IF build[b].job = Manual THEN build' = [build EXCEPT ![b] = Over(b)]
       ELSE Report(b, [build[b] EXCEPT !.pc = "complete", !.inTry = FALSE])
    /\ UNCHANGED <<pushes, job, snap, crashes>>

Complete(b) ==
    /\ At(b, "complete")
    /\ EndJob(b, "succeeded")
    /\ build' = [build EXCEPT ![b] = Over(b)]
    /\ UNCHANGED <<pushes, snap, lock, crashes>>

\* The process dies; the operating system drops its lock.
Crash(b) ==
    /\ build[b].pc \notin {"idle", "over"} /\ crashes < MaxCrashes
    /\ crashes' = crashes + 1
    /\ build' = [build EXCEPT ![b] = Over(b)]
    /\ lock' = IF lock = b THEN None ELSE lock
    /\ UNCHANGED <<pushes, job, snap>>

\* An hour goes by without touch_snapshot.
GrowsStale(s) ==
    /\ snap[s].status = "building" /\ ~snap[s].stale
    /\ snap' = [snap EXCEPT ![s].stale = TRUE]
    /\ UNCHANGED <<pushes, job, lock, build, crashes>>

Work(b) ==
    \/ Start(b) \/ Checkout(b) \/ Begin(b) \/ Compare(b) \/ Finalize(b)
    \/ Raised(b) \/ Leave(b) \/ Complete(b)

Next ==
    \/ \E c \in Commits : Push(c) \/ \E b \in Builders : BuildByHand(b, c)
    \/ \E b \in Builders : Claim(b) \/ Work(b) \/ Crash(b)
    \/ \E p \in 1..MaxPushes : LeaseExpires(p)
    \/ \E s \in Snapshots : GrowsStale(s)

Spec == Init /\ [][Next]_vars

-----------------------------------------------------------------------------
(* Properties.                                                             *)

\* A repository has at most one active snapshot, and every snapshot that was
\* ever active (a review keeps the id of the one it began with) holds exactly
\* the tree of its commit, wherever its rows were copied from.
ActiveIsExact ==
    /\ Cardinality(Active) <= 1
    /\ \A s \in Snapshots : snap[s].activated => snap[s].files = Tree[snap[s].commit]

\* A snapshot never changes once its build is over: what a review reads from it
\* later is what it read before.
SnapshotsImmutable ==
    [][\A s \in Snapshots :
         snap[s].status \in {"active", "failed", "superseded"} => snap'[s].files = snap[s].files]_vars

\* Activation follows the order of the requests, not that in which the builds
\* finish, and never leaves the repository without an index.
ActiveOnlyAdvances ==
    [][Active # {} => Active' # {} /\ Newest(Active') >= Newest(Active)]_vars

\* The lock of the mirror is held by a builder that is at work in its checkout,
\* and by nobody once it left, whatever made it leave: nobody waits for ever.
LockIsHeldInside ==
    lock # None => build[lock].pc \in {"begin", "compare", "finalize", "leave", "raise"}

\* The mirror is locked by a builder at work or by nobody.
MirrorGuarded == TypeOK /\ LockIsHeldInside

\* Snapshots are written once, and later requests replace earlier ones.
HistoryAdvances == SnapshotsImmutable /\ ActiveOnlyAdvances
=============================================================================
