-------------------------- MODULE IndexStoreProofs --------------------------
(***************************************************************************)
(* Proofs about IndexStore, for every number of builders, pushes, crashes  *)
(* and snapshots and whatever the revisions hold: the mirror's lock is     *)
(* held by a builder in its checkout, a snapshot that was ever active is   *)
(* the tree of its commit, and activation only advances.                   *)
(*                                                                         *)
(* And proofs about what an index build stores with its snapshot and what  *)
(* a review reads of it, for every input: globs match what they spell,     *)
(* nested policies resolve to what the nearest directories say, triggers   *)
(* merge, plans read what an operator clustered, and what is retrieved is  *)
(* ranked fairly and fits the prompt.  The provers have no induction over  *)
(* data: a function that is defined by recursion is the run of its steps   *)
(* (RunByRecursion), and what holds of every step of a run is shown from   *)
(* the least step of which it does not (Induction).                        *)
(***************************************************************************)
EXTENDS MCIndexStore, FiniteSetTheorems, WellFoundedInduction, TLAPS

-----------------------------------------------------------------------------
(* The inductive invariant.                                                *)

JobRow == [status : {"absent", "queued", "running", "succeeded", "superseded", "dead"},
           by : Builders \cup {None}, attempts : 0..MaxAttempts]
SnapRow == [status : {"absent", "building", "active", "failed", "superseded"},
            commit : Commits \cup {None}, files : [Paths -> Contents],
            stale : BOOLEAN, activated : BOOLEAN]
BuildRow == [pc : {"idle", "over", "start", "checkout", "begin", "compare", "finalize", "leave",
                   "complete", "raise"},
             next : {"none", "retry", "dead", "superseded"},
             job : 0..MaxPushes, commit : Commits \cup {None}, id : {0} \cup Snapshots,
             previous : {0} \cup Snapshots, reuse : SUBSET Paths, inTry : BOOLEAN]

\* A job that waits has an attempt left, and there is a job for each push.
JobsStand ==
    \A p \in 1..MaxPushes :
      /\ job[p].status = "queued" => job[p].attempts < MaxAttempts
      /\ job[p].status # "absent" => p <= Len(pushes)

\* A builder at work knows its revision; one that has begun has a snapshot of
\* it; what it compares with was active once; what it will copy is unchanged.
Begun(r, sn, n) ==
    /\ r.pc \notin {"idle", "over"} => r.commit \in Commits
    /\ r.job <= n
    /\ r.pc = "raise" => r.next # "none"
    /\ r.pc \in {"start", "checkout", "begin"} => ~r.inTry /\ r.reuse = {}
    /\ r.pc \in {"compare", "finalize"} => r.inTry
    /\ r.inTry => /\ r.id \in Snapshots
                  /\ sn[r.id].status # "absent" /\ sn[r.id].commit = r.commit
    /\ r.previous # 0 => sn[r.previous].status \in {"active", "superseded"}
    /\ \A p \in r.reuse : r.previous # 0 /\ sn[r.previous].files[p] = Tree[r.commit][p]
BuildersStand ==
    \A b \in Builders : /\ Begun(build[b], snap, Len(pushes))
                        /\ build[b].pc \in {"start", "checkout"} => b \in Shared

OneActive == \A s, t \in Active : s = t
WasExact(s) == s.activated => s.status \in {"active", "superseded"} /\ s.files = Tree[s.commit]
SnapsStand == OneActive /\ \A s \in Snapshots : WasExact(snap[s])

IInv == TypeOK /\ LockIsHeldInside /\ JobsStand /\ BuildersStand /\ SnapsStand

LEMMA InitIInv == Init => IInv
<1> SUFFICES ASSUME Init PROVE IInv
  OBVIOUS
<1> USE IndexAssumption DEF Init
<1>1. NoJob \in JobRow /\ NoSnapshot \in SnapRow /\ Idle \in BuildRow
  BY DEF NoJob, NoSnapshot, Idle, JobRow, SnapRow, BuildRow, Empty, Contents, Manual
<1>2. Len(pushes) = 0 /\ pushes \in Seq(Commits)
  OBVIOUS
<1>3. TypeOK
  BY <1>1, <1>2 DEF TypeOK, JobRow, SnapRow, BuildRow
<1>4. JobsStand
  BY <1>1 DEF JobsStand, NoJob
<1>5. BuildersStand
  BY <1>1, <1>2 DEF BuildersStand, Begun, Idle, Manual
<1>6. SnapsStand
  BY DEF SnapsStand, OneActive, Active, WasExact, NoSnapshot
<1>7. QED
  BY <1>3, <1>4, <1>5, <1>6 DEF IInv, LockIsHeldInside

-----------------------------------------------------------------------------
(* Snapshots have numbers: a set of them has a least and a greatest.       *)

LEMMA LeastExists ==
    ASSUME NEW S \in SUBSET Nat, S # {}
    PROVE  \E s \in S : \A t \in S : s <= t
<1> DEFINE R == OpToRel(<, Nat)
<1>a. IsWellFoundedOn(R, Nat)
  BY NatLessThanWellFounded
<1>b. \A t, s \in S : t < s => <<t, s>> \in R
  BY DEF OpToRel
<1> HIDE DEF R
<1>0. IsWellFoundedOn(R, Nat) /\ \A t, s \in S : t < s => <<t, s>> \in R
  BY <1>a, <1>b
<1>1. PICK s \in S : \A t \in S : ~(<<t, s>> \in R)
  <2>1. S \subseteq Nat
    OBVIOUS
  <2>2. QED
    BY <1>a, <2>1, WFMin, Zenon
<1>2. \A t \in S : ~(t < s)
  BY <1>0, <1>1
<1>3. QED
  BY <1>2

LEMMA GreatestExists ==
    ASSUME NEW S \in SUBSET Snapshots, S # {}
    PROVE  \E s \in S : \A t \in S : t <= s
<1> DEFINE D == {MaxSnapshots - s : s \in S}
<1>1. D \in SUBSET Nat /\ D # {}
  <2>1. \A s \in S : MaxSnapshots - s \in Nat
    BY IndexAssumption DEF Snapshots
  <2>2. QED
    BY <2>1
<1>2. PICK d \in D : \A e \in D : d <= e
  BY <1>1, LeastExists
<1>3. PICK s \in S : d = MaxSnapshots - s
  BY <1>2
<1>4. \A t \in S : MaxSnapshots - t \in D
  OBVIOUS
<1>5. \A t \in S : MaxSnapshots - s <= MaxSnapshots - t
  BY <1>2, <1>3, <1>4
<1>6. \A t \in S : t <= s
  BY <1>5, IndexAssumption DEF Snapshots
<1>7. QED
  BY <1>6

LEMMA NewestIsGreatest ==
    ASSUME NEW S \in SUBSET Snapshots, S # {}
    PROVE  Newest(S) \in S /\ \A t \in S : t <= Newest(S)
BY GreatestExists DEF Newest

-----------------------------------------------------------------------------
(* What a step may do to snapshots.                                        *)

\* Nothing that others hold on to changes: the revision of a snapshot, that it
\* was active, and the files of one whose build is over.
Follows(old, new) ==
    \A s \in Snapshots :
      /\ old[s].status # "absent" =>
           new[s].status # "absent" /\ new[s].commit = old[s].commit
      /\ old[s].status \in {"active", "superseded"} => new[s].status \in {"active", "superseded"}
      /\ old[s].status \in {"active", "failed", "superseded"} => new[s].files = old[s].files

\* The active snapshot stays, or makes way for one that is no older.
ActiveMoves ==
    \/ \A s \in Snapshots : snap'[s].status = "active" <=> snap[s].status = "active"
    \/ \E id \in Snapshots :
         /\ \A s \in Snapshots : snap'[s].status = "active" <=> s = id
         /\ \A s \in Active : s <= id

SnapStep ==
    /\ snap' \in [Snapshots -> SnapRow]
    /\ Follows(snap, snap') /\ ActiveMoves
    /\ \A s \in Snapshots : WasExact(snap'[s])

\* A snapshot is left as it is, but for its age, or its build fails.
Ages(old, new) ==
    /\ new \in SnapRow
    /\ new.commit = old.commit /\ new.files = old.files /\ new.activated = old.activated
    /\ new.status = old.status \/ (old.status = "building" /\ new.status = "failed")

LEMMA AgingIsASnapStep ==
    ASSUME IInv, snap' \in [Snapshots -> SnapRow],
           \A s \in Snapshots : Ages(snap[s], snap'[s])
    PROVE  SnapStep
<1>1. \A s \in Snapshots : WasExact(snap[s])
  BY DEF IInv, SnapsStand
<1>2. Follows(snap, snap')
  BY DEF Follows, Ages
<1>3. ActiveMoves
  BY DEF ActiveMoves, Ages
<1>4. \A s \in Snapshots : WasExact(snap'[s])
  BY <1>1 DEF WasExact, Ages
<1>5. QED
  BY <1>2, <1>3, <1>4 DEF SnapStep

LEMMA UnchangedIsASnapStep ==
    ASSUME IInv, UNCHANGED snap
    PROVE  SnapStep
<1>1. snap \in [Snapshots -> SnapRow]
  BY DEF IInv, TypeOK, SnapRow
<1>2. \A s \in Snapshots : Ages(snap[s], snap'[s])
  BY <1>1 DEF Ages
<1>3. QED
  BY <1>1, <1>2, AgingIsASnapStep

LEMMA SweepingAges ==
    ASSUME IInv, NEW c
    PROVE  /\ FailStale(c) \in [Snapshots -> SnapRow]
           /\ \A s \in Snapshots : Ages(snap[s], FailStale(c)[s])
<1>1. snap \in [Snapshots -> SnapRow]
  BY DEF IInv, TypeOK, SnapRow
<1>3. ASSUME NEW s \in Snapshots PROVE FailStale(c)[s] \in SnapRow /\ Ages(snap[s], FailStale(c)[s])
  <2>1. CASE snap[s].status = "building" /\ snap[s].commit = c /\ snap[s].stale
    <3>1. FailStale(c)[s] = [snap[s] EXCEPT !.status = "failed", !.stale = FALSE]
      BY <2>1 DEF FailStale
    <3>2. QED
      BY <1>1, <2>1, <3>1, ZenonT(40) DEF Ages, SnapRow
  <2>2. CASE ~(snap[s].status = "building" /\ snap[s].commit = c /\ snap[s].stale)
    <3>1. FailStale(c)[s] = snap[s]
      BY <2>2 DEF FailStale
    <3>2. QED
      BY <1>1, <3>1 DEF Ages
  <2>3. QED
    BY <2>1, <2>2
<1>4. FailStale(c) \in [Snapshots -> SnapRow]
  <2> DEFINE g(s) == IF snap[s].status = "building" /\ snap[s].commit = c /\ snap[s].stale
                     THEN [snap[s] EXCEPT !.status = "failed", !.stale = FALSE] ELSE snap[s]
  <2>1. FailStale(c) = [s \in Snapshots |-> g(s)]
    BY Zenon DEF FailStale
  <2>2. \A s \in Snapshots : g(s) \in SnapRow
    BY <1>3, <2>1
  <2> HIDE DEF g
  <2>3. QED
    BY <2>1, <2>2
<1>5. QED
  BY <1>3, <1>4

\* begin_index_snapshot writes a row for a number that had none.
LEMMA BeginningIsASnapStep ==
    ASSUME IInv, NEW c \in Commits, NEW new \in Snapshots, snap[new].status = "absent",
           snap' = [FailStale(c) EXCEPT ![new] =
                      [NoSnapshot EXCEPT !.status = "building", !.commit = c]]
    PROVE  SnapStep /\ snap'[new].status = "building" /\ snap'[new].commit = c
<1> DEFINE row == [NoSnapshot EXCEPT !.status = "building", !.commit = c]
<1>1. /\ row \in SnapRow /\ row.status = "building" /\ row.commit = c /\ ~row.activated
  BY DEF NoSnapshot, SnapRow, Empty, Contents
<1>2. /\ FailStale(c) \in [Snapshots -> SnapRow]
      /\ \A s \in Snapshots : Ages(snap[s], FailStale(c)[s])
  BY SweepingAges
<1>3. /\ snap' \in [Snapshots -> SnapRow] /\ snap'[new] = row
      /\ \A s \in Snapshots \ {new} : Ages(snap[s], snap'[s])
  BY <1>1, <1>2
<1>4. \A s \in Snapshots : WasExact(snap[s])
  BY DEF IInv, SnapsStand
<1> HIDE DEF row
<1>5. Follows(snap, snap')
  BY <1>3 DEF Follows, Ages
<1>6. ActiveMoves
  BY <1>1, <1>3 DEF ActiveMoves, Ages
<1>7. \A s \in Snapshots : WasExact(snap'[s])
  <2>1. WasExact(snap'[new])
    BY <1>1, <1>3 DEF WasExact
  <2>2. ASSUME NEW s \in Snapshots \ {new} PROVE WasExact(snap'[s])
    <3>1. Ages(snap[s], snap'[s]) /\ WasExact(snap[s])
      BY <1>3, <1>4
    <3>2. QED
      BY <3>1 DEF WasExact, Ages
  <2>3. QED
    BY <2>1, <2>2
<1>8. QED
  BY <1>1, <1>3, <1>5, <1>6, <1>7 DEF SnapStep

\* What a build writes is the tree of its revision, copied or not.
LEMMA WrittenIsTheTree ==
    ASSUME IInv, NEW b \in Builders, At(b, "finalize")
    PROVE  /\ build[b].commit \in Commits
           /\ Written(b) = Tree[build[b].commit] /\ Written(b) \in [Paths -> Contents]
<1>1. Begun(build[b], snap, Len(pushes))
  BY DEF IInv, BuildersStand
<1>2. /\ build[b].commit \in Commits
      /\ \A p \in build[b].reuse : snap[build[b].previous].files[p] = Tree[build[b].commit][p]
  BY <1>1 DEF Begun, At
<1>3. Tree[build[b].commit] \in [Paths -> Contents]
  BY <1>2, IndexAssumption
<1>4. Written(b) = [p \in Paths |-> Tree[build[b].commit][p]]
  BY <1>2, Zenon DEF Written, Copied, Upserted
<1>5. QED
  BY <1>2, <1>3, <1>4

\* activate_snapshot, of a snapshot that is still being built.
LEMMA ActivationIsASnapStep ==
    ASSUME IInv, NEW id \in Snapshots, NEW files \in [Paths -> Contents],
           snap[id].status = "building", files = Tree[snap[id].commit],
           snap' = Activated(id, files)
    PROVE  SnapStep
<1>1. snap \in [Snapshots -> SnapRow]
  BY DEF IInv, TypeOK, SnapRow
<1>2. \A s \in Snapshots : WasExact(snap[s])
  BY DEF IInv, SnapsStand
<1>3. CASE id # Newest(Viable)
  <2> DEFINE row == [snap[id] EXCEPT !.status = "superseded", !.files = files, !.stale = FALSE]
  <2>1. /\ snap' = [snap EXCEPT ![id] = row]
        /\ row \in SnapRow /\ row.status = "superseded" /\ row.commit = snap[id].commit
        /\ row.activated = snap[id].activated
    BY <1>1, <1>3 DEF Activated, SnapRow
  <2>2. ~snap[id].activated
    BY <1>2 DEF WasExact
  <2> HIDE DEF row
  <2>3. snap' \in [Snapshots -> SnapRow] /\ Follows(snap, snap')
    BY <1>1, <2>1 DEF Follows
  <2>4. ActiveMoves
    BY <1>1, <2>1 DEF ActiveMoves
  <2>5. \A s \in Snapshots : WasExact(snap'[s])
    BY <1>1, <1>2, <2>1, <2>2 DEF WasExact
  <2>6. QED
    BY <2>3, <2>4, <2>5 DEF SnapStep
<1>4. CASE id = Newest(Viable)
  <2>0. \A s \in Active : s <= id
    <3>1. Viable \in SUBSET Snapshots /\ id \in Viable /\ Active \subseteq Viable
      BY DEF Viable, Active
    <3>2. QED
      BY <1>4, <3>1, NewestIsGreatest
  <2> DEFINE row == [snap[id] EXCEPT !.status = "active", !.files = files, !.stale = FALSE,
                                     !.activated = TRUE]
             over(s) == [snap[s] EXCEPT !.status = "superseded"]
             g(s) == IF s = id THEN row ELSE IF snap[s].status = "active" THEN over(s) ELSE snap[s]
  <2>1. snap' = [s \in Snapshots |-> g(s)]
    BY <1>4, Zenon DEF Activated
  <2>2. /\ row \in SnapRow /\ row.status = "active" /\ row.commit = snap[id].commit
        /\ row.files = files
    BY <1>1 DEF SnapRow
  <2>3. ASSUME NEW s \in Snapshots
        PROVE  /\ over(s) \in SnapRow /\ over(s).status = "superseded"
               /\ over(s).commit = snap[s].commit /\ over(s).files = snap[s].files
               /\ over(s).activated = snap[s].activated
    BY <1>1 DEF SnapRow
  <2> HIDE DEF row, over
  <2>4. \A s \in Snapshots :
          /\ s = id => snap'[s] = row
          /\ s # id /\ snap[s].status = "active" => snap'[s] = over(s)
          /\ s # id /\ snap[s].status # "active" => snap'[s] = snap[s]
    BY <2>1
  <2>5. snap' \in [Snapshots -> SnapRow]
    <3>1. \A s \in Snapshots : g(s) \in SnapRow
      BY <1>1, <2>2, <2>3
    <3> HIDE DEF g
    <3>2. QED
      BY <2>1, <3>1
  <2> HIDE DEF g
  <2>6. Follows(snap, snap')
    BY <2>2, <2>3, <2>4 DEF Follows
  <2>7. ActiveMoves
    <3>1. \A s \in Snapshots : snap'[s].status = "active" <=> s = id
      BY <2>2, <2>3, <2>4
    <3>2. QED
      BY <2>0, <3>1 DEF ActiveMoves
  <2>8. ASSUME NEW s \in Snapshots PROVE WasExact(snap'[s])
    <3>1. WasExact(snap[s])
      BY <1>2
    <3>2. CASE s = id
      BY <2>2, <2>4, <3>2 DEF WasExact
    <3>3. CASE s # id /\ snap[s].status = "active"
      BY <2>3, <2>4, <3>1, <3>3 DEF WasExact
    <3>4. CASE s # id /\ snap[s].status # "active"
      BY <2>4, <3>1, <3>4
    <3>5. QED
      BY <3>2, <3>3, <3>4
  <2>9. QED
    BY <2>5, <2>6, <2>7, <2>8 DEF SnapStep
<1>5. QED
  BY <1>3, <1>4

-----------------------------------------------------------------------------
(* What a step may do to builders, jobs and the lock.                      *)

LEMMA StillBegun ==
    ASSUME IInv, SnapStep, NEW r \in BuildRow, NEW n \in Nat, NEW m \in Nat, n <= m,
           Begun(r, snap, n)
    PROVE  Begun(r, snap', m)
<1>1. Follows(snap, snap')
  BY DEF SnapStep
<1>2. r.job <= m
  BY DEF Begun, BuildRow
<1>3. r.inTry => /\ r.id \in Snapshots
                 /\ snap'[r.id].status # "absent" /\ snap'[r.id].commit = r.commit
  BY <1>1 DEF Begun, Follows
<1>4. r.previous # 0 => snap'[r.previous].status \in {"active", "superseded"}
  BY <1>1 DEF Begun, Follows, BuildRow
<1>5. \A p \in r.reuse : r.previous # 0 /\ snap'[r.previous].files[p] = Tree[r.commit][p]
  BY <1>1 DEF Begun, Follows, BuildRow
<1>6. QED
  BY <1>2, <1>3, <1>4, <1>5 DEF Begun

Inside == {"begin", "compare", "finalize", "leave", "raise"}

\* A step of one builder, as far as it and the lock are concerned.
BuilderStep(b, r) ==
    /\ r \in BuildRow /\ build' = [build EXCEPT ![b] = r]
    /\ Begun(r, snap', Len(pushes))
    /\ r.pc \in {"start", "checkout"} => b \in Shared
    /\ lock' \in {lock, b, None}
    /\ lock' = b => b \in Shared /\ r.pc \in Inside

LEMMA BuildersKeepStanding ==
    ASSUME IInv, SnapStep, NEW b \in Builders, NEW r, BuilderStep(b, r), UNCHANGED pushes
    PROVE  /\ build' \in [Builders -> BuildRow] /\ BuildersStand'
           /\ lock' \in Shared \cup {None} /\ LockIsHeldInside'
<1>1. /\ build \in [Builders -> BuildRow] /\ Len(pushes) \in Nat
      /\ lock \in Shared \cup {None} /\ Shared \subseteq Builders /\ None \notin Builders
  BY IndexAssumption DEF IInv, TypeOK, BuildRow
<1>2. build' \in [Builders -> BuildRow]
  BY <1>1 DEF BuilderStep
<1>3. BuildersStand'
  <2>1. ASSUME NEW c \in Builders, c # b PROVE Begun(build'[c], snap', Len(pushes'))
    <3>1. build'[c] = build[c] /\ build[c] \in BuildRow /\ Begun(build[c], snap, Len(pushes))
      BY <1>1, <2>1 DEF BuilderStep, IInv, BuildersStand
    <3>2. QED
      BY <1>1, <3>1, StillBegun
  <2>2. build'[b] = r /\ Begun(r, snap', Len(pushes'))
    BY <1>1 DEF BuilderStep
  <2>3. QED
    BY <1>1, <2>1, <2>2 DEF BuildersStand, BuilderStep, IInv
<1>4. lock' \in Shared \cup {None}
  BY <1>1 DEF BuilderStep
<1>5. LockIsHeldInside'
  <2>1. CASE lock' = b
    BY <1>1, <2>1 DEF LockIsHeldInside, BuilderStep, Inside
  <2>2. CASE lock' # b
    BY <1>1, <2>2 DEF LockIsHeldInside, BuilderStep, IInv
  <2>3. QED
    BY <2>1, <2>2
<1>6. QED
  BY <1>2, <1>3, <1>4, <1>5

LEMMA RaiseIsABuilderStep ==
    ASSUME IInv, SnapStep, NEW b \in Builders, NEW next \in {"retry", "dead", "superseded"},
           build[b].pc \notin {"idle", "over"}, Raise(b, next), UNCHANGED <<pushes, lock>>
    PROVE  \E r : BuilderStep(b, r)
<1> DEFINE r == [build[b] EXCEPT !.pc = "raise", !.next = next, !.previous = 0, !.reuse = {}]
<1>1. /\ build[b] \in BuildRow /\ build \in [Builders -> BuildRow] /\ Len(pushes) \in Nat
      /\ lock \in Shared \cup {None} /\ None \notin Builders
  BY IndexAssumption DEF IInv, TypeOK, BuildRow
<1>2. Begun(build[b], snap', Len(pushes))
  BY <1>1, StillBegun DEF IInv, BuildersStand
<1>3. /\ r \in BuildRow /\ r.pc = "raise" /\ r.next = next /\ r.previous = 0 /\ r.reuse = {}
      /\ r.job = build[b].job /\ r.commit = build[b].commit /\ r.id = build[b].id
      /\ r.inTry = build[b].inTry
  BY <1>1 DEF BuildRow
<1>4. build' = [build EXCEPT ![b] = r]
  BY <1>1 DEF Raise
<1> HIDE DEF r
<1>5. Begun(r, snap', Len(pushes))
  BY <1>2, <1>3 DEF Begun
<1>6. BuilderStep(b, r)
  BY <1>1, <1>3, <1>4, <1>5 DEF BuilderStep, Inside
<1>7. QED
  BY <1>6

LEMMA ReportIsABuilderStep ==
    ASSUME IInv, SnapStep, NEW b \in Builders, NEW r1 \in BuildRow,
           build[b].pc \notin {"idle", "over"}, UNCHANGED pushes,
           Begun(r1, snap', Len(pushes)), r1.pc \in Inside \cup {"complete"},
           build[b].inTry => r1.id = build[b].id /\ r1.commit = build[b].commit,
           lock' \in {lock, b, None}, lock' = b => b \in Shared /\ r1.pc \in Inside,
           Report(b, r1)
    PROVE  \E r : BuilderStep(b, r)
<1> DEFINE r2 == [r1 EXCEPT !.pc = "raise", !.next = "superseded", !.inTry = build[b].inTry]
<1>1. /\ build[b] \in BuildRow /\ build \in [Builders -> BuildRow] /\ Len(pushes) \in Nat
  BY DEF IInv, TypeOK, BuildRow
<1>2. Begun(build[b], snap', Len(pushes))
  BY <1>1, StillBegun DEF IInv, BuildersStand
<1>3. /\ r2 \in BuildRow /\ r2.pc = "raise" /\ r2.next = "superseded"
      /\ r2.previous = r1.previous /\ r2.reuse = r1.reuse /\ r2.job = r1.job
      /\ r2.commit = r1.commit /\ r2.id = r1.id /\ r2.inTry = build[b].inTry
  BY <1>1 DEF BuildRow
<1>4. build' = [build EXCEPT ![b] = r1] \/ build' = [build EXCEPT ![b] = r2]
  BY DEF Report
<1> HIDE DEF r2
<1>5. Begun(r2, snap', Len(pushes))
  <2>1. r1.commit \in Commits
    BY DEF Begun, Inside
  <2>2. r2.inTry => /\ r2.id \in Snapshots
                    /\ snap'[r2.id].status # "absent" /\ snap'[r2.id].commit = r2.commit
    BY <1>2, <1>3 DEF Begun
  <2>3. QED
    BY <1>3, <2>1, <2>2 DEF Begun
<1>6. BuilderStep(b, r1) \/ BuilderStep(b, r2)
  BY <1>3, <1>4, <1>5 DEF BuilderStep, Inside
<1>7. QED
  BY <1>6

\* A builder that is done, or dead, waits or is over.
LEMMA OverIsABuilderStep ==
    ASSUME IInv, SnapStep, NEW b \in Builders, build' = [build EXCEPT ![b] = Over(b)],
           lock' \in {lock, None}, lock' # b, UNCHANGED pushes
    PROVE  \E r : BuilderStep(b, r)
<1>1. /\ Over(b) \in BuildRow /\ Over(b).pc \in {"idle", "over"} /\ Over(b).job = 0
      /\ ~Over(b).inTry /\ Over(b).previous = 0 /\ Over(b).reuse = {}
  <2>1. Idle \in BuildRow
    BY IndexAssumption DEF Idle, BuildRow, Manual
  <2>2. [Idle EXCEPT !.pc = "over"] \in BuildRow
    BY <2>1 DEF BuildRow
  <2>3. QED
    BY <2>1, <2>2 DEF Over, Idle, Manual
<1>2. Len(pushes) \in Nat
  BY DEF IInv, TypeOK
<1>3. Begun(Over(b), snap', Len(pushes))
  BY <1>1, <1>2 DEF Begun
<1>4. BuilderStep(b, Over(b))
  BY <1>1, <1>3 DEF BuilderStep
<1>5. QED
  BY <1>4

JobsStep == job' \in [1..MaxPushes -> JobRow] /\ JobsStand'

LEMMA RetriedRow ==
    ASSUME NEW j \in JobRow
    PROVE  /\ Retried(j) \in JobRow /\ Retried(j).status \in {"queued", "dead"}
           /\ Retried(j).status = "queued" => Retried(j).attempts < MaxAttempts
BY DEF Retried, JobRow

LEMMA EndJobIsAJobsStep ==
    ASSUME IInv, NEW b \in Builders, NEW status \in {"retry", "dead", "superseded", "succeeded"},
           EndJob(b, status), UNCHANGED pushes
    PROVE  JobsStep
<1>1. /\ job \in [1..MaxPushes -> JobRow] /\ JobsStand
      /\ build[b].job \in 0..MaxPushes /\ build[b].job <= Len(pushes)
  BY IndexAssumption DEF IInv, TypeOK, JobRow, BuildersStand, Begun
<1>2. CASE job' = job
  BY <1>1, <1>2 DEF JobsStep, JobsStand
<1>3. CASE build[b].job # Manual /\ Owns(b)
  <2> DEFINE p == build[b].job
             j == IF status = "retry" THEN Retried(job[p])
                  ELSE [job[p] EXCEPT !.status = status, !.by = None]
  <2>1. p \in 1..MaxPushes /\ job[p] \in JobRow
    BY <1>1, <1>3, IndexAssumption DEF Manual
  <2>2. job' = [job EXCEPT ![p] = j]
    BY <1>3 DEF EndJob
  <2>3. j \in JobRow /\ (j.status = "queued" => j.attempts < MaxAttempts)
    <3>1. CASE status = "retry"
      BY <2>1, <3>1, RetriedRow
    <3>2. CASE status # "retry"
      BY <2>1, <3>2 DEF JobRow
    <3>3. QED
      BY <3>1, <3>2
  <2> HIDE DEF p, j
  <2>4. p <= Len(pushes)
    BY <1>1 DEF p
  <2>5. QED
    BY <1>1, <2>1, <2>2, <2>3, <2>4 DEF JobsStep, JobsStand
<1>4. QED
  BY <1>2, <1>3 DEF EndJob

LEMMA SameJobsIsAJobsStep ==
    ASSUME IInv, UNCHANGED <<job, pushes>>
    PROVE  JobsStep
BY DEF IInv, TypeOK, JobRow, JobsStep, JobsStand

LEMMA OneStaysActive ==
    ASSUME IInv, SnapStep
    PROVE  SnapsStand'
<1>1. OneActive'
  BY DEF IInv, SnapsStand, OneActive, SnapStep, ActiveMoves, Active
<1>2. QED
  BY <1>1 DEF SnapsStand, SnapStep

\* A step of a builder keeps the invariant if its parts do.
LEMMA Assembled ==
    ASSUME IInv, SnapStep, JobsStep, NEW b \in Builders, \E r : BuilderStep(b, r),
           crashes' \in 0..MaxCrashes, UNCHANGED pushes
    PROVE  IInv'
<1>1. PICK r : BuilderStep(b, r)
  OBVIOUS
<1>2. /\ build' \in [Builders -> BuildRow] /\ BuildersStand'
      /\ lock' \in Shared \cup {None} /\ LockIsHeldInside'
  BY <1>1, BuildersKeepStanding
<1>3. TypeOK'
  BY <1>2 DEF IInv, TypeOK, JobsStep, SnapStep, BuildRow, SnapRow, JobRow
<1>4. QED
  BY <1>2, <1>3, OneStaysActive DEF IInv, JobsStep

-----------------------------------------------------------------------------
(* The invariant is kept by every step, and every step is a SnapStep.      *)

\* The queue.
LEMMA QueueKeeps ==
    ASSUME IInv,
           \/ \E c \in Commits : Push(c)
           \/ \E p \in 1..MaxPushes : LeaseExpires(p)
    PROVE  IInv' /\ SnapStep
<1>0. /\ job \in [1..MaxPushes -> JobRow] /\ JobsStand /\ pushes \in Seq(Commits)
      /\ build \in [Builders -> BuildRow] /\ Len(pushes) \in Nat /\ TypeOK
  BY DEF IInv, TypeOK, JobRow, BuildRow
<1>1. UNCHANGED <<snap, lock, build, crashes>> /\ SnapStep
  BY UnchangedIsASnapStep DEF Push, LeaseExpires
<1>2. CASE \E p \in 1..MaxPushes : LeaseExpires(p)
  <2>1. PICK p \in 1..MaxPushes : LeaseExpires(p)
    BY <1>2
  <2>2. JobsStep
    <3>1. /\ job' = [job EXCEPT ![p] = Retried(job[p])] /\ UNCHANGED pushes
          /\ job[p].status # "absent"
      BY <2>1 DEF LeaseExpires
    <3>2. /\ Retried(job[p]) \in JobRow
          /\ Retried(job[p]).status = "queued" => Retried(job[p]).attempts < MaxAttempts
      BY <1>0, RetriedRow
    <3>3. QED
      BY <1>0, <3>1, <3>2 DEF JobsStep, JobsStand
  <2>3. UNCHANGED pushes
    BY <2>1 DEF LeaseExpires
  <2>4. QED
    BY <1>1, <2>2, <2>3
    DEF IInv, TypeOK, JobsStep, JobRow, LockIsHeldInside, BuildersStand, SnapsStand, OneActive, Active
<1>3. CASE \E c \in Commits : Push(c)
  <2>1. PICK c \in Commits : Push(c)
    BY <1>3
  <2> DEFINE n == Len(pushes) + 1
             new == [NoJob EXCEPT !.status = "queued"]
             old(p) == [job[p] EXCEPT !.status = "superseded"]
             g(p) == IF p = n THEN new ELSE IF job[p].status = "queued" THEN old(p) ELSE job[p]
  <2>2. /\ n <= MaxPushes /\ pushes' = Append(pushes, c)
        /\ job' = [p \in 1..MaxPushes |-> g(p)]
    BY <2>1, Zenon DEF Push
  <2>3. pushes' \in Seq(Commits) /\ Len(pushes') = n
    BY <1>0, <2>2
  <2>4. new \in JobRow /\ new.status = "queued" /\ new.attempts < MaxAttempts
    BY IndexAssumption DEF NoJob, JobRow
  <2>5. ASSUME NEW p \in 1..MaxPushes PROVE old(p) \in JobRow /\ old(p).status = "superseded"
    BY <1>0 DEF JobRow
  <2> HIDE DEF new, old
  <2>6. \A p \in 1..MaxPushes :
          /\ g(p) \in JobRow /\ (g(p).status = "queued" => g(p).attempts < MaxAttempts)
          /\ g(p).status # "absent" => p <= n
    <3>1. ASSUME NEW p \in 1..MaxPushes
          PROVE  /\ job[p] \in JobRow
                 /\ job[p].status # "absent" => p <= n
      BY <1>0 DEF JobsStand
    <3>2. QED
      BY <1>0, <2>4, <2>5, <3>1
  <2> HIDE DEF g
  <2>7. JobsStep
    BY <2>2, <2>3, <2>6 DEF JobsStep, JobsStand
  <2>8. TypeOK'
    BY <1>1, <2>2, <2>3, <2>7, <1>0 DEF TypeOK, JobsStep, JobRow
  <2>9. BuildersStand'
    <3>1. ASSUME NEW b \in Builders PROVE Begun(build'[b], snap', Len(pushes'))
      BY <1>0, <1>1, <2>3, StillBegun DEF IInv, BuildersStand
    <3>2. QED
      BY <1>1, <3>1 DEF IInv, BuildersStand
  <2>10. QED
    BY <1>1, <2>7, <2>8, <2>9
    DEF IInv, JobsStep, LockIsHeldInside, SnapsStand, OneActive, Active
<1>4. QED
  BY <1>2, <1>3

\* A builder takes up work, or dies.
LEMMA BuilderComesAndGoes ==
    ASSUME IInv, NEW b \in Builders,
           Claim(b) \/ (\E c \in Commits : BuildByHand(b, c)) \/ Crash(b)
    PROVE  IInv' /\ SnapStep
<1>0. /\ job \in [1..MaxPushes -> JobRow] /\ JobsStand /\ pushes \in Seq(Commits)
      /\ build \in [Builders -> BuildRow] /\ Len(pushes) \in Nat
      /\ lock \in Shared \cup {None} /\ crashes \in 0..MaxCrashes
      /\ None \notin Builders /\ LockIsHeldInside
  BY IndexAssumption DEF IInv, TypeOK, JobRow, BuildRow
<1>1. SnapStep /\ UNCHANGED pushes
  BY UnchangedIsASnapStep DEF Claim, BuildByHand, Crash
<1>2. Idle \in BuildRow
  BY IndexAssumption DEF Idle, BuildRow, Manual
<1>3. CASE Claim(b)
  <2>1. PICK p \in 1..MaxPushes :
          /\ job[p].status = "queued"
          /\ job' = [job EXCEPT ![p] = [status |-> "running", by |-> b,
                                        attempts |-> job[p].attempts + 1]]
          /\ build' = [build EXCEPT ![b] = [Idle EXCEPT !.pc = "start", !.job = p,
                                                        !.commit = pushes[p]]]
    BY <1>3 DEF Claim
  <2> DEFINE r == [Idle EXCEPT !.pc = "start", !.job = p, !.commit = pushes[p]]
             j == [status |-> "running", by |-> b, attempts |-> job[p].attempts + 1]
  <2>2. p <= Len(pushes) /\ pushes[p] \in Commits /\ job[p].attempts < MaxAttempts
    BY <1>0, <2>1 DEF JobsStand
  <2>3. job[p].attempts + 1 \in 0..MaxAttempts
    BY <1>0, <2>2, IndexAssumption DEF JobRow
  <2>4. j \in JobRow /\ j.status = "running"
    BY <2>3 DEF JobRow
  <2>5. JobsStep
    <3> HIDE DEF j
    <3>1. job' = [job EXCEPT ![p] = j]
      BY <2>1 DEF j
    <3>2. QED
      BY <1>0, <1>1, <2>2, <2>4, <3>1 DEF JobsStep, JobsStand
  <2>6. /\ r \in BuildRow /\ r.pc = "start" /\ r.job = p /\ r.commit = pushes[p]
        /\ ~r.inTry /\ r.previous = 0 /\ r.reuse = {}
    <3>1. p \in 0..MaxPushes
      OBVIOUS
    <3>2. r \in BuildRow
      BY <1>2, <2>2, <3>1 DEF BuildRow
    <3>3. QED
      BY <3>2 DEF Idle
  <2> HIDE DEF r
  <2>7. Begun(r, snap', Len(pushes))
    BY <2>2, <2>6 DEF Begun
  <2>8. BuilderStep(b, r)
    <3>1. lock # b
      BY <1>0, <1>3 DEF Claim, At, LockIsHeldInside
    <3>2. QED
      BY <1>3, <2>1, <2>6, <2>7, <3>1 DEF BuilderStep, Claim, r
  <2>9. QED
    BY <1>0, <1>1, <1>3, <2>5, <2>8, Assembled DEF Claim
<1>4. CASE \E c \in Commits : BuildByHand(b, c)
  <2>1. PICK c \in Commits : BuildByHand(b, c)
    BY <1>4
  <2> DEFINE r == [Idle EXCEPT !.pc = "begin", !.commit = c]
  <2>2. /\ r \in BuildRow /\ r.pc = "begin" /\ r.job = 0 /\ r.commit = c
        /\ ~r.inTry /\ r.previous = 0 /\ r.reuse = {}
    BY <1>2 DEF BuildRow, Idle, Manual
  <2>3. build' = [build EXCEPT ![b] = r]
    BY <2>1 DEF BuildByHand
  <2> HIDE DEF r
  <2>4. Begun(r, snap', Len(pushes))
    BY <1>0, <2>2 DEF Begun
  <2>5. BuilderStep(b, r)
    <3>1. lock # b
      BY <1>0, <2>1 DEF BuildByHand
    <3>2. QED
      BY <2>1, <2>2, <2>3, <2>4, <3>1 DEF BuilderStep, BuildByHand
  <2>6. QED
    BY <1>0, <1>1, <2>1, <2>5, Assembled, SameJobsIsAJobsStep DEF BuildByHand
<1>5. CASE Crash(b)
  <2>1. \E r : BuilderStep(b, r)
    BY <1>0, <1>1, <1>5, OverIsABuilderStep DEF Crash
  <2>2. crashes' \in 0..MaxCrashes
    BY <1>0, <1>5, IndexAssumption DEF Crash
  <2>3. QED
    BY <1>1, <1>5, <2>1, <2>2, Assembled, SameJobsIsAJobsStep DEF Crash
<1>6. QED
  BY <1>3, <1>4, <1>5

\* Before the index is built, and after.
LEMMA AroundTheBuildKeeps ==
    ASSUME IInv, NEW b \in Builders, Start(b) \/ Checkout(b) \/ Leave(b) \/ Complete(b)
    PROVE  IInv' /\ SnapStep
<1> DEFINE r == build[b]
<1>0. /\ r \in BuildRow /\ build \in [Builders -> BuildRow] /\ Len(pushes) \in Nat
      /\ lock \in Shared \cup {None} /\ crashes \in 0..MaxCrashes /\ None \notin Builders
      /\ Begun(r, snap, Len(pushes)) /\ (r.pc \in {"start", "checkout"} => b \in Shared)
      /\ LockIsHeldInside
  BY IndexAssumption DEF IInv, TypeOK, BuildRow, BuildersStand
<1>1. SnapStep /\ UNCHANGED <<pushes, crashes>>
  BY UnchangedIsASnapStep DEF Start, Checkout, Leave, Complete
<1>2. Begun(r, snap', Len(pushes))
  BY <1>0, <1>1, StillBegun
<1>3. CASE Start(b)
  <2>1. \E q : BuilderStep(b, q)
    <3>1. CASE \E next \in {"superseded", "dead"} : Raise(b, next)
      BY <1>0, <1>1, <1>3, <3>1, RaiseIsABuilderStep DEF Start, At
    <3>2. CASE build' = [build EXCEPT ![b].pc = "checkout"]
      <4> DEFINE q == [r EXCEPT !.pc = "checkout"]
      <4>1. /\ q \in BuildRow /\ q.pc = "checkout" /\ q.job = r.job /\ q.commit = r.commit
            /\ q.inTry = r.inTry /\ q.id = r.id /\ q.previous = r.previous /\ q.reuse = r.reuse
        BY <1>0 DEF BuildRow
      <4>2. build' = [build EXCEPT ![b] = q]
        BY <1>0, <3>2
      <4> HIDE DEF q
      <4>3. Begun(q, snap', Len(pushes))
        BY <1>2, <1>3, <4>1 DEF Begun, Start, At
      <4>4. lock # b /\ UNCHANGED lock
        BY <1>0, <1>3 DEF Start, At, LockIsHeldInside
      <4>5. BuilderStep(b, q)
        BY <1>0, <1>3, <4>1, <4>2, <4>3, <4>4 DEF BuilderStep, Start, At
      <4>6. QED
        BY <4>5
    <3>3. QED
      BY <1>3, <3>1, <3>2 DEF Start
  <2>2. QED
    BY <1>0, <1>1, <1>3, <2>1, Assembled, SameJobsIsAJobsStep DEF Start
<1>4. CASE Checkout(b)
  <2>1. \E q : BuilderStep(b, q)
    <3>1. CASE UNCHANGED lock /\ Raise(b, "retry")
      BY <1>0, <1>1, <1>4, <3>1, RaiseIsABuilderStep DEF Checkout, At
    <3>2. CASE lock' = b /\ Report(b, [r EXCEPT !.pc = "begin"])
      <4> DEFINE q == [r EXCEPT !.pc = "begin"]
      <4>1. /\ q \in BuildRow /\ q.pc = "begin" /\ q.job = r.job /\ q.commit = r.commit
            /\ q.inTry = r.inTry /\ q.id = r.id /\ q.previous = r.previous /\ q.reuse = r.reuse
        BY <1>0 DEF BuildRow
      <4>2. Report(b, q)
        BY <3>2
      <4> HIDE DEF q
      <4>3. Begun(q, snap', Len(pushes)) /\ r.pc \notin {"idle", "over"} /\ b \in Shared
        BY <1>0, <1>2, <1>4, <4>1 DEF Begun, Checkout, At
      <4>4. QED
        BY <1>1, <3>2, <4>1, <4>2, <4>3, ReportIsABuilderStep DEF Inside
    <3>3. QED
      BY <1>4, <3>1, <3>2 DEF Checkout
  <2>2. QED
    BY <1>0, <1>1, <1>4, <2>1, Assembled, SameJobsIsAJobsStep DEF Checkout
<1>5. CASE Leave(b)
  <2>0. lock' \in {lock, None} /\ lock' # b
    BY <1>0, <1>5 DEF Leave, LockAfter
  <2>1. \E q : BuilderStep(b, q)
    <3>1. CASE build' = [build EXCEPT ![b] = Over(b)]
      BY <1>1, <2>0, <3>1, OverIsABuilderStep
    <3>2. CASE Report(b, [r EXCEPT !.pc = "complete", !.inTry = FALSE])
      <4> DEFINE q == [r EXCEPT !.pc = "complete", !.inTry = FALSE]
      <4>1. /\ q \in BuildRow /\ q.pc = "complete" /\ q.job = r.job /\ q.commit = r.commit
            /\ ~q.inTry /\ q.id = r.id /\ q.previous = r.previous /\ q.reuse = r.reuse
        BY <1>0 DEF BuildRow
      <4>2. Report(b, q)
        BY <3>2
      <4> HIDE DEF q
      <4>3. Begun(q, snap', Len(pushes)) /\ r.pc \notin {"idle", "over"}
        BY <1>2, <1>5, <4>1 DEF Begun, Leave, At
      <4>4. QED
        BY <1>1, <2>0, <4>1, <4>2, <4>3, ReportIsABuilderStep DEF Inside
    <3>3. QED
      BY <1>5, <3>1, <3>2 DEF Leave
  <2>2. QED
    BY <1>0, <1>1, <1>5, <2>1, Assembled, SameJobsIsAJobsStep DEF Leave
<1>6. CASE Complete(b)
  <2>1. lock # b /\ UNCHANGED lock
    BY <1>0, <1>6 DEF Complete, At, LockIsHeldInside
  <2>2. \E q : BuilderStep(b, q)
    BY <1>1, <1>6, <2>1, OverIsABuilderStep DEF Complete
  <2>3. JobsStep
    BY <1>1, <1>6, EndJobIsAJobsStep DEF Complete
  <2>4. QED
    BY <1>0, <1>1, <2>2, <2>3, Assembled
<1>7. QED
  BY <1>3, <1>4, <1>5, <1>6

\* begin_index_snapshot
LEMMA BeginKeeps ==
    ASSUME IInv, NEW b \in Builders, Begin(b)
    PROVE  IInv' /\ SnapStep
<1> DEFINE r == build[b]
           c == r.commit
           swept == FailStale(c)
           free == {s \in Snapshots : snap[s].status = "absent"}
           new == CHOOSE s \in free : \A t \in free : s <= t
           previous == IF Active = {} THEN 0 ELSE Newest(Active)
           begun == [r EXCEPT !.pc = "compare", !.id = new, !.previous = previous, !.inTry = TRUE]
<1>0. /\ r \in BuildRow /\ build \in [Builders -> BuildRow] /\ Len(pushes) \in Nat
      /\ lock \in Shared \cup {None} /\ crashes \in 0..MaxCrashes /\ None \notin Builders
      /\ Begun(r, snap, Len(pushes)) /\ c \in Commits /\ r.pc = "begin"
      /\ snap \in [Snapshots -> SnapRow]
  BY IndexAssumption DEF IInv, TypeOK, BuildRow, BuildersStand, Begin, At, Begun, SnapRow
<1>1. UNCHANGED <<pushes, job, lock, crashes>>
  BY DEF Begin
<1>2. \/ Raise(b, "retry") /\ UNCHANGED snap
      \/ UNCHANGED snap /\ Report(b, [r EXCEPT !.pc = "leave"])
      \/ snap' = swept /\ Raise(b, "retry")
      \/ /\ free # {}
         /\ snap' = [swept EXCEPT ![new] = [NoSnapshot EXCEPT !.status = "building", !.commit = c]]
         /\ Report(b, begun)
  BY DEF Begin
<1>3. CASE Raise(b, "retry") /\ (UNCHANGED snap \/ snap' = swept)
  <2>1. SnapStep
    <3>1. CASE snap' = swept
      <4>1. swept \in [Snapshots -> SnapRow] /\ \A s \in Snapshots : Ages(snap[s], swept[s])
        BY SweepingAges
      <4>2. QED
        BY <3>1, <4>1, AgingIsASnapStep
    <3>2. QED
      BY <1>3, <3>1, UnchangedIsASnapStep
  <2>2. \E q : BuilderStep(b, q)
    BY <1>0, <1>1, <1>3, <2>1, RaiseIsABuilderStep
  <2>3. QED
    BY <1>0, <1>1, <2>1, <2>2, Assembled, SameJobsIsAJobsStep
<1>4. CASE UNCHANGED snap /\ Report(b, [r EXCEPT !.pc = "leave"])
  <2> DEFINE q == [r EXCEPT !.pc = "leave"]
  <2>1. SnapStep
    BY <1>4, UnchangedIsASnapStep
  <2>2. /\ q \in BuildRow /\ q.pc = "leave" /\ q.job = r.job /\ q.commit = r.commit
        /\ q.inTry = r.inTry /\ q.id = r.id /\ q.previous = r.previous /\ q.reuse = r.reuse
    BY <1>0 DEF BuildRow
  <2>3. Report(b, q)
    BY <1>4
  <2> HIDE DEF q
  <2>4. Begun(r, snap', Len(pushes))
    BY <1>0, <2>1, StillBegun
  <2>5. Begun(q, snap', Len(pushes))
    BY <1>0, <2>2, <2>4 DEF Begun
  <2>6. \E q1 : BuilderStep(b, q1)
    BY <1>0, <1>1, <2>1, <2>2, <2>3, <2>5, ReportIsABuilderStep DEF Inside
  <2>7. QED
    BY <1>0, <1>1, <2>1, <2>6, Assembled, SameJobsIsAJobsStep
<1>5. CASE /\ free # {}
           /\ snap' = [swept EXCEPT ![new] = [NoSnapshot EXCEPT !.status = "building", !.commit = c]]
           /\ Report(b, begun)
  <2>1. new \in free
    <3>1. free \in SUBSET Nat
      BY DEF Snapshots
    <3>2. \E s \in free : \A t \in free : s <= t
      BY <1>5, <3>1, LeastExists
    <3>3. QED
      BY <3>2
  <2>2. /\ previous \in {0} \cup Snapshots
        /\ previous # 0 => snap[previous].status = "active"
    BY NewestIsGreatest DEF Active
  <2> HIDE DEF new, previous
  <2>3. new \in Snapshots /\ snap[new].status = "absent"
    BY <2>1
  <2>4. SnapStep /\ snap'[new].status = "building" /\ snap'[new].commit = c
    BY <1>0, <1>5, <2>3, BeginningIsASnapStep
  <2>5. /\ begun \in BuildRow /\ begun.pc = "compare" /\ begun.job = r.job /\ begun.commit = c
        /\ begun.inTry /\ begun.id = new /\ begun.previous = previous /\ begun.reuse = r.reuse
    BY <1>0, <2>2, <2>3 DEF BuildRow
  <2> HIDE DEF begun
  <2>6. Begun(begun, snap', Len(pushes))
    <3>1. previous # 0 => snap'[previous].status \in {"active", "superseded"}
      BY <2>2, <2>4 DEF SnapStep, Follows
    <3>2. r.reuse = {}
      BY <1>0 DEF Begun
    <3>3. QED
      BY <1>0, <2>3, <2>4, <2>5, <3>1, <3>2 DEF Begun
  <2>7. Report(b, begun)
    BY <1>5 DEF begun
  <2>8. ~r.inTry
    BY <1>0 DEF Begun
  <2>9. \E q : BuilderStep(b, q)
    <3>1. lock' = b => b \in Shared
      BY <1>0, <1>1
    <3>2. QED
      BY <1>0, <1>1, <2>4, <2>5, <2>6, <2>7, <2>8, <3>1, ReportIsABuilderStep DEF Inside
  <2>10. QED
    BY <1>0, <1>1, <2>4, <2>9, Assembled, SameJobsIsAJobsStep
<1>6. QED
  BY <1>2, <1>3, <1>4, <1>5

\* A snapshot's row changes, but for its contents.
LEMMA OneRowAges ==
    ASSUME IInv, NEW id \in Snapshots, NEW row, Ages(snap[id], row),
           snap' = [snap EXCEPT ![id] = row]
    PROVE  SnapStep
<1>1. snap \in [Snapshots -> SnapRow]
  BY DEF IInv, TypeOK, SnapRow
<1>2. snap' \in [Snapshots -> SnapRow]
  BY <1>1 DEF Ages
<1>3. \A s \in Snapshots : Ages(snap[s], snap'[s])
  BY <1>1 DEF Ages
<1>4. QED
  BY <1>2, <1>3, AgingIsASnapStep

\* The build proper.
LEMMA CompareKeeps ==
    ASSUME IInv, NEW b \in Builders, Compare(b)
    PROVE  IInv' /\ SnapStep
<1> DEFINE r == build[b]
           q == [r EXCEPT !.pc = "finalize", !.reuse = Unchanged(b)]
<1>0. /\ r \in BuildRow /\ build \in [Builders -> BuildRow] /\ Len(pushes) \in Nat
      /\ lock \in Shared \cup {None} /\ crashes \in 0..MaxCrashes /\ None \notin Builders
      /\ Begun(r, snap, Len(pushes)) /\ r.pc = "compare" /\ r.id \in Snapshots
      /\ r.commit \in Commits /\ snap \in [Snapshots -> SnapRow]
  BY IndexAssumption DEF IInv, TypeOK, BuildRow, BuildersStand, Compare, At, Begun, SnapRow
<1>1. UNCHANGED <<pushes, job, lock, crashes>>
  BY DEF Compare
<1>2. CASE Raise(b, "retry") /\ UNCHANGED snap
  <2>1. SnapStep
    BY <1>2, UnchangedIsASnapStep
  <2>2. \E q1 : BuilderStep(b, q1)
    BY <1>0, <1>1, <1>2, <2>1, RaiseIsABuilderStep
  <2>3. QED
    BY <1>0, <1>1, <2>1, <2>2, Assembled, SameJobsIsAJobsStep
<1>3. CASE /\ snap' = [snap EXCEPT ![r.id].stale =
                        IF snap[r.id].status = "building" THEN FALSE ELSE @]
           /\ Report(b, q)
  <2>1. PICK stale \in BOOLEAN : snap' = [snap EXCEPT ![r.id] = [snap[r.id] EXCEPT !.stale = stale]]
    <3>1. CASE snap[r.id].status = "building"
      BY <1>0, <1>3, <3>1
    <3>2. CASE snap[r.id].status # "building"
      <4>1. snap[r.id].stale \in BOOLEAN
        BY <1>0 DEF SnapRow
      <4>2. QED
        BY <1>0, <1>3, <3>2, <4>1
    <3>3. QED
      BY <3>1, <3>2
  <2>2. Ages(snap[r.id], [snap[r.id] EXCEPT !.stale = stale])
    BY <1>0, ZenonT(40) DEF Ages, SnapRow
  <2>3. SnapStep
    BY <1>0, <2>1, <2>2, OneRowAges
  <2>4. Begun(r, snap', Len(pushes))
    BY <1>0, <2>3, StillBegun
  <2>5. /\ q \in BuildRow /\ q.pc = "finalize" /\ q.job = r.job /\ q.commit = r.commit
        /\ q.inTry = r.inTry /\ q.id = r.id /\ q.previous = r.previous /\ q.reuse = Unchanged(b)
    BY <1>0 DEF BuildRow, Unchanged
  <2>6. Report(b, q)
    BY <1>3
  <2> HIDE DEF q
  <2>7. \A p \in Unchanged(b) :
          r.previous # 0 /\ snap'[r.previous].files[p] = Tree[r.commit][p]
    <3>1. r.previous # 0 => snap'[r.previous].files = snap[r.previous].files
      BY <1>0, <2>3 DEF SnapStep, Follows, Begun, BuildRow
    <3>2. QED
      BY <3>1 DEF Unchanged
  <2>8. Begun(q, snap', Len(pushes))
    BY <1>0, <2>4, <2>5, <2>7 DEF Begun
  <2>9. \E q1 : BuilderStep(b, q1)
    <3>1. lock' = b => b \in Shared
      BY <1>0, <1>1
    <3>2. QED
      BY <1>0, <1>1, <2>3, <2>5, <2>6, <2>8, <3>1, ReportIsABuilderStep DEF Inside
  <2>10. QED
    BY <1>0, <1>1, <2>3, <2>9, Assembled, SameJobsIsAJobsStep
<1>4. QED
  BY <1>2, <1>3 DEF Compare

LEMMA FinalizeKeeps ==
    ASSUME IInv, NEW b \in Builders, Finalize(b)
    PROVE  IInv' /\ SnapStep
<1> DEFINE r == build[b]
           q == [r EXCEPT !.pc = "leave", !.previous = 0, !.reuse = {}]
<1>0. /\ r \in BuildRow /\ build \in [Builders -> BuildRow] /\ Len(pushes) \in Nat
      /\ lock \in Shared \cup {None} /\ crashes \in 0..MaxCrashes /\ None \notin Builders
      /\ Begun(r, snap, Len(pushes)) /\ r.pc = "finalize" /\ r.id \in Snapshots
      /\ r.commit \in Commits /\ snap[r.id].commit = r.commit
  BY IndexAssumption DEF IInv, TypeOK, BuildRow, BuildersStand, Finalize, At, Begun
<1>1. UNCHANGED <<pushes, job, lock, crashes>>
  BY DEF Finalize
<1>2. CASE (\E next \in {"retry", "dead"} : Raise(b, next)) /\ UNCHANGED snap
  <2>1. SnapStep
    BY <1>2, UnchangedIsASnapStep
  <2>2. \E q1 : BuilderStep(b, q1)
    BY <1>0, <1>1, <1>2, <2>1, RaiseIsABuilderStep
  <2>3. QED
    BY <1>0, <1>1, <2>1, <2>2, Assembled, SameJobsIsAJobsStep
<1>3. CASE Writable(r.id) /\ snap' = Activated(r.id, Written(b)) /\ Report(b, q)
  <2>1. Written(b) = Tree[snap[r.id].commit] /\ Written(b) \in [Paths -> Contents]
    BY <1>0, WrittenIsTheTree DEF At
  <2>2. SnapStep
    BY <1>0, <1>3, <2>1, ActivationIsASnapStep DEF Writable
  <2>3. Begun(r, snap', Len(pushes))
    BY <1>0, <2>2, StillBegun
  <2>4. /\ q \in BuildRow /\ q.pc = "leave" /\ q.job = r.job /\ q.commit = r.commit
        /\ q.inTry = r.inTry /\ q.id = r.id /\ q.previous = 0 /\ q.reuse = {}
    BY <1>0 DEF BuildRow
  <2>5. Report(b, q)
    BY <1>3
  <2> HIDE DEF q
  <2>6. Begun(q, snap', Len(pushes))
    BY <1>0, <2>3, <2>4 DEF Begun
  <2>7. \E q1 : BuilderStep(b, q1)
    <3>1. lock' = b => b \in Shared
      BY <1>0, <1>1
    <3>2. QED
      BY <1>0, <1>1, <2>2, <2>4, <2>5, <2>6, <3>1, ReportIsABuilderStep DEF Inside
  <2>8. QED
    BY <1>0, <1>1, <2>2, <2>7, Assembled, SameJobsIsAJobsStep
<1>4. QED
  BY <1>2, <1>3 DEF Finalize, Writable

\* The exception handlers.
LEMMA RaisedKeeps ==
    ASSUME IInv, NEW b \in Builders, Raised(b)
    PROVE  IInv' /\ SnapStep
<1> DEFINE r == build[b]
<1>0. /\ r \in BuildRow /\ lock \in Shared \cup {None} /\ crashes \in 0..MaxCrashes
      /\ None \notin Builders /\ Begun(r, snap, Len(pushes)) /\ r.pc = "raise"
      /\ snap \in [Snapshots -> SnapRow]
  BY IndexAssumption DEF IInv, TypeOK, BuildRow, BuildersStand, Raised, At, SnapRow
<1>1. UNCHANGED <<pushes, crashes>>
  BY DEF Raised
<1>2. SnapStep
  <2>1. CASE r.inTry /\ snap[r.id].status = "building"
    <3>1. r.id \in Snapshots
      BY <1>0, <2>1 DEF Begun
    <3> DEFINE row == [snap[r.id] EXCEPT !.status = "failed", !.stale = FALSE]
    <3>2. Ages(snap[r.id], row)
      BY <1>0, <2>1, <3>1 DEF Ages, SnapRow
    <3>3. snap' = [snap EXCEPT ![r.id] = row]
      BY <1>0, <2>1, <3>1 DEF Raised
    <3> HIDE DEF row
    <3>4. QED
      BY <3>1, <3>2, <3>3, OneRowAges
  <2>2. CASE ~(r.inTry /\ snap[r.id].status = "building")
    BY <2>2, UnchangedIsASnapStep DEF Raised
  <2>3. QED
    BY <2>1, <2>2
<1>3. JobsStep
  <2>1. r.next \in {"retry", "dead", "superseded", "succeeded"}
    BY <1>0 DEF Begun, BuildRow
  <2>2. QED
    BY <1>1, <2>1, EndJobIsAJobsStep DEF Raised
<1>4. \E q : BuilderStep(b, q)
  <2>1. lock' \in {lock, None} /\ lock' # b
    BY <1>0 DEF Raised, LockAfter
  <2>2. QED
    BY <1>1, <1>2, <2>1, OverIsABuilderStep DEF Raised
<1>5. QED
  BY <1>0, <1>1, <1>2, <1>3, <1>4, Assembled

LEMMA AgeKeeps ==
    ASSUME IInv, NEW s \in Snapshots, GrowsStale(s)
    PROVE  IInv' /\ SnapStep
<1>0. /\ snap \in [Snapshots -> SnapRow] /\ build \in [Builders -> BuildRow]
      /\ Len(pushes) \in Nat
  BY DEF IInv, TypeOK, SnapRow, BuildRow
<1>1. UNCHANGED <<pushes, job, lock, build, crashes>>
  BY DEF GrowsStale
<1>2. SnapStep
  <2> DEFINE row == [snap[s] EXCEPT !.stale = TRUE]
  <2>1. Ages(snap[s], row)
    BY <1>0 DEF Ages, SnapRow
  <2>2. snap' = [snap EXCEPT ![s] = row]
    BY <1>0 DEF GrowsStale
  <2> HIDE DEF row
  <2>3. QED
    BY <2>1, <2>2, OneRowAges
<1>3. BuildersStand'
  <2>1. ASSUME NEW b \in Builders PROVE Begun(build'[b], snap', Len(pushes'))
    BY <1>0, <1>1, <1>2, StillBegun DEF IInv, BuildersStand
  <2>2. QED
    BY <1>1, <2>1 DEF IInv, BuildersStand
<1>4. TypeOK'
  BY <1>1, <1>2 DEF IInv, TypeOK, SnapStep, SnapRow
<1>5. QED
  BY <1>1, <1>2, <1>3, <1>4, OneStaysActive DEF IInv, LockIsHeldInside, JobsStand

LEMMA NextKeeps ==
    ASSUME IInv, [Next]_vars
    PROVE  IInv' /\ SnapStep
<1>1. CASE UNCHANGED vars
  BY <1>1, UnchangedIsASnapStep
  DEF vars, IInv, TypeOK, LockIsHeldInside, JobsStand, BuildersStand, SnapsStand, OneActive, Active
<1>2. CASE \/ \E c \in Commits : Push(c)
           \/ \E p \in 1..MaxPushes : LeaseExpires(p)
  BY <1>2, QueueKeeps
<1>3. CASE \E b \in Builders : Claim(b) \/ (\E c \in Commits : BuildByHand(b, c)) \/ Crash(b)
  BY <1>3, BuilderComesAndGoes
<1>4. CASE \E b \in Builders : Work(b)
  BY <1>4, AroundTheBuildKeeps, BeginKeeps, CompareKeeps, FinalizeKeeps, RaisedKeeps DEF Work
<1>5. CASE \E s \in Snapshots : GrowsStale(s)
  BY <1>5, AgeKeeps
<1>6. QED
  BY <1>1, <1>2, <1>3, <1>4, <1>5 DEF Next

-----------------------------------------------------------------------------
(* The theorems.                                                           *)

\* The mirror's lock is never held by a builder that is not in its checkout,
\* and the types are kept: RepositoryMirror.checkout, however the build ends.
THEOREM MirrorIsGuarded == Spec => []MirrorGuarded
<1>1. IInv => MirrorGuarded
  BY DEF IInv, MirrorGuarded
<1>2. IInv /\ [Next]_vars => IInv'
  BY NextKeeps
<1>3. QED
  BY <1>1, <1>2, InitIInv, PTL DEF Spec

LEMMA AtMostOneActive ==
    ASSUME OneActive
    PROVE  Cardinality(Active) <= 1
<1>1. CASE Active = {}
  BY <1>1, FS_EmptySet
<1>2. CASE Active # {}
  <2>1. PICK s \in Active : Active = {s}
    BY <1>2 DEF OneActive
  <2>2. QED
    BY <2>1, FS_Singleton
<1>3. QED
  BY <1>1, <1>2

\* There is at most one active snapshot, and one that was ever active is the
\* tree of its commit, wherever its rows were copied from
\* (copy_unchanged_files, activate_snapshot).
THEOREM ActiveSnapshotsAreExact == Spec => []ActiveIsExact
<1>1. IInv => ActiveIsExact
  BY AtMostOneActive DEF IInv, SnapsStand, WasExact, ActiveIsExact
<1>2. IInv /\ [Next]_vars => IInv'
  BY NextKeeps
<1>3. QED
  BY <1>1, <1>2, InitIInv, PTL DEF Spec

\* A snapshot's contents never change once its build is over, and activation
\* never goes back to an older request or leaves the repository without an
\* index (write_repository_policy's check, activate_snapshot).
THEOREM SnapshotsOnlyAdvance == Spec => HistoryAdvances
<1>1. IInv /\ [Next]_vars =>
        [\A s \in Snapshots :
           snap[s].status \in {"active", "failed", "superseded"} => snap'[s].files = snap[s].files]_vars
  BY NextKeeps DEF SnapStep, Follows
<1>2. ASSUME IInv, [Next]_vars, Active # {}
      PROVE  Active' # {} /\ Newest(Active') >= Newest(Active)
  <2>1. SnapStep /\ OneActive /\ OneActive'
    BY <1>2, NextKeeps DEF IInv, SnapsStand
  <2>2. PICK s \in Active : Active = {s}
    BY <1>2, <2>1 DEF OneActive
  <2>3. PICK t \in Snapshots : Active' = {t} /\ s <= t
    <3>1. CASE \A u \in Snapshots : snap'[u].status = "active" <=> snap[u].status = "active"
      <4>1. Active' = Active
        BY <3>1 DEF Active
      <4>2. s \in Snapshots /\ s <= s
        BY <2>2 DEF Active, Snapshots
      <4>3. QED
        BY <2>2, <4>1, <4>2
    <3>2. CASE \E id \in Snapshots :
                 /\ \A u \in Snapshots : snap'[u].status = "active" <=> u = id
                 /\ \A u \in Active : u <= id
      BY <2>2, <3>2 DEF Active
    <3>3. QED
      BY <2>1, <3>1, <3>2 DEF SnapStep, ActiveMoves
  <2>4. Newest(Active) = s /\ Newest(Active') = t /\ s \in Nat /\ t \in Nat
    BY <2>2, <2>3 DEF Newest, Active, Snapshots
  <2>5. QED
    BY <2>3, <2>4
<1>3. IInv /\ [Next]_vars =>
        [Active # {} => Active' # {} /\ Newest(Active') >= Newest(Active)]_vars
  BY <1>2
<1>4. IInv /\ [Next]_vars => IInv'
  BY NextKeeps
<1>5. QED
  BY <1>1, <1>3, <1>4, InitIInv, PTL DEF Spec, HistoryAdvances, SnapshotsImmutable, ActiveOnlyAdvances

-----------------------------------------------------------------------------
(* Sorted lists: at n stands the element with n - 1 before it.             *)

StrictOrder(S, R) ==
    /\ \A x \in S : <<x, x>> \notin R
    /\ \A x, y, z \in S : <<x, y>> \in R /\ <<y, z>> \in R => <<x, z>> \in R
    /\ \A x, y \in S : x # y => <<x, y>> \in R \/ <<y, x>> \in R

\* The elements before x, and how many they are.
Below(S, R, x) == {y \in S : <<y, x>> \in R}
Rank(S, R, x) == Cardinality(Below(S, R, x))

LEMMA FewerBelow ==
    ASSUME NEW S, IsFiniteSet(S), NEW T \in SUBSET S, T # S
    PROVE  /\ Cardinality(T) \in Nat /\ Cardinality(S) \in Nat
           /\ Cardinality(T) < Cardinality(S)
<1>1. /\ IsFiniteSet(T) /\ Cardinality(T) <= Cardinality(S)
      /\ Cardinality(S) = Cardinality(T) => S = T
  BY FS_Subset
<1>2. Cardinality(T) \in Nat /\ Cardinality(S) \in Nat
  BY <1>1, FS_CardinalityType
<1> QED
  BY <1>1, <1>2

LEMMA RankType ==
    ASSUME NEW S, IsFiniteSet(S), NEW R, StrictOrder(S, R), NEW x \in S
    PROVE  Rank(S, R, x) \in 0..(Cardinality(S) - 1)
<1>1. Below(S, R, x) \in SUBSET S /\ Below(S, R, x) # S
  BY DEF Below, StrictOrder
<1>2. /\ Cardinality(Below(S, R, x)) \in Nat /\ Cardinality(S) \in Nat
      /\ Cardinality(Below(S, R, x)) < Cardinality(S)
  BY <1>1, FewerBelow
<1> QED
  BY <1>2 DEF Rank

LEMMA RankGrows ==
    ASSUME NEW S, IsFiniteSet(S), NEW R, StrictOrder(S, R), NEW x \in S, NEW y \in S, <<x, y>> \in R
    PROVE  Rank(S, R, x) < Rank(S, R, y)
<1>1. Below(S, R, y) \in SUBSET S
  BY DEF Below
<1>2. IsFiniteSet(Below(S, R, y))
  BY <1>1, FS_Subset
<1>3. Below(S, R, x) \in SUBSET Below(S, R, y) /\ Below(S, R, x) # Below(S, R, y)
  BY DEF Below, StrictOrder
<1> QED
  BY <1>2, <1>3, FewerBelow DEF Rank

LEMMA RankOrders ==
    ASSUME NEW S, IsFiniteSet(S), NEW R, StrictOrder(S, R), NEW x \in S, NEW y \in S
    PROVE  /\ Rank(S, R, x) = Rank(S, R, y) => x = y
           /\ Rank(S, R, x) < Rank(S, R, y) => <<x, y>> \in R
<1>1. Rank(S, R, x) \in Int /\ Rank(S, R, y) \in Int
  <2>1. Cardinality(S) \in Nat
    BY FS_CardinalityType
  <2> QED
    BY RankType, <2>1
<1>2. /\ <<x, y>> \in R => Rank(S, R, x) < Rank(S, R, y)
      /\ <<y, x>> \in R => Rank(S, R, y) < Rank(S, R, x)
  BY RankGrows
<1>3. x # y => <<x, y>> \in R \/ <<y, x>> \in R
  BY DEF StrictOrder
<1> QED
  BY <1>1, <1>2, <1>3

\* Each rank is taken.
LEMMA RankTaken ==
    ASSUME NEW S, IsFiniteSet(S), NEW R, StrictOrder(S, R), NEW n \in 1..Cardinality(S)
    PROVE  \E x \in S : Rank(S, R, x) = n - 1
<1> DEFINE T == 0..(Cardinality(S) - 1)
           f == [x \in S |-> Rank(S, R, x)]
<1>1. Cardinality(S) \in Nat
  BY FS_CardinalityType
<1>2. IsFiniteSet(T) /\ Cardinality(T) = Cardinality(S)
  <2>1. 0 \in Int /\ Cardinality(S) - 1 \in Int
    BY <1>1
  <2>2. IsFiniteSet(T) /\ Cardinality(T) = IF 0 > Cardinality(S) - 1 THEN 0 ELSE Cardinality(S) - 1 - 0 + 1
    BY <2>1, FS_Interval
  <2> QED
    BY <1>1, <2>2
<1>3. f \in [S -> T]
  BY RankType
<1>4. \A x, y \in S : f[x] = f[y] => x = y
  <2>1. \A x \in S : f[x] = Rank(S, R, x)
    OBVIOUS
  <2> QED
    BY <2>1, RankOrders, Zenon
<1>5. f \in Injection(S, T)
  BY <1>3, <1>4 DEF Injection, IsInjective
<1>6. f \in Surjection(S, T)
  BY <1>2, <1>5, FS_Injection
<1>7. n - 1 \in T
  BY <1>1
<1> QED
  BY <1>6, <1>7 DEF Surjection

\* The list Sorted(S, R) holds the elements of S, each once and in order.
LEMMA SortedIs ==
    ASSUME NEW S, IsFiniteSet(S), NEW R, StrictOrder(S, R)
    PROVE  /\ Cardinality(S) \in Nat
           /\ Sorted(S, R) \in [1..Cardinality(S) -> S]
           /\ \A n, m \in 1..Cardinality(S) : n < m => <<Sorted(S, R)[n], Sorted(S, R)[m]>> \in R
           /\ \A n, m \in 1..Cardinality(S) : Sorted(S, R)[n] = Sorted(S, R)[m] => n = m
<1>1. Cardinality(S) \in Nat
  BY FS_CardinalityType
<1>2. Sorted(S, R) = [n \in 1..Cardinality(S) |-> CHOOSE x \in S : Rank(S, R, x) = n - 1]
  BY DEF Sorted, Rank, Below
<1>3. ASSUME NEW n \in 1..Cardinality(S)
      PROVE  Sorted(S, R)[n] \in S /\ Rank(S, R, Sorted(S, R)[n]) = n - 1
  <2>1. \E x \in S : Rank(S, R, x) = n - 1
    BY RankTaken
  <2>2. Sorted(S, R)[n] = CHOOSE x \in S : Rank(S, R, x) = n - 1
    BY <1>2
  <2> QED
    BY <2>1, <2>2
<1>4. ASSUME NEW n \in 1..Cardinality(S), NEW m \in 1..Cardinality(S), n < m
      PROVE  <<Sorted(S, R)[n], Sorted(S, R)[m]>> \in R
  <2>1. n - 1 < m - 1
    BY <1>1, <1>4
  <2>2. Rank(S, R, Sorted(S, R)[n]) < Rank(S, R, Sorted(S, R)[m])
    BY <1>3, <2>1
  <2> QED
    BY <1>3, <2>2, RankOrders
<1>5. ASSUME NEW n \in 1..Cardinality(S), NEW m \in 1..Cardinality(S), Sorted(S, R)[n] = Sorted(S, R)[m]
      PROVE  n = m
  <2>1. n - 1 = m - 1
    BY <1>3, <1>5
  <2> QED
    BY <1>1, <2>1
<1> QED
  BY <1>1, <1>2, <1>3, <1>4, <1>5


-----------------------------------------------------------------------------
(* Clusters.                                                               *)

LEMMA RelatedIs ==
    ASSUME NEW clusters, NEW r, NEW s
    PROVE  s \in Related(clusters, r) <=>
             s # r /\ \E c \in DOMAIN clusters : r \in clusters[c] /\ s \in clusters[c]
BY DEF Related

LEMMA RelatedIsFinite ==
    ASSUME NEW clusters, IsFiniteSet(DOMAIN clusters),
           \A c \in DOMAIN clusters : IsFiniteSet(clusters[c]), NEW r
    PROVE  IsFiniteSet(Related(clusters, r))
<1> DEFINE C == {d \in DOMAIN clusters : r \in clusters[d]}
           T == {clusters[c] : c \in C}
<1>1. IsFiniteSet(C)
  BY FS_Subset
<1>2. IsFiniteSet(T)
  <2> DEFINE f == [c \in C |-> clusters[c]]
  <2>1. f \in Surjection(C, T)
    BY DEF Surjection
  <2> QED
    BY <1>1, <2>1, FS_Surjection
<1>3. IsFiniteSet(UNION T)
  BY <1>2, FS_UNION
<1>4. Related(clusters, r) \in SUBSET (UNION T)
  BY DEF Related
<1> QED
  BY <1>3, <1>4, FS_Subset

\* Who is beside fewer repositories than before stays within the limit.
LEMMA FewerRelated ==
    ASSUME NEW clusters, IsFiniteSet(DOMAIN clusters),
           \A c \in DOMAIN clusters : IsFiniteSet(clusters[c]),
           NEW after, NEW r, Related(after, r) \subseteq Related(clusters, r),
           Cardinality(Related(clusters, r)) <= MAX_RELATED_REPOSITORIES
    PROVE  Cardinality(Related(after, r)) <= MAX_RELATED_REPOSITORIES
<1>1. IsFiniteSet(Related(clusters, r))
  BY RelatedIsFinite
<1>2. /\ IsFiniteSet(Related(after, r))
      /\ Cardinality(Related(after, r)) <= Cardinality(Related(clusters, r))
  BY <1>1, FS_Subset
<1>3. Cardinality(Related(after, r)) \in Nat /\ Cardinality(Related(clusters, r)) \in Nat
  BY <1>1, <1>2, FS_CardinalityType
<1> QED
  BY <1>2, <1>3, RetrievalAssumption

LEMMA CreatedIsSound ==
    ASSUME NEW clusters, NEW repos, ClustersSound(clusters, repos), NEW id, id \notin DOMAIN clusters,
           NEW members, IsFiniteSet(members), ~CreateCluster(clusters, id, members, repos).raised
    PROVE  ClustersSound(CreateCluster(clusters, id, members, repos).value, repos)
<1> DEFINE after == [c \in (DOMAIN clusters) \union {id} |-> IF c = id THEN members ELSE clusters[c]]
<1>1. /\ Cardinality(members) \in 2..(MAX_RELATED_REPOSITORIES + 1)
      /\ \A r \in members : r \in DOMAIN repos
      /\ \A r, s \in members : repos[r].host = repos[s].host
      /\ WithinLimit(after, members)
      /\ CreateCluster(clusters, id, members, repos).value = after
  BY DEF CreateCluster, Raises, Returns
<1>2. IsFiniteSet(DOMAIN after)
  <2>1. IsFiniteSet((DOMAIN clusters) \union {id})
    BY FS_AddElement DEF ClustersSound
  <2> QED
    BY <2>1
<1>3. Cardinality(members) >= 2
  BY <1>1, RetrievalAssumption
<1>4. /\ DOMAIN after = (DOMAIN clusters) \union {id}
      /\ after[id] = members /\ \A c \in DOMAIN clusters : after[c] = clusters[c]
  OBVIOUS
<1> HIDE DEF after
<1>5. \A c \in DOMAIN after :
         /\ after[c] \subseteq DOMAIN repos /\ IsFiniteSet(after[c])
         /\ Cardinality(after[c]) >= 2
         /\ \A r, s \in after[c] : repos[r].host = repos[s].host
  BY <1>1, <1>3, <1>4 DEF ClustersSound
<1>6. ASSUME NEW r \in DOMAIN repos
      PROVE  Cardinality(Related(after, r)) <= MAX_RELATED_REPOSITORIES
  <2>1. CASE r \in members
    BY <1>1, <2>1 DEF WithinLimit
  <2>2. CASE r \notin members
    <3>1. Related(after, r) \subseteq Related(clusters, r)
      BY <1>4, <2>2, RelatedIs
    <3> QED
      BY <3>1, FewerRelated DEF ClustersSound, WithinLimit
  <2> QED
    BY <2>1, <2>2
<1> QED
  BY <1>1, <1>2, <1>5, <1>6 DEF ClustersSound, WithinLimit

LEMMA AddedIsSound ==
    ASSUME NEW clusters, NEW repos, ClustersSound(clusters, repos), NEW id \in DOMAIN clusters,
           NEW r \in DOMAIN repos, ~AddMember(clusters, id, r, repos).raised
    PROVE  ClustersSound(AddMember(clusters, id, r, repos).value, repos)
<1> DEFINE after == [clusters EXCEPT ![id] = @ \union {r}]
<1>1. /\ \A s \in clusters[id] : repos[s].host = repos[r].host
      /\ WithinLimit(after, Related(after, r) \union {r})
      /\ AddMember(clusters, id, r, repos).value = after
  BY DEF AddMember, Raises, Returns
<1>2. /\ DOMAIN after = DOMAIN clusters
      /\ \A c \in DOMAIN clusters : after[c] = IF c = id THEN clusters[id] \union {r} ELSE clusters[c]
  OBVIOUS
<1> HIDE DEF after
<1>3. IsFiniteSet(clusters[id]) /\ Cardinality(clusters[id]) >= 2
  BY DEF ClustersSound
<1>4. IsFiniteSet(clusters[id] \union {r}) /\ Cardinality(clusters[id] \union {r}) >= 2
  <2>1. /\ IsFiniteSet(clusters[id] \union {r})
        /\ \/ Cardinality(clusters[id] \union {r}) = Cardinality(clusters[id])
           \/ Cardinality(clusters[id] \union {r}) = Cardinality(clusters[id]) + 1
    BY <1>3, FS_AddElement
  <2>2. Cardinality(clusters[id]) \in Nat
    BY <1>3, FS_CardinalityType
  <2> QED
    BY <1>3, <2>1, <2>2
<1>5. \A c \in DOMAIN after :
         /\ after[c] \subseteq DOMAIN repos /\ IsFiniteSet(after[c])
         /\ Cardinality(after[c]) >= 2
         /\ \A q, s \in after[c] : repos[q].host = repos[s].host
  <2>1. \A q, s \in clusters[id] \union {r} : repos[q].host = repos[s].host
    BY <1>1 DEF ClustersSound
  <2> QED
    BY <1>2, <1>4, <2>1 DEF ClustersSound
<1>6. ASSUME NEW q \in DOMAIN repos
      PROVE  Cardinality(Related(after, q)) <= MAX_RELATED_REPOSITORIES
  <2>1. CASE q \in Related(after, r) \union {r}
    BY <1>1, <2>1 DEF WithinLimit
  <2>2. CASE q \notin Related(after, r) \union {r}
    <3>1. q \notin clusters[id] \union {r}
      BY <1>2, <2>2, RelatedIs
    <3>2. Related(after, q) \subseteq Related(clusters, q)
      BY <1>2, <3>1, RelatedIs
    <3> QED
      BY <3>2, FewerRelated DEF ClustersSound, WithinLimit
  <2> QED
    BY <2>1, <2>2
<1> QED
  BY <1>1, <1>2, <1>5, <1>6 DEF ClustersSound, WithinLimit

LEMMA RemovedIsSound ==
    ASSUME NEW clusters, NEW repos, ClustersSound(clusters, repos), NEW id \in DOMAIN clusters,
           NEW r, ~RemoveMember(clusters, id, r).raised
    PROVE  ClustersSound(RemoveMember(clusters, id, r).value, repos)
<1>1. CASE r \notin clusters[id]
  BY <1>1 DEF RemoveMember, Returns
<1>2. CASE r \in clusters[id]
  <2> DEFINE after == [clusters EXCEPT ![id] = @ \ {r}]
  <2>1. ~(Cardinality(clusters[id]) <= 2) /\ RemoveMember(clusters, id, r).value = after
    BY <1>2 DEF RemoveMember, Returns, Raises
  <2>2. /\ DOMAIN after = DOMAIN clusters
        /\ \A c \in DOMAIN clusters : after[c] = IF c = id THEN clusters[id] \ {r} ELSE clusters[c]
    OBVIOUS
  <2> HIDE DEF after
  <2>3. IsFiniteSet(clusters[id] \ {r}) /\ Cardinality(clusters[id] \ {r}) >= 2
    <3>1. IsFiniteSet(clusters[id])
      BY DEF ClustersSound
    <3>2. /\ IsFiniteSet(clusters[id] \ {r})
          /\ Cardinality(clusters[id] \ {r}) = Cardinality(clusters[id]) - 1
      BY <1>2, <3>1, FS_RemoveElement
    <3>3. Cardinality(clusters[id]) \in Nat
      BY <3>1, FS_CardinalityType
    <3> QED
      BY <2>1, <3>2, <3>3
  <2>4. \A c \in DOMAIN after :
           /\ after[c] \subseteq DOMAIN repos /\ IsFiniteSet(after[c])
           /\ Cardinality(after[c]) >= 2
           /\ \A q, s \in after[c] : repos[q].host = repos[s].host
    BY <2>2, <2>3 DEF ClustersSound
  <2>5. ASSUME NEW q \in DOMAIN repos
        PROVE  Cardinality(Related(after, q)) <= MAX_RELATED_REPOSITORIES
    <3>1. Related(after, q) \subseteq Related(clusters, q)
      BY <2>2, RelatedIs
    <3> QED
      BY <3>1, FewerRelated DEF ClustersSound, WithinLimit
  <2> QED
    BY <2>1, <2>2, <2>4, <2>5 DEF ClustersSound, WithinLimit
<1> QED
  BY <1>1, <1>2

LEMMA DeletedIsSound ==
    ASSUME NEW clusters, NEW repos, ClustersSound(clusters, repos), NEW id
    PROVE  ClustersSound(DeleteCluster(clusters, id).value, repos)
<1> DEFINE after == [c \in (DOMAIN clusters) \ {id} |-> clusters[c]]
<1>1. DeleteCluster(clusters, id).value = after
  BY DEF DeleteCluster, Returns
<1>2. DOMAIN after = (DOMAIN clusters) \ {id} /\ \A c \in DOMAIN after : after[c] = clusters[c]
  OBVIOUS
<1> HIDE DEF after
<1>3. IsFiniteSet(DOMAIN after)
  <2>1. IsFiniteSet((DOMAIN clusters) \ {id})
    BY FS_RemoveElement DEF ClustersSound
  <2> QED
    BY <1>2, <2>1
<1>4. ASSUME NEW q \in DOMAIN repos
      PROVE  Cardinality(Related(after, q)) <= MAX_RELATED_REPOSITORIES
  <2>1. Related(after, q) \subseteq Related(clusters, q)
    BY <1>2, RelatedIs
  <2> QED
    BY <2>1, FewerRelated DEF ClustersSound, WithinLimit
<1> QED
  BY <1>1, <1>2, <1>3, <1>4 DEF ClustersSound, WithinLimit

\* Whatever an operator does to the clusters of any number of repositories, an
\* operation that is accepted leaves every repository beside no more than the
\* limit, and every cluster on one host and of at least two
\* (repository/cross_repository.py).
THEOREM ClustersStaySound ==
    ASSUME NEW clusters, NEW repos, ClustersSound(clusters, repos), NEW ids, NEW groups,
           \A members \in groups : IsFiniteSet(members),
           NEW got \in ClusterAnswers(clusters, repos, ids, groups), ~got.raised
    PROVE  ClustersSound(got.value, repos)
<1>1. CASE \E id \in ids \ DOMAIN clusters, members \in groups :
             got = CreateCluster(clusters, id, members, repos)
  BY <1>1, CreatedIsSound
<1>2. CASE \E id \in DOMAIN clusters, r \in DOMAIN repos : got = AddMember(clusters, id, r, repos)
  BY <1>2, AddedIsSound
<1>3. CASE \E id \in DOMAIN clusters, r \in DOMAIN repos : got = RemoveMember(clusters, id, r)
  BY <1>3, RemovedIsSound
<1>4. CASE \E id \in DOMAIN clusters : got = DeleteCluster(clusters, id)
  BY <1>4, DeletedIsSound
<1> QED
  BY <1>1, <1>2, <1>3, <1>4 DEF ClusterAnswers

-----------------------------------------------------------------------------
(* The plan.                                                               *)

LEMMA IncreasingIs ==
    ASSUME NEW S \in SUBSET Int, IsFiniteSet(S)
    PROVE  /\ Cardinality(S) \in Nat
           /\ Increasing(S) \in [1..Cardinality(S) -> S]
           /\ \A n, m \in 1..Cardinality(S) : Increasing(S)[n] = Increasing(S)[m] => n = m
           /\ \A x \in S : \E n \in 1..Cardinality(S) : Increasing(S)[n] = x
<1> DEFINE R == {pair \in S \X S : pair[1] < pair[2]}
           N == 1..Cardinality(S)
<1>1. \A x, y \in S : <<x, y>> \in R <=> x < y
  OBVIOUS
<1>2. StrictOrder(S, R)
  <2>1. /\ \A x \in S : ~(x < x)
        /\ \A x, y, z \in S : x < y /\ y < z => x < z
        /\ \A x, y \in S : x # y => x < y \/ y < x
    OBVIOUS
  <2> HIDE DEF R
  <2> QED
    BY <1>1, <2>1 DEF StrictOrder
<1> HIDE DEF R
<1>3. Increasing(S) = Sorted(S, R)
  BY DEF Increasing, R
<1>4. /\ Cardinality(S) \in Nat
      /\ Increasing(S) \in [N -> S]
      /\ \A n, m \in N : Increasing(S)[n] = Increasing(S)[m] => n = m
  BY <1>2, <1>3, SortedIs
<1>5. IsFiniteSet(N) /\ Cardinality(N) = Cardinality(S)
  <2>1. 1 \in Int /\ Cardinality(S) \in Int
    BY <1>4
  <2>2. IsFiniteSet(N) /\ Cardinality(N) = IF 1 > Cardinality(S) THEN 0 ELSE Cardinality(S) - 1 + 1
    BY <2>1, FS_Interval
  <2> QED
    BY <1>4, <2>2
<1>6. Increasing(S) \in Injection(N, S)
  BY <1>4 DEF Injection, IsInjective
<1>7. Increasing(S) \in Surjection(N, S)
  BY <1>5, <1>6, FS_Injection
<1> QED
  BY <1>4, <1>7 DEF Surjection

\* Picked(list, positions) holds what stands at the positions, each once.
IsPicked(list, positions, k) ==
    /\ k \in Nat
    /\ DOMAIN Picked(list, positions) = 1..k
    /\ \A n \in 1..k : \E i \in positions : Picked(list, positions)[n] = list[i]
    /\ \A i \in positions : \E n \in 1..k : Picked(list, positions)[n] = list[i]
    /\ (\A i, j \in positions : list[i] = list[j] => i = j) =>
         \A n, m \in 1..k : Picked(list, positions)[n] = Picked(list, positions)[m] => n = m

LEMMA PickedIs ==
    ASSUME NEW list, NEW positions \in SUBSET Int, IsFiniteSet(positions)
    PROVE  IsPicked(list, positions, Cardinality(positions))
<1> DEFINE k == Cardinality(positions)
           at == Increasing(positions)
<1>1. /\ k \in Nat /\ at \in [1..k -> positions]
      /\ \A n, m \in 1..k : at[n] = at[m] => n = m
      /\ \A x \in positions : \E n \in 1..k : at[n] = x
  BY IncreasingIs
<1>2. Picked(list, positions) = [n \in 1..k |-> list[at[n]]]
  BY DEF Picked
<1> HIDE DEF k, at
<1>3. DOMAIN Picked(list, positions) = 1..k /\ \A n \in 1..k : Picked(list, positions)[n] = list[at[n]]
  BY <1>2
<1>4. \A n \in 1..k : at[n] \in positions
  BY <1>1
<1>5. \A n \in 1..k : \E i \in positions : Picked(list, positions)[n] = list[i]
  BY <1>3, <1>4
<1>6. \A i \in positions : \E n \in 1..k : Picked(list, positions)[n] = list[i]
  BY <1>1, <1>3
<1>7. (\A i, j \in positions : list[i] = list[j] => i = j) =>
         \A n, m \in 1..k : Picked(list, positions)[n] = Picked(list, positions)[m] => n = m
  <2> SUFFICES ASSUME \A i, j \in positions : list[i] = list[j] => i = j,
                      NEW n \in 1..k, NEW m \in 1..k,
                      Picked(list, positions)[n] = Picked(list, positions)[m]
               PROVE  n = m
    OBVIOUS
  <2>1. list[at[n]] = list[at[m]]
    BY <1>3
  <2>2. at[n] = at[m]
    BY <1>4, <2>1
  <2> QED
    BY <1>1, <2>2
<1> QED
  BY <1>1, <1>3, <1>5, <1>6, <1>7 DEF IsPicked, k

\* The parts of a plan: what was named, the other cluster mates, their entries.
NamedPlaces(clusters, repos, primary, explicit) ==
    {i \in DOMAIN explicit : explicit[i] \in Targets(clusters, repos, primary, explicit)}
DroppedPlaces(clusters, repos, primary, explicit) ==
    {i \in DOMAIN explicit : explicit[i] \notin Targets(clusters, repos, primary, explicit)}
Others(clusters, repos, primary, explicit) ==
    {r \in Targets(clusters, repos, primary, explicit) \ ToSet(explicit) : repos[r].snapshot # 0}
Entries(clusters, repos, primary, list, source) ==
    [i \in DOMAIN list |-> Entry(clusters, repos, primary, list[i], source)]

PlanOf(clusters, repos, primary, explicit) ==
    Entries(clusters, repos, primary,
            Picked(explicit, NamedPlaces(clusters, repos, primary, explicit)), "explicit+cluster")
      \o Entries(clusters, repos, primary,
                 Increasing(Others(clusters, repos, primary, explicit)), "cluster")

\* The names a plan is not refused for.
NamesStand(clusters, repos, primary, explicit) ==
    /\ \A i, j \in DOMAIN explicit : explicit[i] = explicit[j] => i = j
    /\ \A i \in DOMAIN explicit :
         /\ explicit[i] # primary /\ explicit[i] \in DOMAIN repos
         /\ repos[explicit[i]].enabled /\ repos[explicit[i]].onboarded
         /\ repos[explicit[i]].host = repos[primary].host
         /\ explicit[i] \in Related(clusters, primary) => repos[explicit[i]].snapshot # 0

LEMMA PlanIs ==
    ASSUME NEW clusters, NEW repos, NEW primary, NEW compatible, NEW explicit,
           ~ResolveContext(clusters, repos, primary, compatible, explicit).raised
    PROVE  /\ ResolveContext(clusters, repos, primary, compatible, explicit).value.related =
                PlanOf(clusters, repos, primary, explicit)
           /\ ResolveContext(clusters, repos, primary, compatible, explicit).value.dropped =
                Picked(explicit, DroppedPlaces(clusters, repos, primary, explicit))
           /\ NamesStand(clusters, repos, primary, explicit)
<1>1. /\ ResolveContext(clusters, repos, primary, compatible, explicit).value.related =
           PlanOf(clusters, repos, primary, explicit)
      /\ ResolveContext(clusters, repos, primary, compatible, explicit).value.dropped =
           Picked(explicit, DroppedPlaces(clusters, repos, primary, explicit))
  BY DEF ResolveContext, Raises, Returns, Entries, NamedPlaces, DroppedPlaces, Others, PlanOf
<1>2. NamesStand(clusters, repos, primary, explicit)
  BY DEF ResolveContext, Raises, Returns, Targets, NamesStand
<1> QED
  BY <1>1, <1>2

LEMMA PlanIsReturned ==
    ASSUME NEW clusters, NEW repos, NEW primary, NEW compatible, NEW explicit,
           Len(explicit) <= MAX_RELATED_REPOSITORIES, Len(explicit) \in Nat,
           NamesStand(clusters, repos, primary, explicit),
           repos[primary].enabled, compatible,
           \A r \in Related(clusters, primary) : repos[r].host = repos[primary].host,
           Len(PlanOf(clusters, repos, primary, explicit)) \in Nat,
           Len(PlanOf(clusters, repos, primary, explicit)) <= MAX_RELATED_REPOSITORIES
    PROVE  ~ResolveContext(clusters, repos, primary, compatible, explicit).raised
<1>1. /\ ~(Len(explicit) > MAX_RELATED_REPOSITORIES)
      /\ ~(Len(PlanOf(clusters, repos, primary, explicit)) > MAX_RELATED_REPOSITORIES)
  BY RetrievalAssumption
<1> QED
  BY <1>1 DEF ResolveContext, Raises, Returns, Targets, NamesStand, Entries, NamedPlaces, Others, PlanOf

LEMMA FiniteTargets ==
    ASSUME NEW clusters, NEW repos, ClustersSound(clusters, repos), DOMAIN repos \subseteq Int,
           NEW primary, NEW explicit
    PROVE  /\ Related(clusters, primary) \subseteq Int
           /\ IsFiniteSet(Related(clusters, primary))
           /\ Others(clusters, repos, primary, explicit) \in SUBSET Related(clusters, primary)
           /\ IsFiniteSet(Others(clusters, repos, primary, explicit))
<1>1. Related(clusters, primary) \subseteq Int
  BY RelatedIs DEF ClustersSound
<1>2. IsFiniteSet(Related(clusters, primary))
  BY RelatedIsFinite DEF ClustersSound
<1>3. Others(clusters, repos, primary, explicit) \in SUBSET Related(clusters, primary)
  BY DEF Others, Targets
<1> QED
  BY <1>1, <1>2, <1>3, FS_Subset

LEMMA FinitePlaces ==
    ASSUME NEW k \in Nat, NEW positions \in SUBSET (1..k)
    PROVE  positions \in SUBSET Int /\ IsFiniteSet(positions)
<1>1. IsFiniteSet(1..k)
  BY FS_Interval
<1>2. IsFiniteSet(positions)
  BY <1>1, FS_Subset
<1> QED
  BY <1>2

LEMMA EntryIs ==
    ASSUME NEW clusters, NEW repos, NEW primary, NEW r, NEW source
    PROVE  /\ Entry(clusters, repos, primary, r, source).repository = r
           /\ Entry(clusters, repos, primary, r, source).snapshot = repos[r].snapshot
           /\ Entry(clusters, repos, primary, r, source).source = source
           /\ r \in Related(clusters, primary) =>
                Entry(clusters, repos, primary, r, source).clusters # {}
<1>1. r \in Related(clusters, primary) =>
        \E c \in DOMAIN clusters : {r, primary} \subseteq clusters[c]
  BY RelatedIs
<1> QED
  BY <1>1 DEF Entry

LEMMA Joined ==
    ASSUME NEW S, NEW k \in Nat, NEW l \in Nat, NEW e \in [1..k -> S], NEW f \in [1..l -> S]
    PROVE  /\ DOMAIN (e \o f) = 1..(k + l) /\ Len(e \o f) = k + l
           /\ \A n \in 1..k : (e \o f)[n] = e[n]
           /\ \A n \in (k + 1)..(k + l) : n - k \in 1..l /\ (e \o f)[n] = f[n - k]
<1>1. e \in Seq(S) /\ f \in Seq(S) /\ Len(e) = k /\ Len(f) = l
  OBVIOUS
<1> QED
  BY <1>1

\* The plan's entries, whether or not it is returned.
PlanHolds(clusters, repos, primary, explicit, plan, length) ==
    /\ length \in Nat /\ DOMAIN plan = 1..length /\ Len(plan) = length
    /\ {plan[i].repository : i \in 1..length} =
         {r \in Related(clusters, primary) : repos[r].enabled /\ repos[r].snapshot # 0}
    /\ \A i, j \in 1..length : plan[i].repository = plan[j].repository => i = j
    /\ \A i \in 1..length :
         /\ plan[i].clusters # {}
         /\ plan[i].snapshot = repos[plan[i].repository].snapshot
    /\ \A i, j \in 1..length :
         plan[i].source = "cluster" /\ plan[j].source # "cluster" => j < i
    /\ ToSet(Picked(explicit, DroppedPlaces(clusters, repos, primary, explicit))) =
         ToSet(explicit)
           \ {r \in Related(clusters, primary) : repos[r].enabled /\ repos[r].snapshot # 0}

LEMMA PlanOfHolds ==
    ASSUME NEW clusters, NEW repos, ClustersSound(clusters, repos), DOMAIN repos \subseteq Int,
           NEW primary, NEW names, NEW explicit \in Seq(names),
           NamesStand(clusters, repos, primary, explicit)
    PROVE  PlanHolds(clusters, repos, primary, explicit, PlanOf(clusters, repos, primary, explicit),
                     Cardinality(NamedPlaces(clusters, repos, primary, explicit))
                       + Cardinality(Others(clusters, repos, primary, explicit)))
<1> DEFINE targets == Targets(clusters, repos, primary, explicit)
           mates == {r \in Related(clusters, primary) : repos[r].enabled /\ repos[r].snapshot # 0}
           places == NamedPlaces(clusters, repos, primary, explicit)
           outside == DroppedPlaces(clusters, repos, primary, explicit)
           others == Others(clusters, repos, primary, explicit)
           named == Picked(explicit, places)
           rest == Increasing(others)
           k == Cardinality(places)
           l == Cardinality(others)
           first == Entries(clusters, repos, primary, named, "explicit+cluster")
           second == Entries(clusters, repos, primary, rest, "cluster")
           related == first \o second
<1>1. /\ PlanOf(clusters, repos, primary, explicit) = related
      /\ \A i, j \in DOMAIN explicit : explicit[i] = explicit[j] => i = j
      /\ \A i \in DOMAIN explicit : explicit[i] \in targets => repos[explicit[i]].snapshot # 0
  BY DEF PlanOf, NamesStand, Targets
<1>2. Len(explicit) \in Nat /\ DOMAIN explicit = 1..Len(explicit)
  OBVIOUS
<1>3. places \in SUBSET (1..Len(explicit)) /\ outside \in SUBSET (1..Len(explicit))
  BY <1>2 DEF NamedPlaces, DroppedPlaces
<1>4. IsPicked(explicit, places, k) /\ IsPicked(explicit, outside, Cardinality(outside))
  BY <1>2, <1>3, FinitePlaces, PickedIs
<1>5. others \in SUBSET Int /\ IsFiniteSet(others)
  BY FiniteTargets
<1>6. /\ l \in Nat /\ rest \in [1..l -> others]
      /\ \A n, m \in 1..l : rest[n] = rest[m] => n = m
      /\ \A x \in others : \E n \in 1..l : rest[n] = x
  BY <1>5, IncreasingIs
<1>7. \A i \in places : i \in DOMAIN explicit /\ explicit[i] \in targets /\ explicit[i] \in mates
  BY <1>1 DEF NamedPlaces, Targets
<1>8. \A x \in others : x \in mates /\ \A i \in DOMAIN explicit : explicit[i] # x
  BY DEF Others, Targets, ToSet
<1>9. \A x \in mates : x \in others \/ \E i \in places : explicit[i] = x
  BY DEF Others, NamedPlaces, Targets, ToSet
<1>10. ToSet(Picked(explicit, outside)) = ToSet(explicit) \ mates
  <2>1. \A i \in DOMAIN explicit : i \in outside <=> explicit[i] \notin mates
    BY <1>1 DEF DroppedPlaces, Targets
  <2>2. \A i \in outside : i \in DOMAIN explicit
    BY <1>2, <1>3
  <2> DEFINE dropped == Picked(explicit, outside)
             m == Cardinality(outside)
  <2> HIDE DEF mates, outside
  <2>3. /\ DOMAIN dropped = 1..m
        /\ \A n \in 1..m : \E i \in outside : dropped[n] = explicit[i]
        /\ \A i \in outside : \E n \in 1..m : dropped[n] = explicit[i]
    BY <1>4 DEF IsPicked
  <2> HIDE DEF dropped, m
  <2>4. ASSUME NEW n \in DOMAIN dropped
        PROVE  dropped[n] \in ToSet(explicit) \ mates
    BY <2>1, <2>2, <2>3 DEF ToSet
  <2>5. ASSUME NEW x \in ToSet(explicit) \ mates
        PROVE  \E n \in DOMAIN dropped : dropped[n] = x
    <3>1. PICK i \in DOMAIN explicit : explicit[i] = x
      BY DEF ToSet
    <3> QED
      BY <2>1, <2>3, <3>1
  <2>6. ToSet(dropped) = ToSet(explicit) \ mates
    <3>1. ToSet(dropped) = {dropped[n] : n \in DOMAIN dropped}
      BY DEF ToSet
    <3> HIDE DEF mates
    <3> QED
      BY <2>4, <2>5, <3>1
  <2> QED
    BY <2>6 DEF dropped
<1>11. /\ k \in Nat /\ DOMAIN named = 1..k
       /\ \A n \in 1..k : \E i \in places : named[n] = explicit[i]
       /\ \A i \in places : \E n \in 1..k : named[n] = explicit[i]
       /\ \A n, m \in 1..k : named[n] = named[m] => n = m
  BY <1>1, <1>4, <1>7 DEF IsPicked
<1>12. \A n \in 1..k : named[n] \in mates /\ \E i \in DOMAIN explicit : named[n] = explicit[i]
  BY <1>7, <1>11
<1>13. \A n \in 1..l : rest[n] \in others
  BY <1>6
<1>14. DOMAIN rest = 1..l
  BY <1>6
<1> HIDE DEF named, rest, k, l, others, places, outside, mates
<1>15. first = [n \in 1..k |-> Entry(clusters, repos, primary, named[n], "explicit+cluster")]
  BY <1>11 DEF Entries
<1>16. second = [n \in 1..l |-> Entry(clusters, repos, primary, rest[n], "cluster")]
  BY <1>14 DEF Entries
<1> HIDE DEF first, second
<1>17. /\ DOMAIN related = 1..(k + l) /\ Len(related) = k + l
       /\ \A n \in 1..k : related[n] = first[n]
       /\ \A n \in (k + 1)..(k + l) : n - k \in 1..l /\ related[n] = second[n - k]
  <2> DEFINE S == {first[n] : n \in 1..k} \union {second[n] : n \in 1..l}
  <2>1. first \in [1..k -> S] /\ second \in [1..l -> S]
    BY <1>15, <1>16
  <2> HIDE DEF S
  <2>2. k \in Nat /\ l \in Nat
    BY <1>6, <1>11
  <2> HIDE DEF related
  <2>3. /\ DOMAIN (first \o second) = 1..(k + l) /\ Len(first \o second) = k + l
        /\ \A n \in 1..k : (first \o second)[n] = first[n]
        /\ \A n \in (k + 1)..(k + l) : n - k \in 1..l /\ (first \o second)[n] = second[n - k]
    BY <2>1, <2>2, Joined
  <2> QED
    BY <2>3 DEF related
<1> HIDE DEF related
<1>18. \A n \in 1..k : related[n] = Entry(clusters, repos, primary, named[n], "explicit+cluster")
  BY <1>15, <1>17
<1>19. \A n \in (k + 1)..(k + l) :
         n - k \in 1..l /\ related[n] = Entry(clusters, repos, primary, rest[n - k], "cluster")
  BY <1>16, <1>17
<1>20. \A n \in 1..(k + l) : n \in 1..k \/ n \in (k + 1)..(k + l)
  BY <1>6, <1>11
<1>21. \A n \in 1..k : /\ related[n].repository = named[n] /\ related[n].source = "explicit+cluster"
                       /\ related[n].snapshot = repos[named[n]].snapshot
                       /\ related[n].clusters # {}
  <2>1. \A n \in 1..k : named[n] \in Related(clusters, primary)
    BY <1>12 DEF mates
  <2> QED
    BY <1>18, <2>1, EntryIs
<1>22. \A n \in (k + 1)..(k + l) :
         /\ related[n].repository = rest[n - k] /\ related[n].source = "cluster"
         /\ related[n].snapshot = repos[rest[n - k]].snapshot
         /\ related[n].clusters # {}
  <2>1. \A n \in 1..l : rest[n] \in Related(clusters, primary)
    BY <1>8, <1>13 DEF mates
  <2> QED
    BY <1>19, <2>1, EntryIs
<1>23. {related[i].repository : i \in 1..(k + l)} = mates
  <2>1. ASSUME NEW i \in 1..(k + l)
        PROVE  related[i].repository \in mates
    BY <1>8, <1>12, <1>13, <1>19, <1>20, <1>21, <1>22
  <2>2. ASSUME NEW x \in mates
        PROVE  \E i \in 1..(k + l) : related[i].repository = x
    <3>1. CASE \E i \in places : explicit[i] = x
      <4>1. PICK n \in 1..k : named[n] = x
        BY <1>11, <3>1
      <4>2. n \in 1..(k + l)
        BY <1>6, <1>11
      <4> QED
        BY <1>21, <4>1, <4>2
    <3>2. CASE x \in others
      <4>1. PICK n \in 1..l : rest[n] = x
        BY <1>6, <3>2
      <4>2. n + k \in (k + 1)..(k + l) /\ n + k \in 1..(k + l) /\ (n + k) - k = n
        BY <1>6, <1>11
      <4> QED
        BY <1>22, <4>1, <4>2
    <3> QED
      BY <1>9, <3>1, <3>2
  <2> QED
    BY <1>17, <2>1, <2>2
<1>24. \A i, j \in 1..(k + l) : related[i].repository = related[j].repository => i = j
  <2> SUFFICES ASSUME NEW i \in 1..(k + l), NEW j \in 1..(k + l),
                      related[i].repository = related[j].repository
               PROVE  i = j
    BY <1>17
  <2>1. CASE i \in 1..k /\ j \in 1..k
    BY <1>11, <1>21, <2>1
  <2>2. CASE i \in (k + 1)..(k + l) /\ j \in (k + 1)..(k + l)
    <3>1. rest[i - k] = rest[j - k] /\ i - k \in 1..l /\ j - k \in 1..l
      BY <1>19, <1>22, <2>2
    <3>2. i - k = j - k
      BY <1>6, <3>1
    <3> QED
      BY <1>6, <1>11, <3>2
  <2>3. ASSUME NEW n \in 1..k, NEW m \in (k + 1)..(k + l)
        PROVE  related[n].repository # related[m].repository
    BY <1>8, <1>12, <1>13, <1>19, <1>21, <1>22
  <2> QED
    BY <1>20, <2>1, <2>2, <2>3
<1>25. \A i \in 1..(k + l) :
         /\ related[i].clusters # {}
         /\ related[i].snapshot = repos[related[i].repository].snapshot
  BY <1>17, <1>20, <1>21, <1>22
<1>26. \A i, j \in 1..(k + l) :
         related[i].source = "cluster" /\ related[j].source # "cluster" => j < i
  <2> SUFFICES ASSUME NEW i \in 1..(k + l), NEW j \in 1..(k + l),
                      related[i].source = "cluster", related[j].source # "cluster"
               PROVE  j < i
    BY <1>17
  <2>1. i \notin 1..k /\ j \notin (k + 1)..(k + l)
    BY <1>21, <1>22
  <2> QED
    BY <1>6, <1>11, <1>20, <2>1
<1>27. k + l \in Nat
  BY <1>6, <1>11
<1> QED
  BY <1>1, <1>10, <1>17, <1>23, <1>24, <1>25, <1>26, <1>27
  DEF PlanHolds, mates, k, l, places, others, outside

\* What a policy that is committed to the repository under review names grants
\* nothing: for any clusters, repositories and names, exactly the enabled cluster
\* mates with a snapshot are read, each once, the named ones first
\* (resolve_cross_repository_context).
THEOREM PlansAreAuthorized ==
    ASSUME NEW clusters, NEW repos, ClustersSound(clusters, repos), DOMAIN repos \subseteq Int,
           NEW primary, NEW compatible, NEW names, NEW explicit \in Seq(names)
    PROVE  Authorized(clusters, repos, primary, compatible, explicit)
<1> SUFFICES ASSUME ~ResolveContext(clusters, repos, primary, compatible, explicit).raised
             PROVE  Authorized(clusters, repos, primary, compatible, explicit)
  BY DEF Authorized
<1> DEFINE plan == PlanOf(clusters, repos, primary, explicit)
           length == Cardinality(NamedPlaces(clusters, repos, primary, explicit))
                       + Cardinality(Others(clusters, repos, primary, explicit))
<1>1. /\ ResolveContext(clusters, repos, primary, compatible, explicit).value.related = plan
      /\ ResolveContext(clusters, repos, primary, compatible, explicit).value.dropped =
           Picked(explicit, DroppedPlaces(clusters, repos, primary, explicit))
      /\ NamesStand(clusters, repos, primary, explicit)
  BY PlanIs
<1>2. PlanHolds(clusters, repos, primary, explicit, plan, length)
  BY <1>1, PlanOfHolds
<1> HIDE DEF plan, length
<1> QED
  BY <1>1, <1>2, SMTT(30) DEF PlanHolds, Authorized

\* Operators cannot expose more repositories to one than its reviews can be
\* planned with: between sound clusters, an enabled repository's plan is
\* returned, without names or with names that stand by themselves.
THEOREM PlansAreNotTooLong ==
    ASSUME NEW clusters, NEW repos, ClustersSound(clusters, repos), DOMAIN repos \subseteq Int,
           NEW primary \in DOMAIN repos, repos[primary].enabled, NEW compatible, compatible,
           NEW names, NEW explicit \in Seq(names), Len(explicit) <= MAX_RELATED_REPOSITORIES,
           NamesStand(clusters, repos, primary, explicit)
    PROVE  ~ResolveContext(clusters, repos, primary, compatible, explicit).raised
<1> DEFINE plan == PlanOf(clusters, repos, primary, explicit)
           length == Cardinality(NamedPlaces(clusters, repos, primary, explicit))
                       + Cardinality(Others(clusters, repos, primary, explicit))
           beside == Related(clusters, primary)
<1>1. PlanHolds(clusters, repos, primary, explicit, plan, length)
  BY PlanOfHolds
<1>2. IsFiniteSet(beside) /\ Cardinality(beside) \in Nat
  BY FiniteTargets, FS_CardinalityType
<1>3. Cardinality(beside) <= MAX_RELATED_REPOSITORIES
  BY DEF ClustersSound, WithinLimit
<1>4. \A r \in beside : repos[r].host = repos[primary].host
  BY RelatedIs DEF ClustersSound
<1> HIDE DEF plan, length, beside
<1>5. length \in Nat /\ Len(plan) = length
  BY <1>1 DEF PlanHolds
<1>6. length <= Cardinality(beside)
  <2> DEFINE f == [i \in 1..length |-> plan[i].repository]
  <2>1. \A i \in 1..length : plan[i].repository \in beside
    BY <1>1 DEF PlanHolds, beside
  <2>2. f \in Injection(1..length, beside)
    BY <1>1, <2>1 DEF PlanHolds, Injection, IsInjective
  <2>3. Cardinality(1..length) <= Cardinality(beside)
    BY <1>2, <2>2, FS_Injection
  <2>4. 1 \in Int /\ length \in Int
    BY <1>5
  <2>5. Cardinality(1..length) = IF 1 > length THEN 0 ELSE length - 1 + 1
    BY <2>4, FS_Interval
  <2> QED
    BY <1>5, <2>3, <2>5
<1>7. Len(plan) \in Nat /\ Len(plan) <= MAX_RELATED_REPOSITORIES
  BY <1>2, <1>3, <1>5, <1>6, RetrievalAssumption
<1>8. Len(explicit) \in Nat
  OBVIOUS
<1> QED
  BY <1>4, <1>7, <1>8, PlanIsReturned DEF plan, beside

-----------------------------------------------------------------------------
(* Globs: a token is a step from offsets to offsets.                       *)

Plain(C) ==
    [kind : {"char", "single", "segment", "any", "any_dir"}, char : C \union {""}, branches : {<<>>}]
Offsets(text) == 0..Len(text)

\* The offsets one token leads to.
Step(token, text, R, ignoreCase) ==
    {k \in 0..Len(text) : \E j \in R : j <= k /\ Covers(token, text, j, k, ignoreCase)}

LEMMA MinIs ==
    ASSUME NEW S \in SUBSET Nat, S # {}
    PROVE  Min(S) \in S /\ \A x \in S : Min(S) <= x
BY LeastExists DEF Min

LEMMA SegmentCovers ==
    ASSUME NEW C, NEW text \in Seq(C), NEW j \in 0..Len(text), NEW k \in 0..Len(text)
    PROVE  "/" \notin ToSet(SubSeq(text, j + 1, k)) <=> \A l \in (j + 1)..k : text[l] # "/"
<1>1. CASE j + 1 <= k
  <2>1. /\ DOMAIN SubSeq(text, j + 1, k) = 1..(k - j)
        /\ \A i \in 1..(k - j) : SubSeq(text, j + 1, k)[i] = text[i + j]
    BY <1>1
  <2>2. ASSUME NEW l \in (j + 1)..k
        PROVE  l - j \in 1..(k - j) /\ (l - j) + j = l
    OBVIOUS
  <2>3. \A i \in 1..(k - j) : i + j \in (j + 1)..k
    OBVIOUS
  <2>4. ToSet(SubSeq(text, j + 1, k)) = {text[i + j] : i \in 1..(k - j)}
    BY <2>1 DEF ToSet
  <2> QED
    BY <2>2, <2>3, <2>4
<1>2. CASE ~(j + 1 <= k)
  <2>1. DOMAIN SubSeq(text, j + 1, k) = {}
    BY <1>2
  <2>2. (j + 1)..k = {}
    BY <1>2
  <2> QED
    BY <2>1, <2>2 DEF ToSet
<1> QED
  BY <1>1, <1>2

LEMMA AdvanceIsAStep ==
    ASSUME NEW C, NEW token \in Plain(C), NEW text \in Seq(C), NEW R \in SUBSET Offsets(text),
           NEW ignoreCase \in BOOLEAN
    PROVE  AdvancePlain(token, text, R, ignoreCase) = Step(token, text, R, ignoreCase)
<1>0. Len(text) \in Nat /\ R \in SUBSET Nat /\ R \in SUBSET (0..Len(text))
  BY DEF Offsets
<1>1. CASE R = {}
  BY <1>1 DEF AdvancePlain, Step
<1>2. CASE R # {}
  <2>1. CASE token.kind = "char"
    <3>1. AdvancePlain(token, text, R, ignoreCase) =
            {j + 1 : j \in {i \in R : i < Len(text) /\ Same(text[i + 1], token.char, ignoreCase)}}
      BY <1>2, <2>1 DEF AdvancePlain
    <3>2. \A j, k : Covers(token, text, j, k, ignoreCase) <=>
                      k = j + 1 /\ Same(text[k], token.char, ignoreCase)
      BY <2>1 DEF Covers
    <3> QED
      BY <3>1, <3>2 DEF Step, Offsets
  <2>2. CASE token.kind = "single"
    <3>1. AdvancePlain(token, text, R, ignoreCase) =
            {j + 1 : j \in {i \in R : i < Len(text) /\ text[i + 1] # "/"}}
      BY <1>2, <2>2 DEF AdvancePlain
    <3>2. \A j, k : Covers(token, text, j, k, ignoreCase) <=> k = j + 1 /\ text[k] # "/"
      BY <2>2 DEF Covers
    <3> QED
      BY <3>1, <3>2 DEF Step, Offsets
  <2>3. CASE token.kind = "segment"
    <3>1. AdvancePlain(token, text, R, ignoreCase) = AdvanceWithinSegment(text, R)
      BY <1>2, <2>3 DEF AdvancePlain
    <3>2. \A j, k \in Offsets(text) : Covers(token, text, j, k, ignoreCase) <=>
                      \A l \in (j + 1)..k : text[l] # "/"
      BY <2>3, SegmentCovers DEF Covers, Offsets
    <3> QED
      BY <3>1, <3>2 DEF Step, Offsets, AdvanceWithinSegment
  <2>4. CASE token.kind = "any"
    <3>1. AdvancePlain(token, text, R, ignoreCase) = Min(R)..Len(text)
      BY <1>2, <2>4 DEF AdvancePlain
    <3>2. \A j, k : Covers(token, text, j, k, ignoreCase)
      BY <2>4 DEF Covers
    <3>3. Min(R) \in R /\ \A x \in R : Min(R) <= x
      BY <1>2, MinIs, <1>0
    <3> DEFINE m == Min(R)
    <3>a. m \in R /\ m \in Nat /\ \A x \in R : x \in Nat /\ m <= x
      BY <1>0, <3>3
    <3>b. Len(text) \in Nat
      OBVIOUS
    <3> HIDE DEF m
    <3>4. ASSUME NEW k \in 0..Len(text)
          PROVE  k \in m..Len(text) <=> \E j \in R : j <= k
      BY <3>a, <3>b
    <3>5. m..Len(text) \subseteq 0..Len(text)
      BY <3>a, <3>b
    <3> QED
      BY <3>1, <3>2, <3>4, <3>5 DEF Step, m
  <2>5. CASE token.kind = "any_dir"
    <3>1. AdvancePlain(token, text, R, ignoreCase) =
            R \union {k \in (Min(R) + 1)..Len(text) : text[k] = "/"}
      BY <1>2, <2>5 DEF AdvancePlain
    <3>2. \A j, k : Covers(token, text, j, k, ignoreCase) <=> k = j \/ text[k] = "/"
      BY <2>5 DEF Covers
    <3>3. Min(R) \in R /\ \A x \in R : Min(R) <= x
      BY <1>2, MinIs, <1>0
    <3>4. ASSUME NEW k \in 0..Len(text)
          PROVE  k \in R \union {l \in (Min(R) + 1)..Len(text) : text[l] = "/"} <=>
                   \E j \in R : j <= k /\ (k = j \/ text[k] = "/")
      <4> DEFINE m == Min(R)
      <4>1. m \in R /\ m \in Nat /\ \A x \in R : x \in Nat /\ m <= x
        BY <1>0, <3>3
      <4> HIDE DEF m
      <4>2. ASSUME NEW j \in R, j <= k, k # j
            PROVE  k \in (m + 1)..Len(text)
        BY <4>1, <4>2
      <4>3. ASSUME k \in (m + 1)..Len(text)
            PROVE  m <= k
        BY <4>1, <4>3
      <4>4. ASSUME k \in R PROVE k <= k
        OBVIOUS
      <4> QED
        BY <4>1, <4>2, <4>3, <4>4 DEF m
    <3>5. R \union {l \in (Min(R) + 1)..Len(text) : text[l] = "/"} \subseteq 0..Len(text)
      <4>1. Min(R) \in Nat
        BY <1>0, <3>3
      <4> DEFINE m == Min(R)
      <4> HIDE DEF m
      <4>2. (m + 1)..Len(text) \subseteq 0..Len(text)
        BY <1>0, <4>1 DEF m
      <4> QED
        BY <1>0, <4>2 DEF m
    <3> QED
      BY <3>1, <3>2, <3>4, <3>5 DEF Step
  <2> QED
    BY <2>1, <2>2, <2>3, <2>4, <2>5 DEF Plain
<1> QED
  BY <1>1, <1>2

-----------------------------------------------------------------------------
(* Induction, and functions that are defined by recursion on a number.     *)

LEMMA Induction ==
    ASSUME NEW S, 0 \in S, \A n \in Nat : n \in S => n + 1 \in S
    PROVE  \A n \in Nat : n \in S
<1> SUFFICES ASSUME NEW n \in Nat, n \notin S PROVE FALSE
  OBVIOUS
<1> DEFINE T == {i \in Nat : i \notin S}
<1>1. PICK m \in T : \A k \in T : m <= k
  <2>1. T \in SUBSET Nat /\ T # {}
    OBVIOUS
  <2> QED
    BY <2>1, LeastExists
<1>2. m # 0 /\ m \in Nat /\ m - 1 \in Nat /\ m \notin S
  BY <1>1
<1>3. m - 1 \notin T
  BY <1>1, <1>2
<1>4. m - 1 \in S /\ (m - 1) + 1 = m
  BY <1>2, <1>3
<1> QED
  BY <1>2, <1>4

\* f starts at x and makes the n moves, one after the other.
IsRun(f, X, moves, n, x) ==
    /\ f \in [0..n -> X] /\ f[0] = x
    /\ \A i \in 1..n : f[i] = moves[i][f[i - 1]]
Run(X, moves, n, x) == CHOOSE f : IsRun(f, X, moves, n, x)

LEMMA RunExists ==
    ASSUME NEW X, NEW x \in X, NEW moves, NEW n \in Nat, \A i \in 1..n : moves[i] \in [X -> X]
    PROVE  IsRun(Run(X, moves, n, x), X, moves, n, x)
<1> DEFINE S == {k \in Nat : k <= n => \E f : IsRun(f, X, moves, k, x)}
<1>1. 0 \in S
  <2> DEFINE f == [i \in 0..0 |-> x]
  <2>1. IsRun(f, X, moves, 0, x)
    BY DEF IsRun
  <2> QED
    BY <2>1
<1>2. ASSUME NEW k \in Nat, k \in S, k + 1 <= n
      PROVE  \E f : IsRun(f, X, moves, k + 1, x)
  <2>1. PICK f : IsRun(f, X, moves, k, x)
    BY <1>2
  <2> DEFINE g == [i \in 0..(k + 1) |-> IF i = k + 1 THEN moves[k + 1][f[k]] ELSE f[i]]
  <2>2. moves[k + 1] \in [X -> X] /\ f[k] \in X
    BY <1>2, <2>1 DEF IsRun
  <2>3. g \in [0..(k + 1) -> X]
    BY <2>1, <2>2 DEF IsRun
  <2>4. g[0] = x
    BY <2>1 DEF IsRun
  <2>5. ASSUME NEW i \in 1..(k + 1)
        PROVE  g[i] = moves[i][g[i - 1]]
    <3>1. CASE i = k + 1
      BY <3>1
    <3>2. CASE i # k + 1
      <4>1. i \in 1..k /\ i - 1 \in 0..k /\ i - 1 # k + 1
        BY <3>2
      <4> QED
        BY <2>1, <4>1 DEF IsRun
    <3> QED
      BY <3>1, <3>2
  <2> HIDE DEF g
  <2>6. IsRun(g, X, moves, k + 1, x)
    BY <2>3, <2>4, <2>5 DEF IsRun
  <2> QED
    BY <2>6
<1>3. \A k \in Nat : k \in S => k + 1 \in S
  BY <1>2
<1> HIDE DEF S
<1>4. n \in S
  BY <1>1, <1>3, Induction
<1>5. \E f : IsRun(f, X, moves, n, x)
  BY <1>4 DEF S
<1> QED
  BY <1>5 DEF Run

\* Two runs agree for as long as their moves do.
LEMMA RunsAgree ==
    ASSUME NEW X, NEW x \in X, NEW f, NEW g, NEW moves, NEW others, NEW n \in Nat, NEW m \in Nat,
           IsRun(f, X, moves, n, x), IsRun(g, X, others, m, x),
           NEW k \in Nat, k <= n, k <= m, \A i \in 1..k : moves[i] = others[i]
    PROVE  f[k] = g[k]
<1> DEFINE S == {p \in Nat : p <= k => f[p] = g[p]}
<1>1. 0 \in S
  BY DEF IsRun
<1>2. ASSUME NEW p \in Nat, p \in S, p + 1 <= k
      PROVE  f[p + 1] = g[p + 1]
  <2>1. p + 1 \in 1..n /\ p + 1 \in 1..m /\ p + 1 \in 1..k /\ (p + 1) - 1 = p
    BY <1>2
  <2>2. f[p] = g[p]
    BY <1>2
  <2>3. f[p + 1] = moves[p + 1][f[p]] /\ g[p + 1] = others[p + 1][g[p]]
    BY <2>1 DEF IsRun
  <2> QED
    BY <2>1, <2>2, <2>3
<1>3. \A p \in Nat : p \in S => p + 1 \in S
  BY <1>2
<1> HIDE DEF S
<1>4. k \in S
  BY <1>1, <1>3, Induction
<1> QED
  BY <1>4 DEF S

LEMMA RunIsUnique ==
    ASSUME NEW X, NEW x \in X, NEW f, NEW g, NEW moves, NEW n \in Nat,
           IsRun(f, X, moves, n, x), IsRun(g, X, moves, n, x)
    PROVE  f[n] = g[n]
<1> DEFINE others == moves
           k == n
<1>1. k \in Nat /\ k <= n /\ \A i \in 1..k : moves[i] = others[i]
  OBVIOUS
<1>2. IsRun(g, X, others, n, x)
  OBVIOUS
<1> HIDE DEF others, k
<1>3. f[k] = g[k]
  BY <1>1, <1>2, RunsAgree
<1> QED
  BY <1>3 DEF k

\* A function that is defined by recursion is a run.
LEMMA RunByRecursion ==
    ASSUME NEW X, NEW x \in X, NEW moves, NEW n \in Nat, \A i \in 1..n : moves[i] \in [X -> X],
           NEW g, g = [i \in 0..n |-> g[i]], g[0] = x,
           \A i \in 1..n : g[i - 1] \in X => g[i] = moves[i][g[i - 1]]
    PROVE  IsRun(g, X, moves, n, x)
<1> DEFINE S == {i \in Nat : i <= n => g[i] \in X}
<1>1. 0 \in S
  OBVIOUS
<1>2. ASSUME NEW i \in Nat, i \in S
      PROVE  i + 1 \in S
  <2>1. ASSUME i + 1 <= n
        PROVE  g[i + 1] \in X
    <3>1. i + 1 \in 1..n /\ (i + 1) - 1 = i
      BY <2>1
    <3>2. g[i] \in X
      BY <1>2, <2>1
    <3>3. g[i + 1] = moves[i + 1][g[i]] /\ moves[i + 1] \in [X -> X]
      BY <3>1, <3>2
    <3> QED
      BY <3>2, <3>3
  <2> QED
    BY <2>1
<1> HIDE DEF S
<1>3. \A i \in Nat : i \in S
  BY <1>1, <1>2, Induction
<1>4. \A i \in 0..n : g[i] \in X
  BY <1>3 DEF S
<1>5. g \in [0..n -> X]
  BY <1>4
<1>6. \A i \in 1..n : i - 1 \in 0..n
  OBVIOUS
<1> QED
  BY <1>4, <1>5, <1>6 DEF IsRun

-----------------------------------------------------------------------------
(* Where a list of tokens leads, `move` being what each token does.        *)

MovesOf(move, tokens) == [i \in 1..Len(tokens) |-> move[tokens[i]]]
Final(X, move, tokens, x) == Run(X, MovesOf(move, tokens), Len(tokens), x)[Len(tokens)]

LEMMA TokensRun ==
    ASSUME NEW T, NEW X, NEW move \in [T -> [X -> X]], NEW tokens \in Seq(T), NEW x \in X
    PROVE  /\ IsRun(Run(X, MovesOf(move, tokens), Len(tokens), x), X, MovesOf(move, tokens), Len(tokens), x)
           /\ Final(X, move, tokens, x) \in X
<1>1. Len(tokens) \in Nat /\ \A i \in 1..Len(tokens) : tokens[i] \in T
  OBVIOUS
<1>2. \A i \in 1..Len(tokens) : MovesOf(move, tokens)[i] \in [X -> X]
  BY <1>1 DEF MovesOf
<1>3. IsRun(Run(X, MovesOf(move, tokens), Len(tokens), x), X, MovesOf(move, tokens), Len(tokens), x)
  BY <1>1, <1>2, RunExists
<1>4. Len(tokens) \in 0..Len(tokens)
  BY <1>1
<1> QED
  BY <1>3, <1>4 DEF IsRun, Final

LEMMA FinalEmpty ==
    ASSUME NEW T, NEW X, NEW move \in [T -> [X -> X]], NEW tokens \in Seq(T), Len(tokens) = 0, NEW x \in X
    PROVE  Final(X, move, tokens, x) = x
<1>1. IsRun(Run(X, MovesOf(move, tokens), 0, x), X, MovesOf(move, tokens), 0, x)
  BY TokensRun
<1> QED
  BY <1>1 DEF IsRun, Final

LEMMA FinalAppend ==
    ASSUME NEW T, NEW X, NEW move \in [T -> [X -> X]], NEW tokens \in Seq(T), NEW t \in T, NEW x \in X
    PROVE  Final(X, move, Append(tokens, t), x) = move[t][Final(X, move, tokens, x)]
<1> DEFINE n == Len(tokens)
           more == Append(tokens, t)
           f == Run(X, MovesOf(move, tokens), n, x)
           g == Run(X, MovesOf(move, more), n + 1, x)
<1>1. /\ n \in Nat /\ more \in Seq(T) /\ Len(more) = n + 1
      /\ \A i \in 1..n : more[i] = tokens[i] /\ more[n + 1] = t
  OBVIOUS
<1>2. more[n + 1] = t
  OBVIOUS
<1> HIDE DEF more
<1>3. IsRun(f, X, MovesOf(move, tokens), n, x) /\ IsRun(g, X, MovesOf(move, more), n + 1, x)
  BY <1>1, TokensRun
<1>4. \A i \in 1..n : MovesOf(move, tokens)[i] = MovesOf(move, more)[i]
  BY <1>1 DEF MovesOf
<1>5. f[n] = g[n]
  <2>1. n + 1 \in Nat /\ n <= n /\ n <= n + 1
    BY <1>1
  <2> HIDE DEF f, g, n
  <2> QED
    BY <1>1, <1>3, <1>4, <2>1, RunsAgree
<1>6. MovesOf(move, more)[n + 1] = move[t]
  BY <1>1, <1>2 DEF MovesOf
<1> HIDE DEF f, g
<1>7. g[n + 1] = move[t][g[n]]
  <2>1. n + 1 \in 1..(n + 1) /\ (n + 1) - 1 = n
    BY <1>1
  <2> QED
    BY <1>3, <1>6, <2>1 DEF IsRun
<1> QED
  BY <1>1, <1>5, <1>7 DEF Final, f, g, more

\* The last token is another one: both lead on from the same place.
BeforeLast(X, move, tokens, x) == Run(X, MovesOf(move, tokens), Len(tokens), x)[Len(tokens) - 1]

Replaced(T, X, move, tokens, t, x, y, more) ==
    /\ y \in X /\ Final(X, move, tokens, x) = move[tokens[Len(tokens)]][y]
    /\ more \in Seq(T) /\ Final(X, move, more, x) = move[t][y]

LEMMA FinalReplace ==
    ASSUME NEW T, NEW X, NEW move \in [T -> [X -> X]], NEW tokens \in Seq(T), tokens # <<>>,
           NEW t \in T, NEW x \in X
    PROVE  Replaced(T, X, move, tokens, t, x, BeforeLast(X, move, tokens, x),
                    [tokens EXCEPT ![Len(tokens)] = t])
<1> DEFINE n == Len(tokens)
           more == [tokens EXCEPT ![n] = t]
           f == Run(X, MovesOf(move, tokens), n, x)
           g == Run(X, MovesOf(move, more), n, x)
<1>1. n \in Nat /\ n # 0
  OBVIOUS
<1>2. /\ more \in Seq(T) /\ Len(more) = n /\ more[n] = t
      /\ \A i \in 1..(n - 1) : more[i] = tokens[i]
  BY <1>1
<1> HIDE DEF more
<1>3. IsRun(f, X, MovesOf(move, tokens), n, x) /\ IsRun(g, X, MovesOf(move, more), n, x)
  BY <1>2, TokensRun
<1>4. \A i \in 1..(n - 1) : MovesOf(move, tokens)[i] = MovesOf(move, more)[i]
  BY <1>1, <1>2 DEF MovesOf
<1>5. f[n - 1] = g[n - 1]
  <2>1. n - 1 \in Nat /\ n - 1 <= n
    BY <1>1
  <2> QED
    BY <1>1, <1>3, <1>4, <2>1, RunsAgree
<1>6. MovesOf(move, more)[n] = move[t] /\ MovesOf(move, tokens)[n] = move[tokens[n]]
  BY <1>1, <1>2 DEF MovesOf
<1> HIDE DEF f, g
<1>7. g[n] = move[t][g[n - 1]] /\ f[n] = move[tokens[n]][f[n - 1]] /\ f[n - 1] \in X
  <2>1. n \in 1..n /\ n - 1 \in 0..n
    BY <1>1
  <2> QED
    BY <1>3, <1>6, <2>1 DEF IsRun
<1>8. Final(X, move, tokens, x) = f[n] /\ Final(X, move, more, x) = g[n]
  BY <1>2 DEF Final, f, g
<1> QED
  BY <1>2, <1>5, <1>7, <1>8 DEF more, BeforeLast, f, Replaced

-----------------------------------------------------------------------------
(* Folding.                                                                *)

\* Adjacent wildcards may be folded: the one does what the two do.
Absorbs(T, X, move) ==
    \A s, t \in T : Absorbed(s.kind, t.kind) # "none" =>
      /\ Wild(Absorbed(s.kind, t.kind)) \in T
      /\ \A y \in X : move[Wild(Absorbed(s.kind, t.kind))][y] = move[t][move[s][y]]

Extended(T, X, move, tokens, t, x, more) ==
    more \in Seq(T) /\ Final(X, move, more, x) = move[t][Final(X, move, tokens, x)]

LEMMA AppendTokenLeads ==
    ASSUME NEW T, NEW X, NEW move \in [T -> [X -> X]], Absorbs(T, X, move),
           NEW tokens \in Seq(T), NEW t \in T, NEW x \in X
    PROVE  Extended(T, X, move, tokens, t, x, AppendToken(tokens, t))
<1>1. CASE tokens = <<>> \/ Absorbed(tokens[Len(tokens)].kind, t.kind) = "none"
  <2>1. AppendToken(tokens, t) = Append(tokens, t)
    BY <1>1 DEF AppendToken, Last
  <2> QED
    BY <2>1, FinalAppend DEF Extended
<1>2. CASE ~(tokens = <<>> \/ Absorbed(tokens[Len(tokens)].kind, t.kind) = "none")
  <2> DEFINE s == tokens[Len(tokens)]
             w == Wild(Absorbed(s.kind, t.kind))
  <2>1. AppendToken(tokens, t) = [tokens EXCEPT ![Len(tokens)] = w]
    BY <1>2 DEF AppendToken, Last
  <2>2. s \in T
    BY <1>2
  <2>3. w \in T /\ \A y \in X : move[w][y] = move[t][move[s][y]]
    BY <1>2, <2>2 DEF Absorbs
  <2> HIDE DEF w
  <2> DEFINE y == BeforeLast(X, move, tokens, x)
             more == [tokens EXCEPT ![Len(tokens)] = w]
  <2>4. /\ y \in X /\ Final(X, move, tokens, x) = move[s][y]
        /\ more \in Seq(T) /\ Final(X, move, more, x) = move[w][y]
    <3>1. Replaced(T, X, move, tokens, w, x, y, more)
      BY <1>2, <2>3, FinalReplace, Zenon
    <3> QED
      BY <3>1 DEF Replaced
  <2> HIDE DEF y, more, s
  <2>5. AppendToken(tokens, t) = more
    BY <2>1 DEF more
  <2> QED
    BY <2>3, <2>4, <2>5 DEF Extended
<1> QED
  BY <1>1, <1>2

\* Folded, as a run of AppendToken.
Appends(T, tokens) == [i \in 1..Len(tokens) |-> [s \in Seq(T) |-> AppendToken(s, tokens[i])]]

LEMMA FoldedIs ==
    ASSUME NEW T, NEW tokens \in Seq(T), \A s \in Seq(T), t \in T : AppendToken(s, t) \in Seq(T)
    PROVE  \E f : IsRun(f, Seq(T), Appends(T, tokens), Len(tokens), <<>>)
                    /\ Folded(tokens) = f[Len(tokens)]
<1> DEFINE n == Len(tokens)
           moves == Appends(T, tokens)
           F(g) == [i \in 0..n |-> IF i = 0 THEN <<>> ELSE AppendToken(g[i - 1], tokens[i])]
           upTo == CHOOSE g : g = F(g)
           r == Run(Seq(T), moves, n, <<>>)
<1>1. n \in Nat /\ <<>> \in Seq(T) /\ \A i \in 1..n : tokens[i] \in T
  OBVIOUS
<1>2. \A i \in 1..n : moves[i] \in [Seq(T) -> Seq(T)]
  BY <1>1 DEF Appends
<1>3. \A i \in 1..n, s \in Seq(T) : moves[i][s] = AppendToken(s, tokens[i])
  BY <1>1 DEF Appends
<1> HIDE DEF moves
<1>4. IsRun(r, Seq(T), moves, n, <<>>)
  BY <1>1, <1>2, RunExists
<1>5. r = F(r)
  <2>1. \A i \in 1..n : i - 1 \in 0..n
    BY <1>1
  <2>2. \A i \in 1..n : r[i] = AppendToken(r[i - 1], tokens[i])
    BY <1>3, <1>4, <2>1 DEF IsRun
  <2>3. r \in [0..n -> Seq(T)] /\ r[0] = <<>>
    BY <1>4 DEF IsRun
  <2>4. \A i \in 0..n : i # 0 => i \in 1..n
    BY <1>1
  <2> HIDE DEF r
  <2> QED
    BY <2>2, <2>3, <2>4
<1>6. upTo = F(upTo)
  BY <1>5
<1>7. Folded(tokens) = upTo[n]
  BY DEF Folded
<1> HIDE DEF upTo
<1>8. /\ DOMAIN upTo = 0..n /\ upTo[0] = <<>>
      /\ \A i \in 1..n : upTo[i] = AppendToken(upTo[i - 1], tokens[i])
  <2>1. 0 \in 0..n /\ \A i \in 1..n : i \in 0..n /\ i # 0
    BY <1>1
  <2>2. DOMAIN upTo = 0..n
    BY <1>6
  <2>3. \A i \in 0..n : upTo[i] = IF i = 0 THEN <<>> ELSE AppendToken(upTo[i - 1], tokens[i])
    BY <1>6
  <2> QED
    BY <2>1, <2>2, <2>3
<1>9. upTo = [i \in 0..n |-> upTo[i]]
  BY <1>6
<1> HIDE DEF F
<1>10. \A i \in 1..n : upTo[i - 1] \in Seq(T) => upTo[i] = moves[i][upTo[i - 1]]
  BY <1>3, <1>8
<1>11. IsRun(upTo, Seq(T), moves, n, <<>>)
  BY <1>1, <1>2, <1>8, <1>9, <1>10, RunByRecursion
<1> QED
  BY <1>7, <1>11 DEF moves

LEMMA FoldedLeads ==
    ASSUME NEW T, NEW X, NEW move \in [T -> [X -> X]], Absorbs(T, X, move),
           NEW tokens \in Seq(T), NEW x \in X
    PROVE  /\ Folded(tokens) \in Seq(T)
           /\ Final(X, move, Folded(tokens), x) = Final(X, move, tokens, x)
<1> DEFINE n == Len(tokens)
           g == Run(X, MovesOf(move, tokens), n, x)
<1>1. n \in Nat /\ \A i \in 1..n : tokens[i] \in T
  OBVIOUS
<1>2. \A s \in Seq(T), t \in T : AppendToken(s, t) \in Seq(T)
  BY AppendTokenLeads DEF Extended
<1>3. PICK f : IsRun(f, Seq(T), Appends(T, tokens), n, <<>>) /\ Folded(tokens) = f[n]
  BY <1>2, FoldedIs
<1>4. IsRun(g, X, MovesOf(move, tokens), n, x) /\ Final(X, move, tokens, x) = g[n]
  BY TokensRun DEF Final
<1> HIDE DEF g
<1> DEFINE S == {i \in Nat : i <= n => Final(X, move, f[i], x) = g[i]}
<1>5. 0 \in S
  <2>1. f[0] = <<>> /\ g[0] = x
    BY <1>3, <1>4 DEF IsRun
  <2>2. f[0] \in Seq(T) /\ Len(f[0]) = 0
    BY <2>1
  <2>3. Final(X, move, f[0], x) = x
    BY <2>2, FinalEmpty
  <2> QED
    BY <2>1, <2>3
<1>6. ASSUME NEW i \in Nat, i \in S, i + 1 <= n
      PROVE  Final(X, move, f[i + 1], x) = g[i + 1]
  <2>1. i + 1 \in 1..n /\ (i + 1) - 1 = i /\ i \in 0..n
    BY <1>1, <1>6
  <2>2. Final(X, move, f[i], x) = g[i]
    BY <1>1, <1>6
  <2>3. f[i] \in Seq(T) /\ f[i + 1] = AppendToken(f[i], tokens[i + 1])
    <3>1. f[i] \in Seq(T) /\ f[i + 1] = Appends(T, tokens)[i + 1][f[i]]
      BY <1>3, <2>1 DEF IsRun
    <3> QED
      BY <2>1, <3>1 DEF Appends
  <2>4. g[i + 1] = move[tokens[i + 1]][g[i]]
    <3>1. g[i + 1] = MovesOf(move, tokens)[i + 1][g[i]]
      BY <1>4, <2>1 DEF IsRun
    <3> QED
      BY <2>1, <3>1 DEF MovesOf
  <2>5. tokens[i + 1] \in T
    BY <1>1, <2>1
  <2>6. Final(X, move, AppendToken(f[i], tokens[i + 1]), x) = move[tokens[i + 1]][Final(X, move, f[i], x)]
    <3>1. Extended(T, X, move, f[i], tokens[i + 1], x, AppendToken(f[i], tokens[i + 1]))
      BY <2>3, <2>5, AppendTokenLeads, Zenon
    <3> QED
      BY <3>1 DEF Extended
  <2> QED
    BY <2>2, <2>3, <2>4, <2>6
<1>7. \A i \in Nat : i \in S => i + 1 \in S
  BY <1>6
<1> HIDE DEF S
<1>8. n \in S
  BY <1>1, <1>5, <1>7, Induction
<1>9. Final(X, move, f[n], x) = g[n]
  BY <1>1, <1>8 DEF S
<1>10. f[n] \in Seq(T)
  <2>1. n \in 0..n
    BY <1>1
  <2> QED
    BY <1>3, <2>1 DEF IsRun
<1> QED
  BY <1>3, <1>4, <1>9, <1>10

-----------------------------------------------------------------------------
(* Plain tokens.                                                           *)

Reaches(text) == SUBSET Offsets(text)
PlainMoves(C, text, ignoreCase) ==
    [t \in Plain(C) |-> [R \in Reaches(text) |-> Step(t, text, R, ignoreCase)]]

LEMMA PlainMovesAre ==
    ASSUME NEW C, NEW text, NEW ignoreCase
    PROVE  /\ PlainMoves(C, text, ignoreCase) \in [Plain(C) -> [Reaches(text) -> Reaches(text)]]
           /\ \A t \in Plain(C), R \in Reaches(text) :
                PlainMoves(C, text, ignoreCase)[t][R] = Step(t, text, R, ignoreCase)
<1>1. \A t \in Plain(C), R \in Reaches(text) : Step(t, text, R, ignoreCase) \in Reaches(text)
  BY DEF Step, Reaches, Offsets
<1> QED
  BY <1>1 DEF PlainMoves

LEMMA WildCovers ==
    ASSUME NEW C, NEW text \in Seq(C), NEW ignoreCase, NEW t, NEW j \in 0..Len(text), NEW k \in 0..Len(text)
    PROVE  /\ t.kind = "segment" =>
                (Covers(t, text, j, k, ignoreCase) <=> \A l \in (j + 1)..k : text[l] # "/")
           /\ t.kind = "any" => Covers(t, text, j, k, ignoreCase)
           /\ t.kind = "any_dir" => (Covers(t, text, j, k, ignoreCase) <=> k = j \/ text[k] = "/")
<1>1. t.kind = "segment" =>
        (Covers(t, text, j, k, ignoreCase) <=> "/" \notin ToSet(SubSeq(text, j + 1, k)))
  BY DEF Covers
<1>2. t.kind = "segment" =>
        (Covers(t, text, j, k, ignoreCase) <=> \A l \in (j + 1)..k : text[l] # "/")
  BY <1>1, SegmentCovers
<1>3. t.kind = "any" => Covers(t, text, j, k, ignoreCase)
  BY DEF Covers
<1>4. t.kind = "any_dir" => (Covers(t, text, j, k, ignoreCase) <=> k = j \/ text[k] = "/")
  BY DEF Covers
<1> QED
  BY <1>2, <1>3, <1>4

LEMMA AbsorbedIs ==
    ASSUME NEW a, NEW b, Absorbed(a, b) # "none"
    PROVE  \/ a = "segment" /\ b = "segment" /\ Absorbed(a, b) = "segment"
           \/ a = "any_dir" /\ b = "any_dir" /\ Absorbed(a, b) = "any_dir"
           \/ /\ Absorbed(a, b) = "any"
              /\ a = "any" \/ b = "any"
              /\ a \in {"segment", "any", "any_dir"} /\ b \in {"segment", "any", "any_dir"}
BY DEF Absorbed

\* The offsets after two wildcards are those after the one they are folded into.
LEMMA WildcardsFold ==
    ASSUME NEW C, NEW text \in Seq(C), NEW ignoreCase, NEW s, NEW t, NEW w,
           Absorbed(s.kind, t.kind) # "none", w.kind = Absorbed(s.kind, t.kind),
           NEW R \in Reaches(text)
    PROVE  Step(w, text, R, ignoreCase) = Step(t, text, Step(s, text, R, ignoreCase), ignoreCase)
<1> DEFINE O == 0..Len(text)
           Cov(u, j, k) == Covers(u, text, j, k, ignoreCase)
<1>1. /\ \A k \in O : k \in Step(w, text, R, ignoreCase) <=> \E j \in R : j <= k /\ Cov(w, j, k)
      /\ \A k \in O : k \in Step(t, text, Step(s, text, R, ignoreCase), ignoreCase) <=>
           \E m \in O : /\ m <= k /\ Cov(t, m, k)
                        /\ \E j \in R : j <= m /\ Cov(s, j, m)
  BY DEF Step
<1>2. /\ Step(w, text, R, ignoreCase) \subseteq O
      /\ Step(t, text, Step(s, text, R, ignoreCase), ignoreCase) \subseteq O
  BY DEF Step
<1>3. Len(text) \in Nat /\ R \subseteq O /\ R \subseteq Nat
  BY DEF Reaches, Offsets
<1>4. ASSUME NEW j \in R, NEW k \in O, j <= k, Cov(w, j, k)
      PROVE  \E m \in O : j <= m /\ m <= k /\ Cov(s, j, m) /\ Cov(t, m, k)
  <2>0. j \in O /\ j \in Nat /\ k \in Nat /\ j <= j /\ k <= k
    BY <1>3
  <2>1. CASE s.kind = "segment" /\ t.kind = "segment" /\ w.kind = "segment"
    <3>1. Cov(s, j, j)
      <4>1. (j + 1)..j = {}
        BY <2>0
      <4> QED
        BY <2>0, <2>1, <4>1, WildCovers
    <3>2. Cov(t, j, k)
      BY <1>4, <2>0, <2>1, WildCovers
    <3> QED
      BY <1>4, <2>0, <3>1, <3>2
  <2>2. CASE s.kind = "any_dir" /\ t.kind = "any_dir" /\ w.kind = "any_dir"
    <3>1. Cov(s, j, j) /\ Cov(t, j, k)
      BY <1>4, <2>0, <2>2, WildCovers
    <3> QED
      BY <1>4, <2>0, <3>1
  <2>3. ASSUME NEW u, NEW i \in O, u.kind \in {"segment", "any", "any_dir"}
        PROVE  Cov(u, i, i)
    <3>1. (i + 1)..i = {}
      BY <1>3
    <3> QED
      BY <2>3, <3>1, WildCovers
  <2>4. CASE s.kind = "any" /\ t.kind \in {"segment", "any", "any_dir"}
    <3>1. Cov(s, j, k) /\ Cov(t, k, k)
      BY <2>0, <2>3, <2>4, WildCovers
    <3> QED
      BY <1>4, <2>0, <3>1
  <2>5. CASE t.kind = "any" /\ s.kind \in {"segment", "any", "any_dir"}
    <3>1. Cov(s, j, j) /\ Cov(t, j, k)
      BY <2>0, <2>3, <2>5, WildCovers
    <3> QED
      BY <1>4, <2>0, <3>1
  <2> QED
    BY <2>1, <2>2, <2>4, <2>5, AbsorbedIs
<1>5. ASSUME NEW j \in R, NEW m \in O, NEW k \in O, j <= m, m <= k, Cov(s, j, m), Cov(t, m, k)
      PROVE  j <= k /\ Cov(w, j, k)
  <2>0. j \in O /\ j \in Nat /\ m \in Nat /\ k \in Nat /\ j <= k
    BY <1>3, <1>5
  <2>1. CASE s.kind = "segment" /\ t.kind = "segment" /\ w.kind = "segment"
    <3>1. \A l \in (j + 1)..k : l \in (j + 1)..m \/ l \in (m + 1)..k
      BY <2>0
    <3>2. \A l \in (j + 1)..k : text[l] # "/"
      BY <1>5, <2>0, <2>1, <3>1, WildCovers
    <3> QED
      BY <2>0, <2>1, <3>2, WildCovers
  <2>2. CASE s.kind = "any_dir" /\ t.kind = "any_dir" /\ w.kind = "any_dir"
    <3>1. (m = j \/ text[m] = "/") /\ (k = m \/ text[k] = "/")
      BY <1>5, <2>0, <2>2, WildCovers
    <3> QED
      BY <2>0, <2>2, <3>1, WildCovers
  <2>3. CASE w.kind = "any"
    BY <2>0, <2>3, WildCovers
  <2> QED
    BY <2>1, <2>2, <2>3, AbsorbedIs
<1>6. \A k \in O : k \in Step(w, text, R, ignoreCase) <=>
                   k \in Step(t, text, Step(s, text, R, ignoreCase), ignoreCase)
  <2> HIDE DEF O, Cov
  <2> QED
    BY <1>1, <1>4, <1>5
<1> QED
  BY <1>2, <1>6

LEMMA PlainMovesAbsorb ==
    ASSUME NEW C, NEW text \in Seq(C), NEW ignoreCase
    PROVE  Absorbs(Plain(C), Reaches(text), PlainMoves(C, text, ignoreCase))
<1> DEFINE move == PlainMoves(C, text, ignoreCase)
<1>1. \A t \in Plain(C), R \in Reaches(text) :
        move[t][R] \in Reaches(text) /\ move[t][R] = Step(t, text, R, ignoreCase)
  BY PlainMovesAre
<1> HIDE DEF move
<1> SUFFICES ASSUME NEW s \in Plain(C), NEW t \in Plain(C), Absorbed(s.kind, t.kind) # "none"
             PROVE  /\ Wild(Absorbed(s.kind, t.kind)) \in Plain(C)
                    /\ \A R \in Reaches(text) : move[Wild(Absorbed(s.kind, t.kind))][R] = move[t][move[s][R]]
  BY DEF Absorbs, move
<1> DEFINE w == Wild(Absorbed(s.kind, t.kind))
<1>2. w.kind = Absorbed(s.kind, t.kind)
  BY DEF Wild
<1>3. w \in Plain(C)
  <2>1. Absorbed(s.kind, t.kind) \in {"segment", "any", "any_dir"}
    BY AbsorbedIs
  <2> QED
    BY <2>1 DEF Wild, Plain
<1> HIDE DEF w
<1>4. ASSUME NEW R \in Reaches(text)
      PROVE  move[w][R] = move[t][move[s][R]]
  <2>1. Step(w, text, R, ignoreCase) = Step(t, text, Step(s, text, R, ignoreCase), ignoreCase)
    BY <1>2, WildcardsFold
  <2> QED
    BY <1>1, <1>3, <2>1
<1> QED
  BY <1>3, <1>4 DEF w

\* The loop over the tokens of a branch is a run of their steps.
LEMMA BranchLeads ==
    ASSUME NEW C, NEW text \in Seq(C), NEW ignoreCase \in BOOLEAN, NEW tokens \in Seq(Plain(C)),
           NEW R \in Reaches(text)
    PROVE  AdvanceBranch(tokens, text, R, ignoreCase) =
             Final(Reaches(text), PlainMoves(C, text, ignoreCase), tokens, R)
<1> DEFINE n == Len(tokens)
           X == Reaches(text)
           move == PlainMoves(C, text, ignoreCase)
           moves == MovesOf(move, tokens)
           F(g) == [i \in 0..n |-> IF i = 0 THEN R ELSE AdvancePlain(tokens[i], text, g[i - 1], ignoreCase)]
           after == CHOOSE g : g = F(g)
           r == Run(X, moves, n, R)
<1>1. n \in Nat /\ \A i \in 1..n : tokens[i] \in Plain(C)
  OBVIOUS
<1>2. move \in [Plain(C) -> [X -> X]]
  BY PlainMovesAre
<1>3. \A i \in 1..n : moves[i] \in [X -> X]
  BY <1>1, <1>2 DEF MovesOf
<1>4. ASSUME NEW i \in 1..n, NEW Y \in X
      PROVE  moves[i][Y] = AdvancePlain(tokens[i], text, Y, ignoreCase)
  <2>1. tokens[i] \in Plain(C)
    BY <1>1
  <2>2. AdvancePlain(tokens[i], text, Y, ignoreCase) = Step(tokens[i], text, Y, ignoreCase)
    BY <2>1, AdvanceIsAStep DEF Reaches
  <2>3. move[tokens[i]][Y] = Step(tokens[i], text, Y, ignoreCase)
    BY <2>1, PlainMovesAre
  <2>4. moves[i] = move[tokens[i]]
    BY DEF MovesOf
  <2> QED
    BY <2>2, <2>3, <2>4
<1> HIDE DEF X, move, moves
<1>5. R \in X
  BY DEF X
<1>6. IsRun(r, X, moves, n, R)
  BY <1>1, <1>3, <1>5, RunExists
<1>7. r = F(r)
  <2>1. \A i \in 1..n : i - 1 \in 0..n
    BY <1>1
  <2>2. \A i \in 1..n : r[i] = AdvancePlain(tokens[i], text, r[i - 1], ignoreCase)
    BY <1>4, <1>6, <2>1 DEF IsRun
  <2>3. r \in [0..n -> X] /\ r[0] = R
    BY <1>6 DEF IsRun
  <2>4. \A i \in 0..n : i # 0 => i \in 1..n
    BY <1>1
  <2> HIDE DEF r
  <2> QED
    BY <2>2, <2>3, <2>4
<1>8. after = F(after)
  BY <1>7
<1>9. AdvanceBranch(tokens, text, R, ignoreCase) = after[n]
  BY DEF AdvanceBranch
<1> HIDE DEF after
<1>10. after = [i \in 0..n |-> after[i]]
  BY <1>8
<1>11. after[0] = R /\ \A i \in 1..n : after[i - 1] \in X => after[i] = moves[i][after[i - 1]]
  <2>1. 0 \in 0..n /\ \A i \in 1..n : i \in 0..n /\ i # 0
    BY <1>1
  <2>2. \A i \in 0..n : after[i] = IF i = 0 THEN R ELSE AdvancePlain(tokens[i], text, after[i - 1], ignoreCase)
    BY <1>8
  <2> HIDE DEF F
  <2> QED
    BY <1>4, <2>1, <2>2
<1> HIDE DEF F
<1>12. IsRun(after, X, moves, n, R)
  BY <1>1, <1>3, <1>5, <1>10, <1>11, RunByRecursion
<1>13. after[n] = r[n]
  <2> HIDE DEF r, n
  <2> QED
    BY <1>1, <1>5, <1>6, <1>12, RunIsUnique
<1> QED
  BY <1>9, <1>13 DEF r, moves, X, move, Final

-----------------------------------------------------------------------------
(* Tokens with choices: a choice leads wherever a branch of it leads.      *)

Tokens(C) ==
    Plain(C) \union [kind : {"choice"}, char : {""}, branches : Seq(Seq(Plain(C)))]

FullStep(C, t, text, R, ignoreCase) ==
    IF t.kind # "choice" THEN Step(t, text, R, ignoreCase)
    ELSE UNION {Final(Reaches(text), PlainMoves(C, text, ignoreCase), b, R) : b \in ToSet(t.branches)}

FullMoves(C, text, ignoreCase) ==
    [t \in Tokens(C) |-> [R \in Reaches(text) |-> FullStep(C, t, text, R, ignoreCase)]]

LEMMA TokenIs ==
    ASSUME NEW C, NEW t \in Tokens(C)
    PROVE  /\ t.kind # "choice" => t \in Plain(C)
           /\ t \in Plain(C) => t.kind # "choice"
           /\ t.kind = "choice" => t.branches \in Seq(Seq(Plain(C))) /\ ToSet(t.branches) \subseteq Seq(Plain(C))
<1>1. t \in Plain(C) => t.kind # "choice"
  BY DEF Plain
<1>2. t \notin Plain(C) => t.kind = "choice" /\ t.branches \in Seq(Seq(Plain(C)))
  BY DEF Tokens
<1>3. t.branches \in Seq(Seq(Plain(C))) => ToSet(t.branches) \subseteq Seq(Plain(C))
  BY DEF ToSet
<1> QED
  BY <1>1, <1>2, <1>3

LEMMA FullMovesAre ==
    ASSUME NEW C, NEW text \in Seq(C), NEW ignoreCase \in BOOLEAN
    PROVE  /\ FullMoves(C, text, ignoreCase) \in [Tokens(C) -> [Reaches(text) -> Reaches(text)]]
           /\ \A t \in Tokens(C), R \in Reaches(text) :
                FullMoves(C, text, ignoreCase)[t][R] = FullStep(C, t, text, R, ignoreCase)
<1>1. ASSUME NEW t \in Tokens(C), NEW R \in Reaches(text)
      PROVE  FullStep(C, t, text, R, ignoreCase) \in Reaches(text)
  <2>1. CASE t.kind # "choice"
    BY <2>1 DEF FullStep, Step, Reaches, Offsets
  <2>2. CASE t.kind = "choice"
    <3> DEFINE lead(b) == Final(Reaches(text), PlainMoves(C, text, ignoreCase), b, R)
    <3>1. ASSUME NEW b \in ToSet(t.branches)
          PROVE  lead(b) \in Reaches(text)
      <4>1. b \in Seq(Plain(C))
        BY <2>2, TokenIs
      <4> QED
        BY <4>1, PlainMovesAre, TokensRun
    <3>2. FullStep(C, t, text, R, ignoreCase) = UNION {lead(b) : b \in ToSet(t.branches)}
      BY <2>2 DEF FullStep
    <3> HIDE DEF lead
    <3> QED
      BY <3>1, <3>2 DEF Reaches
  <2> QED
    BY <2>1, <2>2
<1> QED
  BY <1>1 DEF FullMoves

LEMMA FullMovesAbsorb ==
    ASSUME NEW C, NEW text \in Seq(C), NEW ignoreCase \in BOOLEAN
    PROVE  Absorbs(Tokens(C), Reaches(text), FullMoves(C, text, ignoreCase))
<1> DEFINE move == FullMoves(C, text, ignoreCase)
<1>1. \A t \in Tokens(C), R \in Reaches(text) :
        move[t][R] \in Reaches(text) /\ move[t][R] = FullStep(C, t, text, R, ignoreCase)
  BY FullMovesAre
<1> HIDE DEF move
<1> SUFFICES ASSUME NEW s \in Tokens(C), NEW t \in Tokens(C), Absorbed(s.kind, t.kind) # "none"
             PROVE  /\ Wild(Absorbed(s.kind, t.kind)) \in Tokens(C)
                    /\ \A R \in Reaches(text) : move[Wild(Absorbed(s.kind, t.kind))][R] = move[t][move[s][R]]
  BY DEF Absorbs, move
<1> DEFINE w == Wild(Absorbed(s.kind, t.kind))
<1>2. w.kind = Absorbed(s.kind, t.kind)
  BY DEF Wild
<1>3. Absorbed(s.kind, t.kind) \in {"segment", "any", "any_dir"}
  BY AbsorbedIs
<1>4. s.kind # "choice" /\ t.kind # "choice" /\ w.kind # "choice"
  BY <1>2, <1>3, AbsorbedIs
<1>5. w \in Tokens(C)
  BY <1>3 DEF Wild, Plain, Tokens
<1> HIDE DEF w
<1>6. ASSUME NEW R \in Reaches(text)
      PROVE  move[w][R] = move[t][move[s][R]]
  <2>1. Step(w, text, R, ignoreCase) = Step(t, text, Step(s, text, R, ignoreCase), ignoreCase)
    BY <1>2, WildcardsFold
  <2> QED
    <3>1. \A Y : /\ FullStep(C, s, text, Y, ignoreCase) = Step(s, text, Y, ignoreCase)
                 /\ FullStep(C, t, text, Y, ignoreCase) = Step(t, text, Y, ignoreCase)
                 /\ FullStep(C, w, text, Y, ignoreCase) = Step(w, text, Y, ignoreCase)
      BY <1>4 DEF FullStep
    <3> QED
      BY <1>1, <1>5, <2>1, <3>1
<1> QED
  BY <1>5, <1>6 DEF w

\* What the code does with a token, its branches folded, is its full step.
CodeStep(t, text, R, ignoreCase) ==
    IF t.kind # "choice" THEN AdvancePlain(t, text, R, ignoreCase)
    ELSE UNION {AdvanceBranch(Folded(b), text, R, ignoreCase) : b \in ToSet(t.branches)}

LEMMA CodeStepIsAStep ==
    ASSUME NEW C, NEW text \in Seq(C), NEW ignoreCase \in BOOLEAN, NEW t \in Tokens(C), NEW R \in Reaches(text)
    PROVE  CodeStep(t, text, R, ignoreCase) = FullStep(C, t, text, R, ignoreCase)
<1>1. CASE t.kind # "choice"
  <2>1. t \in Plain(C)
    BY <1>1, TokenIs
  <2> QED
    BY <1>1, <2>1, AdvanceIsAStep DEF FullStep, CodeStep, Reaches
<1>2. CASE t.kind = "choice"
  <2>1. ASSUME NEW b \in ToSet(t.branches)
        PROVE  AdvanceBranch(Folded(b), text, R, ignoreCase) =
                 Final(Reaches(text), PlainMoves(C, text, ignoreCase), b, R)
    <3>1. b \in Seq(Plain(C))
      BY <1>2, TokenIs
    <3>2. /\ Folded(b) \in Seq(Plain(C))
          /\ Final(Reaches(text), PlainMoves(C, text, ignoreCase), Folded(b), R) =
               Final(Reaches(text), PlainMoves(C, text, ignoreCase), b, R)
      BY <3>1, PlainMovesAre, PlainMovesAbsorb, FoldedLeads
    <3> QED
      BY <3>2, BranchLeads
  <2> QED
    BY <1>2, <2>1 DEF FullStep, CodeStep
<1> QED
  BY <1>1, <1>2

LEMMA AdvanceLeads ==
    ASSUME NEW C, NEW text \in Seq(C), NEW ignoreCase \in BOOLEAN, NEW tokens \in Seq(Tokens(C)),
           NEW R \in Reaches(text)
    PROVE  Advance(tokens, text, R, ignoreCase) =
             Final(Reaches(text), FullMoves(C, text, ignoreCase), tokens, R)
<1> DEFINE n == Len(tokens)
           X == Reaches(text)
           move == FullMoves(C, text, ignoreCase)
           moves == MovesOf(move, tokens)
           over(t, Y) == CodeStep(t, text, Y, ignoreCase)
           F(g) == [i \in 0..n |-> IF i = 0 THEN R ELSE over(tokens[i], g[i - 1])]
           after == CHOOSE g : g = F(g)
           r == Run(X, moves, n, R)
<1>0. Advance(tokens, text, R, ignoreCase) = after[n]
  BY DEF Advance, CodeStep
<1>1. n \in Nat /\ \A i \in 1..n : tokens[i] \in Tokens(C)
  OBVIOUS
<1>2. move \in [Tokens(C) -> [X -> X]]
  BY FullMovesAre
<1>3. \A i \in 1..n : moves[i] \in [X -> X]
  BY <1>1, <1>2 DEF MovesOf
<1>4. ASSUME NEW i \in 1..n, NEW Y \in X
      PROVE  moves[i][Y] = over(tokens[i], Y)
  <2>1. tokens[i] \in Tokens(C)
    BY <1>1
  <2>2. over(tokens[i], Y) = FullStep(C, tokens[i], text, Y, ignoreCase)
    BY <2>1, CodeStepIsAStep
  <2>3. move[tokens[i]][Y] = FullStep(C, tokens[i], text, Y, ignoreCase)
    BY <2>1, FullMovesAre
  <2>4. moves[i] = move[tokens[i]]
    BY DEF MovesOf
  <2> QED
    BY <2>2, <2>3, <2>4
<1> HIDE DEF X, move, moves, over
<1>5. R \in X
  BY DEF X
<1>6. IsRun(r, X, moves, n, R)
  BY <1>1, <1>3, <1>5, RunExists
<1>7. r = F(r)
  <2>1. \A i \in 1..n : i - 1 \in 0..n
    BY <1>1
  <2>2. \A i \in 1..n : r[i] = over(tokens[i], r[i - 1])
    BY <1>4, <1>6, <2>1 DEF IsRun
  <2>3. r \in [0..n -> X] /\ r[0] = R
    BY <1>6 DEF IsRun
  <2>4. \A i \in 0..n : i # 0 => i \in 1..n
    BY <1>1
  <2> HIDE DEF r
  <2> QED
    BY <2>2, <2>3, <2>4
<1>8. after = F(after)
  BY <1>7
<1> HIDE DEF after
<1>10. after = [i \in 0..n |-> after[i]]
  BY <1>8
<1>11. after[0] = R /\ \A i \in 1..n : after[i - 1] \in X => after[i] = moves[i][after[i - 1]]
  <2>1. 0 \in 0..n /\ \A i \in 1..n : i \in 0..n /\ i # 0
    BY <1>1
  <2>2. \A i \in 0..n : after[i] = IF i = 0 THEN R ELSE over(tokens[i], after[i - 1])
    BY <1>8
  <2> HIDE DEF F
  <2> QED
    BY <1>4, <2>1, <2>2
<1> HIDE DEF F
<1>12. IsRun(after, X, moves, n, R)
  BY <1>1, <1>3, <1>5, <1>10, <1>11, RunByRecursion
<1>13. after[n] = r[n]
  <2> HIDE DEF r, n
  <2> QED
    BY <1>1, <1>5, <1>6, <1>12, RunIsUnique
<1> QED
  BY <1>0, <1>13 DEF r, moves, X, move, Final

-----------------------------------------------------------------------------
(* What a pattern spells.                                                  *)

\* A run of plain tokens, step by step.
LEMMA PlainRun ==
    ASSUME NEW C, NEW text \in Seq(C), NEW ignoreCase, NEW tokens \in Seq(Plain(C)), NEW R \in Reaches(text)
    PROVE  \E f \in [0..Len(tokens) -> Reaches(text)] :
             /\ f[0] = R
             /\ \A i \in 1..Len(tokens) : f[i] = Step(tokens[i], text, f[i - 1], ignoreCase)
             /\ Final(Reaches(text), PlainMoves(C, text, ignoreCase), tokens, R) = f[Len(tokens)]
<1> DEFINE X == Reaches(text)
           n == Len(tokens)
           move == PlainMoves(C, text, ignoreCase)
           f == Run(X, MovesOf(move, tokens), n, R)
<1>1. n \in Nat /\ \A i \in 1..n : tokens[i] \in Plain(C)
  OBVIOUS
<1>2. move \in [Plain(C) -> [X -> X]] /\ \A t \in Plain(C), Y \in X : move[t][Y] = Step(t, text, Y, ignoreCase)
  BY PlainMovesAre
<1> HIDE DEF X, move
<1>3. IsRun(f, X, MovesOf(move, tokens), n, R)
  BY <1>2, TokensRun DEF X
<1>4. \A i \in 1..n : MovesOf(move, tokens)[i] = move[tokens[i]] /\ i - 1 \in 0..n
  BY <1>1 DEF MovesOf
<1>5. Final(X, move, tokens, R) = f[n]
  BY DEF Final
<1> HIDE DEF f
<1>6. \A i \in 1..n : f[i] = Step(tokens[i], text, f[i - 1], ignoreCase)
  BY <1>1, <1>2, <1>3, <1>4, SMTT(30) DEF IsRun
<1>7. f \in [0..n -> X] /\ f[0] = R
  BY <1>3 DEF IsRun
<1> QED
  BY <1>5, <1>6, <1>7 DEF X, move

\* Read from the end, the reference definition says the same as the run.
LEMMA SpelledIs ==
    ASSUME NEW C, NEW text \in Seq(C), NEW ignoreCase, NEW tokens \in Seq(Plain(C))
    PROVE  Spelled(tokens, text, ignoreCase) <=>
             Len(text) \in Final(Reaches(text), PlainMoves(C, text, ignoreCase), tokens, {0})
<1> DEFINE n == Len(tokens)
           O == 0..Len(text)
           X == SUBSET O
           Back(t, Y) == {j \in O : \E k \in Y : j <= k /\ Covers(t, text, j, k, ignoreCase)}
           F(g) == [i \in 1..(n + 1) |-> IF i > n THEN {Len(text)} ELSE Back(tokens[i], g[i + 1])]
           spells == CHOOSE g : g = F(g)
           moves == [m \in 1..n |-> [Y \in X |-> Back(tokens[n + 1 - m], Y)]]
           r == Run(X, moves, n, {Len(text)})
           b == [i \in 1..(n + 1) |-> r[n + 1 - i]]
<1>0. Spelled(tokens, text, ignoreCase) <=> 0 \in spells[1]
  BY DEF Spelled
<1>1. n \in Nat /\ Len(text) \in Nat /\ {Len(text)} \in X /\ {0} \in X
  OBVIOUS
<1>2. \A m \in 1..n : moves[m] \in [X -> X] /\ \A Y \in X : moves[m][Y] = Back(tokens[n + 1 - m], Y)
  OBVIOUS
<1> HIDE DEF Back, moves, X
<1>3. IsRun(r, X, moves, n, {Len(text)})
  BY <1>1, <1>2, RunExists
<1> HIDE DEF r
<1>4. b = F(b)
  <2>1. \A i \in 1..(n + 1) : b[i] = r[n + 1 - i]
    OBVIOUS
  <2>2. b[n + 1] = {Len(text)}
    <3>1. n + 1 \in 1..(n + 1) /\ (n + 1) - (n + 1) = 0
      BY <1>1
    <3> QED
      BY <1>3, <3>1 DEF IsRun
  <2>3. ASSUME NEW i \in 1..n
        PROVE  b[i] = Back(tokens[i], b[i + 1])
    <3>1. /\ i \in 1..(n + 1) /\ i + 1 \in 1..(n + 1) /\ n + 1 - i \in 1..n /\ n + 1 - (n + 1 - i) = i
          /\ (n + 1 - i) - 1 = n + 1 - (i + 1) /\ n + 1 - (i + 1) \in 0..n
      BY <1>1
    <3>2. b[i + 1] = r[n + 1 - (i + 1)] /\ b[i] = r[n + 1 - i] /\ r[n + 1 - (i + 1)] \in X
      BY <1>3, <3>1 DEF IsRun
    <3>3. r[n + 1 - i] = moves[n + 1 - i][r[n + 1 - (i + 1)]]
      BY <1>3, <3>1 DEF IsRun
    <3> HIDE DEF b
    <3> QED
      BY <1>2, <3>1, <3>2, <3>3
  <2>4. b = [i \in 1..(n + 1) |-> b[i]]
    OBVIOUS
  <2>5. \A i \in 1..(n + 1) : (i > n => i = n + 1) /\ (~(i > n) => i \in 1..n)
    BY <1>1
  <2> HIDE DEF b
  <2>6. \A i \in 1..(n + 1) : b[i] = IF i > n THEN {Len(text)} ELSE Back(tokens[i], b[i + 1])
    BY <2>2, <2>3, <2>5
  <2> QED
    BY <2>4, <2>6
<1>5. spells = F(spells)
  <2> HIDE DEF b, F
  <2> QED
    BY <1>4
<1> HIDE DEF spells, b
<1>6. /\ spells[n + 1] = {Len(text)}
      /\ \A i \in 1..n : spells[i] = Back(tokens[i], spells[i + 1])
  <2>1. n + 1 \in 1..(n + 1) /\ n + 1 > n /\ \A i \in 1..n : i \in 1..(n + 1) /\ ~(i > n)
    BY <1>1
  <2>2. \A i \in 1..(n + 1) : spells[i] = IF i > n THEN {Len(text)} ELSE Back(tokens[i], spells[i + 1])
    BY <1>5
  <2> HIDE DEF F
  <2> QED
    BY <2>1, <2>2
<1> HIDE DEF F
<1>7. \A i \in 1..(n + 1) : spells[i] \subseteq O
  <2>1. \A i \in 1..(n + 1) : i = n + 1 \/ i \in 1..n
    BY <1>1
  <2> QED
    BY <1>1, <1>6, <2>1 DEF Back
<1>8. PICK f \in [0..n -> Reaches(text)] :
         /\ f[0] = {0}
         /\ \A i \in 1..n : f[i] = Step(tokens[i], text, f[i - 1], ignoreCase)
         /\ Final(Reaches(text), PlainMoves(C, text, ignoreCase), tokens, {0}) = f[n]
  <2>1. {0} \in Reaches(text)
    BY <1>1 DEF Reaches, Offsets
  <2> QED
    BY <2>1, PlainRun, SMTT(30)
<1> DEFINE S == {i \in Nat : i <= n => (0 \in spells[1] <=> \E j \in f[i] : j \in spells[i + 1])}
<1>9. 0 \in S
  BY <1>8
<1>10. ASSUME NEW i \in Nat, i \in S, i + 1 <= n
       PROVE  0 \in spells[1] <=> \E j \in f[i + 1] : j \in spells[i + 2]
  <2>1. /\ i + 1 \in 1..n /\ (i + 1) - 1 = i /\ i \in 0..n /\ i + 2 \in 1..(n + 1) /\ (i + 1) + 1 = i + 2
        /\ i <= n
    BY <1>1, <1>10
  <2>2. 0 \in spells[1] <=> \E j \in f[i] : j \in spells[i + 1]
    BY <1>10, <2>1
  <2> HIDE DEF S
  <2>3. f[i + 1] = Step(tokens[i + 1], text, f[i], ignoreCase) /\ f[i] \subseteq O
    BY <1>8, <2>1 DEF Reaches, Offsets
  <2>4. spells[i + 1] = Back(tokens[i + 1], spells[i + 2]) /\ spells[i + 2] \subseteq O
    BY <1>6, <1>7, <2>1
  <2>5. (\E j \in f[i] : j \in Back(tokens[i + 1], spells[i + 2])) <=>
          \E k \in Step(tokens[i + 1], text, f[i], ignoreCase) : k \in spells[i + 2]
    BY <2>3, <2>4 DEF Back, Step
  <2> QED
    BY <2>2, <2>3, <2>4, <2>5
<1>11. ASSUME NEW i \in Nat, i \in S
       PROVE  i + 1 \in S
  <2>1. i + 1 \in Nat /\ (i + 1) + 1 = i + 2
    OBVIOUS
  <2>2. i + 1 <= n => (0 \in spells[1] <=> \E j \in f[i + 1] : j \in spells[i + 2])
    BY <1>10, <1>11
  <2> QED
    BY <2>1, <2>2
<1> HIDE DEF S
<1>12. n \in S
  BY <1>1, <1>9, <1>11, Induction
<1>13. 0 \in spells[1] <=> \E j \in f[n] : j \in spells[n + 1]
  BY <1>1, <1>12 DEF S
<1> QED
  BY <1>0, <1>6, <1>8, <1>13

\* For any list of plain tokens: the simulation, wildcards folded, reaches the
\* end exactly if the tokens spell the text.
LEMMA PlainTokensMatch ==
    ASSUME NEW C, NEW text \in Seq(C), NEW ignoreCase \in BOOLEAN, NEW tokens \in Seq(Plain(C))
    PROVE  Len(text) \in AdvanceBranch(Folded(tokens), text, {0}, ignoreCase) <=>
             Spelled(tokens, text, ignoreCase)
<1>1. {0} \in Reaches(text)
  BY DEF Reaches, Offsets
<1>2. /\ Folded(tokens) \in Seq(Plain(C))
      /\ Final(Reaches(text), PlainMoves(C, text, ignoreCase), Folded(tokens), {0}) =
           Final(Reaches(text), PlainMoves(C, text, ignoreCase), tokens, {0})
  BY <1>1, PlainMovesAre, PlainMovesAbsorb, FoldedLeads
<1> QED
  BY <1>1, <1>2, BranchLeads, SpelledIs

LEMMA PlainRunSteps ==
    ASSUME NEW C, NEW text \in Seq(C), NEW ignoreCase, NEW tokens \in Seq(Plain(C)), NEW R, NEW f,
           IsRun(f, Reaches(text), MovesOf(PlainMoves(C, text, ignoreCase), tokens), Len(tokens), R)
    PROVE  /\ f[0] = R
           /\ \A i \in 1..Len(tokens) : f[i] = Step(tokens[i], text, f[i - 1], ignoreCase)
<1>1. Len(tokens) \in Nat /\ \A i \in 1..Len(tokens) : tokens[i] \in Plain(C) /\ i - 1 \in 0..Len(tokens)
  OBVIOUS
<1>2. \A i \in 1..Len(tokens) :
        MovesOf(PlainMoves(C, text, ignoreCase), tokens)[i] = PlainMoves(C, text, ignoreCase)[tokens[i]]
  BY <1>1 DEF MovesOf
<1>3. \A i \in 1..Len(tokens) :
        f[i - 1] \in Reaches(text) /\ f[i] = PlainMoves(C, text, ignoreCase)[tokens[i]][f[i - 1]]
  BY <1>1, <1>2 DEF IsRun
<1>4. f[0] = R
  BY DEF IsRun
<1> QED
  BY <1>1, <1>3, <1>4, PlainMovesAre

\* Where a set of offsets leads, its parts lead.
LEMMA FinalPointwise ==
    ASSUME NEW C, NEW text \in Seq(C), NEW ignoreCase, NEW tokens \in Seq(Plain(C)),
           NEW Z \in SUBSET Reaches(text)
    PROVE  \A k : k \in Final(Reaches(text), PlainMoves(C, text, ignoreCase), tokens, UNION Z) <=>
                  \E Y \in Z : k \in Final(Reaches(text), PlainMoves(C, text, ignoreCase), tokens, Y)
<1> DEFINE X == Reaches(text)
           n == Len(tokens)
           move == PlainMoves(C, text, ignoreCase)
           moves == MovesOf(move, tokens)
           f == Run(X, moves, n, UNION Z)
           g(Y) == Run(X, moves, n, Y)
<1>1. n \in Nat
  OBVIOUS
<1>2. move \in [Plain(C) -> [X -> X]]
  BY PlainMovesAre
<1>3. UNION Z \in X /\ \A Y \in Z : Y \in X
  BY DEF Reaches
<1>4. IsRun(f, X, moves, n, UNION Z) /\ \A Y \in Z : IsRun(g(Y), X, moves, n, Y)
  <2> HIDE DEF X, move
  <2> QED
    BY <1>2, <1>3, TokensRun
<1>5. Final(X, move, tokens, UNION Z) = f[n] /\ \A Y \in Z : Final(X, move, tokens, Y) = g(Y)[n]
  BY DEF Final
<1> HIDE DEF f, g
<1>6. f[0] = UNION Z /\ \A i \in 1..n : f[i] = Step(tokens[i], text, f[i - 1], ignoreCase)
  BY <1>4, PlainRunSteps
<1>7. \A Y \in Z : g(Y)[0] = Y /\ \A i \in 1..n : g(Y)[i] = Step(tokens[i], text, g(Y)[i - 1], ignoreCase)
  BY <1>4, PlainRunSteps
<1> HIDE DEF X, move, moves
<1> DEFINE S == {i \in Nat : i <= n => \A k : k \in f[i] <=> \E Y \in Z : k \in g(Y)[i]}
<1>8. 0 \in S
  BY <1>6, <1>7
<1>9. ASSUME NEW i \in Nat, i \in S, i + 1 <= n
      PROVE  \A k : k \in f[i + 1] <=> \E Y \in Z : k \in g(Y)[i + 1]
  <2>1. i + 1 \in 1..n /\ (i + 1) - 1 = i /\ i <= n
    BY <1>1, <1>9
  <2>2. \A k : k \in f[i] <=> \E Y \in Z : k \in g(Y)[i]
    BY <1>9, <2>1
  <2> HIDE DEF S
  <2>3. f[i + 1] = Step(tokens[i + 1], text, f[i], ignoreCase)
    BY <1>6, <2>1
  <2>4. \A Y \in Z : g(Y)[i + 1] = Step(tokens[i + 1], text, g(Y)[i], ignoreCase)
    BY <1>7, <2>1
  <2> DEFINE t == tokens[i + 1]
  <2> HIDE DEF t
  <2>5. /\ \A k : k \in f[i + 1] <=>
             k \in 0..Len(text) /\ \E j \in f[i] : j <= k /\ Covers(t, text, j, k, ignoreCase)
        /\ \A Y \in Z : \A k : k \in g(Y)[i + 1] <=>
             k \in 0..Len(text) /\ \E j \in g(Y)[i] : j <= k /\ Covers(t, text, j, k, ignoreCase)
    BY <2>3, <2>4 DEF Step, t
  <2> QED
    BY <2>2, <2>5
<1>10. ASSUME NEW i \in Nat, i \in S
       PROVE  i + 1 \in S
  <2>1. i + 1 <= n => \A k : k \in f[i + 1] <=> \E Y \in Z : k \in g(Y)[i + 1]
    BY <1>9, <1>10
  <2> QED
    BY <2>1
<1> HIDE DEF S
<1>11. n \in S
  BY <1>1, <1>8, <1>10, Induction
<1>12. \A k : k \in f[n] <=> \E Y \in Z : k \in g(Y)[n]
  BY <1>1, <1>11 DEF S
<1> QED
  BY <1>5, <1>12 DEF X, move

\* One list after the other.
LEMMA FinalConcat ==
    ASSUME NEW T, NEW X, NEW move \in [T -> [X -> X]], NEW s \in Seq(T), NEW t \in Seq(T), NEW x \in X
    PROVE  Final(X, move, s \o t, x) = Final(X, move, t, Final(X, move, s, x))
<1> DEFINE n == Len(s)
           m == Len(t)
           st == s \o t
           y == Final(X, move, s, x)
           f == Run(X, MovesOf(move, s), n, x)
           g == Run(X, MovesOf(move, t), m, y)
           h == Run(X, MovesOf(move, st), n + m, x)
<1>1. /\ n \in Nat /\ m \in Nat /\ st \in Seq(T) /\ Len(st) = n + m
      /\ \A i \in 1..n : st[i] = s[i]
      /\ \A i \in 1..m : st[n + i] = t[i]
  OBVIOUS
<1>2. y \in X /\ y = f[n]
  BY TokensRun DEF Final
<1> HIDE DEF st, y
<1>3. IsRun(f, X, MovesOf(move, s), n, x) /\ IsRun(h, X, MovesOf(move, st), n + m, x)
  <2>1. IsRun(f, X, MovesOf(move, s), n, x)
    BY TokensRun
  <2>2. Len(st) = n + m /\ st \in Seq(T)
    BY <1>1
  <2>3. IsRun(Run(X, MovesOf(move, st), Len(st), x), X, MovesOf(move, st), Len(st), x)
    BY <2>2, TokensRun
  <2> QED
    BY <2>1, <2>2, <2>3
<1>4. IsRun(g, X, MovesOf(move, t), m, y)
  BY <1>2, TokensRun
<1>5. Final(X, move, st, x) = h[n + m] /\ Final(X, move, t, y) = g[m]
  BY <1>1 DEF Final
<1> HIDE DEF f, g, h
<1>6. h[n] = y
  <2>1. n + m \in Nat /\ n <= n /\ n <= n + m
    BY <1>1
  <2>2. \A i \in 1..n : MovesOf(move, st)[i] = MovesOf(move, s)[i]
    <3>1. \A i \in 1..n : i \in 1..(n + m)
      BY <1>1
    <3> QED
      BY <1>1, <3>1 DEF MovesOf
  <2> HIDE DEF n, m
  <2>3. h[n] = f[n]
    BY <1>1, <1>3, <2>1, <2>2, RunsAgree
  <2> QED
    BY <1>2, <2>3
<1> DEFINE S == {i \in Nat : i <= m => h[n + i] = g[i]}
<1>7. 0 \in S
  <2>1. n + 0 = n /\ g[0] = y
    BY <1>1, <1>4 DEF IsRun
  <2> QED
    BY <1>6, <2>1
<1>8. ASSUME NEW i \in Nat, i \in S, i + 1 <= m
      PROVE  h[n + (i + 1)] = g[i + 1]
  <2>1. /\ i + 1 \in 1..m /\ (i + 1) - 1 = i /\ n + (i + 1) \in 1..(n + m)
        /\ (n + (i + 1)) - 1 = n + i
    BY <1>1, <1>8
  <2>2. h[n + i] = g[i]
    BY <1>1, <1>8
  <2> HIDE DEF S
  <2>3. h[n + (i + 1)] = MovesOf(move, st)[n + (i + 1)][h[n + i]] /\ g[i + 1] = MovesOf(move, t)[i + 1][g[i]]
    BY <1>3, <1>4, <2>1 DEF IsRun
  <2>4. MovesOf(move, st)[n + (i + 1)] = MovesOf(move, t)[i + 1]
    BY <1>1, <2>1 DEF MovesOf
  <2> QED
    BY <2>2, <2>3, <2>4
<1>9. ASSUME NEW i \in Nat, i \in S
      PROVE  i + 1 \in S
  BY <1>8, <1>9
<1> HIDE DEF S
<1>10. m \in S
  BY <1>1, <1>7, <1>9, Induction
<1>11. h[n + m] = g[m]
  BY <1>1, <1>10 DEF S
<1> QED
  BY <1>5, <1>11 DEF st, y

-----------------------------------------------------------------------------
(* Choices, written out.                                                   *)

\* One token more, in every way it can be written out.
WrittenOn(t, S) ==
    IF t.kind # "choice" THEN {Append(s, t) : s \in S}
    ELSE {s \o b : s \in S, b \in ToSet(t.branches)}

LEMMA WrittenOnIs ==
    ASSUME NEW t, NEW S, t.kind = "choice", NEW x
    PROVE  x \in WrittenOn(t, S) <=> \E s \in S : \E b \in ToSet(t.branches) : x = s \o b
BY DEF WrittenOn

LEMMA EmptyLeads ==
    ASSUME NEW C, NEW text, NEW ignoreCase, NEW w \in Seq(Plain(C)), Len(w) = 0, NEW R \in Reaches(text)
    PROVE  Final(Reaches(text), PlainMoves(C, text, ignoreCase), w, R) = R
<1>1. PlainMoves(C, text, ignoreCase) \in [Plain(C) -> [Reaches(text) -> Reaches(text)]]
  BY PlainMovesAre
<1> QED
  BY <1>1, FinalEmpty

LEMMA WrittenOutIs ==
    ASSUME NEW C, NEW tokens \in Seq(Tokens(C))
    PROVE  \E f \in [0..Len(tokens) -> SUBSET Seq(Plain(C))] :
             /\ f[0] = {<<>>} /\ WrittenOut(tokens) = f[Len(tokens)]
             /\ \A i \in 1..Len(tokens) : f[i] = WrittenOn(tokens[i], f[i - 1])
<1> DEFINE n == Len(tokens)
           X == SUBSET Seq(Plain(C))
           F(g) == [i \in 0..n |-> IF i = 0 THEN {<<>>} ELSE WrittenOn(tokens[i], g[i - 1])]
           upTo == CHOOSE g : g = F(g)
           moves == [i \in 1..n |-> [S \in X |-> WrittenOn(tokens[i], S)]]
           r == Run(X, moves, n, {<<>>})
<1>0. WrittenOut(tokens) = upTo[n]
  BY DEF WrittenOut, WrittenOn
<1>1. n \in Nat /\ {<<>>} \in X /\ \A i \in 1..n : tokens[i] \in Tokens(C)
  OBVIOUS
<1>2. ASSUME NEW t \in Tokens(C), NEW S \in X
      PROVE  WrittenOn(t, S) \in X
  <2>1. CASE t.kind # "choice"
    <3>1. t \in Plain(C)
      BY <2>1, TokenIs
    <3>2. \A s \in S : Append(s, t) \in Seq(Plain(C))
      BY <3>1
    <3> QED
      BY <2>1, <3>2 DEF WrittenOn
  <2>2. CASE t.kind = "choice"
    <3>1. ToSet(t.branches) \subseteq Seq(Plain(C))
      BY <2>2, TokenIs
    <3>2. \A s \in S, b \in ToSet(t.branches) : s \o b \in Seq(Plain(C))
      BY <3>1
    <3>3. ASSUME NEW w \in WrittenOn(t, S)
          PROVE  w \in Seq(Plain(C))
      <4>1. PICK s \in S, b \in ToSet(t.branches) : w = s \o b
        BY <2>2 DEF WrittenOn
      <4> QED
        BY <3>2, <4>1
    <3> QED
      BY <3>3
  <2> QED
    BY <2>1, <2>2
<1>3. \A i \in 1..n : moves[i] \in [X -> X] /\ \A S \in X : moves[i][S] = WrittenOn(tokens[i], S)
  BY <1>1, <1>2
<1> HIDE DEF moves, X
<1>4. IsRun(r, X, moves, n, {<<>>})
  BY <1>1, <1>3, RunExists
<1>5. r = F(r)
  <2>1. \A i \in 1..n : i - 1 \in 0..n
    BY <1>1
  <2>2. \A i \in 1..n : r[i] = WrittenOn(tokens[i], r[i - 1])
    BY <1>3, <1>4, <2>1 DEF IsRun
  <2>3. r \in [0..n -> X] /\ r[0] = {<<>>}
    BY <1>4 DEF IsRun
  <2>4. \A i \in 0..n : i # 0 => i \in 1..n
    BY <1>1
  <2> HIDE DEF r
  <2> QED
    BY <2>2, <2>3, <2>4
<1>6. upTo = F(upTo)
  BY <1>5
<1> HIDE DEF upTo, r
<1>7. upTo = [i \in 0..n |-> upTo[i]]
  BY <1>6
<1>8. upTo[0] = {<<>>} /\ \A i \in 1..n : upTo[i] = WrittenOn(tokens[i], upTo[i - 1])
  <2>1. 0 \in 0..n /\ \A i \in 1..n : i \in 0..n /\ i # 0
    BY <1>1
  <2>2. \A i \in 0..n : upTo[i] = IF i = 0 THEN {<<>>} ELSE WrittenOn(tokens[i], upTo[i - 1])
    BY <1>6
  <2> HIDE DEF F
  <2> QED
    BY <2>1, <2>2
<1> HIDE DEF F
<1>9. \A i \in 1..n : upTo[i - 1] \in X => upTo[i] = moves[i][upTo[i - 1]]
  BY <1>3, <1>8
<1>10. IsRun(upTo, X, moves, n, {<<>>})
  BY <1>1, <1>3, <1>7, <1>8, <1>9, RunByRecursion
<1>11. upTo \in [0..n -> X]
  BY <1>10 DEF IsRun
<1> QED
  BY <1>0, <1>8, <1>11 DEF X

\* A list of tokens leads where one of the lists it is written out as leads.
LEMMA WrittenOutLeads ==
    ASSUME NEW C, NEW text \in Seq(C), NEW ignoreCase \in BOOLEAN, NEW tokens \in Seq(Tokens(C)),
           NEW R \in Reaches(text)
    PROVE  /\ WrittenOut(tokens) \subseteq Seq(Plain(C))
           /\ \A k : k \in Final(Reaches(text), FullMoves(C, text, ignoreCase), tokens, R) <=>
                \E w \in WrittenOut(tokens) :
                  k \in Final(Reaches(text), PlainMoves(C, text, ignoreCase), w, R)
<1> DEFINE n == Len(tokens)
           X == Reaches(text)
           full == FullMoves(C, text, ignoreCase)
           move == PlainMoves(C, text, ignoreCase)
           g == Run(X, MovesOf(full, tokens), n, R)
           lead(w) == Final(X, move, w, R)
<1>1. n \in Nat /\ \A i \in 1..n : tokens[i] \in Tokens(C)
  OBVIOUS
<1>2. PICK f \in [0..n -> SUBSET Seq(Plain(C))] :
         /\ f[0] = {<<>>} /\ WrittenOut(tokens) = f[n]
         /\ \A i \in 1..n : f[i] = WrittenOn(tokens[i], f[i - 1])
  BY WrittenOutIs, SMTT(30)
<1>3. /\ full \in [Tokens(C) -> [X -> X]] /\ move \in [Plain(C) -> [X -> X]]
      /\ \A t \in Tokens(C), Y \in X : full[t][Y] = FullStep(C, t, text, Y, ignoreCase)
      /\ \A t \in Plain(C), Y \in X : move[t][Y] = Step(t, text, Y, ignoreCase)
  BY FullMovesAre, PlainMovesAre
<1>a. Final(X, full, tokens, R) = g[n]
  BY DEF Final
<1> HIDE DEF full, move, X
<1>4. IsRun(g, X, MovesOf(full, tokens), n, R)
  BY <1>3, TokensRun DEF X
<1> HIDE DEF g
<1>5. g[0] = R /\ \A i \in 1..n : g[i] = FullStep(C, tokens[i], text, g[i - 1], ignoreCase)
  <2>1. \A i \in 1..n : MovesOf(full, tokens)[i] = full[tokens[i]] /\ i - 1 \in 0..n
    BY <1>1 DEF MovesOf
  <2>2. g[0] = R /\ \A i \in 1..n : g[i - 1] \in X /\ g[i] = full[tokens[i]][g[i - 1]]
    BY <1>4, <2>1 DEF IsRun
  <2> QED
    BY <1>1, <1>3, <2>2
<1>6. R \in X /\ \A w \in Seq(Plain(C)) : lead(w) \in X
  <2>1. R \in X
    BY DEF X
  <2> QED
    BY <1>3, <2>1, TokensRun
<1> DEFINE S == {i \in Nat : i <= n => \A k : k \in g[i] <=> \E w \in f[i] : k \in lead(w)}
<1>7. 0 \in S
  <2>1. ASSUME NEW w \in Seq(Plain(C)), Len(w) = 0
        PROVE  lead(w) = R
    BY <2>1, EmptyLeads DEF X, move
  <2> DEFINE e == CHOOSE w \in f[0] : TRUE
  <2>2. f[0] = {e} /\ e \in Seq(Plain(C)) /\ Len(e) = 0
    BY <1>2
  <2> HIDE DEF e
  <2>3. lead(e) = R
    BY <2>1, <2>2
  <2> HIDE DEF lead
  <2>4. \A k : k \in g[0] <=> \E w \in f[0] : k \in lead(w)
    BY <1>5, <2>2, <2>3
  <2> QED
    BY <2>4
<1>8. ASSUME NEW i \in Nat, i \in S, i + 1 <= n
      PROVE  \A k : k \in g[i + 1] <=> \E w \in f[i + 1] : k \in lead(w)
  <2> DEFINE t == tokens[i + 1]
  <2>1. i + 1 \in 1..n /\ (i + 1) - 1 = i /\ i <= n /\ i \in 0..n
    BY <1>1, <1>8
  <2>2. \A k : k \in g[i] <=> \E w \in f[i] : k \in lead(w)
    BY <1>8, <2>1
  <2> HIDE DEF S
  <2>3. g[i + 1] = FullStep(C, t, text, g[i], ignoreCase) /\ f[i + 1] = WrittenOn(t, f[i])
    BY <1>2, <1>5, <2>1
  <2>4. t \in Tokens(C) /\ f[i] \subseteq Seq(Plain(C))
    BY <1>1, <1>2, <2>1
  <2> HIDE DEF t
  <2>5. CASE t.kind # "choice"
    <3>1. t \in Plain(C)
      BY <2>4, <2>5, TokenIs
    <3>2. \A w \in f[i] : lead(Append(w, t)) = Step(t, text, lead(w), ignoreCase)
      <4>1. \A w \in f[i] : lead(Append(w, t)) = move[t][lead(w)]
        BY <1>3, <1>6, <2>4, <3>1, FinalAppend
      <4> HIDE DEF lead
      <4> QED
        BY <1>3, <1>6, <2>4, <3>1, <4>1
    <3> HIDE DEF lead
    <3>3. \A k : k \in g[i + 1] <=>
             k \in 0..Len(text) /\ \E j \in g[i] : j <= k /\ Covers(t, text, j, k, ignoreCase)
      BY <2>3, <2>5 DEF FullStep, Step
    <3>4. \A w \in f[i] : \A k : k \in lead(Append(w, t)) <=>
             k \in 0..Len(text) /\ \E j \in lead(w) : j <= k /\ Covers(t, text, j, k, ignoreCase)
      BY <3>2 DEF Step
    <3>5. f[i + 1] = {Append(w, t) : w \in f[i]}
      BY <2>3, <2>5 DEF WrittenOn
    <3>6. \A k : k \in g[i + 1] <=> \E w \in f[i] : k \in lead(Append(w, t))
      BY <2>2, <3>3, <3>4
    <3> QED
      BY <3>5, <3>6
  <2>6. CASE t.kind = "choice"
    <3> DEFINE B == ToSet(t.branches)
               Z == {lead(w) : w \in f[i]}
    <3>1. B \subseteq Seq(Plain(C))
      BY <2>4, <2>6, TokenIs
    <3> HIDE DEF B
    <3>2. g[i] = UNION Z /\ Z \in SUBSET Reaches(text)
      <4> HIDE DEF lead
      <4> QED
        BY <1>6, <2>2, <2>4 DEF X
    <3>3. \A b \in B : \A k : k \in Final(X, move, b, g[i]) <=> \E Y \in Z : k \in Final(X, move, b, Y)
      <4> HIDE DEF Z
      <4> QED
        BY <3>1, <3>2, FinalPointwise DEF X, move
    <3>4. \A b \in B, w \in f[i] : lead(w \o b) = Final(X, move, b, lead(w))
      BY <1>3, <1>6, <2>4, <3>1, FinalConcat
    <3>5. g[i + 1] = UNION {Final(X, move, b, g[i]) : b \in B}
      BY <2>3, <2>6 DEF FullStep, X, move, B
    <3>6. \A x : x \in f[i + 1] <=> \E s \in f[i] : \E b \in B : x = s \o b
      <4> DEFINE Y == f[i]
      <4> HIDE DEF Y
      <4>1. ASSUME NEW x
            PROVE  x \in WrittenOn(t, Y) <=> \E s \in Y : \E b \in ToSet(t.branches) : x = s \o b
        BY <2>6, WrittenOnIs
      <4> QED
        BY <2>3, <4>1 DEF B, Y
    <3> HIDE DEF lead
    <3>7. \A k : k \in g[i + 1] <=> \E b \in B : k \in Final(X, move, b, g[i])
      BY <3>5
    <3>8. \A b \in B : \A k : k \in Final(X, move, b, g[i]) <=> \E w \in f[i] : k \in lead(w \o b)
      BY <3>3, <3>4
    <3>9. \A k : k \in g[i + 1] <=> \E w \in f[i], b \in B : k \in lead(w \o b)
      BY <3>7, <3>8
    <3>10. ASSUME NEW k, NEW w \in f[i + 1], k \in lead(w)
           PROVE  k \in g[i + 1]
      <4>1. PICK s \in f[i], b \in B : w = s \o b
        BY <3>6
      <4> QED
        BY <3>9, <3>10, <4>1, Zenon
    <3>11. ASSUME NEW k, k \in g[i + 1]
           PROVE  \E w \in f[i + 1] : k \in lead(w)
      <4>1. PICK s \in f[i], b \in B : k \in lead(s \o b)
        BY <3>9, <3>11
      <4>2. s \o b \in f[i + 1]
        BY <3>6
      <4> QED
        BY <4>1, <4>2, Zenon
    <3> QED
      BY <3>10, <3>11
  <2> QED
    BY <2>5, <2>6
<1>9. ASSUME NEW i \in Nat, i \in S
      PROVE  i + 1 \in S
  <2>1. i + 1 <= n => \A k : k \in g[i + 1] <=> \E w \in f[i + 1] : k \in lead(w)
    BY <1>8, <1>9
  <2> QED
    BY <2>1
<1> HIDE DEF S
<1>10. n \in S
  BY <1>1, <1>7, <1>9, Induction
<1>11. \A k : k \in g[n] <=> \E w \in f[n] : k \in lead(w)
  BY <1>1, <1>10 DEF S
<1>12. f[n] \subseteq Seq(Plain(C))
  <2>1. n \in 0..n
    BY <1>1
  <2> QED
    BY <1>2, <2>1
<1> QED
  BY <1>2, <1>a, <1>11, <1>12 DEF X, full, move

\* For any list of tokens: the simulation, wildcards folded, reaches the end of
\* the text exactly if a list it is written out as spells the text.
LEMMA TokensMatch ==
    ASSUME NEW C, NEW text \in Seq(C), NEW ignoreCase \in BOOLEAN, NEW tokens \in Seq(Tokens(C))
    PROVE  Len(text) \in Advance(Folded(tokens), text, {0}, ignoreCase) <=>
             \E w \in WrittenOut(tokens) : Spelled(w, text, ignoreCase)
<1>1. {0} \in Reaches(text)
  BY DEF Reaches, Offsets
<1>2. /\ Folded(tokens) \in Seq(Tokens(C))
      /\ Final(Reaches(text), FullMoves(C, text, ignoreCase), Folded(tokens), {0}) =
           Final(Reaches(text), FullMoves(C, text, ignoreCase), tokens, {0})
  BY <1>1, FullMovesAre, FullMovesAbsorb, FoldedLeads
<1>3. Advance(Folded(tokens), text, {0}, ignoreCase) =
        Final(Reaches(text), FullMoves(C, text, ignoreCase), tokens, {0})
  BY <1>1, <1>2, AdvanceLeads
<1>4. /\ WrittenOut(tokens) \subseteq Seq(Plain(C))
      /\ \A k : k \in Final(Reaches(text), FullMoves(C, text, ignoreCase), tokens, {0}) <=>
           \E w \in WrittenOut(tokens) : k \in Final(Reaches(text), PlainMoves(C, text, ignoreCase), w, {0})
  BY <1>1, WrittenOutLeads
<1>5. \A w \in WrittenOut(tokens) : Spelled(w, text, ignoreCase) <=>
        Len(text) \in Final(Reaches(text), PlainMoves(C, text, ignoreCase), w, {0})
  BY <1>4, SpelledIs
<1> QED
  BY <1>3, <1>4, <1>5

\* Without a choice a list is written out as itself.
LEMMA PlainIsItself ==
    ASSUME NEW C, NEW tokens \in Seq(Plain(C))
    PROVE  WrittenOut(tokens) = {tokens} /\ tokens \in Seq(Tokens(C))
<1> DEFINE n == Len(tokens)
<1>1. n \in Nat /\ \A i \in 1..n : tokens[i] \in Plain(C)
  OBVIOUS
<1>2. tokens \in Seq(Tokens(C))
  <2>1. Plain(C) \subseteq Tokens(C)
    BY DEF Tokens
  <2> QED
    BY <2>1
<1>3. PICK f \in [0..n -> SUBSET Seq(Plain(C))] :
         /\ f[0] = {<<>>} /\ WrittenOut(tokens) = f[n]
         /\ \A i \in 1..n : f[i] = WrittenOn(tokens[i], f[i - 1])
  BY <1>2, WrittenOutIs
<1> DEFINE S == {i \in Nat : i <= n => f[i] = {SubSeq(tokens, 1, i)}}
<1>4. 0 \in S
  <2>1. SubSeq(tokens, 1, 0) = <<>>
    OBVIOUS
  <2>2. f[0] = {SubSeq(tokens, 1, 0)}
    BY <1>3, <2>1
  <2> QED
    BY <2>2
<1>5. ASSUME NEW i \in Nat, i \in S, i + 1 <= n
      PROVE  f[i + 1] = {SubSeq(tokens, 1, i + 1)}
  <2>1. i + 1 \in 1..n /\ (i + 1) - 1 = i /\ i <= n
    BY <1>1, <1>5
  <2>2. f[i] = {SubSeq(tokens, 1, i)}
    BY <1>5, <2>1
  <2>3. f[i + 1] = WrittenOn(tokens[i + 1], f[i]) /\ tokens[i + 1].kind # "choice"
    BY <1>1, <1>3, <2>1 DEF Plain
  <2>4. SubSeq(tokens, 1, i + 1) = Append(SubSeq(tokens, 1, i), tokens[i + 1])
    BY <2>1
  <2> HIDE DEF S
  <2> QED
    BY <2>2, <2>3, <2>4 DEF WrittenOn
<1>6. ASSUME NEW i \in Nat, i \in S
      PROVE  i + 1 \in S
  <2>1. i + 1 <= n => f[i + 1] = {SubSeq(tokens, 1, i + 1)}
    BY <1>5, <1>6
  <2> QED
    BY <2>1
<1> HIDE DEF S
<1>7. n \in S
  BY <1>1, <1>4, <1>6, Induction
<1>8. f[n] = {SubSeq(tokens, 1, n)}
  BY <1>1, <1>7 DEF S
<1>9. SubSeq(tokens, 1, n) = tokens
  OBVIOUS
<1> QED
  BY <1>2, <1>3, <1>8, <1>9

-----------------------------------------------------------------------------
(* The tokens of a pattern.                                                *)

\* Scanned: what stands at i, and then what is scanned from where it ends.
IsScan(g, L, token, next) ==
    g = [i \in 1..(L + 1) |-> IF i > L THEN <<>> ELSE <<token[i]>> \o g[next[i]]]

LEMMA ScanExists ==
    ASSUME NEW P, NEW L \in Nat, NEW token \in [1..L -> P], NEW next \in [1..L -> 1..(L + 1)],
           \A i \in 1..L : i < next[i]
    PROVE  \E g \in [1..(L + 1) -> Seq(P)] : IsScan(g, L, token, next)
<1> DEFINE D == 1..(L + 1)
           Right(g, i) == g[i] = <<token[i]>> \o g[next[i]]
           From(m) == {i \in 1..L : L + 1 - m <= i}
           Good(g, m) == Len(g[L + 1]) = 0 /\ \A i \in From(m) : Right(g, i)
           S == {m \in Nat : m <= L => \E g \in [D -> Seq(P)] : Good(g, m)}
<1>1. 0 \in S
  <2> DEFINE g == [i \in D |-> <<>>]
  <2>1. g \in [D -> Seq(P)] /\ L + 1 \in D
    OBVIOUS
  <2>2. Len(g[L + 1]) = 0
    BY <2>1
  <2>3. From(0) = {}
    OBVIOUS
  <2>4. Good(g, 0)
    BY <2>2, <2>3
  <2> HIDE DEF g, Good
  <2> QED
    BY <2>1, <2>4
<1>2. ASSUME NEW m \in Nat, m \in S, m + 1 <= L
      PROVE  \E g \in [D -> Seq(P)] : Good(g, m + 1)
  <2>0. m <= L
    BY <1>2
  <2>1. PICK h \in [D -> Seq(P)] : Good(h, m)
    <3> HIDE DEF Good
    <3> QED
      BY <1>2, <2>0
  <2> HIDE DEF S
  <2> DEFINE k == L - m
             new == <<token[k]>> \o h[next[k]]
             g == [h EXCEPT ![k] = new]
  <2>2. k \in 1..L /\ k \in D /\ L + 1 \in D /\ k # L + 1
    BY <1>2
  <2>3. next[k] \in D /\ next[k] # k /\ token[k] \in P
    BY <2>2
  <2>4. new \in Seq(P)
    <3>1. <<token[k]>> \in Seq(P) /\ h[next[k]] \in Seq(P)
      BY <2>3
    <3> QED
      BY <3>1
  <2> HIDE DEF k
  <2>5. g \in [D -> Seq(P)] /\ g[k] = new /\ \A i \in D : i # k => g[i] = h[i]
    BY <2>2, <2>4
  <2>6. Right(g, k)
    BY <2>3, <2>5
  <2> HIDE DEF g, new
  <2>7. ASSUME NEW i \in From(m + 1)
        PROVE  Right(g, i)
    <3>1. CASE i = k
      BY <2>6, <3>1
    <3>2. CASE i # k
      <4>1. i \in From(m) /\ i \in D /\ i > k
        BY <2>2, <3>2 DEF k
      <4>2. next[i] \in D /\ next[i] # k
        BY <2>2, <4>1
      <4>3. Right(h, i)
        BY <2>1, <4>1
      <4>4. g[i] = h[i] /\ g[next[i]] = h[next[i]]
        BY <2>5, <3>2, <4>1, <4>2
      <4> QED
        BY <4>3, <4>4
    <3> QED
      BY <3>1, <3>2
  <2>8. Len(g[L + 1]) = 0
    BY <2>1, <2>2, <2>5
  <2>9. Good(g, m + 1)
    BY <2>7, <2>8
  <2> HIDE DEF Good
  <2> QED
    BY <2>5, <2>9
<1>3. ASSUME NEW m \in Nat, m \in S
      PROVE  m + 1 \in S
  <2>1. m + 1 <= L => \E g \in [D -> Seq(P)] : Good(g, m + 1)
    BY <1>2, <1>3
  <2> HIDE DEF Good
  <2> QED
    BY <2>1
<1> HIDE DEF S
<1>4. L \in S
  BY <1>1, <1>3, Induction
<1>5. PICK g \in [D -> Seq(P)] : Good(g, L)
  <2> HIDE DEF Good
  <2> QED
    BY <1>4 DEF S
<1>6. From(L) = 1..L
  OBVIOUS
<1>7. g[L + 1] = <<>>
  <2>1. L + 1 \in D
    OBVIOUS
  <2> QED
    BY <1>5, <2>1
<1>8. \A i \in 1..L : g[i] = <<token[i]>> \o g[next[i]]
  BY <1>5, <1>6
<1>9. \A i \in D : g[i] = IF i > L THEN <<>> ELSE <<token[i]>> \o g[next[i]]
  <2>1. \A i \in D : (i > L => i = L + 1) /\ (~(i > L) => i \in 1..L)
    OBVIOUS
  <2> QED
    BY <1>7, <1>8, <2>1
<1>10. g = [i \in D |-> g[i]]
  OBVIOUS
<1>11. IsScan(g, L, token, next)
  BY <1>9, <1>10 DEF IsScan
<1> QED
  BY <1>11

LEMMA ScanIsTyped ==
    ASSUME NEW P, NEW L \in Nat, NEW token \in [1..L -> P], NEW next \in [1..L -> 1..(L + 1)],
           \A i \in 1..L : i < next[i], NEW g, IsScan(g, L, token, next)
    PROVE  g[1] \in Seq(P)
<1> DEFINE D == 1..(L + 1)
           From(m) == {i \in D : L + 1 - m <= i}
           S == {m \in Nat : m <= L => \A i \in From(m) : g[i] \in Seq(P)}
<1>1. \A i \in D : g[i] = IF i > L THEN <<>> ELSE <<token[i]>> \o g[next[i]]
  BY DEF IsScan
<1>2. 0 \in S
  <2>1. \A i \in From(0) : i \in D /\ i > L
    OBVIOUS
  <2>2. \A i \in From(0) : g[i] = <<>>
    BY <1>1, <2>1
  <2>a. <<>> \in Seq(P)
    OBVIOUS
  <2>3. \A i \in From(0) : g[i] \in Seq(P)
    <3> HIDE DEF From
    <3> QED
      BY <2>2, <2>a
  <2> QED
    BY <2>3
<1>3. ASSUME NEW m \in Nat, m \in S, m + 1 <= L, NEW i \in From(m + 1)
      PROVE  g[i] \in Seq(P)
  <2>1. \A j \in From(m) : g[j] \in Seq(P)
    BY <1>3
  <2> HIDE DEF S
  <2>2. CASE i \in From(m)
    BY <2>1, <2>2
  <2>3. CASE i \notin From(m)
    <3>1. i \in 1..L /\ i \in D /\ ~(i > L) /\ i = L - m
      BY <1>3, <2>3
    <3>2. next[i] \in From(m) /\ token[i] \in P
      BY <3>1
    <3>3. g[next[i]] \in Seq(P) /\ <<token[i]>> \in Seq(P)
      BY <2>1, <3>2
    <3>4. g[i] = <<token[i]>> \o g[next[i]]
      BY <1>1, <3>1
    <3> QED
      BY <3>3, <3>4
  <2> QED
    BY <2>2, <2>3
<1>4. ASSUME NEW m \in Nat, m \in S
      PROVE  m + 1 \in S
  <2>1. m + 1 <= L => \A i \in From(m + 1) : g[i] \in Seq(P)
    BY <1>3, <1>4
  <2> HIDE DEF From
  <2> QED
    BY <2>1
<1> HIDE DEF S
<1>5. L \in S
  BY <1>2, <1>4, Induction
<1>6. \A i \in From(L) : g[i] \in Seq(P)
  BY <1>5 DEF S
<1>7. 1 \in From(L)
  OBVIOUS
<1> QED
  BY <1>6, <1>7

LEMMA TokenAtIs ==
    ASSUME NEW C, NEW pattern \in Seq(C), NEW i \in 1..Len(pattern), NEW dirs \in BOOLEAN
    PROVE  /\ TokenAt(pattern, i, dirs).token \in Plain(C)
           /\ TokenAt(pattern, i, dirs).width \in 1..3
           /\ i + TokenAt(pattern, i, dirs).width \in 1..(Len(pattern) + 1)
<1> DEFINE L == Len(pattern)
<1>1. L \in Nat /\ pattern[i] \in C
  OBVIOUS
<1>2. \A c : Char(c).kind = "char" /\ (c \in C => Char(c) \in Plain(C))
  BY DEF Char, Plain
<1>3. /\ Wild("any_dir") \in Plain(C) /\ Wild("any") \in Plain(C)
      /\ Wild("segment") \in Plain(C) /\ Wild("single") \in Plain(C)
  BY DEF Wild, Plain
<1>4. CASE CharAt(pattern, i, "*") /\ CharAt(pattern, i + 1, "*") /\ dirs /\ CharAt(pattern, i + 2, "/")
  <2>1. TokenAt(pattern, i, dirs) = [token |-> Wild("any_dir"), width |-> 3]
    BY <1>4 DEF TokenAt
  <2>2. i + 2 <= L
    BY <1>4 DEF CharAt
  <2> QED
    BY <1>1, <1>3, <2>1, <2>2
<1>5. CASE CharAt(pattern, i, "*") /\ CharAt(pattern, i + 1, "*") /\ ~(dirs /\ CharAt(pattern, i + 2, "/"))
  <2>1. TokenAt(pattern, i, dirs) = [token |-> Wild("any"), width |-> 2]
    BY <1>5 DEF TokenAt
  <2>2. i + 1 <= L
    BY <1>5 DEF CharAt
  <2> QED
    BY <1>1, <1>3, <2>1, <2>2
<1>6. CASE ~(CharAt(pattern, i, "*") /\ CharAt(pattern, i + 1, "*"))
  <2>1. /\ TokenAt(pattern, i, dirs).width = 1
        /\ TokenAt(pattern, i, dirs).token \in {Wild("segment"), Wild("single"), Char(pattern[i])}
    BY <1>6 DEF TokenAt
  <2> QED
    BY <1>1, <1>2, <1>3, <2>1
<1> QED
  BY <1>4, <1>5, <1>6

LEMMA PlainTokensAre ==
    ASSUME NEW C, NEW pattern \in Seq(C), NEW dirs \in BOOLEAN
    PROVE  PlainTokens(pattern, dirs) \in Seq(Plain(C))
<1> DEFINE L == Len(pattern)
           T(i) == TokenAt(pattern, i, dirs)
           token == [i \in 1..L |-> T(i).token]
           next == [i \in 1..L |-> i + T(i).width]
           F(g) == [i \in 1..(L + 1) |-> IF i > L THEN <<>> ELSE <<T(i).token>> \o g[i + T(i).width]]
           from == CHOOSE g : g = F(g)
<1>1. PlainTokens(pattern, dirs) = from[1]
  BY DEF PlainTokens
<1>2. L \in Nat /\ \A i \in 1..L : T(i).token \in Plain(C) /\ T(i).width \in 1..3 /\ i + T(i).width \in 1..(L + 1)
  BY TokenAtIs
<1> HIDE DEF T
<1>3. /\ token \in [1..L -> Plain(C)] /\ next \in [1..L -> 1..(L + 1)]
      /\ \A i \in 1..L : i < next[i]
  BY <1>2
<1>4. \A g : g = F(g) <=> IsScan(g, L, token, next)
  <2>1. \A i \in 1..(L + 1) : ~(i > L) => i \in 1..L
    BY <1>2
  <2>2. \A g : F(g) = [i \in 1..(L + 1) |-> IF i > L THEN <<>> ELSE <<token[i]>> \o g[next[i]]]
    BY <2>1
  <2> QED
    BY <2>2 DEF IsScan
<1> HIDE DEF F, token, next
<1>5. \E g : g = F(g)
  BY <1>2, <1>3, <1>4, ScanExists
<1>6. from = F(from)
  BY <1>5
<1> HIDE DEF from
<1>7. IsScan(from, L, token, next)
  BY <1>4, <1>6
<1> QED
  BY <1>1, <1>2, <1>3, <1>7, ScanIsTyped


LEMMA BracePartsAre ==
    ASSUME NEW C, NEW pattern \in Seq(C), NEW i \in 1..Len(pattern), BraceParts(pattern, i) # <<>>
    PROVE  /\ BraceParts(pattern, i) \in Seq(Seq(C))
           /\ AfterBrace(pattern, i) \in (i + 2)..(Len(pattern) + 1)
<1> DEFINE L == Len(pattern)
           closing == {e \in (i + 1)..L : pattern[e] = "}"}
           m == Min(closing)
           cuts == {i, m} \union {c \in i..m : pattern[c] = ","}
           at == Increasing(cuts)
           k == Cardinality(cuts)
<1>a. L \in Nat /\ i \in Nat /\ \A e \in (i + 1)..L : e \in Nat
  OBVIOUS
<1>b. closing \in SUBSET Nat
  BY <1>a
<1>c. closing # {}
  BY DEF BraceParts
<1>1. L \in Nat /\ i \in Nat /\ closing # {} /\ closing \in SUBSET Nat
  BY <1>a, <1>b, <1>c
<1>2. m \in closing
  BY <1>1, MinIs
<1>3. m \in (i + 1)..L /\ m \in Nat
  BY <1>1, <1>2
<1>4. AfterBrace(pattern, i) = 1 + m
  BY DEF AfterBrace
<1>5. BraceParts(pattern, i) = [n \in 1..(Len(at) - 1) |-> SubSeq(pattern, at[n] + 1, at[n + 1] - 1)]
  BY <1>1 DEF BraceParts
<1> HIDE DEF m, closing
<1>6. cuts \subseteq i..L /\ cuts \in SUBSET Int /\ i \in cuts
  <2>1. i \in i..L /\ m \in i..L /\ i..m \subseteq i..L /\ i..L \subseteq Int
    BY <1>1, <1>3
  <2> QED
    BY <2>1
<1>7. IsFiniteSet(cuts)
  <2>1. IsFiniteSet(i..L)
    BY FS_Interval
  <2> QED
    BY <1>6, <2>1, FS_Subset
<1> HIDE DEF cuts
<1>8. k \in Nat /\ at \in [1..k -> cuts]
  BY <1>6, <1>7, IncreasingIs
<1>9. k # 0
  BY <1>6, <1>7, FS_EmptySet
<1> HIDE DEF at, k
<1>10. Len(at) = k /\ k - 1 \in Nat
  BY <1>8, <1>9
<1>11. ASSUME NEW n \in 1..(k - 1)
       PROVE  SubSeq(pattern, at[n] + 1, at[n + 1] - 1) \in Seq(C)
  <2>1. n \in 1..k /\ n + 1 \in 1..k
    BY <1>8, <1>10
  <2>2. at[n] \in i..L /\ at[n + 1] \in i..L
    BY <1>6, <1>8, <2>1
  <2> DEFINE a == at[n] + 1
             b == at[n + 1] - 1
  <2>3. a \in Int /\ b \in Int /\ a >= 1 /\ b <= L
    BY <1>1, <2>2
  <2> HIDE DEF a, b
  <2>4. SubSeq(pattern, a, b) \in Seq(C)
    BY <2>3
  <2> QED
    BY <2>4 DEF a, b
<1>12. BraceParts(pattern, i) \in [1..(k - 1) -> Seq(C)]
  BY <1>5, <1>10, <1>11
<1>13. BraceParts(pattern, i) \in Seq(Seq(C))
  BY <1>10, <1>12
<1>14. 1 + m \in (i + 2)..(L + 1)
  BY <1>1, <1>3
<1> QED
  BY <1>4, <1>13, <1>14

ChoiceAt(pattern, i) ==
    Choice([n \in DOMAIN BraceParts(pattern, i) |-> BranchTokens(BraceParts(pattern, i)[n])])

LEMMA ChoiceIs ==
    ASSUME NEW C, NEW pattern \in Seq(C), NEW i \in 1..Len(pattern), IsChoice(pattern, i)
    PROVE  /\ ChoiceAt(pattern, i) \in Tokens(C)
           /\ AfterBrace(pattern, i) \in (i + 2)..(Len(pattern) + 1)
<1> DEFINE parts == BraceParts(pattern, i)
           branches == [n \in DOMAIN parts |-> BranchTokens(parts[n])]
<1>1. parts # <<>>
  <2>1. Len(parts) \in 2..16
    BY DEF IsChoice
  <2> HIDE DEF parts
  <2>2. Len(<<>>) = 0 /\ 0 \notin 2..16
    OBVIOUS
  <2> QED
    BY <2>1, <2>2, Zenon
<1>2. parts \in Seq(Seq(C)) /\ AfterBrace(pattern, i) \in (i + 2)..(Len(pattern) + 1)
  BY <1>1, BracePartsAre
<1> HIDE DEF parts
<1>3. \A n \in DOMAIN parts : parts[n] \in Seq(C)
  BY <1>2
<1>4. \A n \in DOMAIN parts : BranchTokens(parts[n]) \in Seq(Plain(C))
  <2>1. \A p \in Seq(C) : BranchTokens(p) \in Seq(Plain(C))
    <3> DEFINE dirs == FALSE
    <3>1. dirs \in BOOLEAN
      OBVIOUS
    <3>2. \A p : BranchTokens(p) = PlainTokens(p, dirs)
      BY DEF BranchTokens
    <3> HIDE DEF dirs
    <3> QED
      BY <3>1, <3>2, PlainTokensAre
  <2> QED
    BY <1>3, <2>1
<1>5. DOMAIN parts = 1..Len(parts) /\ Len(parts) \in Nat
  BY <1>2
<1>6. branches \in Seq(Seq(Plain(C)))
  BY <1>4, <1>5
<1> HIDE DEF branches
<1>7. Choice(branches) \in Tokens(C)
  BY <1>6 DEF Choice, Tokens
<1> QED
  BY <1>2, <1>7 DEF ChoiceAt, branches, parts

LEMMA FilterTokensAre ==
    ASSUME NEW C, NEW pattern \in Seq(C)
    PROVE  FilterTokens(pattern) \in Seq(Tokens(C))
<1> DEFINE L == Len(pattern)
           dirs == FALSE
           T(i) == TokenAt(pattern, i, dirs)
           tok(i) == IF IsChoice(pattern, i) THEN ChoiceAt(pattern, i) ELSE T(i).token
           nxt(i) == IF IsChoice(pattern, i) THEN AfterBrace(pattern, i) ELSE i + T(i).width
           token == [i \in 1..L |-> tok(i)]
           next == [i \in 1..L |-> nxt(i)]
           F(g) == [i \in 1..(L + 1) |->
                      IF i > L THEN <<>>
                      ELSE IF IsChoice(pattern, i)
                        THEN <<ChoiceAt(pattern, i)>> \o g[AfterBrace(pattern, i)]
                      ELSE <<T(i).token>> \o g[i + T(i).width]]
           from == CHOOSE g : g = F(g)
<1>1. FilterTokens(pattern) = from[1]
  BY DEF FilterTokens, ChoiceAt
<1>a. dirs \in BOOLEAN
  OBVIOUS
<1> HIDE DEF dirs
<1>2. L \in Nat /\ \A i \in 1..L : T(i).token \in Plain(C) /\ T(i).width \in 1..3 /\ i + T(i).width \in 1..(L + 1)
  BY <1>a, TokenAtIs
<1>3. \A i \in 1..L : IsChoice(pattern, i) =>
         ChoiceAt(pattern, i) \in Tokens(C) /\ AfterBrace(pattern, i) \in (i + 2)..(L + 1)
  BY ChoiceIs
<1> HIDE DEF T
<1>4. Plain(C) \subseteq Tokens(C)
  BY DEF Tokens
<1>5. \A i \in 1..L : tok(i) \in Tokens(C) /\ nxt(i) \in 1..(L + 1) /\ i < nxt(i)
  BY <1>2, <1>3, <1>4
<1>6. \A g : F(g) = [i \in 1..(L + 1) |-> IF i > L THEN <<>> ELSE <<tok(i)>> \o g[nxt(i)]]
  OBVIOUS
<1> HIDE DEF tok, nxt, F
<1>7. /\ token \in [1..L -> Tokens(C)] /\ next \in [1..L -> 1..(L + 1)]
      /\ \A i \in 1..L : i < next[i]
  BY <1>5
<1>8. \A g : g = F(g) <=> IsScan(g, L, token, next)
  <2>1. \A i \in 1..(L + 1) : ~(i > L) => i \in 1..L
    BY <1>2
  <2>2. \A g : F(g) = [i \in 1..(L + 1) |-> IF i > L THEN <<>> ELSE <<token[i]>> \o g[next[i]]]
    BY <1>6, <2>1
  <2> QED
    BY <2>2 DEF IsScan
<1> HIDE DEF token, next
<1>9. \E g : g = F(g)
  BY <1>2, <1>7, <1>8, ScanExists
<1>10. from = F(from)
  BY <1>9
<1> HIDE DEF from
<1>11. IsScan(from, L, token, next)
  BY <1>8, <1>10
<1> QED
  BY <1>1, <1>2, <1>7, <1>11, ScanIsTyped

-----------------------------------------------------------------------------
(* Globs match what they spell.                                            *)

\* A path glob matches the paths it spells, whatever the pattern and the path.
THEOREM PathGlobsMatch ==
    ASSUME NEW C, "*" \in C, NEW pattern \in Seq(C), NEW path \in Seq(C)
    PROVE  PathMatches(pattern, path) <=> PathIsSpelled(pattern, path)
<1> DEFINE closed == Closed(pattern)
           tokens == PathTokens(closed)
           ignoreCase == FALSE
<1>1. closed \in Seq(C)
  <2>1. <<"*", "*">> \in Seq(C)
    OBVIOUS
  <2>2. pattern \o <<"*", "*">> \in Seq(C)
    BY <2>1
  <2> QED
    BY <2>2 DEF Closed
<1> HIDE DEF closed
<1>2. tokens \in Seq(Plain(C))
  <2> DEFINE dirs == TRUE
  <2>1. dirs \in BOOLEAN
    OBVIOUS
  <2>2. tokens = PlainTokens(closed, dirs)
    BY DEF PathTokens
  <2> HIDE DEF dirs, tokens
  <2> QED
    BY <1>1, <2>1, <2>2, PlainTokensAre
<1>3. PathMatches(pattern, path) <=> Len(path) \in Advance(Folded(tokens), path, {0}, ignoreCase)
  BY DEF PathMatches, closed
<1>4. PathIsSpelled(pattern, path) <=> Spelled(tokens, path, ignoreCase)
  BY DEF PathIsSpelled, closed
<1> HIDE DEF tokens
<1>5. WrittenOut(tokens) = {tokens} /\ tokens \in Seq(Tokens(C))
  BY <1>2, PlainIsItself
<1>6. ignoreCase \in BOOLEAN
  OBVIOUS
<1> HIDE DEF ignoreCase
<1>7. Len(path) \in Advance(Folded(tokens), path, {0}, ignoreCase) <=>
        \E w \in WrittenOut(tokens) : Spelled(w, path, ignoreCase)
  BY <1>5, <1>6, TokensMatch
<1> QED
  BY <1>3, <1>4, <1>5, <1>7

\* A filter glob matches the values that one of its branches spells.
THEOREM FilterGlobsMatch ==
    ASSUME NEW C, NEW pattern \in Seq(C), NEW value \in Seq(C)
    PROVE  FilterMatches(pattern, value) <=> FilterIsSpelled(pattern, value)
<1> DEFINE tokens == FilterTokens(pattern)
           ignoreCase == TRUE
<1>1. tokens \in Seq(Tokens(C))
  BY FilterTokensAre
<1>2. FilterMatches(pattern, value) <=> Len(value) \in Advance(Folded(tokens), value, {0}, ignoreCase)
  BY DEF FilterMatches
<1>3. FilterIsSpelled(pattern, value) <=> \E w \in WrittenOut(tokens) : Spelled(w, value, ignoreCase)
  BY DEF FilterIsSpelled
<1>4. ignoreCase \in BOOLEAN
  OBVIOUS
<1> HIDE DEF tokens, ignoreCase
<1>5. Len(value) \in Advance(Folded(tokens), value, {0}, ignoreCase) <=>
        \E w \in WrittenOut(tokens) : Spelled(w, value, ignoreCase)
  BY <1>1, <1>4, TokensMatch
<1> QED
  BY <1>2, <1>3, <1>5

-----------------------------------------------------------------------------
(* Review policies: the prompt, and paths that are not reviewed.           *)

\* A prompt is closed and within its budget, however long its parts are.
THEOREM PromptsFit ==
    ASSUME NEW header \in Nat, NEW body \in Nat, NEW closing \in Nat, NEW marker \in Nat \ {0},
           NEW max \in Nat
    PROVE  PromptFits(header, body, closing, marker, max)
<1> DEFINE budget == max - header - 2 - (marker + closing)
<1>1. CASE header + 2 + body + 2 + closing <= max
  <2>1. PromptText(header, body, closing, marker, max) =
          [header |-> header + 2, body |-> body, closing |-> 2 + closing]
    BY <1>1 DEF PromptText
  <2> QED
    BY <1>1, <2>1 DEF PromptFits
<1>2. CASE ~(header + 2 + body + 2 + closing <= max) /\ budget <= 0
  <2>1. PromptText(header, body, closing, marker, max) = [header |-> 0, body |-> 0, closing |-> 0]
    BY <1>2 DEF PromptText
  <2> QED
    BY <2>1 DEF PromptFits
<1>3. CASE ~(header + 2 + body + 2 + closing <= max) /\ ~(budget <= 0)
  <2>1. PromptText(header, body, closing, marker, max) =
          [header |-> header + 2, body |-> budget, closing |-> marker + closing]
    BY <1>3 DEF PromptText
  <2> QED
    BY <1>3, <2>1 DEF PromptFits
<1> QED
  BY <1>1, <1>2, <1>3

\* A path that is not reviewed has no say in what is shown for the others.
THEOREM IgnoredPathsAreMute ==
    ASSUME NEW paths, NEW flag
    PROVE  FlagOf(paths, flag) = FlagOf({p \in paths : ~p.ignored}, flag)
<1>1. ReviewablePaths(paths) = ReviewablePaths({p \in paths : ~p.ignored})
  BY DEF ReviewablePaths, Reviewable
<1> QED
  BY <1>1 DEF FlagOf

-----------------------------------------------------------------------------
(* Triggers.                                                               *)

ReasonsOf(t, pr) == {i \in DOMAIN Reasons : Applies(Reasons[i], t, pr)}

LEMMA EligibleIfNoReason ==
    ASSUME NEW t, NEW pr
    PROVE  Eligible(t, pr) <=> pr.manual \/ ReasonsOf(t, pr) = {}
<1>1. DOMAIN Reasons = 1..9
  BY DEF Reasons
<1>2. \A i \in 1..9 : Reasons[i] # "manual_trigger" /\ Reasons[i] # "automatic_trigger"
  BY DEF Reasons
<1>3. CASE pr.manual
  BY <1>3 DEF Eligible, EvaluateTrigger
<1>4. CASE ~pr.manual /\ ReasonsOf(t, pr) = {}
  BY <1>4 DEF Eligible, EvaluateTrigger, ReasonsOf
<1>5. CASE ~pr.manual /\ ReasonsOf(t, pr) # {}
  <2>1. ReasonsOf(t, pr) \in SUBSET Nat /\ ReasonsOf(t, pr) \subseteq 1..9
    BY <1>1 DEF ReasonsOf
  <2>2. Min(ReasonsOf(t, pr)) \in 1..9
    BY <1>5, <2>1, MinIs
  <2>3. EvaluateTrigger(t, pr) = Reasons[Min(ReasonsOf(t, pr))]
    BY <1>5 DEF EvaluateTrigger, ReasonsOf
  <2> QED
    BY <1>2, <1>5, <2>2, <2>3 DEF Eligible
<1> QED
  BY <1>3, <1>4, <1>5

Passes(t, pr) ==
    /\ pr.complete /\ t.automatic
    /\ ~(pr.draft /\ ~t.review_drafts)
    /\ ~(pr.update /\ ~t.review_updates)
    /\ ~(t.limit # 0 /\ pr.files > t.limit)
    /\ \A f \in Filters : /\ pr.values[f] \intersect t.unwanted[f] = {}
                          /\ t.wanted[f] = {} \/ pr.values[f] \intersect t.wanted[f] # {}

LEMMA NoReasonIs ==
    ASSUME NEW t, NEW pr
    PROVE  ReasonsOf(t, pr) = {} <=> Passes(t, pr)
<1>1. ReasonsOf(t, pr) = {} <=> \A i \in 1..9 : ~Applies(Reasons[i], t, pr)
  BY DEF ReasonsOf, Reasons
<1>2. /\ Reasons[1] = "metadata_unavailable" /\ Reasons[2] = "automatic_disabled"
      /\ Reasons[3] = "draft_pull_request" /\ Reasons[4] = "updates_disabled"
      /\ Reasons[5] = "file_change_limit" /\ Reasons[6] = "labels" /\ Reasons[7] = "authors"
      /\ Reasons[8] = "branches" /\ Reasons[9] = "keywords"
  BY DEF Reasons
<1>3. (\A i \in 1..9 : ~Applies(Reasons[i], t, pr)) <=>
        /\ ~Applies("metadata_unavailable", t, pr) /\ ~Applies("automatic_disabled", t, pr)
        /\ ~Applies("draft_pull_request", t, pr) /\ ~Applies("updates_disabled", t, pr)
        /\ ~Applies("file_change_limit", t, pr) /\ \A f \in Filters : ~Applies(f, t, pr)
  <2>1. \A i \in 1..9 : i = 1 \/ i = 2 \/ i = 3 \/ i = 4 \/ i = 5 \/ i = 6 \/ i = 7 \/ i = 8 \/ i = 9
    OBVIOUS
  <2> QED
    BY <1>2, <2>1 DEF Filters
<1>4. Applies("metadata_unavailable", t, pr) <=> ~pr.complete
  BY DEF Applies, Filters
<1>5. Applies("automatic_disabled", t, pr) <=> ~t.automatic
  BY DEF Applies, Filters
<1>6. Applies("draft_pull_request", t, pr) <=> pr.draft /\ ~t.review_drafts
  BY DEF Applies, Filters
<1>7. Applies("updates_disabled", t, pr) <=> pr.update /\ ~t.review_updates
  BY DEF Applies, Filters
<1>8. Applies("file_change_limit", t, pr) <=> t.limit # 0 /\ pr.files > t.limit
  BY DEF Applies, Filters
<1>9. \A f \in Filters : Applies(f, t, pr) <=>
        \/ pr.values[f] \intersect t.unwanted[f] # {}
        \/ t.wanted[f] # {} /\ pr.values[f] \intersect t.wanted[f] = {}
  BY DEF Applies, Filters
<1> QED
  BY <1>1, <1>3, <1>4, <1>5, <1>6, <1>7, <1>8, <1>9 DEF Passes

LEMMA LeastLimitIs ==
    ASSUME NEW policies, \A t \in policies : t.limit \in Nat
    PROVE  /\ (\A t \in policies : t.limit = 0) => LeastLimit(policies) = 0
           /\ (\E t \in policies : t.limit # 0) =>
                /\ LeastLimit(policies) \in Nat \ {0}
                /\ \E t \in policies : t.limit = LeastLimit(policies)
                /\ \A t \in policies : t.limit # 0 => LeastLimit(policies) <= t.limit
<1> DEFINE limits == {t.limit : t \in policies} \ {0}
<1>1. CASE \A t \in policies : t.limit = 0
  <2>1. limits = {}
    BY <1>1
  <2> QED
    BY <1>1, <2>1 DEF LeastLimit
<1>2. CASE \E t \in policies : t.limit # 0
  <2>1. limits # {} /\ limits \in SUBSET Nat
    BY <1>2
  <2>2. LeastLimit(policies) = CHOOSE n \in limits : \A k \in limits : n <= k
    BY <2>1 DEF LeastLimit
  <2>a. \A t \in policies : t.limit # 0 => t.limit \in limits
    OBVIOUS
  <2>b. \A n \in limits : n \in Nat \ {0} /\ \E t \in policies : t.limit = n
    OBVIOUS
  <2> HIDE DEF limits
  <2>3. LeastLimit(policies) \in limits /\ \A k \in limits : LeastLimit(policies) <= k
    <3>1. \E n \in limits : \A k \in limits : n <= k
      BY <2>1, LeastExists
    <3> QED
      BY <2>2, <3>1
  <2> QED
    BY <1>2, <2>3, <2>a, <2>b
<1> QED
  BY <1>1, <1>2

LEMMA MergedIs ==
    ASSUME NEW paths, NEW policies, policies = {p.triggers : p \in ReviewablePaths(paths)}, policies # {}
    PROVE  LET merged == MergedTriggers(paths)
           IN  /\ merged.automatic <=> \E t \in policies : t.automatic
               /\ merged.review_drafts <=> \E t \in policies : t.review_drafts
               /\ merged.review_updates <=> \E t \in policies : t.review_updates
               /\ \A f \in Filters : merged.wanted[f] = Wanted(policies, f)
               /\ \A f \in Filters : merged.unwanted[f] = UNION {t.unwanted[f] : t \in policies}
               /\ merged.limit = LeastLimit(policies)
               /\ (\E t \in policies : t.status_check) =>
                    merged.blocking = UNION {t.blocking : t \in {u \in policies : u.status_check}}
BY DEF MergedTriggers

\* What the merged triggers of any number of changed paths grant and refuse
\* (ResolvedReviewPolicy.triggers, evaluate_trigger).
THEOREM TriggersAreMerged ==
    ASSUME NEW paths, NEW pr, \A p \in paths : p.triggers.limit \in Nat, pr.files \in Nat
    PROVE  TriggersMerge(paths, pr)
<1> DEFINE policies == {p.triggers : p \in ReviewablePaths(paths)}
           merged == MergedTriggers(paths)
<1>1. \A t \in policies : t.limit \in Nat
  BY DEF ReviewablePaths
<1>2. CASE policies = {}
  <2>1. merged = DefaultTriggers
    BY <1>2 DEF MergedTriggers
  <2>2. \A f \in Filters : merged.wanted[f] = {}
    BY <2>1 DEF DefaultTriggers
  <2> HIDE DEF policies, merged
  <2> QED
    BY <1>2, <2>2 DEF TriggersMerge, policies, merged
<1>3. CASE policies # {}
  <2> HIDE DEF policies
  <2>1. /\ merged.automatic <=> \E t \in policies : t.automatic
        /\ merged.review_drafts <=> \E t \in policies : t.review_drafts
        /\ merged.review_updates <=> \E t \in policies : t.review_updates
        /\ \A f \in Filters : merged.wanted[f] = Wanted(policies, f)
        /\ \A f \in Filters : merged.unwanted[f] = UNION {t.unwanted[f] : t \in policies}
        /\ merged.limit = LeastLimit(policies)
        /\ (\E t \in policies : t.status_check) =>
             merged.blocking = UNION {t.blocking : t \in {u \in policies : u.status_check}}
    BY <1>3, MergedIs DEF policies
  <2> HIDE DEF merged
  <2>2. /\ (\A t \in policies : t.limit = 0) => merged.limit = 0
        /\ (\E t \in policies : t.limit # 0) =>
             /\ merged.limit \in Nat \ {0}
             /\ \E t \in policies : t.limit = merged.limit
             /\ \A t \in policies : t.limit # 0 => merged.limit <= t.limit
    BY <1>1, <2>1, LeastLimitIs
  <2>3. \A f \in Filters : merged.wanted[f] # {} => \A t \in policies : t.wanted[f] # {}
    BY <2>1 DEF Wanted
  <2>4. ASSUME \A t \in policies : Eligible(t, pr), ~pr.manual
        PROVE  Passes(merged, pr)
    <3>1. \A t \in policies : Passes(t, pr)
      BY <2>4, EligibleIfNoReason, NoReasonIs
    <3>2. pr.complete /\ merged.automatic
      BY <1>3, <2>1, <3>1 DEF Passes
    <3>3. ~(pr.draft /\ ~merged.review_drafts) /\ ~(pr.update /\ ~merged.review_updates)
      BY <1>3, <2>1, <3>1 DEF Passes
    <3>4. ~(merged.limit # 0 /\ pr.files > merged.limit)
      BY <2>2, <3>1 DEF Passes
    <3>5. ASSUME NEW f \in Filters
          PROVE  pr.values[f] \intersect merged.unwanted[f] = {}
      BY <2>1, <3>1 DEF Passes
    <3>6. ASSUME NEW f \in Filters, merged.wanted[f] # {}
          PROVE  pr.values[f] \intersect merged.wanted[f] # {}
      <4>1. \A t \in policies : t.wanted[f] # {} /\ pr.values[f] \intersect t.wanted[f] # {}
        BY <2>3, <3>1, <3>6 DEF Passes
      <4>2. merged.wanted[f] = UNION {t.wanted[f] : t \in policies}
        BY <2>1, <4>1 DEF Wanted
      <4> QED
        BY <1>3, <4>1, <4>2
    <3> QED
      BY <3>2, <3>3, <3>4, <3>5, <3>6 DEF Passes
  <2>5. ASSUME ~pr.manual, NEW t \in policies,
               \/ t.limit # 0 /\ pr.files > t.limit
               \/ \E f \in Filters : pr.values[f] \intersect t.unwanted[f] # {}
        PROVE  ~Eligible(merged, pr)
    <3>1. CASE t.limit # 0 /\ pr.files > t.limit
      <4>1. merged.limit # 0 /\ pr.files > merged.limit
        BY <1>1, <2>2, <3>1
      <4> QED
        BY <2>5, <4>1, EligibleIfNoReason, NoReasonIs DEF Passes
    <3>2. CASE \E f \in Filters : pr.values[f] \intersect t.unwanted[f] # {}
      <4>1. \E f \in Filters : pr.values[f] \intersect merged.unwanted[f] # {}
        BY <2>1, <3>2
      <4> QED
        BY <2>5, <4>1, EligibleIfNoReason, NoReasonIs DEF Passes
    <3> QED
      BY <2>5, <3>1, <3>2
  <2>6. ASSUME \E t \in policies : t.status_check, NEW severity
        PROVE  severity \in merged.blocking <=>
                 \E t \in policies : t.status_check /\ severity \in t.blocking
    BY <2>1, <2>6
  <2>7. (\A t \in policies : Eligible(t, pr)) => Eligible(merged, pr)
    BY <2>4, EligibleIfNoReason, NoReasonIs
  <2> QED
    BY <2>3, <2>5, <2>6, <2>7 DEF TriggersMerge, policies, merged
<1> QED
  BY <1>2, <1>3

-----------------------------------------------------------------------------
(* What the operator approved.                                             *)

LEMMA IncreasingGrows ==
    ASSUME NEW S \in SUBSET Int, IsFiniteSet(S)
    PROVE  \A n, m \in 1..Cardinality(S) : n < m => Increasing(S)[n] < Increasing(S)[m]
<1> DEFINE R == {pair \in S \X S : pair[1] < pair[2]}
           N == 1..Cardinality(S)
<1>1. \A x, y \in S : <<x, y>> \in R <=> x < y
  OBVIOUS
<1>2. StrictOrder(S, R)
  <2>1. /\ \A x \in S : ~(x < x)
        /\ \A x, y, z \in S : x < y /\ y < z => x < z
        /\ \A x, y \in S : x # y => x < y \/ y < x
    OBVIOUS
  <2> HIDE DEF R
  <2> QED
    BY <1>1, <2>1 DEF StrictOrder
<1> HIDE DEF R
<1>3. Increasing(S) = Sorted(S, R)
  BY DEF Increasing, R
<1>4. /\ Increasing(S) \in [N -> S]
      /\ \A n, m \in N : n < m => <<Increasing(S)[n], Increasing(S)[m]>> \in R
  BY <1>2, <1>3, SortedIs
<1> QED
  BY <1>1, <1>4

\* Approved rules and contexts stand beneath the repository's own, each of them
\* once and oldest first, or there is no policy
\* (apply_approved_learned_rules, apply_approved_custom_contexts).
THEOREM ApprovedComeFirst ==
    ASSUME NEW items, IsFiniteSet(DOMAIN items), DOMAIN items \subseteq Int, NEW path, NEW max \in Nat,
           NEW S, NEW own \in Seq(S)
    PROVE  ApprovedFirst(own, items, path, max)
<1> DEFINE got == Beneath(own, items, path, max)
           approved == {id \in DOMAIN items : path \in items[id]}
           k == Cardinality(approved)
           ids == Increasing(approved)
<1>1. approved \in SUBSET Int /\ IsFiniteSet(approved)
  <2>1. approved \subseteq DOMAIN items
    OBVIOUS
  <2> QED
    BY <2>1, FS_Subset
<1>2. /\ k \in Nat /\ ids \in [1..k -> approved]
      /\ \A x \in approved : \E n \in 1..k : ids[n] = x
      /\ \A n, m \in 1..k : n < m => ids[n] < ids[m]
  <2> HIDE DEF approved
  <2> QED
    BY <1>1, IncreasingIs, IncreasingGrows
<1>3. CASE Cardinality(DOMAIN items) > max
  <2>1. got.raised
    BY <1>3 DEF Beneath, Raises
  <2> HIDE DEF got
  <2> QED
    BY <1>3, <2>1 DEF ApprovedFirst, got
<1>4. CASE ~(Cardinality(DOMAIN items) > max)
  <2>1. ~got.raised /\ got.value = ids \o own
    BY <1>4 DEF Beneath, Returns
  <2> HIDE DEF got, approved, ids, k
  <2> DEFINE U == approved \union S
             l == Len(own)
  <2>2. ids \in [1..k -> U] /\ own \in [1..l -> U] /\ l \in Nat /\ DOMAIN own = 1..l
    BY <1>2
  <2> HIDE DEF U, l
  <2>3. /\ Len(ids \o own) = k + l
        /\ \A n \in 1..k : (ids \o own)[n] = ids[n]
        /\ \A n \in 1..l : (ids \o own)[k + n] = own[n]
    BY <1>2, <2>2, Joined
  <2>4. {(ids \o own)[i] : i \in 1..k} = approved
    BY <1>2, <2>3
  <2>5. \A i, j \in 1..k : i < j => (ids \o own)[i] < (ids \o own)[j]
    BY <1>2, <2>3
  <2> DEFINE v == ids \o own
  <2> HIDE DEF v
  <2>6. /\ got.value = v /\ Len(v) = k + Len(own) /\ \A i \in DOMAIN own : v[k + i] = own[i]
        /\ {v[i] : i \in 1..k} = approved /\ \A i, j \in 1..k : i < j => v[i] < v[j]
    BY <2>1, <2>2, <2>3, <2>4, <2>5 DEF v, l
  <2> QED
    BY <1>4, <2>1, <2>6 DEF ApprovedFirst, got, approved, k
<1> QED
  BY <1>3, <1>4

-----------------------------------------------------------------------------
(* Context files.                                                          *)

\* The sums of a list's beginnings.
IsSum(s, list, n) ==
    /\ s \in [0..n -> Nat] /\ s[0] = 0 /\ SumOf(list) = s[n]
    /\ \A i \in 1..n : s[i] = s[i - 1] + list[i]

LEMMA SumIs ==
    ASSUME NEW list, NEW n \in Nat, Len(list) = n, \A i \in 1..n : list[i] \in Nat
    PROVE  \E s : IsSum(s, list, n)
<1> DEFINE F(g) == [i \in 0..n |-> IF i = 0 THEN 0 ELSE g[i - 1] + list[i]]
           total == CHOOSE g : g = F(g)
           moves == [i \in 1..n |-> [x \in Nat |-> x + list[i]]]
           r == Run(Nat, moves, n, 0)
<1>1. SumOf(list) = total[n]
  BY DEF SumOf
<1>2. \A i \in 1..n : moves[i] \in [Nat -> Nat] /\ \A x \in Nat : moves[i][x] = x + list[i]
  OBVIOUS
<1> HIDE DEF moves
<1>3. IsRun(r, Nat, moves, n, 0)
  BY <1>2, RunExists
<1>4. r = F(r)
  <2>1. \A i \in 1..n : i - 1 \in 0..n
    OBVIOUS
  <2>2. \A i \in 1..n : r[i] = r[i - 1] + list[i]
    BY <1>2, <1>3, <2>1 DEF IsRun
  <2>3. r \in [0..n -> Nat] /\ r[0] = 0
    BY <1>3 DEF IsRun
  <2>4. \A i \in 0..n : i # 0 => i \in 1..n
    OBVIOUS
  <2> HIDE DEF r
  <2> QED
    BY <2>2, <2>3, <2>4
<1>5. total = F(total)
  BY <1>4
<1> HIDE DEF total, r
<1>6. total = [i \in 0..n |-> total[i]]
  BY <1>5
<1>7. total[0] = 0 /\ \A i \in 1..n : total[i] = total[i - 1] + list[i]
  <2>1. 0 \in 0..n /\ \A i \in 1..n : i \in 0..n /\ i # 0
    OBVIOUS
  <2>2. \A i \in 0..n : total[i] = IF i = 0 THEN 0 ELSE total[i - 1] + list[i]
    BY <1>5
  <2> HIDE DEF F
  <2> QED
    BY <2>1, <2>2
<1> HIDE DEF F
<1>8. \A i \in 1..n : total[i - 1] \in Nat => total[i] = moves[i][total[i - 1]]
  BY <1>2, <1>7
<1>9. IsRun(total, Nat, moves, n, 0)
  BY <1>2, <1>6, <1>7, <1>8, RunByRecursion
<1>10. total \in [0..n -> Nat]
  BY <1>9 DEF IsRun
<1>11. IsSum(total, list, n)
  BY <1>1, <1>7, <1>10 DEF IsSum
<1> QED
  BY <1>11

LEMMA SumIsNat ==
    ASSUME NEW list, NEW n \in Nat, Len(list) = n, \A i \in 1..n : list[i] \in Nat
    PROVE  SumOf(list) \in Nat
<1>1. PICK s : IsSum(s, list, n)
  BY SumIs
<1>2. n \in 0..n
  OBVIOUS
<1> QED
  BY <1>1, <1>2 DEF IsSum

LEMMA TotalIs ==
    ASSUME NEW read, NEW m \in Nat, DOMAIN read = 1..m, NEW repo, NEW other \in Nat,
           \A i \in 1..m : repo.size[read[i].path] \in Nat
    PROVE  TotalSize(read, repo, other) \in Nat
<1> DEFINE list == [i \in 1..m |-> repo.size[read[i].path]]
<1>1. Len(list) = m /\ \A i \in 1..m : list[i] \in Nat
  OBVIOUS
<1>2. TotalSize(read, repo, other) = other + SumOf(list)
  BY DEF TotalSize
<1> HIDE DEF list
<1>3. SumOf(list) \in Nat
  BY <1>1, SumIsNat
<1> QED
  BY <1>2, <1>3

\* Secret-shaped files never become guidance, whatever a files.json names
\* (discover_repository_policy).
THEOREM OnlyContextIsRead ==
    ASSUME NEW E, NEW entries \in Seq(E), NEW other \in Nat,
           NEW repo, repo.size \in [repo.tracked -> Nat], NEW limits, limits.total \in Nat
    PROVE  OnlyContext(entries, repo, other, limits)
<1> DEFINE got == ContextFiles(entries, repo, other, limits)
           places == {i \in DOMAIN entries : Reads(entries[i], repo)}
           read == Picked(entries, places)
           m == Cardinality(places)
<1> SUFFICES ASSUME ~got.raised
             PROVE  /\ ToSet(got.value) = {e \in ToSet(entries) : e.path \notin repo.sensitive}
                    /\ \A i \in DOMAIN got.value :
                         /\ got.value[i].path \in (repo.tracked \ repo.sensitive) \cap repo.text
                         /\ repo.size[got.value[i].path] <= limits.file
                    /\ Len(got.value) = Cardinality(ToSet(got.value))
                    /\ TotalSize(got.value, repo, other) <= limits.total
  BY DEF OnlyContext
<1>1. /\ got.value = read
      /\ \A i \in DOMAIN entries : entries[i].path \in repo.tracked
      /\ \A i, j \in DOMAIN read : i # j => read[i] # read[j]
      /\ \A i \in DOMAIN read : read[i].path \in repo.text /\ repo.size[read[i].path] <= limits.file
      /\ ~(TotalSize(read, repo, other) > limits.total)
  BY DEF ContextFiles, Readable, Raises, Returns
<1>2. places \in SUBSET Int /\ IsFiniteSet(places) /\ places \subseteq DOMAIN entries
  <2>a. Len(entries) \in Nat /\ DOMAIN entries = 1..Len(entries)
    OBVIOUS
  <2>1. Len(entries) \in Nat /\ places \in SUBSET (1..Len(entries)) /\ places \subseteq DOMAIN entries
    BY <2>a
  <2> HIDE DEF places
  <2> QED
    BY <2>1, FinitePlaces
<1>3. \A i \in DOMAIN entries : i \in places <=> entries[i].path \notin repo.sensitive
  BY <1>1 DEF Reads
<1> HIDE DEF got, places
<1>4. IsPicked(entries, places, m)
  BY <1>2, PickedIs
<1> HIDE DEF m
<1>5. /\ m \in Nat /\ DOMAIN read = 1..m
      /\ \A n \in 1..m : \E i \in places : read[n] = entries[i]
      /\ \A i \in places : \E n \in 1..m : read[n] = entries[i]
  BY <1>4 DEF IsPicked
<1>6. Len(read) = m
  <2>1. read = [n \in 1..m |-> entries[Increasing(places)[n]]]
    BY DEF Picked, m
  <2> HIDE DEF read
  <2> QED
    BY <1>5, <2>1
<1> HIDE DEF read
<1>7. \A n \in 1..m : read[n].path \in repo.tracked /\ read[n].path \notin repo.sensitive
  BY <1>1, <1>2, <1>3, <1>5
<1>8. ToSet(read) = {e \in ToSet(entries) : e.path \notin repo.sensitive}
  <2>1. ToSet(read) = {read[n] : n \in 1..m} /\ ToSet(entries) = {entries[i] : i \in DOMAIN entries}
    BY <1>5 DEF ToSet
  <2>2. ASSUME NEW e \in ToSet(read)
        PROVE  e \in ToSet(entries) /\ e.path \notin repo.sensitive
    BY <1>2, <1>5, <1>7, <2>1
  <2>3. ASSUME NEW e \in ToSet(entries), e.path \notin repo.sensitive
        PROVE  e \in ToSet(read)
    BY <1>3, <1>5, <2>1, <2>3
  <2> QED
    BY <2>2, <2>3
<1>9. Len(read) = Cardinality(ToSet(read))
  <2>1. IsFiniteSet(1..m) /\ Cardinality(1..m) = m
    <3>1. 1 \in Int /\ m \in Int
      BY <1>5
    <3>2. IsFiniteSet(1..m) /\ Cardinality(1..m) = IF 1 > m THEN 0 ELSE m - 1 + 1
      BY <3>1, FS_Interval
    <3> QED
      BY <1>5, <3>2
  <2>2. read \in Bijection(1..m, ToSet(read))
    <3>1. read \in [1..m -> ToSet(read)]
      <4>1. read = [n \in 1..m |-> entries[Increasing(places)[n]]]
        BY DEF Picked, m, read
      <4>2. \A n \in 1..m : read[n] \in ToSet(read)
        BY <1>5 DEF ToSet
      <4> QED
        BY <4>1, <4>2
    <3>2. \A x \in ToSet(read) : \E n \in 1..m : read[n] = x
      BY <1>5 DEF ToSet
    <3> QED
      BY <1>1, <1>5, <3>1, <3>2 DEF Bijection, Injection, Surjection, IsInjective
  <2>3. ExistsBijection(1..m, ToSet(read))
    BY <2>2 DEF ExistsBijection
  <2> QED
    BY <1>6, <2>1, <2>3, FS_Bijection
<1>10. TotalSize(read, repo, other) \in Nat
  BY <1>5, <1>6, <1>7, TotalIs
<1> QED
  BY <1>1, <1>5, <1>7, <1>8, <1>9, <1>10, SMTT(30)

-----------------------------------------------------------------------------
(* The order of layers.                                                    *)

LEMMA PrefixIs ==
    ASSUME NEW s \in Seq(Int), NEW t \in Seq(Int)
    PROVE  IsPrefix(s, t) <=> Len(s) <= Len(t) /\ \A i \in 1..Len(s) : s[i] = t[i]
BY DEF IsPrefix

\* Less, on indices alone.
LEMMA LessIs ==
    ASSUME NEW s \in Seq(Int), NEW t \in Seq(Int)
    PROVE  Less(s, t) <=>
             \/ Len(s) < Len(t) /\ \A i \in 1..Len(s) : s[i] = t[i]
             \/ \E i \in 1..Len(s) : i <= Len(t) /\ s[i] < t[i] /\ \A j \in 1..(i - 1) : s[j] = t[j]
<1>1. Len(s) \in Nat /\ Len(t) \in Nat /\ DOMAIN s = 1..Len(s) /\ DOMAIN t = 1..Len(t)
  OBVIOUS
<1>2. IsPrefix(s, t) <=> Len(s) <= Len(t) /\ \A i \in 1..Len(s) : s[i] = t[i]
  BY PrefixIs
<1>3. \A i : i \in DOMAIN s \intersect DOMAIN t <=> i \in 1..Len(s) /\ i <= Len(t)
  BY <1>1
<1>4. Less(s, t) <=>
        \/ Len(s) < Len(t) /\ IsPrefix(s, t)
        \/ \E i \in DOMAIN s \intersect DOMAIN t : s[i] < t[i] /\ \A j \in 1..(i - 1) : s[j] = t[j]
  BY DEF Less
<1>5. Len(s) < Len(t) /\ IsPrefix(s, t) <=> Len(s) < Len(t) /\ \A i \in 1..Len(s) : s[i] = t[i]
  BY <1>1, <1>2
<1> DEFINE Q(i) == s[i] < t[i] /\ \A j \in 1..(i - 1) : s[j] = t[j]
<1> HIDE DEF Q
<1>6. (\E i \in DOMAIN s \intersect DOMAIN t : Q(i)) <=> \E i \in 1..Len(s) : i <= Len(t) /\ Q(i)
  BY <1>3
<1> QED
  BY <1>4, <1>5, <1>6 DEF Q

LEMMA LessIsIrreflexive ==
    ASSUME NEW s \in Seq(Int)
    PROVE  ~Less(s, s)
<1>1. \A i \in 1..Len(s) : s[i] \in Int
  OBVIOUS
<1> QED
  BY <1>1, LessIs

LEMMA LessIsTransitive ==
    ASSUME NEW s \in Seq(Int), NEW t \in Seq(Int), NEW u \in Seq(Int), Less(s, t), Less(t, u)
    PROVE  Less(s, u)
<1>0. /\ Len(s) \in Nat /\ Len(t) \in Nat /\ Len(u) \in Nat
      /\ \A i \in 1..Len(s) : s[i] \in Int
      /\ \A i \in 1..Len(t) : t[i] \in Int
      /\ \A i \in 1..Len(u) : u[i] \in Int
  OBVIOUS
<1>1. CASE /\ Len(s) < Len(t) /\ \A i \in 1..Len(s) : s[i] = t[i]
           /\ Len(t) < Len(u) /\ \A i \in 1..Len(t) : t[i] = u[i]
  <2>1. Len(s) < Len(u) /\ \A i \in 1..Len(s) : i \in 1..Len(t)
    BY <1>0, <1>1
  <2> QED
    BY <1>1, <2>1, LessIs
<1>2. ASSUME Len(s) < Len(t), \A i \in 1..Len(s) : s[i] = t[i],
             NEW k \in 1..Len(t), k <= Len(u), t[k] < u[k], \A j \in 1..(k - 1) : t[j] = u[j]
      PROVE  Less(s, u)
  <2>1. CASE k <= Len(s)
    <3>1. k \in 1..Len(s) /\ s[k] < u[k] /\ \A j \in 1..(k - 1) : j \in 1..Len(s)
      BY <1>0, <1>2, <2>1
    <3>2. \A j \in 1..(k - 1) : s[j] = u[j]
      BY <1>2, <3>1
    <3> QED
      BY <1>2, <3>1, <3>2, LessIs
  <2>2. CASE ~(k <= Len(s))
    <3>1. Len(s) < Len(u) /\ \A j \in 1..Len(s) : j \in 1..(k - 1)
      BY <1>0, <1>2, <2>2
    <3>2. \A j \in 1..Len(s) : s[j] = u[j]
      BY <1>2, <3>1
    <3> QED
      BY <3>1, <3>2, LessIs
  <2> QED
    BY <2>1, <2>2
<1>3. ASSUME Len(t) < Len(u), \A i \in 1..Len(t) : t[i] = u[i],
             NEW k \in 1..Len(s), k <= Len(t), s[k] < t[k], \A j \in 1..(k - 1) : s[j] = t[j]
      PROVE  Less(s, u)
  <2>1. k \in 1..Len(t) /\ k <= Len(u) /\ \A j \in 1..(k - 1) : j \in 1..Len(t)
    BY <1>0, <1>3, SMTT(30)
  <2>2. s[k] < u[k] /\ \A j \in 1..(k - 1) : s[j] = u[j]
    BY <1>3, <2>1
  <2> QED
    BY <2>1, <2>2, LessIs
<1>4. ASSUME NEW k \in 1..Len(s), k <= Len(t), s[k] < t[k], \A j \in 1..(k - 1) : s[j] = t[j],
             NEW l \in 1..Len(t), l <= Len(u), t[l] < u[l], \A j \in 1..(l - 1) : t[j] = u[j]
      PROVE  Less(s, u)
  <2>1. CASE k < l
    <3>1. k <= Len(u) /\ k \in 1..(l - 1) /\ \A j \in 1..(k - 1) : j \in 1..(l - 1)
      BY <1>0, <1>4, <2>1, SMTT(30)
    <3>2. s[k] < u[k] /\ \A j \in 1..(k - 1) : s[j] = u[j]
      BY <1>4, <3>1
    <3> QED
      BY <3>1, <3>2, LessIs
  <2>2. CASE l < k
    <3>1. l \in 1..Len(s) /\ l \in 1..(k - 1) /\ \A j \in 1..(l - 1) : j \in 1..(k - 1)
      BY <1>0, <1>4, <2>2, SMTT(30)
    <3>2. s[l] < u[l] /\ \A j \in 1..(l - 1) : s[j] = u[j]
      BY <1>4, <3>1
    <3> QED
      BY <1>4, <3>1, <3>2, LessIs
  <2>3. CASE k = l
    <3>1. s[k] \in Int /\ t[k] \in Int /\ u[k] \in Int
      BY <1>0, <1>4, <2>3
    <3>2. s[k] < u[k] /\ \A j \in 1..(k - 1) : s[j] = u[j]
      BY <1>4, <2>3, <3>1
    <3> QED
      BY <1>4, <2>3, <3>2, LessIs
  <2> QED
    BY <2>1, <2>2, <2>3
<1> QED
  BY <1>1, <1>2, <1>3, <1>4, LessIs

LEMMA LessIsTotal ==
    ASSUME NEW s \in Seq(Int), NEW t \in Seq(Int), s # t
    PROVE  Less(s, t) \/ Less(t, s)
<1> DEFINE D == {i \in 1..Len(s) : i <= Len(t) /\ s[i] # t[i]}
<1>0. /\ Len(s) \in Nat /\ Len(t) \in Nat
      /\ \A i \in 1..Len(s) : s[i] \in Int
      /\ \A i \in 1..Len(t) : t[i] \in Int
  OBVIOUS
<1>1. CASE D = {}
  <2>1. \A i \in 1..Len(s) : i <= Len(t) => s[i] = t[i]
    BY <1>1
  <2>2. Len(s) # Len(t)
    BY <1>0, <2>1
  <2>3. CASE Len(s) < Len(t)
    <3>1. \A i \in 1..Len(s) : i <= Len(t)
      BY <1>0, <2>3
    <3> QED
      BY <2>1, <2>3, <3>1, LessIs
  <2>4. CASE Len(t) < Len(s)
    <3>1. \A i \in 1..Len(t) : i <= Len(t) /\ i \in 1..Len(s)
      BY <1>0, <2>4
    <3> QED
      BY <2>1, <2>4, <3>1, LessIs
  <2> QED
    BY <1>0, <2>2, <2>3, <2>4
<1>2. CASE D # {}
  <2>1. D \in SUBSET Nat
    OBVIOUS
  <2>2. PICK k \in D : \A i \in D : k <= i
    BY <1>2, <2>1, LeastExists
  <2>3. k \in 1..Len(s) /\ k \in 1..Len(t) /\ k <= Len(t) /\ k <= Len(s) /\ s[k] # t[k]
    BY <1>0, <2>2
  <2>4. \A j \in 1..(k - 1) : s[j] = t[j]
    <3>1. \A j \in 1..(k - 1) : j \in 1..Len(s) /\ j <= Len(t) /\ ~(k <= j)
      BY <1>0, <2>3
    <3> QED
      BY <2>2, <3>1
  <2>5. s[k] < t[k] \/ t[k] < s[k]
    BY <1>0, <2>3
  <2> QED
    BY <2>3, <2>4, <2>5, LessIs
<1> QED
  BY <1>1, <1>2

LEMMA SlashesAre ==
    ASSUME NEW d \in Seq(Int)
    PROVE  Slashes(d) = (IF Len(d) = 0 THEN 0 ELSE Len(d) - 1) /\ Slashes(d) \in Nat
<1>1. d = <<>> <=> Len(d) = 0
  OBVIOUS
<1> QED
  BY <1>1 DEF Slashes

\* Layers of different directories.
LayersApart(found) ==
    /\ IsFiniteSet(found)
    /\ \A l \in found : l.directory \in Seq(Int)
    /\ \A l, m \in found : l.directory = m.directory => l = m

OrderOf(found) == {pair \in found \X found : LayerBefore(pair[1], pair[2])}

LEMMA LayersAreOrdered ==
    ASSUME NEW found, LayersApart(found)
    PROVE  StrictOrder(found, OrderOf(found))
<1>1. \A l, m \in found : <<l, m>> \in OrderOf(found) <=>
         \/ Slashes(l.directory) < Slashes(m.directory)
         \/ Slashes(l.directory) = Slashes(m.directory) /\ Less(l.directory, m.directory)
  BY DEF OrderOf, LayerBefore
<1>2. \A l \in found : l.directory \in Seq(Int) /\ Slashes(l.directory) \in Nat
  BY SlashesAre DEF LayersApart
<1>3. ASSUME NEW l \in found
      PROVE  <<l, l>> \notin OrderOf(found)
  BY <1>1, <1>2, LessIsIrreflexive
<1>4. ASSUME NEW l \in found, NEW m \in found, NEW n \in found,
             <<l, m>> \in OrderOf(found), <<m, n>> \in OrderOf(found)
      PROVE  <<l, n>> \in OrderOf(found)
  <2> DEFINE a == Slashes(l.directory)
             b == Slashes(m.directory)
             c == Slashes(n.directory)
  <2>1. a \in Nat /\ b \in Nat /\ c \in Nat
    BY <1>2
  <2>2. /\ a < b \/ (a = b /\ Less(l.directory, m.directory))
        /\ b < c \/ (b = c /\ Less(m.directory, n.directory))
    BY <1>1, <1>4
  <2>3. Less(l.directory, m.directory) /\ Less(m.directory, n.directory) => Less(l.directory, n.directory)
    BY <1>2, LessIsTransitive
  <2> HIDE DEF a, b, c
  <2>4. a < c \/ (a = c /\ Less(l.directory, n.directory))
    BY <2>1, <2>2, <2>3
  <2> QED
    BY <1>1, <2>4 DEF a, c
<1>5. ASSUME NEW l \in found, NEW m \in found, l # m
      PROVE  <<l, m>> \in OrderOf(found) \/ <<m, l>> \in OrderOf(found)
  <2>1. l.directory # m.directory
    BY <1>5 DEF LayersApart
  <2>2. Less(l.directory, m.directory) \/ Less(m.directory, l.directory)
    BY <1>2, <2>1, LessIsTotal
  <2>3. \/ Slashes(l.directory) < Slashes(m.directory)
        \/ Slashes(m.directory) < Slashes(l.directory)
        \/ Slashes(l.directory) = Slashes(m.directory)
    BY <1>2
  <2> QED
    BY <1>1, <2>2, <2>3
<1> QED
  BY <1>3, <1>4, <1>5 DEF StrictOrder

\* Of two layers above the same path, the one nearer to it comes later.
LEMMA NearerComesLater ==
    ASSUME NEW path \in Seq(Int), NEW d \in Seq(Int), NEW e \in Seq(Int),
           IsPrefix(d, path), IsPrefix(e, path),
           \/ Slashes(d) < Slashes(e)
           \/ Slashes(d) = Slashes(e) /\ Less(d, e)
    PROVE  Len(d) < Len(e)
<1>1. Len(d) \in Nat /\ Len(e) \in Nat /\ Len(path) \in Nat
  OBVIOUS
<1>2. CASE Slashes(d) < Slashes(e)
  BY <1>1, <1>2, SlashesAre
<1>3. CASE Less(d, e)
  <2>1. \A i \in 1..Len(d) : i <= Len(e) => i \in 1..Len(e)
    BY <1>1
  <2>2. \A i \in 1..Len(d) : i <= Len(e) => d[i] = path[i] /\ e[i] = path[i] /\ d[i] \in Int
    BY <2>1, PrefixIs
  <2>3. ~ \E i \in 1..Len(d) : i <= Len(e) /\ d[i] < e[i]
    BY <2>2
  <2> QED
    BY <1>3, <2>3, LessIs
<1> QED
  BY <1>2, <1>3

-----------------------------------------------------------------------------
(* The layers above a path.                                                *)

LEMMA SortedTakes ==
    ASSUME NEW S, IsFiniteSet(S), NEW R, StrictOrder(S, R), NEW x \in S
    PROVE  \E n \in 1..Cardinality(S) : Sorted(S, R)[n] = x
<1> DEFINE N == 1..Cardinality(S)
<1>1. /\ Cardinality(S) \in Nat /\ Sorted(S, R) \in [N -> S]
      /\ \A n, m \in N : Sorted(S, R)[n] = Sorted(S, R)[m] => n = m
  BY SortedIs
<1>2. IsFiniteSet(N) /\ Cardinality(N) = Cardinality(S)
  <2>1. 1 \in Int /\ Cardinality(S) \in Int
    BY <1>1
  <2>2. IsFiniteSet(N) /\ Cardinality(N) = IF 1 > Cardinality(S) THEN 0 ELSE Cardinality(S) - 1 + 1
    BY <2>1, FS_Interval
  <2> QED
    BY <1>1, <2>2
<1>3. Sorted(S, R) \in Injection(N, S)
  BY <1>1 DEF Injection, IsInjective
<1>4. Sorted(S, R) \in Surjection(N, S)
  BY <1>2, <1>3, FS_Injection
<1> QED
  BY <1>4 DEF Surjection

\* The layers above a path, in the order in which they are applied.
LayersAbove(found, path) ==
    Picked(Layers(found), {i \in DOMAIN Layers(found) : IsDescendant(Layers(found)[i].directory, path)})

\* They are the layers above the path, each once, the nearer the later.
OverIs(found, path, over, n) ==
    /\ n \in Nat /\ Len(over) = n /\ DOMAIN over = 1..n
    /\ \A i \in 1..n : over[i] \in Overlying(found, path)
    /\ \A l \in Overlying(found, path) : \E i \in 1..n : over[i] = l
    /\ \A i, j \in 1..n : i < j => Len(over[i].directory) < Len(over[j].directory)

LEMMA LayersOver ==
    ASSUME NEW found, LayersApart(found), NEW path \in Seq(Int)
    PROVE  OverIs(found, path, LayersAbove(found, path), Len(LayersAbove(found, path)))
<1> DEFINE layers == Layers(found)
           k == Cardinality(found)
           places == {i \in DOMAIN layers : IsDescendant(layers[i].directory, path)}
           n == Cardinality(places)
           at == Increasing(places)
           over == LayersAbove(found, path)
<1>1. IsFiniteSet(found) /\ StrictOrder(found, OrderOf(found)) /\ layers = Sorted(found, OrderOf(found))
  BY LayersAreOrdered DEF LayersApart, Layers, OrderOf
<1>2. /\ k \in Nat /\ layers \in [1..k -> found]
      /\ \A i, j \in 1..k : i < j => <<layers[i], layers[j]>> \in OrderOf(found)
  BY <1>1, SortedIs
<1>3. \A l \in found : \E i \in 1..k : layers[i] = l
  BY <1>1, SortedTakes
<1>4. over = Picked(layers, places)
  BY DEF LayersAbove
<1> HIDE DEF layers, k, over
<1>5. DOMAIN layers = 1..k
  BY <1>2
<1>6. places \in SUBSET Int /\ IsFiniteSet(places) /\ places \subseteq 1..k
  <2>1. places \in SUBSET (1..k)
    BY <1>5
  <2> HIDE DEF places
  <2> QED
    BY <1>2, <2>1, FinitePlaces
<1>7. \A i \in 1..k : i \in places <=> layers[i] \in Overlying(found, path)
  BY <1>2, <1>5 DEF Overlying
<1> HIDE DEF places
<1>8. /\ n \in Nat /\ at \in [1..n -> places]
      /\ \A x \in places : \E i \in 1..n : at[i] = x
      /\ \A i, j \in 1..n : i < j => at[i] < at[j]
  BY <1>6, IncreasingIs, IncreasingGrows
<1>9. over = [i \in 1..n |-> layers[at[i]]]
  BY <1>4 DEF Picked
<1> HIDE DEF n, at
<1>10. Len(over) = n /\ DOMAIN over = 1..n /\ \A i \in 1..n : over[i] = layers[at[i]]
  BY <1>8, <1>9
<1>11. \A i \in 1..n : at[i] \in places /\ at[i] \in 1..k
  BY <1>6, <1>8
<1>12. \A i \in 1..n : over[i] \in Overlying(found, path)
  BY <1>7, <1>10, <1>11
<1>13. ASSUME NEW l \in Overlying(found, path)
       PROVE  \E i \in 1..n : over[i] = l
  <2>1. PICK x \in 1..k : layers[x] = l
    BY <1>3 DEF Overlying
  <2>2. x \in places
    BY <1>7, <2>1
  <2> QED
    BY <1>8, <1>10, <2>1, <2>2
<1>14. ASSUME NEW i \in 1..n, NEW j \in 1..n, i < j
       PROVE  Len(over[i].directory) < Len(over[j].directory)
  <2>1. at[i] < at[j]
    BY <1>8, <1>14
  <2>2. <<over[i], over[j]>> \in OrderOf(found)
    BY <1>2, <1>10, <1>11, <2>1
  <2> DEFINE d == over[i].directory
             e == over[j].directory
  <2>3. IsPrefix(d, path) /\ IsPrefix(e, path) /\ d \in Seq(Int) /\ e \in Seq(Int)
    BY <1>12 DEF Overlying, IsDescendant, LayersApart
  <2>4. \/ Slashes(d) < Slashes(e)
        \/ Slashes(d) = Slashes(e) /\ Less(d, e)
    BY <2>2 DEF OrderOf, LayerBefore
  <2> HIDE DEF d, e
  <2>5. Len(d) < Len(e)
    BY <2>3, <2>4, NearerComesLater
  <2> QED
    BY <2>5 DEF d, e
<1> QED
  BY <1>8, <1>10, <1>12, <1>13, <1>14 DEF OverIs, over

-----------------------------------------------------------------------------
(* Layer upon layer.                                                       *)

Untouched(defaults) == [settings |-> defaults, ignored |-> FALSE, rules |-> <<>>]

IsLayering(f, over, n, path, defaults) ==
    /\ f[0] = Untouched(defaults)
    /\ \A i \in 1..n : f[i] = Layered(f[i - 1], over[i], path)

\* resolve_review_policy's answer for a path, layer upon layer.
Resolved(f, n) ==
    [settings |-> f[n].settings, ignored |-> f[n].ignored,
     rules |-> [id \in {i \in DOMAIN f[n].rules : f[n].rules[i].enabled = <<TRUE>>} |->
                  f[n].rules[id].severity]]

IsResolution(found, path, defaults, over, n, f) ==
    /\ OverIs(found, path, over, n) /\ IsLayering(f, over, n, path, defaults)
    /\ ResolvePath(Layers(found), path, defaults) = Resolved(f, n)

LEMMA ResolvePathIs ==
    ASSUME NEW found, NEW path, NEW defaults, NEW n \in Nat, Len(LayersAbove(found, path)) = n
    PROVE  \E f : /\ IsLayering(f, LayersAbove(found, path), n, path, defaults)
                  /\ ResolvePath(Layers(found), path, defaults) = Resolved(f, n)
<1> DEFINE over == LayersAbove(found, path)
           start == Untouched(defaults)
           Next1(i, x) == Layered(x, over[i], path)
           F(g, k) == [i \in 0..k |-> IF i = 0 THEN start ELSE Next1(i, g[i - 1])]
           upTo == CHOOSE g : g = F(g, n)
           S == {k \in Nat : \E g : g = F(g, k)}
<1>0. ResolvePath(Layers(found), path, defaults) =
        LET last == (CHOOSE g : g = F(g, Len(over)))[Len(over)]
        IN  [settings |-> last.settings, ignored |-> last.ignored,
             rules |-> [id \in {i \in DOMAIN last.rules : last.rules[i].enabled = <<TRUE>>} |->
                          last.rules[id].severity]]
  BY Zenon DEF ResolvePath, LayersAbove, Untouched
<1>00. Len(over) = n
  OBVIOUS
<1> HIDE DEF Next1, over
<1>1. 0 \in S
  <2> DEFINE g == [i \in 0..0 |-> start]
  <2>1. g = F(g, 0)
    <3>1. \A i \in 0..0 : i = 0
      OBVIOUS
    <3> HIDE DEF start
    <3> QED
      BY <3>1
  <2> HIDE DEF g, F
  <2> QED
    BY <2>1
<1> HIDE DEF start
<1>2. ASSUME NEW k \in Nat, k \in S
      PROVE  k + 1 \in S
  <2>1. PICK g : g = F(g, k)
    <3> HIDE DEF F
    <3> QED
      BY <1>2
  <2> DEFINE h == [i \in 0..(k + 1) |-> IF i = k + 1 THEN Next1(k + 1, g[k]) ELSE g[i]]
  <2>2. \A i \in 0..k : g[i] = IF i = 0 THEN start ELSE Next1(i, g[i - 1])
    BY <2>1
  <2>3. ASSUME NEW i \in 0..(k + 1)
        PROVE  h[i] = IF i = 0 THEN start ELSE Next1(i, h[i - 1])
    <3>1. CASE i = k + 1
      <4>1. i # 0 /\ i - 1 = k /\ k \in 0..(k + 1) /\ k # k + 1
        BY <3>1
      <4> QED
        BY <3>1, <4>1
    <3>2. CASE i # k + 1
      <4>1. i \in 0..k /\ (i # 0 => i - 1 \in 0..(k + 1) /\ i - 1 # k + 1)
        BY <3>2
      <4> QED
        BY <2>2, <3>2, <4>1
    <3> QED
      BY <3>1, <3>2
  <2>4. h = [i \in 0..(k + 1) |-> h[i]]
    OBVIOUS
  <2> HIDE DEF h
  <2>5. h = F(h, k + 1)
    BY <2>3, <2>4
  <2> HIDE DEF F
  <2> QED
    BY <2>5
<1> HIDE DEF S, F
<1>3. n \in S
  BY <1>1, <1>2, Induction
<1>4. upTo = F(upTo, n)
  BY <1>3 DEF S
<1>5. ResolvePath(Layers(found), path, defaults) = Resolved(upTo, n)
  BY <1>0, <1>00 DEF Resolved
<1> HIDE DEF upTo
<1>6. IsLayering(upTo, over, n, path, defaults)
  <2>1. 0 \in 0..n /\ \A i \in 1..n : i \in 0..n /\ i # 0
    OBVIOUS
  <2>2. \A i \in 0..n : upTo[i] = IF i = 0 THEN start ELSE Next1(i, upTo[i - 1])
    BY <1>4 DEF F
  <2> QED
    BY <2>1, <2>2 DEF IsLayering, start, Next1
<1> QED
  BY <1>5, <1>6 DEF over

-----------------------------------------------------------------------------
(* The last layer with a say.                                              *)

LEMMA Stays ==
    ASSUME NEW n \in Nat, NEW a \in 0..n, NEW v, \A i \in (a + 1)..n : v[i] = v[i - 1]
    PROVE  v[n] = v[a]
<1> DEFINE S == {d \in Nat : a + d <= n => v[a + d] = v[a]}
<1>1. a \in Nat /\ a <= n
  OBVIOUS
<1>2. 0 \in S
  BY <1>1
<1>3. ASSUME NEW d \in Nat, d \in S
      PROVE  d + 1 \in S
  <2>1. ASSUME a + (d + 1) <= n
        PROVE  v[a + (d + 1)] = v[a]
    <3>1. /\ a + d <= n /\ a + (d + 1) \in (a + 1)..n /\ (a + (d + 1)) - 1 = a + d
      BY <1>1, <2>1
    <3>2. v[a + (d + 1)] = v[a + d]
      BY <3>1
    <3> QED
      BY <1>3, <3>1, <3>2
  <2> QED
    BY <2>1
<1> HIDE DEF S
<1>4. n - a \in Nat /\ a + (n - a) = n
  BY <1>1
<1>5. n - a \in S
  BY <1>2, <1>3, <1>4, Induction
<1> QED
  BY <1>4, <1>5 DEF S

\* The last of some layers.
IsLast(over, n, S, j) == j \in 1..n /\ over[j] \in S /\ \A k \in 1..n : over[k] \in S => k <= j

LEMMA LastOne ==
    ASSUME NEW found, NEW path, NEW over, NEW n, OverIs(found, path, over, n),
           NEW S, S \subseteq Overlying(found, path), S # {}
    PROVE  \E j \in 1..n : IsLast(over, n, S, j)
<1>0. n \in Nat
  BY DEF OverIs
<1>1. PICK l \in S : TRUE
  OBVIOUS
<1>2. PICK i \in 1..n : over[i] = l
  BY DEF OverIs
<1> DEFINE T == {d \in Nat : n - d \in 1..n /\ over[n - d] \in S}
<1>3. T \in SUBSET Nat
  OBVIOUS
<1>4. n - i \in T
  <2>1. n - i \in Nat /\ n - (n - i) = i
    BY <1>0
  <2> QED
    BY <1>2, <2>1
<1>5. PICK d \in T : \A e \in T : d <= e
  <2> HIDE DEF T
  <2> QED
    BY <1>3, <1>4, LeastExists
<1>6. d \in Nat /\ n - d \in 1..n /\ over[n - d] \in S
  BY <1>5
<1>7. ASSUME NEW k \in 1..n, over[k] \in S
      PROVE  k <= n - d
  <2>1. n - k \in Nat /\ n - (n - k) = k
    BY <1>0
  <2>2. n - k \in T
    BY <1>7, <2>1
  <2>3. d <= n - k
    BY <1>5, <2>2
  <2> HIDE DEF T
  <2> QED
    BY <1>0, <1>6, <2>1, <2>3
<1> QED
  BY <1>6, <1>7 DEF IsLast

IsNearest(found, path, over, n, S, j) ==
    /\ LayersApart(found) /\ OverIs(found, path, over, n) /\ S \subseteq Overlying(found, path)
    /\ IsLast(over, n, S, j)

LEMMA NearestIs ==
    ASSUME NEW found, NEW path, NEW over, NEW n, NEW S, NEW j, IsNearest(found, path, over, n, S, j)
    PROVE  Nearest(S) = over[j]
<1> USE DEF IsNearest
<1> DEFINE P(l) == l \in S /\ \A m \in S : Len(m.directory) <= Len(l.directory)
<1>1. \A l \in S : Len(l.directory) \in Nat
  BY DEF LayersApart, Overlying
<1>2. n \in Nat /\ \A k \in 1..n : over[k] \in S => k <= j /\ k \in Nat
  BY DEF IsLast, OverIs
<1>3. over[j] \in S /\ j \in 1..n
  BY DEF IsLast
<1>4. ASSUME NEW m \in S
      PROVE  \E k \in 1..n : over[k] = m /\ k <= j /\ (k # j => Len(m.directory) < Len(over[j].directory))
  <2>1. PICK k \in 1..n : over[k] = m
    BY DEF OverIs
  <2>2. k <= j
    BY <1>2, <2>1
  <2>3. k # j => k < j
    BY <1>2, <1>3, <2>2
  <2> QED
    BY <1>3, <2>1, <2>2, <2>3 DEF OverIs
<1>5. P(over[j])
  <2>1. ASSUME NEW m \in S
        PROVE  Len(m.directory) <= Len(over[j].directory)
    <3>1. PICK k \in 1..n : over[k] = m /\ (k # j => Len(m.directory) < Len(over[j].directory))
      BY <1>4
    <3>2. Len(m.directory) \in Nat /\ Len(over[j].directory) \in Nat
      BY <1>1, <1>3
    <3> QED
      BY <3>1, <3>2
  <2> QED
    BY <1>3, <2>1
<1>6. ASSUME NEW m, P(m)
      PROVE  m = over[j]
  <2>1. PICK k \in 1..n : over[k] = m /\ (k # j => Len(m.directory) < Len(over[j].directory))
    BY <1>4, <1>6
  <2>2. Len(over[j].directory) <= Len(m.directory) /\ Len(m.directory) \in Nat /\ Len(over[j].directory) \in Nat
    BY <1>1, <1>3, <1>6
  <2> QED
    BY <2>1, <2>2
<1>7. Nearest(S) = CHOOSE l : P(l)
  BY DEF Nearest
<1> HIDE DEF P
<1> QED
  BY <1>5, <1>6, <1>7

LEMMA LayeringOf ==
    ASSUME NEW found, LayersApart(found), NEW path \in Seq(Int), NEW defaults
    PROVE  \E f : IsResolution(found, path, defaults, LayersAbove(found, path), Len(LayersAbove(found, path)), f)
<1> DEFINE over == LayersAbove(found, path)
           n == Len(over)
<1>1. OverIs(found, path, over, n)
  BY LayersOver
<1>2. n \in Nat /\ Len(over) = n
  BY <1>1 DEF OverIs
<1>3. Len(LayersAbove(found, path)) = n
  OBVIOUS
<1> HIDE DEF n
<1>4. \E f : /\ IsLayering(f, LayersAbove(found, path), n, path, defaults)
             /\ ResolvePath(Layers(found), path, defaults) = Resolved(f, n)
  BY <1>2, <1>3, ResolvePathIs
<1>5. PICK f : /\ IsLayering(f, over, n, path, defaults)
               /\ ResolvePath(Layers(found), path, defaults) = Resolved(f, n)
  BY <1>4
<1>6. IsResolution(found, path, defaults, over, n, f)
  BY <1>1, <1>5 DEF IsResolution
<1> QED
  BY <1>6 DEF n

StepByStep(f, over, n, path, defaults) ==
    /\ n \in Nat /\ f[0].settings = defaults /\ f[0].ignored = FALSE /\ f[0].rules = <<>>
    /\ \A i \in 1..n : f[i].settings = Patched(f[i - 1].settings, over[i].settings)
    /\ \A i \in 1..n : f[i].ignored = IgnoredBy(f[i - 1].ignored, over[i], path)
    /\ \A i \in 1..n : f[i].rules = Overridden(Ruled(f[i - 1].rules, over[i], path), over[i])

LEMMA LayeringSteps ==
    ASSUME NEW found, NEW path, NEW defaults, NEW over, NEW n, NEW f,
           IsResolution(found, path, defaults, over, n, f)
    PROVE  StepByStep(f, over, n, path, defaults)
<1>1. /\ n \in Nat /\ f[0] = Untouched(defaults)
      /\ \A i \in 1..n : f[i] = Layered(f[i - 1], over[i], path)
  BY DEF IsResolution, OverIs, IsLayering
<1>2. ASSUME NEW p, NEW l
      PROVE  LET q == Layered(p, l, path)
             IN  /\ q.settings = Patched(p.settings, l.settings)
                 /\ q.ignored = IgnoredBy(p.ignored, l, path)
                 /\ q.rules = Overridden(Ruled(p.rules, l, path), l)
  BY DEF Layered
<1>3. f[0].settings = defaults /\ f[0].ignored = FALSE /\ f[0].rules = <<>>
  BY <1>1 DEF Untouched
<1> QED
  BY <1>1, <1>2, <1>3 DEF StepByStep

\* Each setting is the one of the nearest layer with a say.
THEOREM NearestSettings ==
    ASSUME NEW found, LayersApart(found), NEW path \in Seq(Int), NEW defaults, NEW s \in DOMAIN defaults
    PROVE  SettingIsNearest(found, path, defaults, s)
<1> DEFINE over == LayersAbove(found, path)
           n == Len(over)
<1>0. PICK f : IsResolution(found, path, defaults, over, n, f)
  BY LayeringOf
<1> HIDE DEF over, n
<1>1. /\ OverIs(found, path, over, n)
      /\ ResolvePath(Layers(found), path, defaults) = Resolved(f, n)
  BY <1>0 DEF IsResolution
<1>2. ResolvePath(Layers(found), path, defaults).settings[s] = f[n].settings[s]
  BY <1>1 DEF Resolved
<1>3. n \in Nat
  BY <1>1 DEF OverIs
<1>4. f[0].settings = defaults /\ \A i \in 1..n : f[i].settings = Patched(f[i - 1].settings, over[i].settings)
  <2>1. StepByStep(f, over, n, path, defaults)
    BY <1>0, LayeringSteps, Zenon
  <2> QED
    BY <2>1 DEF StepByStep
<1>5. ASSUME NEW i \in 0..n
      PROVE  s \in DOMAIN f[i].settings
  <2> DEFINE v == [k \in 0..i |-> DOMAIN f[k].settings]
  <2>0. i \in Nat /\ 0 \in 0..i /\ i \in 0..i /\ \A k \in (0 + 1)..i : k \in 0..i /\ k - 1 \in 0..i /\ k \in 1..n
    BY <1>3
  <2>1. \A k \in (0 + 1)..i : v[k] = v[k - 1]
    BY <1>4, <2>0 DEF Patched
  <2>2. v[i] = DOMAIN f[i].settings /\ v[0] = DOMAIN defaults
    BY <1>4, <2>0
  <2> HIDE DEF v
  <2>3. v[i] = v[0]
    BY <2>0, <2>1, Stays
  <2> QED
    BY <2>2, <2>3
<1> DEFINE set == {l \in Overlying(found, path) : l.settings[s] # NotSet}
           v == [k \in 0..n |-> f[k].settings[s]]
<1>6. \A i \in 1..n : i - 1 \in 0..n /\ i \in 0..n
  BY <1>3
<1>7. ASSUME NEW i \in 1..n
      PROVE  v[i] = IF over[i].settings[s] = NotSet THEN v[i - 1] ELSE over[i].settings[s]
  <2>1. i \in 0..n /\ i - 1 \in 0..n /\ s \in DOMAIN f[i - 1].settings
    BY <1>5, <1>6
  <2>2. v[i] = f[i].settings[s] /\ v[i - 1] = f[i - 1].settings[s]
    BY <2>1
  <2> HIDE DEF v
  <2>3. f[i].settings = Patched(f[i - 1].settings, over[i].settings)
    BY <1>4
  <2> QED
    BY <2>1, <2>2, <2>3 DEF Patched
<1>8. 0 \in 0..n /\ n \in 0..n /\ v[0] = defaults[s] /\ v[n] = f[n].settings[s]
  BY <1>3, <1>4
<1>9. \A i \in 1..n : over[i] \in set <=> over[i].settings[s] # NotSet
  BY <1>1 DEF OverIs
<1>10. set \subseteq Overlying(found, path)
  OBVIOUS
<1> HIDE DEF v
<1>11. CASE set = {}
  <2>1. \A i \in (0 + 1)..n : v[i] = v[i - 1]
    BY <1>7, <1>9, <1>11
  <2>2. v[n] = v[0]
    BY <1>3, <1>8, <2>1, Stays
  <2> QED
    BY <1>2, <1>8, <1>11, <2>2 DEF SettingIsNearest
<1>12. CASE set # {}
  <2> HIDE DEF set
  <2>1. PICK j \in 1..n : IsLast(over, n, set, j)
    BY <1>1, <1>10, <1>12, LastOne
  <2>2. Nearest(set) = over[j]
    <3>1. IsNearest(found, path, over, n, set, j)
      BY <1>1, <1>10, <2>1 DEF IsNearest
    <3> QED
      BY <3>1, NearestIs
  <2>3. \A i \in (j + 1)..n : i \in 1..n /\ ~(i <= j)
    BY <1>3
  <2>4. \A i \in (j + 1)..n : v[i] = v[i - 1]
    BY <1>7, <1>9, <2>1, <2>3 DEF IsLast
  <2>5. j \in 0..n
    BY <1>3
  <2>6. v[n] = v[j]
    BY <1>3, <2>4, <2>5, Stays
  <2>7. v[j] = over[j].settings[s]
    BY <1>7, <1>9, <2>1 DEF IsLast
  <2> QED
    BY <1>2, <1>8, <1>12, <2>2, <2>6, <2>7 DEF SettingIsNearest, set
<1> QED
  BY <1>11, <1>12

\* A path is ignored as soon as one layer above it says so.
THEOREM IgnoredOnceIsIgnored ==
    ASSUME NEW found, LayersApart(found), NEW path \in Seq(Int), NEW defaults
    PROVE  IgnoredByAny(found, path, defaults)
<1> DEFINE over == LayersAbove(found, path)
           n == Len(over)
<1>0. PICK f : IsResolution(found, path, defaults, over, n, f)
  BY LayeringOf
<1> HIDE DEF over, n
<1>1. /\ OverIs(found, path, over, n)
      /\ ResolvePath(Layers(found), path, defaults) = Resolved(f, n)
  BY <1>0 DEF IsResolution
<1>2. ResolvePath(Layers(found), path, defaults).ignored = f[n].ignored
  BY <1>1 DEF Resolved
<1>3. n \in Nat
  BY <1>1 DEF OverIs
<1> DEFINE set == {l \in Overlying(found, path) : RelativeTo(l.directory, path) \in l.ignored}
           v == [k \in 0..n |-> f[k].ignored]
<1>4. f[0].ignored = FALSE /\ \A i \in 1..n : f[i].ignored = IgnoredBy(f[i - 1].ignored, over[i], path)
  <2>1. StepByStep(f, over, n, path, defaults)
    BY <1>0, LayeringSteps, Zenon
  <2> QED
    BY <2>1 DEF StepByStep
<1>5. \A i \in 1..n : over[i] \in set <=> RelativeTo(over[i].directory, path) \in over[i].ignored
  BY <1>1 DEF OverIs
<1>6. \A i \in 1..n : i - 1 \in 0..n /\ i \in 0..n
  BY <1>3
<1>7. set \subseteq Overlying(found, path)
  OBVIOUS
<1>7a. (\E l \in Overlying(found, path) : RelativeTo(l.directory, path) \in l.ignored) <=> set # {}
  OBVIOUS
<1> HIDE DEF set
<1>8. \A i \in 1..n : v[i] = (v[i - 1] \/ over[i] \in set)
  BY <1>4, <1>5, <1>6 DEF IgnoredBy
<1>9. 0 \in 0..n /\ n \in 0..n /\ v[0] = FALSE /\ v[n] = f[n].ignored
  BY <1>3, <1>4
<1> HIDE DEF v
<1>10. \A i \in 0..n : v[i] \in BOOLEAN
  <2>1. \A i \in 0..n : i = 0 \/ i \in 1..n
    BY <1>3
  <2> QED
    BY <1>8, <1>9, <2>1
<1>11. CASE set = {}
  <2>1. \A i \in (0 + 1)..n : v[i] = v[i - 1]
    BY <1>6, <1>8, <1>10, <1>11
  <2>2. v[n] = v[0]
    BY <1>3, <1>9, <2>1, Stays
  <2> QED
    BY <1>2, <1>7a, <1>9, <1>11, <2>2 DEF IgnoredByAny
<1>12. CASE set # {}
  <2>1. PICK j \in 1..n : IsLast(over, n, set, j)
    BY <1>1, <1>7, <1>12, LastOne
  <2>3. \A i \in (j + 1)..n : i \in 1..n /\ ~(i <= j)
    BY <1>3
  <2>4. \A i \in (j + 1)..n : v[i] = v[i - 1]
    BY <1>6, <1>8, <1>10, <2>1, <2>3 DEF IsLast
  <2>5. j \in 0..n
    BY <1>3
  <2>6. v[n] = v[j]
    BY <1>3, <2>4, <2>5, Stays
  <2>7. v[j] = TRUE
    BY <1>8, <2>1 DEF IsLast
  <2> QED
    BY <1>2, <1>7a, <1>9, <1>12, <2>6, <2>7 DEF IgnoredByAny
<1> QED
  BY <1>11, <1>12

-----------------------------------------------------------------------------
(* Rules.                                                                  *)

\* What a layer says of a rule.
Declares(l, path, id) == id \in DOMAIN l.rules /\ RelativeTo(l.directory, path) \in l.rules[id].glob
Changes(l, id, field) == id \in DOMAIN l.overrides /\ l.overrides[id][field] # NotSet
Declared(l, id) == [severity |-> l.rules[id].severity, enabled |-> l.rules[id].enabled]

\* A rule with one layer more.
RuleGoes(r, r2, l, path, id) ==
    /\ id \in DOMAIN r2 <=> id \in DOMAIN r \/ Declares(l, path, id)
    /\ id \in DOMAIN r2 =>
         LET base == IF Declares(l, path, id) THEN Declared(l, id) ELSE r[id]
         IN  r2[id] = IF id \in DOMAIN l.overrides THEN Patched(base, l.overrides[id]) ELSE base

LEMMA RuleStep ==
    ASSUME NEW r, NEW l, NEW path, IsDescendant(l.directory, path), NEW id
    PROVE  RuleGoes(r, Overridden(Ruled(r, l, path), l), l, path, id)
<1> DEFINE declared == {x \in DOMAIN l.rules : ScopeMatches(l.directory, l.rules[x].glob, path)}
           mid == Ruled(r, l, path)
           base == IF Declares(l, path, id) THEN Declared(l, id) ELSE r[id]
<1>1. id \in declared <=> Declares(l, path, id)
  BY DEF ScopeMatches, Declares
<1>2. mid = [x \in (DOMAIN r) \union declared |-> IF x \in declared THEN Declared(l, x) ELSE r[x]]
  BY DEF Ruled, Declared
<1> HIDE DEF declared, mid
<1>3. DOMAIN mid = (DOMAIN r) \union declared
  BY <1>2
<1>4. id \in DOMAIN mid => mid[id] = base
  BY <1>1, <1>2, <1>3
<1>5. DOMAIN Overridden(mid, l) = DOMAIN mid
  BY DEF Overridden
<1>6. id \in DOMAIN mid =>
        Overridden(mid, l)[id] = IF id \in DOMAIN l.overrides THEN Patched(mid[id], l.overrides[id]) ELSE mid[id]
  BY DEF Overridden
<1> HIDE DEF base
<1>7. id \in DOMAIN mid <=> id \in DOMAIN r \/ Declares(l, path, id)
  BY <1>1, <1>3
<1> QED
  BY <1>4, <1>5, <1>6, <1>7 DEF RuleGoes, base, mid

Fields == {"severity", "enabled"}

LEMMA RuleFields ==
    ASSUME NEW r, NEW r2, NEW l, NEW path, NEW id, RuleGoes(r, r2, l, path, id), id \in DOMAIN r2
    PROVE  /\ Declares(l, path, id) \/ DOMAIN r[id] = Fields => DOMAIN r2[id] = Fields
           /\ \A x \in Fields :
                Declares(l, path, id) \/ DOMAIN r[id] = Fields =>
                r2[id][x] = IF Changes(l, id, x) THEN l.overrides[id][x]
                            ELSE IF Declares(l, path, id) THEN l.rules[id][x] ELSE r[id][x]
<1> DEFINE base == IF Declares(l, path, id) THEN Declared(l, id) ELSE r[id]
<1>1. r2[id] = IF id \in DOMAIN l.overrides THEN Patched(base, l.overrides[id]) ELSE base
  BY DEF RuleGoes
<1>2. DOMAIN Declared(l, id) = Fields /\ \A x \in Fields : Declared(l, id)[x] = l.rules[id][x]
  BY DEF Declared, Fields
<1>3. DOMAIN Patched(base, l.overrides[id]) = DOMAIN base
  BY DEF Patched
<1>4. \A x \in DOMAIN base :
        Patched(base, l.overrides[id])[x] = IF l.overrides[id][x] = NotSet THEN base[x] ELSE l.overrides[id][x]
  BY DEF Patched
<1>5. Declares(l, path, id) \/ DOMAIN r[id] = Fields =>
        DOMAIN base = Fields /\ \A x \in Fields : base[x] = IF Declares(l, path, id) THEN l.rules[id][x] ELSE r[id][x]
  BY <1>2
<1> HIDE DEF base
<1> QED
  BY <1>1, <1>3, <1>4, <1>5 DEF Changes

\* The declarations of a rule above a path, and the overrides at or below the
\* nearest of them.
Declaring(found, path, id) == {l \in Overlying(found, path) : Declares(l, path, id)}
Changing(found, path, id, field, near) ==
    {l \in Overlying(found, path) : Changes(l, id, field) /\ Len(l.directory) >= Len(near.directory)}

LEMMA RuleSteps ==
    ASSUME NEW found, NEW path, NEW defaults, NEW over, NEW n, NEW f, NEW id,
           IsResolution(found, path, defaults, over, n, f)
    PROVE  \A i \in 1..n : RuleGoes(f[i - 1].rules, f[i].rules, over[i], path, id)
<1>1. StepByStep(f, over, n, path, defaults)
  BY LayeringSteps, Zenon
<1>2. \A i \in 1..n : IsDescendant(over[i].directory, path)
  BY DEF IsResolution, OverIs, Overlying
<1> QED
  BY <1>1, <1>2, RuleStep DEF StepByStep

LEMMA UndeclaredRule ==
    ASSUME NEW found, NEW path, NEW defaults, NEW over, NEW n, NEW f, NEW id,
           IsResolution(found, path, defaults, over, n, f), Declaring(found, path, id) = {}
    PROVE  id \notin DOMAIN f[n].rules
<1>1. StepByStep(f, over, n, path, defaults)
  BY LayeringSteps, Zenon
<1>2. n \in Nat /\ id \notin DOMAIN f[0].rules
  BY <1>1 DEF StepByStep
<1>3. \A i \in 1..n : ~Declares(over[i], path, id)
  BY DEF IsResolution, OverIs, Declaring
<1>4. \A i \in 1..n : RuleGoes(f[i - 1].rules, f[i].rules, over[i], path, id)
  BY RuleSteps, Zenon
<1> DEFINE v == [i \in 0..n |-> IF id \in DOMAIN f[i].rules THEN 1 ELSE 0]
<1>5. \A i \in (0 + 1)..n : v[i] = v[i - 1]
  <2>1. \A i \in 1..n : i \in 0..n /\ i - 1 \in 0..n
    BY <1>2
  <2>2. \A i \in 1..n : id \in DOMAIN f[i].rules <=> id \in DOMAIN f[i - 1].rules
    BY <1>3, <1>4 DEF RuleGoes
  <2> QED
    BY <2>1, <2>2
<1>6. 0 \in 0..n /\ n \in 0..n /\ v[0] = 0 /\ v[n] = (IF id \in DOMAIN f[n].rules THEN 1 ELSE 0)
  BY <1>2
<1> HIDE DEF v
<1>7. v[n] = v[0]
  BY <1>2, <1>5, <1>6, Stays
<1> QED
  BY <1>6, <1>7

\* From its last declaration on, a rule is there with its two fields.
StaysDeclared(f, j, n, id) ==
    \A m \in j..n : id \in DOMAIN f[m].rules /\ DOMAIN f[m].rules[id] = Fields

LEMMA DeclaredRule ==
    ASSUME NEW found, NEW path, NEW defaults, NEW over, NEW n, NEW f, NEW id, NEW j,
           IsResolution(found, path, defaults, over, n, f),
           IsLast(over, n, Declaring(found, path, id), j)
    PROVE  StaysDeclared(f, j, n, id)
<1>1. StepByStep(f, over, n, path, defaults)
  BY LayeringSteps, Zenon
<1>2. n \in Nat /\ j \in 1..n
  BY <1>1 DEF StepByStep, IsLast
<1>3. \A i \in 1..n : RuleGoes(f[i - 1].rules, f[i].rules, over[i], path, id)
  BY RuleSteps, Zenon
<1>4. Declares(over[j], path, id) /\ \A i \in (j + 1)..n : i \in 1..n /\ ~Declares(over[i], path, id)
  <2>1. \A i \in 1..n : over[i] \in Declaring(found, path, id) <=> Declares(over[i], path, id)
    BY DEF IsResolution, OverIs, Declaring
  <2>2. \A i \in (j + 1)..n : i \in 1..n /\ ~(i <= j)
    BY <1>2
  <2> QED
    BY <2>1, <2>2 DEF IsLast
<1>5. RuleGoes(f[j - 1].rules, f[j].rules, over[j], path, id)
  BY <1>2, <1>3
<1>6. id \in DOMAIN f[j].rules /\ DOMAIN f[j].rules[id] = Fields
  <2>1. id \in DOMAIN f[j].rules
    BY <1>4, <1>5 DEF RuleGoes
  <2> QED
    BY <1>4, <1>5, <2>1, RuleFields
<1> DEFINE P(m) == id \in DOMAIN f[m].rules /\ DOMAIN f[m].rules[id] = Fields
           S == {d \in Nat : j + d <= n => P(j + d)}
<1>7. ASSUME NEW i \in (j + 1)..n, P(i - 1)
      PROVE  P(i)
  <2>0. i \in 1..n /\ ~Declares(over[i], path, id)
    BY <1>4
  <2>1. RuleGoes(f[i - 1].rules, f[i].rules, over[i], path, id)
    BY <1>3, <2>0
  <2>2. id \in DOMAIN f[i].rules
    BY <1>7, <2>1 DEF RuleGoes
  <2>3. DOMAIN f[i].rules[id] = Fields
    BY <1>7, <2>1, <2>2, RuleFields
  <2> QED
    BY <2>2, <2>3
<1>8. P(j)
  BY <1>6
<1> HIDE DEF P
<1>9. 0 \in S
  BY <1>2, <1>8
<1>10. ASSUME NEW d \in Nat, d \in S
       PROVE  d + 1 \in S
  <2>1. ASSUME j + (d + 1) <= n
        PROVE  P(j + (d + 1))
    <3>1. j + d <= n /\ j + (d + 1) \in (j + 1)..n /\ (j + (d + 1)) - 1 = j + d
      BY <1>2, <2>1
    <3>2. P(j + d)
      BY <1>10, <3>1
    <3> QED
      BY <1>7, <3>1, <3>2
  <2> QED
    BY <2>1
<1> HIDE DEF S
<1>11. \A d \in Nat : d \in S
  BY <1>9, <1>10, Induction
<1> SUFFICES ASSUME NEW m \in j..n PROVE P(m)
  BY DEF P, StaysDeclared
<1>12. m - j \in Nat /\ j + (m - j) = m /\ m <= n
  BY <1>2
<1> QED
  BY <1>11, <1>12 DEF S

\* A field of it has the value of the last override since, or the declared one.
LEMMA RuleField ==
    ASSUME NEW found, LayersApart(found), NEW path, NEW defaults, NEW over, NEW n, NEW f, NEW id, NEW j,
           IsResolution(found, path, defaults, over, n, f),
           IsLast(over, n, Declaring(found, path, id), j), NEW x \in Fields
    PROVE  LET changing == Changing(found, path, id, x, over[j])
           IN  f[n].rules[id][x] = IF changing = {} THEN over[j].rules[id][x]
                                   ELSE Nearest(changing).overrides[id][x]
<1> DEFINE changing == Changing(found, path, id, x, over[j])
<1>1. StepByStep(f, over, n, path, defaults)
  BY LayeringSteps, Zenon
<1>2. n \in Nat /\ j \in 1..n
  BY <1>1 DEF StepByStep, IsLast
<1>3. \A i \in 1..n : RuleGoes(f[i - 1].rules, f[i].rules, over[i], path, id)
  BY RuleSteps, Zenon
<1>4. Declares(over[j], path, id) /\ \A i \in (j + 1)..n : i \in 1..n /\ ~Declares(over[i], path, id)
  <2>1. \A i \in 1..n : over[i] \in Declaring(found, path, id) <=> Declares(over[i], path, id)
    BY DEF IsResolution, OverIs, Declaring
  <2>2. \A i \in (j + 1)..n : i \in 1..n /\ ~(i <= j)
    BY <1>2
  <2> QED
    BY <2>1, <2>2 DEF IsLast
<1>5. \A m \in j..n : id \in DOMAIN f[m].rules /\ DOMAIN f[m].rules[id] = Fields
  <2>1. StaysDeclared(f, j, n, id)
    BY DeclaredRule
  <2> QED
    BY <2>1 DEF StaysDeclared
<1>6. f[j].rules[id][x] = IF Changes(over[j], id, x) THEN over[j].overrides[id][x] ELSE over[j].rules[id][x]
  <2>1. j \in j..n /\ RuleGoes(f[j - 1].rules, f[j].rules, over[j], path, id)
    BY <1>2, <1>3
  <2> QED
    BY <1>4, <1>5, <2>1, RuleFields
<1>7. ASSUME NEW i \in (j + 1)..n
      PROVE  f[i].rules[id][x] =
               IF Changes(over[i], id, x) THEN over[i].overrides[id][x] ELSE f[i - 1].rules[id][x]
  <2>1. i \in 1..n /\ i \in j..n /\ i - 1 \in j..n
    BY <1>2
  <2>2. RuleGoes(f[i - 1].rules, f[i].rules, over[i], path, id)
    BY <1>3, <2>1
  <2>3. id \in DOMAIN f[i].rules /\ DOMAIN f[i - 1].rules[id] = Fields /\ ~Declares(over[i], path, id)
    BY <1>4, <1>5, <2>1
  <2> QED
    BY <2>2, <2>3, RuleFields
<1>8. \A i \in 1..n : over[i] \in changing <=> i >= j /\ Changes(over[i], id, x)
  <2> SUFFICES ASSUME NEW i \in 1..n
               PROVE  over[i] \in changing <=> i >= j /\ Changes(over[i], id, x)
    OBVIOUS
  <2>1. over[i] \in Overlying(found, path) /\ over[j] \in Overlying(found, path)
    BY <1>2 DEF IsResolution, OverIs
  <2>2. Len(over[i].directory) \in Nat /\ Len(over[j].directory) \in Nat
    BY <2>1 DEF Overlying, LayersApart
  <2>3. /\ i < j => Len(over[i].directory) < Len(over[j].directory)
        /\ j < i => Len(over[j].directory) < Len(over[i].directory)
    BY <1>2 DEF IsResolution, OverIs
  <2>4. Len(over[i].directory) >= Len(over[j].directory) <=> i >= j
    <3>1. i \in Nat /\ j \in Nat
      BY <1>2
    <3>2. i < j \/ i = j \/ j < i
      BY <3>1
    <3> QED
      BY <2>2, <2>3, <3>1, <3>2
  <2> QED
    BY <2>1, <2>4 DEF Changing
<1> DEFINE v == [i \in 0..n |-> f[i].rules[id][x]]
<1>9. \A i \in 0..n : v[i] = f[i].rules[id][x]
  OBVIOUS
<1> HIDE DEF v
<1>10. ASSUME NEW a \in j..n, \A i \in (a + 1)..n : over[i] \notin changing
       PROVE  f[n].rules[id][x] = f[a].rules[id][x]
  <2>1. a \in 0..n /\ n \in 0..n
    BY <1>2
  <2>2. \A i \in (a + 1)..n : i \in (j + 1)..n /\ i \in 1..n /\ i >= j /\ i \in 0..n /\ i - 1 \in 0..n
    BY <1>2
  <2>3. \A i \in (a + 1)..n : v[i] = v[i - 1]
    BY <1>7, <1>8, <1>9, <1>10, <2>2
  <2>4. v[n] = v[a]
    BY <1>2, <2>1, <2>3, Stays
  <2> QED
    BY <1>9, <2>1, <2>4
<1>11. CASE changing = {}
  <2>1. j \in j..n /\ j >= j
    BY <1>2
  <2>2. f[n].rules[id][x] = f[j].rules[id][x]
    BY <1>10, <1>11, <2>1
  <2>3. ~Changes(over[j], id, x)
    BY <1>2, <1>8, <1>11, <2>1
  <2> QED
    BY <1>6, <1>11, <2>2, <2>3
<1>12. CASE changing # {}
  <2>0. changing \subseteq Overlying(found, path) /\ OverIs(found, path, over, n)
    BY DEF Changing, IsResolution
  <2>1. PICK k \in 1..n : IsLast(over, n, changing, k)
    <3> HIDE DEF changing
    <3> QED
      BY <1>12, <2>0, LastOne
  <2>2. Nearest(changing) = over[k]
    <3>1. IsNearest(found, path, over, n, changing, k)
      BY <2>0, <2>1 DEF IsNearest
    <3> HIDE DEF changing
    <3> QED
      BY <3>1, NearestIs
  <2>3. k >= j /\ Changes(over[k], id, x)
    BY <1>8, <2>1 DEF IsLast
  <2>4. k \in j..n /\ (k # j => k \in (j + 1)..n) /\ \A i \in (k + 1)..n : i \in 1..n /\ ~(i <= k)
    BY <1>2, <2>3
  <2>5. f[n].rules[id][x] = f[k].rules[id][x]
    BY <1>10, <2>1, <2>4 DEF IsLast
  <2>6. f[k].rules[id][x] = over[k].overrides[id][x]
    BY <1>6, <1>7, <2>3, <2>4
  <2> QED
    BY <1>12, <2>2, <2>5, <2>6
<1> QED
  BY <1>11, <1>12

\* The rules that hold for a path are those of the nearest declarations and
\* overrides.
THEOREM NearestRules ==
    ASSUME NEW found, LayersApart(found), NEW path \in Seq(Int), NEW defaults, NEW id
    PROVE  RuleIsNearest(found, path, defaults, id)
<1> DEFINE over == LayersAbove(found, path)
           n == Len(over)
<1>0. PICK f : IsResolution(found, path, defaults, over, n, f)
  BY LayeringOf
<1> HIDE DEF over, n
<1>1. OverIs(found, path, over, n) /\ ResolvePath(Layers(found), path, defaults) = Resolved(f, n)
  BY <1>0 DEF IsResolution
<1> DEFINE rules == ResolvePath(Layers(found), path, defaults).rules
           declares == Declaring(found, path, id)
           below(field) == Changing(found, path, id, field, Nearest(declares))
           value(field) == IF below(field) = {} THEN Nearest(declares).rules[id][field]
                           ELSE Nearest(below(field)).overrides[id][field]
           all == f[n].rules
<1>2. rules = [i \in {y \in DOMAIN all : all[y].enabled = <<TRUE>>} |-> all[i].severity]
  BY <1>1 DEF Resolved
<1>3. RuleOf(found, path, id) =
        IF declares = {} \/ value("enabled") # <<TRUE>> THEN NotSet ELSE value("severity")
  BY DEF RuleOf, Declaring, Declares, Changing, Changes
<1>4. /\ id \in DOMAIN rules <=> id \in DOMAIN all /\ all[id].enabled = <<TRUE>>
      /\ id \in DOMAIN rules => rules[id] = all[id].severity
  <2> HIDE DEF rules, all
  <2> QED
    BY <1>2
<1> HIDE DEF rules, all
<1>5. RuleIsNearest(found, path, defaults, id) <=>
        RuleOf(found, path, id) = IF id \in DOMAIN rules THEN rules[id] ELSE NotSet
  BY DEF RuleIsNearest, rules
<1>6. CASE declares = {}
  <2>1. id \notin DOMAIN all
    BY <1>0, <1>6, UndeclaredRule DEF all
  <2> QED
    BY <1>3, <1>4, <1>5, <1>6, <2>1
<1>7. CASE declares # {}
  <2>0. declares \subseteq Overlying(found, path)
    BY DEF Declaring
  <2>1. PICK j \in 1..n : IsLast(over, n, declares, j)
    <3> HIDE DEF declares
    <3> QED
      BY <1>1, <1>7, <2>0, LastOne
  <2>2. Nearest(declares) = over[j]
    <3>1. IsNearest(found, path, over, n, declares, j)
      BY <1>1, <2>0, <2>1 DEF IsNearest
    <3> HIDE DEF declares
    <3> QED
      BY <3>1, NearestIs
  <2>3. id \in DOMAIN all
    <3>1. n \in j..n
      BY <1>1 DEF OverIs
    <3>2. StaysDeclared(f, j, n, id)
      BY <1>0, <2>1, DeclaredRule
    <3> QED
      BY <3>1, <3>2 DEF all, StaysDeclared
  <2>4. ASSUME NEW x \in Fields
        PROVE  all[id][x] = value(x)
    <3> DEFINE changing == Changing(found, path, id, x, over[j])
    <3>1. f[n].rules[id][x] = IF changing = {} THEN over[j].rules[id][x]
                              ELSE Nearest(changing).overrides[id][x]
      BY <1>0, <2>1, RuleField
    <3>2. changing = below(x)
      BY <2>2
    <3> HIDE DEF changing, declares
    <3> QED
      BY <2>2, <3>1, <3>2 DEF all
  <2>5. all[id].severity = value("severity") /\ all[id].enabled = value("enabled")
    <3>1. "severity" \in Fields /\ "enabled" \in Fields
      BY DEF Fields
    <3>2. all[id]["severity"] = value("severity") /\ all[id]["enabled"] = value("enabled")
      BY <2>4, <3>1
    <3> HIDE DEF value
    <3> QED
      BY <3>2
  <2> HIDE DEF value
  <2> QED
    BY <1>3, <1>4, <1>5, <1>7, <2>3, <2>5
<1> QED
  BY <1>6, <1>7

-----------------------------------------------------------------------------
(* Which overrides discovery accepts.                                      *)

\* An ancestor was seen before, unless it is the root and the directory is one
\* of the root's that sorts before ".diffuse".
LEMMA AncestorsComeFirst ==
    ASSUME NEW l, NEW m, l.directory \in Seq(Int), m.directory \in Seq(Int),
           IsDescendant(m.directory, l.directory), l.directory # m.directory
    PROVE  /\ Len(m.directory) < Len(l.directory)
           /\ ~(Len(l.directory) = 1 /\ l.directory[1] < DotDiffuse) <=> ValidatedBefore(m, l)
<1> DEFINE d == m.directory
           e == l.directory
           dd == Append(d, DotDiffuse)
           ee == Append(e, DotDiffuse)
<1>1. /\ Len(d) \in Nat /\ Len(e) \in Nat /\ Len(d) <= Len(e)
      /\ \A i \in 1..Len(d) : d[i] = e[i]
  BY PrefixIs DEF IsDescendant
<1>2. DotDiffuse \in Int
  BY DEF DotDiffuse
<1>3. Len(d) # Len(e)
  <2>1. d \in Seq(Int) /\ e \in Seq(Int) /\ d # e
    OBVIOUS
  <2> HIDE DEF d, e
  <2> QED
    BY <1>1, <2>1, SMTT(30)
<1>4. Len(d) < Len(e)
  BY <1>1, <1>3
<1>5. /\ Slashes(d) = IF Len(d) = 0 THEN 0 ELSE Len(d) - 1
      /\ Slashes(e) = IF Len(e) = 0 THEN 0 ELSE Len(e) - 1
  BY SlashesAre
<1>6. ValidatedBefore(m, l) <=> Slashes(d) < Slashes(e) \/ (Slashes(d) = Slashes(e) /\ Less(dd, ee))
  BY DEF ValidatedBefore
<1>7. dd \in Seq(Int) /\ ee \in Seq(Int) /\ Len(dd) = Len(d) + 1 /\ Len(ee) = Len(e) + 1
  BY <1>2
<1>8. /\ \A i \in 1..Len(d) : dd[i] = d[i]
      /\ \A i \in 1..Len(e) : ee[i] = e[i] /\ e[i] \in Int
      /\ dd[Len(d) + 1] = DotDiffuse /\ ee[Len(e) + 1] = DotDiffuse
  BY <1>2
<1>9. Less(dd, ee) <=>
        \/ Len(dd) < Len(ee) /\ \A i \in 1..Len(dd) : dd[i] = ee[i]
        \/ \E i \in 1..Len(dd) : i <= Len(ee) /\ dd[i] < ee[i] /\ \A j \in 1..(i - 1) : dd[j] = ee[j]
  BY <1>7, LessIs
<1> HIDE DEF d, e, dd, ee
<1>10. CASE Len(d) = 0 /\ Len(e) = 1
  <2>1. Len(dd) = 1 /\ Len(ee) = 2 /\ 1..Len(dd) = {1} /\ dd[1] = DotDiffuse /\ ee[1] = e[1] /\ e[1] \in Int
    BY <1>7, <1>8, <1>10
  <2>2. \A j : j \notin 1..(1 - 1)
    OBVIOUS
  <2>3. Less(dd, ee) <=> DotDiffuse = e[1] \/ DotDiffuse < e[1]
    BY <1>9, <2>1, <2>2
  <2>4. Slashes(d) = 0 /\ Slashes(e) = 0
    BY <1>5, <1>10
  <2>5. e[1] < DotDiffuse <=> ~(DotDiffuse = e[1] \/ DotDiffuse < e[1])
    BY <1>2, <2>1
  <2> QED
    BY <1>4, <1>6, <1>10, <2>3, <2>4, <2>5 DEF d, e
<1>11. CASE ~(Len(d) = 0 /\ Len(e) = 1)
  <2>1. Slashes(d) < Slashes(e) /\ Len(e) # 1
    <3>1. ASSUME NEW a \in Nat, NEW b \in Nat, a < b, ~(a = 0 /\ b = 1)
          PROVE  (IF a = 0 THEN 0 ELSE a - 1) < (IF b = 0 THEN 0 ELSE b - 1) /\ b # 1
      BY <3>1
    <3>2. Len(d) \in Nat /\ Len(e) \in Nat
      BY <1>1
    <3> QED
      BY <1>4, <1>5, <1>11, <3>1, <3>2
  <2>2. ValidatedBefore(m, l) /\ ~(Len(e) = 1 /\ e[1] < DotDiffuse)
    BY <1>6, <2>1
  <2> QED
    BY <1>4, <2>2 DEF d, e
<1> QED
  BY <1>10, <1>11

\* Discovery accepts what it should, if no directory of the root sorts before
\* ".diffuse".
THEOREM OverridesHaveRules ==
    ASSUME NEW found, LayersApart(found),
           \A l \in found : Len(l.directory) = 1 => DotDiffuse <= l.directory[1]
    PROVE  ValidRuleOverrides(found) <=> OverridesAreKnown(found)
<1>1. ASSUME NEW l \in found, NEW m \in found, IsDescendant(m.directory, l.directory)
      PROVE  m = l \/ ValidatedBefore(m, l)
  <2>1. CASE l.directory = m.directory
    BY <2>1 DEF LayersApart
  <2>2. CASE l.directory # m.directory
    <3>1. l.directory \in Seq(Int) /\ m.directory \in Seq(Int)
      BY DEF LayersApart
    <3>2. ~(Len(l.directory) = 1 /\ l.directory[1] < DotDiffuse)
      <4>1. ASSUME Len(l.directory) = 1
            PROVE  ~(l.directory[1] < DotDiffuse)
        <5>1. l.directory[1] \in Int
          BY <3>1, <4>1
        <5> QED
          BY <4>1, <5>1 DEF DotDiffuse
      <4> QED
        BY <4>1
    <3> QED
      BY <1>1, <2>2, <3>1, <3>2, AncestorsComeFirst
  <2> QED
    BY <2>1, <2>2
<1> QED
  BY <1>1 DEF ValidRuleOverrides, OverridesAreKnown

\* A directory of the root that sorts before ".diffuse" cannot override a rule
\* of the root: the policy is refused although the rule is there.
THEOREM EarlyNamesAreRefused ==
    ASSUME NEW root, NEW dir, NEW id, root.directory = <<>>, dir.directory \in Seq(Int),
           Len(dir.directory) = 1, dir.directory[1] < DotDiffuse,
           id \in DOMAIN root.rules, id \in DOMAIN dir.overrides, id \notin DOMAIN dir.rules
    PROVE  /\ ~ValidRuleOverrides({root, dir})
           /\ DOMAIN root.overrides = {} /\ DOMAIN dir.overrides = {id} => OverridesAreKnown({root, dir})
<1>1. IsDescendant(root.directory, dir.directory) /\ root.directory \in Seq(Int)
  <2>1. ASSUME NEW e \in Seq(Int), NEW d \in Seq(Int), Len(e) = 0
        PROVE  IsPrefix(e, d)
    <3>1. 0 <= Len(d) /\ \A i \in 1..0 : FALSE
      OBVIOUS
    <3> QED
      BY <2>1, <3>1, PrefixIs
  <2>2. root.directory \in Seq(Int) /\ Len(root.directory) = 0
    OBVIOUS
  <2> QED
    BY <2>1, <2>2 DEF IsDescendant
<1>2. root.directory # dir.directory
  OBVIOUS
<1>3. ~ValidatedBefore(root, dir)
  BY <1>1, <1>2, AncestorsComeFirst
<1>4. root # dir
  BY <1>2
<1>5. ~ValidRuleOverrides({root, dir})
  BY <1>3, <1>4 DEF ValidRuleOverrides
<1> QED
  BY <1>1, <1>5 DEF OverridesAreKnown

-----------------------------------------------------------------------------
(* Retrieval: what the prompt shows.                                       *)

\* Numbers from 1 on, with no gap.
LEMMA NoGap ==
    ASSUME NEW n \in Nat, NEW S \in SUBSET (1..n), \A m \in S : \A i \in 1..m : i \in S
    PROVE  \E k \in 0..n : S = 1..k
<1> DEFINE T == {d \in Nat : d + 1 \notin S}
<1>1. T \in SUBSET Nat /\ n \in T
  <2>1. n + 1 \notin 1..n
    OBVIOUS
  <2> QED
    BY <2>1
<1>2. PICK k \in T : \A d \in T : k <= d
  <2> HIDE DEF T
  <2> QED
    BY <1>1, LeastExists
<1>3. k \in Nat /\ k + 1 \notin S /\ k <= n
  BY <1>1, <1>2
<1>4. ASSUME NEW i \in 1..k
      PROVE  i \in S
  <2>1. i - 1 \in Nat /\ ~(k <= i - 1) /\ (i - 1) + 1 = i
    BY <1>3
  <2>2. i - 1 \notin T
    <3> HIDE DEF T
    <3> QED
      BY <1>2, <2>1
  <2> QED
    BY <2>1, <2>2
<1>5. ASSUME NEW i \in S
      PROVE  i \in 1..k
  <2>1. i \in 1..n
    OBVIOUS
  <2>2. CASE i > k
    <3>1. k + 1 \in 1..i
      BY <1>3, <2>1, <2>2
    <3> QED
      BY <1>3, <3>1
  <2> QED
    BY <1>3, <2>1, <2>2
<1>6. S = 1..k
  BY <1>4, <1>5
<1>7. k \in 0..n
  BY <1>3
<1> QED
  BY <1>6, <1>7

\* The room before each block.
Block == [header : Nat, content : Nat]
IsRoom(room, blocks, n, start, truncation) ==
    /\ room \in [0..n -> Int] /\ room[0] = start
    /\ \A i \in 1..n : room[i] = room[i - 1] - BlockSize(blocks[i], room[i - 1], truncation)
ShownIn(room, blocks, n, truncation) ==
    [m \in {p \in 1..n : \A i \in 1..p : Begins(blocks[i], room[i - 1])} |->
       Least(BlockSize(blocks[m], room[m - 1], truncation), room[m - 1])]

LEMMA BlocksAre ==
    ASSUME NEW blocks \in Seq(Block)
    PROVE  \A i \in 1..Len(blocks) : blocks[i].header \in Nat /\ blocks[i].content \in Nat
<1>1. ASSUME NEW b \in Block
      PROVE  b.header \in Nat /\ b.content \in Nat
  BY DEF Block
<1>2. \A i \in 1..Len(blocks) : blocks[i] \in Block
  OBVIOUS
<1> QED
  BY <1>1, <1>2

LEMMA RoomIs ==
    ASSUME NEW blocks \in Seq(Block), NEW introduction \in Nat, NEW truncation \in Nat, NEW max \in Nat
    PROVE  \E room : /\ IsRoom(room, blocks, Len(blocks), max - introduction, truncation)
                     /\ FormatContext(blocks, introduction, truncation, max) =
                          ShownIn(room, blocks, Len(blocks), truncation)
<1> DEFINE n == Len(blocks)
           start == max - introduction
           F(g) == [i \in 0..n |-> IF i = 0 THEN start
                                   ELSE g[i - 1] - BlockSize(blocks[i], g[i - 1], truncation)]
           room == CHOOSE g : g = F(g)
           moves == [i \in 1..n |-> [x \in Int |-> x - BlockSize(blocks[i], x, truncation)]]
           r == Run(Int, moves, n, start)
<1>0. n \in Nat /\ start \in Int
  OBVIOUS
<1>1. FormatContext(blocks, introduction, truncation, max) = ShownIn(room, blocks, n, truncation)
  BY Zenon DEF FormatContext, ShownIn
<1>2. ASSUME NEW i \in 1..n, NEW x \in Int
      PROVE  BlockSize(blocks[i], x, truncation) \in Int
  <2>1. blocks[i].header \in Nat /\ blocks[i].content \in Nat
    BY BlocksAre
  <2> DEFINE h == blocks[i].header
             c == blocks[i].content
  <2>2. h \in Int /\ c \in Int /\ truncation \in Int /\ 0 \in Int
    BY <2>1
  <2>3. BlockSize(blocks[i], x, truncation) =
          h + (IF c <= x - h THEN c ELSE Most(0, x - h - truncation) + truncation)
    BY DEF BlockSize
  <2> HIDE DEF h, c
  <2>4. Most(0, x - h - truncation) \in Int
    BY <2>2 DEF Most
  <2> QED
    BY <2>2, <2>3, <2>4
<1>3. \A i \in 1..n : moves[i] \in [Int -> Int] /\ \A x \in Int : moves[i][x] = x - BlockSize(blocks[i], x, truncation)
  BY <1>2
<1> HIDE DEF moves, n, start
<1>4. IsRun(r, Int, moves, n, start)
  BY <1>0, <1>3, RunExists
<1>5. r = F(r)
  <2>1. \A i \in 1..n : i - 1 \in 0..n
    BY <1>0
  <2>2. \A i \in 1..n : r[i] = r[i - 1] - BlockSize(blocks[i], r[i - 1], truncation)
    BY <1>3, <1>4, <2>1 DEF IsRun
  <2>3. r \in [0..n -> Int] /\ r[0] = start
    BY <1>4 DEF IsRun
  <2>4. \A i \in 0..n : i # 0 => i \in 1..n
    BY <1>0
  <2> HIDE DEF r
  <2> QED
    BY <2>2, <2>3, <2>4
<1>6. room = F(room)
  BY <1>5
<1> HIDE DEF room, r
<1>7. room = [i \in 0..n |-> room[i]]
  BY <1>6
<1>8. /\ room[0] = start
      /\ \A i \in 1..n : room[i] = room[i - 1] - BlockSize(blocks[i], room[i - 1], truncation)
  <2>1. 0 \in 0..n /\ \A i \in 1..n : i \in 0..n /\ i # 0
    BY <1>0
  <2>2. \A i \in 0..n : room[i] = IF i = 0 THEN start
                                  ELSE room[i - 1] - BlockSize(blocks[i], room[i - 1], truncation)
    BY <1>6
  <2> HIDE DEF F
  <2> QED
    BY <2>1, <2>2
<1> HIDE DEF F
<1>9. \A i \in 1..n : room[i - 1] \in Int => room[i] = moves[i][room[i - 1]]
  BY <1>3, <1>8
<1>10. IsRun(room, Int, moves, n, start)
  BY <1>0, <1>3, <1>7, <1>8, <1>9, RunByRecursion
<1>11. IsRoom(room, blocks, n, start, truncation)
  BY <1>8, <1>10 DEF IsRoom, IsRun
<1> QED
  BY <1>1, <1>11 DEF n, start

\* The retrieved code that a prompt shows stays within its budget, and only the
\* last block is ever cut (format_as_extra_instructions).
THEOREM ContextsFit ==
    ASSUME NEW blocks \in Seq(Block), NEW introduction \in Nat, NEW truncation \in Nat, NEW max \in Nat
    PROVE  FitsIn(blocks, introduction, truncation, max)
<1> DEFINE n == Len(blocks)
           start == max - introduction
           shown == FormatContext(blocks, introduction, truncation, max)
           begun(room) == {p \in 1..n : \A i \in 1..p : Begins(blocks[i], room[i - 1])}
<1>1. PICK room : /\ IsRoom(room, blocks, n, start, truncation)
                  /\ shown = ShownIn(room, blocks, n, truncation)
  BY RoomIs
<1>2. n \in Nat /\ start \in Int /\ \A i \in 1..n : blocks[i].header \in Nat /\ blocks[i].content \in Nat
  BY BlocksAre
<1> HIDE DEF n, start, shown
<1>3. begun(room) \in SUBSET (1..n) /\ \A m \in begun(room) : \A i \in 1..m : i \in begun(room)
  <2>1. ASSUME NEW m \in begun(room), NEW i \in 1..m
        PROVE  i \in begun(room)
    <3>1. i \in 1..n /\ \A j \in 1..i : j \in 1..m
      BY <1>2
    <3> QED
      BY <3>1
  <2> QED
    BY <2>1
<1>4. PICK k \in 0..n : begun(room) = 1..k
  <2> HIDE DEF begun
  <2> QED
    BY <1>2, <1>3, NoGap
<1>5. shown = [m \in 1..k |-> Least(BlockSize(blocks[m], room[m - 1], truncation), room[m - 1])]
  BY <1>1, <1>4 DEF ShownIn
<1>6. \A i \in 1..k : Begins(blocks[i], room[i - 1])
  BY <1>4
<1> HIDE DEF begun
<1>7. k \in Nat /\ k <= n /\ \A i \in 1..k : i \in 1..n /\ i \in 0..n /\ i - 1 \in 0..n
  BY <1>2
<1>8. Len(shown) = k /\ DOMAIN shown = 1..k
  BY <1>5, <1>7
<1> DEFINE size(i) == BlockSize(blocks[i], room[i - 1], truncation)
<1>9. ASSUME NEW i \in 1..k
      PROVE  /\ room[i - 1] \in Int /\ room[i] \in Int /\ size(i) \in Nat
             /\ room[i] = room[i - 1] - size(i) /\ room[i - 1] > 1
             /\ shown[i] = Least(size(i), room[i - 1])
             /\ blocks[i].content > room[i - 1] - blocks[i].header => size(i) >= room[i - 1]
             /\ blocks[i].content <= room[i - 1] - blocks[i].header =>
                  size(i) = blocks[i].header + blocks[i].content
  <2>1. room[i - 1] \in Int /\ room[i] \in Int /\ room[i] = room[i - 1] - size(i)
    BY <1>1, <1>7 DEF IsRoom
  <2>2. room[i - 1] > 1 /\ blocks[i].header < room[i - 1] /\ blocks[i].header \in Nat /\ blocks[i].content \in Nat
    BY <1>2, <1>6, <1>7 DEF Begins
  <2> DEFINE h == blocks[i].header
             c == blocks[i].content
             x == room[i - 1]
  <2>3. size(i) = h + (IF c <= x - h THEN c ELSE Most(0, x - h - truncation) + truncation)
    BY DEF BlockSize
  <2>4. shown[i] = Least(size(i), room[i - 1])
    BY <1>5
  <2>5. h \in Nat /\ c \in Nat /\ x \in Int /\ h < x /\ truncation \in Nat
    BY <2>1, <2>2
  <2> HIDE DEF h, c, x, size
  <2>6. Most(0, x - h - truncation) \in Nat /\ Most(0, x - h - truncation) >= x - h - truncation
    BY <2>5 DEF Most
  <2>7. c > x - h => size(i) >= x
    BY <2>3, <2>5, <2>6
  <2>8. c <= x - h => size(i) = h + c
    BY <2>3, <2>5
  <2>9. size(i) \in Nat
    BY <2>3, <2>5, <2>6
  <2> QED
    BY <2>1, <2>2, <2>4, <2>7, <2>8, <2>9 DEF h, c, x
<1> HIDE DEF size
<1>10. ASSUME NEW i \in 1..k, i < k
       PROVE  shown[i] = blocks[i].header + blocks[i].content /\ shown[i] = room[i - 1] - room[i]
  <2>1. i + 1 \in 1..k /\ (i + 1) - 1 = i
    BY <1>7, <1>10
  <2>2. room[i] > 1
    BY <1>9, <2>1
  <2>3. /\ room[i - 1] \in Int /\ room[i] \in Int /\ size(i) \in Nat /\ room[i] = room[i - 1] - size(i)
    BY <1>9
  <2>4. size(i) < room[i - 1]
    BY <2>2, <2>3
  <2>5. blocks[i].header \in Nat /\ blocks[i].content \in Nat
    BY <1>2, <1>7
  <2>6. ~(blocks[i].content > room[i - 1] - blocks[i].header)
    BY <1>9, <2>3, <2>4
  <2>7. size(i) = blocks[i].header + blocks[i].content
    <3>1. blocks[i].content <= room[i - 1] - blocks[i].header
      BY <2>3, <2>5, <2>6
    <3> QED
      BY <1>9, <3>1
  <2>8. shown[i] = size(i)
    <3>1. ASSUME NEW a \in Int, NEW b \in Int, a < b
          PROVE  Least(a, b) = a
      BY <3>1 DEF Least
    <3>2. shown[i] = Least(size(i), room[i - 1])
      BY <1>9
    <3> QED
      BY <2>3, <2>4, <3>1, <3>2
  <2> QED
    BY <2>3, <2>7, <2>8
<1>11. \A i \in 1..k : shown[i] \in Nat /\ shown[i] <= room[i - 1] 
  <2> SUFFICES ASSUME NEW i \in 1..k
               PROVE  shown[i] \in Nat /\ shown[i] <= room[i - 1] 
    OBVIOUS
  <2>1. room[i - 1] \in Int /\ size(i) \in Nat /\ room[i - 1] > 1 /\ shown[i] = Least(size(i), room[i - 1])
    BY <1>9
  <2> QED
    BY <2>1 DEF Least
<1>12. PICK s : IsSum(s, shown, k)
  BY <1>7, <1>8, <1>11, SumIs
<1>13. /\ s \in [0..k -> Nat] /\ s[0] = 0 /\ SumOf(shown) = s[k]
       /\ \A i \in 1..k : s[i] = s[i - 1] + shown[i]
  BY <1>12 DEF IsSum
<1>14. room[0] = start
  BY <1>1 DEF IsRoom
<1> DEFINE S == {i \in Nat : i < k => s[i] = start - room[i]}
<1>15. 0 \in S
  BY <1>2, <1>13, <1>14
<1>16. ASSUME NEW i \in Nat, i \in S
       PROVE  i + 1 \in S
  <2>1. ASSUME i + 1 < k
        PROVE  s[i + 1] = start - room[i + 1]
    <3>1. i < k /\ i + 1 \in 1..k /\ (i + 1) - 1 = i
      BY <1>7, <2>1
    <3>2. s[i] = start - room[i]
      BY <1>16, <3>1
    <3>3. s[i + 1] = s[i] + shown[i + 1] /\ shown[i + 1] = room[i] - room[i + 1]
      BY <1>10, <1>13, <2>1, <3>1
    <3>4. room[i] \in Int /\ room[i + 1] \in Int
      BY <1>9, <3>1
    <3> QED
      BY <1>2, <3>2, <3>3, <3>4
  <2> QED
    BY <2>1
<1> HIDE DEF S
<1>17. \A i \in Nat : i \in S
  BY <1>15, <1>16, Induction
<1>18. ASSUME k # 0
       PROVE  introduction + SumOf(shown) <= max
  <2>1. k \in 1..k /\ k - 1 \in Nat /\ k - 1 < k
    BY <1>7, <1>18
  <2>2. s[k - 1] = start - room[k - 1]
    BY <1>17, <2>1 DEF S
  <2>3. s[k] = s[k - 1] + shown[k] /\ shown[k] <= room[k - 1] /\ shown[k] \in Nat /\ room[k - 1] \in Int
    BY <1>9, <1>11, <1>13, <2>1
  <2>4. s[k] <= start
    BY <1>2, <2>2, <2>3
  <2>5. s[k] \in Nat
    BY <1>2, <2>2, <2>3, <1>13, <1>7
  <2> QED
    BY <1>13, <2>4, <2>5 DEF start
<1>19. shown # <<>> => k # 0
  BY <1>5, <1>7
<1>20. \A i \in 1..(k - 1) : i \in 1..k /\ i < k
  BY <1>7
<1> QED
  BY <1>8, <1>10, <1>18, <1>19, <1>20 DEF FitsIn, shown

-----------------------------------------------------------------------------
(* Cut lists.                                                              *)

Shorter(cut, list, n, limit, k) ==
    /\ k \in Nat /\ k = Least(n, limit) /\ k <= n /\ k <= limit /\ (n <= limit => k = n)
    /\ cut = [i \in 1..k |-> list[i]] /\ Len(cut) = k /\ DOMAIN cut = 1..k
    /\ \A i \in 1..k : i \in 1..n /\ cut[i] = list[i]

LEMMA UpToIs ==
    ASSUME NEW list, NEW n \in Nat, Len(list) = n, NEW limit \in Nat
    PROVE  Shorter(UpTo(limit, list), list, n, limit, Least(n, limit))
<1> DEFINE k == Least(n, limit)
<1>1. k \in Nat /\ k = Least(n, limit) /\ k <= n /\ k <= limit /\ (n <= limit => k = n)
  BY DEF Least
<1>2. UpTo(limit, list) = [i \in 1..k |-> list[i]]
  BY DEF UpTo
<1> HIDE DEF k
<1>3. Len([i \in 1..k |-> list[i]]) = k
  BY <1>1
<1>4. \A i \in 1..k : i \in 1..n
  BY <1>1
<1> QED
  BY <1>1, <1>2, <1>3, <1>4 DEF Shorter, k

\* A sorted set, cut off.
CutSorted(cut, S, R, limit, k) ==
    /\ k \in Nat /\ k = Least(Cardinality(S), limit) /\ Len(cut) = k /\ DOMAIN cut = 1..k
    /\ k <= limit
    /\ \A i \in 1..k : cut[i] \in S
    /\ \A i, j \in 1..k : cut[i] = cut[j] => i = j
    /\ \A i, j \in 1..k : i < j => <<cut[i], cut[j]>> \in R
    /\ \A x, y \in S : <<x, y>> \in R /\ y \in ToSet(cut) => x \in ToSet(cut)
    /\ Cardinality(S) <= limit => S \subseteq ToSet(cut)

LEMMA CutSortedIs ==
    ASSUME NEW S, IsFiniteSet(S), NEW R, StrictOrder(S, R), NEW limit \in Nat
    PROVE  CutSorted(UpTo(limit, Sorted(S, R)), S, R, limit, Least(Cardinality(S), limit))
<1> DEFINE list == Sorted(S, R)
           n == Cardinality(S)
           cut == UpTo(limit, list)
           k == Least(n, limit)
<1>1. /\ n \in Nat /\ list \in [1..n -> S]
      /\ \A i, j \in 1..n : i < j => <<list[i], list[j]>> \in R
      /\ \A i, j \in 1..n : list[i] = list[j] => i = j
  BY SortedIs
<1>2. \A x \in S : \E i \in 1..n : list[i] = x
  BY SortedTakes
<1> HIDE DEF list, n
<1>3. Len(list) = n
  BY <1>1
<1>4. Shorter(cut, list, n, limit, k)
  BY <1>1, <1>3, UpToIs
<1> HIDE DEF cut, k
<1>5. /\ k \in Nat /\ k = Least(n, limit) /\ k <= n /\ k <= limit /\ (n <= limit => k = n)
      /\ Len(cut) = k /\ DOMAIN cut = 1..k
      /\ \A i \in 1..k : i \in 1..n /\ cut[i] = list[i]
  BY <1>4 DEF Shorter
<1>6. \A i \in 1..k : cut[i] \in S
  BY <1>1, <1>5
<1>7. \A i, j \in 1..k : cut[i] = cut[j] => i = j
  BY <1>1, <1>5
<1>8. \A i, j \in 1..k : i < j => <<cut[i], cut[j]>> \in R
  BY <1>1, <1>5
<1>9. ASSUME NEW x \in S, NEW y \in S, <<x, y>> \in R, y \in ToSet(cut)
      PROVE  x \in ToSet(cut)
  <2>1. PICK j \in 1..k : cut[j] = y
    BY <1>5, <1>9 DEF ToSet
  <2>2. PICK i \in 1..n : list[i] = x
    BY <1>2
  <2>3. j \in 1..n /\ list[j] = y
    BY <1>5, <2>1
  <2>4. ~(j < i) /\ j # i
    <3>1. j < i => <<y, x>> \in R
      BY <1>1, <2>2, <2>3
    <3>2. <<y, x>> \in R => <<x, x>> \in R
      BY <1>9 DEF StrictOrder
    <3>3. <<x, x>> \notin R /\ <<y, y>> \notin R
      BY DEF StrictOrder
    <3> QED
      BY <1>9, <2>2, <2>3, <3>1, <3>2, <3>3
  <2>5. i \in 1..k
    BY <1>1, <1>5, <2>4
  <2> QED
    BY <1>5, <2>2, <2>5 DEF ToSet
<1>10. ASSUME n <= limit, NEW x \in S
       PROVE  x \in ToSet(cut)
  <2>1. PICK i \in 1..n : list[i] = x
    BY <1>2
  <2>2. i \in DOMAIN cut /\ cut[i] = x
    BY <1>5, <1>10, <2>1
  <2> QED
    BY <2>2 DEF ToSet
<1>11. CutSorted(cut, S, R, limit, k)
  BY <1>5, <1>6, <1>7, <1>8, <1>9, <1>10 DEF CutSorted, n
<1> QED
  BY <1>11 DEF cut, list, k, n

-----------------------------------------------------------------------------
(* Sums.                                                                   *)

LEMMA SumOfNothing ==
    ASSUME NEW list, NEW n \in Nat, Len(list) = n, \A i \in 1..n : list[i] = 0
    PROVE  SumOf(list) = 0
<1>1. PICK s : IsSum(s, list, n)
  BY SumIs
<1>2. /\ s \in [0..n -> Nat] /\ s[0] = 0 /\ SumOf(list) = s[n]
      /\ \A i \in 1..n : s[i] = s[i - 1] + list[i]
  BY <1>1 DEF IsSum
<1>3. \A i \in (0 + 1)..n : i \in 1..n /\ i - 1 \in 0..n
  OBVIOUS
<1>4. \A i \in (0 + 1)..n : s[i] = s[i - 1]
  BY <1>2, <1>3
<1>5. 0 \in 0..n
  OBVIOUS
<1>6. s[n] = s[0]
  BY <1>4, <1>5, Stays
<1> QED
  BY <1>2, <1>6

LEMMA SumOfOne ==
    ASSUME NEW list, NEW n \in Nat, Len(list) = n, NEW p \in 1..n, list[p] \in Nat,
           \A i \in 1..n : i # p => list[i] = 0
    PROVE  SumOf(list) = list[p]
<1>0. \A i \in 1..n : list[i] \in Nat
  OBVIOUS
<1>1. PICK s : IsSum(s, list, n)
  BY <1>0, SumIs
<1>2. /\ s \in [0..n -> Nat] /\ s[0] = 0 /\ SumOf(list) = s[n]
      /\ \A i \in 1..n : s[i] = s[i - 1] + list[i]
  BY <1>1 DEF IsSum
<1> DEFINE q == p - 1
<1>3. q \in Nat /\ q \in 0..n /\ p \in 0..n /\ 0 \in 0..q
  OBVIOUS
<1>4. \A i \in (0 + 1)..q : i \in 1..n /\ i # p /\ i - 1 \in 0..n
  OBVIOUS
<1>5. \A i \in (p + 1)..n : i \in 1..n /\ i # p /\ i - 1 \in 0..n
  OBVIOUS
<1>6. s[p] = s[q] + list[p]
  BY <1>2
<1> HIDE DEF q
<1>7. \A i \in (0 + 1)..q : s[i] = s[i - 1]
  BY <1>2, <1>4
<1>8. \A i \in (p + 1)..n : s[i] = s[i - 1]
  BY <1>2, <1>5
<1>9. s[q] = s[0]
  BY <1>3, <1>7, Stays
<1>10. s[n] = s[p]
  BY <1>3, <1>8, Stays
<1> QED
  BY <1>2, <1>6, <1>9, <1>10

LEMMA SumAtLeast ==
    ASSUME NEW list, NEW n \in Nat, Len(list) = n, \A i \in 1..n : list[i] \in Nat, NEW p \in 1..n
    PROVE  list[p] <= SumOf(list)
<1>1. PICK s : IsSum(s, list, n)
  BY SumIs
<1>2. /\ s \in [0..n -> Nat] /\ s[0] = 0 /\ SumOf(list) = s[n]
      /\ \A i \in 1..n : s[i] = s[i - 1] + list[i]
  BY <1>1 DEF IsSum
<1> DEFINE S == {d \in Nat : p + d <= n => list[p] <= s[p + d]}
<1>3. p \in Nat /\ p <= n /\ p - 1 \in 0..n /\ list[p] \in Nat
  OBVIOUS
<1>4. 0 \in S
  <2>1. s[p] = s[p - 1] + list[p] /\ s[p - 1] \in Nat
    BY <1>2, <1>3
  <2> QED
    BY <1>3, <2>1
<1>5. ASSUME NEW d \in Nat, d \in S
      PROVE  d + 1 \in S
  <2>1. ASSUME p + (d + 1) <= n
        PROVE  list[p] <= s[p + (d + 1)]
    <3> DEFINE i == p + (d + 1)
    <3>1. p + d <= n /\ p + d \in 0..n /\ i \in 1..n /\ i - 1 = p + d
      BY <1>3, <2>1
    <3>2. list[p] <= s[p + d] /\ s[p + d] \in Nat
      BY <1>2, <1>5, <3>1
    <3>3. s[i] = s[p + d] + list[i] /\ list[i] \in Nat
      BY <1>2, <3>1
    <3> HIDE DEF i
    <3>4. list[p] <= s[i]
      BY <1>3, <3>2, <3>3
    <3> QED
      BY <3>4 DEF i
  <2> QED
    BY <2>1
<1> HIDE DEF S
<1>6. n - p \in Nat /\ p + (n - p) = n
  BY <1>3
<1>7. n - p \in S
  BY <1>4, <1>5, <1>6, Induction
<1> QED
  BY <1>2, <1>6, <1>7 DEF S

-----------------------------------------------------------------------------
(* Quotients and weights.                                                  *)

LEMMA TimesMore ==
    ASSUME NEW a \in Nat, NEW x \in Nat, NEW y \in Nat, x <= y
    PROVE  a * x <= a * y
<1>1. a * (y - x) >= 0
  OBVIOUS
<1> QED
  BY <1>1

LEMMA QuotientIs ==
    ASSUME NEW d \in Nat, NEW a \in Nat \ {0}
    PROVE  d \div a \in Nat /\ a * (d \div a) <= d /\ d < a * ((d \div a) + 1)
OBVIOUS

LEMMA QuotientFalls ==
    ASSUME NEW d \in Nat, NEW a \in Nat \ {0}, NEW b \in Nat \ {0}, a <= b
    PROVE  d \div b <= d \div a
<1> DEFINE x == d \div a
           y == d \div b
<1>1. x \in Nat /\ y \in Nat /\ d < a * (x + 1) /\ b * y <= d
  BY QuotientIs
<1> HIDE DEF x, y
<1>2. CASE x + 1 <= y
  <2>1. a * (x + 1) <= a * y
    BY <1>1, <1>2, TimesMore
  <2>2. y * a <= y * b
    BY <1>1, TimesMore
  <2>3. a * y = y * a /\ b * y = y * b
    BY <1>1
  <2>4. a * (x + 1) \in Nat /\ a * y \in Nat /\ y * b \in Nat /\ y * a \in Nat
    BY <1>1
  <2> QED
    BY <1>1, <2>1, <2>2, <2>3, <2>4
<1>3. CASE ~(x + 1 <= y)
  BY <1>1, <1>3 DEF x, y
<1> QED
  BY <1>2, <1>3

LEMMA LexicalWeights == 
    ASSUME NEW c \in BOOLEAN
    PROVE  Weight("lexical", c) = (IF c THEN 27 ELSE 36) /\ Weight("graph", c) = (IF c THEN 45 ELSE 60)
<1>1. CHANNEL_WEIGHTS["lexical"] = 36 /\ CHANNEL_WEIGHTS["graph"] = 60
  BY DEF CHANNEL_WEIGHTS
<1>2. (36 * 3) \div 4 = 27 /\ (60 * 3) \div 4 = 45
  OBVIOUS
<1> QED
  BY <1>1, <1>2 DEF Weight

-----------------------------------------------------------------------------
(* The orders of keys and of rows.                                         *)

LEMMA PairIs ==
    ASSUME NEW k \in Int \X Int, NEW l \in Int \X Int, k[1] = l[1], k[2] = l[2]
    PROVE  k = l
<1>1. k = <<k[1], k[2]>> /\ l = <<l[1], l[2]>>
  OBVIOUS
<1> QED
  BY <1>1

ByRank(keys, score, best) == {pair \in keys \X keys : Outranks(score, best, pair[1], pair[2])}

LEMMA RankOrder ==
    ASSUME NEW keys \in SUBSET (Int \X Int), NEW score \in [keys -> Int], NEW best \in [keys -> Int]
    PROVE  StrictOrder(keys, ByRank(keys, score, best))
<1> DEFINE R == ByRank(keys, score, best)
<1>1. \A k, l \in keys : <<k, l>> \in R <=>
        \/ score[k] > score[l]
        \/ score[k] = score[l] /\ best[k] < best[l]
        \/ /\ score[k] = score[l] /\ best[k] = best[l]
           /\ k[1] < l[1] \/ (k[1] = l[1] /\ k[2] < l[2])
  BY DEF ByRank, Outranks
<1>2. \A k \in keys : score[k] \in Int /\ best[k] \in Int /\ k[1] \in Int /\ k[2] \in Int
  OBVIOUS
<1> HIDE DEF R
<1>3. \A k \in keys : <<k, k>> \notin R
  BY <1>1, <1>2
<1>4. ASSUME NEW k \in keys, NEW l \in keys, NEW m \in keys, <<k, l>> \in R, <<l, m>> \in R
      PROVE  <<k, m>> \in R
  <2> DEFINE a == score[k]  b == score[l]  c == score[m]
             p == best[k]   q == best[l]   r == best[m]
  <2>1. /\ \/ a > b
           \/ a = b /\ p < q
           \/ a = b /\ p = q /\ (k[1] < l[1] \/ (k[1] = l[1] /\ k[2] < l[2]))
        /\ \/ b > c
           \/ b = c /\ q < r
           \/ b = c /\ q = r /\ (l[1] < m[1] \/ (l[1] = m[1] /\ l[2] < m[2]))
    BY <1>1, <1>4
  <2>2. /\ a \in Int /\ b \in Int /\ c \in Int /\ p \in Int /\ q \in Int /\ r \in Int
        /\ k[1] \in Int /\ l[1] \in Int /\ m[1] \in Int /\ k[2] \in Int /\ l[2] \in Int /\ m[2] \in Int
    BY <1>2
  <2> HIDE DEF a, b, c, p, q, r
  <2>3. \/ a > c
        \/ a = c /\ p < r
        \/ a = c /\ p = r /\ (k[1] < m[1] \/ (k[1] = m[1] /\ k[2] < m[2]))
    BY <2>1, <2>2
  <2> QED
    BY <1>1, <2>3 DEF a, c, p, r
<1>5. ASSUME NEW k \in keys, NEW l \in keys, k # l
      PROVE  <<k, l>> \in R \/ <<l, k>> \in R
  <2>1. k[1] # l[1] \/ k[2] # l[2]
    <3>1. k \in Int \X Int /\ l \in Int \X Int
      OBVIOUS
    <3> QED
      BY <1>5, <3>1, PairIs
  <2>2. /\ score[k] \in Int /\ best[k] \in Int /\ k[1] \in Int /\ k[2] \in Int
        /\ score[l] \in Int /\ best[l] \in Int /\ l[1] \in Int /\ l[2] \in Int
    BY <1>2
  <2> DEFINE a == score[k]  b == score[l]  p == best[k]  q == best[l]
  <2>3. a \in Int /\ b \in Int /\ p \in Int /\ q \in Int
    BY <2>2
  <2> HIDE DEF a, b, p, q
  <2>4. \/ a > b \/ b > a
        \/ a = b /\ p < q
        \/ a = b /\ q < p
        \/ a = b /\ p = q /\ (k[1] < l[1] \/ (k[1] = l[1] /\ k[2] < l[2]))
        \/ a = b /\ p = q /\ (l[1] < k[1] \/ (l[1] = k[1] /\ l[2] < k[2]))
    BY <2>1, <2>2, <2>3
  <2> QED
    BY <1>1, <2>4 DEF a, b, p, q
<1> QED
  BY <1>3, <1>4, <1>5 DEF StrictOrder, R

SearchRow == [repository : Int, chunk : Int, rank : Int]

LEMMA RowIs ==
    ASSUME NEW x \in SearchRow, NEW y \in SearchRow,
           x.repository = y.repository, x.chunk = y.chunk, x.rank = y.rank
    PROVE  x = y
BY DEF SearchRow

InRankOrder(all) == {pair \in all \X all : RankedBefore(pair[1], pair[2])}

LEMMA RowOrder ==
    ASSUME NEW all \in SUBSET SearchRow
    PROVE  StrictOrder(all, InRankOrder(all))
<1> DEFINE R == InRankOrder(all)
<1>1. \A x, y \in all : <<x, y>> \in R <=>
        \/ x.rank > y.rank
        \/ x.rank = y.rank /\ x.repository < y.repository
        \/ x.rank = y.rank /\ x.repository = y.repository /\ x.chunk < y.chunk
  BY DEF InRankOrder, RankedBefore
<1>2. \A x \in all : x.rank \in Int /\ x.repository \in Int /\ x.chunk \in Int
  BY DEF SearchRow
<1> HIDE DEF R
<1>3. \A x \in all : <<x, x>> \notin R
  BY <1>1, <1>2
<1>4. ASSUME NEW x \in all, NEW y \in all, NEW z \in all, <<x, y>> \in R, <<y, z>> \in R
      PROVE  <<x, z>> \in R
  <2> DEFINE a == x.rank        b == y.rank        c == z.rank
             p == x.repository  q == y.repository  r == z.repository
             u == x.chunk       v == y.chunk       w == z.chunk
  <2>1. /\ a > b \/ (a = b /\ p < q) \/ (a = b /\ p = q /\ u < v)
        /\ b > c \/ (b = c /\ q < r) \/ (b = c /\ q = r /\ v < w)
    BY <1>1, <1>4
  <2>2. /\ a \in Int /\ b \in Int /\ c \in Int /\ p \in Int /\ q \in Int /\ r \in Int
        /\ u \in Int /\ v \in Int /\ w \in Int
    BY <1>2
  <2> HIDE DEF a, b, c, p, q, r, u, v, w
  <2>3. a > c \/ (a = c /\ p < r) \/ (a = c /\ p = r /\ u < w)
    BY <2>1, <2>2
  <2> QED
    BY <1>1, <2>3 DEF a, c, p, r, u, w
<1>5. ASSUME NEW x \in all, NEW y \in all, x # y
      PROVE  <<x, y>> \in R \/ <<y, x>> \in R
  <2>1. x.rank # y.rank \/ x.repository # y.repository \/ x.chunk # y.chunk
    BY <1>5, RowIs
  <2>2. /\ x.rank \in Int /\ x.repository \in Int /\ x.chunk \in Int
        /\ y.rank \in Int /\ y.repository \in Int /\ y.chunk \in Int
    BY <1>2
  <2> QED
    BY <1>1, <2>1, <2>2
<1> QED
  BY <1>3, <1>4, <1>5 DEF StrictOrder, R

-----------------------------------------------------------------------------
(* Shares and scores.                                                      *)

IsRows(rows, n) ==
    n \in Nat /\ Len(rows) = n /\ DOMAIN rows = 1..n /\ \A i \in 1..n : rows[i] \in SearchRow

LEMMA KeysAre ==
    ASSUME NEW rows, NEW n, IsRows(rows, n)
    PROVE  KeysOf(rows) \in SUBSET (Int \X Int) /\ IsFiniteSet(KeysOf(rows))
<1>1. KeysOf(rows) \in SUBSET (Int \X Int)
  BY DEF KeysOf, KeyOf, IsRows, SearchRow
<1>2. IsFiniteSet(1..n)
  BY FS_Interval DEF IsRows
<1> DEFINE f == [i \in 1..n |-> KeyOf(rows[i])]
<1>3. f \in Surjection(1..n, KeysOf(rows))
  BY DEF Surjection, KeysOf, IsRows
<1>4. IsFiniteSet(KeysOf(rows))
  BY <1>2, <1>3, FS_Surjection
<1> QED
  BY <1>1, <1>4

Channels == {"graph", "lexical"}

LEMMA PartsAre ==
    ASSUME NEW i \in Nat
    PROVE  Denominator \div (RRF_OFFSET + i) \in Nat
<1>1. Denominator \in Nat /\ RRF_OFFSET + i \in Nat \ {0}
  BY DEF Denominator, RRF_OFFSET
<1> HIDE DEF Denominator, RRF_OFFSET
<1> QED
  BY <1>1, QuotientIs

LEMMA PartsFall ==
    ASSUME NEW i \in Nat, NEW j \in Nat, i <= j
    PROVE  Denominator \div (RRF_OFFSET + j) <= Denominator \div (RRF_OFFSET + i)
<1> DEFINE a == RRF_OFFSET + i
           b == RRF_OFFSET + j
<1>1. Denominator \in Nat /\ a \in Nat \ {0} /\ b \in Nat \ {0} /\ a <= b
  BY DEF Denominator, RRF_OFFSET
<1> HIDE DEF Denominator, a, b
<1>2. Denominator \div b <= Denominator \div a
  BY <1>1, QuotientFalls
<1> QED
  BY <1>2 DEF a, b

LEMMA WeightsAre ==
    ASSUME NEW channel \in Channels, NEW key, NEW primary
    PROVE  Weight(channel, key[1] # primary) \in Nat
<1> DEFINE c == key[1] # primary
<1>1. c \in BOOLEAN
  OBVIOUS
<1> HIDE DEF c
<1>2. Weight("lexical", c) \in Nat /\ Weight("graph", c) \in Nat
  BY <1>1, LexicalWeights
<1>3. Weight(channel, c) \in Nat
  BY <1>2 DEF Channels
<1> QED
  BY <1>3 DEF c

WorthsOf(rows, channel, key, primary) == [i \in DOMAIN rows |-> Worth(rows, channel, key, primary, i)]

LEMMA WorthsAre ==
    ASSUME NEW rows, NEW n, IsRows(rows, n), NEW channel \in Channels, NEW key, NEW primary
    PROVE  /\ n \in Nat /\ Len(WorthsOf(rows, channel, key, primary)) = n
           /\ \A i \in 1..n :
                /\ WorthsOf(rows, channel, key, primary)[i] = Worth(rows, channel, key, primary, i)
                /\ Worth(rows, channel, key, primary, i) \in Nat
                /\ KeyOf(rows[i]) # key => Worth(rows, channel, key, primary, i) = 0
           /\ Share(rows, channel, key, primary) = SumOf(WorthsOf(rows, channel, key, primary))
<1>1. n \in Nat /\ DOMAIN rows = 1..n
  BY DEF IsRows
<1>2. WorthsOf(rows, channel, key, primary) = [i \in 1..n |-> Worth(rows, channel, key, primary, i)]
  BY <1>1 DEF WorthsOf
<1>3. Len(WorthsOf(rows, channel, key, primary)) = n
  BY <1>1, <1>2
<1>4. ASSUME NEW i \in 1..n
      PROVE  /\ WorthsOf(rows, channel, key, primary)[i] = Worth(rows, channel, key, primary, i)
             /\ Worth(rows, channel, key, primary, i) \in Nat
             /\ KeyOf(rows[i]) # key => Worth(rows, channel, key, primary, i) = 0
  <2> DEFINE w == Weight(channel, key[1] # primary)
             d == Denominator \div (RRF_OFFSET + i)
  <2>0. i \in Nat
    BY <1>1
  <2>a. w \in Nat
    BY WeightsAre
  <2>b. d \in Nat
    BY <2>0, PartsAre
  <2>1. w \in Nat /\ d \in Nat
    BY <2>a, <2>b
  <2>2. Worth(rows, channel, key, primary, i) = IF KeyOf(rows[i]) # key THEN 0 ELSE w * d
    BY DEF Worth
  <2> HIDE DEF w, d
  <2>3. w * d \in Nat
    BY <2>1
  <2> QED
    BY <1>2, <2>2, <2>3
<1>5. Share(rows, channel, key, primary) = SumOf(WorthsOf(rows, channel, key, primary))
  BY DEF Share, WorthsOf
<1> QED
  BY <1>1, <1>3, <1>4, <1>5

LEMMA SharesAre ==
    ASSUME NEW rows, NEW n, IsRows(rows, n), NEW channel \in Channels, NEW key, NEW primary
    PROVE  Share(rows, channel, key, primary) \in Nat
<1> DEFINE list == WorthsOf(rows, channel, key, primary)
<1>1. n \in Nat /\ Len(list) = n /\ (\A i \in 1..n : list[i] \in Nat) /\ Share(rows, channel, key, primary) = SumOf(list)
  BY WorthsAre
<1> HIDE DEF list
<1> QED
  BY <1>1, SumIsNat

ScoreOf(graph, lexical, primary, k) ==
    Share(graph, "graph", k, primary) + Share(lexical, "lexical", k, primary)
BestOf(graph, lexical, k) == Min(Places(graph, k) \union Places(lexical, k))

LEMMA BestIs ==
    ASSUME NEW graph, NEW lexical, NEW g, NEW m, IsRows(graph, g), IsRows(lexical, m),
           NEW k \in KeysOf(graph) \union KeysOf(lexical)
    PROVE  /\ BestOf(graph, lexical, k) \in Nat
           /\ BestOf(graph, lexical, k) \in Places(graph, k) \union Places(lexical, k)
           /\ \A i \in Places(graph, k) \union Places(lexical, k) : BestOf(graph, lexical, k) <= i
<1> DEFINE P == Places(graph, k) \union Places(lexical, k)
<1>1. P \in SUBSET Nat
  BY DEF Places, IsRows
<1>2. P # {}
  BY DEF Places, KeysOf
<1>3. BestOf(graph, lexical, k) = Min(P)
  BY DEF BestOf
<1> HIDE DEF P
<1>4. Min(P) \in P /\ \A x \in P : Min(P) <= x
  BY <1>1, <1>2, MinIs
<1>5. Min(P) \in Nat
  BY <1>1, <1>4
<1> QED
  BY <1>3, <1>4, <1>5 DEF P

Fused(got, keys, graph, lexical, primary, topK) ==
    /\ Cardinality(keys) \in Nat /\ Len(got) = Least(topK, Cardinality(keys)) /\ DOMAIN got = 1..Len(got)
    /\ ToSet(got) \subseteq keys
    /\ \A i, j \in DOMAIN got : got[i] = got[j] => i = j
    /\ \A k, l \in keys :
         (\/ ScoreOf(graph, lexical, primary, k) > ScoreOf(graph, lexical, primary, l)
          \/ /\ ScoreOf(graph, lexical, primary, k) = ScoreOf(graph, lexical, primary, l)
             /\ BestOf(graph, lexical, k) < BestOf(graph, lexical, l))
         /\ l \in ToSet(got) => k \in ToSet(got)

LEMMA FusedIs ==
    ASSUME NEW graph, NEW lexical, NEW g, NEW m, IsRows(graph, g), IsRows(lexical, m), NEW primary,
           NEW topK \in Nat
    PROVE  Fused(FuseCandidates(graph, lexical, primary, topK), KeysOf(graph) \union KeysOf(lexical),
                 graph, lexical, primary, topK)
<1> DEFINE keys == KeysOf(graph) \union KeysOf(lexical)
           score == [k \in keys |-> ScoreOf(graph, lexical, primary, k)]
           best == [k \in keys |-> BestOf(graph, lexical, k)]
           R == ByRank(keys, score, best)
           got == FuseCandidates(graph, lexical, primary, topK)
           n == Least(Cardinality(keys), topK)
<1>1. keys \in SUBSET (Int \X Int) /\ IsFiniteSet(keys)
  <2>1. /\ KeysOf(graph) \in SUBSET (Int \X Int) /\ IsFiniteSet(KeysOf(graph))
        /\ KeysOf(lexical) \in SUBSET (Int \X Int) /\ IsFiniteSet(KeysOf(lexical))
    BY KeysAre
  <2>2. IsFiniteSet(keys)
    BY <2>1, FS_Union
  <2> QED
    BY <2>1, <2>2
<1>2. got = UpTo(topK, Sorted(keys, R))
  BY DEF FuseCandidates, ScoreOf, BestOf, ByRank
<1>3. ASSUME NEW k \in keys
      PROVE  ScoreOf(graph, lexical, primary, k) \in Nat /\ BestOf(graph, lexical, k) \in Nat
  <2>1. "graph" \in Channels /\ "lexical" \in Channels
    BY DEF Channels
  <2>2. Share(graph, "graph", k, primary) \in Nat /\ Share(lexical, "lexical", k, primary) \in Nat
    BY <2>1, SharesAre
  <2>3. BestOf(graph, lexical, k) \in Nat
    BY BestIs
  <2> QED
    BY <2>2, <2>3 DEF ScoreOf
<1> HIDE DEF keys
<1>4. score \in [keys -> Int] /\ best \in [keys -> Int]
  BY <1>3
<1>5. \A k \in keys : score[k] = ScoreOf(graph, lexical, primary, k) /\ best[k] = BestOf(graph, lexical, k)
  OBVIOUS
<1> HIDE DEF score, best, got
<1>6. StrictOrder(keys, R)
  BY <1>1, <1>4, RankOrder
<1>7. \A k, l \in keys : score[k] > score[l] \/ (score[k] = score[l] /\ best[k] < best[l]) => <<k, l>> \in R
  BY DEF ByRank, Outranks
<1> HIDE DEF R
<1>8. CutSorted(got, keys, R, topK, n)
  BY <1>1, <1>2, <1>6, CutSortedIs
<1>9. Cardinality(keys) \in Nat
  BY <1>1, FS_CardinalityType
<1>10. n = Least(topK, Cardinality(keys))
  BY <1>9 DEF Least
<1>11. /\ Len(got) = n /\ DOMAIN got = 1..n
       /\ \A i \in 1..n : got[i] \in keys
       /\ \A i, j \in 1..n : got[i] = got[j] => i = j
       /\ \A x, y \in keys : <<x, y>> \in R /\ y \in ToSet(got) => x \in ToSet(got)
  BY <1>8 DEF CutSorted
<1> HIDE DEF n
<1>12. ToSet(got) \subseteq keys
  BY <1>11 DEF ToSet
<1>13. Fused(got, keys, graph, lexical, primary, topK)
  BY <1>5, <1>7, <1>9, <1>10, <1>11, <1>12, ZenonT(40) DEF Fused
<1> QED
  BY <1>13 DEF got, keys

-----------------------------------------------------------------------------
(* Searches.                                                               *)

\* What the searches may find: a repository's own chunks, each once.
SearchesStand(graph, lexical, primary, related) ==
    /\ IsFiniteSet(related)
    /\ graph[primary] \in Seq(SearchRow)
    /\ \A r \in {primary} \union related :
         /\ lexical[r] \in Seq(SearchRow)
         /\ \A i \in DOMAIN lexical[r] : lexical[r][i].repository = r
         /\ \A i, j \in DOMAIN lexical[r] : lexical[r][i].chunk = lexical[r][j].chunk => i = j

LEMMA LimitIs ==
    ASSUME NEW topK \in Nat
    PROVE  SearchLimit(topK) \in Nat
BY RetrievalAssumption DEF SearchLimit, Least

LEMMA CutRows ==
    ASSUME NEW rows, NEW n, IsRows(rows, n), NEW limit \in Nat
    PROVE  /\ IsRows(UpTo(limit, rows), Least(n, limit))
           /\ ToSet(UpTo(limit, rows)) \subseteq ToSet(rows)
           /\ n <= limit => ToSet(rows) \subseteq ToSet(UpTo(limit, rows))
<1> DEFINE cut == UpTo(limit, rows)
           k == Least(n, limit)
<1>1. n \in Nat /\ Len(rows) = n /\ DOMAIN rows = 1..n /\ \A i \in 1..n : rows[i] \in SearchRow
  BY DEF IsRows
<1>2. Shorter(cut, rows, n, limit, k)
  BY <1>1, UpToIs
<1> HIDE DEF cut, k
<1>3. /\ k \in Nat /\ (n <= limit => k = n) /\ Len(cut) = k /\ DOMAIN cut = 1..k
      /\ \A i \in 1..k : i \in 1..n /\ cut[i] = rows[i]
  BY <1>2 DEF Shorter
<1>4. IsRows(cut, k)
  BY <1>1, <1>3 DEF IsRows
<1>5. ToSet(cut) \subseteq ToSet(rows)
  BY <1>1, <1>3 DEF ToSet
<1>6. n <= limit => ToSet(rows) \subseteq ToSet(cut)
  BY <1>1, <1>3 DEF ToSet
<1> QED
  BY <1>4, <1>5, <1>6 DEF cut, k

LEMMA NearAre ==
    ASSUME NEW graph, NEW primary, graph[primary] \in Seq(SearchRow), NEW topK \in Nat
    PROVE  \E g : /\ IsRows(GraphCandidates(graph, primary, topK), g)
                  /\ ToSet(GraphCandidates(graph, primary, topK)) \subseteq ToSet(graph[primary])
<1> DEFINE rows == graph[primary]
           n == Len(rows)
           limit == SearchLimit(topK)
           cut == UpTo(limit, rows)
<1>1. IsRows(rows, n)
  BY DEF IsRows
<1>2. limit \in Nat /\ MAX_RETRIEVAL_CANDIDATES \in Nat
  BY LimitIs, RetrievalAssumption
<1>3. GraphCandidates(graph, primary, topK) = UpTo(MAX_RETRIEVAL_CANDIDATES, cut)
  BY DEF GraphCandidates
<1> HIDE DEF limit, n, rows
<1>4. IsRows(cut, Least(n, limit)) /\ ToSet(cut) \subseteq ToSet(rows)
  BY <1>1, <1>2, CutRows
<1> DEFINE m == Least(n, limit)
<1> HIDE DEF cut, m
<1>5. IsRows(cut, m)
  BY <1>4 DEF m
<1>6. /\ IsRows(UpTo(MAX_RETRIEVAL_CANDIDATES, cut), Least(m, MAX_RETRIEVAL_CANDIDATES))
      /\ ToSet(UpTo(MAX_RETRIEVAL_CANDIDATES, cut)) \subseteq ToSet(cut)
  BY <1>2, <1>5, CutRows
<1> QED
  BY <1>3, <1>4, <1>6 DEF rows

\* The rows of one search.
LEMMA SearchedIs ==
    ASSUME NEW lexical, NEW primary, NEW changed, NEW topK \in Nat, NEW r, lexical[r] \in Seq(SearchRow)
    PROVE  LET got == ToSet(Searched(lexical, primary, changed, topK, r))
               may == {row \in ToSet(lexical[r]) : r = primary => row.chunk \notin changed}
           IN  /\ IsFiniteSet(got) /\ got \subseteq may /\ got \subseteq SearchRow
               /\ Len(lexical[r]) <= SearchLimit(topK) => may \subseteq got
<1> DEFINE rows == lexical[r]
           n == Len(rows)
           limit == SearchLimit(topK)
           places == {i \in DOMAIN rows : rows[i].chunk \notin changed}
           k == Cardinality(places)
           list == IF r # primary THEN rows ELSE Picked(rows, places)
           may == {row \in ToSet(rows) : r = primary => row.chunk \notin changed}
           got == ToSet(UpTo(limit, list))
<1>0. Searched(lexical, primary, changed, topK, r) = UpTo(limit, list)
  BY DEF Searched
<1>1. n \in Nat /\ DOMAIN rows = 1..n /\ (\A i \in 1..n : rows[i] \in SearchRow) /\ IsRows(rows, n)
  BY DEF IsRows
<1>2. limit \in Nat
  BY LimitIs
<1>3. places \in SUBSET (1..n)
  BY <1>1
<1>4. places \in SUBSET Int /\ IsFiniteSet(places) /\ k \in Nat /\ k <= n
  <2> HIDE DEF places, n
  <2>1. places \in SUBSET Int /\ IsFiniteSet(places)
    BY <1>1, <1>3, FinitePlaces
  <2>2. IsFiniteSet(1..n) /\ Cardinality(1..n) = n
    <3>1. 1 \in Int /\ n \in Int
      BY <1>1
    <3>2. IsFiniteSet(1..n) /\ Cardinality(1..n) = IF 1 > n THEN 0 ELSE n - 1 + 1
      BY <3>1, FS_Interval
    <3> QED
      BY <1>1, <3>2
  <2>3. k \in Nat /\ k <= Cardinality(1..n)
    BY <1>3, <2>1, <2>2, FS_Subset, FS_CardinalityType
  <2> QED
    BY <2>1, <2>2, <2>3
<1>5. \A i \in 1..n : i \in places <=> rows[i].chunk \notin changed
  BY <1>1
<1>6. \A row : row \in ToSet(rows) <=> \E i \in 1..n : row = rows[i]
  BY <1>1 DEF ToSet
<1>7. \A row : row \in may <=> row \in ToSet(rows) /\ (r = primary => row.chunk \notin changed)
  OBVIOUS
<1> HIDE DEF rows, n, limit, places, may, k
<1>8. \E m : IsRows(list, m) /\ m <= n /\ ToSet(list) = may
  <2>1. CASE r # primary
    <3>1. IsRows(list, n) /\ n <= n /\ list = rows
      BY <1>1, <2>1
    <3>2. \A row : row \in ToSet(list) <=> row \in may
      BY <1>7, <2>1, <3>1
    <3> HIDE DEF list
    <3>3. ToSet(list) = may
      BY <3>2
    <3> QED
      BY <3>1, <3>3
  <2>2. CASE r = primary
    <3>1. list = Picked(rows, places)
      BY <2>2
    <3>2. IsPicked(rows, places, k)
      BY <1>4, PickedIs DEF k
    <3> HIDE DEF list
    <3>3. /\ DOMAIN list = 1..k
          /\ \A i \in 1..k : \E j \in places : list[i] = rows[j]
          /\ \A j \in places : \E i \in 1..k : list[i] = rows[j]
      BY <3>1, <3>2 DEF IsPicked
    <3>4. Len(list) = k
      BY <1>4, <3>1, <3>3 DEF Picked, k
    <3>5. IsRows(list, k)
      <4>1. \A i \in 1..k : list[i] \in SearchRow
        BY <1>1, <1>3, <3>3
      <4> QED
        BY <1>4, <3>3, <3>4, <4>1 DEF IsRows
    <3>6. ASSUME NEW row \in ToSet(list)
          PROVE  row \in may
      <4>1. PICK i \in 1..k : row = list[i]
        BY <3>3 DEF ToSet
      <4>2. PICK j \in places : list[i] = rows[j]
        BY <3>3
      <4> QED
        BY <1>3, <1>5, <1>6, <1>7, <4>1, <4>2
    <3>7. ASSUME NEW row \in may
          PROVE  row \in ToSet(list)
      <4>1. PICK j \in 1..n : row = rows[j]
        BY <1>6, <1>7
      <4>2. j \in places
        BY <1>5, <1>7, <2>2, <4>1
      <4>3. PICK i \in 1..k : list[i] = rows[j]
        BY <3>3, <4>2
      <4> QED
        BY <3>3, <4>1, <4>3 DEF ToSet
    <3>8. ToSet(list) = may
      BY <3>6, <3>7
    <3> QED
      BY <1>4, <3>5, <3>8
  <2> QED
    BY <2>1, <2>2
<1> HIDE DEF list
<1>9. PICK m : IsRows(list, m) /\ m <= n /\ ToSet(list) = may
  BY <1>8
<1> DEFINE p == Least(m, limit)
<1>10. /\ IsRows(UpTo(limit, list), p) /\ got \subseteq may
       /\ m <= limit => may \subseteq got
  <2>1. /\ IsRows(UpTo(limit, list), p) /\ ToSet(UpTo(limit, list)) \subseteq ToSet(list)
        /\ m <= limit => ToSet(list) \subseteq ToSet(UpTo(limit, list))
    BY <1>2, <1>9, CutRows
  <2> QED
    BY <1>9, <2>1
<1> DEFINE cut == UpTo(limit, list)
<1> HIDE DEF p
<1>11. p \in Nat /\ DOMAIN cut = 1..p /\ \A i \in 1..p : cut[i] \in SearchRow
  BY <1>10 DEF IsRows
<1>12. IsFiniteSet(got) /\ got \subseteq SearchRow
  <2> HIDE DEF cut
  <2> DEFINE f == [i \in 1..p |-> cut[i]]
  <2>1. got = ToSet(cut)
    BY DEF cut
  <2>2. f \in Surjection(1..p, ToSet(cut))
    BY <1>11 DEF Surjection, ToSet
  <2>3. IsFiniteSet(1..p)
    BY <1>11, FS_Interval
  <2>4. IsFiniteSet(ToSet(cut))
    BY <2>2, <2>3, FS_Surjection
  <2>5. ToSet(cut) \subseteq SearchRow
    BY <1>11 DEF ToSet
  <2> QED
    BY <2>1, <2>4, <2>5
<1>13. n <= limit => m <= limit
  BY <1>1, <1>2, <1>9 DEF IsRows
<1> HIDE DEF got
<1>14. /\ IsFiniteSet(got) /\ got \subseteq may /\ got \subseteq SearchRow
       /\ n <= limit => may \subseteq got
  BY <1>10, <1>12, <1>13
<1>15. got = ToSet(Searched(lexical, primary, changed, topK, r))
  BY <1>0 DEF got
<1> QED
  BY <1>14, <1>15 DEF may, rows, n, limit

-----------------------------------------------------------------------------
(* What is retrieved.                                                      *)

AllSearched(lexical, primary, related, changed, topK) ==
    UNION {ToSet(Searched(lexical, primary, changed, topK, r)) : r \in {primary} \union related}

LEMMA AllSearchedIs ==
    ASSUME NEW graph, NEW lexical, NEW primary, NEW related, SearchesStand(graph, lexical, primary, related),
           NEW changed, NEW topK \in Nat
    PROVE  LET all == AllSearched(lexical, primary, related, changed, topK)
               offered == Offered(lexical, primary, related, changed)
           IN  /\ IsFiniteSet(all) /\ all \in SUBSET SearchRow /\ all \subseteq offered
               /\ (\A r \in {primary} \union related : Len(lexical[r]) <= SearchLimit(topK)) => offered \subseteq all
<1> DEFINE repos == {primary} \union related
           part(r) == ToSet(Searched(lexical, primary, changed, topK, r))
           may(r) == {row \in ToSet(lexical[r]) : r = primary => row.chunk \notin changed}
           parts == {part(r) : r \in repos}
           all == AllSearched(lexical, primary, related, changed, topK)
           offered == Offered(lexical, primary, related, changed)
<1>1. ASSUME NEW r \in repos
      PROVE  /\ IsFiniteSet(part(r)) /\ part(r) \subseteq may(r) /\ part(r) \subseteq SearchRow
             /\ Len(lexical[r]) <= SearchLimit(topK) => may(r) \subseteq part(r)
  <2>1. lexical[r] \in Seq(SearchRow)
    BY DEF SearchesStand
  <2> QED
    BY <2>1, SearchedIs
<1>2. ASSUME NEW r \in repos, NEW row \in ToSet(lexical[r])
      PROVE  row.repository = r
  BY DEF SearchesStand, ToSet
<1>3. \A row : row \in offered <=> \E r \in repos : row \in may(r)
  <2>1. \A row : row \in offered <=>
          (\E r \in repos : row \in ToSet(lexical[r])) /\ (row.repository = primary => row.chunk \notin changed)
    BY DEF Offered
  <2> QED
    BY <1>2, <2>1
<1>4. \A row : row \in all <=> \E r \in repos : row \in part(r)
  BY DEF AllSearched
<1>5. IsFiniteSet(all)
  <2>1. IsFiniteSet(repos)
    <3>1. IsFiniteSet({primary})
      BY FS_Singleton
    <3> QED
      BY <3>1, FS_Union DEF SearchesStand
  <2> DEFINE f == [r \in repos |-> part(r)]
  <2>2. f \in Surjection(repos, parts)
    <3> HIDE DEF part, repos
    <3> QED
      BY DEF Surjection
  <2>3. IsFiniteSet(parts)
    <3> HIDE DEF part, repos, parts, f
    <3> QED
      BY <2>1, <2>2, FS_Surjection
  <2>4. \A S \in parts : IsFiniteSet(S)
    <3> HIDE DEF part, repos
    <3> QED
      BY <1>1
  <2>5. all = UNION parts
    BY DEF AllSearched
  <2> HIDE DEF parts, all
  <2> QED
    BY <2>3, <2>4, <2>5, FS_UNION
<1> HIDE DEF all, offered, part, may, repos
<1>6. all \in SUBSET SearchRow /\ all \subseteq offered
  BY <1>1, <1>3, <1>4
<1>7. (\A r \in repos : Len(lexical[r]) <= SearchLimit(topK)) => offered \subseteq all
  BY <1>1, <1>3, <1>4
<1> QED
  BY <1>5, <1>6, <1>7 DEF all, offered, repos

\* The lexical candidates: the best of what was searched, the best first.
MatchesAre(matches, m, all) ==
    /\ IsRows(matches, m) /\ m <= MAX_RETRIEVAL_CANDIDATES
    /\ \A i \in 1..m : matches[i] \in all
    /\ \A i, j \in 1..m : matches[i] = matches[j] => i = j
    /\ \A i, j \in 1..m : i < j => matches[i].rank >= matches[j].rank
    /\ Cardinality(all) <= MAX_RETRIEVAL_CANDIDATES => all \subseteq ToSet(matches)

LEMMA MatchesSort ==
    ASSUME NEW lexical, NEW primary, NEW related, NEW changed, NEW topK \in Nat,
           NEW all, all = AllSearched(lexical, primary, related, changed, topK),
           IsFiniteSet(all), all \in SUBSET SearchRow
    PROVE  \E m : MatchesAre(LexicalCandidates(lexical, primary, related, changed, topK), m, all)
<1> DEFINE R == InRankOrder(all)
           matches == LexicalCandidates(lexical, primary, related, changed, topK)
           max == MAX_RETRIEVAL_CANDIDATES
           m == Least(Cardinality(all), max)
<1>1. matches = UpTo(max, Sorted(all, R))
  BY DEF LexicalCandidates, AllSearched, InRankOrder
<1>2. StrictOrder(all, R)
  BY RowOrder
<1>3. max \in Nat
  BY RetrievalAssumption
<1>4. \A x, y \in all : <<x, y>> \in R => x.rank >= y.rank
  <2>1. \A x \in all : x.rank \in Int
    BY DEF SearchRow
  <2> QED
    BY <2>1 DEF InRankOrder, RankedBefore
<1> HIDE DEF R, matches, max
<1>5. CutSorted(matches, all, R, max, m)
  BY <1>1, <1>2, <1>3, CutSortedIs
<1> HIDE DEF m
<1>6. /\ m \in Nat /\ Len(matches) = m /\ DOMAIN matches = 1..m /\ m <= max
      /\ \A i \in 1..m : matches[i] \in all
      /\ \A i, j \in 1..m : matches[i] = matches[j] => i = j
      /\ \A i, j \in 1..m : i < j => <<matches[i], matches[j]>> \in R
      /\ Cardinality(all) <= max => all \subseteq ToSet(matches)
  BY <1>5 DEF CutSorted
<1>7. IsRows(matches, m)
  BY <1>6 DEF IsRows
<1>8. \A i, j \in 1..m : i < j => matches[i].rank >= matches[j].rank
  BY <1>4, <1>6
<1>9. MatchesAre(matches, m, all)
  BY <1>6, <1>7, <1>8 DEF MatchesAre, max
<1> QED
  BY <1>9 DEF matches

LEMMA OneMatchEach ==
    ASSUME NEW graph, NEW lexical, NEW primary, NEW related, SearchesStand(graph, lexical, primary, related),
           NEW changed, NEW x \in Offered(lexical, primary, related, changed),
           NEW y \in Offered(lexical, primary, related, changed), KeyOf(x) = KeyOf(y)
    PROVE  x = y
<1> DEFINE repos == {primary} \union related
<1>1. x.repository = y.repository /\ x.chunk = y.chunk
  BY DEF KeyOf
<1>2. PICK r \in repos : x \in ToSet(lexical[r])
  BY DEF Offered
<1>3. PICK s \in repos : y \in ToSet(lexical[s])
  BY DEF Offered
<1>4. PICK i \in DOMAIN lexical[r] : x = lexical[r][i]
  BY <1>2 DEF ToSet
<1>5. PICK j \in DOMAIN lexical[s] : y = lexical[s][j]
  BY <1>3 DEF ToSet
<1>6. x.repository = r /\ y.repository = s
  BY <1>4, <1>5 DEF SearchesStand
<1>7. r = s
  BY <1>1, <1>6
<1> QED
  BY <1>1, <1>4, <1>5, <1>7 DEF SearchesStand

WorthsAt(rows, n, channel, key, primary) ==
    /\ Len(WorthsOf(rows, channel, key, primary)) = n
    /\ Share(rows, channel, key, primary) = SumOf(WorthsOf(rows, channel, key, primary))
    /\ \A i \in 1..n :
         /\ WorthsOf(rows, channel, key, primary)[i] = Worth(rows, channel, key, primary, i)
         /\ Worth(rows, channel, key, primary, i) \in Nat
         /\ KeyOf(rows[i]) # key => Worth(rows, channel, key, primary, i) = 0

LEMMA WorthsAtPlaces ==
    ASSUME NEW rows, NEW n, IsRows(rows, n), NEW channel \in Channels, NEW key, NEW primary
    PROVE  WorthsAt(rows, n, channel, key, primary)
BY WorthsAre DEF WorthsAt

\* A better match of the primary outranks one that the graph does not know.
LEMMA BetterMatchOutranks ==
    ASSUME NEW near, NEW g, IsRows(near, g), NEW matches, NEW m, IsRows(matches, m),
           \A i, j \in 1..m : KeyOf(matches[i]) = KeyOf(matches[j]) => i = j,
           NEW primary, NEW p \in 1..m, NEW q \in 1..m, p < q,
           NEW k, NEW l, k = KeyOf(matches[p]), l = KeyOf(matches[q]), k[1] = primary, Places(near, l) = {}
    PROVE  /\ ScoreOf(near, matches, primary, k) \in Nat /\ ScoreOf(near, matches, primary, l) \in Nat
           /\ ScoreOf(near, matches, primary, k) >= ScoreOf(near, matches, primary, l)
           /\ BestOf(near, matches, k) < BestOf(near, matches, l)
<1> DEFINE a == Share(near, "graph", k, primary)
           b == Share(matches, "lexical", k, primary)
           c == Share(near, "graph", l, primary)
           d == Share(matches, "lexical", l, primary)
           u == Denominator \div (RRF_OFFSET + p)
           v == Denominator \div (RRF_OFFSET + q)
<1>0. "graph" \in Channels /\ "lexical" \in Channels
  BY DEF Channels
<1>1. a \in Nat /\ b \in Nat
  BY <1>0, SharesAre
<1>2. g \in Nat /\ DOMAIN near = 1..g /\ m \in Nat /\ DOMAIN matches = 1..m /\ p \in Nat /\ q \in Nat
  BY DEF IsRows
<1>3. c = 0
  <2> DEFINE list == WorthsOf(near, "graph", l, primary)
  <2>1. \A i \in 1..g : KeyOf(near[i]) # l
    BY <1>2 DEF Places
  <2>2. /\ Len(list) = g /\ c = SumOf(list)
        /\ \A i \in 1..g : /\ list[i] = Worth(near, "graph", l, primary, i)
                           /\ KeyOf(near[i]) # l => Worth(near, "graph", l, primary, i) = 0
    BY <1>0, WorthsAre, SMTT(30)
  <2> HIDE DEF list, c
  <2>3. \A i \in 1..g : list[i] = 0
    BY <2>1, <2>2
  <2> QED
    BY <1>2, <2>2, <2>3, SumOfNothing
<1>4. d = Worth(matches, "lexical", l, primary, q)
  <2> DEFINE list == WorthsOf(matches, "lexical", l, primary)
  <2>1. \A i \in 1..m : i # q => KeyOf(matches[i]) # l
    OBVIOUS
  <2>2. /\ Len(list) = m /\ d = SumOf(list)
        /\ \A i \in 1..m : /\ list[i] = Worth(matches, "lexical", l, primary, i)
                           /\ Worth(matches, "lexical", l, primary, i) \in Nat
                           /\ KeyOf(matches[i]) # l => Worth(matches, "lexical", l, primary, i) = 0
    <3>1. WorthsAt(matches, m, "lexical", l, primary)
      BY <1>0, WorthsAtPlaces
    <3> QED
      BY <3>1 DEF WorthsAt
  <2> HIDE DEF list, d
  <2>3. \A i \in 1..m : i # q => list[i] = 0
    BY <2>1, <2>2
  <2>4. list[q] \in Nat
    BY <2>2
  <2>5. SumOf(list) = list[q]
    BY <1>2, <2>2, <2>3, <2>4, SumOfOne
  <2> QED
    BY <2>2, <2>5
<1>5. b >= Worth(matches, "lexical", k, primary, p) /\ Worth(matches, "lexical", k, primary, p) \in Nat
  <2> DEFINE list == WorthsOf(matches, "lexical", k, primary)
  <2>2. /\ Len(list) = m /\ b = SumOf(list)
        /\ \A i \in 1..m : /\ list[i] = Worth(matches, "lexical", k, primary, i)
                           /\ Worth(matches, "lexical", k, primary, i) \in Nat
    BY <1>0, WorthsAre
  <2> HIDE DEF list, b
  <2>3. \A i \in 1..m : list[i] \in Nat
    BY <2>2
  <2>4. list[p] <= SumOf(list)
    BY <1>2, <2>2, <2>3, SumAtLeast
  <2> QED
    BY <1>1, <2>2, <2>4 DEF b
<1>6. u \in Nat /\ v \in Nat /\ v <= u
  <2>1. u \in Nat
    BY <1>2, PartsAre
  <2>2. v \in Nat
    BY <1>2, PartsAre
  <2>3. p <= q
    BY <1>2
  <2>4. v <= u
    BY <1>2, <2>3, PartsFall
  <2> QED
    BY <2>1, <2>2, <2>4
<1> DEFINE far == l[1] # primary
           near1 == k[1] # primary
<1>7. far \in BOOLEAN /\ near1 \in BOOLEAN /\ near1 = FALSE
  OBVIOUS
<1>8. /\ Worth(matches, "lexical", k, primary, p) = Weight("lexical", near1) * u
      /\ Worth(matches, "lexical", l, primary, q) = Weight("lexical", far) * v
  BY DEF Worth
<1> HIDE DEF u, v, far, near1
<1>9. Weight("lexical", near1) = 36 /\ Weight("lexical", far) \in {27, 36}
  <2>1. Weight("lexical", near1) = (IF near1 THEN 27 ELSE 36)
    BY <1>7, LexicalWeights
  <2>2. Weight("lexical", far) = (IF far THEN 27 ELSE 36)
    BY <1>7, LexicalWeights
  <2> QED
    BY <1>7, <2>1, <2>2
<1>10. d \in Nat /\ b >= d
  <2> DEFINE x == Worth(matches, "lexical", k, primary, p)
             y == Worth(matches, "lexical", l, primary, q)
  <2>1. x = 36 * u /\ (y = 27 * v \/ y = 36 * v)
    BY <1>8, <1>9
  <2>2. b >= x /\ d = y
    BY <1>4, <1>5
  <2> HIDE DEF x, y, b, d
  <2>3. x \in Nat /\ y \in Nat /\ y <= x
    BY <1>6, <2>1
  <2> QED
    BY <1>1, <2>2, <2>3 DEF b
<1>11. ScoreOf(near, matches, primary, k) = a + b /\ ScoreOf(near, matches, primary, l) = c + d
  BY DEF ScoreOf
<1> HIDE DEF a, b, c, d
<1>12. a + b \in Nat /\ c + d \in Nat /\ a + b >= c + d
  <2>1. a \in Nat /\ b \in Nat
    BY <1>1
  <2> QED
    BY <2>1, <1>3, <1>10
<1>13. k \in KeysOf(near) \union KeysOf(matches) /\ l \in KeysOf(near) \union KeysOf(matches)
  BY <1>2 DEF KeysOf
<1>14. BestOf(near, matches, k) \in Nat /\ BestOf(near, matches, k) <= p
  <2>1. p \in Places(near, k) \union Places(matches, k)
    BY <1>2 DEF Places
  <2> QED
    BY <1>13, <2>1, BestIs
<1>15. BestOf(near, matches, l) = q
  <2>1. Places(near, l) \union Places(matches, l) = {q}
    BY <1>2 DEF Places
  <2>2. BestOf(near, matches, l) \in Places(near, l) \union Places(matches, l)
    BY <1>13, BestIs
  <2> QED
    BY <2>1, <2>2
<1> QED
  BY <1>2, <1>11, <1>12, <1>14, <1>15

\* What is retrieved is ranked fairly (retrieve_context_from_plan,
\* _fuse_candidates), whatever the searches find.
THEOREM RetrievalIsFair ==
    ASSUME NEW graph, NEW lexical, NEW primary, NEW related, SearchesStand(graph, lexical, primary, related),
           NEW changed, NEW topK \in Nat
    PROVE  Fairly(graph, lexical, primary, related, changed, topK)
<1> DEFINE got == RetrieveFromPlan(graph, lexical, primary, related, changed, topK)
           near == GraphCandidates(graph, primary, topK)
           matches == LexicalCandidates(lexical, primary, related, changed, topK)
           keys == KeysOf(near) \union KeysOf(matches)
           offered == Offered(lexical, primary, related, changed)
           all == AllSearched(lexical, primary, related, changed, topK)
           few == \A r \in {primary} \union related : Len(lexical[r]) <= SearchLimit(topK)
           max == MAX_RETRIEVAL_CANDIDATES
<1>1. PICK g : IsRows(near, g) /\ ToSet(near) \subseteq ToSet(graph[primary])
  BY NearAre DEF SearchesStand
<1>2. IsFiniteSet(all) /\ all \in SUBSET SearchRow /\ all \subseteq offered /\ (few => offered \subseteq all)
  BY AllSearchedIs
<1>3. PICK m : MatchesAre(matches, m, all)
  <2> HIDE DEF matches
  <2>1. all = AllSearched(lexical, primary, related, changed, topK)
    OBVIOUS
  <2> HIDE DEF all
  <2> QED
    BY <1>2, <2>1, MatchesSort DEF matches
<1>4. got = FuseCandidates(near, matches, primary, topK)
  BY DEF RetrieveFromPlan
<1>5. ASSUME NEW x \in offered, NEW y \in offered, KeyOf(x) = KeyOf(y)
      PROVE  x = y
  BY <1>5, OneMatchEach
<1> HIDE DEF near, matches, offered, all, few, got, max
<1>6. /\ IsRows(matches, m)
      /\ \A i \in 1..m : matches[i] \in all
      /\ \A i, j \in 1..m : matches[i] = matches[j] => i = j
      /\ \A i, j \in 1..m : i < j => matches[i].rank >= matches[j].rank
      /\ Cardinality(all) <= max => all \subseteq ToSet(matches)
  BY <1>3 DEF MatchesAre, max
<1>7. m \in Nat /\ DOMAIN matches = 1..m /\ \A i \in 1..m : matches[i] \in SearchRow
  BY <1>6 DEF IsRows
<1>8. Fused(got, keys, near, matches, primary, topK)
  BY <1>1, <1>4, <1>6, FusedIs
<1> HIDE DEF keys
<1>9. /\ Cardinality(keys) \in Nat /\ Len(got) = Least(topK, Cardinality(keys)) /\ DOMAIN got = 1..Len(got)
      /\ ToSet(got) \subseteq keys
      /\ \A i, j \in DOMAIN got : got[i] = got[j] => i = j
  BY <1>8 DEF Fused
<1>10. ToSet(matches) \subseteq offered
  BY <1>2, <1>6, <1>7 DEF ToSet
<1>11. few /\ Cardinality(offered) <= max => offered \subseteq ToSet(matches)
  <2> SUFFICES ASSUME few, Cardinality(offered) <= max
               PROVE  offered \subseteq ToSet(matches)
    OBVIOUS
  <2>1. all = offered
    BY <1>2
  <2> QED
    BY <1>6, <2>1
<1>12. \A i, j \in 1..m : KeyOf(matches[i]) = KeyOf(matches[j]) => i = j
  BY <1>2, <1>5, <1>6
<1>13. ASSUME NEW k \in keys, NEW l \in ToSet(got), Places(near, l) = {}, k[1] = primary,
              NEW x \in ToSet(matches), KeyOf(x) = k,
              \A y \in ToSet(matches) : KeyOf(y) = l => y.rank < x.rank
       PROVE  k \in ToSet(got)
  <2>1. PICK p \in 1..m : x = matches[p]
    BY <1>7 DEF ToSet
  <2>2. l \in keys
    BY <1>9
  <2>3. PICK q \in 1..m : l = KeyOf(matches[q])
    <3>1. l \notin KeysOf(near)
      BY <1>13 DEF Places, KeysOf
    <3> QED
      BY <1>7, <2>2, <3>1 DEF keys, KeysOf
  <2>4. matches[q] \in ToSet(matches)
    BY <1>7 DEF ToSet
  <2>5. matches[q].rank < matches[p].rank /\ matches[q].rank \in Int /\ matches[p].rank \in Int
    BY <1>7, <1>13, <2>1, <2>3, <2>4 DEF SearchRow
  <2>6. p < q
    <3>1. q < p => matches[q].rank >= matches[p].rank
      BY <1>6
    <3>2. p \in Nat /\ q \in Nat
      BY <1>7
    <3>3. p # q
      BY <2>5
    <3> QED
      BY <2>5, <3>1, <3>2, <3>3
  <2>7. k = KeyOf(matches[p])
    BY <1>13, <2>1
  <2>8. /\ ScoreOf(near, matches, primary, k) \in Nat /\ ScoreOf(near, matches, primary, l) \in Nat
        /\ ScoreOf(near, matches, primary, k) >= ScoreOf(near, matches, primary, l)
        /\ BestOf(near, matches, k) < BestOf(near, matches, l)
    BY <1>1, <1>6, <1>12, <1>13, <2>3, <2>6, <2>7, BetterMatchOutranks
  <2>9. \/ ScoreOf(near, matches, primary, k) > ScoreOf(near, matches, primary, l)
        \/ /\ ScoreOf(near, matches, primary, k) = ScoreOf(near, matches, primary, l)
           /\ BestOf(near, matches, k) < BestOf(near, matches, l)
    BY <2>8
  <2> QED
    BY <1>8, <2>2, <2>9 DEF Fused
<1>14. \A k \in keys \ ToSet(got), l \in ToSet(got) :
         ~ /\ Places(near, l) = {} /\ k[1] = primary
           /\ \E x \in ToSet(matches) :
                KeyOf(x) = k /\ \A y \in ToSet(matches) : KeyOf(y) = l => y.rank < x.rank
  BY <1>13
<1> QED
  BY <1>1, <1>9, <1>10, <1>11, <1>14 DEF Fairly, got, near, matches, keys, offered, few, max

-----------------------------------------------------------------------------
(* The instances that TLC evaluates.                                       *)

LEMMA TextIs ==
    ASSUME NEW L, NEW C, L \subseteq C, NEW n \in Nat, NEW text \in UNION {[1..m -> L] : m \in 0..n}
    PROVE  text \in Seq(C) /\ text \in Seq(L)
<1>1. PICK m \in 0..n : text \in [1..m -> L]
  OBVIOUS
<1>2. m \in Nat /\ text \in [1..m -> C]
  BY <1>1
<1> QED
  BY <1>1, <1>2

LEMMA TextOf ==
    ASSUME NEW L, NEW C, L \subseteq C, NEW n \in Nat, NEW text \in Texts(L, n)
    PROVE  text \in Seq(C)
BY TextIs DEF Texts

LEMMA FilterPatternIs ==
    ASSUME NEW pattern \in FilterPatterns
    PROVE  pattern \in Unbraced \/ \E s, x, y, t \in Pieces : pattern = Braced(s, x, y, t)
BY SMT DEF FilterPatterns

LEMMA BoundedOf ==
    ASSUME NEW L, NEW C, L \subseteq C, NEW n \in Nat, NEW list \in BoundedSeq(L, n)
    PROVE  list \in Seq(C)
BY TextIs DEF BoundedSeq, SeqOf

LEMMA Concat6 ==
    ASSUME NEW C, NEW a \in Seq(C), NEW b \in Seq(C), NEW c \in Seq(C), NEW d \in Seq(C),
           NEW e \in Seq(C), NEW f \in Seq(C), NEW g \in Seq(C)
    PROVE  a \o b \o c \o d \o e \o f \o g \in Seq(C)
<1>1. a \o b \in Seq(C)
  OBVIOUS
<1>2. a \o b \o c \in Seq(C)
  BY <1>1
<1>3. a \o b \o c \o d \in Seq(C)
  BY <1>2
<1>4. a \o b \o c \o d \o e \in Seq(C)
  BY <1>3
<1>5. a \o b \o c \o d \o e \o f \in Seq(C)
  BY <1>4
<1> QED
  BY <1>5

LEMMA GlobsOfTheInstance == GlobsMatch
<1> DEFINE C == {"a", "A", "/", "*", "?", "{", "}", ","}
<1>1. ASSUME NEW pattern \in PathPatterns, NEW path \in Texts({"a", "/"}, 4)
      PROVE  PathMatches(pattern, path) <=> PathIsSpelled(pattern, path)
  <2>1. pattern \in Seq(C)
    <3>1. {"a", "/", "*", "?"} \subseteq C
      OBVIOUS
    <3> HIDE DEF C
    <3> QED
      BY <3>1, TextOf DEF PathPatterns
  <2>2. path \in Seq(C)
    <3>1. {"a", "/"} \subseteq C
      OBVIOUS
    <3> HIDE DEF C
    <3> QED
      BY <3>1, TextOf
  <2>3. "*" \in C
    OBVIOUS
  <2> HIDE DEF C
  <2> QED
    BY <2>1, <2>2, <2>3, PathGlobsMatch
<1>2. ASSUME NEW pattern \in FilterPatterns, NEW value \in Texts({"a", "A", "/"}, 2)
      PROVE  FilterMatches(pattern, value) <=> FilterIsSpelled(pattern, value)
  <2>1. value \in Seq(C)
    <3>1. {"a", "A", "/"} \subseteq C
      OBVIOUS
    <3> HIDE DEF C
    <3> QED
      BY <3>1, TextOf
  <2>2. pattern \in Seq(C)
    <3>1. CASE pattern \in Unbraced
      <4>1. {"a", "*", "{", "}"} \subseteq C
        OBVIOUS
      <4>2. 3 \in Nat
        OBVIOUS
      <4> HIDE DEF C
      <4> QED
        BY <3>1, <4>1, <4>2, TextOf, Zenon DEF Unbraced
    <3>2. CASE pattern \notin Unbraced
      <4>1. PICK s \in Pieces, x \in Pieces, y \in Pieces, t \in Pieces : pattern = Braced(s, x, y, t)
        BY <3>2, FilterPatternIs
      <4>2. \A u \in Pieces : u \in Seq(C)
        <5>1. {"a", "*"} \subseteq C
          OBVIOUS
        <5>2. 1 \in Nat
          OBVIOUS
        <5> HIDE DEF C
        <5> QED
          BY <5>1, <5>2, TextOf, Zenon DEF Pieces
      <4>3. <<"{">> \in Seq(C) /\ <<",">> \in Seq(C) /\ <<"}">> \in Seq(C)
        OBVIOUS
      <4> HIDE DEF C
      <4> QED
        BY <4>1, <4>2, <4>3, Concat6 DEF Braced
    <3> QED
      BY <3>1, <3>2
  <2> HIDE DEF C
  <2> QED
    BY <2>1, <2>2, FilterGlobsMatch
<1> QED
  BY <1>1, <1>2 DEF GlobsMatch

LEMMA FourAreFinite ==
    ASSUME NEW a, NEW b, NEW c, NEW d
    PROVE  IsFiniteSet({a, b, c, d})
<1>1. IsFiniteSet({a}) /\ IsFiniteSet({b}) /\ IsFiniteSet({c}) /\ IsFiniteSet({d})
  BY FS_Singleton
<1>2. IsFiniteSet({a} \union {b}) /\ IsFiniteSet({c} \union {d})
  BY <1>1, FS_Union
<1>3. IsFiniteSet(({a} \union {b}) \union ({c} \union {d}))
  BY <1>2, FS_Union
<1>4. {a, b, c, d} = ({a} \union {b}) \union ({c} \union {d})
  OBVIOUS
<1> QED
  BY <1>3, <1>4

LEMMA FourDirectories ==
    ASSUME NEW root, NEW dir, NEW sub, NEW beside, root.directory = <<>>, dir.directory = << 3 >>,
           sub.directory = <<3, 4>>, beside.directory = << 4 >>
    PROVE  LayersApart({root, dir, sub, beside})
<1> DEFINE found == {root, dir, sub, beside}
<1>1. IsFiniteSet(found)
  BY FourAreFinite
<1>2. \A l \in found : l.directory \in Seq(Int)
  <2>1. root.directory \in Seq(Int)
    OBVIOUS
  <2>2. dir.directory \in Seq(Int) /\ sub.directory \in Seq(Int) /\ beside.directory \in Seq(Int)
    OBVIOUS
  <2> QED
    BY <2>1, <2>2
<1>3. \A l, m \in found : l.directory = m.directory => l = m
  <2> DEFINE e == <<>>
             x == <<3>>
             y == <<3, 4>>
             z == <<4>>
  <2>1. Len(e) = 0 /\ Len(x) = 1 /\ Len(y) = 2 /\ Len(z) = 1 /\ x[1] = 3 /\ z[1] = 4
    OBVIOUS
  <2>2. e # x /\ e # y /\ e # z /\ x # y /\ x # z /\ y # z
    <3> HIDE DEF e, x, y, z
    <3> QED
      BY <2>1
  <2>3. root.directory = e /\ dir.directory = x /\ sub.directory = y /\ beside.directory = z
    OBVIOUS
  <2> HIDE DEF e, x, y, z
  <2> QED
    BY <2>2, <2>3
<1> QED
  BY <1>1, <1>2, <1>3 DEF LayersApart

LEMMA SettingsOfTheInstance == SettingsResolve
<1> DEFINE defaults == [s |-> <<0>>]
<1> SUFFICES ASSUME NEW root \in SettingLayers(<<>>), NEW dir \in SettingLayers(<< 3 >>),
                    NEW sub \in SettingLayers(<<3, 4>>), NEW beside \in SettingLayers(<< 4 >>)
             PROVE  /\ SettingIsNearest({root, dir, sub, beside}, ThePath, defaults, "s")
                    /\ IgnoredByAny({root, dir, sub, beside}, ThePath, defaults)
  BY DEF SettingsResolve
<1>1. /\ root.directory = <<>> /\ dir.directory = <<3>> /\ sub.directory = <<3, 4>>
      /\ beside.directory = <<4>>
  BY DEF SettingLayers
<1>2. LayersApart({root, dir, sub, beside})
  BY <1>1, FourDirectories
<1>3. ThePath \in Seq(Int)
  BY DEF ThePath
<1>4. "s" \in DOMAIN defaults
  OBVIOUS
<1> HIDE DEF defaults
<1> QED
  BY <1>2, <1>3, <1>4, NearestSettings, IgnoredOnceIsIgnored

LEMMA RulesOfTheInstance == RulesResolve
<1> SUFFICES ASSUME NEW root \in RuleLayers(<<>>), NEW dir \in RuleLayers(<< 3 >>),
                    NEW sub \in RuleLayers(<<3, 4>>)
             PROVE  /\ ValidRuleOverrides({root, dir, sub}) <=> OverridesAreKnown({root, dir, sub})
                    /\ RuleIsNearest({root, dir, sub}, ThePath, Unset, 1)
  BY DEF RulesResolve
<1> DEFINE found == {root, dir, sub}
           beside == [directory |-> <<4>>]
<1>1. root.directory = <<>> /\ dir.directory = <<3>> /\ sub.directory = <<3, 4>>
  BY DEF RuleLayers
<1>2. LayersApart(found)
  <2>1. beside.directory = <<4>>
    OBVIOUS
  <2> HIDE DEF beside
  <2>2. LayersApart({root, dir, sub, beside})
    BY <1>1, <2>1, FourDirectories
  <2>3. found \subseteq {root, dir, sub, beside}
    OBVIOUS
  <2>4. IsFiniteSet(found)
    BY <2>2, <2>3, FS_Subset DEF LayersApart
  <2> QED
    BY <2>2, <2>3, <2>4 DEF LayersApart
<1>3. ThePath \in Seq(Int)
  BY DEF ThePath
<1>4. \A l \in found : Len(l.directory) = 1 => DotDiffuse <= l.directory[1]
  <2>1. Len(root.directory) = 0
    BY <1>1
  <2>2. dir.directory[1] = 3 /\ Len(sub.directory) = 2
    BY <1>1
  <2> QED
    BY <2>1, <2>2 DEF DotDiffuse
<1> HIDE DEF found
<1>5. ValidRuleOverrides(found) <=> OverridesAreKnown(found)
  BY <1>2, <1>4, OverridesHaveRules
<1>6. RuleIsNearest(found, ThePath, Unset, 1)
  BY <1>2, <1>3, NearestRules
<1> QED
  BY <1>5, <1>6 DEF found

LEMMA ContextOfTheInstance == ContextIsSafe
<1> DEFINE E == [directory : {<<>>}, path : {"doc", "link", "key", "gone"}, glob : {"all"}]
           limits == [file |-> 2, total |-> 4]
<1> SUFFICES ASSUME NEW entries \in BoundedSeq(E, 2), NEW text \in SUBSET {"doc", "link"},
                    NEW size \in 1..3, NEW other \in 0..2
             PROVE  OnlyContext(entries, TheCheckout(text, size), other, limits)
  BY DEF ContextIsSafe
<1> DEFINE repo == TheCheckout(text, size)
<1>1. entries \in Seq(E)
  <2> HIDE DEF E
  <2>1. E \subseteq E /\ 2 \in Nat
    OBVIOUS
  <2> QED
    BY <2>1, BoundedOf, Zenon
<1>2. repo.size \in [repo.tracked -> Nat]
  BY DEF TheCheckout
<1>3. other \in Nat /\ limits.total \in Nat
  OBVIOUS
<1> HIDE DEF E, repo, limits
<1>4. OnlyContext(entries, repo, other, limits)
  BY <1>1, <1>2, <1>3, OnlyContextIsRead
<1> QED
  BY <1>4 DEF repo, limits

LEMMA PromptOfTheInstance == PromptIsClosed
<1> SUFFICES ASSUME NEW header \in 1..3, NEW body \in 0..6, NEW max \in 1..20
             PROVE  PromptFits(header, body, 2, 3, max)
  BY DEF PromptIsClosed
<1>1. header \in Nat /\ body \in Nat /\ 2 \in Nat /\ 3 \in Nat \ {0} /\ max \in Nat
  OBVIOUS
<1> QED
  BY <1>1, PromptsFit

LEMMA TriggersOfTheInstance == TriggersAgree
<1> DEFINE path(x) == [enabled |-> TRUE, ignored |-> FALSE, flags |-> <<>>, triggers |-> x]
<1> SUFFICES ASSUME NEW t \in SomeTriggers, NEW u \in SomeTriggers, NEW pr \in SomePullRequests
             PROVE  TriggersMerge({path(t), path(u)}, pr)
  BY DEF TriggersAgree
<1>1. \A x \in SomeTriggers : x.limit \in Nat
  <2> SUFFICES ASSUME NEW x \in SomeTriggers PROVE x.limit \in Nat
    OBVIOUS
  <2>1. PICK a \in BOOLEAN, d \in BOOLEAN, c \in BOOLEAN, w \in {{}, {"x"}}, v \in {{}, {"y"}},
             n \in {0, 1} : x = TriggersWith(a, d, c, w, v, n)
    BY DEF SomeTriggers
  <2> QED
    BY <2>1 DEF TriggersWith, DefaultTriggers
<1>2. pr.files \in Nat
  BY DEF SomePullRequests
<1>3. \A p \in {path(t), path(u)} : p.triggers.limit \in Nat
  BY <1>1
<1> HIDE DEF path
<1> QED
  BY <1>2, <1>3, TriggersAreMerged

LEMMA ApprovedOfTheInstance == ApprovedBeneath
<1> SUFFICES ASSUME NEW ids \in SUBSET {1, 2, 3}, NEW items \in [ids -> {{}, {ThePath}}]
             PROVE  ApprovedFirst(<<7>>, items, ThePath, 2)
  BY DEF ApprovedBeneath
<1>1. DOMAIN items = ids /\ ids \subseteq Int
  OBVIOUS
<1>2. IsFiniteSet(ids)
  <2>1. IsFiniteSet({1, 2, 3, 3})
    BY FourAreFinite
  <2>2. ids \subseteq {1, 2, 3, 3}
    OBVIOUS
  <2> QED
    BY <2>1, <2>2, FS_Subset
<1>3. <<7>> \in Seq(Int) /\ 2 \in Nat
  OBVIOUS
<1> QED
  BY <1>1, <1>2, <1>3, ApprovedComeFirst

LEMMA PolicyOfTheInstance == PolicyResolved
BY ContextOfTheInstance, PromptOfTheInstance, TriggersOfTheInstance, ApprovedOfTheInstance,
   SettingsOfTheInstance, RulesOfTheInstance, IgnoredPathsAreMute DEF PolicyResolved, IgnoredHaveNoSay

LEMMA ClustersOfTheInstance ==
    ASSUME NEW repos \in SomeRepos, NEW clusters \in SomeClusters(repos)
    PROVE  ClustersSound(clusters, repos) /\ DOMAIN repos = Repos /\ Repos \subseteq Int
<1>1. ClustersSound(clusters, repos)
  BY DEF SomeClusters
<1>2. DOMAIN repos = Repos
  BY DEF SomeRepos
<1> QED
  BY <1>1, <1>2 DEF Repos

LEMMA MembersAreFinite ==
    \A members \in Members : IsFiniteSet(members)
<1>1. IsFiniteSet(Repos)
  <2>1. IsFiniteSet({1, 2, 3, 4})
    BY FourAreFinite
  <2>2. Repos = {1, 2, 3, 4}
    BY DEF Repos
  <2> QED
    BY <2>1, <2>2
<1> QED
  BY <1>1, FS_Subset DEF Members

LEMMA LimitOfTheInstance == LimitKept
<1> SUFFICES ASSUME NEW repos \in SomeRepos, NEW clusters \in SomeClusters(repos),
                    NEW got \in ClusterAnswers(clusters, repos, {1, 2, 3}, Members), ~got.raised
             PROVE  /\ ClustersSound(got.value, repos)
                    /\ \A r \in {s \in Repos : repos[s].enabled} :
                         ~ResolveContext(got.value, repos, r, TRUE, <<>>).raised
  BY DEF LimitKept
<1>1. ClustersSound(got.value, repos)
  BY ClustersOfTheInstance, MembersAreFinite, ClustersStaySound
<1>2. ASSUME NEW r \in Repos, repos[r].enabled, NEW yes, yes = TRUE, NEW nobody, nobody = <<>>
      PROVE  ~ResolveContext(got.value, repos, r, yes, nobody).raised
  <2>1. nobody \in Seq(Int) /\ Len(nobody) = 0 /\ DOMAIN nobody = {}
    BY <1>2
  <2>2. Len(nobody) <= MAX_RELATED_REPOSITORIES
    BY <2>1, RetrievalAssumption
  <2>3. NamesStand(got.value, repos, r, nobody)
    BY <2>1 DEF NamesStand
  <2> QED
    BY <1>1, <1>2, <2>1, <2>2, <2>3, ClustersOfTheInstance, PlansAreNotTooLong
<1> QED
  BY <1>1, <1>2

LEMMA PlansOfTheInstance == PlanIsAuthorized
<1> DEFINE names == Repos \union {9}
<1> SUFFICES ASSUME NEW repos \in SomeRepos, NEW clusters \in SomeClusters(repos), NEW explicit \in Explicits
             PROVE  Authorized(clusters, repos, 1, TRUE, explicit)
  BY DEF PlanIsAuthorized
<1>1. explicit \in Seq(names)
  <2>1. names \subseteq names /\ 2 \in Nat
    OBVIOUS
  <2> HIDE DEF names
  <2>2. explicit \in BoundedSeq(names, 2)
    BY DEF Explicits, names
  <2> QED
    BY <2>1, <2>2, BoundedOf, Zenon
<1>2. ASSUME NEW yes PROVE Authorized(clusters, repos, 1, yes, explicit)
  <2> HIDE DEF names
  <2> QED
    BY <1>1, ClustersOfTheInstance, PlansAreAuthorized
<1> QED
  BY <1>2

LEMMA ContextsOfTheInstance == ContextFits
<1> DEFINE B == [header : {2, 3}, content : {0, 3, 6}]
<1> SUFFICES ASSUME NEW blocks \in BoundedSeq(B, 3), NEW max \in 1..20
             PROVE  FitsIn(blocks, 2, 3, max)
  BY DEF ContextFits
<1>1. blocks \in Seq(Block)
  <2>1. B \subseteq Block /\ 3 \in Nat
    BY DEF Block
  <2> HIDE DEF B
  <2> QED
    BY <2>1, BoundedOf, Zenon
<1> QED
  BY <1>1, ContextsFit

LEMMA RowsOfTheInstance ==
    ASSUME NEW r \in 1..2, NEW rows \in LexicalRows(r)
    PROVE  /\ rows \in Seq(SearchRow)
           /\ \A i \in DOMAIN rows : rows[i].repository = r
           /\ \A i, j \in DOMAIN rows : rows[i].chunk = rows[j].chunk => i = j
<1>1. \A c \in 1..2, n \in 1..2 : /\ Row(r, c, n) \in SearchRow /\ Row(r, 3 - c, n) \in SearchRow
                                  /\ Row(r, c, n).repository = r /\ Row(r, 3 - c, n).repository = r
                                  /\ Row(r, c, n).chunk = c /\ Row(r, 3 - c, n).chunk = 3 - c
  BY DEF Row, SearchRow
<1>2. CASE rows \in {<<>>}
  BY <1>2
<1>3. CASE rows \in {<<Row(r, c, n)>> : c \in 1..2, n \in 1..2}
  <2>1. PICK c \in 1..2, n \in 1..2 : rows = <<Row(r, c, n)>>
    BY <1>3
  <2> QED
    BY <1>1, <2>1
<1>4. CASE rows \in {<<Row(r, c, 2), Row(r, 3 - c, n)>> : c \in 1..2, n \in 1..2}
  <2>1. PICK c \in 1..2, n \in 1..2 : rows = <<Row(r, c, 2), Row(r, 3 - c, n)>>
    BY <1>4
  <2> DEFINE x == Row(r, c, 2)
             y == Row(r, 3 - c, n)
  <2>2. x \in SearchRow /\ y \in SearchRow /\ x.repository = r /\ y.repository = r /\ x.chunk # y.chunk
    BY <1>1
  <2>3. rows = <<x, y>>
    BY <2>1
  <2> HIDE DEF x, y
  <2> QED
    BY <2>2, <2>3
<1> QED
  BY <1>2, <1>3, <1>4 DEF LexicalRows

LEMMA RetrievalOfTheInstance == RetrievedFairly
<1> SUFFICES ASSUME NEW graph \in GraphRows, NEW mine \in LexicalRows(1), NEW theirs \in LexicalRows(2),
                    NEW related \in {{}, {2}}, NEW changed \in {{}, {1}}, NEW topK \in 1..2
             PROVE  Fairly(<<graph, <<>>>>, <<mine, theirs>>, 1, related, changed, topK)
  BY DEF RetrievedFairly
<1> DEFINE graphs == <<graph, <<>>>>
           lexical == <<mine, theirs>>
<1>1. graph \in Seq(SearchRow)
  <2>1. PICK n \in 0..2 : graph \in [1..n -> {Row(1, c, 0) : c \in 1..3}]
    BY DEF GraphRows
  <2>2. {Row(1, c, 0) : c \in 1..3} \subseteq SearchRow
    BY DEF Row, SearchRow
  <2>3. n \in Nat
    OBVIOUS
  <2> QED
    BY <2>1, <2>2, <2>3
<1>2. IsFiniteSet(related)
  <2>1. IsFiniteSet({2})
    BY FS_Singleton
  <2>2. IsFiniteSet({})
    BY FS_EmptySet
  <2> QED
    BY <2>1, <2>2
<1>3. SearchesStand(graphs, lexical, 1, related)
  <2>1. graphs[1] = graph /\ lexical[1] = mine /\ lexical[2] = theirs
    OBVIOUS
  <2>2. 1 \in 1..2 /\ 2 \in 1..2 /\ {1} \union related \subseteq 1..2
    OBVIOUS
  <2> HIDE DEF graphs, lexical
  <2>3. \A r \in {1} \union related : lexical[r] \in LexicalRows(r) /\ r \in 1..2
    BY <2>1, <2>2
  <2> QED
    BY <1>1, <1>2, <2>1, <2>3, RowsOfTheInstance DEF SearchesStand
<1> HIDE DEF graphs, lexical
<1>4. Fairly(graphs, lexical, 1, related, changed, topK)
  BY <1>3, RetrievalIsFair
<1> QED
  BY <1>4 DEF graphs, lexical

\* The policy a snapshot carries resolves as its documentation says, and what a
\* review reads of the snapshots is granted by an operator and ranked fairly: the
\* theorems above, for the instances TLC evaluates (discover_repository_policy,
\* resolve_review_policy, resolve_cross_repository_context,
\* retrieve_context_from_plan).
THEOREM PoliciesHold == Spec => []PolicyHolds
<1>1. GlobsMatch /\ PolicyResolved /\ ContextIsGranted
  BY GlobsOfTheInstance, PolicyOfTheInstance, LimitOfTheInstance, PlansOfTheInstance,
     RetrievalOfTheInstance, ContextsOfTheInstance DEF ContextIsGranted
<1>2. PolicyHolds
  BY <1>1 DEF PolicyHolds
<1> QED
  BY <1>2, PTL
=============================================================================
