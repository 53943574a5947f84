---------------------- MODULE AgentInvestigationProofs ----------------------
(***************************************************************************)
(* Proofs about AgentInvestigation for any number of workers, sessions and *)
(* attempts: hosts hold their slots exactly while a review is alive        *)
(* (SlotsAreHeld), a tool call is filed under its own attempt              *)
(* (CallsFiledRightly), a report rests on a verification of its candidates *)
(* (ReportsAreVerified), and a session that ended stays as it ended        *)
(* (EndedStayEnded).                                                       *)
(*                                                                         *)
(* And, for inputs of any size, about the operators that surround a        *)
(* session: how runs, budgets and grants are judged (AgentProtocol), that  *)
(* the author of a change cannot choose its reviewer (ReviewProvenance),   *)
(* and that a report holds what both answers support (ReportAssembly).     *)
(***************************************************************************)
EXTENDS MCAgentInvestigation, FiniteSetTheorems, WellFoundedInduction, TLAPS

CandidateResults ==
    [kind : {Candidate}, ref : Sessions \cup {NoSession}, runtime : RuntimeNames,
     size : 1..2, findings : {1}]
Inputs == {NoResult} \cup CandidateResults
VerifierResults ==
    [kind : {Verifier}, ref : Sessions, runtime : RuntimeNames, size : {1},
     of : Inputs, decisions : {<<0>>, <<0, 0>>, <<1>>}]
Results == Inputs \cup VerifierResults

Codes ==
    {"none", "cancelled", "auth_required", "invalid_result", "invalid_workspace", "timeout",
     "rate_limited", "configuration_error", "runner_execution_failed"}
Outcomes == {"none", "superseded", "retry", "terminal"}

JobRow == [lease : Workers \cup {Nobody}, claims : 0..MaxAttempts, open : BOOLEAN]
RunRow ==
    [status : {"none", "generating", "ready", "failed", "superseded"},
     attempt : 0..MaxAttempts, report : {<<>>} \cup (Sessions \X Sessions)]
SessionRow ==
    [status : {"absent"} \cup Unfinished \cup Settled, runtime : RuntimeNames,
     role : {Candidate, Verifier}, attempt : 0..MaxAttempts, by : Workers \cup {Nobody},
     input : Inputs, result : Results, cancelRequested : BOOLEAN]
HostRow ==
    [status : {"absent"} \cup HostActive \cup Settled, cancel : BOOLEAN, result : Results,
     error : Codes, thread : {"none", "ready", "running", "finishing"}]
ClientRow ==
    [pc : Steps, cand : Sessions \cup {NoSession}, ver : Sessions \cup {NoSession},
     seen : Results, outcome : Outcomes]

\* The types of the variables, with the form of every record.
Typed ==
    /\ job \in JobRow /\ head \in BOOLEAN /\ run \in RunRow
    /\ row \in [Sessions -> SessionRow]
    /\ expired \in 0..Cardinality(Sessions)
    /\ post \in [Sessions -> {"none", "sent", "accepted", "rejected", "refused"}]
    /\ host \in [Sessions -> HostRow]
    /\ order \in Seq(Sessions)
    /\ slots \subseteq RuntimeNames
    /\ client \in [Workers -> ClientRow]
    /\ call \in [Sessions -> 0..MaxAttempts]
    /\ log \subseteq [session : Sessions, attempt : 1..MaxAttempts]
    /\ restarts \in 0..MaxRestarts

\* Sessions are dispatched one after the other.
Filled == \E n \in 0..MaxSessions : \A s \in Sessions : row[s].status # "absent" <=> s <= n

\* Every start of the run was paid for with a claim; a worker that has claimed
\* and not begun yet still has a start coming.
Beginning == {w \in Workers : At(w, "begin")}
Counted == IsFiniteSet(Beginning) /\ Cardinality(Beginning) + run.attempt <= job.claims

\* The result is one that was accepted for the session.
Fits(r, s, result) ==
    result \in Results /\ Accepts(r[s].role, result, s, r[s].runtime, r[s].input, MaxBytes)

\* What a row says once it is there, and that a host has nothing without one.
RowsFit ==
    \A s \in Sessions :
      /\ row[s].status = "absent" => host[s].status = "absent" /\ post[s] = "none" /\ call[s] = 0
      /\ row[s].status = "completed" => Fits(row, s, row[s].result)
      /\ row[s].attempt <= run.attempt

\* A thread belongs to an unfinished review, and a cancelled one knows it.
HostsFit ==
    \A s \in Sessions :
      /\ host[s].thread # "none" => host[s].status \in HostActive
      /\ host[s].cancel => host[s].status \in {"cancel_requested", "cancelled"}

\* A slot is taken exactly as long as one thread of its host is alive.
SlotsFit ==
    /\ \A s, t \in Sessions : /\ host[s].thread # "none" /\ host[t].thread # "none"
                              /\ RuntimeOf(s) = RuntimeOf(t)
                              => s = t
    /\ \A r \in RuntimeNames :
         r \in slots <=> \A s \in Sessions : RuntimeOf(s) = r => host[s].thread = "none"

\* A tool call carries the attempt of its session, in flight and in the log.
CallsFit ==
    /\ \A s \in Sessions : call[s] # 0 => call[s] = row[s].attempt
    /\ \A e \in log : row[e.session].status # "absent" /\ e.attempt = row[e.session].attempt

\* A worker's two sessions: a candidate and, once that is completed, a verifier
\* of its result at the other host.
Pair(r, w, c, v) ==
    /\ c # NoSession => r[c].status # "absent" /\ r[c].by = w /\ r[c].role = Candidate
    /\ v # NoSession => /\ c # NoSession /\ r[c].status = "completed"
                        /\ r[v].status # "absent" /\ r[v].by = w /\ r[v].role = Verifier
                        /\ r[v].runtime # r[c].runtime /\ r[v].input = r[c].result

\* What the step a worker is at says of its sessions.
Follows(r, w, me) ==
    /\ Pair(r, w, me.cand, me.ver)
    /\ me.pc \in {"idle", "begin"} => me.cand = NoSession /\ me.ver = NoSession
    /\ me.pc \in {"prepare", "insert"} =>
         me.ver = NoSession /\ (me.cand # NoSession => r[me.cand].status = "completed")
    /\ me.pc \in {"waiting", "poll", "accept"} => me.cand # NoSession
    /\ me.pc = "accept" => Fits(r, IF me.ver # NoSession THEN me.ver ELSE me.cand, me.seen)
    /\ me.pc \in {"report", "persist"} => me.ver # NoSession /\ r[me.ver].status = "completed"

ClientsFit == \A w \in Workers : Follows(row, w, client[w])

\* The sessions a report names.
ReportFits ==
    run.report # <<>> =>
      \E w \in Workers : /\ Pair(row, w, run.report[1], run.report[2])
                         /\ run.report[2] # NoSession
                         /\ row[run.report[2]].status = "completed"

IInv ==
    /\ Typed /\ Filled /\ Counted /\ RowsFit /\ HostsFit /\ SlotsFit /\ CallsFit
    /\ ClientsFit /\ ReportFits

\* Rows that are there keep what they were dispatched with, and settled ones
\* everything.
Keeps(r, q) ==
    \A s \in Sessions :
      /\ r[s].status # "absent" =>
           /\ q[s].status # "absent" /\ q[s].runtime = r[s].runtime /\ q[s].role = r[s].role
           /\ q[s].attempt = r[s].attempt /\ q[s].by = r[s].by /\ q[s].input = r[s].input
      /\ r[s].status \in Settled => q[s] = r[s]

-----------------------------------------------------------------------------
(* Shapes.                                                                 *)

LEMMA Shapes ==
    /\ NoResult \in Results /\ NoResult \in Inputs /\ Inputs \subseteq Results
    /\ Absent \in SessionRow /\ Unknown \in HostRow /\ Quiet \in ClientRow
    /\ MaxAttempts \in Nat /\ MaxSessions \in Nat /\ MaxSessions \in Sessions
    /\ NoSession \notin Sessions
<1>1. NoResult \in Results /\ NoResult \in Inputs /\ Inputs \subseteq Results
  BY DEF Results, Inputs
<1>2. MaxAttempts \in Nat /\ MaxSessions \in Nat /\ MaxSessions \in Sessions /\ NoSession \notin Sessions
  BY InvestigationAssumption DEF Sessions, NoSession
<1>3. Absent \in SessionRow
  BY <1>1, <1>2 DEF Absent, SessionRow, RuntimeNames
<1>4. Unknown \in HostRow
  BY <1>1 DEF Unknown, HostRow, Codes
<1>5. Quiet \in ClientRow
  BY <1>1 DEF Quiet, ClientRow, Steps, Outcomes
<1>6. QED
  BY <1>1, <1>2, <1>3, <1>4, <1>5

\* A result that was accepted from a candidate lists one finding.
LEMMA CandidateAccepted ==
    ASSUME NEW result \in Results, NEW s, NEW runtime, NEW input,
           Accepts(Candidate, result, s, runtime, input, MaxBytes)
    PROVE  result \in CandidateResults
<1>1. result.kind = Candidate
  BY DEF Accepts, AcceptsCandidate, BoundResult
<1>2. NoResult.kind # Candidate
  BY DEF NoResult, Candidate
<1>3. ASSUME result \in VerifierResults PROVE FALSE
  BY <1>1, <1>3 DEF VerifierResults, Candidate, Verifier
<1>4. QED
  BY <1>1, <1>2, <1>3 DEF Results, Inputs

-----------------------------------------------------------------------------
(* What a step does to a row that is there.                                *)

Touched(r, q, s) ==
    \/ q[s] = r[s]
    \/ /\ r[s].status \in Unfinished /\ q[s] \in SessionRow
       /\ q[s].status \in Unfinished \cup Settled
       /\ q[s].runtime = r[s].runtime /\ q[s].role = r[s].role /\ q[s].attempt = r[s].attempt
       /\ q[s].by = r[s].by /\ q[s].input = r[s].input
       /\ q[s].status = "completed" => Fits(r, s, q[s].result)

Rewritten == row' \in [Sessions -> SessionRow] /\ \A s \in Sessions : Touched(row, row', s)

LEMMA OneRewritten ==
    ASSUME Typed, NEW s \in Sessions, NEW new \in SessionRow, row' = [row EXCEPT ![s] = new],
           row[s].status \in Unfinished, new.status \in Unfinished \cup Settled,
           new.runtime = row[s].runtime, new.role = row[s].role, new.attempt = row[s].attempt,
           new.by = row[s].by, new.input = row[s].input,
           new.status = "completed" => Fits(row, s, new.result)
    PROVE  Rewritten
<1>1. row \in [Sessions -> SessionRow]
  BY DEF Typed
<1>2. row' \in [Sessions -> SessionRow] /\ row'[s] = new
      /\ \A t \in Sessions : t # s => row'[t] = row[t]
  BY <1>1
<1>3. Touched(row, row', s)
  BY <1>2 DEF Touched
<1>4. ASSUME NEW t \in Sessions, t # s PROVE Touched(row, row', t)
  BY <1>2, <1>4 DEF Touched
<1>5. QED
  BY <1>2, <1>3, <1>4 DEF Rewritten

LEMMA NoneRewritten ==
    ASSUME Typed, row' = row
    PROVE  Rewritten
BY DEF Typed, Rewritten, Touched

\* What is rewritten keeps the rows as they were dispatched and those that
\* ended as they are.
LEMMA RewrittenKeeps ==
    ASSUME IInv, Rewritten
    PROVE  /\ Keeps(row, row') /\ Filled'
           /\ \A s \in Sessions : row[s].status = "absent" => row'[s] = row[s]
           /\ \A s \in Sessions : row'[s].status = "completed" => Fits(row', s, row'[s].result)
<1>1. row \in [Sessions -> SessionRow] /\ row' \in [Sessions -> SessionRow]
  BY DEF IInv, Typed, Rewritten
<1>2. ASSUME NEW s \in Sessions
      PROVE  /\ row[s].status # "absent" =>
                   /\ row'[s].status # "absent" /\ row'[s].runtime = row[s].runtime
                   /\ row'[s].role = row[s].role /\ row'[s].attempt = row[s].attempt
                   /\ row'[s].by = row[s].by /\ row'[s].input = row[s].input
             /\ row[s].status \in Settled => row'[s] = row[s]
             /\ row[s].status = "absent" => row'[s] = row[s]
  <2>1. Touched(row, row', s)
    BY DEF Rewritten
  <2>2. QED
    BY <2>1 DEF Touched, Unfinished, Settled
<1>3. Keeps(row, row') /\ \A s \in Sessions : row[s].status = "absent" => row'[s] = row[s]
  BY <1>2 DEF Keeps
<1>4. Filled'
  <2>1. PICK n \in 0..MaxSessions : \A s \in Sessions : row[s].status # "absent" <=> s <= n
    BY DEF IInv, Filled
  <2>2. \A s \in Sessions : row'[s].status # "absent" <=> row[s].status # "absent"
    BY <1>2
  <2>3. \A s \in Sessions : row'[s].status # "absent" <=> s <= n
    BY <2>1, <2>2
  <2>4. QED
    BY <2>3 DEF Filled
<1>5. ASSUME NEW s \in Sessions, row'[s].status = "completed"
      PROVE  Fits(row', s, row'[s].result)
  <2>1. Touched(row, row', s)
    BY DEF Rewritten
  <2>2. CASE row'[s] = row[s]
    <3>1. Fits(row, s, row'[s].result)
      BY <1>5, <2>2 DEF IInv, RowsFit
    <3>2. QED
      BY <2>2, <3>1 DEF Fits
  <2>3. CASE row'[s] # row[s]
    <3>1. Fits(row, s, row'[s].result) /\ row'[s].role = row[s].role
          /\ row'[s].runtime = row[s].runtime /\ row'[s].input = row[s].input
      BY <1>5, <2>1, <2>3 DEF Touched
    <3>2. QED
      BY <3>1 DEF Fits
  <2>4. QED
    BY <2>2, <2>3
<1>6. QED
  BY <1>3, <1>4, <1>5

-----------------------------------------------------------------------------
(* What a step does to a worker.                                           *)

\* A worker goes on as "me", which fits the rows after the step.
Goes(w, me) ==
    /\ me \in ClientRow /\ client' = [client EXCEPT ![w] = me]
    /\ Follows(row', w, me)
    /\ me.pc = "begin" <=> client[w].pc = "begin"

\* What a worker holds fits the rows as long as these are kept.
LEMMA FollowsStable ==
    ASSUME NEW r \in [Sessions -> SessionRow], NEW q \in [Sessions -> SessionRow], Keeps(r, q),
           NEW w, NEW me \in ClientRow, Follows(r, w, me)
    PROVE  Follows(q, w, me)
<1>1. me.cand \in Sessions \cup {NoSession} /\ me.ver \in Sessions \cup {NoSession}
  BY DEF ClientRow
<1>2. \A s \in Sessions : r[s].status = "completed" => q[s] = r[s]
  BY DEF Keeps, Settled
<1>3. \A s \in Sessions :
        r[s].status # "absent" => /\ q[s].status # "absent" /\ q[s].runtime = r[s].runtime
                                  /\ q[s].role = r[s].role /\ q[s].by = r[s].by
                                  /\ q[s].input = r[s].input
  BY DEF Keeps
<1>4. Pair(q, w, me.cand, me.ver)
  BY <1>1, <1>2, <1>3 DEF Follows, Pair
<1>5. ASSUME me.pc = "accept"
      PROVE  Fits(q, IF me.ver # NoSession THEN me.ver ELSE me.cand, me.seen)
  <2>1. PICK s \in Sessions : s = IF me.ver # NoSession THEN me.ver ELSE me.cand
    BY <1>1, <1>5 DEF Follows
  <2>2. Fits(r, s, me.seen)
    BY <1>5, <2>1 DEF Follows
  <2>3. r[s].status # "absent"
    BY <1>5, <2>1 DEF Follows, Pair
  <2>4. Fits(q, s, me.seen)
    BY <1>3, <2>2, <2>3 DEF Fits
  <2>5. QED
    BY <2>1, <2>4
<1>6. QED
  BY <1>1, <1>2, <1>4, <1>5 DEF Follows

\* The session a worker is at is there.
LEMMA CurrentThere ==
    ASSUME IInv, NEW w \in Workers, client[w].pc \in {"waiting", "poll", "accept"}
    PROVE  Current(w) \in Sessions /\ row[Current(w)].status # "absent"
<1>1. client[w] \in ClientRow
  BY DEF IInv, Typed
<1>2. client[w].cand \in Sessions \cup {NoSession} /\ client[w].ver \in Sessions \cup {NoSession}
  BY <1>1 DEF ClientRow
<1>3. Follows(row, w, client[w])
  BY DEF IInv, ClientsFit
<1>4. QED
  BY <1>2, <1>3 DEF Follows, Pair, Current

\* A worker that gives up, and one that goes on to a step without a result.
LEMMA StopGoes ==
    ASSUME IInv, Keeps(row, row'), row' \in [Sessions -> SessionRow],
           NEW w \in Workers, NEW outcome \in Outcomes, client[w].pc # "begin", Stop(w, outcome)
    PROVE  \E me : Goes(w, me)
<1> DEFINE me == [client[w] EXCEPT !.pc = "abandon", !.outcome = outcome, !.seen = NoResult]
<1>1. client \in [Workers -> ClientRow] /\ client[w] \in ClientRow
  BY DEF IInv, Typed
<1>2. client' = [client EXCEPT ![w] = me]
  BY <1>1 DEF Stop
<1>3. me \in ClientRow /\ me.pc = "abandon" /\ me.cand = client[w].cand /\ me.ver = client[w].ver
  BY <1>1, Shapes DEF ClientRow, Steps
<1> HIDE DEF me
<1>4. Follows(row, w, client[w])
  BY DEF IInv, ClientsFit
<1>5. Follows(row, w, me)
  BY <1>3, <1>4 DEF Follows
<1>6. Follows(row', w, me)
  BY <1>3, <1>5, FollowsStable DEF IInv, Typed
<1>7. QED
  BY <1>2, <1>3, <1>6 DEF Goes

LEMMA ToGoes ==
    ASSUME IInv, Keeps(row, row'), row' \in [Sessions -> SessionRow],
           NEW w \in Workers, NEW pc \in Steps, To(w, pc),
           client[w].pc # "begin", pc # "begin",
           \A me \in ClientRow : /\ me.pc = pc /\ me.cand = client[w].cand
                                 /\ me.ver = client[w].ver
                                 /\ Follows(row, w, client[w])
                                 => Follows(row, w, me)
    PROVE  \E me : Goes(w, me)
<1> DEFINE me == [client[w] EXCEPT !.pc = pc]
<1>1. client \in [Workers -> ClientRow] /\ client[w] \in ClientRow
  BY DEF IInv, Typed
<1>2. client' = [client EXCEPT ![w] = me]
  BY <1>1 DEF To
<1>3. me \in ClientRow /\ me.pc = pc /\ me.cand = client[w].cand /\ me.ver = client[w].ver
  BY <1>1 DEF ClientRow
<1> HIDE DEF me
<1>4. Follows(row, w, client[w])
  BY DEF IInv, ClientsFit
<1>5. Follows(row, w, me)
  BY <1>3, <1>4
<1>6. Follows(row', w, me)
  BY <1>3, <1>5, FollowsStable DEF IInv, Typed
<1>7. QED
  BY <1>2, <1>3, <1>6 DEF Goes

\* An answer of the host that was looked at.
LEMMA ObserveGoes ==
    ASSUME IInv, NEW w \in Workers, client[w].pc \in {"waiting", "poll"},
           NEW seen, seen.result \in Results, seen.error \in Codes, Observe(w, seen)
    PROVE  Rewritten /\ \E me : Goes(w, me)
<1> DEFINE s == Current(w)
           advances == seen.status \in {"accepted", "running"} /\ row[s].status \in Prior(seen.status)
<1>1. s \in Sessions /\ row[s].status # "absent"
  BY CurrentThere
<1>2. row \in [Sessions -> SessionRow] /\ row[s] \in SessionRow
  BY <1>1 DEF IInv, Typed
<1>3. Rewritten
  <2>1. CASE advances
    <3> DEFINE new == [row[s] EXCEPT !.status = seen.status]
    <3>1. row' = [row EXCEPT ![s] = new]
      BY <1>2, <2>1 DEF Observe
    <3>2. /\ new \in SessionRow /\ new.status \in Unfinished /\ new.runtime = row[s].runtime
          /\ new.role = row[s].role /\ new.attempt = row[s].attempt
          /\ new.by = row[s].by /\ new.input = row[s].input
      BY <1>2, <2>1 DEF SessionRow, Unfinished
    <3>3. row[s].status \in Unfinished
      BY <2>1 DEF Prior, Unfinished
    <3>4. new.status # "completed"
      BY <3>2 DEF Unfinished
    <3> HIDE DEF new
    <3>5. QED
      BY <1>1, <3>1, <3>2, <3>3, <3>4, OneRewritten DEF IInv
  <2>2. CASE ~advances
    BY <2>2, NoneRewritten DEF Observe, IInv
  <2>3. QED
    BY <2>1, <2>2
<1>4. Keeps(row, row') /\ row' \in [Sessions -> SessionRow]
  BY <1>3, RewrittenKeeps DEF Rewritten
<1>5. \/ To(w, "poll")
      \/ /\ Accepts(row[s].role, seen.result, s, row[s].runtime, row[s].input, MaxBytes)
         /\ client' = [client EXCEPT ![w].pc = "accept", ![w].seen = seen.result]
      \/ \E outcome \in Outcomes : Stop(w, outcome)
  BY DEF Observe, Outcomes, RaisedFor
<1>6. CASE To(w, "poll")
  <2>1. \A me \in ClientRow : /\ me.pc = "poll" /\ me.cand = client[w].cand
                               /\ me.ver = client[w].ver
                               /\ Follows(row, w, client[w])
                               => Follows(row, w, me)
    BY DEF Follows
  <2>2. "poll" \in Steps
    BY DEF Steps
  <2>3. QED
    BY <1>3, <1>4, <1>6, <2>1, <2>2, ToGoes
<1>7. CASE \E outcome \in Outcomes : Stop(w, outcome)
  BY <1>3, <1>4, <1>7, StopGoes
<1>8. CASE /\ Accepts(row[s].role, seen.result, s, row[s].runtime, row[s].input, MaxBytes)
           /\ client' = [client EXCEPT ![w].pc = "accept", ![w].seen = seen.result]
  <2> DEFINE me == [client[w] EXCEPT !.pc = "accept", !.seen = seen.result]
  <2>1. client \in [Workers -> ClientRow] /\ client[w] \in ClientRow
    BY DEF IInv, Typed
  <2>2. client' = [client EXCEPT ![w] = me]
    BY <1>8, <2>1
  <2>3. /\ me \in ClientRow /\ me.pc = "accept" /\ me.cand = client[w].cand
        /\ me.ver = client[w].ver /\ me.seen = seen.result
    BY <2>1 DEF ClientRow, Steps
  <2> HIDE DEF me
  <2>4. Follows(row, w, client[w])
    BY DEF IInv, ClientsFit
  <2>5. Fits(row, s, me.seen)
    BY <1>8, <2>3 DEF Fits
  <2>6. s = IF me.ver # NoSession THEN me.ver ELSE me.cand
    BY <2>3 DEF Current
  <2> HIDE DEF s
  <2>7. Follows(row, w, me)
    BY <2>3, <2>4, <2>5, <2>6 DEF Follows
  <2>8. Follows(row', w, me)
    BY <1>2, <1>4, <2>3, <2>7, FollowsStable
  <2>9. QED
    BY <1>3, <2>2, <2>3, <2>8 DEF Goes
<1>9. QED
  BY <1>5, <1>6, <1>7, <1>8

LEMMA StatusGoes ==
    ASSUME IInv, NEW w \in Workers, client[w].pc \in {"waiting", "poll"}, Status(w)
    PROVE  Rewritten /\ \E me : Goes(w, me)
<1>1. Current(w) \in Sessions
  BY CurrentThere
<1>2. host[Current(w)] \in HostRow
  BY <1>1 DEF IInv, Typed
<1>3. Payload(Current(w)).result \in Results /\ Payload(Current(w)).error \in Codes
  BY <1>2 DEF Payload, HostRow
<1>4. CASE Observe(w, Payload(Current(w)))
  BY <1>3, <1>4, ObserveGoes
<1>5. CASE Stop(w, "retry") /\ row' = row
  <2>1. Rewritten
    BY <1>5, NoneRewritten DEF IInv
  <2>2. Keeps(row, row') /\ row' \in [Sessions -> SessionRow]
    BY <2>1, RewrittenKeeps DEF Rewritten
  <2>3. "retry" \in Outcomes
    BY DEF Outcomes
  <2>4. QED
    BY <1>5, <2>1, <2>2, <2>3, StopGoes
<1>6. QED
  BY <1>4, <1>5 DEF Status

\* A worker that gives up and leaves the rows alone.
LEMMA GivesUp ==
    ASSUME IInv, NEW w \in Workers, client[w].pc # "begin", row' = row,
           NEW outcome \in Outcomes, Stop(w, outcome)
    PROVE  Rewritten /\ \E me : Goes(w, me)
<1>1. Rewritten
  BY NoneRewritten DEF IInv
<1>2. Keeps(row, row') /\ row' \in [Sessions -> SessionRow]
  BY <1>1, RewrittenKeeps DEF Rewritten
<1>3. QED
  BY <1>1, <1>2, StopGoes

LEMMA AnswerGoes ==
    ASSUME IInv, NEW w \in Workers, Answer(w)
    PROVE  Rewritten /\ \E me : Goes(w, me)
<1> DEFINE s == Current(w)
<1>1. client[w].pc = "waiting"
  BY DEF Answer, At
<1>2. s \in Sessions
  BY <1>1, CurrentThere
<1>3. host[s] \in HostRow
  BY <1>2 DEF IInv, Typed
<1>4. ASSUME NEW seen \in {Payload(s), [NoPayload EXCEPT !.status = "accepted"]}
      PROVE  seen.result \in Results /\ seen.error \in Codes
  <2>1. Payload(s).result \in Results /\ Payload(s).error \in Codes
    BY <1>3 DEF Payload, HostRow
  <2>2. /\ [NoPayload EXCEPT !.status = "accepted"].result = NoResult
        /\ [NoPayload EXCEPT !.status = "accepted"].error = "none"
    BY DEF NoPayload
  <2>3. QED
    BY <2>1, <2>2, Shapes DEF Codes
<1>5. CASE \E seen \in {Payload(s), [NoPayload EXCEPT !.status = "accepted"]} : Observe(w, seen)
  BY <1>1, <1>4, <1>5, ObserveGoes
<1>6. CASE \E outcome \in {"retry", "terminal"} : Stop(w, outcome) /\ row' = row
  BY <1>1, <1>6, GivesUp DEF Outcomes
<1>7. QED
  BY <1>5, <1>6 DEF Answer

LEMMA ReconnectGoes ==
    ASSUME IInv, NEW w \in Workers, Reconnect(w)
    PROVE  Rewritten /\ \E me : Goes(w, me)
BY StatusGoes DEF Reconnect, At

LEMMA PollGoes ==
    ASSUME IInv, NEW w \in Workers, Poll(w)
    PROVE  Rewritten /\ \E me : Goes(w, me)
<1> DEFINE s == Current(w)
<1>1. client[w].pc = "poll"
  BY DEF Poll, At
<1>2. s \in Sessions
  BY <1>1, CurrentThere
<1>3. row \in [Sessions -> SessionRow] /\ row[s] \in SessionRow
  BY <1>2 DEF IInv, Typed
<1>4. CASE Cancel(w)
  <2>1. Rewritten
    <3>1. CASE row' = row
      BY <3>1, NoneRewritten DEF IInv
    <3>2. CASE row' # row
      <4> DEFINE new == [row[s] EXCEPT !.cancelRequested = TRUE]
      <4>1. row[s].status \in Unfinished /\ row' = [row EXCEPT ![s] = new]
        BY <1>3, <1>4, <3>2 DEF Cancel
      <4>2. /\ new \in SessionRow /\ new.status = row[s].status /\ new.runtime = row[s].runtime
            /\ new.role = row[s].role /\ new.attempt = row[s].attempt
            /\ new.by = row[s].by /\ new.input = row[s].input
        BY <1>3 DEF SessionRow
      <4>3. new.status \in Unfinished /\ new.status # "completed"
        BY <4>1, <4>2 DEF Unfinished
      <4> HIDE DEF new
      <4>4. QED
        BY <1>2, <4>1, <4>2, <4>3, OneRewritten DEF IInv
    <3>3. QED
      BY <3>1, <3>2
  <2>2. Keeps(row, row') /\ row' \in [Sessions -> SessionRow]
    BY <2>1, RewrittenKeeps DEF Rewritten
  <2>3. Stop(w, "retry") /\ "retry" \in Outcomes
    BY <1>4 DEF Cancel, Outcomes
  <2>4. QED
    BY <1>1, <2>1, <2>2, <2>3, StopGoes
<1>5. CASE Status(w)
  BY <1>1, <1>5, StatusGoes
<1>6. CASE Stop(w, "superseded") /\ row' = row
  BY <1>1, <1>6, GivesUp DEF Outcomes
<1>7. QED
  BY <1>4, <1>5, <1>6 DEF Poll

LEMMA AcceptGoes ==
    ASSUME IInv, NEW w \in Workers, Accept(w)
    PROVE  Rewritten /\ \E me : Goes(w, me)
<1> DEFINE s == Current(w)
           result == client[w].seen
<1>1. client[w].pc = "accept"
  BY DEF Accept, At
<1>2. s \in Sessions /\ row[s].status # "absent"
  BY <1>1, CurrentThere
<1>3. row \in [Sessions -> SessionRow] /\ row[s] \in SessionRow
      /\ client \in [Workers -> ClientRow] /\ client[w] \in ClientRow
  BY <1>2 DEF IInv, Typed
<1>4. Follows(row, w, client[w])
  BY DEF IInv, ClientsFit
<1>5. Fits(row, s, result) /\ result \in Results
  BY <1>1, <1>4 DEF Follows, Current, Fits
<1>6. Rewritten /\ (Completable(s) => row'[s].status = "completed")
  <2>1. CASE Completable(s)
    <3> DEFINE new == [row[s] EXCEPT !.status = "completed", !.result = result]
    <3>1. row' = [row EXCEPT ![s] = new]
      BY <1>3, <2>1 DEF Accept
    <3>2. /\ new \in SessionRow /\ new.status = "completed" /\ new.runtime = row[s].runtime
          /\ new.role = row[s].role /\ new.attempt = row[s].attempt
          /\ new.by = row[s].by /\ new.input = row[s].input /\ new.result = result
      BY <1>3, <1>5 DEF SessionRow, Settled
    <3>3. row[s].status \in Unfinished /\ new.status \in Settled
      BY <2>1, <3>2 DEF Completable, Settled
    <3> HIDE DEF new
    <3>4. Rewritten
      BY <1>2, <1>5, <3>1, <3>2, <3>3, OneRewritten DEF IInv
    <3>5. QED
      BY <1>2, <1>3, <3>1, <3>2, <3>4
  <2>2. CASE ~Completable(s)
    BY <2>2, NoneRewritten DEF Accept, IInv
  <2>3. QED
    BY <2>1, <2>2
<1>7. Keeps(row, row') /\ row' \in [Sessions -> SessionRow]
  BY <1>6, RewrittenKeeps DEF Rewritten
<1>8. CASE Stop(w, "terminal")
  BY <1>1, <1>6, <1>7, <1>8, StopGoes DEF Outcomes
<1>9. CASE /\ Completable(s) \/ row[s].status = "completed"
           /\ client' = [client EXCEPT ![w].pc = IF row[s].role = Candidate THEN "prepare"
                                                   ELSE "report", ![w].seen = NoResult]
  <2> DEFINE me == [client[w] EXCEPT !.pc = IF row[s].role = Candidate THEN "prepare"
                                            ELSE "report", !.seen = NoResult]
  <2>1. client' = [client EXCEPT ![w] = me]
    BY <1>3, <1>9
  <2>2. /\ me \in ClientRow /\ me.cand = client[w].cand /\ me.ver = client[w].ver
        /\ me.pc = IF row[s].role = Candidate THEN "prepare" ELSE "report"
    BY <1>3, Shapes DEF ClientRow, Steps
  <2> HIDE DEF me
  <2>3. row'[s].status = "completed"
    BY <1>2, <1>6, <1>7, <1>9 DEF Keeps, Settled
  <2>4. Follows(row', w, client[w])
    BY <1>3, <1>4, <1>7, FollowsStable
  <2>5. s = IF client[w].ver # NoSession THEN client[w].ver ELSE client[w].cand
    BY DEF Current
  <2> HIDE DEF s
  <2>6. row[s].role = Candidate <=> client[w].ver = NoSession
    BY <1>1, <1>4, <2>5 DEF Follows, Pair, Candidate, Verifier
  <2>7. Follows(row', w, me)
    BY <2>2, <2>3, <2>4, <2>5, <2>6 DEF Follows
  <2>8. QED
    BY <1>1, <1>6, <2>1, <2>2, <2>7 DEF Goes
<1>10. QED
  BY <1>8, <1>9 DEF Accept

\* The steps that leave the rows alone.
LEMMA PrepareReportGoes ==
    ASSUME IInv, NEW w \in Workers, Prepare(w) \/ Report(w)
    PROVE  Rewritten /\ \E me : Goes(w, me)
<1>1. row' = row /\ client[w].pc \in {"prepare", "report"}
  BY DEF Prepare, Report, At, db
<1>2. Rewritten
  BY <1>1, NoneRewritten DEF IInv
<1>3. Keeps(row, row') /\ row' \in [Sessions -> SessionRow]
  BY <1>2, RewrittenKeeps DEF Rewritten
<1>4. CASE \E outcome \in Outcomes : Stop(w, outcome)
  BY <1>1, <1>4, GivesUp
<1>5. CASE \/ client[w].pc = "prepare" /\ To(w, "insert")
           \/ client[w].pc = "report" /\ To(w, "persist")
  <2>1. PICK pc \in Steps : /\ To(w, pc) /\ pc # "begin"
                            /\ \/ client[w].pc = "prepare" /\ pc = "insert"
                               \/ client[w].pc = "report" /\ pc = "persist"
    BY <1>5 DEF Steps
  <2>2. \A me \in ClientRow : /\ me.pc = pc /\ me.cand = client[w].cand
                               /\ me.ver = client[w].ver
                               /\ Follows(row, w, client[w])
                               => Follows(row, w, me)
    BY <2>1 DEF Follows
  <2>3. QED
    BY <1>1, <1>2, <1>3, <2>1, <2>2, ToGoes
<1>6. QED
  BY <1>4, <1>5 DEF Prepare, Report, Outcomes, At

\* A step to "release" is always possible.
LEMMA ReleaseFollows ==
    ASSUME IInv, Rewritten, NEW w \in Workers, client[w].pc # "begin", To(w, "release")
    PROVE  \E me : Goes(w, me)
<1>1. Keeps(row, row') /\ row' \in [Sessions -> SessionRow]
  BY RewrittenKeeps DEF Rewritten
<1>2. "release" \in Steps
  BY DEF Steps
<1>3. \A me \in ClientRow : /\ me.pc = "release" /\ me.cand = client[w].cand
                             /\ me.ver = client[w].ver
                             /\ Follows(row, w, client[w])
                             => Follows(row, w, me)
  BY DEF Follows
<1>4. QED
  BY <1>1, <1>2, <1>3, ToGoes

LEMMA PersistGoes ==
    ASSUME IInv, NEW w \in Workers, Persist(w)
    PROVE  Rewritten /\ \E me : Goes(w, me)
<1>1. row' = row /\ client[w].pc = "persist"
  BY DEF Persist, At
<1>2. Rewritten
  BY <1>1, NoneRewritten DEF IInv
<1>3. CASE Stop(w, "retry")
  BY <1>1, <1>3, GivesUp DEF Outcomes
<1>4. CASE To(w, "release")
  BY <1>1, <1>2, <1>4, ReleaseFollows
<1>5. QED
  BY <1>3, <1>4 DEF Persist

LEMMA AbandonGoes ==
    ASSUME IInv, NEW w \in Workers, Abandon(w)
    PROVE  Rewritten /\ \E me : Goes(w, me)
<1>1. PICK status \in {"cancelled", "failed"} : row' = Abandoned(w, status)
  BY DEF Abandon
<1>2. client[w].pc = "abandon" /\ To(w, "release")
  BY DEF Abandon, At
<1>3. row \in [Sessions -> SessionRow]
  BY DEF IInv, Typed
<1> DEFINE new(s) == [row[s] EXCEPT !.status = status]
<1>4. ASSUME NEW s \in Sessions
      PROVE  /\ new(s) \in SessionRow /\ new(s).status = status /\ new(s).runtime = row[s].runtime
             /\ new(s).role = row[s].role /\ new(s).attempt = row[s].attempt
             /\ new(s).by = row[s].by /\ new(s).input = row[s].input
  <2>1. row[s] \in SessionRow
    BY <1>3
  <2>2. QED
    BY <2>1 DEF SessionRow, Settled
<1>5. row' = [s \in Sessions |-> IF s \in Mine(w) /\ row[s].status \in Unfinished
                                 THEN new(s) ELSE row[s]]
  BY <1>1, Zenon DEF Abandoned
<1> HIDE DEF new
<1>6. row' \in [Sessions -> SessionRow]
  BY <1>3, <1>4, <1>5
<1>7. ASSUME NEW s \in Sessions PROVE Touched(row, row', s)
  <2>1. row'[s] = row[s] \/ (row'[s] = new(s) /\ row[s].status \in Unfinished)
    BY <1>5
  <2>2. QED
    BY <1>4, <2>1 DEF Touched, Settled
<1>8. Rewritten
  BY <1>6, <1>7 DEF Rewritten
<1>9. QED
  BY <1>2, <1>8, ReleaseFollows

LEMMA BeginGoes ==
    ASSUME IInv, NEW w \in Workers, Begin(w) \/ Claim(w) \/ Release(w)
    PROVE  /\ Rewritten
           /\ \E me \in ClientRow : /\ client' = [client EXCEPT ![w] = me] /\ Follows(row', w, me)
                                    /\ me.pc = "begin" <=> Claim(w)
<1>1. row' = row /\ client \in [Workers -> ClientRow] /\ client[w] \in ClientRow
      /\ client[w].pc \in {"idle", "begin", "release"}
  BY DEF Begin, Claim, Release, At, IInv, Typed
<1>2. Rewritten
  BY <1>1, NoneRewritten DEF IInv
<1>3. Follows(row, w, client[w])
  BY DEF IInv, ClientsFit
<1>4. ASSUME NEW pc \in {"begin", "prepare", "release"}, client[w].pc \in {"idle", "begin"},
             To(w, pc), pc = "begin" <=> Claim(w)
      PROVE  \E me \in ClientRow : /\ client' = [client EXCEPT ![w] = me] /\ Follows(row', w, me)
                                   /\ me.pc = "begin" <=> Claim(w)
  <2> DEFINE me == [client[w] EXCEPT !.pc = pc]
  <2>1. client' = [client EXCEPT ![w] = me]
    BY <1>1, <1>4 DEF To
  <2>2. me \in ClientRow /\ me.pc = pc /\ me.cand = client[w].cand /\ me.ver = client[w].ver
    BY <1>1 DEF ClientRow, Steps
  <2> HIDE DEF me
  <2>3. Follows(row', w, me)
    BY <1>1, <1>3, <1>4, <2>2 DEF Follows, Pair
  <2>4. QED
    BY <1>4, <2>1, <2>2, <2>3
<1>5. CASE Claim(w)
  BY <1>2, <1>4, <1>5 DEF Claim, At, To
<1>6. CASE Begin(w)
  <2>1. client[w].pc = "begin" /\ ~Claim(w) /\ (To(w, "prepare") \/ To(w, "release"))
    BY <1>6 DEF Begin, Claim, At
  <2>2. QED
    BY <1>2, <1>4, <2>1
<1>7. CASE Release(w)
  <2>1. client' = [client EXCEPT ![w] = Quiet] /\ ~Claim(w)
    BY <1>7 DEF Release, Claim, At
  <2>2. Quiet.pc = "idle" /\ Quiet.cand = NoSession /\ Quiet.ver = NoSession
    BY DEF Quiet
  <2>3. Follows(row', w, Quiet)
    BY <2>2 DEF Follows, Pair
  <2>4. QED
    BY <1>2, <2>1, <2>2, <2>3, Shapes
<1>8. QED
  BY <1>5, <1>6, <1>7

-----------------------------------------------------------------------------
(* A new session.                                                          *)

\* The session is the first that is not there yet.
LEMMA NextSession ==
    ASSUME IInv, row[MaxSessions].status = "absent"
    PROVE  LET s == CHOOSE s \in Sessions :
                      /\ row[s].status = "absent"
                      /\ \A t \in Sessions : t < s => row[t].status # "absent"
           IN  /\ s \in Sessions /\ row[s].status = "absent"
               /\ \A t \in Sessions : t < s <=> row[t].status # "absent"
<1>1. PICK n \in 0..MaxSessions : \A s \in Sessions : row[s].status # "absent" <=> s <= n
  BY DEF IInv, Filled
<1>2. n < MaxSessions /\ n \in Nat /\ MaxSessions \in Nat
  BY <1>1, Shapes
<1>3. /\ n + 1 \in Sessions /\ row[n + 1].status = "absent"
      /\ \A t \in Sessions : t < n + 1 => row[t].status # "absent"
  BY <1>1, <1>2 DEF Sessions
<1> DEFINE P(s) == /\ row[s].status = "absent"
                   /\ \A t \in Sessions : t < s => row[t].status # "absent"
           s == CHOOSE s \in Sessions : P(s)
<1>4. s \in Sessions /\ P(s)
  <2>1. \E i \in Sessions : P(i)
    BY <1>3
  <2> HIDE DEF P
  <2>2. QED
    BY <2>1
<1>5. \A t \in Sessions : t < s <=> row[t].status # "absent"
  <2> HIDE DEF s
  <2>1. s > n
    BY <1>1, <1>2, <1>4 DEF Sessions
  <2>2. QED
    BY <1>1, <1>2, <1>4, <2>1 DEF Sessions
<1>6. QED
  BY <1>4, <1>5

\* The row that a dispatch adds.
Added(s, new) ==
    /\ row[s].status = "absent" /\ new \in SessionRow /\ row' = [row EXCEPT ![s] = new]
    /\ new.status = "dispatched" /\ new.attempt = run.attempt
    /\ post' = [post EXCEPT ![s] = "sent"]

LEMMA AddedKeeps ==
    ASSUME IInv, NEW s \in Sessions, NEW new, Added(s, new),
           \A t \in Sessions : t < s <=> row[t].status # "absent"
    PROVE  /\ row' \in [Sessions -> SessionRow] /\ Keeps(row, row') /\ Filled'
           /\ row'[s] = new /\ \A t \in Sessions : t # s => row'[t] = row[t]
<1>1. row \in [Sessions -> SessionRow]
  BY DEF IInv, Typed
<1>2. row' \in [Sessions -> SessionRow] /\ row'[s] = new
      /\ \A t \in Sessions : t # s => row'[t] = row[t]
  BY <1>1 DEF Added
<1>3. Keeps(row, row')
  BY <1>2 DEF Keeps, Added, Settled
<1>4. s \in 0..MaxSessions /\ \A t \in Sessions : row'[t].status # "absent" <=> t <= s
  BY <1>2, Shapes DEF Added, Sessions
<1>5. QED
  BY <1>2, <1>3, <1>4 DEF Filled

LEMMA InsertGoes ==
    ASSUME IInv, NEW w \in Workers, Insert(w)
    PROVE  /\ \/ Rewritten /\ post' = post
              \/ \E s \in Sessions : /\ \E new : Added(s, new)
                                      /\ \A t \in Sessions : t < s <=> row[t].status # "absent"
           /\ \E me : Goes(w, me)
<1>1. client[w].pc = "insert" /\ client \in [Workers -> ClientRow] /\ client[w] \in ClientRow
      /\ row \in [Sessions -> SessionRow] /\ run \in RunRow
  BY DEF Insert, At, IInv, Typed
<1>2. CASE Stop(w, "retry") /\ UNCHANGED <<row, post>>
  <2>1. Rewritten /\ \E me : Goes(w, me)
    BY <1>1, <1>2, GivesUp DEF Outcomes
  <2>2. QED
    BY <1>2, <2>1
<1> DEFINE s == CHOOSE s \in Sessions : /\ row[s].status = "absent"
                                         /\ \A t \in Sessions : t < s => row[t].status # "absent"
           c == client[w].cand
           first == [Absent EXCEPT !.status = "dispatched", !.attempt = run.attempt, !.by = w]
           second == [first EXCEPT !.runtime = opposite_agent_runtime(row[c].runtime),
                                   !.role = Verifier, !.input = row[c].result]
<1>3. CASE /\ row[MaxSessions].status = "absent"
           /\ IF c = NoSession
              THEN /\ row' = [row EXCEPT ![s] = first]
                   /\ client' = [client EXCEPT ![w].pc = "waiting", ![w].cand = s]
              ELSE /\ row' = [row EXCEPT ![s] = second]
                   /\ client' = [client EXCEPT ![w].pc = "waiting", ![w].ver = s]
           /\ post' = [post EXCEPT ![s] = "sent"]
  <2>1. s \in Sessions /\ row[s].status = "absent"
        /\ \A t \in Sessions : t < s <=> row[t].status # "absent"
    BY <1>3, NextSession
  <2>2. Follows(row, w, client[w])
    BY DEF IInv, ClientsFit
  <2>3. client[w].ver = NoSession /\ c \in Sessions \cup {NoSession}
        /\ (c # NoSession => row[c].status = "completed" /\ row[c].role = Candidate)
    BY <1>1, <2>2 DEF Follows, Pair, ClientRow
  <2>4. /\ first \in SessionRow /\ first.status = "dispatched" /\ first.attempt = run.attempt
        /\ first.by = w /\ first.role = Candidate
    <3>1. run.attempt \in 0..MaxAttempts
      BY <1>1 DEF RunRow
    <3>2. QED
      BY <3>1, Shapes DEF Absent, SessionRow, Unfinished, RuntimeNames
  <2> HIDE DEF s, first
  <2>5. CASE c = NoSession
    <3> DEFINE me == [client[w] EXCEPT !.pc = "waiting", !.cand = s]
    <3>1. Added(s, first)
      BY <1>3, <2>1, <2>4, <2>5 DEF Added
    <3>2. /\ row' \in [Sessions -> SessionRow] /\ Keeps(row, row') /\ row'[s] = first
      BY <2>1, <3>1, AddedKeeps
    <3>3. client' = [client EXCEPT ![w] = me]
      BY <1>1, <1>3, <2>5
    <3>4. /\ me \in ClientRow /\ me.pc = "waiting" /\ me.cand = s /\ me.ver = NoSession
      BY <1>1, <2>1, <2>3 DEF ClientRow, Steps
    <3> HIDE DEF me
    <3>5. Follows(row', w, me)
      BY <2>1, <2>4, <3>2, <3>4, Shapes DEF Follows, Pair
    <3>6. Goes(w, me)
      BY <1>1, <3>3, <3>4, <3>5 DEF Goes
    <3>7. QED
      BY <2>1, <3>1, <3>6
  <2>6. CASE c # NoSession
    <3> DEFINE me == [client[w] EXCEPT !.pc = "waiting", !.ver = s]
    <3>0. c \in Sessions /\ row[c] \in SessionRow /\ row[c].status = "completed"
          /\ row[c].role = Candidate
      BY <1>1, <2>3, <2>6
    <3>1. row[c].result \in Inputs
      <4>1. Fits(row, c, row[c].result)
        BY <3>0 DEF IInv, RowsFit
      <4>2. row[c].result \in CandidateResults
        BY <3>0, <4>1, CandidateAccepted DEF Fits
      <4>3. QED
        BY <4>2 DEF Inputs
    <3>2. /\ opposite_agent_runtime(row[c].runtime) \in RuntimeNames
          /\ opposite_agent_runtime(row[c].runtime) # row[c].runtime
      BY <3>0 DEF SessionRow, opposite_agent_runtime, RuntimeNames
    <3> DEFINE o == opposite_agent_runtime(row[c].runtime)
    <3>3. /\ second \in SessionRow /\ second.status = "dispatched" /\ second.attempt = run.attempt
          /\ second.by = w /\ second.role = Verifier /\ second.runtime = o
          /\ second.input = row[c].result
      <4> HIDE DEF o
      <4>1. second = [first EXCEPT !.runtime = o, !.role = Verifier, !.input = row[c].result]
        BY DEF o
      <4>2. QED
        BY <2>4, <3>1, <3>2, <4>1 DEF SessionRow, o
    <3> HIDE DEF second
    <3>4. Added(s, second)
      BY <1>3, <2>1, <2>6, <3>3 DEF Added
    <3>5. /\ row' \in [Sessions -> SessionRow] /\ Keeps(row, row') /\ row'[s] = second
          /\ \A t \in Sessions : t # s => row'[t] = row[t]
      BY <2>1, <3>4, AddedKeeps
    <3>6. client' = [client EXCEPT ![w] = me]
      BY <1>1, <1>3, <2>6
    <3>7. /\ me \in ClientRow /\ me.pc = "waiting" /\ me.cand = c /\ me.ver = s
      BY <1>1, <2>1 DEF ClientRow, Steps
    <3> HIDE DEF me
    <3>8. row'[c] = row[c] /\ row[c].by = w
      BY <2>1, <2>2, <2>6, <3>0, <3>5 DEF Follows, Pair
    <3>9. Follows(row', w, me)
      BY <2>1, <2>6, <3>0, <3>2, <3>3, <3>5, <3>7, <3>8, Shapes DEF Follows, Pair
    <3>10. Goes(w, me)
      BY <1>1, <3>6, <3>7, <3>9 DEF Goes
    <3>11. QED
      BY <2>1, <3>4, <3>10
  <2>7. QED
    BY <2>5, <2>6
<1>4. QED
  BY <1>2, <1>3 DEF Insert

-----------------------------------------------------------------------------
(* Rows and workers in every step.                                         *)

StepKept ==
    /\ row' \in [Sessions -> SessionRow] /\ Keeps(row, row') /\ Filled'
    /\ \A s \in Sessions : row'[s].status = "completed" => Fits(row', s, row'[s].result)
    /\ \A s \in Sessions : row[s].status = "absent" => row'[s] = row[s] \/ \E new : Added(s, new)
    /\ client' \in [Workers -> ClientRow] /\ ClientsFit'

LEMMA RewrittenStep ==
    ASSUME IInv, Rewritten
    PROVE  /\ row' \in [Sessions -> SessionRow] /\ Keeps(row, row') /\ Filled'
           /\ \A s \in Sessions : row'[s].status = "completed" => Fits(row', s, row'[s].result)
           /\ \A s \in Sessions : row[s].status = "absent" => row'[s] = row[s] \/ \E new : Added(s, new)
BY RewrittenKeeps DEF Rewritten

LEMMA AddedStep ==
    ASSUME IInv, NEW s \in Sessions, NEW new, Added(s, new),
           \A t \in Sessions : t < s <=> row[t].status # "absent"
    PROVE  /\ row' \in [Sessions -> SessionRow] /\ Keeps(row, row') /\ Filled'
           /\ \A t \in Sessions : row'[t].status = "completed" => Fits(row', t, row'[t].result)
           /\ \A t \in Sessions : row[t].status = "absent" => row'[t] = row[t] \/ \E n : Added(t, n)
<1>1. /\ row' \in [Sessions -> SessionRow] /\ Keeps(row, row') /\ Filled'
      /\ row'[s] = new /\ \A t \in Sessions : t # s => row'[t] = row[t]
  BY AddedKeeps
<1>2. ASSUME NEW t \in Sessions, row'[t].status = "completed"
      PROVE  Fits(row', t, row'[t].result)
  <2>1. t # s
    BY <1>1, <1>2 DEF Added
  <2>2. row'[t] = row[t]
    BY <1>1, <2>1
  <2>3. Fits(row, t, row[t].result)
    BY <1>2, <2>2 DEF IInv, RowsFit
  <2>4. QED
    BY <2>2, <2>3 DEF Fits
<1>3. QED
  BY <1>1, <1>2

LEMMA ClientsStep ==
    ASSUME IInv, row' \in [Sessions -> SessionRow], Keeps(row, row'),
           NEW w \in Workers, NEW me \in ClientRow, client' = [client EXCEPT ![w] = me],
           Follows(row', w, me)
    PROVE  client' \in [Workers -> ClientRow] /\ ClientsFit'
<1>1. client \in [Workers -> ClientRow] /\ row \in [Sessions -> SessionRow]
  BY DEF IInv, Typed
<1>2. client' \in [Workers -> ClientRow] /\ client'[w] = me
      /\ \A v \in Workers : v # w => client'[v] = client[v]
  BY <1>1
<1>3. ASSUME NEW v \in Workers, v # w PROVE Follows(row', v, client'[v])
  <2>1. Follows(row, v, client[v]) /\ client[v] \in ClientRow
    BY <1>1 DEF IInv, ClientsFit
  <2>2. Follows(row', v, client[v])
    BY <1>1, <2>1, FollowsStable
  <2>3. QED
    BY <1>2, <1>3, <2>2
<1>4. \A v \in Workers : Follows(row', v, client'[v])
  BY <1>2, <1>3
<1>5. QED
  BY <1>2, <1>4 DEF ClientsFit

\* The steps in which no worker takes part.
Elsewhere ==
    \/ \E s \in Sessions : HostStart(s) \/ HostWork(s) \/ ToolCall(s) \/ ToolLogged(s)
    \/ \E r \in RuntimeNames : HostRestart(r)
    \/ LeaseExpires \/ MoveHead \/ Expire
    \/ UNCHANGED vars

LEMMA ElsewhereLeaves ==
    ASSUME Elsewhere
    PROVE  row' = row /\ client' = client
<1>1. ASSUME NEW s \in Sessions, HostStart(s) PROVE row' = row /\ client' = client
  BY <1>1 DEF HostStart, db
<1>2. ASSUME NEW s \in Sessions, HostWork(s) PROVE row' = row /\ client' = client
  BY <1>2 DEF HostWork, HostRun, HostExecute, HostFinish, db
<1>3. ASSUME NEW s \in Sessions, ToolCall(s) \/ ToolLogged(s) PROVE row' = row /\ client' = client
  BY <1>3 DEF ToolCall, ToolLogged, db
<1>4. ASSUME NEW r \in RuntimeNames, HostRestart(r) PROVE row' = row /\ client' = client
  BY <1>4 DEF HostRestart, db
<1>5. ASSUME LeaseExpires \/ MoveHead \/ Expire \/ UNCHANGED vars PROVE row' = row /\ client' = client
  BY <1>5 DEF LeaseExpires, MoveHead, Expire, db, vars
<1>6. QED
  BY <1>1, <1>2, <1>3, <1>4, <1>5 DEF Elsewhere

LEMMA StepsKeep ==
    ASSUME IInv, [Next]_vars
    PROVE  StepKept
<1>1. ASSUME NEW w \in Workers, Claim(w) \/ Begin(w) \/ Release(w)
      PROVE  StepKept
  <2>1. Rewritten
    BY <1>1, BeginGoes
  <2>2. PICK me \in ClientRow : client' = [client EXCEPT ![w] = me] /\ Follows(row', w, me)
    BY <1>1, BeginGoes
  <2>3. client' \in [Workers -> ClientRow] /\ ClientsFit'
    BY <2>1, <2>2, RewrittenStep, ClientsStep
  <2>4. QED
    BY <2>1, <2>3, RewrittenStep DEF StepKept
<1>2. ASSUME NEW w \in Workers, Rewritten /\ \E me : Goes(w, me)
      PROVE  StepKept
  <2>2. PICK me \in ClientRow : client' = [client EXCEPT ![w] = me] /\ Follows(row', w, me)
    BY <1>2 DEF Goes
  <2>3. client' \in [Workers -> ClientRow] /\ ClientsFit'
    BY <1>2, <2>2, RewrittenStep, ClientsStep
  <2>4. QED
    BY <1>2, <2>3, RewrittenStep DEF StepKept
<1>3. ASSUME NEW w \in Workers, Insert(w)
      PROVE  StepKept
  <2>1. CASE Rewritten
    BY <1>2, <1>3, <2>1, InsertGoes
  <2>2. ASSUME NEW s \in Sessions, \E new : Added(s, new),
               \A t \in Sessions : t < s <=> row[t].status # "absent"
        PROVE  StepKept
    <3>1. PICK new : Added(s, new)
      BY <2>2
    <3>2. PICK me \in ClientRow : client' = [client EXCEPT ![w] = me] /\ Follows(row', w, me)
      BY <1>3, InsertGoes DEF Goes
    <3>3. client' \in [Workers -> ClientRow] /\ ClientsFit'
      BY <2>2, <3>1, <3>2, AddedStep, ClientsStep
    <3>4. QED
      BY <2>2, <3>1, <3>3, AddedStep DEF StepKept
  <2>3. QED
    BY <1>3, <2>1, <2>2, InsertGoes
<1>4. ASSUME Elsewhere PROVE StepKept
  <2>1. row' = row /\ client' = client
    BY <1>4, ElsewhereLeaves
  <2>2. Rewritten
    BY <2>1, NoneRewritten DEF IInv
  <2>3. client' \in [Workers -> ClientRow] /\ ClientsFit'
    BY <2>1 DEF IInv, Typed, ClientsFit
  <2>4. QED
    BY <2>2, <2>3, RewrittenStep DEF StepKept
<1>5. ASSUME NEW w \in Workers, Work(w)
      PROVE  StepKept
  BY <1>1, <1>2, <1>3, <1>5, PrepareReportGoes, AnswerGoes, ReconnectGoes, PollGoes, AcceptGoes,
     PersistGoes, AbandonGoes DEF Work
<1>6. QED
  BY <1>1, <1>4, <1>5 DEF Next, Elsewhere

-----------------------------------------------------------------------------
(* Attempts.                                                               *)

LEMMA CountStep ==
    ASSUME IInv, [Next]_vars
    PROVE  job' \in JobRow /\ Counted' /\ run.attempt <= run'.attempt /\ run'.attempt \in 0..MaxAttempts
<1>1. /\ job \in JobRow /\ run \in RunRow /\ client \in [Workers -> ClientRow]
      /\ MaxAttempts \in Nat /\ IsFiniteSet(Beginning)
      /\ Cardinality(Beginning) + run.attempt <= job.claims
  BY Shapes DEF IInv, Typed, Counted
<1>2. job.claims \in 0..MaxAttempts /\ run.attempt \in 0..MaxAttempts /\ Cardinality(Beginning) \in Nat
  BY <1>1, FS_CardinalityType DEF JobRow, RunRow
<1>3. ASSUME job'.claims = job.claims, run'.attempt = run.attempt, job' \in JobRow,
             \A w \in Workers : client'[w].pc = "begin" <=> client[w].pc = "begin"
      PROVE  job' \in JobRow /\ Counted' /\ run.attempt <= run'.attempt /\ run'.attempt \in 0..MaxAttempts
  <2>1. Beginning' = Beginning
    BY <1>3 DEF Beginning, At
  <2>2. QED
    BY <1>1, <1>2, <1>3, <2>1 DEF Counted
<1>4. ASSUME NEW w \in Workers, \E me : Goes(w, me)
      PROVE  \A v \in Workers : client'[v].pc = "begin" <=> client[v].pc = "begin"
  <2>1. PICK me : Goes(w, me)
    BY <1>4
  <2>2. QED
    BY <1>1, <2>1 DEF Goes
<1>5. ASSUME NEW w \in Workers, Claim(w)
      PROVE  job' \in JobRow /\ Counted' /\ run.attempt <= run'.attempt /\ run'.attempt \in 0..MaxAttempts
  <2>1. job' = [job EXCEPT !.lease = w, !.claims = job.claims + 1] /\ job.claims < MaxAttempts
        /\ run' = run /\ client[w].pc = "idle"
    BY <1>5 DEF Claim, At
  <2>2. job' \in JobRow /\ job'.claims = job.claims + 1
    <3>1. job.claims + 1 \in 0..MaxAttempts
      BY <1>1, <1>2, <2>1
    <3> DEFINE n == job.claims + 1
    <3>2. job' = [job EXCEPT !.lease = w, !.claims = n] /\ n \in 0..MaxAttempts
      BY <2>1, <3>1
    <3> HIDE DEF n
    <3>3. job' \in JobRow /\ job'.claims = n
      BY <1>1, <3>2 DEF JobRow
    <3>4. QED
      BY <3>3 DEF n
  <2>3. PICK me \in ClientRow : client' = [client EXCEPT ![w] = me] /\ me.pc = "begin"
    BY <1>5, BeginGoes
  <2>4. Beginning' = Beginning \cup {w} /\ w \notin Beginning
    BY <1>1, <2>1, <2>3 DEF Beginning, At
  <2>5. IsFiniteSet(Beginning \cup {w}) /\ Cardinality(Beginning \cup {w}) = Cardinality(Beginning) + 1
    BY <1>1, <2>4, FS_AddElement
  <2>6. QED
    BY <1>1, <1>2, <2>1, <2>2, <2>4, <2>5 DEF Counted
<1>6. ASSUME NEW w \in Workers, Begin(w)
      PROVE  job' \in JobRow /\ Counted' /\ run.attempt <= run'.attempt /\ run'.attempt \in 0..MaxAttempts
  <2>1. job' = job /\ client[w].pc = "begin" /\ ~Claim(w)
        /\ (run' = run \/ run' = [run EXCEPT !.status = "generating", !.attempt = run.attempt + 1])
    BY <1>6 DEF Begin, At, Claim
  <2>2. run'.attempt = run.attempt \/ run'.attempt = run.attempt + 1
    BY <1>1, <2>1 DEF RunRow
  <2>3. PICK me \in ClientRow : client' = [client EXCEPT ![w] = me] /\ me.pc # "begin"
    BY <1>6, <2>1, BeginGoes
  <2>4. Beginning' = Beginning \ {w} /\ w \in Beginning
    BY <1>1, <2>1, <2>3 DEF Beginning, At
  <2>5. IsFiniteSet(Beginning \ {w}) /\ Cardinality(Beginning \ {w}) = Cardinality(Beginning) - 1
    BY <1>1, <2>4, FS_RemoveElement
  <2>6. Cardinality(Beginning \ {w}) \in Nat
    BY <2>5, FS_CardinalityType
  <2>7. Counted' /\ run.attempt <= run'.attempt
    BY <1>1, <1>2, <2>1, <2>2, <2>4, <2>5 DEF Counted
  <2>8. run'.attempt \in 0..MaxAttempts
    BY <1>1, <1>2, <2>1, <2>2, <2>4, <2>5, <2>6
  <2>9. QED
    BY <1>1, <2>1, <2>7, <2>8
<1>7. ASSUME NEW w \in Workers, Release(w)
      PROVE  job' \in JobRow /\ Counted' /\ run.attempt <= run'.attempt /\ run'.attempt \in 0..MaxAttempts
  <2>1. job' \in JobRow /\ job'.claims = job.claims /\ run' = run
    BY <1>1, <1>7 DEF Release, JobRow
  <2>2. PICK me \in ClientRow : client' = [client EXCEPT ![w] = me] /\ me.pc # "begin"
    BY <1>7, BeginGoes DEF Release, Claim, At
  <2>3. \A v \in Workers : client'[v].pc = "begin" <=> client[v].pc = "begin"
    BY <1>1, <1>7, <2>2 DEF Release, At
  <2>4. QED
    BY <1>3, <2>1, <2>3
<1>8. ASSUME NEW w \in Workers, Work(w), ~Begin(w), ~Release(w)
      PROVE  job' \in JobRow /\ Counted' /\ run.attempt <= run'.attempt /\ run'.attempt \in 0..MaxAttempts
  <2>1. \E me : Goes(w, me)
    BY <1>8, PrepareReportGoes, AnswerGoes, ReconnectGoes, PollGoes, AcceptGoes, PersistGoes,
       AbandonGoes, InsertGoes DEF Work
  <2>2. job' = job
    BY <1>8 DEF Work, Prepare, Insert, Answer, Reconnect, Poll, Accept, Report, Persist, Abandon, db
  <2>3. run'.attempt = run.attempt
    <3>1. run' = run \/ Persist(w) \/ Abandon(w)
      BY <1>8 DEF Work, Prepare, Insert, Answer, Reconnect, Poll, Accept, Report, db
    <3>2. ASSUME Persist(w) PROVE run'.attempt = run.attempt
      BY <1>1, <3>2 DEF Persist, RunRow
    <3>3. ASSUME Abandon(w) PROVE run'.attempt = run.attempt
      <4>1. run' = run \/ \E status : run' = [run EXCEPT !.status = status]
        BY <3>3 DEF Abandon
      <4>2. QED
        BY <1>1, <4>1 DEF RunRow
    <3>4. QED
      BY <3>1, <3>2, <3>3
  <2>4. QED
    BY <1>1, <1>3, <1>4, <2>1, <2>2, <2>3
<1>9. ASSUME Elsewhere
      PROVE  job' \in JobRow /\ Counted' /\ run.attempt <= run'.attempt /\ run'.attempt \in 0..MaxAttempts
  <2>1. client' = client
    BY <1>9, ElsewhereLeaves
  <2>2. run' = run /\ (job' = job \/ job' = [job EXCEPT !.lease = Nobody])
    BY <1>9 DEF Elsewhere, HostStart, HostWork, HostRun, HostExecute, HostFinish, ToolCall, ToolLogged,
       HostRestart, LeaseExpires, MoveHead, Expire, db, vars
  <2>3. job' \in JobRow /\ job'.claims = job.claims
    BY <1>1, <2>2 DEF JobRow
  <2>4. QED
    BY <1>3, <2>1, <2>2, <2>3
<1>10. QED
  BY <1>5, <1>6, <1>7, <1>8, <1>9 DEF Next, Elsewhere

-----------------------------------------------------------------------------
(* Hosts.                                                                  *)

\* One review on a host becomes another state of it.
HostTo(h, g) ==
    /\ g \in HostRow
    /\ g.thread # "none" => g.status \in HostActive
    /\ g.cancel => g.status \in {"cancel_requested", "cancelled"}
    /\ h.cancel /\ g.status # "absent" => g.status \in {"cancel_requested", "cancelled"}

HostStep ==
    /\ host' \in [Sessions -> HostRow] /\ slots' \subseteq RuntimeNames /\ order' \in Seq(Sessions)
    /\ \A s \in Sessions : HostTo(host[s], host'[s])
    /\ \A s \in Sessions : row'[s].status = "absent" => host'[s].status = "absent"
    /\ SlotsFit'

LEMMA HostSame ==
    ASSUME IInv, NEW s \in Sessions
    PROVE  HostTo(host[s], host[s]) /\ (row[s].status = "absent" => host[s].thread = "none")
BY DEF IInv, Typed, HostsFit, RowsFit, HostTo, HostActive

LEMMA UnknownTo ==
    ASSUME NEW h
    PROVE  HostTo(h, Unknown) /\ Unknown.thread = "none" /\ Unknown.status = "absent"
<1>1. /\ Unknown.thread = "none" /\ Unknown.status = "absent" /\ Unknown.cancel = FALSE
  BY DEF Unknown
<1>2. QED
  BY <1>1, Shapes DEF HostTo

LEMMA CancelledTo ==
    ASSUME IInv, NEW s \in Sessions
    PROVE  /\ HostTo(host[s], Cancelled(s)) /\ Cancelled(s).thread = host[s].thread
           /\ Cancelled(s).status = "absent" <=> host[s].status = "absent"
<1>1. host[s] \in HostRow
  BY DEF IInv, Typed
<1>2. CASE host[s].status \in HostActive
  <2>1. /\ Cancelled(s) \in HostRow /\ Cancelled(s).status = "cancel_requested"
        /\ Cancelled(s).thread = host[s].thread
    BY <1>1, <1>2 DEF Cancelled, HostRow, HostActive
  <2>2. QED
    BY <1>2, <2>1 DEF HostTo, HostActive
<1>3. CASE host[s].status \notin HostActive
  <2>1. Cancelled(s) = host[s]
    BY <1>3 DEF Cancelled
  <2>2. QED
    BY <2>1, HostSame
<1>4. QED
  BY <1>2, <1>3

LEMMA EndedTo ==
    ASSUME IInv, NEW s \in Sessions, NEW cancelled \in BOOLEAN, host[s].cancel => cancelled, NEW error
    PROVE  HostTo(host[s], Ended(host[s], cancelled, error)) /\ Ended(host[s], cancelled, error).thread = "none"
<1>1. host[s] \in HostRow
  BY DEF IInv, Typed
<1> DEFINE code == IF cancelled THEN "cancelled" ELSE HostErrorCode(error)
           status == IF cancelled THEN "cancelled" ELSE "failed"
           g == Ended(host[s], cancelled, error)
<1>2. code \in Codes
  BY DEF HostErrorCode, Codes
<1>3. status \in Settled /\ (cancelled => status = "cancelled")
  BY DEF Settled
<1>4. g = [host[s] EXCEPT !.status = status, !.error = code, !.result = NoResult, !.thread = "none"]
  BY DEF Ended
<1> HIDE DEF code, status, g
<1>5. g \in HostRow /\ g.status = status /\ g.thread = "none" /\ g.cancel = host[s].cancel
  BY <1>1, <1>2, <1>3, <1>4, Shapes DEF HostRow
<1>6. HostTo(host[s], g) /\ g.thread = "none"
  BY <1>3, <1>5 DEF HostTo
<1>7. QED
  BY <1>6 DEF g

\* Threads that go on keep their slots.
LEMMA SlotsStay ==
    ASSUME IInv, StepKept, slots' = slots,
           \A s \in Sessions : host'[s].thread = "none" <=> host[s].thread = "none"
    PROVE  SlotsFit' /\ slots' \subseteq RuntimeNames
<1>1. \A s \in Sessions : host[s].thread # "none" => row'[s].runtime = row[s].runtime
  <2>1. \A s \in Sessions : host[s].thread # "none" => row[s].status # "absent"
    BY HostSame
  <2>2. QED
    BY <2>1 DEF StepKept, Keeps
<1>2. ASSUME NEW s \in Sessions, NEW t \in Sessions, host'[s].thread # "none", host'[t].thread # "none",
             row'[s].runtime = row'[t].runtime
      PROVE  s = t
  BY <1>1, <1>2 DEF IInv, SlotsFit, RuntimeOf
<1>3. ASSUME NEW r \in RuntimeNames
      PROVE  r \in slots' <=> \A s \in Sessions : row'[s].runtime = r => host'[s].thread = "none"
  <2>1. r \in slots <=> \A s \in Sessions : row[s].runtime = r => host[s].thread = "none"
    BY DEF IInv, SlotsFit, RuntimeOf
  <2>2. (\A s \in Sessions : row[s].runtime = r => host[s].thread = "none")
        <=> (\A s \in Sessions : row'[s].runtime = r => host'[s].thread = "none")
    BY <1>1
  <2>3. QED
    BY <2>1, <2>2
<1>4. QED
  BY <1>2, <1>3 DEF SlotsFit, RuntimeOf, IInv, Typed

\* A thread that ends leaves the slot that was its own.
LEMMA SlotLeft ==
    ASSUME IInv, row' = row, NEW s \in Sessions, host[s].thread # "none", slots' = SlotsAfter(s),
           host'[s].thread = "none", \A t \in Sessions : t # s => host'[t] = host[t]
    PROVE  SlotsFit' /\ slots' \subseteq RuntimeNames
<1>1. row[s].runtime \in RuntimeNames /\ slots \subseteq RuntimeNames
  BY DEF IInv, Typed, SessionRow
<1>2. \A t, u \in Sessions : /\ host[t].thread # "none" /\ host[u].thread # "none"
                              /\ row[t].runtime = row[u].runtime
                              => t = u
  BY DEF IInv, SlotsFit, RuntimeOf
<1>3. \A r \in RuntimeNames :
        r \in slots <=> \A t \in Sessions : row[t].runtime = r => host[t].thread = "none"
  BY DEF IInv, SlotsFit, RuntimeOf
<1>4. slots' = slots \cup {row[s].runtime}
  BY DEF SlotsAfter, RuntimeOf
<1>5. \A t, u \in Sessions : /\ host'[t].thread # "none" /\ host'[u].thread # "none"
                              /\ row'[t].runtime = row'[u].runtime
                              => t = u
  BY <1>2
<1>6. ASSUME NEW r \in RuntimeNames
      PROVE  r \in slots' <=> \A t \in Sessions : row'[t].runtime = r => host'[t].thread = "none"
  <2>1. CASE r = row[s].runtime
    BY <1>2, <1>4, <2>1
  <2>2. CASE r # row[s].runtime
    BY <1>3, <1>4, <2>2
  <2>3. QED
    BY <2>1, <2>2
<1>7. QED
  BY <1>1, <1>4, <1>5, <1>6 DEF SlotsFit, RuntimeOf

\* Steps that leave the hosts alone.
LEMMA HostsIdle ==
    ASSUME IInv, StepKept, UNCHANGED hostVars
    PROVE  HostStep
<1>1. host' = host /\ order' = order /\ slots' = slots
  BY DEF hostVars
<1>2. \A s \in Sessions : row'[s].status = "absent" => row[s].status = "absent"
  BY DEF StepKept, Keeps
<1>3. \A s \in Sessions : row'[s].status = "absent" => host'[s].status = "absent"
  BY <1>1, <1>2 DEF IInv, RowsFit
<1>4. SlotsFit' /\ slots' \subseteq RuntimeNames
  BY <1>1, SlotsStay
<1>5. QED
  BY <1>1, <1>3, <1>4, HostSame DEF HostStep, IInv, Typed

\* Sessions that are told to stop.
LEMMA HostsTold ==
    ASSUME IInv, StepKept, order' = order, slots' = slots, host' \in [Sessions -> HostRow],
           \A s \in Sessions : host'[s] = host[s] \/ host'[s] = Cancelled(s)
    PROVE  HostStep
<1>1. \A s \in Sessions : /\ HostTo(host[s], host'[s]) /\ host'[s].thread = host[s].thread
                          /\ host'[s].status = "absent" <=> host[s].status = "absent"
  BY HostSame, CancelledTo
<1>2. \A s \in Sessions : row'[s].status = "absent" => row[s].status = "absent"
  BY DEF StepKept, Keeps
<1>3. \A s \in Sessions : row'[s].status = "absent" => host'[s].status = "absent"
  BY <1>1, <1>2 DEF IInv, RowsFit
<1>4. SlotsFit' /\ slots' \subseteq RuntimeNames
  BY <1>1, SlotsStay
<1>5. QED
  BY <1>1, <1>3, <1>4 DEF HostStep, IInv, Typed

LEMMA WorkHosts ==
    ASSUME IInv, StepKept, NEW w \in Workers, Claim(w) \/ Work(w)
    PROVE  HostStep
<1>1. host \in [Sessions -> HostRow]
  BY DEF IInv, Typed
<1>2. CASE Poll(w)
  <2>1. order' = order /\ slots' = slots
    BY <1>2 DEF Poll
  <2>2. Current(w) \in Sessions
    BY <1>2, CurrentThere DEF Poll, At
  <2>3. host' = host \/ host' = [host EXCEPT ![Current(w)] = Cancelled(Current(w))]
    BY <1>2 DEF Poll, Cancel
  <2>4. Cancelled(Current(w)) \in HostRow
    BY <2>2, CancelledTo DEF HostTo
  <2>5. host' \in [Sessions -> HostRow] /\ \A s \in Sessions : host'[s] = host[s] \/ host'[s] = Cancelled(s)
    BY <1>1, <2>2, <2>3, <2>4
  <2>6. QED
    BY <2>1, <2>5, HostsTold
<1>3. CASE Abandon(w)
  <2>1. order' = order /\ slots' = slots
    BY <1>3 DEF Abandon
  <2>2. PICK told : host' = [s \in Sessions |-> IF s \in told THEN Cancelled(s) ELSE host[s]]
    BY <1>3 DEF Abandon
  <2>3. \A s \in Sessions : Cancelled(s) \in HostRow
    BY CancelledTo DEF HostTo
  <2>4. host' \in [Sessions -> HostRow] /\ \A s \in Sessions : host'[s] = host[s] \/ host'[s] = Cancelled(s)
    BY <1>1, <2>2, <2>3
  <2>5. QED
    BY <2>1, <2>4, HostsTold
<1>4. CASE ~Poll(w) /\ ~Abandon(w)
  <2>1. UNCHANGED hostVars
    BY <1>4 DEF Claim, Work, Begin, Prepare, Insert, Answer, Reconnect, Accept, Report, Persist, Release
  <2>2. QED
    BY <2>1, HostsIdle
<1>5. QED
  BY <1>2, <1>3, <1>4

LEMMA RunHosts ==
    ASSUME IInv, StepKept, NEW s \in Sessions, HostWork(s)
    PROVE  HostStep
<1>1. host \in [Sessions -> HostRow] /\ host[s] \in HostRow /\ row' = row /\ order' = order
      /\ host[s].thread # "none"
  BY DEF HostWork, HostRun, HostExecute, HostFinish, db, IInv, Typed
<1>2. host[s].status \in HostActive /\ row[s].status # "absent"
  BY <1>1, HostSame DEF IInv, HostsFit
<1>3. ASSUME NEW g, HostTo(host[s], g), host' = [host EXCEPT ![s] = g],
             \/ g.thread # "none" /\ slots' = slots
             \/ g.thread = "none" /\ slots' = SlotsAfter(s)
      PROVE  HostStep
  <2>1. host' \in [Sessions -> HostRow] /\ host'[s] = g /\ \A t \in Sessions : t # s => host'[t] = host[t]
    BY <1>1, <1>3 DEF HostTo
  <2>2. \A t \in Sessions : HostTo(host[t], host'[t])
    BY <1>3, <2>1, HostSame
  <2>3. \A t \in Sessions : row'[t].status = "absent" => host'[t].status = "absent"
    BY <1>1, <1>2, <2>1 DEF IInv, RowsFit
  <2>4. SlotsFit' /\ slots' \subseteq RuntimeNames
    BY <1>1, <1>3, <2>1, SlotsStay, SlotLeft
  <2>5. QED
    BY <1>1, <2>1, <2>2, <2>3, <2>4 DEF HostStep, IInv, Typed
<1>4. host[s].cancel \in BOOLEAN
  BY <1>1 DEF HostRow
<1>5. CASE HostRun(s)
  <2>1. CASE host[s].cancel
    <3>1. host' = [host EXCEPT ![s] = Ended(host[s], TRUE, "none")] /\ slots' = SlotsAfter(s)
      BY <1>5, <2>1 DEF HostRun
    <3>2. QED
      BY <1>3, <3>1, EndedTo
  <2>2. CASE ~host[s].cancel
    <3> DEFINE g == [host[s] EXCEPT !.status = "running", !.thread = "running"]
    <3>1. host' = [host EXCEPT ![s] = g] /\ slots' = slots
      BY <1>1, <1>5, <2>2 DEF HostRun
    <3>2. /\ g \in HostRow /\ g.status = "running" /\ g.thread = "running" /\ g.cancel = host[s].cancel
      BY <1>1 DEF HostRow, HostActive
    <3> HIDE DEF g
    <3>3. HostTo(host[s], g)
      BY <2>2, <3>2 DEF HostTo, HostActive
    <3>4. QED
      BY <1>3, <3>1, <3>2, <3>3
  <2>3. QED
    BY <2>1, <2>2
<1>6. CASE HostExecute(s)
  <2>1. CASE \E result \in Outputs(s) :
               /\ host' = [host EXCEPT ![s].result = result, ![s].thread = "finishing"]
               /\ UNCHANGED slots
    <3>1. PICK result \in Outputs(s) :
               /\ host' = [host EXCEPT ![s].result = result, ![s].thread = "finishing"]
               /\ UNCHANGED slots
      BY <2>1
    <3>2. result \in Results
      <4>1. row[s] \in SessionRow
        BY DEF IInv, Typed
      <4>2. row[s].runtime \in RuntimeNames /\ row[s].input \in Inputs
        BY <4>1 DEF SessionRow
      <4>3. CASE row[s].role = Candidate
        <5>1. PICK ref \in {s, NoSession}, size \in 1..2 :
                result = CandidateResult(ref, row[s].runtime, size, 1)
          BY <4>3 DEF Outputs, RuntimeOf
        <5>2. result \in CandidateResults
          BY <4>2, <5>1 DEF CandidateResult, CandidateResults
        <5>3. QED
          BY <5>2 DEF Results, Inputs
      <4>4. CASE row[s].role # Candidate
        <5>1. PICK of \in {row[s].input, NoResult}, d \in {<<0>>, <<0, 0>>, <<1>>} :
                result = VerifierResult(s, row[s].runtime, 1, of, d)
          BY <4>4 DEF Outputs, RuntimeOf
        <5>2. of \in Inputs
          BY <4>2, Shapes
        <5>3. result \in VerifierResults
          BY <4>2, <5>1, <5>2 DEF VerifierResult, VerifierResults
        <5>4. QED
          BY <5>3 DEF Results
      <4>5. QED
        BY <4>3, <4>4
    <3> DEFINE g == [host[s] EXCEPT !.result = result, !.thread = "finishing"]
    <3>3. host' = [host EXCEPT ![s] = g]
      BY <1>1, <3>1
    <3>4. /\ g \in HostRow /\ g.status = host[s].status /\ g.thread = "finishing"
          /\ g.cancel = host[s].cancel
      BY <1>1, <3>2 DEF HostRow
    <3> HIDE DEF g
    <3>5. HostTo(host[s], g)
      BY <1>2, <3>4 DEF HostTo, IInv, HostsFit
    <3>6. QED
      BY <1>3, <3>1, <3>3, <3>4, <3>5
  <2>2. CASE \E error : /\ host' = [host EXCEPT ![s] = Ended(host[s], host[s].cancel, error)]
                        /\ slots' = SlotsAfter(s)
    BY <1>3, <1>4, <2>2, EndedTo
  <2>3. QED
    BY <1>6, <2>1, <2>2 DEF HostExecute
<1>7. CASE HostFinish(s)
  <2>1. host' = [host EXCEPT ![s] = Finished(s)] /\ slots' = SlotsAfter(s)
    BY <1>7 DEF HostFinish
  <2>2. CASE host[s].cancel
    <3>1. Finished(s) = Ended(host[s], TRUE, "none")
      BY <2>2 DEF Finished
    <3>2. QED
      BY <1>3, <2>1, <3>1, EndedTo
  <2>3. CASE ~host[s].cancel
    <3>1. /\ Finished(s) \in HostRow /\ Finished(s).status = "completed" /\ Finished(s).thread = "none"
          /\ Finished(s).cancel = host[s].cancel
      BY <1>1, <2>3 DEF Finished, HostRow, Settled, Codes
    <3>2. HostTo(host[s], Finished(s))
      BY <2>3, <3>1 DEF HostTo
    <3>3. QED
      BY <1>3, <2>1, <3>1, <3>2
  <2>4. QED
    BY <2>2, <2>3
<1>8. QED
  BY <1>5, <1>6, <1>7 DEF HostWork

\* What makes room has ended and has no thread.
LEMMA PrunedEnded ==
    ASSUME IInv, NEW r, NEW t \in Sessions, t \in Pruned(r)
    PROVE  host[t].thread = "none"
<1>1. host[t].status \in Settled
  BY DEF Pruned
<1>2. QED
  BY <1>1 DEF IInv, HostsFit, Settled, HostActive

LEMMA StartHosts ==
    ASSUME IInv, StepKept, NEW s \in Sessions, HostStart(s)
    PROVE  HostStep
<1> DEFINE r == row[s].runtime
           gone == Pruned(r)
           fresh == [Unknown EXCEPT !.status = "accepted", !.thread = "ready"]
<1>1. /\ host \in [Sessions -> HostRow] /\ row' = row /\ order \in Seq(Sessions)
      /\ slots \subseteq RuntimeNames /\ r \in RuntimeNames /\ row[s].status # "absent"
  BY DEF HostStart, db, IInv, Typed, RowsFit, SessionRow
<1>2. CASE UNCHANGED hostVars
  BY <1>2, HostsIdle
<1>3. CASE /\ host' = [t \in Sessions |-> IF t \in gone THEN Unknown ELSE host[t]]
           /\ UNCHANGED <<order, slots>>
  <2> HIDE DEF gone
  <2>1. \A t \in Sessions : \/ t \in gone /\ host'[t] = Unknown
                            \/ host'[t] = host[t]
    BY <1>3
  <2>2. host' \in [Sessions -> HostRow]
    BY <1>1, <1>3, Shapes
  <2>3. \A t \in Sessions : /\ HostTo(host[t], host'[t])
                            /\ host'[t].thread = "none" <=> host[t].thread = "none"
    BY <2>1, HostSame, UnknownTo, PrunedEnded DEF gone
  <2>4. \A t \in Sessions : row'[t].status = "absent" => host'[t].status = "absent"
    BY <1>1, <2>1, UnknownTo DEF IInv, RowsFit
  <2>5. SlotsFit' /\ slots' \subseteq RuntimeNames
    BY <1>3, <2>3, SlotsStay
  <2>6. QED
    BY <1>1, <1>3, <2>2, <2>3, <2>4, <2>5 DEF HostStep
<1>4. CASE /\ r \in slots
           /\ host' = [t \in Sessions |-> IF t = s THEN fresh
                                           ELSE IF t \in gone THEN Unknown ELSE host[t]]
           /\ order' = Append(order, s) /\ slots' = SlotTaken(r)
  <2>1. fresh \in HostRow /\ fresh.status = "accepted" /\ fresh.thread = "ready" /\ fresh.cancel = FALSE
    BY Shapes DEF Unknown, HostRow, HostActive
  <2> HIDE DEF gone, fresh
  <2>2. host' \in [Sessions -> HostRow] /\ host'[s] = fresh
    BY <1>1, <1>4, <2>1, Shapes
  <2>3. \A t \in Sessions : t # s => \/ t \in gone /\ host'[t] = Unknown
                                     \/ host'[t] = host[t]
    BY <1>4
  <2>4. r \in slots /\ \A t \in Sessions : row[t].runtime = r => host[t].thread = "none"
    BY <1>1, <1>4 DEF IInv, SlotsFit, RuntimeOf
  <2>5. ~host[s].cancel \/ host[s].status # "absent"
    BY DEF IInv, HostsFit
  <2>6. host[s].status = "absent" \/ UNCHANGED hostVars
    BY DEF HostStart
  <2>7. CASE UNCHANGED hostVars
    BY <2>7, HostsIdle
  <2>8. CASE host[s].status = "absent"
    <3>1. HostTo(host[s], fresh)
      BY <2>1, <2>5, <2>8 DEF HostTo, HostActive
    <3>2. \A t \in Sessions : t # s => /\ HostTo(host[t], host'[t])
                                       /\ host'[t].thread = "none" <=> host[t].thread = "none"
      BY <2>3, HostSame, UnknownTo, PrunedEnded DEF gone
    <3>3. \A t \in Sessions : HostTo(host[t], host'[t])
      BY <2>2, <3>1, <3>2
    <3>4. \A t \in Sessions : row'[t].status = "absent" => host'[t].status = "absent"
      BY <1>1, <2>2, <2>3, UnknownTo DEF IInv, RowsFit
    <3>5. order' \in Seq(Sessions)
      BY <1>1, <1>4
    <3>6. slots' = slots \ {r}
      BY <1>4 DEF SlotTaken
    <3>7. \A t, u \in Sessions : /\ host'[t].thread # "none" /\ host'[u].thread # "none"
                                  /\ row'[t].runtime = row'[u].runtime
                                  => t = u
      <4>1. \A t, u \in Sessions : /\ host[t].thread # "none" /\ host[u].thread # "none"
                                    /\ row[t].runtime = row[u].runtime
                                    => t = u
        BY DEF IInv, SlotsFit, RuntimeOf
      <4>2. \A t \in Sessions : host'[t].thread # "none" /\ row[t].runtime = r => t = s
        BY <2>4, <3>2
      <4>3. QED
        BY <1>1, <3>2, <4>1, <4>2
    <3>8. ASSUME NEW q \in RuntimeNames
          PROVE  q \in slots' <=> \A t \in Sessions : row'[t].runtime = q => host'[t].thread = "none"
      <4>1. CASE q = r
        BY <1>1, <2>1, <2>2, <3>6, <4>1
      <4>2. CASE q # r
        <5>1. q \in slots <=> \A t \in Sessions : row[t].runtime = q => host[t].thread = "none"
          BY DEF IInv, SlotsFit, RuntimeOf
        <5>2. QED
          BY <1>1, <3>2, <3>6, <4>2, <5>1
      <4>3. QED
        BY <4>1, <4>2
    <3>9. SlotsFit'
      BY <3>7, <3>8 DEF SlotsFit, RuntimeOf
    <3>10. QED
      BY <1>1, <2>2, <3>3, <3>4, <3>5, <3>6, <3>9 DEF HostStep
  <2>9. QED
    BY <2>6, <2>7, <2>8
<1>5. QED
  <2>1. RuntimeOf(s) = r
    BY DEF RuntimeOf
  <2> HIDE DEF r
  <2>2. QED
    BY <1>2, <1>3, <1>4, <2>1, Zenon DEF HostStart

LEMMA RestartHosts ==
    ASSUME IInv, StepKept, NEW r \in RuntimeNames, HostRestart(r)
    PROVE  HostStep
<1>1. /\ host \in [Sessions -> HostRow] /\ row' = row /\ order' = order
      /\ slots' = slots \cup {r} /\ slots \subseteq RuntimeNames
      /\ host' = [s \in Sessions |-> IF row[s].runtime = r THEN Unknown ELSE host[s]]
  BY DEF HostRestart, db, IInv, Typed, RuntimeOf
<1>2. \A s \in Sessions : IF row[s].runtime = r THEN host'[s] = Unknown ELSE host'[s] = host[s]
  BY <1>1
<1>3. host' \in [Sessions -> HostRow] /\ \A s \in Sessions : HostTo(host[s], host'[s])
  BY <1>1, <1>2, HostSame, UnknownTo, Shapes
<1>4. \A s \in Sessions : row'[s].status = "absent" => host'[s].status = "absent"
  BY <1>1, <1>2, UnknownTo DEF IInv, RowsFit
<1>5. \A t, u \in Sessions : /\ host'[t].thread # "none" /\ host'[u].thread # "none"
                              /\ row'[t].runtime = row'[u].runtime
                              => t = u
  BY <1>1, <1>2, UnknownTo DEF IInv, SlotsFit, RuntimeOf
<1>6. ASSUME NEW q \in RuntimeNames
      PROVE  q \in slots' <=> \A t \in Sessions : row'[t].runtime = q => host'[t].thread = "none"
  <2>1. q \in slots <=> \A t \in Sessions : row[t].runtime = q => host[t].thread = "none"
    BY DEF IInv, SlotsFit, RuntimeOf
  <2>2. QED
    BY <1>1, <1>2, <2>1, UnknownTo
<1>7. SlotsFit'
  BY <1>5, <1>6 DEF SlotsFit, RuntimeOf
<1>8. QED
  BY <1>1, <1>3, <1>4, <1>7 DEF HostStep, IInv, Typed

LEMMA HostsStep ==
    ASSUME IInv, [Next]_vars
    PROVE  HostStep
<1>1. StepKept
  BY StepsKeep
<1>2. ASSUME NEW s \in Sessions, ToolCall(s) \/ ToolLogged(s) PROVE HostStep
  BY <1>1, <1>2, HostsIdle DEF ToolCall, ToolLogged
<1>3. ASSUME LeaseExpires \/ MoveHead \/ Expire \/ UNCHANGED vars PROVE HostStep
  BY <1>1, <1>3, HostsIdle DEF LeaseExpires, MoveHead, Expire, vars, hostVars
<1>4. QED
  BY <1>1, <1>2, <1>3, WorkHosts, RunHosts, StartHosts, RestartHosts DEF Next

-----------------------------------------------------------------------------
(* The run and its report, the tool log, and the rest.                     *)

LEMMA RunStep ==
    ASSUME IInv, [Next]_vars
    PROVE  run' \in RunRow /\ ReportFits'
<1>1. /\ run \in RunRow /\ run'.attempt \in 0..MaxAttempts /\ row \in [Sessions -> SessionRow]
      /\ StepKept /\ row' \in [Sessions -> SessionRow] /\ Keeps(row, row')
  BY StepsKeep, CountStep DEF IInv, Typed, StepKept
<1>2. ASSUME run'.report = run.report PROVE ReportFits'
  <2>1. SUFFICES ASSUME run.report # <<>> PROVE ReportFits'
    BY <1>2 DEF ReportFits
  <2>2. PICK w \in Workers : /\ Pair(row, w, run.report[1], run.report[2])
                             /\ run.report[2] # NoSession
                             /\ row[run.report[2]].status = "completed"
    BY <2>1 DEF IInv, ReportFits
  <2>3. run.report[1] \in Sessions /\ run.report[2] \in Sessions
    BY <1>1, <2>1 DEF RunRow
  <2>4. row'[run.report[1]] = row[run.report[1]] /\ row'[run.report[2]] = row[run.report[2]]
    BY <1>1, <2>2, <2>3 DEF Keeps, Pair, Settled
  <2>5. Pair(row', w, run.report[1], run.report[2]) /\ row'[run.report[2]].status = "completed"
    BY <2>2, <2>4 DEF Pair
  <2>6. QED
    BY <1>2, <2>2, <2>5 DEF ReportFits
<1>3. ASSUME run' = run PROVE run' \in RunRow /\ ReportFits'
  BY <1>1, <1>2, <1>3
<1>4. ASSUME NEW status \in {"generating", "ready", "failed", "superseded"},
             run' = [run EXCEPT !.status = status]
      PROVE  run' \in RunRow /\ ReportFits'
  <2>1. run' \in RunRow /\ run'.report = run.report
    BY <1>1, <1>4 DEF RunRow
  <2>2. QED
    BY <1>2, <2>1
<1>5. ASSUME NEW w \in Workers, Begin(w) PROVE run' \in RunRow /\ ReportFits'
  <2>1. run' = run \/ run' = [run EXCEPT !.status = "generating", !.attempt = run.attempt + 1]
    BY <1>5 DEF Begin
  <2>2. ASSUME NEW n, run' = [run EXCEPT !.status = "generating", !.attempt = n]
        PROVE  run' \in RunRow /\ run'.report = run.report
    <3>1. n \in 0..MaxAttempts
      BY <1>1, <2>2 DEF RunRow
    <3>2. QED
      BY <1>1, <2>2, <3>1 DEF RunRow
  <2>3. QED
    BY <1>2, <1>3, <2>1, <2>2
<1>6. ASSUME NEW w \in Workers, Persist(w) PROVE run' \in RunRow /\ ReportFits'
  <2> DEFINE c == client[w].cand
             v == client[w].ver
  <2>1. CASE run' = [run EXCEPT !.status = "ready", !.report = <<c, v>>]
    <3>1. client[w] \in ClientRow /\ client[w].pc = "persist" /\ Follows(row, w, client[w]) /\ row' = row
      BY <1>6 DEF Persist, At, IInv, Typed, ClientsFit
    <3>2. v # NoSession /\ row[v].status = "completed" /\ Pair(row, w, c, v)
      BY <3>1 DEF Follows
    <3>3. c \in Sessions /\ v \in Sessions
      BY <3>1, <3>2 DEF Pair, ClientRow
    <3> HIDE DEF c, v
    <3> DEFINE report == <<c, v>>
    <3>4. report \in Sessions \X Sessions /\ report[1] = c /\ report[2] = v
      BY <3>3
    <3> HIDE DEF report
    <3>5. run' = [run EXCEPT !.status = "ready", !.report = report]
      BY <2>1 DEF report
    <3>6. run' \in RunRow /\ run'.report = report
      BY <1>1, <3>4, <3>5 DEF RunRow
    <3>7. ReportFits'
      BY <3>1, <3>2, <3>4, <3>6 DEF ReportFits
    <3>8. QED
      BY <3>6, <3>7
  <2>2. QED
    BY <1>3, <1>6, <2>1 DEF Persist
<1>7. ASSUME NEW w \in Workers, Abandon(w) PROVE run' \in RunRow /\ ReportFits'
  <2>1. run' = run \/ \E status \in {"failed", "superseded"} : run' = [run EXCEPT !.status = status]
    BY <1>7 DEF Abandon
  <2>2. QED
    BY <1>3, <1>4, <2>1
<1>8. ASSUME NEW w \in Workers, Claim(w) \/ Work(w), ~Begin(w), ~Persist(w), ~Abandon(w)
      PROVE  run' = run
  BY <1>8 DEF Claim, Work, Prepare, Insert, Answer, Reconnect, Poll, Accept, Report, Release, db
<1>9. ASSUME Elsewhere PROVE run' = run
  BY <1>9 DEF Elsewhere, HostStart, HostWork, HostRun, HostExecute, HostFinish, ToolCall, ToolLogged,
     HostRestart, LeaseExpires, MoveHead, Expire, db, vars
<1>10. QED
  BY <1>3, <1>5, <1>6, <1>7, <1>8, <1>9 DEF Next, Elsewhere, Work

LEMMA CallsStep ==
    ASSUME IInv, [Next]_vars
    PROVE  /\ CallsFit' /\ call' \in [Sessions -> 0..MaxAttempts]
           /\ log' \subseteq [session : Sessions, attempt : 1..MaxAttempts]
           /\ \A s \in Sessions : row'[s].status = "absent" => call'[s] = 0
<1>1. /\ call \in [Sessions -> 0..MaxAttempts] /\ run \in RunRow /\ MaxAttempts \in Nat
      /\ log \subseteq [session : Sessions, attempt : 1..MaxAttempts]
      /\ row \in [Sessions -> SessionRow] /\ Keeps(row, row')
  BY StepsKeep, Shapes DEF IInv, Typed, StepKept
<1>2. \A s \in Sessions : row[s].status # "absent" =>
                             row'[s].status # "absent" /\ row'[s].attempt = row[s].attempt
  BY <1>1 DEF Keeps
<1>3. /\ \A s \in Sessions : call[s] # 0 => call[s] = row[s].attempt /\ row[s].status # "absent"
      /\ \A e \in log : row[e.session].status # "absent" /\ e.attempt = row[e.session].attempt
  BY DEF IInv, CallsFit, RowsFit
<1>4. \A e \in log : e.session \in Sessions
  BY <1>1
<1>5. ASSUME UNCHANGED apiVars
      PROVE  /\ CallsFit' /\ call' \in [Sessions -> 0..MaxAttempts]
             /\ log' \subseteq [session : Sessions, attempt : 1..MaxAttempts]
             /\ \A s \in Sessions : row'[s].status = "absent" => call'[s] = 0
  BY <1>1, <1>2, <1>3, <1>4, <1>5 DEF apiVars, CallsFit
<1>6. ASSUME NEW s \in Sessions, ToolCall(s)
      PROVE  /\ CallsFit' /\ call' \in [Sessions -> 0..MaxAttempts]
             /\ log' \subseteq [session : Sessions, attempt : 1..MaxAttempts]
             /\ \A t \in Sessions : row'[t].status = "absent" => call'[t] = 0
  <2>1. /\ call' = [call EXCEPT ![s] = run.attempt] /\ row' = row /\ log' = log
        /\ row[s].status \in Unfinished /\ row[s].attempt >= run.attempt
    BY <1>6 DEF ToolCall, Resolves, db
  <2>2. run.attempt \in 0..MaxAttempts /\ row[s].attempt \in 0..MaxAttempts
    BY <1>1 DEF RunRow, SessionRow
  <2>3. row[s].attempt <= run.attempt
    BY DEF IInv, RowsFit
  <2>4. run.attempt = row[s].attempt /\ row[s].status # "absent"
    BY <2>1, <2>2, <2>3 DEF Unfinished
  <2>5. call' \in [Sessions -> 0..MaxAttempts]
    BY <1>1, <2>1, <2>2
  <2>6. \A t \in Sessions : call'[t] # 0 => call'[t] = row'[t].attempt /\ row'[t].status # "absent"
    BY <1>1, <1>3, <2>1, <2>4
  <2>7. QED
    BY <1>1, <1>3, <2>1, <2>5, <2>6 DEF CallsFit
<1>7. ASSUME NEW s \in Sessions, ToolLogged(s)
      PROVE  /\ CallsFit' /\ call' \in [Sessions -> 0..MaxAttempts]
             /\ log' \subseteq [session : Sessions, attempt : 1..MaxAttempts]
             /\ \A t \in Sessions : row'[t].status = "absent" => call'[t] = 0
  <2> DEFINE e == [session |-> s, attempt |-> call[s]]
  <2>1. /\ call' = [call EXCEPT ![s] = 0] /\ row' = row /\ log' = log \cup {e} /\ call[s] # 0
    BY <1>7 DEF ToolLogged, db
  <2>2. call[s] = row[s].attempt /\ row[s].status # "absent" /\ call[s] \in 0..MaxAttempts
    BY <1>1, <1>3, <2>1
  <2>3. e \in [session : Sessions, attempt : 1..MaxAttempts] /\ e.session = s /\ e.attempt = call[s]
    BY <1>1, <2>1, <2>2
  <2> HIDE DEF e
  <2>4. call' \in [Sessions -> 0..MaxAttempts]
    BY <1>1, <2>1
  <2>5. \A t \in Sessions : call'[t] # 0 => call'[t] = row'[t].attempt /\ row'[t].status # "absent"
    BY <1>1, <1>3, <2>1
  <2>6. \A d \in log' : row'[d.session].status # "absent" /\ d.attempt = row'[d.session].attempt
    BY <1>3, <2>1, <2>2, <2>3
  <2>7. log' \subseteq [session : Sessions, attempt : 1..MaxAttempts]
    BY <1>1, <2>1, <2>3
  <2>8. QED
    BY <2>4, <2>5, <2>6, <2>7 DEF CallsFit
<1>8. ASSUME NEW w \in Workers, Claim(w) \/ Work(w) PROVE UNCHANGED apiVars
  BY <1>8 DEF Claim, Work, Begin, Prepare, Insert, Answer, Reconnect, Poll, Accept, Report, Persist,
     Abandon, Release
<1>9. ASSUME NEW s \in Sessions, HostStart(s) \/ HostWork(s) PROVE UNCHANGED apiVars
  BY <1>9 DEF HostStart, HostWork, HostRun, HostExecute, HostFinish
<1>10. ASSUME \/ \E r \in RuntimeNames : HostRestart(r)
              \/ LeaseExpires \/ MoveHead \/ Expire \/ UNCHANGED vars
       PROVE  UNCHANGED apiVars
  BY <1>10 DEF HostRestart, LeaseExpires, MoveHead, Expire, vars, apiVars
<1>11. QED
  BY <1>5, <1>6, <1>7, <1>8, <1>9, <1>10 DEF Next

LEMMA AttemptsStep ==
    ASSUME IInv, [Next]_vars, NEW s \in Sessions
    PROVE  row'[s].attempt <= run'.attempt
<1>1. /\ run.attempt \in Int /\ run'.attempt \in Int /\ run.attempt <= run'.attempt
      /\ row[s].attempt \in Int /\ row[s].attempt <= run.attempt
  <2>1. run.attempt \in 0..MaxAttempts /\ row[s].attempt \in 0..MaxAttempts
    BY DEF IInv, Typed, RunRow, SessionRow
  <2>2. run'.attempt \in 0..MaxAttempts /\ run.attempt <= run'.attempt
    BY CountStep
  <2>3. QED
    BY <2>1, <2>2 DEF IInv, RowsFit
<1>2. StepKept
  BY StepsKeep
<1>3. row'[s].attempt = row[s].attempt \/ row'[s].attempt = run.attempt
  <2>1. CASE row[s].status # "absent"
    BY <1>2, <2>1 DEF StepKept, Keeps
  <2>2. CASE row[s].status = "absent"
    <3>1. ASSUME NEW new, Added(s, new) PROVE row'[s].attempt = run.attempt
      BY <3>1 DEF Added, IInv, Typed
    <3>2. QED
      BY <1>2, <2>2, <3>1 DEF StepKept
  <2>3. QED
    BY <2>1, <2>2
<1>4. QED
  BY <1>1, <1>3

PostAnswers == {"none", "sent", "accepted", "rejected", "refused"}

LEMMA PostStep ==
    ASSUME IInv, [Next]_vars
    PROVE  /\ post' \in [Sessions -> PostAnswers]
           /\ \A s \in Sessions : row'[s].status = "absent" => post'[s] = "none"
<1>1. /\ post \in [Sessions -> PostAnswers]
      /\ \A s \in Sessions : row[s].status = "absent" => post[s] = "none"
      /\ StepKept /\ \A s \in Sessions : row'[s].status = "absent" => row[s].status = "absent"
  BY StepsKeep DEF IInv, Typed, PostAnswers, RowsFit, StepKept, Keeps
<1>2. ASSUME post' = post
      PROVE  /\ post' \in [Sessions -> PostAnswers]
             /\ \A s \in Sessions : row'[s].status = "absent" => post'[s] = "none"
  BY <1>1, <1>2
<1>3. ASSUME NEW s \in Sessions, NEW a \in PostAnswers, post' = [post EXCEPT ![s] = a],
             row'[s].status # "absent" \/ a = "none"
      PROVE  /\ post' \in [Sessions -> PostAnswers]
             /\ \A t \in Sessions : row'[t].status = "absent" => post'[t] = "none"
  BY <1>1, <1>3
<1>4. ASSUME NEW w \in Workers, Insert(w)
      PROVE  /\ post' \in [Sessions -> PostAnswers]
             /\ \A s \in Sessions : row'[s].status = "absent" => post'[s] = "none"
  <2>1. CASE post' = post
    BY <1>2, <2>1
  <2>2. ASSUME NEW s \in Sessions, NEW new, Added(s, new)
        PROVE  post' = [post EXCEPT ![s] = "sent"] /\ row'[s].status # "absent" /\ "sent" \in PostAnswers
    BY <2>2 DEF Added, IInv, Typed, PostAnswers
  <2>3. QED
    BY <1>3, <1>4, <2>1, <2>2, InsertGoes
<1>5. ASSUME NEW w \in Workers, Answer(w) \/ Reconnect(w)
      PROVE  /\ post' \in [Sessions -> PostAnswers]
             /\ \A s \in Sessions : row'[s].status = "absent" => post'[s] = "none"
  <2>1. Current(w) \in Sessions /\ row[Current(w)].status # "absent"
    BY <1>5, CurrentThere DEF Answer, Reconnect, At
  <2>2. row'[Current(w)].status # "absent"
    BY <1>1, <2>1 DEF StepKept, Keeps
  <2>3. \E a \in PostAnswers : post' = [post EXCEPT ![Current(w)] = a]
    BY <1>5 DEF Answer, Reconnect, PostAnswers
  <2>4. QED
    BY <1>3, <2>1, <2>2, <2>3
<1>6. ASSUME NEW s \in Sessions, HostStart(s)
      PROVE  /\ post' \in [Sessions -> PostAnswers]
             /\ \A t \in Sessions : row'[t].status = "absent" => post'[t] = "none"
  <2>1. post[s] = "sent"
    BY <1>6 DEF HostStart
  <2>2. row[s].status # "absent" /\ row' = row
    BY <1>1, <1>6, <2>1 DEF HostStart, db
  <2>3. \E answer \in {"accepted", "rejected", "refused"} : Reply(s, answer)
    BY <1>6 DEF HostStart
  <2>4. \E a \in PostAnswers : post' = [post EXCEPT ![s] = a]
    BY <2>3 DEF Reply, PostAnswers
  <2>5. QED
    BY <1>3, <2>2, <2>4
<1>7. ASSUME NEW w \in Workers, Claim(w) \/ Work(w), ~Insert(w), ~Answer(w), ~Reconnect(w)
      PROVE  post' = post
  BY <1>7 DEF Claim, Work, Begin, Prepare, Poll, Accept, Report, Persist, Abandon, Release
<1>8. ASSUME NEW s \in Sessions, HostWork(s) \/ ToolCall(s) \/ ToolLogged(s) PROVE post' = post
  BY <1>8 DEF HostWork, HostRun, HostExecute, HostFinish, ToolCall, ToolLogged
<1>9. ASSUME \/ \E r \in RuntimeNames : HostRestart(r)
             \/ LeaseExpires \/ MoveHead \/ Expire \/ UNCHANGED vars
      PROVE  post' = post
  BY <1>9 DEF HostRestart, LeaseExpires, MoveHead, Expire, vars
<1>10. QED
  BY <1>2, <1>4, <1>5, <1>6, <1>7, <1>8, <1>9 DEF Next, Work

LEMMA ClockStep ==
    ASSUME IInv, [Next]_vars
    PROVE  head' \in BOOLEAN /\ expired' \in 0..Cardinality(Sessions) /\ restarts' \in 0..MaxRestarts
<1> DEFINE there == {s \in Sessions : row[s].status # "absent"}
<1>1. IsFiniteSet(Sessions) /\ Cardinality(Sessions) \in Nat
  BY FS_Interval, FS_CardinalityType, Shapes DEF Sessions
<1>2. Cardinality(there) <= Cardinality(Sessions) /\ Cardinality(there) \in Nat
  BY <1>1, FS_Subset, FS_CardinalityType
<1>3. head \in BOOLEAN /\ expired \in 0..Cardinality(Sessions) /\ restarts \in 0..MaxRestarts
      /\ MaxRestarts \in Nat
  BY InvestigationAssumption DEF IInv, Typed
<1>4. ASSUME NEW w \in Workers, Claim(w) \/ Work(w) PROVE UNCHANGED <<head, expired, restarts>>
  BY <1>4 DEF Claim, Work, Begin, Prepare, Insert, Answer, Reconnect, Poll, Accept, Report, Persist,
     Abandon, Release, db
<1>5. ASSUME NEW s \in Sessions, HostStart(s) \/ HostWork(s) \/ ToolCall(s) \/ ToolLogged(s)
      PROVE  UNCHANGED <<head, expired, restarts>>
  BY <1>5 DEF HostStart, HostWork, HostRun, HostExecute, HostFinish, ToolCall, ToolLogged, db
<1>6. ASSUME NEW r \in RuntimeNames, HostRestart(r)
      PROVE  head' = head /\ expired' = expired /\ restarts < MaxRestarts /\ restarts' = restarts + 1
  BY <1>6 DEF HostRestart, db
<1>7. ASSUME Expire
      PROVE  head' = head /\ expired < Cardinality(there) /\ expired' = expired + 1 /\ restarts' = restarts
  BY <1>7 DEF Expire, db
<1>8. ASSUME LeaseExpires \/ MoveHead \/ UNCHANGED vars
      PROVE  head' \in BOOLEAN /\ expired' = expired /\ restarts' = restarts
  BY <1>3, <1>8 DEF LeaseExpires, MoveHead, vars
<1> HIDE DEF there
<1>9. QED
  BY <1>1, <1>2, <1>3, <1>4, <1>5, <1>6, <1>7, <1>8 DEF Next

-----------------------------------------------------------------------------
(* The invariant.                                                          *)

LEMMA InvInit == Init => IInv
<1>1. SUFFICES ASSUME Init PROVE IInv
  OBVIOUS
<1>2. \A s \in Sessions : row[s] = Absent /\ host[s] = Unknown /\ post[s] = "none" /\ call[s] = 0
  BY <1>1 DEF Init
<1>3. \A w \in Workers : client[w] = Quiet
  BY <1>1 DEF Init
<1>4. /\ Absent.status = "absent" /\ Absent.attempt = 0
      /\ Unknown.status = "absent" /\ Unknown.thread = "none" /\ Unknown.cancel = FALSE
      /\ Quiet.pc = "idle" /\ Quiet.cand = NoSession /\ Quiet.ver = NoSession
  BY DEF Absent, Unknown, Quiet
<1>5. Typed
  <2>1. job \in JobRow /\ run \in RunRow
    BY <1>1, Shapes DEF Init, JobRow, RunRow
  <2>2. Cardinality(Sessions) \in Nat
    BY FS_Interval, FS_CardinalityType, Shapes DEF Sessions
  <2>3. expired \in 0..Cardinality(Sessions) /\ restarts \in 0..MaxRestarts
    BY <1>1, <2>2, InvestigationAssumption DEF Init
  <2>4. order \in Seq(Sessions)
    BY <1>1 DEF Init
  <2>5. row \in [Sessions -> SessionRow] /\ host \in [Sessions -> HostRow] /\ client \in [Workers -> ClientRow]
    BY <1>1, Shapes DEF Init
  <2>6. /\ post \in [Sessions -> {"none", "sent", "accepted", "rejected", "refused"}]
        /\ call \in [Sessions -> 0..MaxAttempts]
        /\ head \in BOOLEAN /\ slots \subseteq RuntimeNames
        /\ log \subseteq [session : Sessions, attempt : 1..MaxAttempts]
    BY <1>1, Shapes DEF Init
  <2>7. QED
    BY <2>1, <2>3, <2>4, <2>5, <2>6 DEF Typed
<1>6. Filled
  <2>1. 0 \in 0..MaxSessions /\ \A s \in Sessions : row[s].status # "absent" <=> s <= 0
    BY <1>2, <1>4, Shapes DEF Sessions
  <2>2. QED
    BY <2>1 DEF Filled
<1>7. Counted
  <2>1. Beginning = {}
    BY <1>3, <1>4 DEF Beginning, At
  <2>2. IsFiniteSet({}) /\ Cardinality({}) = 0
    BY FS_EmptySet
  <2>3. job.claims = 0 /\ run.attempt = 0
    BY <1>1 DEF Init
  <2>4. QED
    BY <2>1, <2>2, <2>3 DEF Counted
<1>8. RowsFit /\ HostsFit /\ CallsFit
  <2>1. run.attempt = 0 /\ log = {}
    BY <1>1 DEF Init
  <2>2. QED
    BY <1>2, <1>4, <2>1 DEF RowsFit, HostsFit, CallsFit
<1>9. SlotsFit
  BY <1>1, <1>2, <1>4 DEF Init, SlotsFit
<1>10. ClientsFit
  BY <1>3, <1>4 DEF ClientsFit, Follows, Pair
<1>11. ReportFits
  <2>1. run.report = <<>>
    BY <1>1 DEF Init
  <2>2. QED
    BY <2>1 DEF ReportFits
<1>12. QED
  BY <1>5, <1>6, <1>7, <1>8, <1>9, <1>10, <1>11 DEF IInv

LEMMA InvKept == IInv /\ [Next]_vars => IInv'
<1>1. SUFFICES ASSUME IInv, [Next]_vars PROVE IInv'
  OBVIOUS
<1>2. StepKept /\ HostStep
  BY <1>1, StepsKeep, HostsStep
<1>3. Typed'
  <2>1. row' \in [Sessions -> SessionRow] /\ client' \in [Workers -> ClientRow]
    BY <1>2 DEF StepKept
  <2>2. host' \in [Sessions -> HostRow] /\ slots' \subseteq RuntimeNames /\ order' \in Seq(Sessions)
    BY <1>2 DEF HostStep
  <2>3. job' \in JobRow /\ run' \in RunRow
    BY <1>1, CountStep, RunStep
  <2>4. post' \in [Sessions -> {"none", "sent", "accepted", "rejected", "refused"}]
    BY <1>1, PostStep DEF PostAnswers
  <2>5. QED
    BY <1>1, <2>1, <2>2, <2>3, <2>4, CallsStep, ClockStep DEF Typed
<1>4. Filled' /\ ClientsFit'
  BY <1>2 DEF StepKept
<1>5. Counted' /\ ReportFits' /\ CallsFit'
  BY <1>1, CountStep, RunStep, CallsStep
<1>6. HostsFit' /\ SlotsFit'
  BY <1>2 DEF HostStep, HostTo, HostsFit
<1>7. RowsFit'
  <2>1. \A s \in Sessions : row'[s].attempt <= run'.attempt
    BY <1>1, AttemptsStep
  <2>2. \A s \in Sessions : row'[s].status = "absent" =>
                               host'[s].status = "absent" /\ post'[s] = "none" /\ call'[s] = 0
    BY <1>1, <1>2, PostStep, CallsStep DEF HostStep
  <2>3. \A s \in Sessions : row'[s].status = "completed" => Fits(row', s, row'[s].result)
    BY <1>2 DEF StepKept
  <2>4. QED
    BY <2>1, <2>2, <2>3 DEF RowsFit
<1>8. QED
  BY <1>3, <1>4, <1>5, <1>6, <1>7 DEF IInv

LEMMA InvAlways == Spec => []IInv
BY InvInit, InvKept, PTL DEF Spec

-----------------------------------------------------------------------------
(* The theorems.                                                           *)

\* The types are kept, a host runs at most one review at a time, and its slot
\* is free exactly when none of its threads is alive, whatever was cancelled,
\* pruned, refused or lost in a restart (start_review, _run_review).
THEOREM SlotsAreHeld == Spec => []SlotsHeld
<1>1. ASSUME IInv PROVE TypeOK
  <2>1. run \in RunRow /\ job \in JobRow
    BY <1>1 DEF IInv, Typed
  <2>2. /\ run.status \in {"none", "generating", "ready", "failed", "superseded"}
        /\ run.attempt \in 0..MaxAttempts
        /\ run.report \in {<<>>} \cup (Sessions \X Sessions)
    BY <2>1 DEF RunRow
  <2>3. ASSUME NEW s \in Sessions
        PROVE  /\ row[s].status \in {"absent"} \cup Unfinished \cup Settled
               /\ row[s].runtime \in RuntimeNames /\ row[s].role \in {Candidate, Verifier}
               /\ row[s].attempt \in 0..MaxAttempts /\ row[s].by \in Workers \cup {Nobody}
               /\ host[s].status \in {"absent"} \cup HostActive \cup Settled
               /\ host[s].thread \in {"none", "ready", "running", "finishing"}
    <3>1. row[s] \in SessionRow /\ host[s] \in HostRow
      BY <1>1 DEF IInv, Typed
    <3>2. QED
      BY <3>1 DEF SessionRow, HostRow
  <2>4. ASSUME NEW w \in Workers
        PROVE  /\ client[w].pc \in Steps
               /\ client[w].cand \in Sessions \cup {NoSession}
               /\ client[w].ver \in Sessions \cup {NoSession}
               /\ client[w].outcome \in {"none", "superseded", "retry", "terminal"}
    <3>1. client[w] \in ClientRow
      BY <1>1 DEF IInv, Typed
    <3>2. QED
      BY <3>1 DEF ClientRow, Outcomes
  <2>5. job \in [lease : Workers \cup {Nobody}, claims : 0..MaxAttempts, open : BOOLEAN]
    BY <2>1 DEF JobRow
  <2>6. QED
    BY <1>1, <2>2, <2>3, <2>4, <2>5 DEF TypeOK, IInv, Typed
<1>2. ASSUME IInv PROVE OneReviewPerHost
  <2>1. SUFFICES ASSUME NEW r \in RuntimeNames
                 PROVE  LET live == {s \in Sessions : RuntimeOf(s) = r /\ host[s].thread # "none"}
                        IN  Cardinality(live) <= 1 /\ (r \in slots <=> live = {})
    BY DEF OneReviewPerHost
  <2> DEFINE live == {s \in Sessions : RuntimeOf(s) = r /\ host[s].thread # "none"}
  <2>2. r \in slots <=> live = {}
    BY <1>2 DEF IInv, SlotsFit
  <2>3. \A s, t \in live : s = t
    BY <1>2 DEF IInv, SlotsFit
  <2> HIDE DEF live
  <2>4. Cardinality(live) <= 1
    <3>1. CASE live = {}
      BY <3>1, FS_EmptySet
    <3>2. CASE live # {}
      <4>1. PICK s : s \in live
        BY <3>2
      <4>2. live = {s}
        BY <2>3, <4>1
      <4>3. Cardinality({s}) = 1
        BY FS_Singleton
      <4>4. QED
        BY <4>2, <4>3
    <3>3. QED
      BY <3>1, <3>2
  <2>5. QED
    BY <2>2, <2>4 DEF live
<1>3. IInv => SlotsHeld
  BY <1>1, <1>2 DEF SlotsHeld
<1>4. QED
  BY <1>3, InvAlways, PTL

\* A tool call is filed under the attempt its session was dispatched in, also
\* if the run was started over while the search was running
\* (resolve_agent_investigation_review_attempt, record_review_tool_call).
THEOREM CallsFiledRightly == Spec => []LogNamesItsAttempt
<1>1. IInv => LogNamesItsAttempt
  BY DEF IInv, CallsFit, LogNamesItsAttempt
<1>2. QED
  BY <1>1, InvAlways, PTL

\* A report rests on two completed sessions of one worker at opposite hosts,
\* the second of which verified the very result of the first and decided at
\* most once on each of its findings (_generate_and_persist_review,
\* persist_review_report).
THEOREM ReportsAreVerified == Spec => []ReportIsVerified
<1>1. ASSUME IInv PROVE ReportIsVerified
  <2>1. SUFFICES ASSUME run.report # <<>> PROVE ReportIsVerified
    BY DEF ReportIsVerified
  <2>2. PICK w \in Workers : /\ Pair(row, w, run.report[1], run.report[2])
                             /\ run.report[2] # NoSession
                             /\ row[run.report[2]].status = "completed"
    BY <1>1, <2>1 DEF IInv, ReportFits
  <2> DEFINE i == run.report[1]
             j == run.report[2]
             c == row[i]
             v == row[j]
  <2>3. i \in Sessions /\ j \in Sessions
    BY <1>1, <2>1 DEF IInv, Typed, RunRow
  <2>4. /\ c.status = "completed" /\ v.status = "completed" /\ c.by = w /\ v.by = w
        /\ c.role = Candidate /\ v.role = Verifier /\ v.runtime # c.runtime /\ v.input = c.result
    BY <2>2 DEF Pair
  <2>5. Fits(row, i, c.result) /\ Fits(row, j, v.result)
    BY <1>1, <2>3, <2>4 DEF IInv, RowsFit
  <2>6. c.result \in CandidateResults
    BY <2>4, <2>5, CandidateAccepted DEF Fits
  <2>7. c.result.findings = 1
    BY <2>6 DEF CandidateResults
  <2>8. AcceptsVerification(v.result, j, v.runtime, c.result, MaxBytes)
    BY <2>4, <2>5 DEF Fits, Accepts, Candidate, Verifier
  <2> DEFINE d == v.result.decisions
             same(n) == {k \in DOMAIN d : d[k] = n}
  <2>9. /\ v.result.of = c.result
        /\ \A k \in DOMAIN d : d[k] \in 0..(c.result.findings - 1)
        /\ \A k, m \in DOMAIN d : d[k] = d[m] => k = m
    BY <2>8 DEF AcceptsVerification, AllowedCandidates
  <2> HIDE DEF i, j, c, v, d
  <2>10. ASSUME NEW n \in 0..9
         PROVE  Cardinality(same(n)) <= IF n < c.result.findings THEN 1 ELSE 0
    <3>1. CASE same(n) = {}
      <4>1. Cardinality({}) = 0
        BY FS_EmptySet
      <4>2. QED
        BY <3>1, <4>1
    <3>2. CASE same(n) # {}
      <4>1. PICK k : k \in same(n)
        BY <3>2
      <4>2. same(n) = {k}
        BY <2>9, <4>1
      <4>3. n < c.result.findings
        BY <2>7, <2>9, <4>1
      <4>4. Cardinality({k}) = 1
        BY FS_Singleton
      <4>5. QED
        BY <4>2, <4>3, <4>4
    <3>3. QED
      BY <3>1, <3>2
  <2>11. QED
    BY <2>4, <2>9, <2>10 DEF ReportIsVerified, i, j, c, v, d
<1>2. QED
  BY <1>1, InvAlways, PTL

\* A session that ended stays as it ended: its row keeps status and result, and
\* its host does not complete a review it was told to cancel
\* (accept_agent_investigation_completion, abandon_agent_investigation,
\* _run_review, cancel_review).
THEOREM EndedStayEnded == Spec => EndsStay
<1> DEFINE A == \A s \in Sessions : row[s].status \in Settled => row'[s] = row[s]
           B == \A s \in Sessions :
                  host[s].cancel /\ host'[s].status # "absent" =>
                      host'[s].status \in {"cancel_requested", "cancelled"}
<1>1. ASSUME IInv, [Next]_vars PROVE A /\ B
  <2>1. A
    BY <1>1, StepsKeep DEF StepKept, Keeps
  <2>2. B
    BY <1>1, HostsStep DEF HostStep, HostTo
  <2>3. QED
    BY <2>1, <2>2
<1>2. IInv /\ [Next]_vars => [A]_vars /\ [B]_vars
  BY <1>1
<1>3. Spec => [][A]_vars /\ [][B]_vars
  <2> HIDE DEF A, B
  <2>1. QED
    BY <1>2, InvAlways, PTL DEF Spec
<1>4. QED
  BY <1>3 DEF EndsStay, SettledSessionStays, CancelIsKept

-----------------------------------------------------------------------------
(* What the worker and a host agree on, for inputs of any size.            *)

\* However a run of a CLI ends, it counts as answered exactly if its own envelope
\* says so with a result of the right form, and only a problem with credentials
\* ends the job for good (claude.py, codex.py, investigation.py, api.py).
THEOREM RunsAreClassified == RunsClassified
<1> SUFFICES ASSUME NEW run_ \in Runs, NEW runtime \in RuntimeNames
             PROVE  LET got == ClassifyRun(run_, runtime)
                    IN  /\ got = "ok" <=> /\ run_.parses /\ ~run_.mcpFailed /\ ~run_.isError
                                          /\ run_.result = "valid"
                        /\ runtime = "claude" /\ run_.parses /\ ~run_.mcpFailed /\ run_.isError
                             /\ run_.maxTurns => got = "coverage_caveat"
                        /\ got # "ok" /\ RaisedFor(HostErrorCode(got)) = "terminal" =>
                             "credential" \in run_.mentions
  BY DEF RunsClassified
<1> DEFINE got == ClassifyRun(run_, runtime)
<1>1. /\ run_.parses \in BOOLEAN /\ run_.mcpFailed \in BOOLEAN /\ run_.isError \in BOOLEAN
      /\ run_.maxTurns \in BOOLEAN /\ run_.exit0 \in BOOLEAN
      /\ run_.result \in {"none", "malformed", "valid"}
  BY DEF Runs
<1>2. /\ EnvelopeFailure(run_, runtime) \in {"coverage_caveat", "rate_limited", "auth_required", "execution"}
      /\ EnvelopeFailure(run_, runtime) = "auth_required" => "credential" \in run_.mentions
      /\ runtime = "claude" /\ run_.maxTurns => EnvelopeFailure(run_, runtime) = "coverage_caveat"
  BY DEF EnvelopeFailure
<1>3. /\ ExitFailure(run_) \in {"rate_limited", "auth_required", "execution"}
      /\ ExitFailure(run_) = "auth_required" => "credential" \in run_.mentions
  BY DEF ExitFailure
<1>4. \/ run_.parses /\ run_.mcpFailed /\ got = "mcp"
      \/ run_.parses /\ ~run_.mcpFailed /\ run_.isError /\ got = EnvelopeFailure(run_, runtime)
      \/ /\ run_.parses /\ ~run_.mcpFailed /\ ~run_.isError /\ run_.result # "none"
         /\ got = IF run_.result = "valid" THEN "ok" ELSE "output"
      \/ /\ ~run_.parses \/ (~run_.mcpFailed /\ ~run_.isError /\ run_.result = "none")
         /\ got = IF run_.exit0 THEN "output" ELSE ExitFailure(run_)
  BY <1>1 DEF ClassifyRun
<1> HIDE DEF got
<1>5. got = "ok" <=> run_.parses /\ ~run_.mcpFailed /\ ~run_.isError /\ run_.result = "valid"
  BY <1>1, <1>2, <1>3, <1>4
<1>6. runtime = "claude" /\ run_.parses /\ ~run_.mcpFailed /\ run_.isError /\ run_.maxTurns =>
        got = "coverage_caveat"
  BY <1>2, <1>4
<1>7. got \in {"ok", "mcp", "output", "coverage_caveat", "rate_limited", "auth_required", "execution"}
  BY <1>2, <1>3, <1>4
<1>8. got # "ok" /\ RaisedFor(HostErrorCode(got)) = "terminal" => got = "auth_required"
  BY <1>7 DEF HostErrorCode, RaisedFor, TerminalCodes
<1>9. got = "auth_required" => "credential" \in run_.mentions
  BY <1>2, <1>3, <1>4
<1>10. QED
  BY <1>5, <1>6, <1>8, <1>9 DEF got

\* A session makes a second attempt only if the first ran out of turns with time
\* left, and one that answers is charged for every attempt, whatever the
\* attempts cost and last (_run_once_or_raised_budget).
THEOREM SessionsAreAccounted ==
    ASSUME NEW first, NEW second, NEW total \in Int,
           first.seconds \in Int, first.tokens \in Int, second.tokens \in Int
    PROVE  LET got == RunSession(first, second, total)
           IN  /\ got.tries = 2 => first.end = "coverage_caveat" /\ first.seconds < total
               /\ got.end = "ok" => got.tokens = (IF got.tries >= 1 THEN first.tokens ELSE 0)
                                                  + (IF got.tries = 2 THEN second.tokens ELSE 0)
<1> DEFINE reports(attempt) == attempt.end \in {"ok", "coverage_caveat"}
           got == RunSession(first, second, total)
           early == first.end # "coverage_caveat" \/ total - first.seconds <= 0
<1>1. CASE total <= 0
  <2>1. got = [end |-> "timeout", tokens |-> 0, tries |-> 0]
    BY <1>1 DEF RunSession
  <2>2. QED
    BY <2>1
<1>2. CASE total > 0 /\ early
  <2>1. got = [end |-> first.end, tokens |-> IF reports(first) THEN first.tokens ELSE 0, tries |-> 1]
    BY <1>2 DEF RunSession, Remaining
  <2>2. QED
    BY <2>1
<1>3. CASE total > 0 /\ ~early
  <2>1. got = [end |-> second.end, tries |-> 2,
               tokens |-> IF reports(second) THEN first.tokens + second.tokens ELSE 0]
    BY <1>3 DEF RunSession, Remaining, TokensOfBoth
  <2>2. first.end = "coverage_caveat" /\ first.seconds < total
    BY <1>3
  <2>3. QED
    BY <2>1, <2>2
<1>4. QED
  BY <1>1, <1>2, <1>3

\* Rounding an expiry down to whole seconds never makes it later.
LEMMA WholeSecondsBelow ==
    ASSUME NEW moment \in Int
    PROVE  WholeSeconds(moment) \in Int /\ WholeSeconds(moment) <= moment
BY DEF WholeSeconds

\* A grant opens the repository, pull request and snapshot it was minted for to
\* the holder of its key, for the operations of its scope and for less than its
\* time to live; an envelope is dead when its time is up, for any scope, time to
\* live and moment (access.py, dispatch.py).
THEOREM GrantsAreBound ==
    ASSUME NEW key, NEW runtime, NEW scope, NEW ttl \in Int, NEW now \in Int, NEW later \in Int,
           NEW required, NEW other, NEW envelope
    PROVE  LET grant == MintSessionCapability(key, runtime, scope, ttl, now)
           IN  /\ VerifySessionCapability(grant, other, now + later, required) = "verified" =>
                    /\ other = key /\ later < ttl
                    /\ runtime \in required.runtimes
                    /\ scope.repository \in required.repositories
                    /\ scope.pullRequest \in required.pullRequests
                    /\ scope.snapshot \in required.snapshots
                    /\ required.operation \in scope.operations
               /\ VerifyDispatch(SignDispatch(envelope, key, now + ttl), other, now + later) =>
                    other = key /\ later < ttl /\ ValidEnvelope(envelope)
<1> DEFINE grant == MintSessionCapability(key, runtime, scope, ttl, now)
           token == SignDispatch(envelope, key, now + ttl)
<1>1. WholeSeconds(now + ttl) \in Int /\ WholeSeconds(now + ttl) <= now + ttl
  BY WholeSecondsBelow
<1>2. /\ grant.key = key /\ grant.runtime = runtime /\ grant.scope = scope
      /\ grant.exp = WholeSeconds(now + ttl)
  BY DEF MintSessionCapability
<1>3. token.key = key /\ token.envelope = envelope /\ token.exp = WholeSeconds(now + ttl)
  BY DEF SignDispatch
<1> HIDE DEF grant, token
<1>4. ASSUME VerifySessionCapability(grant, other, now + later, required) = "verified"
      PROVE  /\ other = key /\ later < ttl
             /\ runtime \in required.runtimes
             /\ scope.repository \in required.repositories
             /\ scope.pullRequest \in required.pullRequests
             /\ scope.snapshot \in required.snapshots
             /\ required.operation \in scope.operations
  <2>1. /\ grant.key = other /\ ~(now + later >= grant.exp)
        /\ grant.runtime \in required.runtimes
        /\ grant.scope.repository \in required.repositories
        /\ grant.scope.pullRequest \in required.pullRequests
        /\ grant.scope.snapshot \in required.snapshots
        /\ required.operation \in grant.scope.operations
    BY <1>4 DEF VerifySessionCapability, Expired
  <2>2. QED
    BY <1>1, <1>2, <2>1
<1>5. ASSUME VerifyDispatch(token, other, now + later)
      PROVE  other = key /\ later < ttl /\ ValidEnvelope(envelope)
  BY <1>1, <1>3, <1>5 DEF VerifyDispatch
<1>6. QED
  BY <1>4, <1>5 DEF grant, token

\* The bounded inputs of the protocol's properties are among those.
LEMMA SomeSessionsAccounted == SessionsAccounted
<1> SUFFICES ASSUME NEW first \in Attempts, NEW second \in Attempts, NEW total \in 0..3
             PROVE  LET got == RunSession(first, second, total)
                    IN  /\ got.tries = 2 => first.end = "coverage_caveat" /\ first.seconds < total
                        /\ got.end = "ok" => got.tokens = (IF got.tries >= 1 THEN first.tokens ELSE 0)
                                                           + (IF got.tries = 2 THEN second.tokens ELSE 0)
  BY DEF SessionsAccounted
<1>1. total \in Int /\ first.seconds \in Int /\ first.tokens \in Int /\ second.tokens \in Int
  BY DEF Attempts
<1> QED
  BY <1>1, SessionsAreAccounted, Zenon

LEMMA SomeGrantsBind == GrantsBind
<1> SUFFICES ASSUME NEW scope \in SomeScopes, NEW ttl \in 1..5, NEW now \in 0..1, NEW later \in 0..6
             PROVE  LET grant == MintSessionCapability("k", "claude", scope, ttl, now)
                        required == [runtimes |-> RuntimeNames, repositories |-> {1}, pullRequests |-> {1},
                                     snapshots |-> {1}, operation |-> "search_code"]
                        envelope == [scope |-> scope, runtime |-> "claude", size |-> 1, maxSize |-> 1,
                                     turns |-> 1, timeout |-> 1, maxResult |-> 1, role |-> Candidate,
                                     input |-> NoResult, archive |-> "a"]
                    IN  /\ Mintable(scope, ttl) =>
                             (VerifySessionCapability(grant, "k", now + later, required) = "verified" =>
                                /\ scope.repository = 1 /\ scope.snapshot = 1
                                /\ "search_code" \in scope.operations
                                /\ later < ttl)
                        /\ VerifySessionCapability(grant, "other", now + later, required) = "malformed"
                        /\ VerifyDispatch(SignDispatch(envelope, "k", now + ttl), "k", now + later) =>
                             later < ttl
  BY DEF GrantsBind
<1> DEFINE grant == MintSessionCapability("k", "claude", scope, ttl, now)
           required == [runtimes |-> RuntimeNames, repositories |-> {1}, pullRequests |-> {1},
                        snapshots |-> {1}, operation |-> "search_code"]
           envelope == [scope |-> scope, runtime |-> "claude", size |-> 1, maxSize |-> 1,
                        turns |-> 1, timeout |-> 1, maxResult |-> 1, role |-> Candidate,
                        input |-> NoResult, archive |-> "a"]
<1>1. ttl \in Int /\ now \in Int /\ later \in Int
  OBVIOUS
<1>2. /\ required.repositories = {1} /\ required.snapshots = {1}
      /\ required.operation = "search_code"
  OBVIOUS
<1>3. /\ grant.key = "k" /\ grant.scope = scope /\ "k" # "other"
      /\ grant.exp = WholeSeconds(now + ttl)
  BY DEF MintSessionCapability
<1>4. VerifyDispatch(SignDispatch(envelope, "k", now + ttl), "k", now + later) => later < ttl
  <2> HIDE DEF envelope
  <2> QED
    BY <1>1, GrantsAreBound, Zenon
<1> HIDE DEF grant, required
<1>5. VerifySessionCapability(grant, "other", now + later, required) = "malformed"
  BY <1>3 DEF VerifySessionCapability
<1>6. ASSUME VerifySessionCapability(grant, "k", now + later, required) = "verified"
      PROVE  /\ scope.repository = 1 /\ scope.snapshot = 1
             /\ "search_code" \in scope.operations
             /\ later < ttl
  <2>1. /\ ~(now + later >= grant.exp)
        /\ grant.scope.repository \in required.repositories
        /\ grant.scope.snapshot \in required.snapshots
        /\ required.operation \in grant.scope.operations
    BY <1>6 DEF VerifySessionCapability, Expired
  <2>2. WholeSeconds(now + ttl) \in Int /\ WholeSeconds(now + ttl) <= now + ttl
    BY <1>1, WholeSecondsBelow
  <2> QED
    BY <1>1, <1>2, <1>3, <2>1, <2>2
<1> QED
  BY <1>4, <1>5, <1>6, Zenon DEF grant, required

-----------------------------------------------------------------------------
(* Who reviews, for any set of commits (ReviewProvenance).                 *)

\* The signals that GitHub vouches for.
Asserted(all) == {s \in all : s.strength > Routing!UNVERIFIED_IDENTITY_MAX_STRENGTH}

FamilyIn(used) ==
    LET families == {Routing!FamilyOf(s.tool) : s \in used} \ {Routing!NoFamily}
        ambiguous == \/ \E f, g \in families : f # g
                     \/ families # {} /\ \E s \in used : Routing!FamilyOf(s.tool) = Routing!NoFamily
    IN  IF ambiguous \/ families = {} THEN Routing!NoFamily ELSE CHOOSE f \in families : TRUE

StrongestIn(used) ==
    CHOOSE n \in {s.strength : s \in used} : \A s \in used : s.strength <= n

Sources == {"commit_author", "commit_committer", "commit_trailer", "pull_request_author"}
Signals == [tool : Routing!Tools, source : Sources, strength : {70, 92, 98, 100}]

LEMMA NoToolIsOne == "" \in Routing!ToolOrNone
BY DEF Routing!ToolOrNone

LEMMA BotFields ==
    ASSUME NEW login
    PROVE  Routing!Bot(login).login = login /\ Routing!Bot(login).email = "" /\ Routing!Bot(login).name = ""
BY DEF Routing!Bot

LEMMA BotType ==
    ASSUME NEW login \in Routing!ToolOrNone
    PROVE  Routing!Bot(login) \in Routing!Identities
BY NoToolIsOne DEF Routing!Bot, Routing!Identities

\* How strong each kind of evidence is.
StrengthOf(id, verified) ==
    IF id.login # "" THEN IF verified THEN 100 ELSE 98
    ELSE IF id.email # "" THEN IF verified THEN 92 ELSE 70
    ELSE 70
ToolOf(id) == IF id.login # "" THEN id.login ELSE IF id.email # "" THEN id.email ELSE id.name

LEMMA IdentitySignalIs ==
    ASSUME NEW id \in Routing!Identities, NEW source, NEW verified \in BOOLEAN
    PROVE  Routing!IdentitySignal(id, source, verified) =
             IF ToolOf(id) = "" THEN {} ELSE {Routing!Signal(ToolOf(id), source, StrengthOf(id, verified))}
<1>1. CASE id.login # ""
  BY <1>1 DEF Routing!IdentitySignal, ToolOf, StrengthOf, Routing!UNVERIFIED_IDENTITY_MAX_STRENGTH
<1>2. CASE id.login = "" /\ id.email # ""
  BY <1>2 DEF Routing!IdentitySignal, ToolOf, StrengthOf, Routing!UNVERIFIED_IDENTITY_MAX_STRENGTH
<1>3. CASE id.login = "" /\ id.email = "" /\ id.name # ""
  BY <1>3 DEF Routing!IdentitySignal, ToolOf, StrengthOf, Routing!UNVERIFIED_IDENTITY_MAX_STRENGTH
<1>4. CASE id.login = "" /\ id.email = "" /\ id.name = ""
  BY <1>4 DEF Routing!IdentitySignal, ToolOf
<1> QED
  BY <1>1, <1>2, <1>3, <1>4

LEMMA IdentitySignalType ==
    ASSUME NEW id \in Routing!Identities, NEW source \in Sources, NEW verified \in BOOLEAN
    PROVE  Routing!IdentitySignal(id, source, verified) \in SUBSET Signals
<1>1. ToolOf(id) \in Routing!ToolOrNone /\ StrengthOf(id, verified) \in {70, 92, 98, 100}
  BY ZenonT(40) DEF ToolOf, StrengthOf, Routing!Identities
<1>2. ToolOf(id) # "" => Routing!Signal(ToolOf(id), source, StrengthOf(id, verified)) \in Signals
  BY <1>1 DEF Routing!ToolOrNone, Routing!Signal, Signals, Sources
<1>3. Routing!IdentitySignal(id, source, verified) =
        IF ToolOf(id) = "" THEN {} ELSE {Routing!Signal(ToolOf(id), source, StrengthOf(id, verified))}
  BY IdentitySignalIs
<1> QED
  BY <1>2, <1>3

LEMMA CommitSignalsType ==
    ASSUME NEW commit \in Routing!Commits
    PROVE  Routing!CommitSignals(commit) \in SUBSET Signals
<1>1. /\ commit.author \in Routing!Identities /\ commit.committer \in Routing!Identities
      /\ commit.verified \in BOOLEAN
      /\ commit.trailers \subseteq Routing!ToolOrNone
  BY DEF Routing!Commits
<1>2. \A t \in Routing!ToolOrNone : Routing!TrailerSignal(t) \in SUBSET Signals
  <2>1. \A t \in Routing!Tools : Routing!Signal(t, "commit_trailer", 70) \in Signals
    BY DEF Routing!Signal, Signals, Sources
  <2> QED
    BY <2>1 DEF Routing!TrailerSignal, Routing!UNVERIFIED_IDENTITY_MAX_STRENGTH, Routing!ToolOrNone
<1>3. \A t \in commit.trailers : Routing!TrailerSignal(t) \in SUBSET Signals
  BY <1>1, <1>2
<1>4. Routing!IdentitySignal(commit.author, "commit_author", FALSE) \in SUBSET Signals
  BY <1>1, IdentitySignalType DEF Sources
<1>5. Routing!IdentitySignal(commit.committer, "commit_committer", commit.verified) \in SUBSET Signals
  BY <1>1, IdentitySignalType DEF Sources
<1> QED
  BY <1>3, <1>4, <1>5 DEF Routing!CommitSignals

LEMMA AllSignalsType ==
    ASSUME NEW commits \in SUBSET Routing!Commits, NEW author \in Routing!ToolOrNone
    PROVE  Routing!AllSignals(commits, author) \in SUBSET Signals
<1>1. \A c \in commits : Routing!CommitSignals(c) \in SUBSET Signals
  BY CommitSignalsType
<1>2. Routing!Bot(author) \in Routing!Identities
  BY BotType
<1>3. Routing!IdentitySignal(Routing!Bot(author), "pull_request_author", FALSE) \in SUBSET Signals
  BY <1>2, IdentitySignalType DEF Sources
<1> QED
  BY <1>1, <1>3 DEF Routing!AllSignals

LEMMA SignalFields ==
    ASSUME NEW tool, NEW source, NEW strength
    PROVE  Routing!Signal(tool, source, strength).strength = strength
           /\ Routing!Signal(tool, source, strength).tool = tool
BY DEF Routing!Signal

LEMMA VouchedFields ==
    ASSUME NEW id \in Routing!Identities, NEW verified \in BOOLEAN
    PROVE  /\ Routing!Vouched(id, verified) \in Routing!Identities
           /\ Routing!Vouched(id, verified).login = id.login
           /\ Routing!Vouched(id, verified).email = IF verified /\ id.login = "" THEN id.email ELSE ""
           /\ Routing!Vouched(id, verified).name = ""
<1>1. id.login \in Routing!ToolOrNone /\ id.email \in Routing!ToolOrNone
  BY DEF Routing!Identities
<1>2. CASE verified /\ id.login = ""
  <2> DEFINE w == [login |-> "", email |-> id.email, name |-> ""]
  <2>1. Routing!Vouched(id, verified) = w
    BY <1>2 DEF Routing!Vouched
  <2>2. w \in Routing!Identities /\ w.login = "" /\ w.email = id.email /\ w.name = ""
    BY <1>1, NoToolIsOne DEF Routing!Identities
  <2> HIDE DEF w
  <2> QED
    BY <1>2, <2>1, <2>2
<1>3. CASE ~(verified /\ id.login = "")
  <2>1. Routing!Vouched(id, verified) = Routing!Bot(id.login)
    BY <1>3 DEF Routing!Vouched
  <2> QED
    BY <1>1, <1>3, <2>1, BotFields, BotType
<1> QED
  BY <1>2, <1>3

\* Of an identity, what is vouched for is what counts as asserted.
LEMMA VouchedSignal ==
    ASSUME NEW id \in Routing!Identities, NEW source, NEW verified \in BOOLEAN
    PROVE  Routing!IdentitySignal(Routing!Vouched(id, verified), source, verified)
             = Asserted(Routing!IdentitySignal(id, source, verified))
<1> DEFINE w == Routing!Vouched(id, verified)
           strength == StrengthOf(id, verified)
           sig == Routing!Signal(ToolOf(id), source, strength)
<1>1. /\ w \in Routing!Identities /\ w.login = id.login /\ w.name = ""
      /\ w.email = IF verified /\ id.login = "" THEN id.email ELSE ""
  BY VouchedFields
<1>2. sig.strength = strength
  BY SignalFields
<1> HIDE DEF w, strength, sig
<1>3. Routing!IdentitySignal(id, source, verified) = IF ToolOf(id) = "" THEN {} ELSE {sig}
  BY IdentitySignalIs, Zenon DEF sig, strength
<1>4. Routing!IdentitySignal(w, source, verified)
        = IF ToolOf(w) = "" THEN {} ELSE {Routing!Signal(ToolOf(w), source, StrengthOf(w, verified))}
  BY <1>1, IdentitySignalIs, Zenon
<1>5. CASE id.login # "" \/ (verified /\ id.email # "")
  <2>1. ToolOf(w) = ToolOf(id) /\ ToolOf(id) # "" /\ StrengthOf(w, verified) = strength
        /\ strength \in {92, 98, 100}
    BY <1>1, <1>5, ZenonT(40) DEF ToolOf, StrengthOf, strength
  <2>2. Routing!IdentitySignal(w, source, verified) = {sig}
    BY <1>4, <2>1, Zenon DEF sig
  <2>a. strength \in {92, 98, 100}
    BY <2>1
  <2>3. sig.strength > 70
    BY <1>2, <2>a
  <2>4. Asserted({sig}) = {sig}
    BY <2>3 DEF Asserted, Routing!UNVERIFIED_IDENTITY_MAX_STRENGTH
  <2> QED
    BY <1>3, <2>1, <2>2, <2>4 DEF w
<1>6. CASE ~(id.login # "" \/ (verified /\ id.email # ""))
  <2>1. ToolOf(w) = "" /\ strength = 70
    BY <1>1, <1>6 DEF ToolOf, StrengthOf, strength
  <2>2. Routing!IdentitySignal(w, source, verified) = {}
    BY <1>4, <2>1, Zenon
  <2>a. strength = 70
    BY <2>1
  <2>3. ~(sig.strength > 70)
    BY <1>2, <2>a
  <2>4. Asserted({sig}) = {} /\ Asserted({}) = {}
    BY <2>3 DEF Asserted, Routing!UNVERIFIED_IDENTITY_MAX_STRENGTH
  <2> QED
    BY <1>3, <2>2, <2>4 DEF w
<1> QED
  BY <1>5, <1>6

LEMMA CommitFields ==
    ASSUME NEW commit \in Routing!Commits
    PROVE  /\ commit.author \in Routing!Identities /\ commit.committer \in Routing!Identities
           /\ commit.verified \in BOOLEAN
           /\ commit.trailers \subseteq Routing!ToolOrNone
BY DEF Routing!Commits

LEMMA UnforgeableFields ==
    ASSUME NEW commit
    PROVE  /\ Routing!Unforgeable(commit).author = Routing!Vouched(commit.author, FALSE)
           /\ Routing!Unforgeable(commit).committer = Routing!Vouched(commit.committer, commit.verified)
           /\ Routing!Unforgeable(commit).verified = commit.verified
           /\ Routing!Unforgeable(commit).trailers = {}
BY DEF Routing!Unforgeable

LEMMA UnforgeableType ==
    ASSUME NEW commit \in Routing!Commits
    PROVE  Routing!Unforgeable(commit) \in Routing!Commits
<1>1. Routing!Vouched(commit.author, FALSE) \in Routing!Identities
  BY CommitFields, VouchedFields
<1>2. Routing!Vouched(commit.committer, commit.verified) \in Routing!Identities
  BY CommitFields, VouchedFields
<1> QED
  BY <1>1, <1>2, CommitFields DEF Routing!Unforgeable, Routing!Commits

LEMMA UnforgeableSignals ==
    ASSUME NEW commit \in Routing!Commits
    PROVE  Routing!CommitSignals(Routing!Unforgeable(commit)) = Asserted(Routing!CommitSignals(commit))
<1> DEFINE a == Routing!IdentitySignal(commit.author, "commit_author", FALSE)
           c == Routing!IdentitySignal(commit.committer, "commit_committer", commit.verified)
           t == UNION {Routing!TrailerSignal(x) : x \in commit.trailers}
<1>1. Routing!IdentitySignal(Routing!Unforgeable(commit).author, "commit_author", FALSE) = Asserted(a)
  BY CommitFields, UnforgeableFields, VouchedSignal, Zenon
<1>2. Routing!IdentitySignal(Routing!Unforgeable(commit).committer, "commit_committer",
                             Routing!Unforgeable(commit).verified)
        = Asserted(c)
  BY CommitFields, UnforgeableFields, VouchedSignal, ZenonT(40)
<1>3. Asserted(t) = {}
  <2>1. \A x \in commit.trailers : \A s \in Routing!TrailerSignal(x) : s.strength = 70
    <3>1. \A x : Routing!TrailerSignal(x) \subseteq {Routing!Signal(x, "commit_trailer", 70)}
      BY DEF Routing!TrailerSignal, Routing!UNVERIFIED_IDENTITY_MAX_STRENGTH
    <3> QED
      BY <3>1, SignalFields
  <2> QED
    BY <2>1 DEF Asserted, Routing!UNVERIFIED_IDENTITY_MAX_STRENGTH
<1>4. (UNION {Routing!TrailerSignal(x) : x \in Routing!Unforgeable(commit).trailers}) = {}
  BY UnforgeableFields
<1>5. Routing!CommitSignals(Routing!Unforgeable(commit)) = Asserted(a) \union Asserted(c)
  BY <1>1, <1>2, <1>4, Zenon DEF Routing!CommitSignals
<1>6. Routing!CommitSignals(commit) = a \union c \union t
  BY DEF Routing!CommitSignals
<1> HIDE DEF a, c, t
<1>7. Asserted(Routing!CommitSignals(commit)) = Asserted(a) \union Asserted(c) \union Asserted(t)
  BY <1>6 DEF Asserted
<1> QED
  BY <1>3, <1>5, <1>7

LEMMA AuthorSignal ==
    ASSUME NEW author \in Routing!ToolOrNone
    PROVE  Routing!IdentitySignal(Routing!Bot(author), "pull_request_author", FALSE)
             = IF author = "" THEN {} ELSE {Routing!Signal(author, "pull_request_author", 98)}
BY BotFields DEF Routing!IdentitySignal

LEMMA UnforgeablePullRequest ==
    ASSUME NEW commits \in SUBSET Routing!Commits, NEW author \in Routing!ToolOrNone
    PROVE  Routing!AllSignals({Routing!Unforgeable(c) : c \in commits}, author)
             = Asserted(Routing!AllSignals(commits, author))
<1> DEFINE id == Routing!IdentitySignal(Routing!Bot(author), "pull_request_author", FALSE)
<1>1. id = Asserted(id)
  <2> DEFINE sig == Routing!Signal(author, "pull_request_author", 98)
  <2>1. sig.strength = 98
    BY SignalFields
  <2>2. id = IF author = "" THEN {} ELSE {sig}
    BY AuthorSignal
  <2> HIDE DEF sig, id
  <2>3. sig.strength > 70
    BY <2>1
  <2>4. Asserted({sig}) = {sig} /\ Asserted({}) = {}
    BY <2>3 DEF Asserted, Routing!UNVERIFIED_IDENTITY_MAX_STRENGTH
  <2> QED
    BY <2>2, <2>4
<1>2. \A c \in commits : Routing!CommitSignals(Routing!Unforgeable(c)) = Asserted(Routing!CommitSignals(c))
  BY UnforgeableSignals
<1> HIDE DEF id
<1>3. UNION {Routing!CommitSignals(d) : d \in {Routing!Unforgeable(c) : c \in commits}}
        = UNION {Asserted(Routing!CommitSignals(c)) : c \in commits}
  BY <1>2
<1>4. UNION {Asserted(Routing!CommitSignals(c)) : c \in commits}
        = Asserted(UNION {Routing!CommitSignals(c) : c \in commits})
  <2>1. \A s : s \in UNION {Routing!CommitSignals(c) : c \in commits}
                 <=> \E c \in commits : s \in Routing!CommitSignals(c)
    OBVIOUS
  <2>2. \A s, S : s \in Asserted(S) <=> s \in S /\ s.strength > 70
    BY DEF Asserted, Routing!UNVERIFIED_IDENTITY_MAX_STRENGTH
  <2>3. \A s : s \in UNION {Asserted(Routing!CommitSignals(c)) : c \in commits}
                <=> \E c \in commits : s \in Asserted(Routing!CommitSignals(c))
    OBVIOUS
  <2> QED
    BY <2>1, <2>2, <2>3
<1>5. Asserted(Routing!AllSignals(commits, author))
        = Asserted(UNION {Routing!CommitSignals(c) : c \in commits}) \union Asserted(id)
  BY DEF Asserted, Routing!AllSignals, id
<1>6. Routing!AllSignals({Routing!Unforgeable(c) : c \in commits}, author)
        = (UNION {Routing!CommitSignals(d) : d \in {Routing!Unforgeable(c) : c \in commits}}) \union id
  BY DEF Routing!AllSignals, id
<1> QED
  BY <1>1, <1>3, <1>4, <1>5, <1>6

LEMMA StrongestExists ==
    ASSUME NEW used \in SUBSET Signals, used # {}
    PROVE  /\ \E s \in used : StrongestIn(used) = s.strength
           /\ \A s \in used : s.strength <= StrongestIn(used)
<1> DEFINE strengths == {s.strength : s \in used}
<1>1. strengths \subseteq {70, 92, 98, 100} /\ strengths # {}
  BY DEF Signals
<1>2. \E n \in strengths : \A k \in strengths : k <= n
  <2>1. CASE 100 \in strengths
    BY <1>1, <2>1
  <2>2. CASE 100 \notin strengths /\ 98 \in strengths
    BY <1>1, <2>2
  <2>3. CASE 100 \notin strengths /\ 98 \notin strengths /\ 92 \in strengths
    BY <1>1, <2>3
  <2>4. CASE 100 \notin strengths /\ 98 \notin strengths /\ 92 \notin strengths
    BY <1>1, <2>4
  <2> QED
    BY <2>1, <2>2, <2>3, <2>4
<1>3. \E n \in strengths : \A s \in used : s.strength <= n
  BY <1>2
<1> QED
  BY <1>3 DEF StrongestIn

UsedOf(all) == IF Asserted(all) # {} THEN Asserted(all) ELSE all

\* The classification if all commits are known, or not.
KnownOrigin(commits, author) == Routing!ClassifyPullRequestProvenance(commits, TRUE, author)
PartialOrigin(commits, author) == Routing!ClassifyPullRequestProvenance(commits, FALSE, author)

\* The answer of the classification that routing looks at.
LEMMA ClassifiedFamily ==
    ASSUME NEW commits, NEW author, Routing!AllSignals(commits, author) # {}
    PROVE  /\ KnownOrigin(commits, author).family = FamilyIn(UsedOf(Routing!AllSignals(commits, author)))
           /\ KnownOrigin(commits, author).confidence =
                StrongestIn(UsedOf(Routing!AllSignals(commits, author))) * 100
           /\ PartialOrigin(commits, author).confidence =
                StrongestIn(UsedOf(Routing!AllSignals(commits, author))) * 75
BY DEF KnownOrigin, PartialOrigin, Routing!ClassifyPullRequestProvenance, FamilyIn, StrongestIn,
       Asserted, UsedOf

LEMMA ClassifiedNothing ==
    ASSUME NEW commits, NEW author, Routing!AllSignals(commits, author) = {}
    PROVE  /\ KnownOrigin(commits, author).family = Routing!NoFamily
           /\ PartialOrigin(commits, author).family = Routing!NoFamily
BY DEF KnownOrigin, PartialOrigin, Routing!ClassifyPullRequestProvenance

KnownRuntime(commits, author, default) == Routing!RuntimeFor(commits, TRUE, author, default)
PartialRuntime(commits, author, default) == Routing!RuntimeFor(commits, FALSE, author, default)

\* What routing makes of a set of asserted signals.
RouteOf(asserted, default) ==
    IF asserted = {} THEN default
    ELSE IF FamilyIn(asserted) = "openai" THEN "claude"
    ELSE IF FamilyIn(asserted) = "anthropic" THEN "codex" ELSE default

LEMMA AssertedIsRouted ==
    ASSUME NEW commits \in SUBSET Routing!Commits, NEW author \in Routing!ToolOrNone, NEW default
    PROVE  /\ PartialRuntime(commits, author, default) = default
           /\ KnownRuntime(commits, author, default)
                = RouteOf(Asserted(Routing!AllSignals(commits, author)), default)
<1> DEFINE all == Routing!AllSignals(commits, author)
           asserted == Asserted(all)
           used == UsedOf(all)
           known == KnownOrigin(commits, author)
           partial == PartialOrigin(commits, author)
<1>1. all \in SUBSET Signals
  BY AllSignalsType
<1>2. CASE all = {}
  <2>1. asserted = {}
    BY <1>2 DEF Asserted
  <2>2. known.family = Routing!NoFamily /\ partial.family = Routing!NoFamily
    BY <1>2, ClassifiedNothing
  <2>3. Routing!Origin(known, 80) = Routing!NoFamily /\ Routing!Origin(partial, 80) = Routing!NoFamily
    BY <2>2 DEF Routing!Origin
  <2> QED
    BY <2>1, <2>3 DEF Routing!RuntimeFor, Routing!SelectReviewAgentPlan, Routing!NoFamily,
         Routing!PROVENANCE_CONFIDENCE_DEFAULT, RouteOf,
                    KnownRuntime, PartialRuntime, KnownOrigin, PartialOrigin
<1>3. CASE all # {}
  <2>1. used # {} /\ used \in SUBSET Signals
    BY <1>1, <1>3 DEF Asserted, UsedOf
  <2>2. /\ known.family = FamilyIn(used) /\ known.confidence = StrongestIn(used) * 100
        /\ partial.confidence = StrongestIn(used) * 75
    BY <1>3, ClassifiedFamily
  <2>3. /\ \E s \in used : StrongestIn(used) = s.strength
        /\ \A s \in used : s.strength <= StrongestIn(used)
    BY <2>1, StrongestExists
  <2>4. \A s \in used : s.strength \in {70, 92, 98, 100}
    BY <2>1 DEF Signals
  <2>5. StrongestIn(used) \in {70, 92, 98, 100}
    BY <2>3, <2>4
  <2>6. asserted # {} => StrongestIn(used) > 70
    <3> SUFFICES ASSUME asserted # {} PROVE StrongestIn(used) > 70
      OBVIOUS
    <3>1. PICK s \in asserted : TRUE
      OBVIOUS
    <3>2. s \in used /\ s.strength > 70
      BY <3>1 DEF Asserted, UsedOf, Routing!UNVERIFIED_IDENTITY_MAX_STRENGTH
    <3> QED
      BY <2>3, <2>4, <2>5, <3>2
  <2>7. asserted = {} => StrongestIn(used) = 70
    <3> SUFFICES ASSUME asserted = {} PROVE StrongestIn(used) = 70
      OBVIOUS
    <3>1. \A s \in all : ~(s.strength > 70)
      BY DEF Asserted, Routing!UNVERIFIED_IDENTITY_MAX_STRENGTH
    <3>2. used = all
      BY DEF UsedOf
    <3> QED
      BY <2>3, <2>5, <3>1, <3>2
  <2> HIDE DEF used, known, partial, asserted
  <2>8. Routing!Origin(partial, 80) = Routing!NoFamily
    BY <2>2, <2>5 DEF Routing!Origin
  <2>9. Routing!Origin(known, 80) = IF asserted = {} THEN Routing!NoFamily ELSE FamilyIn(used)
    BY <2>2, <2>5, <2>6, <2>7 DEF Routing!Origin
  <2>10. asserted # {} => used = asserted
    BY DEF used, UsedOf, asserted
  <2>11. PartialRuntime(commits, author, default) = default
    BY <2>8 DEF Routing!RuntimeFor, Routing!SelectReviewAgentPlan, Routing!NoFamily,
         Routing!PROVENANCE_CONFIDENCE_DEFAULT, partial,
        PartialRuntime, PartialOrigin
  <2>12. KnownRuntime(commits, author, default)
           = RouteOf(asserted, default)
    BY <2>9, <2>10
    DEF Routing!RuntimeFor, Routing!SelectReviewAgentPlan, Routing!NoFamily,
         Routing!PROVENANCE_CONFIDENCE_DEFAULT, known, RouteOf,
        KnownRuntime, KnownOrigin
  <2> QED
    BY <2>11, <2>12 DEF asserted
<1> QED
  BY <1>2, <1>3

\* Nothing that the author of commits can write into them, a name, a trailer or
\* an email that no signature vouches for, changes the runtime that reviews them,
\* whatever the commits (_identity_signal, select_review_agent_plan).
THEOREM ForgeriesCannotRoute ==
    ASSUME NEW commits \in SUBSET Routing!Commits, NEW author \in Routing!ToolOrNone, NEW default
    PROVE  Routing!ForgeryHasNoSay(commits, author, default)
<1> DEFINE forged == {Routing!Unforgeable(c) : c \in commits}
           asserted == Asserted(Routing!AllSignals(commits, author))
<1>1. forged \in SUBSET Routing!Commits
  BY UnforgeableType
<1>2. Routing!AllSignals(forged, author) = asserted
  BY UnforgeablePullRequest
<1>3. Asserted(asserted) = asserted
  BY DEF Asserted
<1> HIDE DEF forged, asserted
<1>4. KnownRuntime(forged, author, default) = RouteOf(asserted, default)
  BY <1>1, <1>2, <1>3, AssertedIsRouted
<1>5. KnownRuntime(commits, author, default) = RouteOf(asserted, default)
  BY AssertedIsRouted DEF asserted
<1> QED
  BY <1>4, <1>5, Zenon DEF Routing!ForgeryHasNoSay, forged, KnownRuntime

FamiliesOf(used) == {Routing!FamilyOf(s.tool) : s \in used} \ {Routing!NoFamily}

LEMMA FamilyIs ==
    ASSUME NEW used \in SUBSET Signals, used # {}
    PROVE  /\ FamilyIn(used) = "openai" <=> \A s \in used : s.tool = "codex"
           /\ FamilyIn(used) = "anthropic" <=> \A s \in used : s.tool = "claude_code"
<1> DEFINE F == FamiliesOf(used)
<1>1. \A s \in used : s.tool \in Routing!Tools
  BY DEF Signals
<1>2. \A t \in Routing!Tools : Routing!FamilyOf(t) \in {"anthropic", "openai", "google", ""}
                      /\ (Routing!FamilyOf(t) = "openai" <=> t = "codex")
                      /\ (Routing!FamilyOf(t) = "anthropic" <=> t = "claude_code")
  BY DEF Routing!Tools, Routing!FamilyOf, Routing!NoFamily
<1>3. F \subseteq {"anthropic", "openai", "google"}
  BY <1>1, <1>2 DEF FamiliesOf, Routing!NoFamily
<1>4. FamilyIn(used) = IF \/ \E f, g \in F : f # g
                          \/ F # {} /\ \E s \in used : Routing!FamilyOf(s.tool) = ""
                          \/ F = {} THEN "" ELSE CHOOSE f \in F : TRUE
  BY DEF FamilyIn, FamiliesOf, Routing!NoFamily
<1>5. \A s \in used : Routing!FamilyOf(s.tool) = "" \/ Routing!FamilyOf(s.tool) \in F
  BY DEF FamiliesOf, Routing!NoFamily
<1>a. \A f \in F : \E s \in used : f = Routing!FamilyOf(s.tool)
  BY DEF FamiliesOf
<1> HIDE DEF F
<1>8. ASSUME NEW f \in {"openai", "anthropic"}, FamilyIn(used) = f
      PROVE  \A s \in used : Routing!FamilyOf(s.tool) = f
  <2>1. f # ""
    OBVIOUS
  <2>2. ~(\E g, h \in F : g # h) /\ F # {} /\ f = (CHOOSE g \in F : TRUE)
        /\ \A s \in used : Routing!FamilyOf(s.tool) # ""
    BY <1>4, <1>8, <2>1
  <2>3. f \in F
    BY <2>2
  <2> QED
    BY <1>5, <2>2, <2>3
<1>9. ASSUME NEW f \in {"openai", "anthropic"}, \A s \in used : Routing!FamilyOf(s.tool) = f
      PROVE  FamilyIn(used) = f
  <2>1. F = {f}
    BY <1>5, <1>9, <1>a
  <2>3. (CHOOSE g \in F : TRUE) = f
    BY <2>1
  <2> QED
    <3>1. ~(\E g, h \in F : g # h) /\ F # {}
      BY <2>1
    <3>2. f # "" /\ \A s \in used : Routing!FamilyOf(s.tool) # ""
      BY <1>9
    <3> QED
      BY <1>4, <2>3, <3>1, <3>2
<1>10. \A s \in used : /\ Routing!FamilyOf(s.tool) = "openai" <=> s.tool = "codex"
                       /\ Routing!FamilyOf(s.tool) = "anthropic" <=> s.tool = "claude_code"
  BY <1>1, <1>2
<1>11. FamilyIn(used) = "openai" <=> \A s \in used : s.tool = "codex"
  <2>0. "openai" \in {"openai", "anthropic"}
    OBVIOUS
  <2>a. FamilyIn(used) = "openai" => \A s \in used : Routing!FamilyOf(s.tool) = "openai"
    BY <1>8, <2>0, Zenon
  <2>b. (\A s \in used : Routing!FamilyOf(s.tool) = "openai") => FamilyIn(used) = "openai"
    BY <1>9, <2>0, Zenon
  <2>1. \A s \in used : Routing!FamilyOf(s.tool) = "openai" <=> s.tool = "codex"
    BY <1>10
  <2>2. ASSUME FamilyIn(used) = "openai", NEW s \in used
        PROVE  s.tool = "codex"
    BY <2>1, <2>2, <2>a, Zenon
  <2>3. ASSUME \A s \in used : s.tool = "codex"
        PROVE  FamilyIn(used) = "openai"
    BY <2>1, <2>3, <2>b, Zenon
  <2> QED
    BY <2>2, <2>3, Zenon
<1>12. FamilyIn(used) = "anthropic" <=> \A s \in used : s.tool = "claude_code"
  <2>0. "anthropic" \in {"openai", "anthropic"}
    OBVIOUS
  <2>a. FamilyIn(used) = "anthropic" => \A s \in used : Routing!FamilyOf(s.tool) = "anthropic"
    BY <1>8, <2>0, Zenon
  <2>b. (\A s \in used : Routing!FamilyOf(s.tool) = "anthropic") => FamilyIn(used) = "anthropic"
    BY <1>9, <2>0, Zenon
  <2>1. \A s \in used : Routing!FamilyOf(s.tool) = "anthropic" <=> s.tool = "claude_code"
    BY <1>10
  <2>2. ASSUME FamilyIn(used) = "anthropic", NEW s \in used
        PROVE  s.tool = "claude_code"
    BY <2>1, <2>2, <2>a, Zenon
  <2>3. ASSUME \A s \in used : s.tool = "claude_code"
        PROVE  FamilyIn(used) = "anthropic"
    BY <2>1, <2>3, <2>b, Zenon
  <2> QED
    BY <2>2, <2>3, Zenon
<1> QED
  BY <1>11, <1>12

\* A runtime other than the default is chosen exactly against the one model family
\* that every signal GitHub vouches for names, and never while commits are unknown,
\* whatever the commits (classify_pull_request_provenance, select_review_agent_plan).
THEOREM RoutedByAssertionsOnly ==
    ASSUME NEW commits \in SUBSET Routing!Commits, NEW author \in Routing!ToolOrNone, NEW default
    PROVE  Routing!RoutedByAssertion(commits, author, default)
<1> DEFINE asserted == Routing!AllSignals({Routing!Unforgeable(c) : c \in commits}, author)
<1>1. asserted = Asserted(Routing!AllSignals(commits, author))
  BY UnforgeablePullRequest
<1>2. asserted \in SUBSET Signals
  BY <1>1, AllSignalsType DEF Asserted
<1>3. /\ PartialRuntime(commits, author, default) = default
      /\ KnownRuntime(commits, author, default) = RouteOf(asserted, default)
  BY <1>1, AssertedIsRouted
<1> HIDE DEF asserted
<1>4. asserted # {} => /\ FamilyIn(asserted) = "openai" <=> \A s \in asserted : s.tool = "codex"
                       /\ FamilyIn(asserted) = "anthropic" <=> \A s \in asserted : s.tool = "claude_code"
  BY <1>2, FamilyIs
<1>5. RouteOf(asserted, default) =
        IF asserted # {} /\ \A s \in asserted : s.tool = "codex" THEN "claude"
        ELSE IF asserted # {} /\ \A s \in asserted : s.tool = "claude_code" THEN "codex" ELSE default
  BY <1>4 DEF RouteOf
<1> QED
  BY <1>3, <1>5, Zenon DEF Routing!RoutedByAssertion, asserted, KnownRuntime, PartialRuntime

\* Routing permutes the two configured models and never reviews with one of the
\* author's family while the other is known to be of another (select_review_model_plan).
THEOREM ModelPairIsRouted ==
    ASSUME NEW provenance, NEW candidate, NEW verifier, NEW of
    PROVE  Routing!PairIsRouted(provenance, candidate, verifier, of)
BY DEF Routing!PairIsRouted, Routing!SelectReviewModelPlan

\* The bounded inputs are among them.
LEMMA SomeAreCommits ==
    /\ \A commits \in Routing!SomeCommitSets : commits \in SUBSET Routing!Commits
    /\ Routing!SomeAuthors \subseteq Routing!ToolOrNone
<1>1. Routing!SomeIdentities \subseteq Routing!Identities
  <2>1. Routing!SomeTools \subseteq Routing!ToolOrNone /\ "" \in Routing!ToolOrNone
    BY DEF Routing!SomeTools, Routing!Tools, Routing!ToolOrNone
  <2>2. [login |-> "claude_code", email |-> "codex", name |-> ""] \in Routing!Identities
    BY DEF Routing!Identities, Routing!ToolOrNone, Routing!Tools
  <2>3. /\ Routing!Nobody \in Routing!Identities
        /\ \A tool \in Routing!SomeTools : Routing!Bot(tool) \in Routing!Identities
    BY <2>1, BotType DEF Routing!Nobody
  <2>4. \A tool \in Routing!SomeTools : /\ [login |-> "", email |-> tool, name |-> ""] \in Routing!Identities
                               /\ [login |-> "", email |-> "", name |-> tool] \in Routing!Identities
    BY <2>1 DEF Routing!Identities
  <2> QED
    BY <2>2, <2>3, <2>4 DEF Routing!SomeIdentities
<1>2. /\ {"claude_code"} \in SUBSET Routing!ToolOrNone /\ {"codex"} \in SUBSET Routing!ToolOrNone
      /\ {} \in SUBSET Routing!ToolOrNone
  BY DEF Routing!Tools, Routing!ToolOrNone
<1>3. Routing!SomeCommits \subseteq Routing!Commits
  BY <1>1, <1>2 DEF Routing!SomeCommits, Routing!Commits
<1>4. Routing!Nobody \in Routing!Identities
  BY NoToolIsOne, BotType DEF Routing!Nobody
<1> QED
  <2>1. \A commits \in Routing!SomeCommitSets : commits \in SUBSET Routing!Commits
    <3> SUFFICES ASSUME NEW commits \in Routing!SomeCommitSets
                 PROVE  commits \in SUBSET Routing!Commits
      OBVIOUS
    <3> DEFINE D == {[author |-> a, committer |-> Routing!Nobody, verified |-> FALSE, trailers |-> t] :
                       a \in Routing!SomeIdentities, t \in {{}, {"codex"}}}
    <3>1. D \subseteq Routing!Commits
      <4> SUFFICES ASSUME NEW d \in D PROVE d \in Routing!Commits
        OBVIOUS
      <4>1. PICK a \in Routing!SomeIdentities, t \in {{}, {"codex"}} :
              d = [author |-> a, committer |-> Routing!Nobody, verified |-> FALSE, trailers |-> t]
        OBVIOUS
      <4>2. [author |-> a, committer |-> Routing!Nobody, verified |-> FALSE, trailers |-> t] \in Routing!Commits
        <5>2. a \in Routing!Identities
          BY <1>1
        <5>3. t \in SUBSET Routing!ToolOrNone
          BY <1>2
        <5> QED
          BY <1>4, <5>2, <5>3 DEF Routing!Commits
      <4> QED
        BY <4>1, <4>2
    <3>2. \/ \E c \in Routing!SomeCommits : commits = {c}
          \/ \E c \in Routing!SomeCommits, d \in D : commits = {c, d}
      BY DEF Routing!SomeCommitSets
    <3> QED
      BY <1>3, <3>1, <3>2
  <2>2. Routing!SomeAuthors \subseteq Routing!ToolOrNone
    BY DEF Routing!SomeAuthors, Routing!ToolOrNone, Routing!Tools
  <2> QED
    BY <2>1, <2>2

LEMMA ReviewersAreIndependent == Routing!ReviewerIndependent
<1>1. Routing!ForgeriesHaveNoSay
  BY SomeAreCommits, ForgeriesCannotRoute DEF Routing!ForgeriesHaveNoSay
<1>2. Routing!DefaultUnlessAsserted
  BY SomeAreCommits, RoutedByAssertionsOnly DEF Routing!DefaultUnlessAsserted
<1>3. Routing!PairIsPermuted
  BY ModelPairIsRouted DEF Routing!PairIsPermuted
<1> QED
  BY <1>1, <1>2, <1>3 DEF Routing!ReviewerIndependent

\* What worker and host agree on and how reviewers are routed, as the run checks
\* it in the initial state: a consequence of the theorems above, which hold for
\* inputs of any size (packages/protocol, provenance.py).
THEOREM ProtocolIsAgreed == Spec => []ProtocolHolds
<1>1. ProtocolHolds
  BY RunsAreClassified, SomeSessionsAccounted, SomeGrantsBind, ReviewersAreIndependent
  DEF ProtocolHolds, ProtocolAgreed
<1>2. QED
  BY <1>1, PTL

-----------------------------------------------------------------------------
(* The report, for any candidates, decisions and policy (ReportAssembly).  *)
(* First: a finite set is sorted along a strict total order.               *)

StrictOrder(S, R) ==
    /\ \A x \in S : <<x, x>> \notin R
    /\ \A x, y, z \in S : <<x, y>> \in R /\ <<y, z>> \in R => <<x, z>> \in R
    /\ \A x, y \in S : x # y => <<x, y>> \in R \/ <<y, x>> \in R

\* The elements before x, and how many they are.
Below(S, R, x) == {y \in S : <<y, x>> \in R}
Rank(S, R, x) == Cardinality(Below(S, R, x))

LEMMA FewerBelow ==
    ASSUME NEW S, IsFiniteSet(S), NEW T \in SUBSET S, T # S
    PROVE  /\ Cardinality(T) \in Nat /\ Cardinality(S) \in Nat
           /\ Cardinality(T) < Cardinality(S)
<1>1. /\ IsFiniteSet(T) /\ Cardinality(T) <= Cardinality(S)
      /\ Cardinality(S) = Cardinality(T) => S = T
  BY FS_Subset
<1>2. Cardinality(T) \in Nat /\ Cardinality(S) \in Nat
  BY <1>1, FS_CardinalityType
<1> QED
  BY <1>1, <1>2

LEMMA RankType ==
    ASSUME NEW S, IsFiniteSet(S), NEW R, StrictOrder(S, R), NEW x \in S
    PROVE  Rank(S, R, x) \in 0..(Cardinality(S) - 1)
<1>1. Below(S, R, x) \in SUBSET S /\ Below(S, R, x) # S
  BY DEF Below, StrictOrder
<1>2. /\ Cardinality(Below(S, R, x)) \in Nat /\ Cardinality(S) \in Nat
      /\ Cardinality(Below(S, R, x)) < Cardinality(S)
  BY <1>1, FewerBelow
<1> QED
  BY <1>2 DEF Rank

LEMMA RankGrows ==
    ASSUME NEW S, IsFiniteSet(S), NEW R, StrictOrder(S, R), NEW x \in S, NEW y \in S, <<x, y>> \in R
    PROVE  Rank(S, R, x) < Rank(S, R, y)
<1>1. Below(S, R, y) \in SUBSET S
  BY DEF Below
<1>2. IsFiniteSet(Below(S, R, y))
  BY <1>1, FS_Subset
<1>3. Below(S, R, x) \in SUBSET Below(S, R, y) /\ Below(S, R, x) # Below(S, R, y)
  BY DEF Below, StrictOrder
<1> QED
  BY <1>2, <1>3, FewerBelow DEF Rank

LEMMA RankOrders ==
    ASSUME NEW S, IsFiniteSet(S), NEW R, StrictOrder(S, R), NEW x \in S, NEW y \in S
    PROVE  /\ Rank(S, R, x) = Rank(S, R, y) => x = y
           /\ Rank(S, R, x) < Rank(S, R, y) => <<x, y>> \in R
<1>1. Rank(S, R, x) \in Int /\ Rank(S, R, y) \in Int
  <2>1. Cardinality(S) \in Nat
    BY FS_CardinalityType
  <2> QED
    BY RankType, <2>1
<1>2. /\ <<x, y>> \in R => Rank(S, R, x) < Rank(S, R, y)
      /\ <<y, x>> \in R => Rank(S, R, y) < Rank(S, R, x)
  BY RankGrows
<1>3. x # y => <<x, y>> \in R \/ <<y, x>> \in R
  BY DEF StrictOrder
<1> QED
  BY <1>1, <1>2, <1>3

\* Each rank is taken.
LEMMA RankTaken ==
    ASSUME NEW S, IsFiniteSet(S), NEW R, StrictOrder(S, R), NEW n \in 1..Cardinality(S)
    PROVE  \E x \in S : Rank(S, R, x) = n - 1
<1> DEFINE T == 0..(Cardinality(S) - 1)
           f == [x \in S |-> Rank(S, R, x)]
<1>1. Cardinality(S) \in Nat
  BY FS_CardinalityType
<1>2. IsFiniteSet(T) /\ Cardinality(T) = Cardinality(S)
  <2>1. 0 \in Int /\ Cardinality(S) - 1 \in Int
    BY <1>1
  <2>2. IsFiniteSet(T) /\ Cardinality(T) = IF 0 > Cardinality(S) - 1 THEN 0 ELSE Cardinality(S) - 1 - 0 + 1
    BY <2>1, FS_Interval
  <2> QED
    BY <1>1, <2>2
<1>3. f \in [S -> T]
  BY RankType
<1>4. \A x, y \in S : f[x] = f[y] => x = y
  <2>1. \A x \in S : f[x] = Rank(S, R, x)
    OBVIOUS
  <2> QED
    BY <2>1, RankOrders, Zenon
<1>5. f \in Injection(S, T)
  BY <1>3, <1>4 DEF Injection, IsInjective
<1>6. f \in Surjection(S, T)
  BY <1>2, <1>5, FS_Injection
<1>7. n - 1 \in T
  BY <1>1
<1> QED
  BY <1>6, <1>7 DEF Surjection

\* The list Sorted(S, R) holds the elements of S, each once and in order.
LEMMA SortedIs ==
    ASSUME NEW S, IsFiniteSet(S), NEW R, StrictOrder(S, R)
    PROVE  /\ Cardinality(S) \in Nat
           /\ Sorted(S, R) \in [1..Cardinality(S) -> S]
           /\ \A n, m \in 1..Cardinality(S) : n < m => <<Sorted(S, R)[n], Sorted(S, R)[m]>> \in R
           /\ \A n, m \in 1..Cardinality(S) : Sorted(S, R)[n] = Sorted(S, R)[m] => n = m
<1>1. Cardinality(S) \in Nat
  BY FS_CardinalityType
<1>2. Sorted(S, R) = [n \in 1..Cardinality(S) |-> CHOOSE x \in S : Rank(S, R, x) = n - 1]
  BY DEF Sorted, Rank, Below
<1>3. ASSUME NEW n \in 1..Cardinality(S)
      PROVE  Sorted(S, R)[n] \in S /\ Rank(S, R, Sorted(S, R)[n]) = n - 1
  <2>1. \E x \in S : Rank(S, R, x) = n - 1
    BY RankTaken
  <2>2. Sorted(S, R)[n] = CHOOSE x \in S : Rank(S, R, x) = n - 1
    BY <1>2
  <2> QED
    BY <2>1, <2>2
<1>4. ASSUME NEW n \in 1..Cardinality(S), NEW m \in 1..Cardinality(S), n < m
      PROVE  <<Sorted(S, R)[n], Sorted(S, R)[m]>> \in R
  <2>1. n - 1 < m - 1
    BY <1>1, <1>4
  <2>2. Rank(S, R, Sorted(S, R)[n]) < Rank(S, R, Sorted(S, R)[m])
    BY <1>3, <2>1
  <2> QED
    BY <1>3, <2>2, RankOrders
<1>5. ASSUME NEW n \in 1..Cardinality(S), NEW m \in 1..Cardinality(S), Sorted(S, R)[n] = Sorted(S, R)[m]
      PROVE  n = m
  <2>1. n - 1 = m - 1
    BY <1>3, <1>5
  <2> QED
    BY <1>1, <2>1
<1> QED
  BY <1>1, <1>2, <1>3, <1>4, <1>5

-----------------------------------------------------------------------------
(* The parts a report is made of.                                          *)

\* UpTo(limit, list) is the first m elements of a list of k.
IsCut(S, k, list, limit, m) ==
    /\ m \in Nat /\ m <= limit
    /\ UpTo(limit, list) \in [1..m -> S]
    /\ \A n \in 1..m : n \in 1..k /\ UpTo(limit, list)[n] = list[n]

LEMMA UpToIs ==
    ASSUME NEW S, NEW k \in Nat, NEW list \in [1..k -> S], NEW limit \in Nat
    PROVE  IsCut(S, k, list, limit, Least(k, limit))
<1> DEFINE m == Least(k, limit)
<1>1. m \in Nat /\ m <= k /\ m <= limit
  BY DEF Least
<1>2. Len(list) = k
  OBVIOUS
<1>3. UpTo(limit, list) = [n \in 1..m |-> list[n]]
  BY <1>2 DEF UpTo
<1> HIDE DEF m
<1>4. \A n \in 1..m : n \in 1..k /\ UpTo(limit, list)[n] = list[n] /\ list[n] \in S
  BY <1>1, <1>3
<1>5. UpTo(limit, list) \in [1..m -> S]
  BY <1>3, <1>4
<1> QED
  BY <1>1, <1>4, <1>5 DEF m, IsCut

LEMMA PrecedesIsOrder ==
    ASSUME NEW c \in Candidates, NEW d \in Candidates, NEW e \in Candidates,
           NEW i \in Int, NEW j \in Int, NEW k \in Int
    PROVE  /\ ~Precedes(c, i, c, i)
           /\ Precedes(c, i, d, j) /\ Precedes(d, j, e, k) => Precedes(c, i, e, k)
           /\ i # j => Precedes(c, i, d, j) \/ Precedes(d, j, c, i)
           /\ Precedes(c, i, d, j) => c.severity <= d.severity
<1>1. /\ c.severity \in Int /\ d.severity \in Int /\ e.severity \in Int
      /\ c.confidence \in Int /\ d.confidence \in Int /\ e.confidence \in Int
      /\ c.place \in Int /\ d.place \in Int /\ e.place \in Int
  BY DEF Candidates
<1> QED
  BY <1>1 DEF Precedes

LEMMA NormalizedIs ==
    ASSUME NEW c \in Candidates
    PROVE  /\ Normalized(c) \in Candidates
           /\ Normalized(c).place = c.place /\ Normalized(c).category = c.category
           /\ Normalized(c).severity = c.severity /\ Normalized(c).confidence = c.confidence
           /\ Normalized(c).class = IF c.category = "security" /\ c.class = "none"
                                      THEN "vulnerability" ELSE c.class
BY DEF Normalized, Candidates

LEMMA KeysDiffer ==
    ASSUME NEW c, NEW d
    PROVE  KeyOf(c) = KeyOf(d) <=> /\ c.place = d.place /\ c.category = d.category
                                   /\ Normalized(c).class = Normalized(d).class
BY DEF KeyOf

LEMMA FindingIs ==
    ASSUME NEW c \in Candidates, NEW decision \in Decisions
    PROVE  /\ FindingOf(c, decision) \in Candidates
           /\ FindingOf(c, decision).place = c.place /\ FindingOf(c, decision).category = c.category
           /\ FindingOf(c, decision).class = c.class
           /\ FindingOf(c, decision).severity = SeverityAfter(c, decision)
           /\ FindingOf(c, decision).confidence = Least(c.confidence, decision.confidence)
<1>1. SeverityAfter(c, decision) \in 1..4
  BY DEF Candidates, Decisions, SeverityAfter
<1>2. Least(c.confidence, decision.confidence) \in Nat
  BY DEF Candidates, Decisions, Least
<1> QED
  BY <1>1, <1>2 DEF FindingOf, Candidates

LEMMA FindingKey ==
    ASSUME NEW c \in Candidates, NEW decision \in Decisions
    PROVE  KeyOf(FindingOf(Normalized(c), decision)) = KeyOf(c)
<1> DEFINE f == FindingOf(Normalized(c), decision)
<1>1. /\ f \in Candidates /\ f.place = c.place /\ f.category = c.category
      /\ f.class = IF c.category = "security" /\ c.class = "none" THEN "vulnerability" ELSE c.class
  BY NormalizedIs, FindingIs
<1> HIDE DEF f
<1>2. Normalized(f).class = IF f.category = "security" /\ f.class = "none"
                              THEN "vulnerability" ELSE f.class
  BY <1>1, NormalizedIs
<1>3. Normalized(f).class = Normalized(c).class
  BY <1>1, <1>2, NormalizedIs
<1> QED
  BY <1>1, <1>3, KeysDiffer DEF f

-----------------------------------------------------------------------------
(* The candidates that are selected, and their order.                      *)

LEMMA SomeLeast ==
    ASSUME NEW S \in SUBSET Nat, S # {}
    PROVE  \E m \in S : \A n \in S : m <= n
<1>1. IsWellFoundedOn(OpToRel(<, Nat), Nat)
  BY NatLessThanWellFounded
<1>2. PICK m \in S : \A n \in Nat : <<n, m>> \in OpToRel(<, Nat) => n \notin S
  BY <1>1, WFMin
<1>3. \A n \in S : ~(n < m)
  BY <1>2 DEF OpToRel
<1> QED
  BY <1>3

LEMMA SelectedFinite ==
    ASSUME NEW n \in Nat, NEW candidates \in [1..n -> Candidates], NEW policy
    PROVE  /\ Selected(candidates, policy) \in SUBSET (1..n)
           /\ IsFiniteSet(Selected(candidates, policy))
<1>1. Selected(candidates, policy) \in SUBSET (1..n)
  BY DEF Selected
<1>2. IsFiniteSet(1..n)
  BY FS_Interval
<1> QED
  BY <1>1, <1>2, FS_Subset

\* Selected candidates have keys of their own.
LEMMA SelectedKeys ==
    ASSUME NEW n \in Nat, NEW candidates \in [1..n -> Candidates], NEW policy,
           NEW i \in Selected(candidates, policy), NEW j \in Selected(candidates, policy),
           KeyOf(candidates[i]) = KeyOf(candidates[j])
    PROVE  i = j
<1> SUFFICES ASSUME i # j PROVE FALSE
  OBVIOUS
<1>1. i \in 1..n /\ j \in 1..n /\ DOMAIN candidates = 1..n
  BY SelectedFinite
<1>2. candidates[i].confidence \in Int /\ candidates[j].confidence \in Int
  BY <1>1 DEF Candidates
<1>3. i \in Rivals(candidates, policy, j) \ {j} /\ j \in Rivals(candidates, policy, i) \ {i}
  BY <1>1 DEF Selected, Rivals
<1>4. /\ \/ candidates[j].confidence < candidates[i].confidence
         \/ candidates[j].confidence = candidates[i].confidence /\ i < j
      /\ \/ candidates[i].confidence < candidates[j].confidence
         \/ candidates[i].confidence = candidates[j].confidence /\ j < i
  BY <1>3 DEF Selected
<1> QED
  BY <1>1, <1>2, <1>4

LEMMA SlotIs ==
    ASSUME NEW n \in Nat, NEW candidates \in [1..n -> Candidates], NEW policy,
           NEW i \in Selected(candidates, policy)
    PROVE  /\ Slot(candidates, policy, i) \in 1..n
           /\ KeyOf(candidates[Slot(candidates, policy, i)]) = KeyOf(candidates[i])
<1> DEFINE S == Rivals(candidates, policy, i)
<1>1. S \in SUBSET (1..n) /\ i \in S
  BY DEF Rivals, Selected
<1>2. \E m \in S : \A k \in S : m <= k
  BY <1>1, SomeLeast
<1>3. Slot(candidates, policy, i) \in S
  BY <1>2 DEF Slot
<1> QED
  BY <1>1, <1>3 DEF Rivals

LEMMA CandidatesOrdered ==
    ASSUME NEW n \in Nat, NEW candidates \in [1..n -> Candidates], NEW policy
    PROVE  StrictOrder(Selected(candidates, policy), CandidateOrder(candidates, policy))
<1> DEFINE S == Selected(candidates, policy)
           at(i) == Slot(candidates, policy, i)
           R == CandidateOrder(candidates, policy)
<1>1. \A i \in S : candidates[i] \in Candidates /\ at(i) \in Int
  BY SelectedFinite, SlotIs
<1>2. \A i, j \in S : i # j => at(i) # at(j)
  BY SlotIs, SelectedKeys
<1>3. \A i, j \in S : <<i, j>> \in R <=> Precedes(candidates[i], at(i), candidates[j], at(j))
  BY DEF CandidateOrder
<1> HIDE DEF S, at, R
<1>4. ASSUME NEW i \in S PROVE <<i, i>> \notin R
  BY <1>1, <1>3, PrecedesIsOrder
<1>5. ASSUME NEW i \in S, NEW j \in S, NEW k \in S, <<i, j>> \in R, <<j, k>> \in R
      PROVE  <<i, k>> \in R
  BY <1>1, <1>3, <1>5, PrecedesIsOrder
<1>6. ASSUME NEW i \in S, NEW j \in S, i # j
      PROVE  <<i, j>> \in R \/ <<j, i>> \in R
  BY <1>1, <1>2, <1>3, <1>6, PrecedesIsOrder
<1> QED
  BY <1>4, <1>5, <1>6 DEF StrictOrder, S, R

LEMMA FoundOrdered ==
    ASSUME NEW n \in Nat, NEW found \in [1..n -> Candidates]
    PROVE  StrictOrder(DOMAIN found, FindingOrder(found))
<1>1. \A i, j \in 1..n : <<i, j>> \in FindingOrder(found) <=> Precedes(found[i], i, found[j], j)
  BY DEF FindingOrder
<1>2. ASSUME NEW i \in 1..n PROVE <<i, i>> \notin FindingOrder(found)
  BY <1>1, PrecedesIsOrder
<1>3. ASSUME NEW i \in 1..n, NEW j \in 1..n, NEW k \in 1..n,
             <<i, j>> \in FindingOrder(found), <<j, k>> \in FindingOrder(found)
      PROVE  <<i, k>> \in FindingOrder(found)
  BY <1>1, <1>3, PrecedesIsOrder
<1>4. ASSUME NEW i \in 1..n, NEW j \in 1..n, i # j
      PROVE  <<i, j>> \in FindingOrder(found) \/ <<j, i>> \in FindingOrder(found)
  BY <1>1, <1>4, PrecedesIsOrder
<1>5. DOMAIN found = 1..n
  OBVIOUS
<1> QED
  BY <1>2, <1>3, <1>4, <1>5 DEF StrictOrder

NumbersOrder(S) == {pair \in S \X S : pair[1] < pair[2]}

LEMMA NumbersOrdered ==
    ASSUME NEW S \in SUBSET Int
    PROVE  StrictOrder(S, NumbersOrder(S))
BY DEF StrictOrder, NumbersOrder

-----------------------------------------------------------------------------
(* The findings and the report.                                            *)

LEMMA FilteredIs ==
    ASSUME NEW n \in Nat, NEW candidates \in [1..n -> Candidates], NEW policy
    PROVE  \E m \in Nat : /\ Filtered(candidates, policy) \in [1..m -> Selected(candidates, policy)]
                          /\ \A i, j \in 1..m : Filtered(candidates, policy)[i] = Filtered(candidates, policy)[j]
                                                  => i = j
<1> DEFINE S == Selected(candidates, policy)
           list == Sorted(S, CandidateOrder(candidates, policy))
<1>1. IsFiniteSet(S) /\ StrictOrder(S, CandidateOrder(candidates, policy))
  BY SelectedFinite, CandidatesOrdered
<1> HIDE DEF S
<1>2. /\ Cardinality(S) \in Nat /\ list \in [1..Cardinality(S) -> S]
      /\ \A i, j \in 1..Cardinality(S) : list[i] = list[j] => i = j
  BY <1>1, SortedIs
<1> HIDE DEF list
<1>3. MaxCandidates \in Nat
  BY LimitsAssumption
<1> DEFINE m == Least(Cardinality(S), MaxCandidates)
<1>4. IsCut(S, Cardinality(S), list, MaxCandidates, m)
  BY <1>2, <1>3, UpToIs, Zenon
<1>5. Filtered(candidates, policy) = UpTo(MaxCandidates, list)
  BY DEF Filtered, S, list
<1> QED
  BY <1>2, <1>4, <1>5 DEF S, IsCut

\* What verified_findings lists: at k, what candidate source[k] and the decision
\* on it come to.
Lists(findings, source, l, candidates, decisions, policy) ==
    /\ findings \in [1..l -> Candidates]
    /\ \A k \in 1..l : /\ source[k] \in DOMAIN decisions
                       /\ source[k] \in Selected(candidates, policy)
                       /\ Survives(Normalized(candidates[source[k]]), decisions[source[k]], policy)
                       /\ findings[k] = FindingOf(Normalized(candidates[source[k]]), decisions[source[k]])
    /\ \A i, j \in 1..l : source[i] = source[j] => i = j
    /\ \A i, j \in 1..l : i < j => findings[i].severity <= findings[j].severity

LEMMA FindingsAre ==
    ASSUME NEW n \in Nat, NEW candidates \in [1..n -> Candidates], NEW policy,
           NEW D, NEW decisions \in [D -> Decisions]
    PROVE  LET filtered == Filtered(candidates, policy)
           IN  \E l \in Nat : \E source \in [1..l -> 1..n] :
                 /\ l <= MAX_PUBLISHED_FINDINGS
                 /\ Lists(Findings(candidates, filtered, Renumbered(filtered, decisions), policy), source, l,
                          candidates, decisions, policy)
<1> DEFINE filtered == Filtered(candidates, policy)
           renumbered == Renumbered(filtered, decisions)
           kept == Kept(candidates, filtered, renumbered, policy)
           numbers == Increasing(kept)
           published == UpTo(MAX_PUBLISHED_FINDINGS, numbers)
           found == [k \in DOMAIN published |->
                       FindingOf(Normalized(candidates[filtered[published[k]]]), renumbered[published[k]])]
           sorted == Sorted(DOMAIN found, FindingOrder(found))
<1>1. PICK m \in Nat : /\ filtered \in [1..m -> Selected(candidates, policy)]
                       /\ \A i, j \in 1..m : filtered[i] = filtered[j] => i = j
  BY FilteredIs
<1>2. Selected(candidates, policy) \in SUBSET (1..n)
  BY SelectedFinite
<1> HIDE DEF filtered
<1>3. /\ DOMAIN renumbered = {k \in 1..m : filtered[k] \in D}
      /\ \A k \in DOMAIN renumbered : renumbered[k] = decisions[filtered[k]]
  BY <1>1 DEF Renumbered
<1> HIDE DEF renumbered
<1>4. /\ kept \in SUBSET (1..m)
      /\ \A k \in kept : /\ filtered[k] \in D /\ renumbered[k] = decisions[filtered[k]]
                         /\ Survives(Normalized(candidates[filtered[k]]), decisions[filtered[k]], policy)
  BY <1>1, <1>3 DEF Kept
<1> HIDE DEF kept
<1>5. IsFiniteSet(kept) /\ StrictOrder(kept, NumbersOrder(kept))
  <2>1. IsFiniteSet(1..m)
    BY FS_Interval
  <2>2. kept \in SUBSET Int
    BY <1>4
  <2> QED
    BY <1>4, <2>1, <2>2, FS_Subset, NumbersOrdered
<1>6. /\ Cardinality(kept) \in Nat /\ numbers \in [1..Cardinality(kept) -> kept]
      /\ \A i, j \in 1..Cardinality(kept) : numbers[i] = numbers[j] => i = j
  BY <1>5, SortedIs DEF Increasing, NumbersOrder
<1> HIDE DEF numbers
<1> DEFINE l == Least(Cardinality(kept), MAX_PUBLISHED_FINDINGS)
<1>7. /\ l \in Nat /\ l <= MAX_PUBLISHED_FINDINGS
      /\ published \in [1..l -> kept]
      /\ \A i \in 1..l : i \in 1..Cardinality(kept) /\ published[i] = numbers[i]
  <2>1. MAX_PUBLISHED_FINDINGS \in Nat
    BY LimitsAssumption
  <2> QED
    <3>1. IsCut(kept, Cardinality(kept), numbers, MAX_PUBLISHED_FINDINGS, l)
      BY <1>6, <2>1, UpToIs, Zenon
    <3> HIDE DEF l
    <3> QED
      BY <3>1 DEF IsCut
<1> HIDE DEF published, l
<1>8. /\ found \in [1..l -> Candidates]
      /\ \A k \in 1..l : found[k] = FindingOf(Normalized(candidates[filtered[published[k]]]),
                                              decisions[filtered[published[k]]])
  <2>1. DOMAIN published = 1..l
    BY <1>7
  <2>2. ASSUME NEW k \in 1..l
        PROVE  /\ FindingOf(Normalized(candidates[filtered[published[k]]]),
                            renumbered[published[k]]) \in Candidates
               /\ renumbered[published[k]] = decisions[filtered[published[k]]]
    <3>1. published[k] \in kept
      BY <1>7
    <3>2. /\ renumbered[published[k]] = decisions[filtered[published[k]]]
          /\ decisions[filtered[published[k]]] \in Decisions
      BY <1>4, <3>1
    <3>3. candidates[filtered[published[k]]] \in Candidates
      BY <1>1, <1>2, <1>4, <3>1
    <3> QED
      BY <3>2, <3>3, NormalizedIs, FindingIs
  <2> QED
    BY <2>1, <2>2
<1> HIDE DEF found
<1>9. IsFiniteSet(DOMAIN found) /\ Cardinality(DOMAIN found) = l /\ DOMAIN found = 1..l
  <2>1. DOMAIN found = 1..l
    BY <1>8
  <2>2. IsFiniteSet(1..l) /\ Cardinality(1..l) = l
    BY <1>7, FS_Interval
  <2> QED
    BY <2>1, <2>2
<1>10. /\ sorted \in [1..l -> 1..l]
       /\ \A i, j \in 1..l : i < j => <<sorted[i], sorted[j]>> \in FindingOrder(found)
       /\ \A i, j \in 1..l : sorted[i] = sorted[j] => i = j
  <2>1. StrictOrder(DOMAIN found, FindingOrder(found))
    BY <1>7, <1>8, FoundOrdered
  <2>2. /\ sorted \in [1..Cardinality(DOMAIN found) -> DOMAIN found]
        /\ \A i, j \in 1..Cardinality(DOMAIN found) : i < j => <<sorted[i], sorted[j]>> \in FindingOrder(found)
        /\ \A i, j \in 1..Cardinality(DOMAIN found) : sorted[i] = sorted[j] => i = j
    BY <1>9, <2>1, SortedIs
  <2> QED
    BY <1>9, <2>2
<1> HIDE DEF sorted
<1> DEFINE F == Findings(candidates, filtered, renumbered, policy)
           source == [k \in 1..l |-> filtered[published[sorted[k]]]]
<1>11. F = [k \in DOMAIN sorted |-> found[sorted[k]]]
  BY DEF Findings, sorted, found, published, numbers, kept
<1>12. F \in [1..l -> Candidates] /\ \A k \in 1..l : F[k] = found[sorted[k]]
  BY <1>8, <1>10, <1>11
<1> HIDE DEF F
<1>13. ASSUME NEW k \in 1..l
       PROVE  /\ source[k] \in D /\ source[k] \in Selected(candidates, policy)
              /\ Survives(Normalized(candidates[source[k]]), decisions[source[k]], policy)
              /\ F[k] = FindingOf(Normalized(candidates[source[k]]), decisions[source[k]])
  <2>1. sorted[k] \in 1..l /\ source[k] = filtered[published[sorted[k]]]
    BY <1>10
  <2>2. published[sorted[k]] \in kept
    BY <1>7, <2>1
  <2>3. source[k] \in D /\ Survives(Normalized(candidates[source[k]]), decisions[source[k]], policy)
    BY <1>4, <2>1, <2>2
  <2>4. source[k] \in Selected(candidates, policy)
    BY <1>1, <1>4, <2>1, <2>2
  <2>5. F[k] = FindingOf(Normalized(candidates[source[k]]), decisions[source[k]])
    BY <1>8, <1>12, <2>1
  <2> QED
    BY <2>3, <2>4, <2>5
<1>14. ASSUME NEW i \in 1..l, NEW j \in 1..l, source[i] = source[j]
       PROVE  i = j
  <2>1. sorted[i] \in 1..l /\ sorted[j] \in 1..l
    BY <1>10
  <2>2. filtered[published[sorted[i]]] = filtered[published[sorted[j]]]
    BY <1>14
  <2>3. published[sorted[i]] = published[sorted[j]]
    BY <1>1, <1>4, <1>7, <2>1, <2>2
  <2>4. sorted[i] = sorted[j]
    BY <1>6, <1>7, <2>1, <2>3
  <2> QED
    BY <1>10, <2>4
<1>15. ASSUME NEW i \in 1..l, NEW j \in 1..l, i < j
       PROVE  F[i].severity <= F[j].severity
  <2>1. sorted[i] \in 1..l /\ sorted[j] \in 1..l /\ <<sorted[i], sorted[j]>> \in FindingOrder(found)
    BY <1>10, <1>15
  <2>2. Precedes(found[sorted[i]], sorted[i], found[sorted[j]], sorted[j])
    BY <2>1 DEF FindingOrder
  <2>3. /\ found[sorted[i]] \in Candidates /\ found[sorted[j]] \in Candidates
        /\ sorted[i] \in Int /\ sorted[j] \in Int
    BY <1>8, <2>1
  <2>4. found[sorted[i]].severity <= found[sorted[j]].severity
    BY <2>2, <2>3, PrecedesIsOrder
  <2> QED
    BY <1>12, <2>4
<1>16. source \in [1..l -> 1..n]
  BY <1>2, <1>13
<1> HIDE DEF source
<1>17. DOMAIN decisions = D
  OBVIOUS
<1>18. Lists(F, source, l, candidates, decisions, policy)
  BY <1>12, <1>13, <1>14, <1>15, <1>17 DEF Lists
<1> QED
  BY <1>7, <1>16, <1>18 DEF F, renumbered, filtered

\* A candidate that survived supports its finding.
LEMMA SurvivorSupports ==
    ASSUME NEW n \in Nat, NEW candidates \in [1..n -> Candidates], NEW policy \in Policies,
           NEW D, NEW decisions \in [D -> Decisions], NEW i \in D, i \in Selected(candidates, policy),
           Survives(Normalized(candidates[i]), decisions[i], policy)
    PROVE  Supported(FindingOf(Normalized(candidates[i]), decisions[i]), candidates, decisions, policy)
<1> DEFINE c == candidates[i]
           d == decisions[i]
           f == FindingOf(Normalized(c), d)
<1>1. c \in Candidates /\ d \in Decisions
  BY SelectedFinite
<1>2. Publishable(c, policy)
  BY DEF Selected
<1>3. Survives(Normalized(c), d, policy)
  OBVIOUS
<1> HIDE DEF c, d
<1>4. /\ Normalized(c).place = c.place /\ Normalized(c).category = c.category
      /\ Normalized(c).severity = c.severity /\ Normalized(c).confidence = c.confidence
      /\ Normalized(c).class = IF c.category = "security" /\ c.class = "none"
                                 THEN "vulnerability" ELSE c.class
      /\ Normalized(c) \in Candidates
  BY <1>1, NormalizedIs
<1>5. SeverityAfter(Normalized(c), d) = SeverityAfter(c, d)
  BY <1>4 DEF SeverityAfter
<1>6. /\ f.place = c.place /\ f.category = c.category /\ f.class = Normalized(c).class
      /\ f.severity = SeverityAfter(c, d) /\ f.confidence = Least(c.confidence, d.confidence)
  BY <1>1, <1>4, <1>5, FindingIs
<1> HIDE DEF f
<1>7. c.place \in policy.allowed \intersect policy.commentable
  BY <1>2 DEF Publishable
<1>8. /\ d.keep
      /\ f.confidence >= ThresholdFor(Normalized(c), policy)
      /\ ~(Normalized(c).class = "preventative" /\ f.severity <= 2)
      /\ f.severity <= policy.minimum
  BY <1>3, <1>4, <1>5, <1>6 DEF Survives
<1>9. c.class = "preventative" => c.place \in policy.preventative
  <2>1. c.class = "preventative" => c.category = "security"
    BY <1>2 DEF Publishable, NormalizedAway
  <2> QED
    BY <1>2, <2>1 DEF Publishable, NormalizedAway
<1>10. /\ f.confidence \in Int /\ f.severity \in Int
       /\ policy.threshold \in Int /\ policy.preventativeThreshold \in Int
  <2>1. SeverityAfter(c, d) \in Int /\ Least(c.confidence, d.confidence) \in Int
    BY <1>1 DEF SeverityAfter, Least, Candidates, Decisions
  <2> QED
    BY <1>6, <2>1 DEF Policies
<1>11. /\ f.confidence >= policy.threshold
       /\ c.class = "preventative" => f.severity > 2 /\ f.confidence >= policy.preventativeThreshold
  <2>1. CASE c.class = "preventative"
    <3>1. Normalized(c).class = "preventative" /\ Normalized(c).place \in policy.preventative
      BY <1>4, <1>9, <2>1
    <3>2. f.confidence >= Most(policy.threshold, policy.preventativeThreshold)
      BY <1>8, <3>1 DEF ThresholdFor
    <3>3. f.severity > 2
      BY <1>8, <1>10, <3>1
    <3> QED
      BY <1>10, <3>2, <3>3 DEF Most
  <2>2. CASE c.class # "preventative"
    <3>1. Normalized(c).class # "preventative"
      BY <1>4, <2>2
    <3> QED
      BY <1>8, <2>2, <3>1 DEF ThresholdFor
  <2> QED
    BY <2>1, <2>2
<1>12. c.class # "none" => f.class = c.class
  BY <1>4, <1>6
<1>13. i \in DOMAIN decisions /\ c = candidates[i] /\ d = decisions[i]
  BY DEF c, d
<1> QED
  BY <1>6, <1>7, <1>8, <1>11, <1>12, <1>13 DEF Supported, f

\* The risk floor is no less than that of any finding.
LEMMA RiskIsFloor ==
    ASSUME NEW l \in Nat, NEW findings \in [1..l -> Candidates], NEW k \in 1..l
    PROVE  RiskFloor(findings) \in 0..20 /\ SEVERITY_RISK_FLOOR[findings[k].severity] <= RiskFloor(findings)
<1> DEFINE floors == {SEVERITY_RISK_FLOOR[findings[i].severity] : i \in DOMAIN findings}
<1>1. \A i \in 1..l : SEVERITY_RISK_FLOOR[findings[i].severity] \in {18, 14, 8, 4}
  <2>1. \A s \in 1..4 : SEVERITY_RISK_FLOOR[s] \in {18, 14, 8, 4}
    BY DEF SEVERITY_RISK_FLOOR
  <2>2. \A i \in 1..l : findings[i].severity \in 1..4
    BY DEF Candidates
  <2> QED
    BY <2>1, <2>2
<1> DEFINE mine == SEVERITY_RISK_FLOOR[findings[k].severity]
<1>2. floors \subseteq {18, 14, 8, 4} /\ mine \in floors
  BY <1>1
<1>3. RiskFloor(findings) = IF floors = {} THEN 0 ELSE CHOOSE f \in floors : \A g \in floors : g <= f
  BY DEF RiskFloor
<1> HIDE DEF floors, mine
<1>4. \E f \in floors : \A g \in floors : g <= f
  <2>1. CASE 18 \in floors
    BY <1>2, <2>1
  <2>2. CASE 18 \notin floors /\ 14 \in floors
    BY <1>2, <2>2
  <2>3. CASE 18 \notin floors /\ 14 \notin floors /\ 8 \in floors
    BY <1>2, <2>3, SMTT(30)
  <2>4. CASE 18 \notin floors /\ 14 \notin floors /\ 8 \notin floors
    <3>1. floors = {4}
      BY <1>2, <2>4
    <3> QED
      BY <3>1
  <2> QED
    BY <2>1, <2>2, <2>3, <2>4
<1>5. RiskFloor(findings) \in floors /\ \A g \in floors : g <= RiskFloor(findings)
  BY <1>2, <1>3, <1>4
<1>6. RiskFloor(findings) \in {18, 14, 8, 4}
  BY <1>2, <1>5, Zenon
<1>7. mine <= RiskFloor(findings)
  BY <1>2, <1>5, Zenon
<1>8. \A f \in {18, 14, 8, 4} : f \in 0..20
  OBVIOUS
<1> QED
  BY <1>6, <1>7, <1>8, Zenon DEF mine

\* A risk raised to its floor and kept under 20 is a number, and not below the floor.
LEMMA RiskAboveFloor ==
    ASSUME NEW risk \in 0..20, NEW floor \in 0..20
    PROVE  Least(20, Most(risk, floor)) \in Int /\ Least(20, Most(risk, floor)) >= floor
  BY DEF Least, Most

\* Whatever the two agents answer, a report publishes only what both answers
\* support, at most so many findings, each place once for a kind, the worst first,
\* at a risk no lower than any of them calls for (report_assembly.py).
THEOREM ReportsAreSupported ==
    ASSUME NEW n \in Nat, NEW candidates \in [1..n -> Candidates], NEW policy \in Policies,
           NEW D, NEW decisions \in [D -> Decisions], NEW verifierRisk \in 0..20, NEW diff, NEW visible
    PROVE  ReportSupported(ReportFromRunner(candidates, decisions, verifierRisk, diff, visible, policy),
                           candidates, decisions, policy)
<1> DEFINE filtered == Filtered(candidates, policy)
           F == Findings(candidates, filtered, Renumbered(filtered, decisions), policy)
           report == ReportFromRunner(candidates, decisions, verifierRisk, diff, visible, policy)
<1>0. MAX_PUBLISHED_FINDINGS \in Nat
  BY LimitsAssumption
<1>1. CASE report.findings = <<>>
  <2>1. Len(<<>>) = 0 /\ DOMAIN (<<>>) = {}
    OBVIOUS
  <2> HIDE DEF report
  <2> QED
    BY <1>0, <1>1, <2>1 DEF ReportSupported, report
<1>2. CASE report.findings # <<>>
  <2>1. /\ report.findings = F /\ F # <<>>
        /\ report.risk = Least(20, Most(verifierRisk, RiskFloor(F)))
    BY <1>2 DEF ReportFromRunner
  <2>2. PICK l \in Nat : \E source \in [1..l -> 1..n] :
          /\ l <= MAX_PUBLISHED_FINDINGS
          /\ Lists(F, source, l, candidates, decisions, policy)
    BY FindingsAre
  <2>3. PICK source \in [1..l -> 1..n] :
          /\ l <= MAX_PUBLISHED_FINDINGS
          /\ Lists(F, source, l, candidates, decisions, policy)
    BY <2>2
  <2> HIDE DEF report, F, filtered
  <2>4. F \in [1..l -> Candidates] /\ Len(F) = l /\ DOMAIN F = 1..l
    BY <2>3 DEF Lists
  <2>5. ASSUME NEW k \in 1..l
        PROVE  /\ Supported(F[k], candidates, decisions, policy)
               /\ KeyOf(F[k]) = KeyOf(candidates[source[k]])
    <3>1. /\ source[k] \in D /\ source[k] \in Selected(candidates, policy)
          /\ Survives(Normalized(candidates[source[k]]), decisions[source[k]], policy)
          /\ F[k] = FindingOf(Normalized(candidates[source[k]]), decisions[source[k]])
      BY <2>3 DEF Lists
    <3>2. candidates[source[k]] \in Candidates /\ decisions[source[k]] \in Decisions
      BY <3>1
    <3>3. Supported(FindingOf(Normalized(candidates[source[k]]), decisions[source[k]]),
                    candidates, decisions, policy)
      BY <3>1, SurvivorSupports
    <3>4. KeyOf(FindingOf(Normalized(candidates[source[k]]), decisions[source[k]])) = KeyOf(candidates[source[k]])
      BY <3>2, FindingKey
    <3> QED
      BY <3>1, <3>3, <3>4
  <2>6. ASSUME NEW i \in 1..l, NEW j \in 1..l, i < j
        PROVE  F[i].severity <= F[j].severity /\ KeyOf(F[i]) # KeyOf(F[j])
    <3>1. F[i].severity <= F[j].severity
      BY <2>3, <2>6 DEF Lists
    <3>2. /\ source[i] \in Selected(candidates, policy) /\ source[j] \in Selected(candidates, policy)
          /\ source[i] # source[j]
      BY <2>3, <2>6 DEF Lists
    <3>3. KeyOf(candidates[source[i]]) # KeyOf(candidates[source[j]])
      BY <3>2, SelectedKeys
    <3> QED
      BY <2>5, <3>1, <3>3
  <2>7. ASSUME NEW k \in 1..l
        PROVE  report.risk >= SEVERITY_RISK_FLOOR[F[k].severity]
    <3>1. RiskFloor(F) \in 0..20 /\ SEVERITY_RISK_FLOOR[F[k].severity] <= RiskFloor(F)
      BY <2>4, RiskIsFloor
    <3>2. SEVERITY_RISK_FLOOR[F[k].severity] \in Int
      <4>1. F[k].severity \in 1..4
        BY <2>4 DEF Candidates
      <4> QED
        BY <4>1 DEF SEVERITY_RISK_FLOOR
    <3>3. Least(20, Most(verifierRisk, RiskFloor(F))) >= RiskFloor(F)
      BY <3>1, RiskAboveFloor, Zenon
    <3>4. Least(20, Most(verifierRisk, RiskFloor(F))) \in Int
      BY <3>1, RiskAboveFloor, Zenon
    <3>5. report.risk = Least(20, Most(verifierRisk, RiskFloor(F)))
      BY <2>1, Zenon
    <3>6. Least(20, Most(verifierRisk, RiskFloor(F))) >= SEVERITY_RISK_FLOOR[F[k].severity]
      <4> DEFINE given == Least(20, Most(verifierRisk, RiskFloor(F)))
                 floor == RiskFloor(F)
                 mine == SEVERITY_RISK_FLOOR[F[k].severity]
      <4>1. given \in Int /\ floor \in 0..20 /\ mine \in Int /\ mine <= floor /\ given >= floor
        BY <3>1, <3>2, <3>3, <3>4, Zenon
      <4> HIDE DEF given, floor, mine
      <4>2. given >= mine
        BY <4>1
      <4> QED
        BY <4>2, Zenon DEF given, mine
    <3> QED
      BY <3>5, <3>6, Zenon
  <2> QED
    BY <2>1, <2>3, <2>4, <2>5, <2>6, <2>7 DEF ReportSupported, report
<1> QED
  BY <1>1, <1>2

\* More risk, more findings or fewer files seen never raise the score, whatever
\* the numbers are (review_confidence_score).
THEOREM ScoresFall ==
    ASSUME NEW risk \in 0..20, NEW n \in Nat, NEW files \in Nat, NEW reviewed \in 0..files
    PROVE  ScoreFalls(risk, n, files, reviewed)
BY DEF ScoreFalls, ReviewConfidenceScore, Least, SEVERITY_RISK_FLOOR

LEMMA DecisionsWithin ==
    ASSUME NEW A, NEW B, NEW C, A \subseteq BOOLEAN, B \subseteq Nat, C \subseteq 0..4
    PROVE  [keep : A, confidence : B, revised : C] \subseteq Decisions
BY DEF Decisions

LEMMA SomeReports == FindingsSupported
<1> SUFFICES ASSUME NEW c \in SomeCandidates({1, 2, 3}), NEW d \in SomeCandidates({1}),
                    NEW decisions \in {a \in Answers : a[3] = [keep |-> TRUE, confidence |-> 9, revised |-> 0]}
             PROVE  ReportSupported(ReportFromRunner(<<c, d, Third>>, decisions, 3, {1}, {1}, ThePolicy),
                                    <<c, d, Third>>, decisions, ThePolicy)
  BY DEF FindingsSupported
<1>1. c \in Candidates /\ d \in Candidates /\ Third \in Candidates
  BY DEF SomeCandidates, Candidates, Kinds, Third
<1>2. <<c, d, Third>> \in [1..3 -> Candidates]
  BY <1>1
<1>3. ThePolicy \in Policies
  BY DEF ThePolicy, Policies
<1>4. SomeDecisions \subseteq Decisions
  <2>1. [keep |-> FALSE, confidence |-> 9, revised |-> 0] \in Decisions
    BY DEF Decisions
  <2>2. [keep : {TRUE}, confidence : {6, 9}, revised : {0, 1, 4}] \subseteq Decisions
    <3> DEFINE A == {TRUE}
               B == {6, 9}
               C == {0, 1, 4}
    <3>1. A \subseteq BOOLEAN
      BY Zenon
    <3>2. B \subseteq Nat /\ C \subseteq 0..4
      OBVIOUS
    <3> HIDE DEF A, B, C
    <3>3. [keep : A, confidence : B, revised : C] \subseteq Decisions
      BY <3>1, <3>2, DecisionsWithin
    <3> QED
      BY <3>3, Zenon DEF A, B, C
  <2> QED
    BY <2>1, <2>2, Zenon DEF SomeDecisions
<1>5. \E D : decisions \in [D -> Decisions]
  <2>1. PICK D \in SUBSET (1..2) : decisions \in [D \union {3} -> SomeDecisions]
    BY DEF Answers
  <2> QED
    BY <1>4, <2>1
<1>6. 3 \in Nat /\ 3 \in 0..20
  OBVIOUS
<1> QED
  BY <1>2, <1>3, <1>5, <1>6, ReportsAreSupported, Zenon

LEMMA SomeScores == ScoreIsMonotone
<1> SUFFICES ASSUME NEW risk \in 0..20, NEW n \in 0..11, NEW files \in 0..3, NEW reviewed \in 0..files
             PROVE  ScoreFalls(risk, n, files, reviewed)
  BY DEF ScoreIsMonotone
<1>1. n \in Nat /\ files \in Nat
  OBVIOUS
<1> QED
  BY <1>1, ScoresFall

LEMMA ReportsAreSound == ReportsSound
BY SomeReports, SomeScores DEF ReportsSound

\* Reports say what both agents' answers support and are scored soundly, as the run
\* checks it in the initial state: a consequence of ReportsAreSupported and
\* ScoresFall, which hold for inputs of any size.
THEOREM ReportsHold == Spec => []ReportIsSound
<1>1. ReportIsSound
  BY ReportsAreSound DEF ReportIsSound
<1>2. QED
  BY <1>1, PTL
=============================================================================
