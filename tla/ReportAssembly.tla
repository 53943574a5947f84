--------------------------- MODULE ReportAssembly ---------------------------
(***************************************************************************)
(* From what the two agents say to what is published                       *)
(* (review/report_assembly.py and _report_from_runner): the candidates of  *)
(* the first agent are filtered by the diff and the policy, deduplicated   *)
(* and renumbered, the decisions of the second are carried over to the new *)
(* numbers, and the findings that survive give the risk and the score.     *)
(* No state.                                                               *)
(*                                                                         *)
(* Candidates are numbered from 1; a candidate is [place, category, class, *)
(* severity, confidence], a decision [keep, confidence, revised], with     *)
(* revised 0 for no change.  Severities: 1 critical, 2 high, 3 medium, 4   *)
(* low.  A place is a line of a file; confidence is counted in tenths.     *)
(***************************************************************************)
EXTENDS SortedLists

CONSTANTS
    MaxCandidates,             \* 80 in the code
    MAX_PUBLISHED_FINDINGS     \* 25 in the code

ASSUME LimitsAssumption == MaxCandidates \in Nat /\ MAX_PUBLISHED_FINDINGS \in Nat

Candidates ==
    [place : Nat,
     category : {"correctness", "security", "performance", "reliability", "testing",
                 "architecture", "maintainability", "api"},
     class : {"none", "vulnerability", "preventative"}, severity : 1..4, confidence : Nat]
Decisions == [keep : BOOLEAN, confidence : Nat, revised : 0..4]
Policies ==
    [allowed : SUBSET Nat, commentable : SUBSET Nat, preventative : SUBSET Nat,
     threshold : Nat, preventativeThreshold : Nat, minimum : 1..4]

-----------------------------------------------------------------------------
(* Which candidates can be published.  The policy is [allowed,             *)
(* commentable, preventative : sets of places, threshold,                  *)
(* preventativeThreshold, minimum].                                        *)

\* _normalize_security_candidate: an unclassified security finding is a
\* vulnerability.
Normalized(c) ==
    IF c.category = "security" /\ c.class = "none" THEN [c EXCEPT !.class = "vulnerability"] ELSE c

NormalizedAway(c, policy) ==
    \/ c.category # "security" /\ c.class # "none"
    \/ /\ c.category = "security" /\ c.class = "preventative"
       /\ c.place \notin policy.preventative \/ c.severity <= 2

Publishable(c, policy) ==
    /\ ~NormalizedAway(c, policy)
    /\ c.place \in policy.allowed
    /\ c.place \in policy.commentable

KeyOf(c) == <<c.place, c.category, Normalized(c).class>>

\* The publishable candidates with the key of candidate i.
Rivals(candidates, policy, i) ==
    {j \in DOMAIN candidates : Publishable(candidates[j], policy) /\ KeyOf(candidates[j]) = KeyOf(candidates[i])}

\* Of candidates with one key the most confident stays, the first of them.
Selected(candidates, policy) ==
    {i \in DOMAIN candidates :
       /\ Publishable(candidates[i], policy)
       /\ \A j \in Rivals(candidates, policy, i) \ {i} :
            \/ candidates[j].confidence < candidates[i].confidence
            \/ candidates[j].confidence = candidates[i].confidence /\ i < j}

\* It keeps the place in the list that the first candidate with its key had.
Slot(candidates, policy, i) ==
    CHOOSE j \in Rivals(candidates, policy, i) : \A k \in Rivals(candidates, policy, i) : j <= k

\* Severity, then confidence, then place; what is still equal keeps its order.
Precedes(c, i, d, j) ==
    \/ c.severity < d.severity
    \/ c.severity = d.severity /\ c.confidence > d.confidence
    \/ c.severity = d.severity /\ c.confidence = d.confidence /\ c.place < d.place
    \/ c.severity = d.severity /\ c.confidence = d.confidence /\ c.place = d.place /\ i < j

CandidateOrder(candidates, policy) ==
    {pair \in Selected(candidates, policy) \X Selected(candidates, policy) :
       Precedes(candidates[pair[1]], Slot(candidates, policy, pair[1]),
                candidates[pair[2]], Slot(candidates, policy, pair[2]))}

\* deduplicate_candidates_with_ids: at position n, the number of the candidate
\* that becomes candidate n.
Filtered(candidates, policy) ==
    UpTo(MaxCandidates, Sorted(Selected(candidates, policy), CandidateOrder(candidates, policy)))

\* Faulty variant: decisions keep the numbers the verifier used.
RenumberedNever(filtered, decisions) ==
    [n \in {k \in DOMAIN filtered : k \in DOMAIN decisions} |-> decisions[n]]

\* The decisions by the candidates' new numbers.
Renumbered(filtered, decisions) ==
    [n \in {k \in DOMAIN filtered : filtered[k] \in DOMAIN decisions} |-> decisions[filtered[n]]]

-----------------------------------------------------------------------------
(* Verification.                                                           *)

ThresholdFor(c, policy) ==
    IF c.class # "preventative" THEN policy.threshold
    ELSE IF c.place \in policy.preventative THEN Most(policy.threshold, policy.preventativeThreshold)
    ELSE 10                                \* 1.0

SeverityAfter(c, decision) == IF decision.revised = 0 THEN c.severity ELSE decision.revised

\* verified_findings: is the candidate published with this decision?
Survives(c, decision, policy) ==
    /\ decision.keep
    /\ Least(c.confidence, decision.confidence) >= ThresholdFor(c, policy)
    /\ ~(c.class = "preventative" /\ SeverityAfter(c, decision) <= 2)
    /\ SeverityAfter(c, decision) <= policy.minimum

\* The candidates that are published with their decisions.
Kept(candidates, filtered, decisions, policy) ==
    {n \in DOMAIN filtered :
       n \in DOMAIN decisions /\ Survives(Normalized(candidates[filtered[n]]), decisions[n], policy)}

FindingOf(c, decision) ==
    [place |-> c.place, category |-> c.category, class |-> c.class,
     severity |-> SeverityAfter(c, decision), confidence |-> Least(c.confidence, decision.confidence)]

FindingOrder(found) ==
    {pair \in (DOMAIN found) \X (DOMAIN found) :
       Precedes(found[pair[1]], pair[1], found[pair[2]], pair[2])}

\* The rest of verified_findings: the first survivors, the worst of them first.
Findings(candidates, filtered, decisions, policy) ==
    LET kept == Kept(candidates, filtered, decisions, policy)
        published == UpTo(MAX_PUBLISHED_FINDINGS, Increasing(kept))
        found == [k \in DOMAIN published |->
                    FindingOf(Normalized(candidates[filtered[published[k]]]), decisions[published[k]])]
        sorted == Sorted(DOMAIN found, FindingOrder(found))
    IN  [k \in DOMAIN sorted |-> found[sorted[k]]]

-----------------------------------------------------------------------------
(* The report.  Risk is counted in halves, 0 to 20.                        *)

SEVERITY_RISK_FLOOR == <<18, 14, 8, 4>>

RiskFloor(findings) ==
    LET floors == {SEVERITY_RISK_FLOOR[findings[i].severity] : i \in DOMAIN findings}
    IN  IF floors = {} THEN 0 ELSE CHOOSE f \in floors : \A g \in floors : g <= f

ReviewConfidenceScore(risk, findings, files, reviewed, ignored) ==
    LET byRisk == CASE risk = 0 -> 5
                    [] risk \in 1..5 -> 4
                    [] risk \in 6..10 -> 3
                    [] risk \in 11..15 -> 2
                    [] risk \in 16..19 -> 1
                    [] risk = 20 -> 0
        byCount == IF findings >= 10 THEN 1 ELSE IF findings >= 6 THEN 2
                   ELSE IF findings >= 3 THEN 3 ELSE 5
        byCoverage == IF files > 0 /\ reviewed = 0 THEN 0
                      ELSE IF files > 0 /\ reviewed + ignored < files THEN 2
                      ELSE IF ignored > 0 THEN 4 ELSE 5
    IN  Least(byRisk, Least(byCount, byCoverage))

\* The files of a diff that the policy lets the review see.
ReviewableDiff(files, allowed) == files \intersect allowed

\* _report_from_runner; `diff` and `visible` are the sets of changed files.
ReportFromRunner(candidates, decisions, verifierRisk, diff, visible, policy) ==
    LET reviewable == ReviewableDiff(diff, visible)
        filtered == Filtered(candidates, policy)
        findings == Findings(candidates, filtered, Renumbered(filtered, decisions), policy)
        risk == IF findings = <<>> THEN 0 ELSE Least(20, Most(verifierRisk, RiskFloor(findings)))
    IN  IF diff # {} /\ reviewable = {}
          THEN [findings |-> <<>>, risk |-> 0, score |-> 0]        \* all_files_disabled_report
        ELSE [findings |-> findings, risk |-> risk,
              score |-> ReviewConfidenceScore(risk, Len(findings), Cardinality(diff),
                                              Cardinality(reviewable),
                                              Cardinality(diff \ reviewable))]

-----------------------------------------------------------------------------
(* Bounded inputs: two candidates on places 1 (a changed line), 2 (outside *)
(* the diff) and 3 (a file the policy excludes), and one that is kept on   *)
(* place 4, so that there can be more findings than are published.         *)

ThePolicy == [allowed |-> {1, 2, 4}, commentable |-> {1, 3, 4}, preventative |-> {1},
              threshold |-> 7, preventativeThreshold |-> 9, minimum |-> 3]
Kinds == {<<"correctness", "none">>, <<"correctness", "vulnerability">>, <<"security", "none">>,
          <<"security", "preventative">>}
SomeCandidates(places) ==
    {[place |-> p, category |-> k[1], class |-> k[2], severity |-> s, confidence |-> f] :
       p \in places, k \in Kinds, s \in {1, 3}, f \in {8, 9}}
SomeDecisions ==
    {[keep |-> FALSE, confidence |-> 9, revised |-> 0]} \union
      [keep : {TRUE}, confidence : {6, 9}, revised : {0, 1, 4}]
Third == [place |-> 4, category |-> "correctness", class |-> "none", severity |-> 3, confidence |-> 8]
Answers ==
    UNION {[D \union {3} -> SomeDecisions] : D \in SUBSET (1..2)}

\* A finding is a candidate of the first agent that the second one was asked
\* about under its own number and decided to keep, on a changed line of a file
\* that is reviewed, with a confidence and a severity that the policy asks for;
\* a preventative one is never high or critical.
Supported(finding, candidates, decisions, policy) ==
    \E i \in DOMAIN decisions :
      LET c == candidates[i]
      IN  /\ finding.place = c.place /\ finding.category = c.category
          /\ decisions[i].keep
          /\ c.place \in policy.allowed \intersect policy.commentable
          /\ finding.confidence = Least(c.confidence, decisions[i].confidence)
          /\ finding.severity = SeverityAfter(c, decisions[i])
          /\ finding.severity <= policy.minimum /\ finding.confidence >= policy.threshold
          /\ c.class = "preventative" =>
               finding.severity > 2 /\ finding.confidence >= policy.preventativeThreshold
          /\ c.class # "none" => finding.class = c.class

\* Every finding of a report is supported, no place has two of one kind, the
\* worst come first, and the risk is no less than any of them calls for.
ReportSupported(report, candidates, decisions, policy) ==
    LET found == report.findings
    IN  /\ Len(found) <= MAX_PUBLISHED_FINDINGS
        /\ \A i \in DOMAIN found : Supported(found[i], candidates, decisions, policy)
        /\ \A i, j \in DOMAIN found : i < j =>
             /\ found[i].severity <= found[j].severity
             /\ KeyOf(found[i]) # KeyOf(found[j])
        /\ \A i \in DOMAIN found : report.risk >= SEVERITY_RISK_FLOOR[found[i].severity]

\* What is published follows from the answers of both agents, whatever they are.
FindingsSupported ==
    \A c \in SomeCandidates({1, 2, 3}), d \in SomeCandidates({1}) :
      \A decisions \in {a \in Answers : a[3] = [keep |-> TRUE, confidence |-> 9, revised |-> 0]} :
        ReportSupported(ReportFromRunner(<<c, d, Third>>, decisions, 3, {1}, {1}, ThePolicy),
                        <<c, d, Third>>, decisions, ThePolicy)

\* More risk, more findings or fewer files seen do not raise the score, a
\* critical finding leaves at most 1 and a diff nobody saw 0.
ScoreFalls(risk, n, files, reviewed) ==
    LET score(r, k, seen) == ReviewConfidenceScore(r, k, files, seen, files - reviewed)
    IN  /\ risk < 20 => score(risk + 1, n, reviewed) <= score(risk, n, reviewed)
        /\ score(risk, n + 1, reviewed) <= score(risk, n, reviewed)
        /\ reviewed > 0 => score(risk, n, reviewed - 1) <= score(risk, n, reviewed)
        /\ risk >= SEVERITY_RISK_FLOOR[1] => score(risk, n, reviewed) <= 1
        /\ files > 0 => score(risk, n, 0) = 0

\* The score never rises with the evidence against a change.
ScoreIsMonotone ==
    \A risk \in 0..20, n \in 0..11, files \in 0..3 :
      \A reviewed \in 0..files : ScoreFalls(risk, n, files, reviewed)

\* A report says what both agents' answers support, and scores it soundly.
ReportsSound == FindingsSupported /\ ScoreIsMonotone
=============================================================================
