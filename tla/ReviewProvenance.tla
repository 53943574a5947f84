-------------------------- MODULE ReviewProvenance --------------------------
(***************************************************************************)
(* Who wrote a pull request, and who therefore reviews it                  *)
(* (review/provenance.py): signals are gathered from the commits and from  *)
(* the author of the pull request, classified, and the runtime of another  *)
(* model family is chosen if the evidence is strong enough.  No state.     *)
(*                                                                         *)
(* Strengths are hundredths.  An identity is [login, email, name]: each    *)
(* the tool it is known to belong to, or "".  A trailer is a tool or "".   *)
(***************************************************************************)
EXTENDS Integers, FiniteSets

\* Tools and the families of their models; for Copilot and Devin it is open.
Tools == {"claude_code", "codex", "gemini", "github_copilot", "devin"}
NoFamily == ""
FamilyOf(tool) ==
    CASE tool = "claude_code" -> "anthropic"
      [] tool = "codex" -> "openai"
      [] tool = "gemini" -> "google"
      [] tool \in {"github_copilot", "devin"} -> NoFamily

UNVERIFIED_IDENTITY_MAX_STRENGTH == 70
PROVENANCE_CONFIDENCE_DEFAULT == 80

Signal(tool, source, strength) == [tool |-> tool, source |-> source, strength |-> strength]

\* Faulty variant: an email counts as verified on every commit.
IdentityUnchecked(id, source, verified) ==
    IF id.login # "" THEN {Signal(id.login, source, IF verified THEN 100 ELSE 98)}
    ELSE IF id.email # "" THEN {Signal(id.email, source, 92)}
    ELSE IF id.name # "" THEN {Signal(id.name, source, UNVERIFIED_IDENTITY_MAX_STRENGTH)}
    ELSE {}

\* _identity_signal: the login of a bot, which GitHub asserts, then an email,
\* then a name; a bot login always ends in "[bot]".
IdentitySignal(id, source, verified) ==
    IF id.login # "" THEN {Signal(id.login, source, IF verified THEN 100 ELSE 98)}
    ELSE IF id.email # ""
      THEN {Signal(id.email, source, IF verified THEN 92 ELSE UNVERIFIED_IDENTITY_MAX_STRENGTH)}
    ELSE IF id.name # "" THEN {Signal(id.name, source, UNVERIFIED_IDENTITY_MAX_STRENGTH)}
    ELSE {}

TrailerSignal(trailer) ==
    IF trailer = "" THEN {}
    ELSE {Signal(trailer, "commit_trailer", UNVERIFIED_IDENTITY_MAX_STRENGTH)}

\* A commit is [author, committer, verified, trailers]; the signature vouches
\* for the committer only.
CommitSignals(commit) ==
    IdentitySignal(commit.author, "commit_author", FALSE)
      \union IdentitySignal(commit.committer, "commit_committer", commit.verified)
      \union (UNION {TrailerSignal(t) : t \in commit.trailers})

\* An identity of which no more than the login is known.
Bot(login) == [login |-> login, email |-> "", name |-> ""]
Nobody == Bot("")

\* The signals of a pull request; `author` is the tool whose bot opened it, or "".
AllSignals(commits, author) ==
    (UNION {CommitSignals(c) : c \in commits})
      \union IdentitySignal(Bot(author), "pull_request_author", FALSE)

\* What classify_pull_request_provenance answers, confidence in ten-thousandths.
ClassifyPullRequestProvenance(commits, complete, author) ==
    LET all == AllSignals(commits, author)
        asserted == {s \in all : s.strength > UNVERIFIED_IDENTITY_MAX_STRENGTH}
        used == IF asserted # {} THEN asserted ELSE all
        families == {FamilyOf(s.tool) : s \in used} \ {NoFamily}
        direct == \E s \in used : s.source # "commit_trailer"
        ambiguous == \/ \E f, g \in families : f # g
                     \/ families # {} /\ \E s \in used : FamilyOf(s.tool) = NoFamily
        strongest == CHOOSE n \in {s.strength : s \in used} : \A s \in used : s.strength <= n
    IN  IF all = {}
          THEN [classification |-> IF commits = {} THEN "unknown" ELSE "human_or_undetected",
                family |-> NoFamily, confidence |-> 0, aiCommits |-> 0]
        ELSE [classification |->
                IF ambiguous THEN "mixed_ai"
                ELSE IF families # {} THEN IF direct THEN "agent_authored" ELSE "ai_assisted"
                ELSE IF direct THEN "agent_unknown_family" ELSE "ai_assisted_unknown_family",
              family |-> IF ambiguous \/ families = {} THEN NoFamily
                         ELSE CHOOSE f \in families : TRUE,
              confidence |-> strongest * IF complete THEN 100 ELSE 75,
              aiCommits |-> Cardinality({c \in commits : CommitSignals(c) # {}})]

\* The commits could not be loaded (_resolve_review_provenance).
Unavailable ==
    [classification |-> "unknown", family |-> NoFamily, confidence |-> 0, aiCommits |-> 0]

Origin(provenance, minimum) ==
    IF provenance.confidence >= 100 * minimum THEN provenance.family ELSE NoFamily

\* select_review_agent_plan: the runtime of the candidate; the verifier's is
\* the opposite one.
SelectReviewAgentPlan(provenance, default, minimum) ==
    LET origin == Origin(provenance, minimum)
    IN  IF origin = "openai" THEN "claude" ELSE IF origin = "anthropic" THEN "codex" ELSE default

\* select_review_model_plan: the pair <<candidate, verifier>>; `of` maps the
\* models to their families.
SelectReviewModelPlan(provenance, candidate, verifier, of, minimum) ==
    LET origin == Origin(provenance, minimum)
        opposes(model) == of[model] \notin {NoFamily, origin}
    IN  IF origin # NoFamily /\ ~opposes(candidate) /\ opposes(verifier)
          THEN <<verifier, candidate>> ELSE <<candidate, verifier>>

-----------------------------------------------------------------------------
(* What a commit can carry.                                                *)

ToolOrNone == Tools \union {""}
Identities == [login : ToolOrNone, email : ToolOrNone, name : ToolOrNone]
Commits == [author : Identities, committer : Identities, verified : BOOLEAN,
            trailers : SUBSET ToolOrNone]

-----------------------------------------------------------------------------
(* Bounded inputs: one or two commits, each with one piece of evidence or  *)
(* two that contradict each other.                                         *)

SomeTools == {"claude_code", "codex", "github_copilot"}
\* Claude Code is known by its logins, its email and its trailers, not by a name.
SomeIdentities ==
    {Nobody} \union {Bot(tool) : tool \in SomeTools}
             \union {[login |-> "", email |-> tool, name |-> ""] : tool \in SomeTools}
             \union {[login |-> "", email |-> "", name |-> tool] : tool \in SomeTools \ {"claude_code"}}
             \union {[login |-> "claude_code", email |-> "codex", name |-> ""]}
SomeCommits ==
    {[author |-> a, committer |-> c, verified |-> v, trailers |-> t] :
       a, c \in SomeIdentities, v \in BOOLEAN, t \in {{}, {"claude_code"}, {"codex"}}}

\* The identity and the commit without what anybody can write into them: names,
\* trailers and the emails that no signature vouches for.
Vouched(id, verified) ==
    IF verified /\ id.login = "" THEN [login |-> "", email |-> id.email, name |-> ""]
    ELSE Bot(id.login)
Unforgeable(commit) ==
    [author |-> Vouched(commit.author, FALSE),
     committer |-> Vouched(commit.committer, commit.verified),
     verified |-> commit.verified, trailers |-> {}]

RuntimeFor(commits, complete, author, default) ==
    SelectReviewAgentPlan(ClassifyPullRequestProvenance(commits, complete, author), default,
                          PROVENANCE_CONFIDENCE_DEFAULT)

SomeCommitSets ==
    {{c} : c \in SomeCommits} \union
      {{c, d} : c \in SomeCommits,
                d \in {[author |-> a, committer |-> Nobody, verified |-> FALSE, trailers |-> t] :
                         a \in SomeIdentities, t \in {{}, {"codex"}}}}
SomeAuthors == {"", "codex"}
Runtimes == {"claude", "codex"}

\* Taking out everything that can be forged leaves the runtime as it is.
ForgeryHasNoSay(commits, author, default) ==
    RuntimeFor(commits, TRUE, author, default)
      = RuntimeFor({Unforgeable(c) : c \in commits}, TRUE, author, default)

\* Whoever writes the commits of a pull request cannot choose who reviews it.
ForgeriesHaveNoSay ==
    \A commits \in SomeCommitSets, author \in SomeAuthors, default \in Runtimes :
      ForgeryHasNoSay(commits, author, default)

\* The one runtime that the asserted signals call for, or else the default; the
\* default if the commits are not all known.
RoutedByAssertion(commits, author, default) ==
    LET asserted == AllSignals({Unforgeable(c) : c \in commits}, author)
        allFrom(tool) == asserted # {} /\ \A s \in asserted : s.tool = tool
    IN  /\ RuntimeFor(commits, FALSE, author, default) = default
        /\ RuntimeFor(commits, TRUE, author, default) =
             IF allFrom("codex") THEN "claude" ELSE IF allFrom("claude_code") THEN "codex" ELSE default

\* A runtime other than the default is chosen only against the one family that
\* every asserted signal names, and never if the commits are not all known.
DefaultUnlessAsserted ==
    \A commits \in SomeCommitSets, author \in SomeAuthors, default \in Runtimes :
      RoutedByAssertion(commits, author, default)

\* Of the two configured models, the author's family reviews only if the other
\* model is of the same family or of an unknown one.
PairIsRouted(provenance, candidate, verifier, of) ==
    LET origin == Origin(provenance, PROVENANCE_CONFIDENCE_DEFAULT)
        pair == SelectReviewModelPlan(provenance, candidate, verifier, of, PROVENANCE_CONFIDENCE_DEFAULT)
    IN  /\ {pair[1], pair[2]} = {candidate, verifier}
        /\ origin # NoFamily /\ of[pair[1]] = origin => of[pair[2]] \in {NoFamily, origin}

\* Routing permutes the two configured models and never reviews with one of
\* the author's family while the other one is of a different family.
PairIsPermuted ==
    \A of \in [{"m", "n"} -> {NoFamily, "anthropic", "openai", "google"}],
       family \in {NoFamily, "anthropic", "openai"}, confidence \in {7000, 9200},
       verifier \in {"m", "n"} :
      PairIsRouted([Unavailable EXCEPT !.family = family, !.confidence = confidence], "m", verifier, of)

\* A review is made by an agent that is independent of the author, and no one
\* but GitHub's own word about the author changes the choice.
ReviewerIndependent == ForgeriesHaveNoSay /\ DefaultUnlessAsserted /\ PairIsPermuted
=============================================================================
