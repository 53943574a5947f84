--------------------------- MODULE AgentProtocol ---------------------------
(***************************************************************************)
(* What the worker and an agent host agree on (packages/protocol and the   *)
(* parsing half of packages/host): which execution specs are well formed,  *)
(* which results are accepted for which investigation, how a failure of an *)
(* agent CLI is classified on its way to the job, and what an attempt that *)
(* runs out of turns costs.  No state.                                     *)
(*                                                                         *)
(* A digest is the value it is the digest of: equal digests, equal values. *)
(***************************************************************************)
EXTENDS Integers, Sequences

RuntimeNames == {"claude", "codex"}
Candidate == "candidate"
Verifier == "verifier"
NoResult == [kind |-> "none"]

opposite_agent_runtime(runtime) == IF runtime = "claude" THEN "codex" ELSE "claude"

-----------------------------------------------------------------------------
(* Results.  A candidate result lists findings, numbered from 0; a         *)
(* verifier result decides on some of them.                                *)

CandidateResult(ref, runtime, size, findings) ==
    [kind |-> Candidate, ref |-> ref, runtime |-> runtime, size |-> size, findings |-> findings]

VerifierResult(ref, runtime, size, of, decisions) ==
    [kind |-> Verifier, ref |-> ref, runtime |-> runtime, size |-> size,
     of |-> of, decisions |-> decisions]

BoundResult(result, kind, session, runtime, max) ==
    /\ result.size <= max
    /\ result.kind = kind
    /\ result.runtime = runtime
    /\ result.ref = session

AcceptsCandidate(result, session, runtime, max) ==
    BoundResult(result, Candidate, session, runtime, max)

\* The ids candidate-0 .. candidate-(n-1) of the findings that were verified.
AllowedCandidates(input) == 0..(input.findings - 1)

\* Faulty variant: a decision may name a candidate again.
AcceptsRepeats(result, session, runtime, input, max) ==
    /\ BoundResult(result, Verifier, session, runtime, max)
    /\ result.of = input
    /\ \A i \in DOMAIN result.decisions : result.decisions[i] \in AllowedCandidates(input)

AcceptsVerification(result, session, runtime, input, max) ==
    /\ BoundResult(result, Verifier, session, runtime, max)
    /\ result.of = input
    /\ \A i \in DOMAIN result.decisions : result.decisions[i] \in AllowedCandidates(input)
    /\ \A i, j \in DOMAIN result.decisions :
         result.decisions[i] = result.decisions[j] => i = j

\* What the host checks before it reports a result, and the worker before it
\* records one.
Accepts(role, result, session, runtime, input, max) ==
    IF role = Candidate THEN AcceptsCandidate(result, session, runtime, max)
    ELSE AcceptsVerification(result, session, runtime, input, max)

\* sign_dispatch and verify_dispatch refuse a spec that is not one of these.
ValidDispatch(role, input, max) ==
    IF role = Candidate THEN input = NoResult
    ELSE /\ input # NoResult
         /\ AcceptsCandidate(input, input.ref, input.runtime, max)

-----------------------------------------------------------------------------
(* Failures.                                                               *)

\* How an agent session can end without a result: the exceptions of errors.py
\* and of the steps around them.
CliErrors ==
    {"auth_required", "terminal", "timeout", "rate_limited", "output", "result_invalid",
     "workspace", "mcp", "execution", "coverage_caveat"}

HostErrorCode(error) ==
    CASE error = "auth_required" -> "auth_required"
      [] error \in {"output", "result_invalid"} -> "invalid_result"
      [] error = "workspace" -> "invalid_workspace"
      [] error = "timeout" -> "timeout"
      [] error = "rate_limited" -> "rate_limited"
      [] error = "terminal" -> "configuration_error"
      [] OTHER -> "runner_execution_failed"

\* The worker raises a ValueError, which is not retried, for these two only.
TerminalCodes == {"auth_required", "configuration_error"}
RaisedFor(code) == IF code \in TerminalCodes THEN "terminal" ELSE "retry"

\* A run of a CLI: does its output parse, did a tool server fail, does it
\* report an error, for lack of turns?, is there a result of the schema's
\* form, what does the message mention, and was the exit code 0?
Runs ==
    [parses : BOOLEAN, mcpFailed : BOOLEAN, isError : BOOLEAN, maxTurns : BOOLEAN,
     result : {"none", "malformed", "valid"}, mentions : SUBSET {"quota", "credential"},
     exit0 : BOOLEAN]

\* _raise_envelope_failure of Claude Code; Codex knows no turn budget.
EnvelopeFailure(run, runtime) ==
    IF runtime = "claude" /\ run.maxTurns THEN "coverage_caveat"
    ELSE IF "quota" \in run.mentions THEN "rate_limited"
    ELSE IF "credential" \in run.mentions THEN "auth_required"
    ELSE "execution"

\* _raise_exit_failure asks in the other order.
ExitFailure(run) ==
    IF "credential" \in run.mentions THEN "auth_required"
    ELSE IF "quota" \in run.mentions THEN "rate_limited"
    ELSE "execution"

\* Faulty variant: the exit code is looked at first.
ClassifyByExit(run, runtime) ==
    IF ~run.exit0 THEN ExitFailure(run)
    ELSE IF run.result = "valid" THEN "ok" ELSE "output"

\* _parse_envelope_or_exit_failure and _run_once: a tool server that failed,
\* what the envelope says, the exit code if there is no envelope, the schema.
ClassifyRun(run, runtime) ==
    CASE run.parses /\ run.mcpFailed -> "mcp"
      [] run.parses /\ ~run.mcpFailed /\ run.isError -> EnvelopeFailure(run, runtime)
      [] run.parses /\ ~run.mcpFailed /\ ~run.isError /\ run.result # "none" ->
           IF run.result = "valid" THEN "ok" ELSE "output"
      [] OTHER -> IF run.exit0 THEN "output" ELSE ExitFailure(run)

-----------------------------------------------------------------------------
(* One session: an attempt, and one more with a raised budget when the     *)
(* first ran out of turns and the session has time left.  An attempt is    *)
(* [end, tokens, seconds]; only a result and a coverage caveat report the  *)
(* tokens they cost.                                                       *)

Remaining(total, spent) == total - spent

\* What the attempts cost if the last of them reports it.
TokensOfBoth(first, second) == first.tokens + second.tokens

RunSession(first, second, total) ==
    LET reports(attempt) == attempt.end \in {"ok", "coverage_caveat"} IN
    CASE total <= 0 -> [end |-> "timeout", tokens |-> 0, tries |-> 0]
      [] total > 0 /\ (first.end # "coverage_caveat" \/ Remaining(total, first.seconds) <= 0) ->
           [end |-> first.end, tokens |-> IF reports(first) THEN first.tokens ELSE 0, tries |-> 1]
      [] OTHER ->
           [end |-> second.end, tries |-> 2,
            tokens |-> IF reports(second) THEN TokensOfBoth(first, second) ELSE 0]

-----------------------------------------------------------------------------
(* Grants: the bearer token with which an agent reads one snapshot for one *)
(* pull request, and the envelope in which the worker hands it to a host.  *)
(* Time is counted in half seconds; both are stamped in whole seconds.  A  *)
(* signature is the key it was made with, a sealed grant the grant.        *)

CAPABILITY_OPERATIONS ==
    {"search_code", "get_diff", "get_file", "get_symbol", "get_pr_metadata",
     "list_prior_findings", "get_applicable_policy"}
MAX_CAPABILITY_TTL == 4                   \* fifteen minutes, scaled down
WholeSeconds(moment) == 2 * (moment \div 2)

ValidScope(scope) ==
    /\ scope.repository > 0 /\ scope.pullRequest > 0 /\ scope.snapshot > 0
    /\ scope.operations # {} /\ scope.operations \subseteq CAPABILITY_OPERATIONS

Mintable(scope, ttl) == ValidScope(scope) /\ ttl \in 1..MAX_CAPABILITY_TTL

MintSessionCapability(key, runtime, scope, ttl, now) ==
    [key |-> key, runtime |-> runtime, scope |-> scope,
     iat |-> WholeSeconds(now), exp |-> WholeSeconds(now + ttl)]

Expired(grant, now) == now >= grant.exp

\* What verify_session_capability answers; a requirement that is not made is
\* a set of everything.
VerifySessionCapability(grant, key, now, required) ==
    IF grant.key # key \/ ~ValidScope(grant.scope) \/ grant.runtime \notin RuntimeNames
      THEN "malformed"
    ELSE IF Expired(grant, now) THEN "expired"
    ELSE IF \/ grant.runtime \notin required.runtimes
            \/ grant.scope.repository \notin required.repositories
            \/ grant.scope.pullRequest \notin required.pullRequests
            \/ grant.scope.snapshot \notin required.snapshots
            \/ required.operation \notin grant.scope.operations
      THEN "mismatch"
    ELSE "verified"

\* _validate_envelope, on both sides of the wire.
ValidEnvelope(e) ==
    /\ e.scope.repository > 0 /\ e.scope.pullRequest > 0 /\ e.scope.snapshot > 0
    /\ e.runtime \in RuntimeNames
    /\ e.size <= e.maxSize /\ e.turns > 0 /\ e.timeout > 0 /\ e.maxResult > 0
    /\ ValidDispatch(e.role, e.input, e.maxResult)

\* sign_dispatch stamps the envelope in whole seconds and digests its archive.
SignDispatch(e, key, expires) ==
    [key |-> key, envelope |-> e, archive |-> e.archive, exp |-> WholeSeconds(expires)]

VerifyDispatch(token, key, now) ==
    /\ token.key = key
    /\ token.archive = token.envelope.archive
    /\ token.exp > now
    /\ ValidEnvelope(token.envelope)

-----------------------------------------------------------------------------
(* Properties, over bounded inputs.                                        *)

\* A session ends well exactly if the agent's own envelope says so and holds a
\* result of the right form; running out of turns is recognised whatever the
\* exit code of the process is, and only a credential problem ends the job
\* (classification in claude.py, codex.py, investigation.py and api.py).
RunsClassified ==
    \A run \in Runs, runtime \in RuntimeNames :
      LET got == ClassifyRun(run, runtime)
      IN  /\ got = "ok" <=>
               run.parses /\ ~run.mcpFailed /\ ~run.isError /\ run.result = "valid"
          /\ runtime = "claude" /\ run.parses /\ ~run.mcpFailed /\ run.isError /\ run.maxTurns
               => got = "coverage_caveat"
          /\ got # "ok" /\ RaisedFor(HostErrorCode(got)) = "terminal" =>
               "credential" \in run.mentions

Attempts == [end : {"ok", "coverage_caveat", "output"}, tokens : 1..2, seconds : 1..2]

\* A session makes a second attempt only when the first ran out of turns with
\* time left, and a session that answers is charged for every attempt it made.
SessionsAccounted ==
    \A first, second \in Attempts, total \in 0..3 :
      LET got == RunSession(first, second, total)
      IN  /\ got.tries = 2 => first.end = "coverage_caveat" /\ first.seconds < total
          /\ got.end = "ok" => got.tokens = (IF got.tries >= 1 THEN first.tokens ELSE 0)
                                             + (IF got.tries = 2 THEN second.tokens ELSE 0)

SomeScopes ==
    [repository : {1, 2}, pullRequest : {1}, snapshot : {1, 2},
     operations : SUBSET {"search_code", "get_file"}]

\* A grant that was minted opens what it was minted for and nothing else, to
\* the holder of the key, and never for longer than its time to live; an
\* envelope is dead once the second of its expiry has begun.
GrantsBind ==
    \A scope \in SomeScopes, ttl \in 1..5, now \in 0..1, later \in 0..6 :
      LET grant == MintSessionCapability("k", "claude", scope, ttl, now)
          required == [runtimes |-> RuntimeNames, repositories |-> {1}, pullRequests |-> {1},
                       snapshots |-> {1}, operation |-> "search_code"]
          envelope == [scope |-> scope, runtime |-> "claude", size |-> 1, maxSize |-> 1,
                       turns |-> 1, timeout |-> 1, maxResult |-> 1, role |-> Candidate,
                       input |-> NoResult, archive |-> "a"]
      IN  /\ Mintable(scope, ttl) =>
               (VerifySessionCapability(grant, "k", now + later, required) = "verified" =>
                  /\ scope.repository = 1 /\ scope.snapshot = 1
                  /\ "search_code" \in scope.operations
                  /\ later < ttl)
          /\ VerifySessionCapability(grant, "other", now + later, required) = "malformed"
          /\ VerifyDispatch(SignDispatch(envelope, "k", now + ttl), "k", now + later) =>
               later < ttl

\* What a host and a worker agree on holds for every run, session and grant.
ProtocolAgreed == RunsClassified /\ SessionsAccounted /\ GrantsBind
=============================================================================
