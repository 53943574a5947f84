-------------------------- MODULE PolicyResolution --------------------------
(***************************************************************************)
(* Review policies (repository/policy): configuration files found in the   *)
(* directories of a repository are layered into one policy per changed     *)
(* path, the paths' policies are merged into what holds for the review,    *)
(* and the triggers decide whether it takes place.  No state.              *)
(*                                                                         *)
(* A directory or path is a sequence of names, a name a number: its place  *)
(* in the order of strings.  A glob is the set of (relative) paths that it *)
(* matches (PathGlobs is about the matching).  A setting stands for any of *)
(* the independent settings of review, context, security and triggers.     *)
(***************************************************************************)
EXTENDS SortedLists, SequencesExt

\* A setting, and each part of an override, is NotSet or a one-element sequence.
NotSet == <<>>
DotDiffuse == 2                           \* the place of ".diffuse" among names

IsDescendant(directory, path) == IsPrefix(directory, path)
RelativeTo(directory, path) == SubSeq(path, Len(directory) + 1, Len(path))
ScopeMatches(directory, glob, path) ==
    IsDescendant(directory, path) /\ RelativeTo(directory, path) \in glob

-----------------------------------------------------------------------------
(* Discovery.                                                              *)

Slashes(directory) == IF directory = <<>> THEN 0 ELSE Len(directory) - 1

Less(s, t) ==
    \/ Len(s) < Len(t) /\ IsPrefix(s, t)
    \/ \E i \in DOMAIN s \intersect DOMAIN t : s[i] < t[i] /\ \A j \in 1..(i - 1) : s[j] = t[j]

\* The order in which discover_repository_policy leaves the layers.
LayerBefore(l, m) ==
    \/ Slashes(l.directory) < Slashes(m.directory)
    \/ Slashes(l.directory) = Slashes(m.directory) /\ Less(l.directory, m.directory)

Layers(found) == Sorted(found, {pair \in found \X found : LayerBefore(pair[1], pair[2])})

\* The order in which _validate_rule_overrides goes through them.
ValidatedBefore(l, m) ==
    \/ Slashes(l.directory) < Slashes(m.directory)
    \/ /\ Slashes(l.directory) = Slashes(m.directory)
       /\ Less(Append(l.directory, DotDiffuse), Append(m.directory, DotDiffuse))

\* Every rule that a layer overrides is one of its own or of an ancestor that
\* was seen before it.
ValidRuleOverrides(found) ==
    \A l \in found : \A id \in DOMAIN l.overrides :
      \E m \in found : /\ m = l \/ ValidatedBefore(m, l)
                       /\ IsDescendant(m.directory, l.directory)
                       /\ id \in DOMAIN m.rules

\* What a checkout holds: `tracked` paths, of which some are `sensitive`
\* (secret-shaped) and some are `text`, regular files of UTF-8; `size` of each.
\* A context file that files.json names is read if it is not secret-shaped.
Reads(entry, repo) == entry.path \in repo.tracked /\ entry.path \notin repo.sensitive

\* _read_text refuses a link, what is no text and what is too long.
Readable(path, repo, limits) == path \in repo.text /\ repo.size[path] <= limits.file

\* The guidance that files.json files add: entries are [directory, path, glob],
\* `other` is what the policy files themselves hold.
TotalSize(read, repo, other) == other + SumOf([i \in DOMAIN read |-> repo.size[read[i].path]])

ContextFiles(entries, repo, other, limits) ==
    LET read == Picked(entries, {i \in DOMAIN entries : Reads(entries[i], repo)})
    IN  IF \/ \E i \in DOMAIN entries : entries[i].path \notin repo.tracked
           \/ \E i, j \in DOMAIN read : i # j /\ read[i] = read[j]
           \/ \E i \in DOMAIN read : ~Readable(read[i].path, repo, limits)
           \/ TotalSize(read, repo, other) > limits.total
        THEN Raises ELSE Returns(read)

-----------------------------------------------------------------------------
(* One path.  A layer is [directory, settings, ignored, rules, overrides]: *)
(* settings maps each setting to a value or NotSet; rules maps ids to        *)
(* [glob, severity, enabled]; overrides maps ids to [severity, enabled],   *)
(* each NotSet if it is not overridden.                                      *)

Patched(values, patch) ==
    [s \in DOMAIN values |-> IF patch[s] = NotSet THEN values[s] ELSE patch[s]]

\* Faulty variant: a nearer layer's list of ignored paths replaces the others.
IgnoredByNearest(before, layer, path) == RelativeTo(layer.directory, path) \in layer.ignored

\* No layer takes back what another one ignores.
IgnoredBy(before, layer, path) == before \/ RelativeTo(layer.directory, path) \in layer.ignored

Ruled(rules, layer, path) ==
    LET declared ==
          {id \in DOMAIN layer.rules : ScopeMatches(layer.directory, layer.rules[id].glob, path)}
    IN  [id \in DOMAIN rules \union declared |->
           IF id \in declared
             THEN [severity |-> layer.rules[id].severity, enabled |-> layer.rules[id].enabled]
           ELSE rules[id]]

Overridden(rules, layer) ==
    [id \in DOMAIN rules |->
       IF id \in DOMAIN layer.overrides THEN Patched(rules[id], layer.overrides[id])
       ELSE rules[id]]

\* What a path's policy is with one layer more.
Layered(policy, layer, path) ==
    [settings |-> Patched(policy.settings, layer.settings),
     ignored |-> IgnoredBy(policy.ignored, layer, path),
     rules |-> Overridden(Ruled(policy.rules, layer, path), layer)]

\* resolve_review_policy for one path: the settings, whether the path is
\* ignored and the severities of the rules that are enabled for it.
ResolvePath(layers, path, defaults) ==
    LET over == Picked(layers, {i \in DOMAIN layers : IsDescendant(layers[i].directory, path)})
        upTo[n \in 0..Len(over)] ==
          IF n = 0 THEN [settings |-> defaults, ignored |-> FALSE, rules |-> <<>>]
          ELSE Layered(upTo[n - 1], over[n], path)
        last == upTo[Len(over)]
    IN  [settings |-> last.settings, ignored |-> last.ignored,
         rules |-> [id \in {i \in DOMAIN last.rules : last.rules[i].enabled = <<TRUE>>} |->
                      last.rules[id].severity]]

GuidanceFor(documents, path) ==
    Picked(documents, {i \in DOMAIN documents :
                         ScopeMatches(documents[i].directory, documents[i].glob, path)})

\* apply_approved_learned_rules and apply_approved_custom_contexts: what the
\* operator approved stands beneath what the repository says, oldest first;
\* `items` maps ids to globs, `own` is what the repository has for the path.
Beneath(own, items, path, max) ==
    IF Cardinality(DOMAIN items) > max THEN Raises
    ELSE Returns(Increasing({id \in DOMAIN items : path \in items[id]}) \o own)

-----------------------------------------------------------------------------
(* All paths.  A path policy is [enabled, ignored, flags, triggers]; the   *)
(* flags that hold for the review if one path asks for them, those that    *)
(* every path has to agree to, and those nothing but a path can grant.     *)

AnyFlags == {"summary_only", "update_description", "collapsible"}
AllFlags == {"summary_comment", "included", "footer", "default_open"}
GrantedFlags == {"diagram_included", "diagram_default_open"}

Reviewable(p) == p.enabled /\ ~p.ignored
ReviewablePaths(paths) == {p \in paths : Reviewable(p)}

FlagOf(paths, flag) ==
    LET values == {p.flags[flag] : p \in ReviewablePaths(paths)}
    IN  IF flag \in AnyFlags THEN TRUE \in values
        ELSE FALSE \notin values /\ (flag \in GrantedFlags => values # {})

\* Triggers: three switches, for labels, authors, branches and keywords the
\* values that are wanted and those that are not, the limit of changed files
\* (0: none), and the severities that block a status check.
Filters == {"labels", "authors", "branches", "keywords"}
DefaultTriggers ==
    [automatic |-> TRUE, review_drafts |-> FALSE, review_updates |-> TRUE,
     wanted |-> [f \in Filters |-> {}], unwanted |-> [f \in Filters |-> {}], limit |-> 0,
     status_check |-> FALSE, blocking |-> {"critical", "high"}]

\* A path that wants no particular value takes any.
Wanted(policies, f) ==
    IF \E t \in policies : t.wanted[f] = {} THEN {} ELSE UNION {t.wanted[f] : t \in policies}

LeastLimit(policies) ==
    LET limits == {t.limit : t \in policies} \ {0}
    IN  IF limits = {} THEN 0 ELSE CHOOSE n \in limits : \A k \in limits : n <= k

MergedTriggers(paths) ==
    LET policies == {p.triggers : p \in ReviewablePaths(paths)}
        checked == {t \in policies : t.status_check}
    IN  IF policies = {} THEN DefaultTriggers
        ELSE [automatic |-> \E t \in policies : t.automatic,
              review_drafts |-> \E t \in policies : t.review_drafts,
              review_updates |-> \E t \in policies : t.review_updates,
              wanted |-> [f \in Filters |-> Wanted(policies, f)],
              unwanted |-> [f \in Filters |-> UNION {t.unwanted[f] : t \in policies}],
              limit |-> LeastLimit(policies),
              status_check |-> checked # {},
              blocking |-> IF checked = {} THEN {"critical", "high"}
                           ELSE UNION {t.blocking : t \in checked}]

\* What evaluate_trigger answers for a pull request [manual, complete, draft,
\* update, files, values]: the first reason that applies.
Reasons == <<"metadata_unavailable", "automatic_disabled", "draft_pull_request",
             "updates_disabled", "file_change_limit", "labels", "authors", "branches",
             "keywords">>

Applies(reason, t, pr) ==
    CASE reason = "metadata_unavailable" -> ~pr.complete
      [] reason = "automatic_disabled" -> ~t.automatic
      [] reason = "draft_pull_request" -> pr.draft /\ ~t.review_drafts
      [] reason = "updates_disabled" -> pr.update /\ ~t.review_updates
      [] reason = "file_change_limit" -> t.limit # 0 /\ pr.files > t.limit
      [] reason \in Filters ->
           \/ pr.values[reason] \intersect t.unwanted[reason] # {}
           \/ t.wanted[reason] # {} /\ pr.values[reason] \intersect t.wanted[reason] = {}

EvaluateTrigger(t, pr) ==
    LET applying == {i \in DOMAIN Reasons : Applies(Reasons[i], t, pr)}
    IN  IF pr.manual THEN "manual_trigger"
        ELSE IF applying = {} THEN "automatic_trigger" ELSE Reasons[Min(applying)]

Eligible(t, pr) == EvaluateTrigger(t, pr) \in {"manual_trigger", "automatic_trigger"}

\* resolve_repository_trigger_policy: the root's triggers alone, whatever it
\* ignores.
RootTriggers(root) == MergedTriggers({[root EXCEPT !.enabled = TRUE, !.ignored = FALSE]})

-----------------------------------------------------------------------------
(* The prompt, in characters: header, body and the closing delimiter, with *)
(* a marker before it if the body had to be cut.                           *)

PromptText(header, body, closing, marker, max) ==
    IF header + 2 + body + 2 + closing <= max
      THEN [header |-> header + 2, body |-> body, closing |-> 2 + closing]
    ELSE LET budget == max - header - 2 - (marker + closing)
         IN  IF budget <= 0 THEN [header |-> 0, body |-> 0, closing |-> 0]
             ELSE [header |-> header + 2, body |-> budget, closing |-> marker + closing]

-----------------------------------------------------------------------------
(* Bounded inputs: a path three directories deep, configuration files in   *)
(* any of its ancestors and in a directory beside them.                    *)

ThePath == <<3, 4, 5>>
Directories == {<<>>, <<3>>, <<3, 4>>, <<4>>}
Everything == {SubSeq(ThePath, n, 3) : n \in 1..3}
Unset == [s |-> NotSet]

SettingLayers(d) ==
    [directory : {d}, settings : [{"s"} -> {NotSet, <<1>>, <<2>>}], ignored : {{}, Everything},
     rules : {<<>>}, overrides : {<<>>}]
RuleLayers(d) ==
    [directory : {d}, settings : {Unset}, ignored : {{}},
     rules : {<<>>} \union [{1} -> [glob : {{}, Everything}, severity : {<<10 + Len(d)>>},
                                     enabled : {<<TRUE>>, <<FALSE>>}]],
     overrides : {<<>>} \union [{1} -> {[severity |-> <<20 + Len(d)>>, enabled |-> NotSet],
                                        [severity |-> NotSet, enabled |-> <<TRUE>>],
                                        [severity |-> NotSet, enabled |-> <<FALSE>>]}]]

\* The layers of a path, and the nearest of those that say something.
Overlying(found, path) == {l \in found : IsDescendant(l.directory, path)}
Nearest(S) == CHOOSE l \in S : \A m \in S : Len(m.directory) <= Len(l.directory)

SettingIsNearest(found, path, defaults, s) ==
    LET set == {l \in Overlying(found, path) : l.settings[s] # NotSet}
    IN  ResolvePath(Layers(found), path, defaults).settings[s] =
          IF set = {} THEN defaults[s] ELSE Nearest(set).settings[s]

IgnoredByAny(found, path, defaults) ==
    ResolvePath(Layers(found), path, defaults).ignored <=>
      \E l \in Overlying(found, path) : RelativeTo(l.directory, path) \in l.ignored

\* Each setting has the value that the nearest directory with a say gives it,
\* a path is ignored if any directory above ignores it, and a directory beside
\* the path has no influence (resolve_review_policy).
SettingsResolve ==
    \A root \in SettingLayers(<<>>), dir \in SettingLayers(<<3>>), sub \in SettingLayers(<<3, 4>>),
       beside \in SettingLayers(<<4>>) :
      LET found == {root, dir, sub, beside}
      IN  /\ SettingIsNearest(found, ThePath, [s |-> <<0>>], "s")
          /\ IgnoredByAny(found, ThePath, [s |-> <<0>>])

\* What holds of a rule for a path: the nearest declaration whose scope covers
\* it, changed by the overrides at or below that declaration, the nearest last.
RuleOf(found, path, id) ==
    LET declares == {l \in Overlying(found, path) :
                       id \in DOMAIN l.rules /\ RelativeTo(l.directory, path) \in l.rules[id].glob}
        below(field) ==
          {l \in Overlying(found, path) :
             /\ id \in DOMAIN l.overrides /\ l.overrides[id][field] # NotSet
             /\ Len(l.directory) >= Len(Nearest(declares).directory)}
        value(field) ==
          IF below(field) = {} THEN Nearest(declares).rules[id][field]
          ELSE Nearest(below(field)).overrides[id][field]
    IN  IF declares = {} \/ value("enabled") # <<TRUE>> THEN NotSet ELSE value("severity")

RuleIsNearest(found, path, defaults, id) ==
    LET rules == ResolvePath(Layers(found), path, defaults).rules
    IN  RuleOf(found, path, id) = IF id \in DOMAIN rules THEN rules[id] ELSE NotSet

\* Every override has a rule to change, at or above it.
OverridesAreKnown(found) ==
    \A l \in found : \A id \in DOMAIN l.overrides :
      \E m \in found : IsDescendant(m.directory, l.directory) /\ id \in DOMAIN m.rules

\* The rules that resolve_review_policy enables for a path are the ones the
\* nearest declarations and overrides call for, and discovery accepts exactly
\* the policies in which every override has a rule to change.  (It does so
\* because no directory here sorts before ".diffuse": see ValidatedBefore.)
RulesResolve ==
    \A root \in RuleLayers(<<>>), dir \in RuleLayers(<<3>>), sub \in RuleLayers(<<3, 4>>) :
      LET found == {root, dir, sub}
      IN  /\ ValidRuleOverrides(found) <=> OverridesAreKnown(found)
          /\ RuleIsNearest(found, ThePath, Unset, 1)

\* No secret-shaped, untracked or irregular file becomes guidance, none is read
\* twice for one purpose, nothing else is left out, and what was read stays
\* within the limits (discover_repository_policy).
OnlyContext(entries, repo, other, limits) ==
    LET got == ContextFiles(entries, repo, other, limits)
    IN  ~got.raised =>
          /\ ToSet(got.value) = {e \in ToSet(entries) : e.path \notin repo.sensitive}
          /\ \A i \in DOMAIN got.value :
               /\ got.value[i].path \in (repo.tracked \ repo.sensitive) \cap repo.text
               /\ repo.size[got.value[i].path] <= limits.file
          /\ Len(got.value) = Cardinality(ToSet(got.value))
          /\ TotalSize(got.value, repo, other) <= limits.total

TheCheckout(text, size) ==
    [tracked |-> {"doc", "link", "key"}, sensitive |-> {"key"}, text |-> text,
     size |-> [p \in {"doc", "link", "key"} |-> size]]

ContextIsSafe ==
    \A entries \in BoundedSeq([directory : {<<>>}, path : {"doc", "link", "key", "gone"},
                               glob : {"all"}], 2),
       text \in SUBSET {"doc", "link"}, size \in 1..3, other \in 0..2 :
      OnlyContext(entries, TheCheckout(text, size), other, [file |-> 2, total |-> 4])

\* A prompt holds the whole header and a closing delimiter or nothing at all,
\* and never more than its budget (prompt_text).
PromptFits(header, body, closing, marker, max) ==
    LET got == PromptText(header, body, closing, marker, max)
    IN  /\ got.header + got.body + got.closing <= max
        /\ got.body > 0 => got.header > header /\ got.closing > closing
        /\ got.body <= body

PromptIsClosed ==
    \A header \in 1..3, body \in 0..6, max \in 1..20 : PromptFits(header, body, 2, 3, max)

TriggersWith(a, d, c, w, u, n) ==
    [DefaultTriggers EXCEPT !.automatic = a, !.review_drafts = d,
       !.wanted["labels"] = w, !.unwanted["labels"] = u, !.limit = n,
       !.status_check = c, !.blocking = IF c THEN {"low"} ELSE {"critical", "high"}]
SomeTriggers ==
    {TriggersWith(a, d, c, w, u, n) :
       a, d, c \in BOOLEAN, w \in {{}, {"x"}}, u \in {{}, {"y"}}, n \in {0, 1}}
SomePaths ==
    [enabled : {TRUE}, ignored : BOOLEAN,
     flags : {[f \in AnyFlags \union AllFlags \union GrantedFlags |-> b] : b \in BOOLEAN},
     triggers : {DefaultTriggers}]
SomePullRequests ==
    {[manual |-> FALSE, complete |-> TRUE, draft |-> d, update |-> TRUE, files |-> n,
      values |-> [f \in Filters |-> IF f = "labels" THEN labels ELSE {}]] :
       d \in BOOLEAN, n \in {1, 2}, labels \in SUBSET {"x", "y"}}

\* What all changed paths want, the merged triggers grant: a pull request that
\* every path's own triggers accept is reviewed.  What one path refuses by a
\* limit or an unwanted value, no other path grants; a value is only missing if
\* no path does without it; and a severity blocks if a path with a status check
\* says so.
TriggersMerge(paths, pr) ==
    LET policies == {p.triggers : p \in ReviewablePaths(paths)}
        merged == MergedTriggers(paths)
    IN  /\ (\A t \in policies : Eligible(t, pr)) => policies = {} \/ Eligible(merged, pr)
        /\ (~pr.manual /\ \E t \in policies :
              \/ t.limit # 0 /\ pr.files > t.limit
              \/ \E f \in Filters : pr.values[f] \intersect t.unwanted[f] # {})
             => ~Eligible(merged, pr)
        /\ \A f \in Filters : merged.wanted[f] # {} => \A t \in policies : t.wanted[f] # {}
        /\ (\E t \in policies : t.status_check) =>
             \A severity \in merged.blocking \union UNION {t.blocking : t \in policies} :
               severity \in merged.blocking <=>
                 \E t \in policies : t.status_check /\ severity \in t.blocking

TriggersAgree ==
    \A t, u \in SomeTriggers, pr \in SomePullRequests :
      LET path(x) == [enabled |-> TRUE, ignored |-> FALSE, flags |-> <<>>, triggers |-> x]
      IN  TriggersMerge({path(t), path(u)}, pr)

\* A path that is not reviewed has no say in what is shown for the others.
IgnoredHaveNoSay ==
    \A paths \in SUBSET SomePaths, flag \in AnyFlags \union AllFlags \union GrantedFlags :
      FlagOf(paths, flag) = FlagOf({p \in paths : ~p.ignored}, flag)

\* What the operator approved comes first, by number, and only where it
\* applies, what the repository has comes last; above the limit there is no
\* policy at all.
ApprovedFirst(own, items, path, max) ==
    LET got == Beneath(own, items, path, max)
        approved == {id \in DOMAIN items : path \in items[id]}
        k == Cardinality(approved)
    IN  /\ got.raised <=> Cardinality(DOMAIN items) > max
        /\ ~got.raised =>
             /\ Len(got.value) = k + Len(own)
             /\ \A i \in DOMAIN own : got.value[k + i] = own[i]
             /\ {got.value[i] : i \in 1..k} = approved
             /\ \A i, j \in 1..k : i < j => got.value[i] < got.value[j]

ApprovedBeneath ==
    \A items \in UNION {[ids -> {{}, {ThePath}}] : ids \in SUBSET {1, 2, 3}} :
      ApprovedFirst(<<7>>, items, ThePath, 2)

\* Resolution gives what the documentation of nested policies promises, for
\* one path and for all changed paths together.
PolicyResolved ==
    /\ SettingsResolve /\ RulesResolve /\ ContextIsSafe /\ PromptIsClosed
    /\ TriggersAgree /\ IgnoredHaveNoSay /\ ApprovedBeneath
=============================================================================
