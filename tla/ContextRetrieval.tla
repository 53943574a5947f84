-------------------------- MODULE ContextRetrieval --------------------------
(***************************************************************************)
(* Which code a review may be shown besides the diff                       *)
(* (repository/cross_repository.py, repository/retrieval/retrieve.py):     *)
(* operators cluster repositories, a plan names the snapshots that may be  *)
(* read for a repository, and what the searches find there is fused,       *)
(* ranked and cut.  No state: a table is a value, a transaction a function *)
(* of it.                                                                  *)
(*                                                                         *)
(* Repositories and chunks are numbers, in the order of their names; names *)
(* that differ in case only are one number.  `repos` maps the repositories *)
(* to [enabled, onboarded, host, snapshot]; snapshot 0 is none.            *)
(***************************************************************************)
EXTENDS SortedLists, SequencesExt

CONSTANTS
    MAX_RELATED_REPOSITORIES,  \* 7 in the code
    MAX_RETRIEVAL_CANDIDATES   \* 50 in the code

ASSUME RetrievalAssumption == MAX_RELATED_REPOSITORIES \in Nat /\ MAX_RETRIEVAL_CANDIDATES \in Nat

-----------------------------------------------------------------------------
(* Clusters: a function from cluster ids to sets of repositories.          *)

Related(clusters, r) == (UNION {clusters[c] : c \in {d \in DOMAIN clusters : r \in clusters[d]}}) \ {r}

WithinLimit(clusters, affected) ==
    \A r \in affected : Cardinality(Related(clusters, r)) <= MAX_RELATED_REPOSITORIES

CreateCluster(clusters, id, members, repos) ==
    LET after == [c \in DOMAIN clusters \union {id} |-> IF c = id THEN members ELSE clusters[c]]
    IN  IF \/ Cardinality(members) \notin 2..(MAX_RELATED_REPOSITORIES + 1)
           \/ \E r \in members : r \notin DOMAIN repos \/ ~repos[r].onboarded
           \/ \E r, s \in members : repos[r].host # repos[s].host
           \/ ~WithinLimit(after, members)
        THEN Raises ELSE Returns(after)

\* Faulty variant: only the added repository is looked at.
AddMemberAlone(clusters, id, r, repos) ==
    LET after == [clusters EXCEPT ![id] = @ \union {r}]
    IN  IF ~repos[r].onboarded \/ (\E s \in clusters[id] : repos[s].host # repos[r].host)
             \/ ~WithinLimit(after, {r})
        THEN Raises ELSE Returns(after)

\* Everyone who shares a cluster with the added repository may have gained one.
AddMember(clusters, id, r, repos) ==
    LET after == [clusters EXCEPT ![id] = @ \union {r}]
    IN  IF ~repos[r].onboarded \/ (\E s \in clusters[id] : repos[s].host # repos[r].host)
             \/ ~WithinLimit(after, Related(after, r) \union {r})
        THEN Raises ELSE Returns(after)

RemoveMember(clusters, id, r) ==
    IF r \notin clusters[id] THEN Returns(clusters)
    ELSE IF Cardinality(clusters[id]) <= 2 THEN Raises
    ELSE Returns([clusters EXCEPT ![id] = @ \ {r}])

DeleteCluster(clusters, id) == Returns([c \in DOMAIN clusters \ {id} |-> clusters[c]])

\* Clusters as the operations leave them: of two repositories or more that
\* share a host, and no repository is beside more than the limit.
ClustersSound(clusters, repos) ==
    /\ IsFiniteSet(DOMAIN clusters)
    /\ \A c \in DOMAIN clusters :
         /\ clusters[c] \subseteq DOMAIN repos /\ IsFiniteSet(clusters[c])
         /\ Cardinality(clusters[c]) >= 2
         /\ \A r, s \in clusters[c] : repos[r].host = repos[s].host
    /\ WithinLimit(clusters, DOMAIN repos)

\* What the operations can answer; a new cluster has a new id.
ClusterAnswers(clusters, repos, ids, groups) ==
    {CreateCluster(clusters, id, members, repos) : id \in ids \ DOMAIN clusters, members \in groups}
      \union {AddMember(clusters, id, r, repos) : id \in DOMAIN clusters, r \in DOMAIN repos}
      \union {RemoveMember(clusters, id, r) : id \in DOMAIN clusters, r \in DOMAIN repos}
      \union {DeleteCluster(clusters, id) : id \in DOMAIN clusters}

-----------------------------------------------------------------------------
(* The plan.  An entry is [repository, snapshot, source, clusters].        *)

Entry(clusters, repos, primary, r, source) ==
    [repository |-> r, snapshot |-> repos[r].snapshot, source |-> source,
     clusters |-> {c \in DOMAIN clusters : {r, primary} \subseteq clusters[c]}]

\* Faulty variant: whatever is named and enabled may be read.
TargetsNamed(clusters, repos, primary, explicit) ==
    {r \in Related(clusters, primary) \union ToSet(explicit) : repos[r].enabled}

\* cluster_targets: the repositories an operator has put beside the primary.
Targets(clusters, repos, primary, explicit) ==
    {r \in Related(clusters, primary) : repos[r].enabled}

\* resolve_cross_repository_context; `compatible`: the review's own snapshot, if
\* it has one, is the primary's and of this index format; `explicit` are the
\* repositories that the policy names.  A name without a cluster is dropped,
\* any other trouble with a name refuses the plan.
ResolveContext(clusters, repos, primary, compatible, explicit) ==
    LET targets == Targets(clusters, repos, primary, explicit)
        refused(r) ==
          \/ r = primary
          \/ r \notin DOMAIN repos
          \/ ~repos[r].enabled \/ ~repos[r].onboarded \/ repos[r].host # repos[primary].host
          \/ r \in targets /\ repos[r].snapshot = 0
        named == Picked(explicit, {i \in DOMAIN explicit : explicit[i] \in targets})
        others == Increasing({r \in targets \ ToSet(explicit) : repos[r].snapshot # 0})
        plan == [i \in DOMAIN named |->
                   Entry(clusters, repos, primary, named[i], "explicit+cluster")]
                  \o [i \in DOMAIN others |-> Entry(clusters, repos, primary, others[i], "cluster")]
    IN  IF \/ Len(explicit) > MAX_RELATED_REPOSITORIES
           \/ \E i, j \in DOMAIN explicit : i # j /\ explicit[i] = explicit[j]
           \/ ~repos[primary].enabled \/ ~compatible
           \/ \E r \in Related(clusters, primary) : repos[r].host # repos[primary].host
           \/ \E i \in DOMAIN explicit : refused(explicit[i])
           \/ Len(plan) > MAX_RELATED_REPOSITORIES
        THEN Raises
        ELSE Returns([related |-> plan,
                      dropped |-> Picked(explicit, {i \in DOMAIN explicit : explicit[i] \notin targets})])

-----------------------------------------------------------------------------
(* Retrieval.  A row is [repository, chunk, rank]: rank is the lexical     *)
(* rank, 0 for a row of the graph.                                         *)

RRF_OFFSET == 20
\* Twentieths: 3 and 1.8, three quarters of it for another repository.
CHANNEL_WEIGHTS == [graph |-> 60, lexical |-> 36]
Weight(channel, cross) == IF cross THEN (CHANNEL_WEIGHTS[channel] * 3) \div 4 ELSE CHANNEL_WEIGHTS[channel]
\* A common multiple of RRF_OFFSET + 1 .. RRF_OFFSET + 4, so that shares are exact.
Denominator == 21 * 22 * 23 * 4

KeyOf(row) == <<row.repository, row.chunk>>
KeysOf(rows) == {KeyOf(rows[i]) : i \in DOMAIN rows}
Places(rows, key) == {i \in DOMAIN rows : KeyOf(rows[i]) = key}

\* What the places of a chunk in a list are worth.
Worth(rows, channel, key, primary, i) ==
    IF KeyOf(rows[i]) # key THEN 0
    ELSE Weight(channel, key[1] # primary) * (Denominator \div (RRF_OFFSET + i))

Share(rows, channel, key, primary) ==
    SumOf([i \in DOMAIN rows |-> Worth(rows, channel, key, primary, i)])

Outranks(score, best, k, l) ==
    \/ score[k] > score[l]
    \/ score[k] = score[l] /\ best[k] < best[l]
    \/ /\ score[k] = score[l] /\ best[k] = best[l]
       /\ k[1] < l[1] \/ (k[1] = l[1] /\ k[2] < l[2])

\* _fuse_candidates: the keys of the best chunks.
FuseCandidates(graph, lexical, primary, topK) ==
    LET keys == KeysOf(graph) \union KeysOf(lexical)
        score == [k \in keys |-> Share(graph, "graph", k, primary) + Share(lexical, "lexical", k, primary)]
        best == [k \in keys |-> Min(Places(graph, k) \union Places(lexical, k))]
    IN  UpTo(topK, Sorted(keys, {pair \in keys \X keys : Outranks(score, best, pair[1], pair[2])}))

\* retrieve_context_from_plan: `graph` and `lexical` map the repositories to
\* what a search of their snapshots finds, best first; the graph is searched
\* in the primary only, and the changed chunks are no lexical matches there.
\* A primary without a snapshot finds nothing.
SearchLimit(topK) == Least(MAX_RETRIEVAL_CANDIDATES, 3 * topK)

GraphCandidates(graph, primary, topK) ==
    UpTo(MAX_RETRIEVAL_CANDIDATES, UpTo(SearchLimit(topK), graph[primary]))

Searched(lexical, primary, changed, topK, r) ==
    UpTo(SearchLimit(topK),
         IF r # primary THEN lexical[r]
         ELSE Picked(lexical[r], {i \in DOMAIN lexical[r] : lexical[r][i].chunk \notin changed}))

RankedBefore(x, y) ==
    \/ x.rank > y.rank
    \/ x.rank = y.rank /\ x.repository < y.repository
    \/ x.rank = y.rank /\ x.repository = y.repository /\ x.chunk < y.chunk

LexicalCandidates(lexical, primary, related, changed, topK) ==
    LET all == UNION {ToSet(Searched(lexical, primary, changed, topK, r)) : r \in {primary} \union related}
    IN  UpTo(MAX_RETRIEVAL_CANDIDATES,
             Sorted(all, {pair \in all \X all : RankedBefore(pair[1], pair[2])}))

RetrieveFromPlan(graph, lexical, primary, related, changed, topK) ==
    FuseCandidates(GraphCandidates(graph, primary, topK),
                   LexicalCandidates(lexical, primary, related, changed, topK), primary, topK)

\* format_as_extra_instructions, in characters: blocks are [header, content],
\* the answer is how much of each is shown.  A block is begun if its header
\* leaves room; its content may be cut, for a notice of that length.
BlockSize(block, room, truncation) ==
    block.header + (IF block.content <= room - block.header THEN block.content
                    ELSE Most(0, room - block.header - truncation) + truncation)

Begins(block, room) == room > 1 /\ block.header < room

FormatContext(blocks, introduction, truncation, max) ==
    LET room[n \in 0..Len(blocks)] ==
          IF n = 0 THEN max - introduction
          ELSE room[n - 1] - BlockSize(blocks[n], room[n - 1], truncation)
        begun == {n \in 1..Len(blocks) : \A i \in 1..n : Begins(blocks[i], room[i - 1])}
    IN  [n \in begun |-> Least(BlockSize(blocks[n], room[n - 1], truncation), room[n - 1])]

-----------------------------------------------------------------------------
(* Bounded inputs: four repositories, two clusters.                        *)

Repos == 1..4
Usable == [enabled |-> TRUE, onboarded |-> TRUE, host |-> "h", snapshot |-> 1]
SomeRepos ==
    {[r \in Repos |-> IF r = 3 THEN three ELSE IF r = 4 THEN four ELSE Usable] :
       three \in {Usable, [Usable EXCEPT !.enabled = FALSE], [Usable EXCEPT !.snapshot = 0]},
       four \in {Usable, [Usable EXCEPT !.host = "other"]}}
Members == {M \in SUBSET Repos : Cardinality(M) >= 2}
SomeClusters(repos) ==
    {clusters \in UNION {[C -> Members] : C \in SUBSET {1, 2}} : ClustersSound(clusters, repos)}

\* Operators cannot expose more repositories to one than its reviews can be
\* planned with: every cluster operation that is accepted leaves each
\* repository within the limit, so no plan is refused for being too long.
LimitKept ==
    \A repos \in SomeRepos : \A clusters \in SomeClusters(repos) :
      \A got \in ClusterAnswers(clusters, repos, {1, 2, 3}, Members) :
        ~got.raised =>
          /\ ClustersSound(got.value, repos)
          /\ \A r \in {s \in Repos : repos[s].enabled} : ~ResolveContext(got.value, repos, r, TRUE, <<>>).raised

\* Names in a policy; 9 is not the name of a repository.
Explicits == BoundedSeq(Repos \union {9}, 2)

\* What a policy names grants nothing: with or without names, exactly the
\* enabled cluster mates with a snapshot are read, each once, those that were
\* named first, and a name outside the clusters is dropped and reported.
Authorized(clusters, repos, primary, compatible, explicit) ==
    LET got == ResolveContext(clusters, repos, primary, compatible, explicit)
        related == got.value.related
        mates == {r \in Related(clusters, primary) : repos[r].enabled /\ repos[r].snapshot # 0}
    IN  ~got.raised =>
          /\ {related[i].repository : i \in DOMAIN related} = mates
          /\ \A i, j \in DOMAIN related : related[i].repository = related[j].repository => i = j
          /\ \A i \in DOMAIN related :
               /\ related[i].clusters # {}
               /\ related[i].snapshot = repos[related[i].repository].snapshot
          /\ \A i, j \in DOMAIN related :
               related[i].source = "cluster" /\ related[j].source # "cluster" => j < i
          /\ ToSet(got.value.dropped) = ToSet(explicit) \ mates

PlanIsAuthorized ==
    \A repos \in SomeRepos : \A clusters \in SomeClusters(repos), explicit \in Explicits :
      Authorized(clusters, repos, 1, TRUE, explicit)

Row(r, c, n) == [repository |-> r, chunk |-> c, rank |-> n]
GraphRows == UNION {[1..n -> {Row(1, c, 0) : c \in 1..3}] : n \in 0..2}
LexicalRows(r) == {<<>>} \union {<<Row(r, c, n)>> : c \in 1..2, n \in 1..2}
                         \union {<<Row(r, c, 2), Row(r, 3 - c, n)>> : c \in 1..2, n \in 1..2}

\* The rows that searches of the plan's snapshots may give to a review.
Offered(lexical, primary, related, changed) ==
    {row \in UNION {ToSet(lexical[r]) : r \in {primary} \union related} :
       row.repository = primary => row.chunk \notin changed}

\* What is retrieved is found in a snapshot of the plan, no chunk twice, as many
\* as were asked for if there are; a changed chunk comes from the graph only;
\* nothing is lost to the limits of the searches if they find few; and no chunk
\* that the graph does not know, whichever repository it is of, displaces one
\* of the primary with a better lexical rank.
Fairly(graph, lexical, primary, related, changed, topK) ==
    LET got == RetrieveFromPlan(graph, lexical, primary, related, changed, topK)
        near == GraphCandidates(graph, primary, topK)
        matches == LexicalCandidates(lexical, primary, related, changed, topK)
        keys == KeysOf(near) \union KeysOf(matches)
        offered == Offered(lexical, primary, related, changed)
    IN  /\ ToSet(near) \subseteq ToSet(graph[primary]) /\ ToSet(matches) \subseteq offered
        /\ (/\ \A r \in {primary} \union related : Len(lexical[r]) <= SearchLimit(topK)
            /\ Cardinality(offered) <= MAX_RETRIEVAL_CANDIDATES) => offered \subseteq ToSet(matches)
        /\ ToSet(got) \subseteq keys /\ Len(got) = Least(topK, Cardinality(keys))
        /\ \A i, j \in DOMAIN got : got[i] = got[j] => i = j
        /\ \A k \in keys \ ToSet(got), l \in ToSet(got) :
             ~ /\ Places(near, l) = {} /\ k[1] = primary
               /\ \E x \in ToSet(matches) :
                    KeyOf(x) = k /\ \A y \in ToSet(matches) : KeyOf(y) = l => y.rank < x.rank

RetrievedFairly ==
    \A graph \in GraphRows, mine \in LexicalRows(1), theirs \in LexicalRows(2),
       related \in {{}, {2}}, changed \in {{}, {1}}, topK \in 1..2 :
      Fairly(<<graph, <<>>>>, <<mine, theirs>>, 1, related, changed, topK)

\* Every block that is shown, but the last, is shown whole, and together they
\* fit the budget.
FitsIn(blocks, introduction, truncation, max) ==
    LET shown == FormatContext(blocks, introduction, truncation, max)
    IN  /\ shown # <<>> => introduction + SumOf(shown) <= max
        /\ \A i \in 1..(Len(shown) - 1) : shown[i] = blocks[i].header + blocks[i].content

ContextFits ==
    \A blocks \in BoundedSeq([header : {2, 3}, content : {0, 3, 6}], 3), max \in 1..20 :
      FitsIn(blocks, 2, 3, max)

\* A review reads what an operator allowed, and ranks it fairly.
ContextIsGranted == LimitKept /\ PlanIsAuthorized /\ RetrievedFairly /\ ContextFits
=============================================================================
