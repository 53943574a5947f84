----------------------------- MODULE PathGlobs -----------------------------
(***************************************************************************)
(* The glob matcher of review policies (repository/policy/resolve.py):     *)
(* path globs (`**/`, `**`, `*`, `?`) scope rules, guidance and ignored    *)
(* paths; filter globs (`**`, `*`, `?`, `{a,b}`) select labels, authors    *)
(* and branches without regard to case.  A pattern is not translated into  *)
(* a regular expression: the set of offsets it can have reached is carried *)
(* through its tokens, adjacent wildcards are folded into one.             *)
(*                                                                         *)
(* A text is a sequence of characters, an offset counts those consumed.    *)
(***************************************************************************)
EXTENDS SortedLists, SequencesExt, FiniteSetsExt

Wild(kind) == [kind |-> kind, char |-> "", branches |-> <<>>]
Char(c) == [kind |-> "char", char |-> c, branches |-> <<>>]
Choice(branches) == [kind |-> "choice", char |-> "", branches |-> branches]

\* _ABSORBED_WILDCARDS: the one wildcard two adjacent ones amount to.
Absorbed(left, right) ==
    IF {left, right} = {"segment"} THEN "segment"
    ELSE IF {left, right} = {"any_dir"} THEN "any_dir"
    ELSE IF "any" \in {left, right} /\ {left, right} \subseteq {"segment", "any", "any_dir"}
      THEN "any"
    ELSE "none"

AppendToken(tokens, token) ==
    LET absorbed == IF tokens = <<>> THEN "none" ELSE Absorbed(Last(tokens).kind, token.kind)
    IN  IF absorbed = "none" THEN Append(tokens, token)
        ELSE [tokens EXCEPT ![Len(tokens)] = Wild(absorbed)]

Folded(tokens) ==
    LET upTo[n \in 0..Len(tokens)] ==
          IF n = 0 THEN <<>> ELSE AppendToken(upTo[n - 1], tokens[n])
    IN  upTo[Len(tokens)]

-----------------------------------------------------------------------------
(* The tokens of a pattern, one by one, before they are folded.            *)

CharAt(pattern, i, c) == i <= Len(pattern) /\ pattern[i] = c

\* The token at i and how many characters it takes; only path globs know `**/`.
TokenAt(pattern, i, dirs) ==
    IF CharAt(pattern, i, "*") /\ CharAt(pattern, i + 1, "*")
      THEN IF dirs /\ CharAt(pattern, i + 2, "/") THEN [token |-> Wild("any_dir"), width |-> 3]
           ELSE [token |-> Wild("any"), width |-> 2]
    ELSE [token |-> IF pattern[i] = "*" THEN Wild("segment")
                    ELSE IF pattern[i] = "?" THEN Wild("single") ELSE Char(pattern[i]),
          width |-> 1]

PlainTokens(pattern, dirs) ==
    LET from[i \in 1..(Len(pattern) + 1)] ==
          IF i > Len(pattern) THEN <<>>
          ELSE LET t == TokenAt(pattern, i, dirs) IN <<t.token>> \o from[i + t.width]
    IN  from[1]

PathTokens(pattern) == PlainTokens(pattern, TRUE)
\* A branch of a choice holds no closing brace, hence no choice.
BranchTokens(pattern) == PlainTokens(pattern, FALSE)

\* What stands between an opening brace at i and the next closing one, cut at
\* the commas; <<>> if nothing closes it.
BraceParts(pattern, i) ==
    LET closing == {e \in (i + 1)..Len(pattern) : pattern[e] = "}"}
        cuts == {i, Min(closing)} \union {c \in i..Min(closing) : pattern[c] = ","}
        at == Increasing(cuts)
    IN  IF closing = {} THEN <<>>
        ELSE [n \in 1..(Len(at) - 1) |-> SubSeq(pattern, at[n] + 1, at[n + 1] - 1)]

IsChoice(pattern, i) ==
    /\ pattern[i] = "{"
    /\ Len(BraceParts(pattern, i)) \in 2..16
    /\ <<>> \notin ToSet(BraceParts(pattern, i))

AfterBrace(pattern, i) == 1 + Min({e \in (i + 1)..Len(pattern) : pattern[e] = "}"})

FilterTokens(pattern) ==
    LET from[i \in 1..(Len(pattern) + 1)] ==
          IF i > Len(pattern) THEN <<>>
          ELSE IF IsChoice(pattern, i)
            THEN LET parts == BraceParts(pattern, i)
                 IN  <<Choice([n \in DOMAIN parts |-> BranchTokens(parts[n])])>>
                       \o from[AfterBrace(pattern, i)]
          ELSE LET t == TokenAt(pattern, i, FALSE) IN <<t.token>> \o from[i + t.width]
    IN  from[1]

-----------------------------------------------------------------------------
(* Matching.                                                               *)

\* The characters of the instances; `A` and `a` differ in case only.
Lower(c) == IF c = "A" THEN "a" ELSE c
Same(c, d, ignoreCase) == IF ignoreCase THEN Lower(c) = Lower(d) ELSE c = d

\* Faulty variant: the separator itself ends the run only after it was consumed.
AdvanceOverSeparator(text, reachable) ==
    {k \in 0..Len(text) : \E j \in reachable : j <= k /\ \A l \in (j + 2)..k : text[l] # "/"}

\* `*` consumes anything up to the next separator.
AdvanceWithinSegment(text, reachable) ==
    {k \in 0..Len(text) : \E j \in reachable : j <= k /\ \A l \in (j + 1)..k : text[l] # "/"}

AdvancePlain(token, text, reachable, ignoreCase) ==
    CASE reachable = {} -> {}
      [] reachable # {} /\ token.kind = "char" ->
           {j + 1 : j \in {i \in reachable : i < Len(text)
                                               /\ Same(text[i + 1], token.char, ignoreCase)}}
      [] reachable # {} /\ token.kind = "single" ->
           {j + 1 : j \in {i \in reachable : i < Len(text) /\ text[i + 1] # "/"}}
      [] reachable # {} /\ token.kind = "segment" -> AdvanceWithinSegment(text, reachable)
      [] reachable # {} /\ token.kind = "any" -> Min(reachable)..Len(text)
      [] reachable # {} /\ token.kind = "any_dir" ->
           reachable \union {k \in (Min(reachable) + 1)..Len(text) : text[k] = "/"}

AdvanceBranch(tokens, text, reachable, ignoreCase) ==
    LET after[n \in 0..Len(tokens)] ==
          IF n = 0 THEN reachable ELSE AdvancePlain(tokens[n], text, after[n - 1], ignoreCase)
    IN  after[Len(tokens)]

Advance(tokens, text, reachable, ignoreCase) ==
    LET over(t, r) ==
          IF t.kind # "choice" THEN AdvancePlain(t, text, r, ignoreCase)
          ELSE UNION {AdvanceBranch(Folded(b), text, r, ignoreCase) : b \in ToSet(t.branches)}
        after[n \in 0..Len(tokens)] ==
          IF n = 0 THEN reachable ELSE over(tokens[n], after[n - 1])
    IN  after[Len(tokens)]

\* A pattern for a directory is one for everything beneath it.
Closed(pattern) ==
    IF pattern # <<>> /\ Last(pattern) = "/" THEN pattern \o <<"*", "*">> ELSE pattern

PathMatches(pattern, path) ==
    Len(path) \in Advance(Folded(PathTokens(Closed(pattern))), path, {0}, FALSE)

FilterMatches(pattern, value) ==
    Len(value) \in Advance(Folded(FilterTokens(pattern)), value, {0}, TRUE)

-----------------------------------------------------------------------------
(* What a pattern means: the text can be cut so that each token, as it     *)
(* stands in the pattern, covers its piece.                                *)

Covers(token, text, j, k, ignoreCase) ==
    CASE token.kind = "char" -> k = j + 1 /\ Same(text[k], token.char, ignoreCase)
      [] token.kind = "single" -> k = j + 1 /\ text[k] # "/"
      [] token.kind = "segment" -> "/" \notin ToSet(SubSeq(text, j + 1, k))
      [] token.kind = "any" -> TRUE
      [] token.kind = "any_dir" -> k = j \/ text[k] = "/"

\* The offsets at which the tokens from i on cover the rest of the text, i = 1
\* for all of them.  Choices are written out: the meaning of `x{a,b}y` is that of
\* `xay` or `xby`.
Spelled(tokens, text, ignoreCase) ==
    LET spells[i \in 1..(Len(tokens) + 1)] ==
          IF i > Len(tokens) THEN {Len(text)}
          ELSE LET rest == spells[i + 1]
               IN  {j \in 0..Len(text) : \E k \in rest :
                      j <= k /\ Covers(tokens[i], text, j, k, ignoreCase)}
    IN  0 \in spells[1]

WrittenOut(tokens) ==
    LET upTo[n \in 0..Len(tokens)] ==
          IF n = 0 THEN {<<>>}
          ELSE IF tokens[n].kind # "choice" THEN {Append(s, tokens[n]) : s \in upTo[n - 1]}
          ELSE {s \o b : s \in upTo[n - 1], b \in ToSet(tokens[n].branches)}
    IN  upTo[Len(tokens)]

PathIsSpelled(pattern, path) == Spelled(PathTokens(Closed(pattern)), path, FALSE)
FilterIsSpelled(pattern, value) ==
    \E tokens \in WrittenOut(FilterTokens(pattern)) : Spelled(tokens, value, TRUE)

Texts(letters, n) == UNION {[1..m -> letters] : m \in 0..n}

\* Path globs, and filter globs with a choice that may be well formed or not.
PathPatterns == Texts({"a", "/", "*", "?"}, 5)
Braced(s, x, y, t) == s \o <<"{">> \o x \o <<",">> \o y \o <<"}">> \o t
Pieces == Texts({"a", "*"}, 1)
Unbraced == Texts({"a", "*", "{", "}"}, 3)
FilterPatterns == {Braced(s, x, y, t) : s, x, y, t \in Pieces} \union Unbraced

\* The offset-set simulation of resolve.py, with adjacent wildcards folded,
\* finds exactly the paths and values a pattern spells: no pattern matches
\* more, or less, than it says (a rule that applies to a directory it was not
\* written for, an ignored path that is reviewed).
GlobsMatch ==
    /\ \A pattern \in PathPatterns, path \in Texts({"a", "/"}, 4) :
         PathMatches(pattern, path) <=> PathIsSpelled(pattern, path)
    /\ \A pattern \in FilterPatterns, value \in Texts({"a", "A", "/"}, 2) :
         FilterMatches(pattern, value) <=> FilterIsSpelled(pattern, value)
=============================================================================
