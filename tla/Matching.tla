------------------------------ MODULE Matching ------------------------------
(***************************************************************************)
(* The two meanings of an ingress filter (filters.py): the match on the    *)
(* hot path, and the SQL predicate that previews and purges what is stored.*)
(* A text is a sequence of characters; regular expressions are left out.   *)
(***************************************************************************)
EXTENDS Naturals, Sequences, SequencesExt, Loops

\* str.casefold and lower(), on the letters that the runs use: "sz" is the sharp
\* s, which folds to two letters and is its own lower case.
CasefoldChar(c) ==
  CASE c = "A" -> <<"a">> [] c = "S" -> <<"s">> [] c = "sz" -> <<"s", "s">> [] OTHER -> <<c>>
LowerChar(c) == CASE c = "A" -> <<"a">> [] c = "S" -> <<"s">> [] OTHER -> <<c>>

Casefold(text) == FlattenSeq([i \in DOMAIN text |-> CasefoldChar(text[i])])
Lower(text) == FlattenSeq([i \in DOMAIN text |-> LowerChar(text[i])])

Within(text, part) ==
  \E i \in 0 .. Len(text) - Len(part) : SubSeq(text, i + 1, i + Len(part)) = part

\* matches
LiveMatch(pattern, sensitive, body) ==
  IF sensitive THEN Within(body, pattern)
  ELSE Within(Casefold(body), Casefold(pattern))

\* historical_predicate, strpos
SqlMatch(pattern, sensitive, body) ==
  IF sensitive THEN Within(body, pattern)
  ELSE Within(Lower(body), Lower(pattern))

(***************************************************************************)
(* Globs.  A pattern means a sequence of tokens: <<"any">>, <<"one">>, or  *)
(* <<"is", c>>.                                                            *)
(***************************************************************************)

MatchTokens(tokens, text) ==
  LET m[i \in 0 .. Len(tokens), j \in 0 .. Len(text)] ==
        IF i = 0 THEN j = 0
        ELSE IF tokens[i] = <<"any">> THEN m[i - 1, j] \/ (j > 0 /\ m[i, j - 1])
        ELSE j > 0 /\ m[i - 1, j - 1] /\ tokens[i] \in {<<"one">>, <<"is", text[j]>>}
  IN m[Len(tokens), Len(text)]

\* What a character means where two of them are wildcards.
Token(c, any, one) ==
  IF c = any THEN <<"any">> ELSE IF c = one THEN <<"one">> ELSE <<"is", c>>

\* fnmatchcase, without the brackets, which _clean_glob refuses
GlobTokens(glob) == [i \in DOMAIN glob |-> Token(glob[i], "*", "?")]

GlobMatch(glob, text) == MatchTokens(GlobTokens(glob), text)

\* A bug: only the wildcards are translated, as in the judge's scope.
BugLikePattern(glob) ==
  [i \in DOMAIN glob |->
     CASE glob[i] = "*" -> "%" [] glob[i] = "?" -> "_" [] OTHER -> glob[i]]

\* _like_glob_clause
LikeChar(c) ==
  IF c \in {"%", "_", "\\"} THEN <<"\\", c>>
  ELSE IF c = "*" THEN <<"%">> ELSE IF c = "?" THEN <<"_">> ELSE <<c>>

LikePattern(glob) == FlattenSeq([i \in DOMAIN glob |-> LikeChar(glob[i])])

\* LIKE ... ESCAPE '\': what the characters read so far mean, and whether the
\* last of them escapes the next.
ReadLike(read, c) ==
  IF c = "\\" /\ ~read.escape THEN [tokens |-> read.tokens, escape |-> TRUE]
  ELSE [tokens |-> Append(read.tokens, IF read.escape THEN <<"is", c>> ELSE Token(c, "%", "_")),
        escape |-> FALSE]

LikeTokens(like) == ForEach(ReadLike, [tokens |-> <<>>, escape |-> FALSE], like).tokens

LikeMatch(glob, text) == MatchTokens(LikeTokens(LikePattern(glob)), text)
=============================================================================
