------------------------------- MODULE Scopes -------------------------------
(***************************************************************************)
(* The scopes of two tasks: which paths a pattern names, and the           *)
(* conservative comparison of two scopes that keeps a task waiting.        *)
(*                                                                         *)
(* A path is a sequence of characters, few of which matter: "/" and some   *)
(* letters.  A pattern may also hold "*", "**" (one token) and "?".  A     *)
(* scope is a set of patterns; the code's list has no order that matters.  *)
(***************************************************************************)
EXTENDS Naturals, Sequences, SequencesExt

Wild == {"*", "**", "?"}
IsGlob(pattern) == \E i \in DOMAIN pattern : pattern[i] \in Wild

(* globToRegExp, as the matching it compiles to: "*" and "?" stop at a slash,
   "**" does not, and it swallows the slash that follows it. *)
Matches(glob, path) ==
  LET G == Len(glob)
      P == Len(path)
      Past(i) == IF i < G /\ glob[i + 1] = "/" THEN i + 2 ELSE i + 1
      rest[i \in 1..G + 1] == [j \in 1..P + 1 |->
        \/ i > G /\ j > P
        \/ /\ i <= G /\ glob[i] = "**"
           /\ \E k \in j..P + 1 : rest[Past(i)][k]
        \/ /\ i <= G /\ glob[i] = "*"
           /\ \E k \in j..P + 1 : /\ \A n \in j..k - 1 : path[n] # "/"
                                  /\ rest[i + 1][k]
        \/ /\ i <= G /\ j <= P
           /\ glob[i] = path[j] \/ (glob[i] = "?" /\ path[j] # "/")
           /\ rest[i + 1][j + 1]]
  IN  rest[1][1]

(* The part of a pattern before its first wildcard. *)
LiteralPrefix(glob) ==
  LET before == {i \in 0..Len(glob) : ~IsGlob(SubSeq(glob, 1, i))}
  IN  SubSeq(glob, 1, CHOOSE i \in before : \A j \in before : j <= i)

Below(dir) == Append(dir, "/")

LiteralsOverlap(x, y) == x = y \/ IsPrefix(Below(y), x) \/ IsPrefix(Below(x), y)

GlobOverlaps(glob, y) ==
  Matches(glob, y) \/ IsPrefix(LiteralPrefix(glob), y) \/ IsPrefix(Below(y), LiteralPrefix(glob))

GlobsOverlap(x, y) ==
  \/ IsPrefix(LiteralPrefix(x), LiteralPrefix(y))
  \/ IsPrefix(LiteralPrefix(y), LiteralPrefix(x))

PatternsOverlap(x, y) ==
  \/ ~IsGlob(x) /\ ~IsGlob(y) /\ LiteralsOverlap(x, y)
  \/ IsGlob(x) /\ ~IsGlob(y) /\ GlobOverlaps(x, y)
  \/ ~IsGlob(x) /\ IsGlob(y) /\ GlobOverlaps(y, x)
  \/ IsGlob(x) /\ IsGlob(y) /\ GlobsOverlap(x, y)

ScopesOverlap(a, b) == \E x \in a, y \in b : PatternsOverlap(x, y)

(* Mistaken: a task without a scope names nothing. *)
ScopeAsGiven(scope) == scope

(* A task without a scope works anywhere. *)
EffectiveScope(scope) == IF scope = {} THEN {<<"**">>} ELSE scope

-----------------------------------------------------------------------------
(* What the comparison is for: a pattern names the paths that match it and   *)
(* everything below them.                                                    *)

Names(pattern, path) ==
  \E i \in 1..Len(path) :
    /\ i = Len(path) \/ path[i + 1] = "/"
    /\ Matches(pattern, SubSeq(path, 1, i))

NamesIn(scope, path) == scope = {} \/ \E x \in scope : Names(x, path)

(* Sequences of at most n tokens that a path or a pattern may be: parseScope
   strips slashes at the end and refuses one at the start. *)
WordsOver(tokens, n) ==
  {w \in UNION {[1..k -> tokens] : k \in 1..n} :
     /\ w[1] # "/" /\ w[Len(w)] # "/"
     /\ \A i \in 1..Len(w) - 1 : <<w[i], w[i + 1]>> # <<"/", "/">>}

SomePaths == WordsOver({"a", "b", "/"}, 4)
SomePatterns == WordsOver({"a", "b", "/"} \cup Wild, 3)

(* The comparison is conservative: two patterns that both name some path
   overlap, whatever their form. *)
ASSUME OverlapIsConservative ==
  LET named == [x \in SomePatterns |-> {p \in SomePaths : Names(x, p)}]
  IN  \A x, y \in SomePatterns : named[x] \cap named[y] # {} => PatternsOverlap(x, y)

=============================================================================
