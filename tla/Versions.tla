------------------------------- MODULE Versions -------------------------------
(***************************************************************************)
(* Versions and ranges of versions (semver.ts).  A version is written with *)
(* all its parts, as normalizeVersion() leaves it: [main |-> three numbers, *)
(* pre |-> identifiers], an identifier being [numeric |-> BOOLEAN, rank].   *)
(* A range is a sequence of alternatives (its parts between "||"), each a   *)
(* sequence of words [op, version], where None is text that is no version: a *)
(* word without an operator has op "none" when it starts as a full version   *)
(* does, and is Text when it does not.                                     *)
(***************************************************************************)
EXTENDS Integers, Sequences

CONSTANT None

Version == [main : Nat \X Nat \X Nat, pre : Seq([numeric : BOOLEAN, rank : Nat])]
Text == [op |-> "text", version |-> None]
Words == [op : {"none", "^", "~", "=", ">", ">=", "<", "<="}, version : Version \cup {None}] \cup {Text}

\* The first position at which two sequences of one length differ, or 0.
FirstDifference(s, t) ==
  LET differ == {i \in 1 .. Len(s) : s[i] # t[i]}
  IN IF differ = {} THEN 0 ELSE CHOOSE i \in differ : \A j \in differ : i <= j

IdentifierBelow(a, b) ==
  IF a.numeric = b.numeric THEN a.rank < b.rank ELSE a.numeric

\* comparePrerelease(a, b) < 0: no prerelease is above any, a prefix below the rest.
PrereleaseBelow(a, b) ==
  LET shared == IF Len(a) < Len(b) THEN Len(a) ELSE Len(b)
      i == FirstDifference(SubSeq(a, 1, shared), SubSeq(b, 1, shared))
  IN IF a = <<>> \/ b = <<>> THEN a # <<>> /\ b = <<>>
     ELSE IF i = 0 THEN Len(a) < Len(b) ELSE IdentifierBelow(a[i], b[i])

\* compareSemVer(v, w) < 0
Below(v, w) ==
  LET i == FirstDifference(v.main, w.main)
  IN IF i = 0 THEN PrereleaseBelow(v.pre, w.pre) ELSE v.main[i] < w.main[i]

MatchesComparator(v, c) ==
  CASE c.op = "=" -> v = c.version
    [] c.op = ">" -> Below(c.version, v)
    [] c.op = ">=" -> ~Below(v, c.version)
    [] c.op = "<" -> Below(v, c.version)
    [] c.op = "<=" -> ~Below(c.version, v)

Release(major, minor, patch) == [main |-> <<major, minor, patch>>, pre |-> <<>>]

From(version, limit) == {[op |-> ">=", version |-> version], [op |-> "<", version |-> limit]}

\* Mutant: a major of 0 gets no treatment of its own.
CaretByMajor(v) == From(v, Release(v.main[1] + 1, 0, 0))

CaretRange(v) ==
  CASE v.main[1] > 0 -> From(v, Release(v.main[1] + 1, 0, 0))
    [] v.main[1] = 0 /\ v.main[2] > 0 -> From(v, Release(0, v.main[2] + 1, 0))
    [] OTHER -> From(v, Release(0, 0, v.main[3] + 1))

TildeRange(v) == From(v, Release(v.main[1], v.main[2] + 1, 0))

\* parseComparator(): no operator stands for "=", a prerelease may have one
\* identifier only, and ^ and ~ are no comparators.
ParseComparator(word) ==
  IF word.version = None \/ word.op \in {"^", "~"} \/ Len(word.version.pre) > 1 THEN {}
  ELSE {[op |-> IF word.op = "none" THEN "=" ELSE word.op, version |-> word.version]}

\* parseRange() of one alternative: the comparators that could be read.  When
\* none could, the set is empty, as it is for "*".
ParseRange(words) ==
  IF words = <<>> THEN {}
  ELSE LET first == words[1]
           whole == Len(words) = 1 /\ first.version # None
       IN CASE first.op = "^" -> IF whole THEN CaretRange(first.version) ELSE {}
            [] first.op = "~" -> IF whole THEN TildeRange(first.version) ELSE {}
            [] first.op = "none" ->
                 IF whole THEN {[op |-> "=", version |-> first.version]} ELSE {}
            [] OTHER -> UNION {ParseComparator(words[i]) : i \in DOMAIN words}

Satisfies(version, range) ==
  /\ version # None
  /\ \E i \in DOMAIN range : \A c \in ParseRange(range[i]) : MatchesComparator(version, c)

-----------------------------------------------------------------------------
(* What the comments and the specification say of ranges.                  *)

Readable(words) ==
  /\ \A i \in DOMAIN words :
       /\ words[i].version # None
       /\ words[i].op \notin {"none", "^", "~"} => Len(words[i].version.pre) <= 1
  /\ Len(words) > 1 => \A i \in DOMAIN words : words[i].op \notin {"none", "^", "~"}

\* Nothing that a caret or a tilde holds fixed differs: the numbers up to the
\* first that is not 0, or up to the minor.
SameUpTo(v, w, n) == SubSeq(v.main, 1, n) = SubSeq(w.main, 1, n)
Leading(v) ==
  IF v.main[1] # 0 THEN 1 ELSE IF v.main[2] # 0 THEN 2 ELSE 3

Admits(word, v) ==
  CASE word.op = "^" -> ~Below(v, word.version) /\ SameUpTo(v, word.version, Leading(word.version))
    [] word.op = "~" -> ~Below(v, word.version) /\ SameUpTo(v, word.version, 2)
    [] word.op \in {"none", "="} -> v = word.version
    [] OTHER -> MatchesComparator(v, word)

InRange(v, range) == \E i \in DOMAIN range : \A j \in DOMAIN range[i] : Admits(range[i][j], v)
==============================================================================
