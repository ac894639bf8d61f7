------------------------------- MODULE Patterns -------------------------------
(***************************************************************************)
(* The patterns of the authority engine.  A name is a sequence of segments *)
(* (deploy.staging is <<"deploy", "staging">>); a pattern is a name whose  *)
(* last segment may be a wildcard.                                         *)
(***************************************************************************)
EXTENDS Naturals, Sequences

\* v is below the prefix of p: it has all segments of p but the last, and more.
Below(v, p) == Len(v) >= Len(p) /\ \A i \in 1 .. Len(p) - 1 : v[i] = p[i]

\* The prefix of p itself.
Stem(p) == SubSeq(p, 1, Len(p) - 1)

OneLevel(p) == Len(p) > 1 /\ p[Len(p)] = "*"
AnyDepth(p) == Len(p) > 1 /\ p[Len(p)] = "**"

PatternMatch(p, v) ==
  \/ p = <<"*">> \/ p = v
  \/ OneLevel(p) /\ Below(v, p) /\ Len(v) = Len(p)
  \/ AnyDepth(p) /\ Below(v, p)

\* Does q, of the parent, cover p, of the child?
PatternCovers(q, p) ==
  \/ q = <<"*">> \/ q = p
  \/ AnyDepth(q) /\ (p = Stem(q) \/ Below(p, q))
  \/ OneLevel(q) /\ (p = Stem(q) \/ (Below(p, q) /\ Len(p) = Len(q)))

IsSubset(child, parent) == \A p \in child : \E q \in parent : PatternCovers(q, p)

\* Where covering is not granting less: the prefix itself, which its wildcards
\* do not match, and any depth under one level.
Exceptional(q, p) == p = Stem(q) \/ (OneLevel(q) /\ AnyDepth(p))
==============================================================================
