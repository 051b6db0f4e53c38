----------------------------- MODULE OwnedPaths -----------------------------
(***************************************************************************)
(* Owned paths of a lane.  A pattern is a sequence of segments: a literal, *)
(* the wildcard * for one segment, or ** for any number of them.  A        *)
(* pattern owns what it matches and everything below it.                   *)
(***************************************************************************)
EXTENDS Naturals, Sequences

CONSTANTS
  Star,      \* the segment *
  StarStar,  \* the segment **
  Fragment   \* a segment with a wildcard inside, like file*

Wildcards == {Star, StarStar}
IsSequence(s) == Len(s) \in Nat /\ DOMAIN s = 1..Len(s)

\* Only whole segments may be wildcards.
IsSupportedPathGlob(g) == g # <<>> /\ \A i \in DOMAIN g : g[i] # Fragment

\* Segment i belongs to the path up to the first wildcard.
InPrefix(g, i) == i \in DOMAIN g /\ \A j \in 1..i : g[j] \notin Wildcards

OnlyTheSame(left, right) == left = right   \* mutant: a directory and what is in it do not overlap
\* One prefix continues the other: they agree wherever both have a segment.
PathsOverlap(left, right) ==
  \A i \in DOMAIN left : InPrefix(left, i) /\ InPrefix(right, i) => left[i] = right[i]
-----------------------------------------------------------------------------
(* What the patterns mean, apart from their prefixes.                      *)

\* The segment takes the part of the path after "from" up to "to".
Takes(segment, path, from, to) ==
  CASE segment = StarStar -> to >= from
    [] segment \in {Star, Fragment} -> to = from + 1
    [] segment \notin {Star, StarStar, Fragment} -> to = from + 1 /\ path[to] = segment

Owns(g, path) ==
  \E upTo \in [0..Len(g) -> 0..Len(path)] :
    /\ upTo[0] = 0
    /\ \A i \in DOMAIN g : Takes(g[i], path, upTo[i - 1], upTo[i])
=============================================================================
