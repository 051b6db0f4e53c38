--------------------------- MODULE MCPublication ---------------------------
(* Instances of Publication for TLC. *)
EXTENDS Publication, TLC

CONSTANTS p1, p2, r1, r2, base, ours, theirs, path1, path2

\* Two invocations publish different successors of the same base.
Rivals == (p1 :> ours) @@ (p2 :> theirs)
\* The second invocation is a retry of the first one.
Retry == (p1 :> ours) @@ (p2 :> ours)
FromBase == [p \in Publishers |-> base]

OwnPaths == (p1 :> path1) @@ (p2 :> path2)
OnePath == [p \in Publishers |-> path1]

\* Two commits on top of base, unrelated to each other.
Fork == (base :> {base}) @@ (ours :> {base, ours}) @@ (theirs :> {base, theirs})

\* One commit on top of base.
Line == (base :> {base}) @@ (ours :> {base, ours})

\* The repositories differ in nothing: the same states up to their names.
EitherRepo == Permutations({r1, r2})
=============================================================================
