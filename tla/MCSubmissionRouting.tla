------------------------- MODULE MCSubmissionRouting -------------------------
EXTENDS SubmissionRouting, TLC

\* Two attempts, one pull.
CONSTANTS a1, a2, p1, h1, h2

MCFreezes == {[pull |-> p1, head |-> h1]}
MCSurfaces == {"direct_native_merge_async", "github_token"}

\* Attempts are interchangeable; heads are not, one of them is frozen.
Interchangeable == Permutations(Attempts)
=============================================================================
