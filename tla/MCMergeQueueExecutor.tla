------------------------ MODULE MCMergeQueueExecutor ------------------------
(* Instances of MergeQueueExecutor for TLC. *)
EXTENDS MergeQueueExecutor, TLC

CONSTANTS c1, c2, p1, p2, h1, h2, m1, m2, a1, a2, w1, w2

Ask(p, h, m, a, i) == [pull |-> p, head |-> h, main |-> m, actor |-> a, ingress |-> i]

\* Two requests for one pull and two heads of it.
RivalRequests == (c1 :> Ask(p1, h1, m1, a1, "allowed")) @@ (c2 :> Ask(p1, h2, m1, a1, "allowed"))
\* The same request posted twice.
RepeatedRequests == [c \in {c1, c2} |-> Ask(p1, h1, m1, a1, "allowed")]
\* One request, and a comment on another issue of the repository.
AtlasRequests == (c1 :> Ask(p1, h1, m1, a1, "allowed")) @@ (c2 :> Ask(p1, h1, m1, a1, "foreign"))

\* Every check has passed, or none has run yet.
Passed == [gate |-> TRUE, green |-> Workflows, passed |-> Workflows]
NotRun == [gate |-> FALSE, green |-> {}, passed |-> {}]
AllPassed == {Passed}
AnyChecks == {Passed, NotRun}

OneSource == [p \in Pulls |-> <<w1>>]
AtlasSources == [p \in Pulls |-> <<w1, w2>>]
=============================================================================
