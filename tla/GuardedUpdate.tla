---------------------------- MODULE GuardedUpdate ----------------------------
(***************************************************************************)
(* What publish() promises, with no reads, locks, bundles or processes:    *)
(* an invocation is one compare-and-swap of a branch, sent at most once    *)
(* and applied at most once to the repository approved for it, and what    *)
(* its caller is told is the state of that branch when it is told.  On a   *)
(* local endpoint an answer, or an exception that escapes, also settles    *)
(* the update: nothing is applied after it.  Over a remote one the update  *)
(* may still be on its way.                                                *)
(***************************************************************************)
CONSTANTS Publishers, Repos, Shas, Candidate, Expected, Ancestors, Absent

VARIABLES
  local,    \* is the approved endpoint a local filesystem path?
  branch,   \* value of the branch in every repository
  home,     \* repository approved for each invocation
  sent,     \* invocations whose update is on its way or done
  applied,  \* invocations whose update was applied
  told      \* what the caller of each invocation was told

updateVars == <<local, branch, home, sent, applied, told>>

UpdateInit ==
  /\ local \in BOOLEAN
  /\ branch \in [Repos -> Shas]
  /\ home = [p \in Publishers |-> Absent]
  /\ sent = {} /\ applied = {}
  /\ told = [p \in Publishers |-> "none"]

\* Everybody else writes, and deletes, as they like.
WriteElsewhere ==
  /\ \E r \in Repos, s \in Shas \cup {Absent} : branch' = [branch EXCEPT ![r] = s]
  /\ UNCHANGED <<local, home, sent, applied, told>>

\* The endpoint is approved once; the invocation may end at once.
Approve(p) ==
  /\ home[p] = Absent /\ told[p] = "none"
  /\ \E r \in Repos : home' = [home EXCEPT ![p] = r]
  /\ \/ \E answer \in {"blocked", "escaped"} : told' = [told EXCEPT ![p] = answer]
     \/ UNCHANGED told
  /\ UNCHANGED <<local, branch, sent, applied>>

\* Only a fast-forward is sent.
Send(p) ==
  /\ home[p] \in Repos /\ p \notin sent /\ told[p] = "none"
  /\ Expected[p] \in Ancestors[Candidate[p]]
  /\ sent' = sent \cup {p}
  /\ UNCHANGED <<local, branch, home, applied, told>>

Apply(p) ==
  /\ p \in sent \ applied
  /\ local => told[p] \in {"none", "crashed"}
  /\ branch[home[p]] = Expected[p]
  /\ branch' = [branch EXCEPT ![home[p]] = Candidate[p]]
  /\ applied' = applied \cup {p}
  /\ UNCHANGED <<local, home, sent, told>>

\* An ambiguous outcome, an exception that escapes and the death of the process
\* promise nothing.
IsTrue(p, answer) ==
  LET value == branch[home[p]]
  IN  CASE answer = "blocked" -> p \notin sent
        [] answer = "already" -> p \notin sent /\ value = Candidate[p]
        [] answer = "published" -> p \in sent /\ value = Candidate[p]
        [] answer = "notPublished" -> p \in sent /\ value = Expected[p]
        [] answer = "drift" -> p \in sent /\ value \notin {Candidate[p], Expected[p]}
        [] answer \in {"ambiguous", "escaped", "crashed"} -> TRUE

Tell(p) ==
  /\ home[p] \in Repos /\ told[p] = "none"
  /\ \E answer \in {"blocked", "already", "published", "notPublished", "drift",
                    "ambiguous", "escaped", "crashed"} :
       IsTrue(p, answer) /\ told' = [told EXCEPT ![p] = answer]
  /\ UNCHANGED <<local, branch, home, sent, applied>>

UpdateNext ==
  \/ WriteElsewhere
  \/ \E p \in Publishers : Approve(p) \/ Send(p) \/ Apply(p) \/ Tell(p)

UpdateSpec == UpdateInit /\ [][UpdateNext]_updateVars
=============================================================================
