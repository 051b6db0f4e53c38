----------------------------- MODULE DelegatedRun -----------------------------
(***************************************************************************)
(* What the author of a control request may rely on, whatever the run that *)
(* it starts reads and however long it takes: the run begins on the        *)
(* protected main that the request names, and nothing is submitted unless  *)
(* that was still protected main, and the author was the principal of the  *)
(* mutation credential, when the run read them last.  A request that is    *)
(* refused stays refused.                                                  *)
(*                                                                         *)
(* IntegrationCapability decides whether such a request may be posted, and *)
(* sees of the run no more than this; MergeQueueExecutor is that run in    *)
(* all its steps.                                                          *)
(***************************************************************************)
CONSTANTS Requests, Mains, Logins, NoRequest

VARIABLES
  main,        \* head of protected META main
  principal,   \* human principal of the mutation credential
  asked,       \* per request, what it names: a main, and its author
  stage        \* per request, how far its run is

runVars == <<main, principal, asked, stage>>

Asked == [main: Mains, author: Logins]

RunInit ==
  /\ main \in Mains
  /\ asked \in [Requests -> Asked \cup {NoRequest}]
  /\ stage = [r \in Requests |-> "waiting"]

\* Protected main and the credential move at any time.
MoveFacts == main' \in Mains /\ UNCHANGED <<asked, stage>>

Post(r) ==
  /\ asked[r] = NoRequest
  /\ \E names \in Asked : asked' = [asked EXCEPT ![r] = names]
  /\ UNCHANGED <<main, principal, stage>>

NamesMain(r) == asked[r] # NoRequest /\ asked[r].main = main

Begin(r) ==
  /\ stage[r] = "waiting" /\ NamesMain(r)
  /\ stage' = [stage EXCEPT ![r] = "running"]
  /\ UNCHANGED <<main, principal, asked>>

\* The last look at protected main: the request leaves with it, or later.
Clear(r) ==
  /\ stage[r] = "running" /\ NamesMain(r) /\ principal = asked[r].author
  /\ \E there \in {"cleared", "submitted"} : stage' = [stage EXCEPT ![r] = there]
  /\ UNCHANGED <<main, principal, asked>>

Submit(r) ==
  /\ stage[r] = "cleared"
  /\ stage' = [stage EXCEPT ![r] = "submitted"]
  /\ UNCHANGED <<main, principal, asked>>

\* Runs that wait for their turn can be dropped together.
Refuse(dropped) ==
  /\ \A r \in dropped : asked[r] # NoRequest /\ stage[r] \in {"waiting", "running", "cleared"}
  /\ stage' = [r \in Requests |-> IF r \in dropped THEN "refused" ELSE stage[r]]
  /\ UNCHANGED <<main, principal, asked>>

RunNext ==
  \/ MoveFacts
  \/ \E r \in Requests : Post(r) \/ Begin(r) \/ Clear(r) \/ Submit(r)
  \/ \E dropped \in SUBSET Requests : Refuse(dropped)

RunSpec == RunInit /\ [][RunNext]_runVars
=============================================================================
