-------------------------- MODULE SubmissionLedger --------------------------
(***************************************************************************)
(* What the governed executor promises a coordinator that posts a request, *)
(* with no reads, no runs and no messages: a request is submitted at most  *)
(* once, takes effect at most once, and what is reported about it is true  *)
(* when it is reported and stays true.  "unknown" promises nothing: the    *)
(* request may have an effect before or after the report.                  *)
(***************************************************************************)
CONSTANT Comments

VARIABLES
  submitted,   \* requests that left the executor
  effective,   \* requests the Merge Queue service has on record
  report       \* what the coordinator has been told

ledgerVars == <<submitted, effective, report>>

Negative == {"notSent", "refused", "conflict"}
Reports  == Negative \cup {"none", "accepted", "unknown"}

LedgerTypeOK ==
  /\ submitted \subseteq Comments
  /\ effective \subseteq submitted
  /\ report \in [Comments -> Reports]

LedgerInit ==
  /\ submitted = {}
  /\ effective = {}
  /\ report = [c \in Comments |-> "none"]

Submit(c) ==
  /\ c \notin submitted
  /\ report[c] = "none"
  /\ submitted' = submitted \cup {c}
  /\ UNCHANGED <<effective, report>>

TakeEffect(c) ==
  /\ c \in submitted \ effective
  /\ report[c] \in {"none", "unknown"}
  /\ effective' = effective \cup {c}
  /\ UNCHANGED <<submitted, report>>

\* Several pending requests can be dropped in one step.
Tell(told, r) ==
  /\ \A c \in told : report[c] = "none"
  /\ CASE r = "accepted" -> told \subseteq effective
       [] r = "notSent" -> told \cap submitted = {}
       [] r \in {"refused", "conflict"} -> told \subseteq submitted \ effective
       [] r = "unknown" -> told \subseteq submitted
  /\ report' = [c \in Comments |-> IF c \in told THEN r ELSE report[c]]
  /\ UNCHANGED <<submitted, effective>>

LedgerNext ==
  \/ \E c \in Comments : Submit(c) \/ TakeEffect(c)
  \/ \E told \in SUBSET Comments, r \in Reports \ {"none"} : Tell(told, r)

LedgerSpec == LedgerInit /\ [][LedgerNext]_ledgerVars
=============================================================================
