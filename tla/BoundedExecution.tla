-------------------------- MODULE BoundedExecution --------------------------
(***************************************************************************)
(* The bounded-execution guard: decide(policy, current, action, previous). *)
(*                                                                         *)
(* A caller describes its task in a snapshot and asks for one action.  The *)
(* guard compares the snapshot with the previous one, admits or denies the *)
(* action, and returns the snapshot to keep, which the caller passes back  *)
(* as `previous` the next time.  The guard itself remembers nothing: the   *)
(* chain of snapshots is the whole memory of budgets and freezes.          *)
(*                                                                         *)
(* The caller may present any snapshot that validate_snapshot() accepts.   *)
(***************************************************************************)
EXTENDS Naturals, FiniteSets

CONSTANTS
  Heads,         \* exact technical heads of one task
  Phases,        \* values of the other material coordinates, taken together
  Failures,      \* first material failures
  Dependencies,  \* dependency kinds that block: a subset of the policy's four
  RetryBudget,   \* identical_failure_cycles of the policy
  HeavyBudget,   \* heavy_validation_attempts of the policy
  MaxCount,      \* bound on the counters a caller may present
  CallerStates,  \* lifecycle states a caller may present
  CallerFreezes, \* values of candidate_frozen a caller may present
  NoFailure, NoDependency, NoSnapshot

Kinds  == {"external", "owner", "permission", "policy"}
States == {"RUNNING", "WAITING_EXTERNAL", "BLOCKED", "STALLED", "READY", "DONE"}

ASSUME BudgetAssumption ==
  RetryBudget \in Nat /\ HeavyBudget \in Nat /\ MaxCount \in Nat
ASSUME CoordinateAssumption ==
  /\ Dependencies \subseteq Kinds
  /\ CallerStates \subseteq States /\ CallerFreezes \subseteq BOOLEAN
  /\ NoFailure \notin Failures
  /\ NoDependency \notin Kinds

VARIABLES
  last,          \* the snapshot kept from the last decision
  decided,       \* the last decision: action, admitted?, material reason given?
  \* history
  heavyStay,     \* heavy validations admitted since the head last changed
  retryStay,     \* retries admitted since the failure scope last changed
  frozenHeads    \* heads that were frozen in a kept snapshot

vars == <<last, decided, heavyStay, retryStay, frozenHeads>>

Released == {"WAITING_EXTERNAL", "BLOCKED", "STALLED"}
Actions  == {"observe", "mutate", "retrigger", "retry", "run_heavy_validation", "complete"}

\* material_reason and completion_verified matter to one decision only and are
\* parameters of it.
Snapshot ==
  [head: Heads, phase: Phases, failure: Failures \cup {NoFailure},
   dependency: Dependencies \cup {NoDependency}, state: States, frozen: BOOLEAN,
   cycles: Nat, heavy: Nat]

ASSUME SnapshotAssumption == NoSnapshot \notin Snapshot

TypeOK ==
  /\ last \in Snapshot \cup {NoSnapshot}
  /\ decided \in [action: Actions \cup {"none"}, allowed: BOOLEAN, reason: BOOLEAN]
  /\ heavyStay \in Nat /\ retryStay \in Nat
  /\ frozenHeads \subseteq Heads

\* What a caller can present.
Presented ==
  [head: Heads, phase: Phases, failure: Failures \cup {NoFailure},
   dependency: Dependencies \cup {NoDependency}, state: CallerStates, frozen: CallerFreezes,
   cycles: 0..MaxCount, heavy: 0..MaxCount]

Init ==
  /\ last = NoSnapshot
  /\ decided = [action |-> "none", allowed |-> FALSE, reason |-> FALSE]
  /\ heavyStay = 0 /\ retryStay = 0
  /\ frozenHeads = {}
-----------------------------------------------------------------------------
(* Fingerprints and the predecessor.                                       *)

\* Progress and failure fingerprint are digests of the same eight fields.
Fingerprint(s) == <<s.head, s.phase, s.failure, s.dependency>>

First == last = NoSnapshot

CyclesOnly(cur) == Fingerprint(cur) = Fingerprint(last) => cur.cycles >= last.cycles  \* mutant
HeavyOnly(cur) == cur.head = last.head => cur.heavy >= last.heavy   \* mutant

\* _validate_predecessor_history(): counters do not regress in their scope.
ContinuesHistory(cur) ==
  /\ Fingerprint(cur) = Fingerprint(last) => cur.cycles >= last.cycles
  /\ cur.head = last.head => cur.heavy >= last.heavy

AsPresented(cur) == cur   \* mutant: the caller's candidate_frozen is believed
\* _effective_current(): a freeze outlives the caller's word on the same head.
Effective(cur) ==
  [cur EXCEPT !.frozen = @ \/ (~First /\ last.frozen /\ cur.head = last.head)]

AlwaysChanged(cur) == TRUE   \* mutant
Changed(cur) == First \/ Fingerprint(cur) # Fingerprint(last)

\* Early returns of decide(), in their order.
AfterDone(cur) == ~First /\ last.state = "DONE"
IsDone(cur)    == ~AfterDone(cur) /\ cur.state = "DONE"
Terminal(cur)  == AfterDone(cur) \/ IsDone(cur)
Depends(cur)   == ~Terminal(cur) /\ cur.dependency # NoDependency
StillOut(cur)  == ~Terminal(cur) /\ ~Depends(cur)
                    /\ ~First /\ last.state \in Released /\ ~Changed(cur)
Workable(cur)  == ~Terminal(cur) /\ ~Depends(cur) /\ ~StillOut(cur)
-----------------------------------------------------------------------------
(* Decisions.                                                              *)

Keep(snap, ask, allowed) ==
  LET heavy == allowed /\ ask.action = "run_heavy_validation"
      retry == allowed /\ ask.action = "retry"
      sameHead  == ~First /\ snap.head = last.head
      sameScope == ~First /\ Fingerprint(snap) = Fingerprint(last)
  IN /\ last' = snap
     /\ decided' = [action |-> ask.action, allowed |-> allowed, reason |-> ask.reason]
     /\ heavyStay' = (IF sameHead THEN heavyStay ELSE 0) + (IF heavy THEN 1 ELSE 0)
     /\ retryStay' = (IF sameScope THEN retryStay ELSE 0) + (IF retry THEN 1 ELSE 0)
     /\ frozenHeads' = IF snap.frozen THEN frozenHeads \cup {snap.head} ELSE frozenHeads

Return(snap, ask, allowed, state) == Keep([snap EXCEPT !.state = state], ask, allowed)

\* DONE, reached before or presented now, admits observation only.
StayDone(cur, ask) ==
  /\ Terminal(cur)
  /\ Return(IF AfterDone(cur) THEN last ELSE Effective(cur), ask, ask.action = "observe", "DONE")

Semantics(kind) == IF kind = "external" THEN "WAITING_EXTERNAL" ELSE "BLOCKED"

Wait(cur, ask) ==
  /\ Depends(cur)
  /\ Return(Effective(cur), ask, ask.action = "observe", Semantics(cur.dependency))

\* Released and nothing material changed: the previous snapshot is kept.
StayReleased(cur, ask) ==
  /\ StillOut(cur)
  /\ Keep(last, ask, ask.action = "observe")

Observe(cur, ask) ==
  /\ Workable(cur) /\ ask.action = "observe"
  /\ Keep(Effective(cur), ask, TRUE)

\* An operational action without a predecessor is denied.
DenyFirst(cur, ask) ==
  /\ Workable(cur) /\ First /\ ask.action # "observe"
  /\ Keep(Effective(cur), ask, FALSE)

ReasonIfFrozenNow(cur, ask) == Changed(cur) /\ (cur.frozen => ask.reason)   \* mutant
MayEdit(cur, ask) == Changed(cur) /\ (Effective(cur).frozen => ask.reason)

\* mutate and retrigger need material change; on a frozen candidate they also
\* need a recorded material reason.
Edit(cur, ask) ==
  /\ Workable(cur) /\ ~First /\ ask.action \in {"mutate", "retrigger"}
  /\ IF MayEdit(cur, ask) THEN Return(Effective(cur), ask, TRUE, "RUNNING")
     ELSE Keep(Effective(cur), ask, FALSE)

Retry(cur, ask) ==
  /\ Workable(cur) /\ ~First /\ ask.action = "retry"
  /\ CASE cur.failure = NoFailure -> Keep(Effective(cur), ask, FALSE)
       [] cur.failure # NoFailure /\ cur.cycles >= RetryBudget ->
            Return(Effective(cur), ask, FALSE, "STALLED")
       [] cur.failure # NoFailure /\ cur.cycles < RetryBudget ->
            Return([Effective(cur) EXCEPT !.cycles = @ + 1], ask, TRUE, "RUNNING")

HeavyValidation(cur, ask) ==
  /\ Workable(cur) /\ ~First /\ ask.action = "run_heavy_validation"
  /\ IF cur.heavy >= HeavyBudget THEN Return(Effective(cur), ask, FALSE, "STALLED")
     ELSE Keep([Effective(cur) EXCEPT !.heavy = @ + 1], ask, TRUE)

Complete(cur, ask) ==
  /\ Workable(cur) /\ ~First /\ ask.action = "complete"
  /\ IF ask.verified THEN Return(Effective(cur), ask, TRUE, "DONE")
     ELSE Keep(Effective(cur), ask, FALSE)

\* A snapshot that validation or history rejects raises GuardError: nothing is
\* decided and the caller keeps what it had.
Decide(cur, ask) ==
  /\ cur.state = "DONE" => ask.verified
  /\ ~First => ContinuesHistory(cur)
  /\ \/ StayDone(cur, ask) \/ Wait(cur, ask) \/ StayReleased(cur, ask)
     \/ Observe(cur, ask) \/ DenyFirst(cur, ask)
     \/ Edit(cur, ask) \/ Retry(cur, ask)
     \/ HeavyValidation(cur, ask) \/ Complete(cur, ask)

\* Facts that decide() does not look at are not varied: a material reason
\* belongs to an edit, completion_verified to complete and to DONE.
Requests(cur) ==
  {ask \in [action: Actions, reason: BOOLEAN, verified: BOOLEAN] :
     /\ ask.reason => ask.action \in {"mutate", "retrigger"}
     /\ ask.verified => cur.state = "DONE" \/ ask.action = "complete"}

Next == \E cur \in Presented : \E ask \in Requests(cur) : Decide(cur, ask)

Spec == Init /\ [][Next]_vars
-----------------------------------------------------------------------------
(* Properties *)

\* At most HeavyBudget heavy validations are admitted while the task stays on
\* one head, whatever counters and states the caller presents.
HeavyBudgetHolds == heavyStay <= HeavyBudget

\* At most RetryBudget retries are admitted while nothing material changes.
RetryBudgetHolds == retryStay <= RetryBudget

\* A freeze cannot be taken back on the same head by a later snapshot.
FreezeOutlivesCaller ==
  [][~First /\ last.frozen /\ last'.head = last.head => last'.frozen]_vars

\* mutate and retrigger are admitted on a frozen candidate only with a
\* material reason, even when the caller no longer says it is frozen.
FrozenEditIsReasoned ==
  ~First /\ decided.allowed /\ decided.action \in {"mutate", "retrigger"} /\ last.frozen => decided.reason

\* Work is admitted out of a released state, and an edit out of any state,
\* only after the material fingerprint has moved.
WorkNeedsProgress ==
  [][~First /\ decided'.allowed /\ decided'.action # "observe"
       /\ (last.state \in Released \/ decided'.action \in {"mutate", "retrigger"})
     => Fingerprint(last') # Fingerprint(last)]_vars

\* DONE is terminal: no later snapshot of the caller replaces it.
DoneIsTerminal == [][~First /\ last.state = "DONE" => last' = last]_vars

\* Per exact head: what the policy document says of the freeze.
FreezePerHead == ~First /\ last.head \in frozenHeads => last.frozen
=============================================================================
