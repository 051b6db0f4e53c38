------------------------ MODULE BoundedExecution_proofs ------------------------
(***************************************************************************)
(* Proofs about the bounded-execution guard, for every budget, every set   *)
(* of heads and failures, and whatever counters a caller presents.         *)
(***************************************************************************)
EXTENDS BoundedExecution, TLAPS

Edits == {"mutate", "retrigger"}

\* What a decision guarantees of the snapshot it returns: it continues the
\* previous one, and what it admits is paid for or justified.
Continues(snap) ==
  ~First =>
    /\ snap.head = last.head => snap.heavy >= last.heavy /\ (last.frozen => snap.frozen)
    /\ Fingerprint(snap) = Fingerprint(last) => snap.cycles >= last.cycles
    /\ last.state = "DONE" => snap = last

Pays(snap, ask, allowed) ==
  /\ allowed /\ ask.action = "run_heavy_validation" =>
       /\ 0 < snap.heavy /\ snap.heavy <= HeavyBudget
       /\ ~First /\ snap.head = last.head => snap.heavy > last.heavy
  /\ allowed /\ ask.action = "retry" =>
       /\ 0 < snap.cycles /\ snap.cycles <= RetryBudget
       /\ ~First /\ Fingerprint(snap) = Fingerprint(last) => snap.cycles > last.cycles

Justified(snap, ask, allowed) ==
  /\ allowed /\ ask.action \in Edits /\ snap.frozen => ask.reason
  /\ ~First /\ allowed /\ ask.action # "observe" /\ (last.state \in Released \/ ask.action \in Edits)
       => Fingerprint(snap) # Fingerprint(last)

Good(snap, ask, allowed) ==
  /\ snap \in Snapshot /\ allowed \in BOOLEAN /\ Keep(snap, ask, allowed)
  /\ Continues(snap) /\ Pays(snap, ask, allowed) /\ Justified(snap, ask, allowed)

\* What a caller presents is a snapshot, in whatever state it is returned.
LEMMA PresentedType ==
  ASSUME NEW cur \in Presented
  PROVE  /\ cur \in Snapshot
         /\ \A s \in States : [cur EXCEPT !.state = s] \in Snapshot
BY CoordinateAssumption, BudgetAssumption DEF Presented, Snapshot

\* The effective snapshot differs from the presented one only by its freeze.
LEMMA EffectiveSnapshot ==
  ASSUME TypeOK, NEW cur \in Presented
  PROVE  /\ Effective(cur) \in Snapshot
         /\ Effective(cur).head = cur.head /\ Effective(cur).heavy = cur.heavy
         /\ Effective(cur).cycles = cur.cycles /\ Effective(cur).failure = cur.failure
         /\ Effective(cur).state = cur.state
         /\ Fingerprint(Effective(cur)) = Fingerprint(cur)
         /\ ~First /\ cur.head = last.head /\ last.frozen => Effective(cur).frozen
<1>1. cur \in Snapshot /\ cur.frozen \in BOOLEAN
  BY PresentedType DEF Snapshot
<1>2. ~First => last \in Snapshot
  BY DEF TypeOK, First
<1>3. (cur.frozen \/ (~First /\ last.frozen /\ cur.head = last.head)) \in BOOLEAN
  BY <1>1
<1>4. Effective(cur) \in Snapshot
  BY <1>1, <1>3 DEF Effective, Snapshot
<1>5. Effective(cur).frozen = (cur.frozen \/ (~First /\ last.frozen /\ cur.head = last.head))
  BY <1>1 DEF Effective, Snapshot
<1> QED
  BY <1>1, <1>4, <1>5 DEF Effective, Fingerprint, Snapshot

\* Changing the state of a snapshot changes nothing the guarantees speak of.
LEMMA StateOnly ==
  ASSUME NEW snap \in Snapshot, NEW s \in States
  PROVE  /\ [snap EXCEPT !.state = s] \in Snapshot
         /\ Fingerprint([snap EXCEPT !.state = s]) = Fingerprint(snap)
         /\ [snap EXCEPT !.state = s].head = snap.head
         /\ [snap EXCEPT !.state = s].heavy = snap.heavy
         /\ [snap EXCEPT !.state = s].cycles = snap.cycles
         /\ [snap EXCEPT !.state = s].frozen = snap.frozen
         /\ [snap EXCEPT !.state = s].state = s
BY DEF Snapshot, Fingerprint

\* Every decision is good.
LEMMA DecisionIsGood ==
  ASSUME TypeOK, NEW cur \in Presented, NEW ask \in Requests(cur), Decide(cur, ask)
  PROVE  \E snap, allowed : Good(snap, ask, allowed)
<1> DEFINE eff == Effective(cur)
<1>1. eff \in Snapshot /\ (~First => last \in Snapshot)
  BY EffectiveSnapshot DEF TypeOK, First
<1>2. ~First => ContinuesHistory(cur)
  BY DEF Decide
\* Any snapshot that continues the effective one, when the previous one is not DONE.
<1>3. ASSUME ~AfterDone(cur), NEW snap \in Snapshot, snap.head = cur.head,
             Fingerprint(snap) = Fingerprint(cur), snap.frozen = eff.frozen,
             snap.heavy >= cur.heavy, snap.cycles >= cur.cycles
      PROVE  Continues(snap)
  <2>1. ~First => last.state # "DONE"
    BY <1>3 DEF AfterDone
  <2>2. ~First /\ cur.head = last.head => cur.heavy >= last.heavy
    BY <1>2 DEF ContinuesHistory
  <2>3. ~First /\ Fingerprint(cur) = Fingerprint(last) => cur.cycles >= last.cycles
    BY <1>2 DEF ContinuesHistory
  <2>4. /\ snap.heavy \in Nat /\ snap.cycles \in Nat /\ cur.heavy \in Nat /\ cur.cycles \in Nat
        /\ ~First => last.heavy \in Nat /\ last.cycles \in Nat
    BY <1>1, PresentedType DEF Snapshot
  <2>5. ~First /\ cur.head = last.head /\ last.frozen => snap.frozen
    BY <1>3, EffectiveSnapshot
  <2> QED
    BY <1>3, <2>1, <2>2, <2>3, <2>4, <2>5 DEF Continues
<1>4. /\ eff.head = cur.head /\ Fingerprint(eff) = Fingerprint(cur)
      /\ eff.heavy = cur.heavy /\ eff.cycles = cur.cycles
      /\ cur.heavy \in Nat /\ cur.cycles \in Nat
  BY EffectiveSnapshot, PresentedType DEF Snapshot
\* The effective snapshot, with another state or none changed.
<1>5. ASSUME ~AfterDone(cur), NEW allowed \in BOOLEAN, NEW s \in States,
             allowed => ask.action \notin {"run_heavy_validation", "retry"}
      PROVE  /\ eff \in Snapshot /\ Continues(eff) /\ Pays(eff, ask, allowed)
             /\ [eff EXCEPT !.state = s] \in Snapshot
             /\ Continues([eff EXCEPT !.state = s]) /\ Pays([eff EXCEPT !.state = s], ask, allowed)
  <2>1. cur.heavy >= cur.heavy /\ cur.cycles >= cur.cycles
    BY <1>4
  <2>2. Continues(eff)
    BY <1>1, <1>3, <1>4, <1>5, <2>1
  <2>3. Continues([eff EXCEPT !.state = s])
    <3> DEFINE snap == [eff EXCEPT !.state = s]
    <3>1. /\ snap \in Snapshot /\ snap.head = cur.head /\ Fingerprint(snap) = Fingerprint(cur)
          /\ snap.frozen = eff.frozen /\ snap.heavy = cur.heavy /\ snap.cycles = cur.cycles
      BY <1>1, <1>4, StateOnly
    <3> HIDE DEF snap
    <3>2. Continues(snap)
      BY <1>3, <1>5, <2>1, <3>1
    <3> QED
      BY <3>2 DEF snap
  <2>4. \A snap : Pays(snap, ask, allowed)
    BY <1>5 DEF Pays
  <2> QED
    BY <1>1, <2>2, <2>3, <2>4, StateOnly
<1>6. \A allowed \in BOOLEAN, snap \in Snapshot :
        (allowed => ask.action = "observe") => Justified(snap, ask, allowed)
  BY DEF Justified, Edits
<1>7. CASE StayDone(cur, ask)
  <2>1. (ask.action = "observe") \in BOOLEAN /\ "DONE" \in States
    BY DEF States
  <2>2. CASE AfterDone(cur)
    <3>1. Keep([last EXCEPT !.state = "DONE"], ask, ask.action = "observe")
      BY <1>7, <2>2 DEF StayDone, Return
    <3>2. [last EXCEPT !.state = "DONE"] = last /\ last \in Snapshot
      BY <1>1, <2>2 DEF AfterDone, Snapshot
    <3>3. Continues(last) /\ Pays(last, ask, ask.action = "observe")
      BY <3>2 DEF Continues, Pays, Snapshot
    <3> QED
      BY <1>6, <2>1, <3>1, <3>2, <3>3 DEF Good
  <2>3. CASE ~AfterDone(cur)
    <3>1. Keep([eff EXCEPT !.state = "DONE"], ask, ask.action = "observe")
      BY <1>7, <2>3 DEF StayDone, Return
    <3> QED
      BY <1>5, <1>6, <2>1, <2>3, <3>1 DEF Good
  <2> QED
    BY <2>2, <2>3
<1>8. CASE Wait(cur, ask)
  <2>1. Semantics(cur.dependency) \in States /\ (ask.action = "observe") \in BOOLEAN
    BY DEF Semantics, States
  <2>2. ~AfterDone(cur)
    BY <1>8 DEF Wait, Depends, Terminal
  <2>3. Keep([eff EXCEPT !.state = Semantics(cur.dependency)], ask, ask.action = "observe")
    BY <1>8 DEF Wait, Return
  <2> QED
    BY <1>5, <1>6, <2>1, <2>2, <2>3 DEF Good
<1>9. CASE StayReleased(cur, ask)
  <2>1. Keep(last, ask, ask.action = "observe") /\ ~First /\ (ask.action = "observe") \in BOOLEAN
    BY <1>9 DEF StayReleased, StillOut
  <2>2. Continues(last) /\ Pays(last, ask, ask.action = "observe") /\ last \in Snapshot
    BY <1>1, <2>1 DEF Continues, Pays, Snapshot
  <2> QED
    BY <1>6, <2>1, <2>2 DEF Good
<1>10. ASSUME Workable(cur)
       PROVE  /\ ~AfterDone(cur)
              /\ ~First /\ last.state \in Released => Changed(cur)
  BY <1>10 DEF Workable, Terminal, StillOut
<1>11. Changed(cur) /\ ~First => Fingerprint(cur) # Fingerprint(last)
  BY DEF Changed
<1>12. CASE Observe(cur, ask) \/ DenyFirst(cur, ask)
  <2>1. PICK allowed \in BOOLEAN : Keep(eff, ask, allowed) /\ (allowed => ask.action = "observe")
    BY <1>12 DEF Observe, DenyFirst
  <2>2. ~AfterDone(cur) /\ "RUNNING" \in States
    BY <1>10, <1>12 DEF Observe, DenyFirst, States
  <2> QED
    BY <1>5, <1>6, <2>1, <2>2 DEF Good
<1>13. CASE Edit(cur, ask)
  <2>1. ~AfterDone(cur) /\ "RUNNING" \in States /\ ask.action \in Edits
    BY <1>10, <1>13 DEF Edit, States, Edits
  <2>2. CASE MayEdit(cur, ask)
    <3>1. Keep([eff EXCEPT !.state = "RUNNING"], ask, TRUE)
      BY <1>13, <2>2 DEF Edit, Return
    <3>2. Justified([eff EXCEPT !.state = "RUNNING"], ask, TRUE)
      BY <1>1, <1>4, <1>11, <2>1, <2>2, StateOnly DEF Justified, MayEdit
    <3> QED
      BY <1>5, <2>1, <3>1, <3>2 DEF Good, Edits
  <2>3. CASE ~MayEdit(cur, ask)
    <3>1. Keep(eff, ask, FALSE)
      BY <1>13, <2>3 DEF Edit
    <3> QED
      BY <1>1, <1>5, <1>6, <2>1, <3>1 DEF Good
  <2> QED
    BY <2>2, <2>3
<1>14. CASE Retry(cur, ask)
  <2>1. ~AfterDone(cur) /\ {"RUNNING", "STALLED"} \subseteq States /\ ask.action = "retry" /\ ~First
    BY <1>10, <1>14 DEF Retry, States
  <2>2. CASE cur.failure = NoFailure \/ cur.cycles >= RetryBudget
    <3>1. Keep(eff, ask, FALSE) \/ Keep([eff EXCEPT !.state = "STALLED"], ask, FALSE)
      <4>1. CASE cur.failure = NoFailure
        BY <1>14, <4>1 DEF Retry
      <4>2. CASE cur.failure # NoFailure /\ cur.cycles >= RetryBudget
        <5>1. ~(cur.failure = NoFailure) /\ ~(cur.cycles < RetryBudget)
          BY <1>4, <4>2, BudgetAssumption
        <5>2. Return(eff, ask, FALSE, "STALLED")
          BY <1>14, <4>2, <5>1 DEF Retry
        <5> QED
          BY <5>2 DEF Return
      <4> QED
        BY <2>2, <4>1, <4>2
    <3> QED
      BY <1>1, <1>5, <1>6, <2>1, <3>1 DEF Good
  <2>3. CASE cur.failure # NoFailure /\ ~(cur.cycles >= RetryBudget)
    <3> DEFINE paid == [eff EXCEPT !.cycles = @ + 1]
               snap == [paid EXCEPT !.state = "RUNNING"]
    <3>1. Keep(snap, ask, TRUE)
      <4>1. cur.failure # NoFailure /\ cur.cycles < RetryBudget
        BY <1>4, <2>3, BudgetAssumption
      <4> QED
        BY <1>14, <2>3, <4>1 DEF Retry, Return
    <3>2. /\ paid \in Snapshot /\ paid.head = eff.head /\ paid.heavy = eff.heavy
          /\ paid.cycles = eff.cycles + 1 /\ paid.frozen = eff.frozen
          /\ Fingerprint(paid) = Fingerprint(eff)
      BY <1>1 DEF Snapshot, Fingerprint
    <3>3. /\ snap \in Snapshot /\ snap.head = cur.head /\ snap.heavy = cur.heavy
          /\ snap.cycles = cur.cycles + 1 /\ snap.frozen = eff.frozen
          /\ Fingerprint(snap) = Fingerprint(cur)
      <4> HIDE DEF paid
      <4> QED
        BY <1>4, <2>1, <3>2, StateOnly
    <3> HIDE DEF snap
    <3>4. Continues(snap)
      BY <1>3, <1>4, <2>1, <3>3
    <3>5. Fingerprint(cur) = Fingerprint(last) => cur.cycles >= last.cycles
      BY <1>2, <2>1 DEF ContinuesHistory
    <3>6. Pays(snap, ask, TRUE)
      <4>1. last.cycles \in Nat
        BY <1>1, <2>1 DEF Snapshot
      <4> QED
        BY <1>4, <2>1, <2>3, <3>3, <3>5, <4>1, BudgetAssumption DEF Pays
    <3>7. Justified(snap, ask, TRUE)
      BY <1>10, <1>11, <1>14, <2>1, <3>3 DEF Justified, Retry, Edits
    <3> QED
      BY <3>1, <3>3, <3>4, <3>6, <3>7 DEF Good
  <2> QED
    BY <2>2, <2>3
<1>15. CASE HeavyValidation(cur, ask)
  <2>1. ~AfterDone(cur) /\ "STALLED" \in States /\ ask.action = "run_heavy_validation" /\ ~First
    BY <1>10, <1>15 DEF HeavyValidation, States
  <2>2. CASE cur.heavy >= HeavyBudget
    <3>1. Keep([eff EXCEPT !.state = "STALLED"], ask, FALSE)
      BY <1>15, <2>2 DEF HeavyValidation, Return
    <3> QED
      BY <1>1, <1>5, <1>6, <2>1, <3>1 DEF Good
  <2>3. CASE ~(cur.heavy >= HeavyBudget)
    <3> DEFINE snap == [eff EXCEPT !.heavy = @ + 1]
    <3>1. Keep(snap, ask, TRUE)
      BY <1>15, <2>3 DEF HeavyValidation
    <3>2. /\ snap \in Snapshot /\ snap.head = cur.head /\ snap.heavy = cur.heavy + 1
          /\ snap.cycles = cur.cycles /\ snap.frozen = eff.frozen
          /\ Fingerprint(snap) = Fingerprint(cur)
      <4>1. /\ snap \in Snapshot /\ snap.head = eff.head /\ snap.heavy = eff.heavy + 1
            /\ snap.cycles = eff.cycles /\ snap.frozen = eff.frozen
            /\ Fingerprint(snap) = Fingerprint(eff)
        BY <1>1 DEF Snapshot, Fingerprint
      <4> HIDE DEF snap
      <4> QED
        BY <1>4, <4>1
    <3> HIDE DEF snap
    <3>3. Continues(snap)
      BY <1>3, <1>4, <2>1, <3>2
    <3>4. cur.head = last.head => cur.heavy >= last.heavy
      BY <1>2, <2>1 DEF ContinuesHistory
    <3>5. Pays(snap, ask, TRUE)
      <4>1. last.heavy \in Nat
        BY <1>1, <2>1 DEF Snapshot
      <4> QED
        BY <1>4, <2>1, <2>3, <3>2, <3>4, <4>1, BudgetAssumption DEF Pays
    <3>6. Justified(snap, ask, TRUE)
      BY <1>10, <1>11, <1>15, <2>1, <3>2 DEF Justified, HeavyValidation, Edits
    <3> QED
      BY <3>1, <3>2, <3>3, <3>5, <3>6 DEF Good
  <2> QED
    BY <2>2, <2>3
<1>16. CASE Complete(cur, ask)
  <2>1. ~AfterDone(cur) /\ {"RUNNING", "DONE"} \subseteq States /\ ask.action = "complete"
    BY <1>10, <1>16 DEF Complete, States
  <2>2. \/ Keep(eff, ask, FALSE)
        \/ Keep([eff EXCEPT !.state = "DONE"], ask, TRUE)
    BY <1>16 DEF Complete, Return
  <2>3. Justified([eff EXCEPT !.state = "DONE"], ask, TRUE)
    BY <1>1, <1>4, <1>10, <1>11, <1>16, <2>1, StateOnly DEF Justified, Complete, Edits
  <2> QED
    BY <1>1, <1>5, <1>6, <2>1, <2>2, <2>3 DEF Good
<1> QED
  BY <1>7, <1>8, <1>9, <1>12, <1>13, <1>14, <1>15, <1>16 DEF Decide

-----------------------------------------------------------------------------
(* The invariants.                                                         *)

\* What is kept has been paid for with the snapshot's own counters.
BudgetInv ==
  /\ First => heavyStay = 0 /\ retryStay = 0
  /\ ~First => heavyStay <= last.heavy /\ retryStay <= last.cycles
  /\ heavyStay <= HeavyBudget
  /\ retryStay <= RetryBudget

Inv == TypeOK /\ BudgetInv /\ FrozenEditIsReasoned

\* A request names an action and says whether it has a reason.
LEMMA AskType ==
  ASSUME NEW cur, NEW ask \in Requests(cur)
  PROVE  ask.action \in Actions /\ ask.reason \in BOOLEAN
BY DEF Requests

\* The invariants hold before the first decision.
LEMMA InitInv == Init => Inv
<1> SUFFICES ASSUME Init PROVE Inv
  OBVIOUS
<1>1. [action |-> "none", allowed |-> FALSE, reason |-> FALSE]
        \in [action: Actions \cup {"none"}, allowed: BOOLEAN, reason: BOOLEAN]
  OBVIOUS
<1>2. TypeOK
  BY <1>1 DEF Init, TypeOK
<1> QED
  BY <1>2, BudgetAssumption DEF Inv, Init, BudgetInv, First, FrozenEditIsReasoned

\* Keeping a good decision keeps the types.
LEMMA KeepType ==
  ASSUME TypeOK, NEW cur, NEW ask \in Requests(cur), NEW snap, NEW allowed, Good(snap, ask, allowed)
  PROVE  TypeOK'
<1>1. snap \in Snapshot /\ snap.head \in Heads /\ allowed \in BOOLEAN /\ Keep(snap, ask, allowed)
  BY DEF Good, Snapshot
<1>2. ask.action \in Actions /\ ask.reason \in BOOLEAN
  BY AskType
<1>3. decided' \in [action: Actions \cup {"none"}, allowed: BOOLEAN, reason: BOOLEAN]
  <2>1. decided' = [action |-> ask.action, allowed |-> allowed, reason |-> ask.reason]
    BY <1>1 DEF Keep
  <2> QED
    BY <1>1, <1>2, <2>1
<1>4. heavyStay' \in Nat /\ retryStay' \in Nat
  BY <1>1 DEF Keep, TypeOK
<1>5. last' \in Snapshot \cup {NoSnapshot} /\ frozenHeads' \subseteq Heads
  BY <1>1 DEF Keep, TypeOK
<1> QED
  BY <1>3, <1>4, <1>5 DEF TypeOK

\* Keeping a good decision keeps the counters within what the snapshot admits.
LEMMA KeepBudget ==
  ASSUME Inv, NEW cur, NEW ask \in Requests(cur), NEW snap, NEW allowed,
         Good(snap, ask, allowed), snap # NoSnapshot
  PROVE  BudgetInv' /\ FrozenEditIsReasoned'
<1>1. /\ Keep(snap, ask, allowed) /\ snap \in Snapshot /\ allowed \in BOOLEAN
      /\ Continues(snap) /\ Pays(snap, ask, allowed) /\ Justified(snap, ask, allowed)
  BY DEF Good
<1>2. /\ heavyStay \in Nat /\ retryStay \in Nat /\ snap.heavy \in Nat /\ snap.cycles \in Nat
      /\ ~First => last.heavy \in Nat /\ last.cycles \in Nat
  BY <1>1 DEF Inv, TypeOK, Snapshot, First
<1>3. last' = snap /\ ~First'
  BY <1>1 DEF Keep, First
<1>4. heavyStay' <= snap.heavy /\ heavyStay' <= HeavyBudget
  <2>1. CASE allowed /\ ask.action = "run_heavy_validation"
    <3>1. heavyStay' = (IF ~First /\ snap.head = last.head THEN heavyStay ELSE 0) + 1
      BY <1>1, <2>1 DEF Keep
    <3> QED
      BY <1>1, <1>2, <2>1, <3>1, BudgetAssumption DEF Inv, BudgetInv, Pays
  <2>2. CASE ~(allowed /\ ask.action = "run_heavy_validation")
    <3>1. heavyStay' = (IF ~First /\ snap.head = last.head THEN heavyStay ELSE 0)
      BY <1>1, <1>2, <2>2 DEF Keep
    <3> QED
      BY <1>1, <1>2, <3>1, BudgetAssumption DEF Inv, BudgetInv, Continues
  <2> QED
    BY <2>1, <2>2
<1>5. retryStay' <= snap.cycles /\ retryStay' <= RetryBudget
  <2>1. CASE allowed /\ ask.action = "retry"
    <3>1. retryStay' = (IF ~First /\ Fingerprint(snap) = Fingerprint(last) THEN retryStay ELSE 0) + 1
      BY <1>1, <2>1 DEF Keep
    <3> QED
      BY <1>1, <1>2, <2>1, <3>1, BudgetAssumption DEF Inv, BudgetInv, Pays
  <2>2. CASE ~(allowed /\ ask.action = "retry")
    <3>1. retryStay' = (IF ~First /\ Fingerprint(snap) = Fingerprint(last) THEN retryStay ELSE 0)
      BY <1>1, <1>2, <2>2 DEF Keep
    <3> QED
      BY <1>1, <1>2, <3>1, BudgetAssumption DEF Inv, BudgetInv, Continues
  <2> QED
    BY <2>1, <2>2
<1>6. FrozenEditIsReasoned'
  <2>1. decided' = [action |-> ask.action, allowed |-> allowed, reason |-> ask.reason]
    BY <1>1 DEF Keep
  <2> QED
    BY <1>1, <1>3, <2>1 DEF FrozenEditIsReasoned, Justified, Edits
<1> QED
  BY <1>3, <1>4, <1>5, <1>6 DEF BudgetInv

\* The invariants are inductive.
LEMMA NextInv == Inv /\ [Next]_vars => Inv'
<1> SUFFICES ASSUME Inv, [Next]_vars PROVE Inv'
  OBVIOUS
<1>1. CASE UNCHANGED vars
  BY <1>1 DEF Inv, TypeOK, BudgetInv, FrozenEditIsReasoned, First, vars
<1>2. CASE Next
  <2>1. PICK cur \in Presented : \E ask \in Requests(cur) : Decide(cur, ask)
    BY <1>2 DEF Next
  <2>2. PICK ask \in Requests(cur) : Decide(cur, ask)
    BY <2>1
  <2>3. PICK snap, allowed : Good(snap, ask, allowed)
    BY <2>2, DecisionIsGood DEF Inv
  <2>4. snap # NoSnapshot
    BY <2>3, SnapshotAssumption DEF Good
  <2> QED
    BY <2>3, <2>4, KeepType, KeepBudget DEF Inv
<1> QED
  BY <1>1, <1>2

\* Every reachable state is well typed.
THEOREM TypeCorrect == Spec => []TypeOK
<1>1. Inv => TypeOK
  BY DEF Inv
<1> QED
  BY <1>1, InitInv, NextInv, PTL DEF Spec

\* Whatever counters and states a caller presents, no more heavy validations
\* than the policy's budget are admitted while it stays on one head.
THEOREM HeavyBounded == Spec => []HeavyBudgetHolds
<1>1. Inv => HeavyBudgetHolds
  BY DEF Inv, BudgetInv, HeavyBudgetHolds
<1> QED
  BY <1>1, InitInv, NextInv, PTL DEF Spec

\* Nor more retries than the policy's budget while nothing material changes.
THEOREM RetryBounded == Spec => []RetryBudgetHolds
<1>1. Inv => RetryBudgetHolds
  BY DEF Inv, BudgetInv, RetryBudgetHolds
<1> QED
  BY <1>1, InitInv, NextInv, PTL DEF Spec

\* An edit of a frozen candidate is admitted with a material reason only.
THEOREM FrozenEdits == Spec => []FrozenEditIsReasoned
<1>1. Inv => FrozenEditIsReasoned
  BY DEF Inv
<1> QED
  BY <1>1, InitInv, NextInv, PTL DEF Spec

\* Every decision continues the kept snapshot: DONE is terminal, a freeze
\* outlives the caller's word, and work needs progress.
LEMMA StepContinues ==
  ASSUME Inv, [Next]_vars
  PROVE  /\ ~First /\ last.frozen /\ last'.head = last.head => last'.frozen
         /\ ~First /\ last.state = "DONE" => last' = last
         /\ \/ UNCHANGED vars
            \/ ~First /\ decided'.allowed /\ decided'.action # "observe"
                 /\ (last.state \in Released \/ decided'.action \in Edits)
               => Fingerprint(last') # Fingerprint(last)
<1>1. CASE UNCHANGED vars
  BY <1>1 DEF vars
<1>2. CASE Next
  <2>1. PICK cur \in Presented : \E ask \in Requests(cur) : Decide(cur, ask)
    BY <1>2 DEF Next
  <2>2. PICK ask \in Requests(cur) : Decide(cur, ask)
    BY <2>1
  <2>3. PICK snap, allowed : Good(snap, ask, allowed)
    BY <2>2, DecisionIsGood DEF Inv
  <2>4. /\ last' = snap
        /\ decided' = [action |-> ask.action, allowed |-> allowed, reason |-> ask.reason]
    BY <2>3 DEF Good, Keep
  <2>5. Continues(snap) /\ Justified(snap, ask, allowed)
    BY <2>3 DEF Good
  <2> QED
    BY <2>4, <2>5 DEF Continues, Justified
<1> QED
  BY <1>1, <1>2

\* A later snapshot of the caller cannot take a freeze back on the same head.
THEOREM FreezeStays == Spec => FreezeOutlivesCaller
<1>1. Inv /\ [Next]_vars => [~First /\ last.frozen /\ last'.head = last.head => last'.frozen]_vars
  BY StepContinues
<1> QED
  BY <1>1, InitInv, NextInv, PTL DEF Spec, FreezeOutlivesCaller

\* No later snapshot of the caller replaces a kept DONE.
THEOREM DoneStays == Spec => DoneIsTerminal
<1>1. Inv /\ [Next]_vars => [~First /\ last.state = "DONE" => last' = last]_vars
  BY StepContinues
<1> QED
  BY <1>1, InitInv, NextInv, PTL DEF Spec, DoneIsTerminal

\* No work out of a released state, and no edit at all, without a change of
\* the material fingerprint.
THEOREM ProgressNeeded == Spec => WorkNeedsProgress
<1>1. Inv /\ [Next]_vars
        => [~First /\ decided'.allowed /\ decided'.action # "observe"
              /\ (last.state \in Released \/ decided'.action \in {"mutate", "retrigger"})
            => Fingerprint(last') # Fingerprint(last)]_vars
  BY StepContinues DEF Edits
<1> QED
  BY <1>1, InitInv, NextInv, PTL DEF Spec, WorkNeedsProgress
=============================================================================
