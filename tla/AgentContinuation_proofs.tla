----------------------- MODULE AgentContinuation_proofs -----------------------
(***************************************************************************)
(* Proofs about persistent continuation, for every number of workers,      *)
(* coordinates, mechanisms and checkpoints.                                *)
(***************************************************************************)
EXTENDS AgentContinuation, TLAPS

-----------------------------------------------------------------------------
(* The inductive invariant.                                                *)

\* An accepted checkpoint, recorded or not: it is consistent by itself, the worker
\* mechanism it names is set up for its own coordinates, and it claims no more
\* retry evidence than there is.
Accepted(c) ==
  /\ c \in Checkpoint
  /\ c.mechanism \in WorkerBound => Bound(c)
  /\ PairHolds(c, c.state)
  /\ c.disposition = "terminal" => bounded.state = "DONE"
  /\ c.used <= bounded.used

TaskTypes ==
  /\ task \in Coordinates /\ unattended \in BOOLEAN
  /\ bounded \in [state: States, used: Nat] /\ changes \in Nat
  /\ resumer \in [Locators -> Resumer]
  /\ reinvoked \in Checkpoint \cup {NoCheckpoint}

CallType == [at: Stages, trusted: Coordinates \cup {NoCoordinates}, late: BOOLEAN,
             snapshot: Snapshot \cup {NoCheckpoint},
             predecessor: Checkpoint \cup {NoCheckpoint}]

\* A call, as far as it has come.
CallInv(r) ==
  /\ r \in CallType
  /\ r.at = "lifecycle" => r.trusted \in Coordinates
  /\ r.at \in {"lineage", "continuity", "first", "pair", "accepted"} /\ r.late => bounded.state = "DONE"
  /\ r.at = "lifecycle" /\ r.late => bounded.state = "DONE"
  /\ r.at \in {"lineage", "continuity", "first", "pair"} =>
       /\ r.snapshot \in Snapshot
       /\ r.snapshot.state = "DONE" => bounded.state = "DONE"
       /\ r.late => r.snapshot.state = "DONE"
  /\ r.at = "pair" => r.snapshot.used <= bounded.used
  /\ r.at = "accepted" => Accepted(r.snapshot) /\ (r.late => r.snapshot.disposition = "terminal")
  /\ r.at \in {"event", "transition", "evidence"} => r.snapshot \in Checkpoint

Inv ==
  /\ TaskTypes
  /\ chain \in Seq(Checkpoint)
  /\ \A i \in 1..Len(chain) : Accepted(chain[i])
  /\ call \in [Workers -> CallType]
  /\ \A w \in Workers : CallInv(call[w])

-----------------------------------------------------------------------------
(* What a snapshot is.                                                     *)

LEMMA SnapshotFields ==
  ASSUME NEW c \in Snapshot
  PROVE  /\ c.disposition \in Dispositions /\ c.mechanism \in Mechanisms
         /\ c.task \in Coordinates /\ c.state \in States /\ c.used \in Nat
         /\ c.mechanism \in Automatic <=> c.locator \in Locators
BY DEF Snapshot

LEMMA CheckpointIsSnapshot == Checkpoint \subseteq Snapshot
BY DEF Checkpoint

LEMMA IdleInv == CallInv(Idle) /\ CallInv(At("resumed", NoCheckpoint))
BY DEF CallInv, CallType, Idle, At, Stages

\* A pair that holds is compatible, and ends the task exactly in state DONE.
LEMMA PairIsCompatible ==
  ASSUME NEW c \in Snapshot, PairHolds(c, c.state)
  PROVE  c \in Checkpoint /\ (c.disposition = "terminal" <=> c.state = "DONE")
BY DEF Checkpoint, PairHolds, IsTerminal

-----------------------------------------------------------------------------
(* The task moves on.                                                      *)

\* What the task and its authorities never take back.
Onward ==
    /\ bounded.state = "DONE" => bounded'.state = "DONE"
  /\ bounded.used <= bounded'.used
  /\ \A l \in Locators : resumer[l].mechanism # "none" =>
       resumer'[l].mechanism = resumer[l].mechanism /\ resumer'[l].task = resumer[l].task

\* So an accepted checkpoint stays acceptable, and a call where it is.
LEMMA AcceptedStays ==
  ASSUME TaskTypes, TaskTypes', Onward, NEW c, Accepted(c)
  PROVE  Accepted(c)'
<1>1. /\ c \in Snapshot /\ c \in Checkpoint
      /\ c.used \in Nat /\ bounded.used \in Nat /\ bounded'.used \in Nat
      /\ c.mechanism \in Automatic <=> c.locator \in Locators
  BY CheckpointIsSnapshot, SnapshotFields DEF Accepted, TaskTypes
<1>2. c.used <= bounded'.used
  BY <1>1 DEF Accepted, Onward
<1>3. c.disposition = "terminal" => bounded'.state = "DONE"
  BY DEF Accepted, Onward
<1>4. ASSUME c.mechanism \in WorkerBound PROVE Bound(c)'
  <2>1. c.mechanism # "none" /\ c.locator \in Locators
    BY <1>1, <1>4 DEF Automatic, WorkerBound
  <2> QED BY <1>4, <2>1 DEF Accepted, Bound, Onward
<1>5. PairHolds(c, c.state)
  BY DEF Accepted
<1> QED BY <1>1, <1>2, <1>3, <1>4, <1>5 DEF Accepted

LEMMA CallStays ==
  ASSUME TaskTypes, TaskTypes', Onward, NEW r, CallInv(r)
  PROVE  CallInv(r)'
<1>1. r.at = "pair" => r.snapshot.used <= bounded'.used
  <2> SUFFICES ASSUME r.at = "pair" PROVE r.snapshot.used <= bounded'.used
    OBVIOUS
  <2>1. r.snapshot \in Snapshot /\ r.snapshot.used <= bounded.used
    BY DEF CallInv
  <2>2. r.snapshot.used \in Nat /\ bounded.used \in Nat /\ bounded'.used \in Nat
    BY <2>1, SnapshotFields DEF TaskTypes
  <2> QED BY <2>1, <2>2 DEF Onward
<1>2. r.at = "accepted" => Accepted(r.snapshot)'
  BY AcceptedStays DEF CallInv
<1> QED BY <1>1, <1>2 DEF CallInv, Onward

LEMMA OnwardStep ==
  ASSUME Inv, TaskTypes', Onward, chain' = chain, call' = call
  PROVE  Inv'
<1>1. \A i \in 1..Len(chain) : Accepted(chain[i])'
  BY AcceptedStays DEF Inv
<1>2. \A w \in Workers : CallInv(call[w])'
  BY CallStays DEF Inv
<1> QED BY <1>1, <1>2 DEF Inv

LEMMA EnvironmentStep == ASSUME Inv, Environment PROVE Inv'
<1>0. TaskTypes
  BY DEF Inv
<1>1. ASSUME MoveTask PROVE TaskTypes' /\ Onward
  BY <1>0, <1>1 DEF MoveTask, TaskTypes, Onward
<1>2. ASSUME MoveLifecycle PROVE TaskTypes' /\ Onward
  BY <1>0, <1>2, EnvironmentAssumption DEF MoveLifecycle, TaskTypes, Onward
<1>3. ASSUME ConsumeRetry PROVE TaskTypes' /\ Onward
  BY <1>0, <1>3 DEF ConsumeRetry, TaskTypes, Onward
<1>4. ASSUME OwnerReinvokes PROVE TaskTypes' /\ Onward
  <2>1. Latest \in Checkpoint
    BY <1>4 DEF OwnerReinvokes, Latest, Inv
  <2> QED BY <1>0, <1>4, <2>1 DEF OwnerReinvokes, TaskTypes, Onward
<1>5. chain' = chain /\ call' = call
  BY DEF Environment, MoveTask, MoveLifecycle, ConsumeRetry, OwnerReinvokes
<1> QED BY <1>1, <1>2, <1>3, <1>4, <1>5, OnwardStep DEF Environment

LEMMA MechanismStep == ASSUME Inv, NEW l \in Locators, Mechanism(l) PROVE Inv'
<1>0. TaskTypes
  BY DEF Inv
<1>1. ASSUME Arm(l) PROVE TaskTypes' /\ Onward
  BY <1>0, <1>1, EnvironmentAssumption DEF Arm, TaskTypes, Resumer, Onward
<1>2. ASSUME FireOrCancel(l) PROVE TaskTypes' /\ Onward
  <2>1. PICK end \in {"fired", "cancelled"} : resumer' = [resumer EXCEPT ![l].is = end]
    BY <1>2 DEF FireOrCancel
  <2>2. resumer' = [k \in Locators |->
                     IF k = l THEN [resumer[l] EXCEPT !.is = end] ELSE resumer[k]]
    BY <1>0, <2>1 DEF TaskTypes
  <2>3. \A k \in Locators : resumer'[k].mechanism = resumer[k].mechanism
                            /\ resumer'[k].task = resumer[k].task
    BY <1>0, <2>2 DEF TaskTypes, Resumer
  <2>4. TaskTypes'
    <3>1. [resumer[l] EXCEPT !.is = end] \in Resumer
      BY <1>0 DEF TaskTypes, Resumer
    <3>2. resumer' \in [Locators -> Resumer]
      BY <1>0, <2>2, <3>1 DEF TaskTypes
    <3> QED BY <1>0, <1>2, <3>2 DEF FireOrCancel, TaskTypes
  <2> QED BY <1>0, <1>2, <2>3, <2>4 DEF FireOrCancel, TaskTypes, Onward
<1>3. chain' = chain /\ call' = call
  BY DEF Mechanism, Arm, FireOrCancel
<1> QED BY <1>1, <1>2, <1>3, OnwardStep DEF Mechanism

-----------------------------------------------------------------------------
(* A call goes on.                                                         *)

\* One call changes to r; the task and the chain stay.
LEMMA OneCall ==
  ASSUME Inv, NEW w \in Workers, NEW r, CallInv(r),
         call' = [call EXCEPT ![w] = r], UNCHANGED <<taskVars, chain>>
  PROVE  Inv'
<1>1. TaskTypes' /\ Onward
  <2>1. TaskTypes'
    BY DEF Inv, TaskTypes, taskVars
  <2>2. bounded.used \in Nat
    BY DEF Inv, TaskTypes
  <2> QED BY <2>1, <2>2 DEF Onward, taskVars
<1>2. ASSUME NEW q, CallInv(q) PROVE CallInv(q)'
  BY <1>1, <1>2, CallStays DEF Inv
<1>3. \A i \in 1..Len(chain) : Accepted(chain[i])'
  BY <1>1, AcceptedStays DEF Inv
<1>4. call' \in [Workers -> CallType]
  BY DEF Inv, CallInv
<1>5. ASSUME NEW v \in Workers PROVE CallInv(call[v])'
  <2>1. PICK q : q = call'[v]
    OBVIOUS
  <2>2. q = IF v = w THEN r ELSE call[v]
    BY <2>1 DEF Inv
  <2>3. CallInv(q)
    BY <2>2 DEF Inv
  <2>4. CallInv(q)'
    BY <1>2, <2>3
  <2> QED BY <2>1, <2>4 DEF CallInv, Accepted, Bound
<1> QED BY <1>1, <1>3, <1>4, <1>5 DEF Inv, taskVars

\* A call that raises, or goes on where it may.
LEMMA ProceedStep ==
  ASSUME Inv, NEW w \in Workers, NEW ok \in BOOLEAN, NEW stage, Proceed(w, ok, stage),
         ok => CallInv([call[w] EXCEPT !.at = stage])
  PROVE  Inv'
<1>1. CallInv(IF ok THEN [call[w] EXCEPT !.at = stage] ELSE Idle)
  BY IdleInv
<1>2. call' = [call EXCEPT ![w] = IF ok THEN [call[w] EXCEPT !.at = stage] ELSE Idle]
  BY DEF Proceed, Inv
<1> QED BY <1>1, <1>2, OneCall DEF Proceed

LEMMA BeginWriteStep == ASSUME Inv, NEW w \in Workers, BeginWrite(w) PROVE Inv'
<1>1. PICK late \in BOOLEAN : late = IsTerminal(bounded.state)
  BY Zenon DEF IsTerminal
<1> DEFINE r == [At("lifecycle", NoCheckpoint) EXCEPT !.trusted = task, !.late = late]
<1>3. late => bounded.state = "DONE"
  BY <1>1 DEF IsTerminal
<1>4. CallInv(r)
  <2>1. r \in CallType /\ r.at = "lifecycle" /\ r.trusted = task /\ r.late = late
    BY DEF At, CallType, Stages, Inv, TaskTypes
  <2> QED BY <1>3, <2>1 DEF CallInv, Inv, TaskTypes
<1>5. call' = [call EXCEPT ![w] = r]
  BY <1>1 DEF BeginWrite
<1> QED BY <1>4, <1>5, OneCall DEF BeginWrite

LEMMA CompareLifecycleStep == ASSUME Inv, NEW w \in Workers, CompareLifecycle(w) PROVE Inv'
<1>1. PICK p \in Proposals, t \in Coordinates, s \in BoundedStates, u \in 0..MaxUsed :
        LET c == [disposition |-> p.disposition, mechanism |-> p.mechanism,
                  locator |-> p.locator, task |-> t, state |-> s, used |-> u]
        IN  /\ IsCurrent(w, c)
            /\ call' = [call EXCEPT ![w].at = "lineage", ![w].snapshot = c,
                                    ![w].trusted = NoCoordinates]
  BY DEF CompareLifecycle
<1> DEFINE c == [disposition |-> p.disposition, mechanism |-> p.mechanism,
                 locator |-> p.locator, task |-> t, state |-> s, used |-> u]
           r == [call[w] EXCEPT !.at = "lineage", !.snapshot = c, !.trusted = NoCoordinates]
<1>2. c \in Snapshot /\ c.state = bounded.state
  <2>1. p \in Shape /\ (p.mechanism \in Automatic <=> p.locator \in Locators)
    BY ProposalAssumption
  <2>2. u \in Nat /\ s \in States
    BY BoundAssumption, EnvironmentAssumption
  <2> QED BY <1>1, <2>1, <2>2 DEF Snapshot, Shape, IsCurrent
<1>3. call[w] \in CallType /\ CallInv(call[w]) /\ call[w].at = "lifecycle"
  BY DEF CompareLifecycle, Inv
<1>4. call' = [call EXCEPT ![w] = r]
  BY <1>1 DEF Inv
<1>5. CallInv(r)
  BY <1>2, <1>3 DEF CallInv, CallType, Stages
<1> QED BY <1>4, <1>5, OneCall DEF CompareLifecycle

LEMMA LatestAccepted == ASSUME Inv, chain # <<>> PROVE Latest \in Checkpoint
BY DEF Inv, Latest

LEMMA ReadPredecessorStep == ASSUME Inv, NEW w \in Workers, ReadPredecessor(w) PROVE Inv'
<1> DEFINE r == [call[w] EXCEPT !.at = "continuity", !.predecessor = Latest]
<1>1. call[w] \in CallType /\ CallInv(call[w]) /\ call[w].at = "lineage"
  BY DEF ReadPredecessor, Inv
<1>2. Latest \in Checkpoint \cup {NoCheckpoint}
  BY LatestAccepted DEF Latest
<1>3. CallInv(r)
  BY <1>1, <1>2 DEF CallInv, CallType, Stages
<1>4. call' = [call EXCEPT ![w] = r]
  BY DEF ReadPredecessor, Inv
<1> QED BY <1>3, <1>4, OneCall DEF ReadPredecessor

LEMMA ProveFirstStep == ASSUME Inv, NEW w \in Workers, ProveFirst(w) PROVE Inv'
<1>1. CallInv([call[w] EXCEPT !.at = "first"])
  BY DEF ProveFirst, Inv, CallInv, CallType, Stages
<1> QED BY <1>1, ProceedStep DEF ProveFirst

\* Either comparison leaves a snapshot within the evidence there is.
LEMMA ComparedStep ==
  ASSUME Inv, NEW w \in Workers, CompareFirst(w) \/ CompareWithPredecessor(w)
  PROVE  Inv'
<1> DEFINE c == call[w].snapshot
<1>1. call[w] \in CallType /\ CallInv(call[w]) /\ call[w].at \in {"first", "continuity"}
  BY DEF CompareFirst, CompareWithPredecessor, Inv
<1>2. c \in Snapshot /\ c.used \in Nat /\ bounded.used \in Nat
  BY <1>1, SnapshotFields DEF CallInv, Inv, TaskTypes
<1>3. ASSUME c.used <= bounded.used PROVE CallInv([call[w] EXCEPT !.at = "pair"])
  BY <1>1, <1>2, <1>3 DEF CallInv, CallType, Stages
<1>4. CASE CompareFirst(w)
  <2>1. MatchesEvidence(c) => c.used <= bounded.used
    BY <1>2 DEF MatchesEvidence
  <2>2. MatchesEvidence(c) \in BOOLEAN
    BY DEF MatchesEvidence
  <2> QED BY <1>3, <1>4, <2>1, <2>2, ProceedStep DEF CompareFirst
<1>5. CASE CompareWithPredecessor(w)
  <2>1. PreservesContinuity(call[w].predecessor, c) => c.used <= bounded.used
    BY DEF PreservesContinuity
  <2>2. PreservesContinuity(call[w].predecessor, c) \in BOOLEAN
    BY DEF PreservesContinuity
  <2> QED BY <1>3, <1>5, <2>1, <2>2, ProceedStep DEF CompareWithPredecessor
<1> QED BY <1>4, <1>5

LEMMA JudgePairStep == ASSUME Inv, NEW w \in Workers, JudgePair(w) PROVE Inv'
<1> DEFINE c == call[w].snapshot
           ok == PairHolds(c, StateForPair(w)) /\ FutureHolds(c)
<1>1. call[w] \in CallType /\ CallInv(call[w]) /\ call[w].at = "pair"
  BY DEF JudgePair, Inv
<1>2. ASSUME ok PROVE CallInv([call[w] EXCEPT !.at = "accepted"])
  <2>1. c \in Snapshot /\ c.used <= bounded.used /\ (c.state = "DONE" => bounded.state = "DONE")
    BY <1>1 DEF CallInv
  <2>2. PairHolds(c, c.state)
    BY <1>2 DEF StateForPair
  <2>3. c \in Checkpoint /\ (c.disposition = "terminal" <=> c.state = "DONE")
    BY <2>1, <2>2, PairIsCompatible
  <2>4. c.mechanism \in WorkerBound => Bound(c)
    BY <1>2 DEF FutureHolds, LiveAndBound
  <2>5. Accepted(c)
    BY <2>1, <2>2, <2>3, <2>4 DEF Accepted
  <2> QED BY <1>1, <2>3, <2>5 DEF CallInv, CallType, Stages
<1>3. ok \in BOOLEAN
  BY DEF PairHolds, FutureHolds
<1> QED BY <1>2, <1>3, ProceedStep DEF JudgePair

LEMMA RecordStep == ASSUME Inv, NEW w \in Workers, Record(w) PROVE Inv'
<1> DEFINE c == call[w].snapshot
<1>1. Accepted(c) /\ c \in Checkpoint
  BY DEF Record, Inv, CallInv, Accepted
<1>2. TaskTypes' /\ UNCHANGED <<bounded, resumer>>
  BY DEF Record, Inv, TaskTypes, taskVars
<1>3. chain' \in Seq(Checkpoint) /\ Len(chain') = Len(chain) + 1
      /\ \A i \in 1..Len(chain') : chain'[i] = IF i = Len(chain) + 1 THEN c ELSE chain[i]
  BY <1>1 DEF Record, Inv
<1>4. ASSUME NEW i \in 1..Len(chain') PROVE Accepted(chain[i])'
  <2>1. PICK q : q = chain'[i]
    OBVIOUS
  <2>2. Accepted(q)
    <3>1. CASE i = Len(chain) + 1
      BY <1>1, <1>3, <2>1, <3>1
    <3>2. CASE i \in 1..Len(chain)
      <4>1. q = chain[i]
        BY <1>3, <2>1, <3>2 DEF Inv
      <4> QED BY <3>2, <4>1 DEF Inv
    <3> QED BY <1>3, <3>1, <3>2 DEF Inv
  <2> QED BY <1>2, <2>1, <2>2 DEF Accepted, Bound
<1>5. ASSUME NEW v \in Workers PROVE CallInv(call[v])'
  <2>1. PICK q : q = call'[v]
    OBVIOUS
  <2>2. q = IF v = w THEN Idle ELSE call[v]
    BY <2>1 DEF Record, Inv
  <2>3. CallInv(q)
    BY <2>2, IdleInv DEF Inv
  <2> QED BY <1>2, <2>1, <2>3 DEF CallInv, Accepted, Bound
<1>6. call' \in [Workers -> CallType]
  BY IdleInv DEF Record, Inv, CallInv
<1> QED BY <1>2, <1>3, <1>4, <1>5, <1>6 DEF Inv

LEMMA ResumeStep == ASSUME Inv, NEW w \in Workers, Resume(w) PROVE Inv'
<1>1. CASE BeginResume(w)
  <2>1. CallInv(At("event", Latest))
    BY <1>1, LatestAccepted, CheckpointIsSnapshot DEF BeginResume, CallInv, CallType, At, Stages
  <2> QED BY <1>1, <2>1, OneCall DEF BeginResume
<1>2. CASE AuthenticateCause(w)
  <2>1. CallInv([call[w] EXCEPT !.at = "transition"])
    BY <1>2 DEF AuthenticateCause, Inv, CallInv, CallType, Stages
  <2>2. CauseHolds(call[w].snapshot) \in BOOLEAN
    BY DEF CauseHolds, EventHappened, Bound
  <2> QED BY <1>2, <2>1, <2>2, ProceedStep DEF AuthenticateCause
<1>3. CASE ProveTransition(w)
  <2>1. CallInv([call[w] EXCEPT !.at = "evidence"])
    BY <1>3 DEF ProveTransition, Inv, CallInv, CallType, Stages
  <2> QED BY <1>3, <2>1, ProceedStep DEF ProveTransition
<1>4. CASE CompareEvidence(w)
  BY <1>4, IdleInv, OneCall DEF CompareEvidence, Inv
<1> QED BY <1>1, <1>2, <1>3, <1>4 DEF Resume

-----------------------------------------------------------------------------
(* The results.                                                            *)

LEMMA Initial == ASSUME Init PROVE Inv
<1>1. TaskTypes
  BY DEF Init, TaskTypes, States, Resumer
<1>2. chain = <<>> /\ call = [w \in Workers |-> Idle]
  BY DEF Init
<1> QED BY <1>1, <1>2, IdleInv DEF Inv, CallInv

LEMMA Inductive == ASSUME Inv, [Next]_vars PROVE Inv'
<1>1. ASSUME NEW w \in Workers, Write(w) PROVE Inv'
  <2>1. CASE Abandon(w)
    BY <2>1, IdleInv, OneCall DEF Abandon
  <2> QED BY <1>1, <2>1, BeginWriteStep, CompareLifecycleStep, ReadPredecessorStep,
             ProveFirstStep, ComparedStep, JudgePairStep, RecordStep DEF Write
<1>2. CASE UNCHANGED vars
  <2>1. TaskTypes' /\ Onward
    BY <1>2 DEF Inv, TaskTypes, Onward, vars, taskVars
  <2> QED BY <1>2, <2>1, OnwardStep DEF vars
<1> QED BY <1>1, <1>2, EnvironmentStep, MechanismStep, ResumeStep DEF Next

\* Everything below follows from this invariant: whatever was accepted, recorded
\* or not, is consistent and names a mechanism set up for it, ends the task only when it is
\* done, and claims no retry evidence beyond the bounded authority's.
THEOREM Invariance == Spec => []Inv
BY Initial, Inductive, PTL DEF Spec

\* Task, authorities, chain and calls stay well typed; what is accepted names a
\* mechanism its disposition may name.
THEOREM TypeCorrect == Spec => []TypeOK
<1>1. Inv => TypeOK
  BY DEF Inv, TaskTypes, CallType, CallInv, Accepted, TypeOK
<1> QED BY <1>1, Invariance, PTL

\* Whoever was let go by checkpoint_write is let in again by resume_read, as far as
\* the checkpoint and its cause go, when the mechanism it named has fired.
THEOREM WakeupsAreHeard == Spec => []WakeupIsHeard
<1>1. ASSUME NEW c, Accepted(c), c.mechanism \in WorkerBound,
             resumer[c.locator].is = "fired"
      PROVE  CauseHolds(c)
  BY <1>1 DEF Accepted, CauseHolds, EventHappened, Automatic
<1>2. Inv => WakeupIsHeard
  BY <1>1 DEF Inv, Accepted, WakeupIsHeard, Range
<1> QED BY <1>2, Invariance, PTL

\* A checkpoint ends the task exactly when the bounded authority has.
THEOREM TerminalityIsBounded == Spec => []TerminalityAgrees
<1>1. Inv => TerminalityAgrees
  BY DEF Inv, Accepted, CallInv, TerminalityAgrees, Range
<1> QED BY <1>1, Invariance, PTL

\* No resume goes back behind the retry evidence of any recorded checkpoint.
THEOREM ResumeKeepsEvidence == Spec => ResumeResetsNothing
<1>1. ASSUME Inv, Next, NEW w \in Workers, Resumes(w)
      PROVE  CompareEvidence(w)
  <2>1. call'[w] # call[w]
    BY <1>1 DEF Resumes
  <2>2. call' # call
    BY <2>1
  <2>3. PICK v \in Workers : Write(v) \/ Resume(v)
    BY <1>1, <2>2 DEF Next, Environment, MoveTask, MoveLifecycle, ConsumeRetry, OwnerReinvokes,
         Mechanism, Arm, FireOrCancel
  <2>4. v = w
    BY <1>1, <2>1, <2>3 DEF Inv, Write, Resume, BeginWrite, CompareLifecycle, ReadPredecessor,
         ProveFirst, CompareFirst, CompareWithPredecessor, JudgePair, Record, Abandon,
         BeginResume, AuthenticateCause, ProveTransition, CompareEvidence, Proceed
  <2> QED
    BY <1>1, <2>3, <2>4 DEF Resumes, Write, Resume, BeginWrite, CompareLifecycle, ReadPredecessor,
         ProveFirst, CompareFirst, CompareWithPredecessor, JudgePair, Record, Abandon,
         BeginResume, AuthenticateCause, ProveTransition, Proceed, Idle, At
<1>2. ASSUME Inv, NEW w \in Workers, CompareEvidence(w), Resumes(w), NEW c \in Range(chain)
      PROVE  c.used <= call[w].snapshot.used
  <2>1. c.used <= bounded.used
    BY <1>2 DEF Inv, Accepted, Range
  <2>2. MatchesEvidence(call[w].snapshot)
    BY <1>2 DEF CompareEvidence, Resumes, Idle, At, Inv
  <2> QED BY <2>1, <2>2 DEF MatchesEvidence
<1>3. Inv /\ [Next]_vars =>
        [\A w \in Workers : Resumes(w) =>
           \A c \in Range(chain) : c.used <= call[w].snapshot.used]_vars
  BY <1>1, <1>2
<1> QED BY <1>3, Invariance, PTL DEF Spec, ResumeResetsNothing
=============================================================================
