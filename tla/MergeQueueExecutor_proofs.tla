---------------------- MODULE MergeQueueExecutor_proofs ----------------------
(***************************************************************************)
(* Proofs about the governed Merge Queue executor, for every number of     *)
(* comments, pulls, heads, actors and workflows and every bound.           *)
(***************************************************************************)
EXTENDS MergeQueueExecutor, TLAPS

-----------------------------------------------------------------------------
(* Types.                                                                  *)

\* The facts a request rests on have names.
LEMMA FactsForType == ASSUME NEW c \in Comments PROVE FactsFor(c) \subseteq Facts
<1>1. Request[c].pull \in Pulls
  BY RequestAssumption
<1>2. ASSUME NEW i \in 1..Len(Sources[Request[c].pull])
      PROVE  SourceOf(c, i) \in Workflows
  BY <1>1, SourcesAssumption DEF SourceOf
<1> QED
  BY <1>2 DEF FactsFor, Facts

\* A run that goes on, or ends, stays well typed.
LEMMA GotoType ==
  ASSUME TypeOK, NEW c \in Comments, NEW there \in Active, Goto(c, there)
  PROVE  /\ pc' \in [Comments -> Active \cup {"absent", "pending", "ended"}]
         /\ held' \in [Comments -> SUBSET Facts]
         /\ outcome' \in [Comments -> Outcomes]
<1>1. HeldNow(c) \subseteq Facts
  BY FactsForType DEF HeldNow
<1> QED
  BY <1>1 DEF TypeOK, Goto

\* An ended run stays well typed.
LEMMA FinishType ==
  ASSUME TypeOK, NEW c \in Comments, NEW o \in Outcomes, Finish(c, o)
  PROVE  /\ pc' \in [Comments -> Active \cup {"absent", "pending", "ended"}]
         /\ held' \in [Comments -> SUBSET Facts]
         /\ outcome' \in [Comments -> Outcomes]
BY DEF TypeOK, Finish

\* GitHub's users change facts within their types.
LEMMA EnvironmentType == TypeOK /\ Environment => TypeOK'
<1> SUFFICES ASSUME TypeOK, Environment PROVE TypeOK'
  OBVIOUS
<1>1. ASSUME NEW p \in Pulls, ChangePull(p) PROVE TypeOK'
  <2>1. PICK state \in {"open", "closed"}, m \in BOOLEAN, h \in Heads :
          pull' = [pull EXCEPT ![p] = [state |-> state, onMain |-> m, head |-> h]]
    BY <1>1 DEF ChangePull
  <2>2. [state |-> state, onMain |-> m, head |-> h] \in PullState
    BY DEF PullState
  <2>3. pull' \in [Pulls -> PullState]
    BY <2>1, <2>2 DEF TypeOK
  <2> QED
    BY <1>1, <2>3 DEF TypeOK, ChangePull, Change, serverVars
<1>2. ASSUME NEW p \in Pulls, NEW h \in Heads, ChangeChecks(p, h) PROVE TypeOK'
  BY <1>2 DEF TypeOK, ChangeChecks, Change, Checks, serverVars
<1>3. ASSUME NEW c \in Comments, EditComment(c) PROVE TypeOK'
  BY <1>3 DEF TypeOK, EditComment, Change, serverVars
<1>4. ASSUME NEW a \in Actors, ChangeMembership(a) PROVE TypeOK'
  BY <1>4 DEF TypeOK, ChangeMembership, Change, serverVars
<1>5. ASSUME NEW p \in Pulls, NEW a \in Actors, ChangePermission(p, a) PROVE TypeOK'
  BY <1>5 DEF TypeOK, ChangePermission, Change, serverVars
<1>6. ASSUME NEW m \in Mains, AdvanceMain(m) PROVE TypeOK'
  BY <1>6 DEF TypeOK, AdvanceMain, Change, serverVars
<1>7. ASSUME NEW u \in queued, LeaveQueue(u) PROVE TypeOK'
  <2>1. u \in 1..Len(ledger)
    BY DEF TypeOK
  <2>2. ledger[u] \in Entry
    BY <2>1 DEF TypeOK
  <2>3. ledger[u].pull \in Pulls
    BY <2>2 DEF Entry
  <2>4. PICK s \in {"merged", pull[ledger[u].pull].state} :
          pull' = [pull EXCEPT ![ledger[u].pull].state = s]
    BY <1>7 DEF LeaveQueue
  <2>5. pull[ledger[u].pull] \in PullState
    BY <2>3 DEF TypeOK
  <2>6. [pull[ledger[u].pull] EXCEPT !.state = s] \in PullState
    BY <2>5 DEF PullState
  <2>7. pull' \in [Pulls -> PullState]
    BY <2>3, <2>4, <2>6 DEF TypeOK
  <2> QED
    BY <1>7, <2>7 DEF TypeOK, LeaveQueue
<1> QED
  BY <1>1, <1>2, <1>3, <1>4, <1>5, <1>6, <1>7 DEF Environment

\* The merge-async service keeps the types of its answers and its ledger.
LEMMA ServerType == TypeOK /\ Server => TypeOK'
<1> SUFFICES ASSUME TypeOK, NEW c \in Comments,
                    ServerAccept(c) \/ ServerConflict(c) \/ ServerRefuse(c)
             PROVE  TypeOK'
  BY DEF Server
<1>1. ASSUME NEW status \in Statuses, NEW uuid \in Nat, NEW bound \in BOOLEAN,
             Answer(c, status, uuid, bound)
      PROVE  wire' \subseteq Comments /\ reply' \in [Comments -> Reply]
  BY <1>1 DEF TypeOK, Answer, Reply
<1>2. CASE ServerAccept(c)
  <2>1. wire' \subseteq Comments /\ reply' \in [Comments -> Reply]
    <3>1. Len(ledger) + 1 \in Nat /\ NoUuid \in Nat
      BY DEF TypeOK, NoUuid
    <3>2. PICK status \in {"accepted", "error"}, uuid \in {Len(ledger) + 1, NoUuid},
               bound \in BOOLEAN : Answer(c, status, uuid, bound)
      BY <1>2 DEF ServerAccept
    <3> QED
      BY <1>1, <3>1, <3>2 DEF Statuses
  <2>2. ledger' \in Seq(Entry) /\ queued' \subseteq 1..Len(ledger')
    <3>1. [comment |-> c, pull |-> Request[c].pull, head |-> Request[c].head] \in Entry
      BY RequestAssumption DEF Entry
    <3>2. ledger' = Append(ledger, [comment |-> c, pull |-> Request[c].pull,
                                    head |-> Request[c].head])
      BY <1>2 DEF ServerAccept
    <3>3. ledger' \in Seq(Entry) /\ Len(ledger') = Len(ledger) + 1
      BY <3>1, <3>2 DEF TypeOK
    <3>4. queued' = queued \cup {Len(ledger) + 1}
      BY <1>2 DEF ServerAccept
    <3> QED
      <4>1. Len(ledger) \in Nat
        BY DEF TypeOK
      <4>2. ASSUME NEW u \in queued' PROVE u \in 1..Len(ledger')
        BY <3>3, <3>4, <4>1 DEF TypeOK
      <4> QED
        BY <3>3, <4>2
  <2> QED
    BY <1>2, <2>1, <2>2 DEF TypeOK, ServerAccept, factVars
<1>3. CASE ServerConflict(c)
  <2>1. QueuedFor(Request[c].pull) \cup {NoUuid} \subseteq Nat
    <3>1. queued \subseteq Nat
      BY DEF TypeOK
    <3>2. QueuedFor(Request[c].pull) \subseteq queued
      BY DEF QueuedFor
    <3>3. NoUuid \in Nat
      BY DEF NoUuid
    <3> QED
      BY <3>1, <3>2, <3>3, Zenon
  <2>2. wire' \subseteq Comments /\ reply' \in [Comments -> Reply]
    BY <1>1, <1>3, <2>1 DEF ServerConflict, Statuses
  <2> QED
    BY <1>3, <2>2 DEF TypeOK, ServerConflict, factVars
<1>4. CASE ServerRefuse(c)
  <2>1. wire' \subseteq Comments /\ reply' \in [Comments -> Reply]
    BY <1>1, <1>4 DEF ServerRefuse, Statuses, NoUuid
  <2> QED
    BY <1>4, <2>1 DEF TypeOK, ServerRefuse, factVars
<1> QED
  BY <1>2, <1>3, <1>4

\* A step of a run keeps the types of the run.
LEMMA RunType ==
  ASSUME TypeOK, NEW c \in Comments, PostComment(c) \/ Rerun(c) \/ Execute(c) \/ Die(c)
  PROVE  TypeOK'
<1>1. CASE PostComment(c) \/ Rerun(c)
  <2>1. EnterGroup(c)
    BY <1>1 DEF PostComment, Rerun
  <2>2. /\ pc' \in [Comments -> Active \cup {"absent", "pending", "ended"}]
        /\ outcome' \in [Comments -> Outcomes]
    BY <2>1 DEF TypeOK, EnterGroup, Outcomes
  <2>3. attempt' \in [Comments -> Nat]
    BY <2>1 DEF TypeOK, EnterGroup
  <2> QED
    BY <2>1, <2>2, <2>3 DEF TypeOK, EnterGroup, factVars, serverVars
\* A step that goes on or ends, and changes nothing but the place it is at.
<1>2. ASSUME UNCHANGED Local, pass' \in [Comments -> {1, 2}], nth' \in [Comments -> Nat],
             NEW there \in Active, NEW o \in Outcomes, Goto(c, there) \/ Finish(c, o)
      PROVE  TypeOK'
  BY <1>2, GotoType, FinishType DEF TypeOK, Local, factVars, serverVars
<1>3. UNCHANGED <<pass, nth>> => pass' \in [Comments -> {1, 2}] /\ nth' \in [Comments -> Nat]
  BY DEF TypeOK
<1>4. CASE StartRun(c)
  <2>1. pass' \in [Comments -> {1, 2}] /\ nth' \in [Comments -> Nat]
    BY <1>4 DEF StartRun, TypeOK
  <2> QED
    BY <1>2, <1>4, <2>1 DEF StartRun, Active, Outcomes
<1>5. CASE CheckoutMain(c) \/ LaunchExecutor(c) \/ BindPrincipal(c) \/ LosePutAnswer(c) \/ Die(c)
  BY <1>2, <1>3, <1>5
  DEF CheckoutMain, LaunchExecutor, BindPrincipal, LosePutAnswer, Die,
      Active, Qualifying, Binding, Outcomes
<1>6. CASE ReadComment(c) \/ ReadGate(c) \/ ReadMembership(c) \/ ReadPermission(c) \/ ReadMainLast(c)
  BY <1>2, <1>3, <1>6
  DEF ReadComment, ReadGate, ReadMembership, ReadPermission, ReadMainLast, Check,
      Active, Qualifying, Binding, Outcomes
<1>7. CASE ReadPull(c)
  <2>1. pass' \in [Comments -> {1, 2}] /\ nth' \in [Comments -> Nat]
    BY <1>7 DEF ReadPull, TypeOK
  <2> QED
    BY <1>2, <1>7, <2>1 DEF ReadPull, Check, Active, Qualifying, Outcomes
<1>8. CASE ReadSource(c)
  <2>1. pass' \in [Comments -> {1, 2}] /\ nth' \in [Comments -> Nat]
    BY <1>8 DEF ReadSource, TypeOK
  <2>2. AfterSource(c) \in Active
    BY DEF AfterSource, Active, Qualifying, Binding
  <2> QED
    BY <1>2, <1>8, <2>1, <2>2 DEF ReadSource, Check, Outcomes
<1>9. CASE SendPut(c)
  <2>1. "await" \in Active
    BY DEF Active
  <2>2. NoReply \in Reply
    BY DEF NoReply, Reply, Statuses, NoUuid
  <2>3. /\ pc' \in [Comments -> Active \cup {"absent", "pending", "ended"}]
        /\ held' \in [Comments -> SUBSET Facts] /\ outcome' \in [Comments -> Outcomes]
    BY <1>9, <2>1, GotoType DEF SendPut
  <2>4. /\ sent' \in [Comments -> Nat] /\ wire' \subseteq Comments
        /\ reply' \in [Comments -> Reply]
    BY <1>9, <2>2 DEF SendPut, TypeOK
  <2> QED
    BY <1>9, <2>3, <2>4 DEF SendPut, TypeOK, factVars
<1>10. CASE ReceiveAccepted(c) \/ ReceiveConflict(c) \/ ReceiveRefusal(c)
  <2>1. /\ UNCHANGED Local /\ UNCHANGED <<pass, nth>>
        /\ (\E there \in Active : Goto(c, there)) \/ (\E o \in Outcomes : Finish(c, o))
    <3>1. CASE ReceiveAccepted(c)
      BY <3>1 DEF ReceiveAccepted, AfterAccepted, Active, Landing, Outcomes
    <3>2. CASE ReceiveConflict(c)
      BY <3>2 DEF ReceiveConflict, AfterConflict, Active, Landing, Outcomes
    <3>3. CASE ReceiveRefusal(c)
      BY <3>3 DEF ReceiveRefusal, RefusalOutcome, Outcomes
    <3> QED
      BY <1>10, <3>1, <3>2, <3>3
  <2>2. "await" \in Active /\ "none" \in Outcomes
    BY DEF Active, Outcomes
  <2> QED
    BY <1>2, <1>3, <2>1, <2>2
<1>11. CASE PersistLog(c) \/ PersistSummary(c) \/ CheckMetadata(c)
  <2>1. reply[c].uuid \in Nat
    BY DEF TypeOK, Reply
  <2>2. handle' \in [Comments -> Handle]
    <3>1. handle \in [Comments -> Handle] /\ handle[c] \in Handle
      BY DEF TypeOK
    <3>2. /\ [handle[c] EXCEPT !.log = reply[c].uuid] \in Handle
          /\ [handle[c] EXCEPT !.summary = reply[c].uuid] \in Handle
          /\ [handle[c] EXCEPT !.blocker = reply[c].uuid] \in Handle
      BY <2>1, <3>1 DEF Handle
    <3>3. \/ handle' = [handle EXCEPT ![c].log = reply[c].uuid]
          \/ handle' = [handle EXCEPT ![c].summary = reply[c].uuid]
          \/ handle' = [handle EXCEPT ![c].blocker = reply[c].uuid]
          \/ handle' = handle
      BY <1>11 DEF PersistLog, PersistSummary, CheckMetadata, Block
    <3> QED
      BY <3>1, <3>2, <3>3
  <2>3. ASSUME NEW there \in Active, Goto(c, there) \/ Finish(c, "unproved"),
               UNCHANGED <<factVars, pat, serverVars, attempt, sent, pass, nth>>
        PROVE  TypeOK'
    BY <2>2, <2>3, GotoType, FinishType DEF TypeOK, factVars, serverVars, Outcomes
  <2> QED
    BY <1>11, <2>3 DEF PersistLog, PersistSummary, CheckMetadata, Block, Active, Landing
<1>12. CASE ReadBack(c) \/ ReadIdentity(c)
  BY <1>2, <1>3, <1>12 DEF ReadBack, ReadIdentity, Verdict, Active, Landing, Outcomes
<1> QED
  BY <1>1, <1>4, <1>5, <1>6, <1>7, <1>8, <1>9, <1>10, <1>11, <1>12
  DEF Execute, Qualify, Bind, Receive, Land

\* The initial states are well typed.
LEMMA InitType == Init => TypeOK
<1> SUFFICES ASSUME Init PROVE TypeOK
  OBVIOUS
<1>1. pull \in [Pulls -> PullState]
  <2>1. [state: {"open"}, onMain: {TRUE}, head: Heads] \subseteq PullState
    BY DEF PullState
  <2> QED
    BY <2>1 DEF Init
<1>2. checks \in [Pulls -> [Heads -> Checks]]
  BY ChecksAssumption DEF Init
<1>3. reply \in [Comments -> Reply] /\ handle \in [Comments -> Handle]
  BY DEF Init, NoReply, Reply, Statuses, NoUuid, NoHandle, Handle
<1>4. ledger \in Seq(Entry) /\ queued \subseteq 1..Len(ledger)
  BY DEF Init
<1> QED
  BY <1>1, <1>2, <1>3, <1>4 DEF Init, TypeOK, Outcomes

\* Every step, and stuttering, keeps the types.
LEMMA TypeStep == TypeOK /\ [Next]_vars => TypeOK'
<1>1. TypeOK /\ UNCHANGED vars => TypeOK'
  BY DEF TypeOK, vars
<1> QED
  BY <1>1, EnvironmentType, ServerType, RunType DEF Next

\* Every reachable state is well typed.
THEOREM TypeCorrect == Spec => []TypeOK
BY InitType, TypeStep, PTL DEF Spec
-----------------------------------------------------------------------------
(* The inductive invariant: what the place a run is at, and what it has    *)
(* reported, say about its attempts, its PUT, the answer to it and the     *)
(* receipts of it.                                                         *)

BeforePut == {"checkout", "launch", "put"} \cup Qualifying \cup Binding

\* The PUT may still be sent by this run, or will be by its first attempt.
MaySend(c) ==
  pc[c] \in {"absent"} \cup BeforePut \/ (pc[c] = "pending" /\ attempt[c] = 1)

OnRecord(c) == \E u \in Uuids : ledger[u].comment = c
OwnEntry(c) == [comment |-> c, pull |-> Request[c].pull, head |-> Request[c].head]

\* Only the first attempt works, and an outcome ends it.
AttemptInv(c) ==
  /\ pc[c] = "absent" <=> attempt[c] = 0
  /\ pc[c] \in Active => attempt[c] = 1
  /\ pc[c] \in Active \/ MaySend(c) <=> outcome[c] = "none"

\* What has been sent follows from the place and the outcome.
SentInv(c) ==
  /\ sent[c] \in {0, 1}
  /\ MaySend(c) => sent[c] = 0
  /\ pc[c] \in Active \ BeforePut => sent[c] = 1
  /\ outcome[c] \in {"cancelled", "ignored", "blocked", "rejected"} => sent[c] = 0
  /\ outcome[c] \in {"refused", "unanswered", "unproved", "accepted", "reconcile"} => sent[c] = 1

\* A PUT is on the wire, or answered, or neither; what is on record was sent.
AnswerInv(c) ==
  /\ c \in wire => sent[c] = 1 /\ reply[c] = NoReply
  /\ reply[c].status # "none" => sent[c] = 1
  /\ OnRecord(c) => sent[c] = 1 /\ c \notin wire /\ reply[c].status \in {"accepted", "error"}
  /\ reply[c].status = "accepted" /\ reply[c].uuid # NoUuid =>
       reply[c].uuid \in Uuids /\ ledger[reply[c].uuid] = OwnEntry(c)
  /\ reply[c].status = "conflict" /\ reply[c].uuid # NoUuid =>
       reply[c].uuid \in Uuids /\ ledger[reply[c].uuid].pull = Request[c].pull

\* Accepted, with an identity.
Accepted(c) == reply[c].status = "accepted" /\ reply[c].uuid # NoUuid
Logged(c)   == handle[c].log = reply[c].uuid
Bound(c)    == reply[c].uuid # NoUuid => ledger[reply[c].uuid].head = Request[c].head

\* Receipts name the accepted request, and are written in order.
ReceiptInv(c) ==
  /\ handle[c] # NoHandle => reply[c].status = "accepted"
  /\ {handle[c].log, handle[c].summary, handle[c].blocker} \subseteq {NoUuid, reply[c].uuid}
  /\ pc[c] \in {"log", "summary", "metadata"} => Accepted(c)
  /\ pc[c] \in {"readback", "identity"} => Accepted(c) \/ reply[c].status = "conflict"
  /\ pc[c] = "readback" => reply[c].uuid # NoUuid
  /\ pc[c] \in {"summary", "metadata"} => Logged(c)
  /\ pc[c] = "metadata" => handle[c].summary = reply[c].uuid
  /\ pc[c] \in {"readback", "identity"} /\ Accepted(c) =>
       Logged(c) /\ handle[c].summary = reply[c].uuid
  /\ pc[c] = "identity" => Bound(c)

\* Reports agree with the answer.
ReportInv(c) ==
  /\ outcome[c] = "accepted" => Accepted(c) /\ Logged(c) /\ handle[c].summary = reply[c].uuid
  /\ outcome[c] = "refused" => reply[c].status = "refused"
  /\ outcome[c] = "reconcile" => reply[c].status = "conflict" /\ Bound(c)
  /\ outcome[c] = "unproved" =>
       \/ reply[c].status = "accepted" /\ reply[c].uuid \in {handle[c].log, handle[c].blocker}
       \/ reply[c].status = "conflict"

RunInv(c) == AttemptInv(c) /\ SentInv(c) /\ AnswerInv(c) /\ ReceiptInv(c) /\ ReportInv(c)
Inv == TypeOK /\ \A c \in Comments : RunInv(c)
-----------------------------------------------------------------------------
(* Steps of others.                                                        *)

\* The ledger only grows: what is on record stays where it is.
LEMMA LedgerGrows ==
  ASSUME TypeOK, NEW e \in Entry, ledger' = Append(ledger, e)
  PROVE  /\ Uuids' = Uuids \cup {Len(ledger) + 1}
         /\ \A u \in Uuids : ledger'[u] = ledger[u]
         /\ ledger'[Len(ledger) + 1] = e
<1>1. ledger \in Seq(Entry) /\ Len(ledger) \in Nat
  BY DEF TypeOK
<1>2. Len(ledger') = Len(ledger) + 1
  BY <1>1
<1>3. \A u \in Uuids : ledger'[u] = ledger[u]
  BY <1>1 DEF Uuids
<1>4. ledger'[Len(ledger) + 1] = e
  BY <1>1
<1>5. Uuids' = Uuids \cup {Len(ledger) + 1}
  BY <1>1, <1>2 DEF Uuids
<1> QED
  BY <1>3, <1>4, <1>5

\* The run of d, and the service's dealings with it, stand still.
SameRun(d) ==
  /\ pc'[d] = pc[d] /\ attempt'[d] = attempt[d] /\ outcome'[d] = outcome[d]
  /\ sent'[d] = sent[d] /\ handle'[d] = handle[d]
SameAnswer(d) == reply'[d] = reply[d] /\ (d \in wire' <=> d \in wire)
OthersRecord(d) ==
  \/ ledger' = ledger
  \/ \E e \in Entry : e.comment # d /\ ledger' = Append(ledger, e)

\* A step that leaves a run and its answer alone keeps what is known of it.
LEMMA Frame ==
  ASSUME TypeOK, NEW d \in Comments, RunInv(d), SameRun(d), SameAnswer(d), OthersRecord(d)
  PROVE  RunInv(d)'
<1>1. OnRecord(d)' <=> OnRecord(d)
  <2>1. CASE ledger' = ledger
    BY <2>1 DEF OnRecord, Uuids
  <2>2. ASSUME NEW e \in Entry, e.comment # d, ledger' = Append(ledger, e)
        PROVE  OnRecord(d)' <=> OnRecord(d)
    BY <2>2, LedgerGrows DEF OnRecord
  <2> QED
    BY <2>1, <2>2 DEF OthersRecord
<1>2. ASSUME NEW u \in Uuids PROVE u \in Uuids' /\ ledger'[u] = ledger[u]
  <2>1. CASE ledger' = ledger
    BY <2>1 DEF Uuids
  <2>2. CASE \E e \in Entry : e.comment # d /\ ledger' = Append(ledger, e)
    BY <2>2, LedgerGrows
  <2> QED
    BY <2>1, <2>2 DEF OthersRecord
<1>3. AttemptInv(d)' /\ SentInv(d)'
  BY DEF RunInv, AttemptInv, SentInv, MaySend, SameRun
<1>4. AnswerInv(d)'
  BY <1>1, <1>2 DEF RunInv, AnswerInv, SameRun, SameAnswer, OwnEntry
<1>5. reply[d].status \in {"accepted", "conflict"} => Bound(d)' = Bound(d)
  <2> SUFFICES ASSUME reply[d].status \in {"accepted", "conflict"}, reply[d].uuid # NoUuid
               PROVE  ledger'[reply[d].uuid] = ledger[reply[d].uuid]
    BY DEF Bound, SameAnswer
  <2>1. reply[d].uuid \in Uuids
    BY DEF RunInv, AnswerInv
  <2> QED
    BY <1>2, <2>1
<1>6. ReceiptInv(d)'
  BY <1>5 DEF RunInv, ReceiptInv, Accepted, Logged, SameRun, SameAnswer
<1>7. ReportInv(d)'
  BY <1>5 DEF RunInv, ReportInv, Accepted, Logged, SameRun, SameAnswer
<1> QED
  BY <1>3, <1>4, <1>6, <1>7 DEF RunInv

\* Changing facts touches neither runs nor answers.
LEMMA EnvironmentInv == ASSUME Inv, Environment PROVE Inv'
<1>1. TypeOK'
  BY EnvironmentType DEF Inv
<1>2. UNCHANGED <<wire, reply, ledger, pc, attempt, outcome, sent, handle>>
  BY DEF Environment, ChangePull, ChangeChecks, EditComment, ChangeMembership,
         ChangePermission, AdvanceMain, LeaveQueue, serverVars
<1>3. ASSUME NEW d \in Comments PROVE RunInv(d)'
  BY <1>2, Frame DEF Inv, SameRun, SameAnswer, OthersRecord
<1> QED
  BY <1>1, <1>3 DEF Inv

-----------------------------------------------------------------------------
(* Steps of the service.                                                   *)

\* A PUT on the wire has no receipt and no report beyond its loss.
LEMMA OnTheWire ==
  ASSUME TypeOK, NEW c \in Comments, RunInv(c), c \in wire
  PROVE  /\ sent[c] = 1 /\ reply[c] = NoReply /\ handle[c] = NoHandle /\ ~OnRecord(c)
         /\ pc[c] \notin BeforePut \cup Landing \cup {"absent"}
         /\ outcome[c] \notin {"accepted", "refused", "reconcile", "unproved"}
<1>1. sent[c] = 1 /\ reply[c] = NoReply /\ ~OnRecord(c) /\ ~MaySend(c)
  BY DEF RunInv, AnswerInv, SentInv
<1>2. reply[c].status = "none"
  BY <1>1 DEF NoReply
<1> QED
  BY <1>1, <1>2 DEF RunInv, ReceiptInv, ReportInv, Accepted, MaySend, Landing

\* An answer to a PUT on the wire settles it.
LEMMA AnswerStep ==
  ASSUME TypeOK, NEW c \in Comments, RunInv(c), c \in wire, SameRun(c),
         NEW status \in Statuses \ {"none"}, NEW uuid \in Nat, NEW b \in BOOLEAN,
         Answer(c, status, uuid, b), AnswerInv(c)'
  PROVE  RunInv(c)'
<1>1. reply'[c] = [status |-> status, uuid |-> uuid, bound |-> b] /\ c \notin wire'
  BY DEF Answer, TypeOK
<1>2. AttemptInv(c)' /\ SentInv(c)'
  BY DEF RunInv, AttemptInv, SentInv, MaySend, SameRun
<1>3. ReceiptInv(c)'
  BY OnTheWire DEF RunInv, ReceiptInv, SameRun, Landing, NoHandle
<1>4. ReportInv(c)'
  BY OnTheWire DEF RunInv, ReportInv, SameRun
<1> QED
  BY <1>2, <1>3, <1>4 DEF RunInv

\* The service answers a PUT that was sent, once, and records it under its own UUID.
LEMMA ServerInv == ASSUME Inv, Server PROVE Inv'
<1> SUFFICES ASSUME NEW c \in Comments, ServerAccept(c) \/ ServerConflict(c) \/ ServerRefuse(c)
             PROVE  Inv'
  BY DEF Server
<1>1. TypeOK /\ TypeOK'
  BY ServerType DEF Inv, Server
<1>2. RunInv(c) /\ c \in wire
  BY DEF Inv, ServerAccept, ServerConflict, ServerRefuse
<1>3. \A d \in Comments : SameRun(d)
  BY DEF ServerAccept, ServerConflict, ServerRefuse, SameRun
<1>4. ASSUME NEW d \in Comments \ {c} PROVE RunInv(d)'
  <2>1. SameAnswer(d)
    <3>1. \E status, uuid, b : Answer(c, status, uuid, b)
      BY DEF ServerAccept, ServerConflict, ServerRefuse
    <3> QED
      BY <1>1, <3>1 DEF Answer, SameAnswer, TypeOK
  <2>2. OthersRecord(d)
    <3>1. CASE ServerAccept(c)
      <4>1. OwnEntry(c) \in Entry /\ OwnEntry(c).comment = c
        BY RequestAssumption DEF OwnEntry, Entry
      <4>2. ledger' = Append(ledger, OwnEntry(c))
        BY <3>1 DEF ServerAccept, OwnEntry
      <4> QED
        BY <4>1, <4>2 DEF OthersRecord
    <3>2. CASE ServerConflict(c) \/ ServerRefuse(c)
      BY <3>2 DEF ServerConflict, ServerRefuse, OthersRecord
    <3> QED
      BY <3>1, <3>2
  <2> QED
    BY <1>1, <1>3, <2>1, <2>2, Frame DEF Inv
<1>5. CASE ServerAccept(c)
  <2> DEFINE u == Len(ledger) + 1
  <2>1. u \in Nat /\ NoUuid \in Nat /\ u # NoUuid
    BY <1>1 DEF TypeOK, NoUuid
  <2>2. PICK status \in {"accepted", "error"}, uuid \in {u, NoUuid}, b \in BOOLEAN :
          Answer(c, status, uuid, b)
    BY <1>5 DEF ServerAccept
  <2>3. OwnEntry(c) \in Entry /\ ledger' = Append(ledger, OwnEntry(c))
    BY <1>5, RequestAssumption DEF ServerAccept, OwnEntry, Entry
  <2>4. u \in Uuids' /\ ledger'[u] = OwnEntry(c)
    BY <1>1, <2>3, LedgerGrows
  <2>5. reply'[c] = [status |-> status, uuid |-> uuid, bound |-> b] /\ c \notin wire'
    BY <1>1, <2>2 DEF Answer, TypeOK
  <2>6. AnswerInv(c)'
    BY <1>2, <1>3, <2>1, <2>4, <2>5, OnTheWire, <1>1 DEF AnswerInv, SameRun, OwnEntry
  <2> QED
    BY <1>1, <1>2, <1>3, <1>4, <2>1, <2>2, <2>6, AnswerStep DEF Inv, Statuses
<1>6. CASE ServerConflict(c)
  <2>1. PICK u \in QueuedFor(Request[c].pull) \cup {NoUuid} : Answer(c, "conflict", u, FALSE)
    BY <1>6 DEF ServerConflict
  <2>2. u \in Nat /\ (u # NoUuid => u \in Uuids /\ ledger[u].pull = Request[c].pull)
    BY <1>1 DEF TypeOK, QueuedFor, Uuids, NoUuid
  <2>3. reply'[c] = [status |-> "conflict", uuid |-> u, bound |-> FALSE] /\ c \notin wire'
    BY <1>1, <2>1 DEF Answer, TypeOK
  <2>4. ledger' = ledger
    BY <1>6 DEF ServerConflict
  <2>5. AnswerInv(c)'
    BY <1>1, <1>2, <1>3, <2>2, <2>3, <2>4, OnTheWire DEF AnswerInv, SameRun, OnRecord, Uuids
  <2> QED
    BY <1>1, <1>2, <1>3, <1>4, <2>1, <2>2, <2>5, AnswerStep DEF Inv, Statuses
<1>7. CASE ServerRefuse(c)
  <2>1. PICK status \in {"refused", "error"} : Answer(c, status, NoUuid, FALSE)
    BY <1>7 DEF ServerRefuse
  <2>2. reply'[c] = [status |-> status, uuid |-> NoUuid, bound |-> FALSE] /\ c \notin wire'
    BY <1>1, <2>1 DEF Answer, TypeOK
  <2>3. ledger' = ledger
    BY <1>7 DEF ServerRefuse
  <2>4. AnswerInv(c)'
    BY <1>1, <1>2, <1>3, <2>2, <2>3, OnTheWire DEF AnswerInv, SameRun, OnRecord, Uuids
  <2> QED
    BY <1>1, <1>2, <1>3, <1>4, <2>1, <2>4, AnswerStep DEF Inv, Statuses, NoUuid
<1> QED
  BY <1>5, <1>6, <1>7
-----------------------------------------------------------------------------
(* Steps of the runs.                                                      *)

\* Entering the group: an older pending run is cancelled before it has sent
\* anything, and a rerun is never a first attempt.
LEMMA EnterGroupInv == ASSUME Inv, NEW c \in Comments, PostComment(c) \/ Rerun(c) PROVE Inv'
<1>1. TypeOK' /\ TypeOK
  BY RunType DEF Inv
<1>2. EnterGroup(c) /\ pc[c] \in {"absent", "ended"}
  BY DEF PostComment, Rerun
<1>3. UNCHANGED <<wire, reply, ledger, sent, handle>>
  BY <1>2 DEF EnterGroup, serverVars
<1>4. ASSUME NEW d \in Comments PROVE RunInv(d)'
  <2>1. RunInv(d)
    BY DEF Inv
  <2>2. CASE d # c /\ pc[d] # "pending"
    <3>1. SameRun(d)
      BY <1>1, <1>2, <1>3, <2>2 DEF EnterGroup, SameRun, TypeOK
    <3> QED
      BY <1>1, <1>3, <2>1, <3>1, Frame DEF SameAnswer, OthersRecord
  <2>3. CASE d # c /\ pc[d] = "pending"
    <3>1. /\ pc'[d] = "ended" /\ attempt'[d] = attempt[d]
          /\ outcome'[d] = IF outcome[d] = "none" THEN "cancelled" ELSE outcome[d]
      BY <1>1, <1>2, <2>3 DEF EnterGroup, TypeOK
    <3>2. AttemptInv(d)' /\ SentInv(d)'
      BY <1>1, <1>3, <2>1, <2>3, <3>1
      DEF RunInv, AttemptInv, SentInv, MaySend, Active, BeforePut, Qualifying, Binding, Landing
    <3>3. AnswerInv(d)' /\ ReceiptInv(d)' /\ ReportInv(d)'
      BY <1>3, <2>1, <2>3, <3>1
      DEF RunInv, AnswerInv, ReceiptInv, ReportInv, Accepted, Logged, Bound, OnRecord, Uuids
    <3> QED
      BY <3>2, <3>3 DEF RunInv
  <2>4. CASE d = c
    <3>1. pc'[c] = "pending" /\ attempt'[c] = attempt[c] + 1 /\ outcome'[c] = outcome[c]
      BY <1>1, <1>2 DEF EnterGroup, TypeOK
    <3>2. attempt[c] \in Nat
      BY <1>1 DEF TypeOK
    <3>3. AttemptInv(c)' /\ SentInv(c)'
      BY <1>2, <1>3, <2>1, <2>4, <3>1, <3>2
      DEF RunInv, AttemptInv, SentInv, MaySend, Active, BeforePut, Qualifying, Binding, Landing
    <3>4. AnswerInv(c)' /\ ReceiptInv(c)' /\ ReportInv(c)'
      BY <1>3, <2>1, <2>4, <3>1
      DEF RunInv, AnswerInv, ReceiptInv, ReportInv, Accepted, Logged, Bound, OnRecord, Uuids
    <3> QED
      BY <2>4, <3>3, <3>4 DEF RunInv
  <2> QED
    BY <2>2, <2>3, <2>4
<1> QED
  BY <1>1, <1>4 DEF Inv

\* A step of a run leaves all other runs alone.
LEMMA OtherRunsSame ==
  ASSUME TypeOK, NEW c \in Comments, Execute(c) \/ Die(c), NEW d \in Comments \ {c}
  PROVE  SameRun(d) /\ SameAnswer(d) /\ OthersRecord(d)
<1>1. /\ \/ \E there : Goto(c, there)
         \/ \E o : Finish(c, o)
      /\ UNCHANGED <<ledger, attempt>>
      /\ \/ UNCHANGED <<sent, wire, reply>>
         \/ /\ \E n : sent' = [sent EXCEPT ![c] = n]
            /\ wire' = wire \cup {c}
            /\ reply' = [reply EXCEPT ![c] = NoReply]
      /\ \/ UNCHANGED handle
         \/ \E h : handle' = [handle EXCEPT ![c] = h]
  <2>1. CASE StartRun(c) \/ CheckoutMain(c) \/ LaunchExecutor(c) \/ Qualify(c) \/ Bind(c)
               \/ Receive(c) \/ ReadBack(c) \/ ReadIdentity(c) \/ Die(c)
    BY <2>1
    DEF StartRun, CheckoutMain, LaunchExecutor, Qualify, ReadComment, ReadPull, ReadGate,
        ReadSource, Bind, BindPrincipal, ReadMembership, ReadPermission, ReadMainLast, Check,
        Receive, ReceiveAccepted, ReceiveConflict, ReceiveRefusal, LosePutAnswer,
        ReadBack, ReadIdentity, Die, Local, serverVars
  <2>2. CASE SendPut(c)
    BY <2>2 DEF SendPut
  <2>3. CASE PersistLog(c) \/ PersistSummary(c) \/ CheckMetadata(c)
    BY <2>3 DEF PersistLog, PersistSummary, CheckMetadata, Block, serverVars
  <2> QED
    BY <2>1, <2>2, <2>3 DEF Execute, Land
<1>2. pc'[d] = pc[d] /\ outcome'[d] = outcome[d]
  BY <1>1 DEF Goto, Finish, TypeOK
<1> QED
  BY <1>1, <1>2 DEF TypeOK, SameRun, SameAnswer, OthersRecord

\* What is known of a run survives the steps of the others.
LEMMA OtherRuns ==
  ASSUME TypeOK, NEW c \in Comments, Execute(c) \/ Die(c), NEW d \in Comments \ {c}, RunInv(d)
  PROVE  RunInv(d)'
BY OtherRunsSame, Frame

\* Going on, or ending, from a place of the first attempt.
LEMMA WorkStep ==
  ASSUME TypeOK, NEW c \in Comments, RunInv(c), pc[c] \in Active,
         NEW there, NEW o, Goto(c, there) \/ Finish(c, o)
  PROVE  /\ attempt[c] = 1 /\ outcome[c] = "none"
         /\ Goto(c, there) => pc'[c] = there /\ outcome'[c] = "none"
         /\ Finish(c, o) => pc'[c] = "ended" /\ outcome'[c] = o
BY DEF TypeOK, RunInv, AttemptInv, Goto, Finish

Early == {"blocked", "rejected", "ignored", "died"}

\* Before the PUT.
LEMMA EarlyStep ==
  ASSUME Inv, NEW c \in Comments, pc[c] \in BeforePut, UNCHANGED Local,
         NEW there \in BeforePut, NEW o \in Early, Goto(c, there) \/ Finish(c, o)
  PROVE  RunInv(c)'
<1>1. TypeOK /\ RunInv(c) /\ pc[c] \in Active
  BY DEF Inv, BeforePut, Active
<1>2. /\ attempt[c] = 1 /\ outcome[c] = "none"
      /\ Goto(c, there) => pc'[c] = there /\ outcome'[c] = "none"
      /\ Finish(c, o) => pc'[c] = "ended" /\ outcome'[c] = o
  BY <1>1, WorkStep
<1>3. UNCHANGED <<wire, reply, ledger, attempt, sent, handle>>
  BY DEF Local, serverVars
<1>4. sent[c] = 0 /\ there \in Active
  BY <1>1 DEF RunInv, SentInv, MaySend, BeforePut, Active
<1>5. AttemptInv(c)' /\ SentInv(c)'
  BY <1>2, <1>3, <1>4
  DEF AttemptInv, SentInv, MaySend, Early, BeforePut, Active, Qualifying, Binding, Landing
<1>6. AnswerInv(c)'
  BY <1>1, <1>3 DEF RunInv, AnswerInv, OnRecord, Uuids
<1>7. ReceiptInv(c)' /\ ReportInv(c)'
  BY <1>1, <1>2, <1>3
  DEF RunInv, ReceiptInv, ReportInv, Accepted, Logged, Bound, Early, BeforePut, Qualifying, Binding
<1> QED
  BY <1>5, <1>6, <1>7 DEF RunInv

Late == {"unanswered", "unproved", "refused", "accepted", "reconcile", "died"}

\* After the PUT: the attempt, what was sent and what is on record are settled.
LEMMA LateStep ==
  ASSUME Inv, NEW c \in Comments, pc[c] \in Active \ BeforePut,
         UNCHANGED <<wire, reply, ledger, attempt, sent>>,
         NEW there \in Landing, NEW o \in Late, Goto(c, there) \/ Finish(c, o)
  PROVE  /\ AttemptInv(c)' /\ SentInv(c)' /\ AnswerInv(c)'
         /\ Goto(c, there) => pc'[c] = there /\ outcome'[c] = "none"
         /\ Finish(c, o) => pc'[c] = "ended" /\ outcome'[c] = o
<1>1. TypeOK /\ RunInv(c)
  BY DEF Inv
<1>2. /\ attempt[c] = 1 /\ outcome[c] = "none"
      /\ Goto(c, there) => pc'[c] = there /\ outcome'[c] = "none"
      /\ Finish(c, o) => pc'[c] = "ended" /\ outcome'[c] = o
  BY <1>1, WorkStep
<1>3. sent[c] = 1 /\ there \in Active
  BY <1>1 DEF RunInv, SentInv, Active
<1>4. AttemptInv(c)' /\ SentInv(c)'
  BY <1>2, <1>3
  DEF AttemptInv, SentInv, MaySend, Late, BeforePut, Active, Qualifying, Binding, Landing
<1>5. AnswerInv(c)'
  BY <1>1 DEF RunInv, AnswerInv, OnRecord, Uuids
<1> QED
  BY <1>2, <1>4, <1>5

\* The PUT is the first and only one of its comment.
LEMMA SendPutInv == ASSUME Inv, NEW c \in Comments, SendPut(c) PROVE RunInv(c)'
<1>1. TypeOK /\ RunInv(c) /\ pc[c] = "put" /\ pc[c] \in BeforePut \cap Active
  BY DEF Inv, SendPut, BeforePut, Active
<1>2. Goto(c, "await") /\ UNCHANGED <<ledger, attempt, handle>>
  BY DEF SendPut
<1>3. attempt[c] = 1 /\ pc'[c] = "await" /\ outcome'[c] = "none"
  BY <1>1, <1>2 DEF RunInv, AttemptInv, TypeOK, Goto
<1>4. sent[c] = 0 /\ sent'[c] = 1 /\ c \in wire' /\ reply'[c] = NoReply
  BY <1>1 DEF SendPut, RunInv, SentInv, MaySend, TypeOK
<1>5. handle[c] = NoHandle /\ ~OnRecord(c) /\ reply'[c].status = "none"
  BY <1>1, <1>4 DEF RunInv, AnswerInv, ReceiptInv, NoReply
<1>6. AttemptInv(c)' /\ SentInv(c)'
  BY <1>2, <1>3, <1>4
  DEF AttemptInv, SentInv, MaySend, Active, BeforePut, Qualifying, Binding
<1>7. AnswerInv(c)'
  BY <1>2, <1>4, <1>5 DEF AnswerInv, OnRecord, Uuids
<1>8. ReceiptInv(c)' /\ ReportInv(c)'
  BY <1>2, <1>3, <1>5 DEF ReceiptInv, ReportInv, NoHandle
<1> QED
  BY <1>6, <1>7, <1>8 DEF RunInv

\* Every step before the PUT leaves it unsent and the receipts empty.
LEMMA EarlyRun ==
  ASSUME Inv, NEW c \in Comments,
         StartRun(c) \/ CheckoutMain(c) \/ LaunchExecutor(c) \/ Qualify(c) \/ Bind(c)
  PROVE  RunInv(c)'
<1>1. CASE StartRun(c)
  <2>1. TypeOK /\ RunInv(c) /\ pc[c] = "pending" /\ UNCHANGED Local
    BY <1>1 DEF Inv, StartRun
  <2>2. attempt[c] = 1 => outcome[c] = "none" /\ sent[c] = 0
    BY <2>1 DEF RunInv, AttemptInv, SentInv, MaySend
  <2>3. attempt[c] # 1 => outcome[c] # "none"
    BY <2>1
    DEF RunInv, AttemptInv, MaySend, Active, BeforePut, Qualifying, Binding, Landing
  <2>4. \/ attempt[c] = 1 /\ pc'[c] = "checkout" /\ outcome'[c] = "none"
        \/ attempt[c] = 1 /\ pc'[c] = "ended" /\ outcome'[c] = "ignored"
        \/ attempt[c] # 1 /\ pc'[c] = "ended" /\ outcome'[c] = outcome[c]
    BY <1>1, <2>1, <2>2, <2>3 DEF StartRun, AdmitsAttempt, Goto, Finish, TypeOK
  <2>5. UNCHANGED <<wire, reply, ledger, attempt, sent, handle>>
    BY <2>1 DEF Local, serverVars
  <2>6. attempt[c] # 0
    BY <2>1 DEF RunInv, AttemptInv
  <2>7. AttemptInv(c)' /\ SentInv(c)'
    BY <2>1, <2>2, <2>3, <2>4, <2>5, <2>6
    DEF RunInv, AttemptInv, SentInv, MaySend, BeforePut, Active, Qualifying, Binding, Landing
  <2>8. AnswerInv(c)'
    BY <2>1, <2>5 DEF RunInv, AnswerInv, OnRecord, Uuids
  <2>9. ReceiptInv(c)' /\ ReportInv(c)'
    BY <2>1, <2>4, <2>5 DEF RunInv, ReceiptInv, ReportInv, Accepted, Logged, Bound
  <2> QED
    BY <2>7, <2>8, <2>9 DEF RunInv
<1>2. CASE CheckoutMain(c) \/ LaunchExecutor(c) \/ BindPrincipal(c)
  BY <1>2, EarlyStep
  DEF CheckoutMain, LaunchExecutor, BindPrincipal, BeforePut, Early, Qualifying, Binding
<1>3. CASE Qualify(c)
  <2>1. AfterSource(c) \in BeforePut
    BY DEF AfterSource, BeforePut, Qualifying, Binding
  <2> QED
    BY <1>3, <2>1, EarlyStep
    DEF Qualify, ReadComment, ReadPull, ReadGate, ReadSource, Check,
        BeforePut, Early, Qualifying, Binding
<1>4. CASE ReadMembership(c) \/ ReadPermission(c) \/ ReadMainLast(c)
  BY <1>4, EarlyStep
  DEF ReadMembership, ReadPermission, ReadMainLast, Check, BeforePut, Early, Qualifying, Binding
<1> QED
  BY <1>1, <1>2, <1>3, <1>4 DEF Bind

\* A receipt or a blocker written by the run that received the 202.
LEMMA PersistRun ==
  ASSUME Inv, NEW c \in Comments, PersistLog(c) \/ PersistSummary(c) \/ CheckMetadata(c)
  PROVE  RunInv(c)'
<1>1. TypeOK /\ RunInv(c)
  BY DEF Inv
<1>2. /\ pc[c] \in {"log", "summary", "metadata"} /\ pc[c] \in Active \ BeforePut
      /\ Accepted(c) /\ UNCHANGED <<wire, reply, ledger, attempt, sent>>
  BY <1>1
  DEF PersistLog, PersistSummary, CheckMetadata, serverVars, RunInv, ReceiptInv,
      Active, Landing, BeforePut, Qualifying, Binding
<1>3. handle[c] \in Handle
  BY <1>1 DEF TypeOK
<1>4. PICK there \in {"summary", "metadata", "readback"} :
        Goto(c, there) \/ Finish(c, "unproved")
  BY DEF PersistLog, PersistSummary, CheckMetadata, Block
<1>5. /\ AttemptInv(c)' /\ SentInv(c)' /\ AnswerInv(c)'
      /\ \/ pc'[c] = there /\ outcome'[c] = "none"
         \/ pc'[c] = "ended" /\ outcome'[c] = "unproved"
  BY <1>2, <1>4, LateStep DEF Landing, Late
<1>6. Accepted(c)'
  BY <1>2 DEF Accepted
<1>7. reply[c].uuid \in Uuids /\ ledger[reply[c].uuid] = OwnEntry(c)
  BY <1>1, <1>2 DEF RunInv, AnswerInv, Accepted
<1>8. Bound(c)'
  BY <1>2, <1>7 DEF Bound, OwnEntry
<1>9. CASE PersistLog(c)
  <2>1. \/ /\ pc'[c] = "summary" /\ outcome'[c] = "none"
           /\ handle'[c] = [handle[c] EXCEPT !.log = reply[c].uuid]
        \/ /\ pc'[c] = "ended" /\ outcome'[c] = "unproved"
           /\ handle'[c] = [handle[c] EXCEPT !.blocker = reply[c].uuid]
    <3>1. CASE Goto(c, "summary") /\ handle' = [handle EXCEPT ![c].log = reply[c].uuid]
      BY <1>1, <1>2, <3>1, WorkStep DEF TypeOK
    <3>2. CASE Finish(c, "unproved") /\ handle' = [handle EXCEPT ![c].blocker = reply[c].uuid]
      BY <1>1, <1>2, <3>2, WorkStep DEF TypeOK
    <3> QED
      BY <1>9, <3>1, <3>2 DEF PersistLog, Block
  <2> QED
    BY <1>1, <1>2, <1>3, <1>5, <1>6, <1>8, <2>1
    DEF RunInv, ReceiptInv, ReportInv, Accepted, Logged, Handle
<1>10. CASE PersistSummary(c)
  <2>1. \/ /\ pc'[c] = "metadata" /\ outcome'[c] = "none"
           /\ handle'[c] = [handle[c] EXCEPT !.summary = reply[c].uuid]
        \/ /\ pc'[c] = "ended" /\ outcome'[c] = "unproved"
           /\ handle'[c] = [handle[c] EXCEPT !.blocker = reply[c].uuid]
    BY <1>1, <1>2, <1>10 DEF PersistSummary, Block, Goto, Finish, TypeOK, RunInv, AttemptInv
  <2>2. Logged(c)
    BY <1>1, <1>10 DEF PersistSummary, RunInv, ReceiptInv
  <2> QED
    BY <1>1, <1>2, <1>3, <1>5, <1>6, <1>8, <2>1, <2>2
    DEF RunInv, ReceiptInv, ReportInv, Accepted, Logged, Handle
<1>11. CASE CheckMetadata(c)
  <2>1. \/ pc'[c] = "readback" /\ outcome'[c] = "none" /\ handle'[c] = handle[c]
        \/ /\ pc'[c] = "ended" /\ outcome'[c] = "unproved"
           /\ handle'[c] \in {handle[c], [handle[c] EXCEPT !.blocker = reply[c].uuid]}
    BY <1>1, <1>2, <1>11 DEF CheckMetadata, Block, Goto, Finish, TypeOK, RunInv, AttemptInv
  <2>2. Logged(c) /\ handle[c].summary = reply[c].uuid
    BY <1>1, <1>11 DEF CheckMetadata, RunInv, ReceiptInv
  <2> QED
    BY <1>1, <1>2, <1>3, <1>5, <1>6, <1>8, <2>1, <2>2
    DEF RunInv, ReceiptInv, ReportInv, Accepted, Logged, Handle
<1> QED
  BY <1>9, <1>10, <1>11

\* Every step after the PUT agrees with the answer it received.
LEMMA LateRun ==
  ASSUME Inv, NEW c \in Comments,
         Receive(c) \/ ReadBack(c) \/ ReadIdentity(c)
  PROVE  RunInv(c)'
<1>1. TypeOK /\ RunInv(c)
  BY DEF Inv
<1>2. /\ pc[c] \in {"await", "readback", "identity"} /\ pc[c] \in Active \ BeforePut
      /\ UNCHANGED <<wire, reply, ledger, attempt, sent, handle>>
  BY DEF Receive, ReceiveAccepted, ReceiveConflict, ReceiveRefusal, LosePutAnswer, ReadBack,
         ReadIdentity, Local, serverVars, Active, Landing, BeforePut, Qualifying, Binding
<1>3. ASSUME NEW there \in Landing, NEW o \in Late, Goto(c, there) \/ Finish(c, o)
      PROVE  /\ AttemptInv(c)' /\ SentInv(c)' /\ AnswerInv(c)'
             /\ Goto(c, there) => pc'[c] = there /\ outcome'[c] = "none"
             /\ Finish(c, o) => pc'[c] = "ended" /\ outcome'[c] = o
  BY <1>2, <1>3, LateStep
<1>4. /\ Accepted(c)' = Accepted(c) /\ Logged(c)' = Logged(c) /\ Bound(c)' = Bound(c)
  BY <1>2 DEF Accepted, Logged, Bound
<1>5. CASE Receive(c)
  <2>1. PICK there \in {"log", "readback", "identity"},
             o \in {"unanswered", RefusalOutcome(c)} :
          \/ Goto(c, there) /\ there = "log" /\ Accepted(c)
          \/ Goto(c, there) /\ there = "readback" /\ reply[c].status = "conflict" /\ reply[c].uuid # NoUuid
          \/ Goto(c, there) /\ there = "identity" /\ reply[c].status = "conflict" /\ reply[c].uuid = NoUuid
          \/ Finish(c, o)
    BY <1>5 DEF Receive, ReceiveAccepted, ReceiveConflict, ReceiveRefusal, LosePutAnswer,
                AfterAccepted, AfterConflict, Accepted
  <2>2. o \in Late /\ (o = "refused" => reply[c].status = "refused") /\ o \in {"unanswered", "refused"}
    BY DEF RefusalOutcome, Late
  <2>3. there \in Landing
    BY DEF Landing
  <2>4. ReceiptInv(c)'
    <3>1. ~Accepted(c) \/ reply[c].status # "conflict"
      BY DEF Accepted
    <3>2. /\ \/ pc'[c] \in {"log", "ended"}
             \/ pc'[c] = "readback" /\ reply[c].status = "conflict" /\ reply[c].uuid # NoUuid
             \/ pc'[c] = "identity" /\ reply[c].status = "conflict" /\ Bound(c)
          /\ pc'[c] = "log" => Accepted(c)
      BY <1>3, <2>1, <2>2, <2>3 DEF Bound
    <3> QED
      BY <1>1, <1>2, <1>4, <3>1, <3>2 DEF RunInv, ReceiptInv
  <2>5. ReportInv(c)'
    BY <1>1, <1>2, <1>3, <1>4, <2>1, <2>2, <2>3 DEF RunInv, ReportInv
  <2> QED
    BY <1>3, <2>1, <2>2, <2>3, <2>4, <2>5 DEF RunInv
<1>6. CASE ReadBack(c)
  <2>1. \/ Goto(c, "identity") /\ Bound(c)
        \/ Finish(c, "unproved")
    BY <1>6 DEF ReadBack, RecordBindsHead, Bound
  <2>2. "identity" \in Landing /\ "unproved" \in Late
    BY DEF Landing, Late
  <2>3. \/ pc'[c] = "identity" /\ outcome'[c] = "none" /\ Bound(c)
        \/ pc'[c] = "ended" /\ outcome'[c] = "unproved"
    BY <1>3, <2>1, <2>2
  <2>4. pc[c] = "readback" /\ (Accepted(c) \/ reply[c].status = "conflict")
    BY <1>1, <1>6 DEF ReadBack, RunInv, ReceiptInv
  <2>5. ReceiptInv(c)'
    BY <1>1, <1>2, <1>4, <2>3, <2>4 DEF RunInv, ReceiptInv
  <2>6. ReportInv(c)'
    BY <1>1, <1>2, <2>3, <2>4 DEF RunInv, ReceiptInv, ReportInv, Accepted, Logged
  <2> QED
    BY <1>3, <2>1, <2>2, <2>5, <2>6 DEF RunInv
<1>7. CASE ReadIdentity(c)
  <2>1. Finish(c, Verdict(c)) \/ Finish(c, "unproved")
    BY <1>7 DEF ReadIdentity
  <2>2. Verdict(c) \in Late /\ "unproved" \in Late /\ "identity" \in Landing
    BY DEF Verdict, Landing, Late
  <2>3. ReceiptInv(c)' /\ ReportInv(c)'
    BY <1>1, <1>2, <1>3, <1>4, <1>7, <2>1, <2>2
    DEF ReadIdentity, RunInv, ReceiptInv, ReportInv, Accepted, Logged, Verdict
  <2> QED
    BY <1>3, <2>1, <2>2, <2>3 DEF RunInv
<1> QED
  BY <1>5, <1>6, <1>7

\* A run may die anywhere: it loses no receipt and reports nothing more.
LEMMA DieRun == ASSUME Inv, NEW c \in Comments, Die(c) PROVE RunInv(c)'
<1>1. TypeOK /\ RunInv(c) /\ pc[c] \in Active /\ Finish(c, "died") /\ UNCHANGED Local
  BY DEF Inv, Die
<1>2. CASE pc[c] \in BeforePut
  BY <1>1, <1>2, EarlyStep DEF BeforePut, Early
<1>3. CASE pc[c] \notin BeforePut
  <2>1. UNCHANGED <<wire, reply, ledger, attempt, sent, handle>>
    BY <1>1 DEF Local, serverVars
  <2>2. /\ AttemptInv(c)' /\ SentInv(c)' /\ AnswerInv(c)'
        /\ pc'[c] = "ended" /\ outcome'[c] = "died"
    <3>1. "log" \in Landing /\ "died" \in Late
      BY DEF Landing, Late
    <3>2. outcome[c] = "none"
      BY <1>1 DEF RunInv, AttemptInv
    <3> QED
      BY <1>1, <1>3, <2>1, <3>1, <3>2, LateStep DEF Finish, TypeOK
  <2>3. ReceiptInv(c)' /\ ReportInv(c)'
    BY <1>1, <2>1, <2>2 DEF RunInv, ReceiptInv, ReportInv, Accepted, Logged, Bound
  <2> QED
    BY <2>2, <2>3 DEF RunInv
<1> QED
  BY <1>2, <1>3
-----------------------------------------------------------------------------
(* The invariant, and the safety properties that follow from it.           *)

\* The invariant holds before any comment is posted.
LEMMA InitInv == Init => Inv
<1> SUFFICES ASSUME Init PROVE Inv
  OBVIOUS
<1>1. TypeOK
  BY InitType
<1>2. ASSUME NEW c \in Comments PROVE RunInv(c)
  <2>1. /\ pc[c] = "absent" /\ attempt[c] = 0 /\ outcome[c] = "none" /\ sent[c] = 0
        /\ handle[c] = NoHandle /\ reply[c] = NoReply /\ wire = {} /\ ledger = <<>>
    BY DEF Init
  <2>2. AttemptInv(c) /\ SentInv(c)
    BY <2>1
    DEF AttemptInv, SentInv, MaySend, Active, BeforePut, Qualifying, Binding, Landing
  <2>3. ~OnRecord(c) /\ reply[c].status = "none"
    BY <2>1 DEF OnRecord, Uuids, NoReply
  <2>4. AnswerInv(c)
    BY <2>1, <2>3 DEF AnswerInv
  <2>5. ReceiptInv(c) /\ ReportInv(c)
    BY <2>1 DEF ReceiptInv, ReportInv, NoHandle
  <2> QED
    BY <2>2, <2>4, <2>5 DEF RunInv
<1> QED
  BY <1>1, <1>2 DEF Inv

\* The invariant is inductive.
LEMMA NextInv == Inv /\ [Next]_vars => Inv'
<1> SUFFICES ASSUME Inv, [Next]_vars PROVE Inv'
  OBVIOUS
<1>1. CASE UNCHANGED vars
  <2>1. TypeOK'
    BY <1>1 DEF Inv, TypeOK, vars
  <2>2. ASSUME NEW d \in Comments PROVE RunInv(d)'
    BY <1>1, Frame DEF vars, Inv, SameRun, SameAnswer, OthersRecord
  <2> QED
    BY <2>1, <2>2 DEF Inv
<1>2. ASSUME NEW c \in Comments, Execute(c) \/ Die(c) PROVE Inv'
  <2>1. TypeOK'
    BY <1>2, RunType DEF Inv
  <2>2. RunInv(c)'
    BY <1>2, EarlyRun, SendPutInv, PersistRun, LateRun, DieRun DEF Execute, Land
  <2>3. ASSUME NEW d \in Comments \ {c} PROVE RunInv(d)'
    BY <1>2, OtherRuns DEF Inv
  <2> QED
    BY <2>1, <2>2, <2>3 DEF Inv
<1> QED
  BY <1>1, <1>2, EnvironmentInv, ServerInv, EnterGroupInv DEF Next

\* Every reachable state satisfies the inductive invariant.
THEOREM Invariance == Spec => []Inv
BY InitInv, NextInv, PTL DEF Spec

\* A comment causes at most one PUT, for any number of comments, reruns and
\* crashes.
THEOREM OnePut == Spec => []AtMostOnePut
<1>1. Inv => AtMostOnePut
  BY DEF Inv, RunInv, SentInv, AtMostOnePut
<1> QED
  BY <1>1, Invariance, PTL

\* Every receipt and blocker of a run names a request that its own comment
\* put on record.
THEOREM OwnReceipts == Spec => []ReceiptIsOwn
<1>1. Inv => ReceiptIsOwn
  <2> SUFFICES ASSUME Inv, NEW c \in Comments,
                      NEW u \in {handle[c].log, handle[c].summary, handle[c].blocker} \ {NoUuid}
               PROVE  u \in Uuids /\ ledger[u].comment = c
    BY DEF ReceiptIsOwn
  <2>1. RunInv(c)
    BY DEF Inv
  <2>2. u = reply[c].uuid /\ u # NoUuid
    BY <2>1 DEF RunInv, ReceiptInv
  <2>3. handle[c] # NoHandle
    BY <2>2 DEF NoHandle
  <2>4. u \in Uuids /\ ledger[u] = OwnEntry(c)
    BY <2>1, <2>2, <2>3 DEF RunInv, ReceiptInv, AnswerInv
  <2> QED
    BY <2>4 DEF OwnEntry
<1> QED
  BY <1>1, Invariance, PTL

\* No failure after a 202 with a UUID loses that UUID, short of losing the
\* runner.
THEOREM HandleKept == Spec => []HandleNotLost
<1>1. Inv => HandleNotLost
  BY DEF Inv, RunInv, ReportInv, Logged, HandleNotLost
<1> QED
  BY <1>1, Invariance, PTL

\* Acceptance is reported only for a request on record, with its receipts.
THEOREM TrueAcceptance == Spec => []AcceptedIsOnRecord
<1>1. Inv => AcceptedIsOnRecord
  <2> SUFFICES ASSUME Inv, NEW c \in Comments, outcome[c] = "accepted"
               PROVE  \E u \in Uuids :
                        /\ ledger[u] = OwnEntry(c)
                        /\ handle[c].log = u /\ handle[c].summary = u
    BY DEF AcceptedIsOnRecord, OwnEntry
  <2>1. Accepted(c) /\ Logged(c) /\ handle[c].summary = reply[c].uuid
    BY DEF Inv, RunInv, ReportInv
  <2>2. reply[c].uuid \in Uuids /\ ledger[reply[c].uuid] = OwnEntry(c)
    BY <2>1 DEF Inv, RunInv, AnswerInv, Accepted
  <2> QED
    BY <2>1, <2>2 DEF Logged
<1> QED
  BY <1>1, Invariance, PTL

\* A negative or conflict report means that no request of this comment is on
\* record; being an invariant, it stays true.
THEOREM FinalNegatives == Spec => []NegativeIsFinal
<1>1. Inv => NegativeIsFinal
  BY DEF Inv, RunInv, SentInv, AnswerInv, ReportInv, OnRecord, NegativeIsFinal
<1> QED
  BY <1>1, Invariance, PTL

\* A reconciliation that names a UUID names a request for this pull and head.
THEOREM ReconciledHead == Spec => []ReconcileBindsHead
<1>1. Inv => ReconcileBindsHead
  BY DEF Inv, RunInv, AnswerInv, ReportInv, Bound, ReconcileBindsHead
<1> QED
  BY <1>1, Invariance, PTL

\* Reruns change nothing about what a comment has caused or reported.
THEOREM FirstOutcomeStays == Spec => FirstOutcomeIsLast
<1> DEFINE Settled(c) == outcome[c] # "none" =>
             outcome'[c] = outcome[c] /\ sent'[c] = sent[c] /\ handle'[c] = handle[c]
<1>1. ASSUME Inv, [Next]_vars, NEW c \in Comments PROVE Settled(c)
  <2>1. CASE Environment \/ Server \/ UNCHANGED vars
    BY <2>1
    DEF Environment, ChangePull, ChangeChecks, EditComment, ChangeMembership,
        ChangePermission, AdvanceMain, LeaveQueue, Server, ServerAccept, ServerConflict,
        ServerRefuse, vars
  <2>2. ASSUME NEW d \in Comments, PostComment(d) \/ Rerun(d) PROVE Settled(c)
    BY <1>1, <2>2 DEF PostComment, Rerun, EnterGroup, Inv, TypeOK
  <2>3. ASSUME NEW d \in Comments \ {c}, Execute(d) \/ Die(d) PROVE Settled(c)
    BY <1>1, <2>3, OtherRunsSame DEF Inv, SameRun
  <2>4. CASE StartRun(c)
    BY <1>1, <2>4 DEF StartRun, Goto, Finish, Local, Inv, TypeOK
  <2>5. CASE (Execute(c) \/ Die(c)) /\ ~StartRun(c)
    <3>1. pc[c] \in Active
      BY <2>5
      DEF Execute, CheckoutMain, LaunchExecutor, Qualify, ReadComment, ReadPull, ReadGate,
          ReadSource, Bind, BindPrincipal, ReadMembership, ReadPermission, ReadMainLast, Check,
          SendPut, Receive, ReceiveAccepted, ReceiveConflict, ReceiveRefusal, LosePutAnswer,
          Land, PersistLog, PersistSummary, CheckMetadata, ReadBack, ReadIdentity, Die,
          Active, Qualifying, Binding, Landing
    <3> QED
      BY <1>1, <3>1 DEF Inv, RunInv, AttemptInv
  <2> QED
    BY <1>1, <2>1, <2>2, <2>3, <2>4, <2>5 DEF Next
<1>2. Inv /\ [Next]_vars => \A c \in Comments : Settled(c)
  BY <1>1
<1>3. (\A c \in Comments : Settled(c)) =>
        [\A c \in Comments : outcome[c] # "none" =>
           /\ outcome'[c] = outcome[c]
           /\ sent'[c] = sent[c]
           /\ handle'[c] = handle[c]]_vars
  OBVIOUS
<1> QED
  BY <1>2, <1>3, Invariance, PTL DEF Spec, FirstOutcomeIsLast
=============================================================================
