---------------------- MODULE MergeQueueExecutor_results ----------------------
(***************************************************************************)
(* Results that build on the executor's invariant, for every value of the  *)
(* constants: it implements SubmissionLedger and DelegatedRun, every fact  *)
(* its PUT rests on was seen true in the second qualification pass, and no *)
(* run has a loop.                                                         *)
(***************************************************************************)
EXTENDS MergeQueueExecutor_proofs

-----------------------------------------------------------------------------
(* The executor implements SubmissionLedger: initial states map to initial *)
(* states, every step to a step of the ledger or to a stutter.             *)


Submitted == {c \in Comments : sent[c] > 0}
Effective == {ledger[u].comment : u \in Uuids}
Report    == [c \in Comments |-> ReportOf(c)]

LedgerStep == [Promise!LedgerNext]_<<Submitted, Effective, Report>>

\* The mapping, read back.
LEMMA Mapping ==
  ASSUME Inv, NEW c \in Comments
  PROVE  /\ c \in Submitted <=> sent[c] = 1
         /\ c \in Effective <=> OnRecord(c)
         /\ c \in Effective => c \in Submitted
         /\ ReportOf(c) \in Promise!Reports
         /\ outcome[c] = "none" <=> ReportOf(c) = "none"
<1>1. sent[c] \in {0, 1} /\ (OnRecord(c) => sent[c] = 1) /\ outcome[c] \in Outcomes
  BY DEF Inv, RunInv, SentInv, AnswerInv, TypeOK
<1>2. c \in Submitted <=> sent[c] = 1
  BY <1>1 DEF Submitted
<1>3. c \in Effective <=> OnRecord(c)
  BY DEF Effective, OnRecord
<1>4. /\ ReportOf(c) \in Promise!Reports
      /\ outcome[c] = "none" <=> ReportOf(c) = "none"
  BY <1>1 DEF ReportOf, Promise!Reports, Promise!Negative, Outcomes
<1> QED
  BY <1>1, <1>2, <1>3, <1>4

\* A report is true.
LEMMA TrueReport ==
  Inv => \A c \in Comments :
           /\ ReportOf(c) = "accepted" => c \in Effective
           /\ ReportOf(c) = "notSent" => c \notin Submitted
           /\ ReportOf(c) \in {"refused", "conflict"} => c \in Submitted \ Effective
           /\ ReportOf(c) = "unknown" => c \in Submitted
<1> SUFFICES ASSUME Inv, NEW c \in Comments
             PROVE  /\ ReportOf(c) = "accepted" => c \in Effective
                    /\ ReportOf(c) = "notSent" => c \notin Submitted
                    /\ ReportOf(c) \in {"refused", "conflict"} => c \in Submitted \ Effective
                    /\ ReportOf(c) = "unknown" => c \in Submitted
  OBVIOUS
<1>1. RunInv(c) /\ outcome[c] \in Outcomes
  BY DEF Inv, TypeOK
<1>2. outcome[c] = "accepted" => OnRecord(c)
  BY <1>1 DEF RunInv, ReportInv, AnswerInv, Accepted, OnRecord, OwnEntry
<1>3. outcome[c] \in {"refused", "reconcile"} => sent[c] = 1 /\ ~OnRecord(c)
  BY <1>1 DEF RunInv, ReportInv, AnswerInv, SentInv
<1>4. /\ ReportOf(c) = "accepted" => outcome[c] = "accepted"
      /\ ReportOf(c) \in {"refused", "conflict"} => outcome[c] \in {"refused", "reconcile"}
      /\ ReportOf(c) = "notSent" => sent[c] = 0
      /\ ReportOf(c) = "unknown" => sent[c] # 0
  BY <1>1 DEF ReportOf, Outcomes
<1> QED
  BY <1>1, <1>2, <1>3, <1>4, Mapping DEF RunInv, SentInv

\* Only the runs that report for the first time count: a set of runs with one
\* report is told at once.
LEMMA TellStep ==
  ASSUME Inv, Inv', UNCHANGED <<ledger, sent>>,
         NEW told \in SUBSET Comments, NEW r \in Promise!Reports \ {"none"},
         \A c \in told : outcome[c] = "none" /\ ReportOf(c)' = r,
         \A c \in Comments \ told : outcome'[c] = outcome[c]
  PROVE  LedgerStep
<1>1. Submitted' = Submitted /\ Effective' = Effective
  BY DEF Submitted, Effective, Uuids
<1>2. \A c \in told : ReportOf(c) = "none"
  BY Mapping
<1>3. Report' = [c \in Comments |-> IF c \in told THEN r ELSE Report[c]]
  <2>1. ASSUME NEW c \in Comments PROVE ReportOf(c)' = IF c \in told THEN r ELSE Report[c]
    <3>1. c \notin told => ReportOf(c)' = ReportOf(c)
      BY DEF ReportOf
    <3> QED
      BY <3>1 DEF Report
  <2> QED
    BY <2>1 DEF Report
<1>4. Inv' => (\A c \in Comments :
           /\ ReportOf(c) = "accepted" => c \in Effective
           /\ ReportOf(c) = "notSent" => c \notin Submitted
           /\ ReportOf(c) \in {"refused", "conflict"} => c \in Submitted \ Effective
           /\ ReportOf(c) = "unknown" => c \in Submitted)'
  BY TrueReport, PTL
<1>5. (CASE r = "accepted" -> told \subseteq Effective
        [] r = "notSent" -> told \cap Submitted = {}
        [] r \in {"refused", "conflict"} -> told \subseteq Submitted \ Effective
        [] r = "unknown" -> told \subseteq Submitted)
  <2>1. \A c \in told :
          /\ r = "accepted" => c \in Effective
          /\ r = "notSent" => c \notin Submitted
          /\ r \in {"refused", "conflict"} => c \in Submitted \ Effective
          /\ r = "unknown" => c \in Submitted
    BY <1>1, <1>4
  <2>2. r \in {"accepted", "notSent", "refused", "conflict", "unknown"}
    BY DEF Promise!Reports, Promise!Negative
  <2> QED
    BY <2>1, <2>2
<1>6. Promise!Tell(told, r)
  BY <1>1, <1>2, <1>3, <1>5 DEF Promise!Tell, Submitted, Effective, Report
<1> QED
  BY <1>6 DEF LedgerStep, Promise!LedgerNext

\* A step that touches neither ledger, PUT nor outcome is a stutter of the promise.
LEMMA StutterStep == ASSUME UNCHANGED <<ledger, sent, outcome>> PROVE LedgerStep
<1>1. \A c \in Comments : ReportOf(c)' = ReportOf(c)
  BY DEF ReportOf
<1> QED
  BY <1>1 DEF LedgerStep, Submitted, Effective, Report, Uuids

\* The one step of a run that is no report: the PUT leaves.
LEMMA SubmitStep == ASSUME Inv, NEW c \in Comments, SendPut(c) PROVE LedgerStep
<1>1. sent[c] = 0 /\ outcome[c] = "none" /\ TypeOK
  BY DEF Inv, RunInv, SentInv, AttemptInv, MaySend, BeforePut, SendPut
<1>2. UNCHANGED <<ledger, outcome>> /\ sent' = [sent EXCEPT ![c] = 1]
  BY <1>1 DEF SendPut, Goto, TypeOK
<1>3. c \notin Submitted /\ Submitted' = Submitted \cup {c}
  BY <1>1, <1>2 DEF Submitted, TypeOK
<1>4. Effective' = Effective
  BY <1>2 DEF Effective, Uuids
<1>5. Report' = Report /\ Report[c] = "none"
  <2>1. ASSUME NEW d \in Comments PROVE ReportOf(d)' = ReportOf(d)
    BY <1>1, <1>2 DEF ReportOf, TypeOK
  <2>2. ReportOf(c) = "none"
    BY <1>1 DEF ReportOf
  <2> QED
    BY <2>1, <2>2 DEF Report
<1>6. Promise!Submit(c)
  BY <1>3, <1>4, <1>5 DEF Promise!Submit, Submitted, Effective, Report
<1> QED
  BY <1>6 DEF LedgerStep, Promise!LedgerNext

\* A request on the wire takes effect.
LEMMA AcceptStep == ASSUME Inv, NEW c \in Comments, ServerAccept(c) PROVE LedgerStep
<1>1. TypeOK /\ RunInv(c) /\ c \in wire
  BY DEF Inv, ServerAccept
<1>2. sent[c] = 1 /\ ~OnRecord(c) /\ outcome[c] \notin {"accepted", "refused", "reconcile"}
  BY <1>1, OnTheWire
<1>3. UNCHANGED <<sent, outcome>> /\ ledger' = Append(ledger, OwnEntry(c)) /\ OwnEntry(c) \in Entry
  BY RequestAssumption DEF ServerAccept, OwnEntry, Entry
<1>4. Submitted' = Submitted /\ Report' = Report
  <2>1. \A d \in Comments : ReportOf(d)' = ReportOf(d)
    BY <1>3 DEF ReportOf
  <2> QED
    BY <1>3, <2>1 DEF Submitted, Report
<1>5. Effective' = Effective \cup {c}
  <2>1. /\ Uuids' = Uuids \cup {Len(ledger) + 1}
        /\ \A u \in Uuids : ledger'[u] = ledger[u]
        /\ ledger'[Len(ledger) + 1] = OwnEntry(c)
    BY <1>1, <1>3, LedgerGrows
  <2> QED
    BY <2>1 DEF Effective, OwnEntry
<1>6. c \in Submitted \ Effective
  BY <1>2, Mapping
<1>7. Report[c] \in {"none", "unknown"}
  BY <1>1, <1>2 DEF Report, ReportOf, TypeOK, Outcomes
<1>8. Promise!TakeEffect(c)
  BY <1>4, <1>5, <1>6, <1>7 DEF Promise!TakeEffect, Submitted, Effective, Report
<1> QED
  BY <1>8 DEF LedgerStep, Promise!LedgerNext

\* A run that ends reports, unless a former attempt has reported.
LEMMA FinishStep ==
  ASSUME Inv, Inv', NEW c \in Comments, NEW o \in Outcomes \ {"none"}, Finish(c, o),
         UNCHANGED <<ledger, sent>>
  PROVE  LedgerStep
<1>1. outcome \in [Comments -> Outcomes]
  BY DEF Inv, TypeOK
<1>2. CASE outcome[c] # "none"
  <2>1. outcome' = outcome
    BY <1>1, <1>2 DEF Finish
  <2> QED
    BY <2>1, StutterStep
<1>3. CASE outcome[c] = "none"
  <2>1. outcome'[c] = o /\ \A d \in Comments \ {c} : outcome'[d] = outcome[d]
    BY <1>1, <1>3 DEF Finish
  <2>2. ReportOf(c)' \in Promise!Reports \ {"none"}
    BY <2>1 DEF ReportOf, Promise!Reports, Promise!Negative, Outcomes
  <2>3. PICK r \in Promise!Reports \ {"none"} : ReportOf(c)' = r
    BY <2>2
  <2>4. \A d \in {c} : outcome[d] = "none" /\ ReportOf(d)' = r
    BY <1>3, <2>3
  <2>5. {c} \in SUBSET Comments
    OBVIOUS
  <2> QED
    BY <2>1, <2>3, <2>4, <2>5, TellStep
<1> QED
  BY <1>2, <1>3

\* Pending runs that are cancelled are told "notSent", all at once.
LEMMA CancelStep ==
  ASSUME Inv, Inv', NEW c \in Comments, EnterGroup(c)
  PROVE  LedgerStep
<1> DEFINE told == {d \in Comments : d # c /\ pc[d] = "pending" /\ outcome[d] = "none"}
<1>1. \A d \in told : outcome[d] = "none" /\ outcome'[d] = "cancelled"
  BY DEF EnterGroup
<1>2. \A d \in told : sent'[d] = 0
  BY <1>1 DEF Inv, RunInv, SentInv
<1>3. \A d \in told : outcome[d] = "none" /\ ReportOf(d)' = "notSent"
  BY <1>1, <1>2 DEF ReportOf
<1>4. \A d \in Comments \ told : outcome'[d] = outcome[d]
  BY DEF EnterGroup
<1>5. UNCHANGED <<ledger, sent>>
  BY DEF EnterGroup, serverVars
<1>6. "notSent" \in Promise!Reports \ {"none"}
  BY DEF Promise!Reports, Promise!Negative
<1> QED
  BY <1>3, <1>4, <1>5, <1>6, TellStep

\* Any other step of a run goes on or ends, and submits nothing.
LEMMA OtherStep ==
  ASSUME NEW c \in Comments, Execute(c) \/ Die(c), ~SendPut(c)
  PROVE  /\ UNCHANGED <<ledger, sent>>
         /\ outcome' = outcome \/ \E o \in Outcomes \ {"none"} : Finish(c, o)
<1>1. CASE Land(c)
  BY <1>1
  DEF Land, PersistLog, PersistSummary, CheckMetadata, Block, ReadBack, ReadIdentity,
      Verdict, Goto, Local, serverVars, Outcomes
<1>2. CASE Receive(c)
  BY <1>2
  DEF Receive, ReceiveAccepted, ReceiveConflict, ReceiveRefusal, LosePutAnswer,
      RefusalOutcome, Goto, Local, serverVars, Outcomes
<1>3. CASE Qualify(c) \/ Bind(c)
  BY <1>3
  DEF Qualify, ReadComment, ReadPull, ReadGate, ReadSource, Bind, BindPrincipal,
      ReadMembership, ReadPermission, ReadMainLast, Check, Goto, Local, serverVars, Outcomes
<1>4. CASE StartRun(c) \/ CheckoutMain(c) \/ LaunchExecutor(c) \/ Die(c)
  BY <1>4 DEF StartRun, CheckoutMain, LaunchExecutor, Die, Goto, Local, serverVars, Outcomes
<1> QED
  BY <1>1, <1>2, <1>3, <1>4 DEF Execute

\* The executor keeps the promise of SubmissionLedger to its coordinator:
\* what it submits, what takes effect and what it reports is a behaviour of
\* the ledger.
THEOREM PromiseKept == Spec => KeepsPromise
<1>1. Init => Promise!LedgerInit
  BY DEF Init, Promise!LedgerInit, ReportOf, Uuids
<1>2. ASSUME Inv, Inv', [Next]_vars PROVE LedgerStep
  <2>1. CASE UNCHANGED vars
    BY <2>1, StutterStep DEF vars
  <2>2. CASE Environment
    <3>1. UNCHANGED <<ledger, sent, outcome>>
      BY <2>2
      DEF Environment, ChangePull, ChangeChecks, EditComment, ChangeMembership,
          ChangePermission, AdvanceMain, LeaveQueue, serverVars
    <3> QED
      BY <3>1, StutterStep
  <2>3. ASSUME NEW c \in Comments, ServerConflict(c) \/ ServerRefuse(c) PROVE LedgerStep
    BY <2>3, StutterStep DEF ServerConflict, ServerRefuse
  <2>4. ASSUME NEW c \in Comments, PostComment(c) \/ Rerun(c) PROVE LedgerStep
    BY <1>2, <2>4, CancelStep DEF PostComment, Rerun
  <2>5. ASSUME NEW c \in Comments, Execute(c) \/ Die(c) PROVE LedgerStep
    BY <1>2, <2>5, SubmitStep, OtherStep, FinishStep, StutterStep
  <2> QED
    BY <1>2, <2>1, <2>2, <2>3, <2>4, <2>5, AcceptStep DEF Next, Server
<1>3. Inv /\ Inv' /\ [Next]_vars => [Promise!LedgerNext]_(Promise!ledgerVars)
  BY <1>2 DEF LedgerStep, Promise!ledgerVars, Submitted, Effective, Report
<1> QED
  BY <1>1, <1>3, Invariance, PTL DEF Spec, KeepsPromise, Promise!LedgerSpec

-----------------------------------------------------------------------------
(* The PUT rests on facts of the second qualification pass: the invariant  *)
(* says, for every place of that pass, which facts have been seen true     *)
(* since the pass began.                                                   *)


GateFact(c)    == IF IsAtlas(c) THEN {} ELSE {"gate"}
Earlier(c, n)  == {SourceOf(c, i) : i \in 1..n}
AllSources(c)  == Earlier(c, Len(Sources[Request[c].pull]))
Qualified(c)   == {"comment", "pull"} \cup GateFact(c) \cup AllSources(c)

\* Each place, and the facts that the second pass has read before it.
FreshInv(c) ==
  /\ pc[c] \in Binding \cup {"put", "await"} => pass[c] = 2
  /\ pc[c] = "gate" => nth[c] = 1
  /\ pc[c] = "source" => nth[c] \in 1..Len(Sources[Request[c].pull])
  /\ pass[c] = 2 =>
       /\ pc[c] = "pull" => {"comment"} \subseteq held[c]
       /\ pc[c] = "gate" => {"comment", "pull"} \subseteq held[c]
       /\ pc[c] = "source" =>
            {"comment", "pull"} \cup GateFact(c) \cup Earlier(c, nth[c] - 1) \subseteq held[c]
       /\ pc[c] \in {"principal", "member"} => Qualified(c) \subseteq held[c]
       /\ pc[c] = "permission" => Qualified(c) \cup {"member"} \subseteq held[c]
       /\ pc[c] = "main" => Qualified(c) \cup {"member", "permission"} \subseteq held[c]
       /\ pc[c] \in {"put", "await"} => FactsFor(c) \subseteq held[c]

FreshFacts == TypeOK /\ \A c \in Comments : FreshInv(c)

\* The facts of a PUT are those qualified first and those bound after them.
LEMMA FactsForSplit ==
  ASSUME NEW c \in Comments
  PROVE  FactsFor(c) = Qualified(c) \cup {"member", "permission", "main"}
BY DEF FactsFor, Qualified, AllSources, Earlier, GateFact, BasicFacts, IsAtlas

\* A step of the second pass keeps what was seen and adds what it has read.
LEMMA Seen ==
  ASSUME TypeOK, NEW c \in Comments, pass[c] = 2, NEW there, Goto(c, there),
         NEW fact \in FactsFor(c), Holds(c, fact), fact = "main" => pc[c] = "main"
  PROVE  held[c] \cup {fact} \subseteq held'[c]
<1>1. fact \in HeldNow(c)
  BY DEF HeldNow
<1>2. held'[c] = held[c] \cup HeldNow(c)
  BY DEF Goto, TypeOK
<1> QED
  BY <1>1, <1>2

\* Going on in the second pass forgets nothing that was seen.
LEMMA Kept ==
  ASSUME TypeOK, NEW c \in Comments, pass[c] = 2, NEW there, Goto(c, there)
  PROVE  held[c] \subseteq held'[c]
BY DEF Goto, TypeOK

\* A run that has ended, or is not at one of these places, has nothing to show.
LEMMA FinishFresh ==
  ASSUME TypeOK, NEW c \in Comments, NEW o, Finish(c, o) PROVE FreshInv(c)'
<1>1. pc'[c] = "ended"
  BY DEF Finish, TypeOK
<1> QED
  BY <1>1 DEF FreshInv, Binding

\* The n-th source is one of the facts, and joins those read before it.
LEMMA SourceFacts ==
  ASSUME NEW c \in Comments, NEW n \in 1..Len(Sources[Request[c].pull])
  PROVE  /\ SourceOf(c, n) \in FactsFor(c) /\ SourceOf(c, n) # "main"
         /\ Earlier(c, n) = Earlier(c, n - 1) \cup {SourceOf(c, n)}
<1>1. Request[c].pull \in Pulls
  BY RequestAssumption
<1>2. Sources[Request[c].pull] \in Seq(Workflows) /\ Len(Sources[Request[c].pull]) \in Nat
  BY <1>1, SourcesAssumption
<1>3. SourceOf(c, n) \in Workflows
  BY <1>2 DEF SourceOf
<1>4. SourceOf(c, n) # "main"
  BY <1>3, NamesAssumption DEF BasicFacts
<1>5. SourceOf(c, n) \in FactsFor(c)
  BY DEF FactsFor
<1>6. Earlier(c, n) = Earlier(c, n - 1) \cup {SourceOf(c, n)}
  <2>1. n \in Nat /\ 1..n = 1..(n - 1) \cup {n}
    BY <1>2
  <2> QED
    BY <2>1 DEF Earlier
<1> QED
  BY <1>4, <1>5, <1>6

\* Qualification reads its facts in order and remembers each.
LEMMA QualifyFresh ==
  ASSUME TypeOK, NEW c \in Comments, FreshInv(c), Qualify(c) PROVE FreshInv(c)'
<1> USE DEF Binding
<1>1. CASE \E o : Finish(c, o)
  BY <1>1, FinishFresh
<1>2. CASE ReadComment(c) /\ Goto(c, "pull") /\ Holds(c, "comment")
  <2>1. pc'[c] = "pull" /\ pass'[c] = pass[c]
    BY <1>2 DEF Goto, TypeOK, ReadComment
  <2>2. "comment" \in FactsFor(c)
    BY FactsForSplit DEF Qualified
  <2>3. pass[c] = 2 => "comment" \in held'[c]
    BY <1>2, <2>2, Seen
  <2> QED
    BY <2>1, <2>3 DEF FreshInv
<1>3. CASE ReadPull(c) /\ Goto(c, IF IsAtlas(c) THEN "source" ELSE "gate") /\ Holds(c, "pull")
  <2>1. /\ pc'[c] = (IF IsAtlas(c) THEN "source" ELSE "gate")
        /\ pass'[c] = pass[c] /\ nth'[c] = 1 /\ pc[c] = "pull"
    BY <1>3 DEF Goto, TypeOK, ReadPull, Check
  <2>2. "pull" \in FactsFor(c)
    BY FactsForSplit DEF Qualified
  <2>3. pass[c] = 2 => {"comment", "pull"} \subseteq held'[c]
    BY <1>3, <2>1, <2>2, Seen DEF FreshInv
  <2>4. Request[c].pull \in Pulls
    BY RequestAssumption
  <2>5. 1 \in 1..Len(Sources[Request[c].pull])
    <3>1. Sources[Request[c].pull] \in Seq(Workflows) /\ Len(Sources[Request[c].pull]) > 0
      BY <2>4, SourcesAssumption
    <3> QED
      BY <3>1
  <2>6. Earlier(c, 0)' = {}
    BY DEF Earlier
  <2> QED
    BY <2>1, <2>3, <2>5, <2>6 DEF FreshInv, GateFact, IsAtlas
<1>4. CASE ReadGate(c) /\ Goto(c, "source") /\ Holds(c, "gate")
  <2>1. pc'[c] = "source" /\ pass'[c] = pass[c] /\ nth'[c] = 1 /\ pc[c] = "gate"
    BY <1>4 DEF Goto, TypeOK, ReadGate, Check, FreshInv
  <2>2. pass[c] = 2 => {"comment", "pull"} \subseteq held'[c]
    BY <1>4, <2>1, Kept DEF FreshInv
  <2>3. pass[c] = 2 => GateFact(c) \subseteq held'[c]
    <3>1. CASE IsAtlas(c)
      BY <3>1 DEF GateFact
    <3>2. CASE ~IsAtlas(c)
      <4>1. "gate" \in FactsFor(c)
        BY <3>2, FactsForSplit DEF Qualified, GateFact
      <4> QED
        BY <1>4, <3>2, <4>1, Seen DEF GateFact
    <3> QED
      BY <3>1, <3>2
  <2>4. 1 \in 1..Len(Sources[Request[c].pull])
    <3>1. Sources[Request[c].pull] \in Seq(Workflows) /\ Len(Sources[Request[c].pull]) > 0
      BY RequestAssumption, SourcesAssumption
    <3> QED
      BY <3>1
  <2>5. Earlier(c, 0)' = {} /\ GateFact(c)' = GateFact(c)
    BY DEF Earlier, GateFact, IsAtlas
  <2> QED
    BY <2>1, <2>2, <2>3, <2>4, <2>5 DEF FreshInv
<1>5. CASE ReadSource(c) /\ Goto(c, AfterSource(c)) /\ Holds(c, SourceOf(c, nth[c]))
  <2>1. pc[c] = "source" /\ nth[c] \in 1..Len(Sources[Request[c].pull])
    BY <1>5 DEF ReadSource, Check, FreshInv
  <2>2. pc'[c] = AfterSource(c)
    BY <1>5 DEF Goto, TypeOK
  <2>3. pass[c] = 2 =>
          {"comment", "pull"} \cup GateFact(c) \cup Earlier(c, nth[c]) \subseteq held'[c]
    BY <1>5, <2>1, SourceFacts, Seen DEF FreshInv
  <2>4. CASE ~LastSource(c)
    <3>1. pc'[c] = "source" /\ nth'[c] = nth[c] + 1 /\ pass'[c] = pass[c]
      BY <1>5, <2>2, <2>4 DEF AfterSource, ReadSource, TypeOK
    <3>2. nth'[c] \in 1..Len(Sources[Request[c].pull]) /\ nth'[c] - 1 = nth[c]
      <4>1. Len(Sources[Request[c].pull]) \in Nat
        BY RequestAssumption, SourcesAssumption
      <4> QED
        BY <2>1, <2>4, <3>1, <4>1 DEF LastSource
    <3>3. Earlier(c, nth[c] - 1)' = Earlier(c, nth[c]) /\ GateFact(c)' = GateFact(c)
      BY <3>2 DEF Earlier, SourceOf, GateFact, IsAtlas
    <3> QED
      BY <2>3, <3>1, <3>2, <3>3 DEF FreshInv
  <2>5. CASE LastSource(c) /\ pass[c] = 1
    <3>1. pc'[c] = "comment"
      BY <2>2, <2>5 DEF AfterSource
    <3> QED
      BY <3>1 DEF FreshInv
  <2>6. CASE LastSource(c) /\ pass[c] = 2
    <3>1. pc'[c] = "principal" /\ pass'[c] = 2
      BY <1>5, <2>2, <2>6 DEF AfterSource, ReadSource, TypeOK
    <3>2. Qualified(c) \subseteq held'[c]
      BY <2>3, <2>6 DEF Qualified, AllSources, LastSource
    <3>3. Qualified(c)' = Qualified(c)
      BY DEF Qualified, AllSources, Earlier, SourceOf, GateFact, IsAtlas
    <3> QED
      BY <3>1, <3>2, <3>3 DEF FreshInv
  <2> QED
    BY <2>4, <2>5, <2>6 DEF TypeOK
<1> QED
  BY <1>1, <1>2, <1>3, <1>4, <1>5
  DEF Qualify, ReadComment, ReadPull, ReadGate, ReadSource, Check

\* Binding adds membership, permission and protected main.
LEMMA BindFresh ==
  ASSUME TypeOK, NEW c \in Comments, FreshInv(c), Bind(c) PROVE FreshInv(c)'
<1> USE DEF Binding
<1>1. CASE \E o : Finish(c, o)
  BY <1>1, FinishFresh
<1>2. {"member", "permission", "main"} \subseteq FactsFor(c)
  BY FactsForSplit
<1>3. Qualified(c)' = Qualified(c) /\ FactsFor(c)' = FactsFor(c)
  BY DEF Qualified, AllSources, Earlier, FactsFor, SourceOf, GateFact, IsAtlas
<1>4. CASE BindPrincipal(c) /\ Goto(c, "member")
  <2>1. pc'[c] = "member" /\ pass'[c] = pass[c] /\ pc[c] = "principal" /\ pass[c] = 2
    BY <1>4 DEF Goto, TypeOK, BindPrincipal, FreshInv
  <2> QED
    BY <1>3, <1>4, <2>1, Kept DEF FreshInv
<1>5. CASE ReadMembership(c) /\ Goto(c, "permission") /\ Holds(c, "member")
  <2>1. pc'[c] = "permission" /\ pass'[c] = pass[c] /\ pc[c] = "member" /\ pass[c] = 2
    BY <1>5 DEF Goto, TypeOK, ReadMembership, Check, FreshInv
  <2> QED
    BY <1>2, <1>3, <1>5, <2>1, Seen DEF FreshInv
<1>6. CASE ReadPermission(c) /\ Goto(c, "main") /\ Holds(c, "permission")
  <2>1. pc'[c] = "main" /\ pass'[c] = pass[c] /\ pc[c] = "permission" /\ pass[c] = 2
    BY <1>6 DEF Goto, TypeOK, ReadPermission, Check, FreshInv
  <2> QED
    BY <1>2, <1>3, <1>6, <2>1, Seen DEF FreshInv
<1>7. CASE ReadMainLast(c) /\ Goto(c, "put") /\ Holds(c, "main")
  <2>1. pc'[c] = "put" /\ pass'[c] = pass[c] /\ pc[c] = "main" /\ pass[c] = 2
    BY <1>7 DEF Goto, TypeOK, ReadMainLast, Check, FreshInv
  <2>2. Qualified(c) \cup {"member", "permission", "main"} \subseteq held'[c]
    BY <1>2, <1>7, <2>1, Seen DEF FreshInv
  <2> QED
    BY <1>3, <2>1, <2>2, FactsForSplit DEF FreshInv
<1> QED
  BY <1>1, <1>4, <1>5, <1>6, <1>7
  DEF Bind, BindPrincipal, ReadMembership, ReadPermission, ReadMainLast, Check

\* Whoever moves, the other runs have read what they had read.
LEMMA StandsFresh ==
  ASSUME NEW d \in Comments, FreshInv(d),
         pc'[d] = pc[d], pass'[d] = pass[d], nth'[d] = nth[d], held'[d] = held[d]
  PROVE  FreshInv(d)'
<1>1. /\ Qualified(d)' = Qualified(d) /\ FactsFor(d)' = FactsFor(d) /\ GateFact(d)' = GateFact(d)
      /\ Earlier(d, nth[d] - 1)' = Earlier(d, nth[d] - 1)
  BY DEF Qualified, AllSources, Earlier, FactsFor, SourceOf, GateFact, IsAtlas
<1> QED
  BY <1>1 DEF FreshInv

\* A run's step moves no other run.
LEMMA OtherPlaces ==
  ASSUME TypeOK, NEW c \in Comments, Execute(c) \/ Die(c), NEW d \in Comments \ {c}
  PROVE  pc'[d] = pc[d] /\ pass'[d] = pass[d] /\ nth'[d] = nth[d] /\ held'[d] = held[d]
<1>1. /\ \/ \E there : Goto(c, there)
         \/ \E o : Finish(c, o)
      /\ \E x, n : \/ UNCHANGED <<pass, nth>>
                   \/ pass' = [pass EXCEPT ![c] = x] /\ nth' = [nth EXCEPT ![c] = n]
                   \/ UNCHANGED pass /\ nth' = [nth EXCEPT ![c] = n]
  <2>1. CASE StartRun(c) \/ CheckoutMain(c) \/ LaunchExecutor(c) \/ SendPut(c) \/ Die(c)
    BY <2>1 DEF StartRun, CheckoutMain, LaunchExecutor, SendPut, Die
  <2>2. CASE Qualify(c) \/ Bind(c)
    BY <2>2
    DEF Qualify, ReadComment, ReadPull, ReadGate, ReadSource, Bind, BindPrincipal,
        ReadMembership, ReadPermission, ReadMainLast, Check
  <2>3. CASE Receive(c) \/ Land(c)
    BY <2>3
    DEF Receive, ReceiveAccepted, ReceiveConflict, ReceiveRefusal, LosePutAnswer,
        Land, PersistLog, PersistSummary, CheckMetadata, Block, ReadBack, ReadIdentity
  <2> QED
    BY <2>1, <2>2, <2>3 DEF Execute
<1> QED
  BY <1>1 DEF Goto, Finish, TypeOK

\* The invariant is inductive.
LEMMA NextFresh == FreshFacts /\ [Next]_vars => FreshFacts'
<1> SUFFICES ASSUME FreshFacts, [Next]_vars PROVE \A d \in Comments : FreshInv(d)'
  BY TypeStep DEF FreshFacts
<1>1. TypeOK /\ \A d \in Comments : FreshInv(d)
  BY DEF FreshFacts
<1>2. CASE Environment \/ Server \/ UNCHANGED vars
  <2>1. UNCHANGED <<pc, pass, nth, held>>
    BY <1>2
    DEF Environment, ChangePull, ChangeChecks, EditComment, ChangeMembership,
        ChangePermission, AdvanceMain, LeaveQueue, Server, ServerAccept, ServerConflict,
        ServerRefuse, vars
  <2> QED
    BY <1>1, <2>1, StandsFresh
<1>3. ASSUME NEW c \in Comments, PostComment(c) \/ Rerun(c), NEW d \in Comments
      PROVE  FreshInv(d)'
  <2>1. EnterGroup(c)
    BY <1>3 DEF PostComment, Rerun
  <2>2. CASE pc'[d] \in {"pending", "ended"}
    BY <2>2 DEF FreshInv, Binding
  <2>3. CASE pc'[d] \notin {"pending", "ended"}
    BY <1>1, <2>1, <2>3, StandsFresh DEF EnterGroup
  <2> QED
    BY <2>2, <2>3
<1>4. ASSUME NEW c \in Comments, Execute(c) \/ Die(c), NEW d \in Comments \ {c}
      PROVE  FreshInv(d)'
  BY <1>1, <1>4, OtherPlaces, StandsFresh
<1>5. ASSUME NEW c \in Comments, Execute(c) \/ Die(c) PROVE FreshInv(c)'
  <2>1. CASE \E o : Finish(c, o)
    BY <1>1, <2>1, FinishFresh
  <2>2. CASE Qualify(c) \/ Bind(c)
    BY <1>1, <2>2, QualifyFresh, BindFresh
  <2>3. CASE SendPut(c)
    <3>1. pc'[c] = "await" /\ pass'[c] = pass[c] /\ pc[c] = "put" /\ pass[c] = 2
      BY <1>1, <2>3 DEF SendPut, Goto, TypeOK, FreshInv
    <3>2. FactsFor(c) \subseteq held'[c] /\ FactsFor(c)' = FactsFor(c)
      BY <1>1, <2>3, <3>1, Kept DEF SendPut, FreshInv, FactsFor, SourceOf, IsAtlas
    <3> QED
      BY <3>1, <3>2 DEF FreshInv, Binding
  <2>4. CASE /\ StartRun(c) \/ CheckoutMain(c) \/ LaunchExecutor(c) \/ Receive(c) \/ Land(c)
             /\ \E there \in {"checkout", "launch", "comment"} \cup Landing : Goto(c, there)
    <3>1. pc'[c] \in {"checkout", "launch", "comment"} \cup Landing
      BY <1>1, <2>4 DEF Goto, TypeOK
    <3> QED
      BY <3>1 DEF FreshInv, Binding, Landing
  <2>5. CASE StartRun(c) \/ CheckoutMain(c) \/ LaunchExecutor(c) \/ Die(c)
    BY <2>1, <2>4, <2>5 DEF StartRun, CheckoutMain, LaunchExecutor, Die
  <2>6. CASE Receive(c) \/ Land(c)
    BY <2>1, <2>4, <2>6
    DEF Receive, ReceiveAccepted, ReceiveConflict, ReceiveRefusal, LosePutAnswer,
        AfterAccepted, AfterConflict, Land, PersistLog, PersistSummary, CheckMetadata, Block,
        ReadBack, ReadIdentity, Landing
  <2> QED
    BY <1>5, <2>2, <2>3, <2>5, <2>6 DEF Execute
<1> QED
  BY <1>2, <1>3, <1>4, <1>5 DEF Next

\* So it holds always.
LEMMA FreshAlways == Spec => []FreshFacts
<1>1. Init => FreshFacts
  <2>1. Init => TypeOK
    BY InitType
  <2>2. Init => \A c \in Comments : pc[c] = "absent"
    BY DEF Init
  <2> QED
    BY <2>1, <2>2 DEF FreshFacts, FreshInv, Binding
<1> QED
  BY <1>1, NextFresh, PTL DEF Spec

\* While a PUT is awaited, every fact it rests on was true at a step of the
\* second pass, and protected main at its last read.
THEOREM FreshPut == Spec => []PutOnFreshFacts
<1>1. FreshFacts => PutOnFreshFacts
  BY DEF FreshFacts, FreshInv, PutOnFreshFacts, Binding
<1> QED
  BY <1>1, FreshAlways, PTL
-----------------------------------------------------------------------------
(* The executor is the run that DelegatedRun promises: it begins on the    *)
(* main its request names, and what it submits was cleared, on that main   *)
(* and with the principal that is the author, at its last read.            *)

Stages  == [c \in Comments |-> StageOf(c)]
Named   == [c \in Comments |-> [main |-> Request[c].main, author |-> Request[c].actor]]
RunStep == [Promised!RunNext]_<<metaMain, pat, Named, Stages>>

\* Past the binding of the principal, the credential is the author's.
BoundInv(c) == pc[c] \in {"member", "permission", "main", "put"} => pat = Request[c].actor

\* What a request names is a main and an author, and never changes.
LEMMA NamedRequest ==
  /\ Named' = Named /\ Named \in [Comments -> Promised!Asked]
  /\ \A c \in Comments :
       /\ Named[c] # NoActor
       /\ Named[c].main = Request[c].main /\ Named[c].author = Request[c].actor
<1>1. ASSUME NEW c \in Comments
      PROVE  [main |-> Request[c].main, author |-> Request[c].actor] \in [main: Mains, author: Actors]
  BY RequestAssumption
<1> QED
  BY <1>1, NamesAssumption DEF Named, Promised!Asked

\* The credential stays what it is.
LEMMA SamePrincipal == [Next]_vars => pat' = pat
<1>1. Environment \/ Server => pat' = pat
  BY DEF Environment, ChangePull, ChangeChecks, EditComment, ChangeMembership,
     ChangePermission, AdvanceMain, LeaveQueue, Server, ServerAccept, ServerConflict, ServerRefuse
<1>2. ASSUME NEW c \in Comments, PostComment(c) \/ Rerun(c) \/ Execute(c) \/ Die(c) PROVE pat' = pat
  <2>1. CASE Land(c) \/ Receive(c)
    BY <2>1
    DEF Land, PersistLog, PersistSummary, CheckMetadata, ReadBack, ReadIdentity,
        Receive, ReceiveAccepted, ReceiveConflict, ReceiveRefusal, LosePutAnswer, Local
  <2>2. CASE Qualify(c) \/ Bind(c)
    BY <2>2
    DEF Qualify, ReadComment, ReadPull, ReadGate, ReadSource, Bind, BindPrincipal,
        ReadMembership, ReadPermission, ReadMainLast, Check, Local
  <2>3. CASE PostComment(c) \/ Rerun(c) \/ StartRun(c) \/ CheckoutMain(c) \/ LaunchExecutor(c)
               \/ SendPut(c) \/ Die(c)
    BY <2>3 DEF PostComment, Rerun, EnterGroup, StartRun, CheckoutMain, LaunchExecutor,
                SendPut, Die, Local
  <2> QED
    BY <1>2, <2>1, <2>2, <2>3 DEF Execute
<1> QED
  BY <1>1, <1>2 DEF Next, vars

\* A run that goes past the binding of the principal has passed it.
LEMMA BoundStep == ASSUME TypeOK, [Next]_vars, NEW d \in Comments, BoundInv(d) PROVE BoundInv(d)'
<1>1. pat' = pat
  BY SamePrincipal
<1>2. CASE Environment \/ Server \/ UNCHANGED vars
  <2>1. UNCHANGED pc
    BY <1>2
    DEF Environment, ChangePull, ChangeChecks, EditComment, ChangeMembership,
        ChangePermission, AdvanceMain, LeaveQueue, Server, ServerAccept, ServerConflict,
        ServerRefuse, vars
  <2> QED
    BY <1>1, <2>1 DEF BoundInv
<1>3. ASSUME NEW c \in Comments, PostComment(c) \/ Rerun(c) PROVE BoundInv(d)'
  BY <1>1, <1>3 DEF PostComment, Rerun, EnterGroup, BoundInv
<1>4. ASSUME NEW c \in Comments \ {d}, Execute(c) \/ Die(c) PROVE BoundInv(d)'
  <2>1. pc'[d] = pc[d]
    BY <1>4, OtherRunsSame DEF SameRun
  <2> QED
    BY <1>1, <2>1 DEF BoundInv
<1>5. CASE Execute(d) \/ Die(d)
  <2>1. CASE \E o : Finish(d, o)
    BY <2>1 DEF Finish, TypeOK, BoundInv
  <2>2. CASE BindPrincipal(d) /\ Goto(d, "member") /\ pat = Request[d].actor
    BY <1>1, <2>2 DEF BoundInv
  <2>3. CASE (ReadMembership(d) \/ ReadPermission(d) \/ ReadMainLast(d))
               /\ pc[d] \in {"member", "permission", "main"}
    BY <1>1, <2>3 DEF BoundInv
  <2>4. CASE \E there \in {"checkout", "launch", "comment", "pull", "gate", "source", "principal", "await"}
                 \cup Landing : Goto(d, there)
    BY <2>4 DEF Goto, TypeOK, BoundInv, Landing
  <2>5. CASE Qualify(d)
    BY <2>1, <2>4, <2>5
    DEF Qualify, ReadComment, ReadPull, ReadGate, ReadSource, Check, AfterSource
  <2>6. CASE Bind(d)
    BY <2>1, <2>2, <2>3, <2>6
    DEF Bind, BindPrincipal, ReadMembership, ReadPermission, ReadMainLast, Check
  <2>7. CASE StartRun(d) \/ CheckoutMain(d) \/ LaunchExecutor(d) \/ SendPut(d) \/ Die(d)
    BY <2>1, <2>4, <2>7 DEF StartRun, CheckoutMain, LaunchExecutor, SendPut, Die
  <2>8. CASE Receive(d) \/ Land(d)
    BY <2>1, <2>4, <2>8
    DEF Receive, ReceiveAccepted, ReceiveConflict, ReceiveRefusal, LosePutAnswer,
        AfterAccepted, AfterConflict, Land, PersistLog, PersistSummary, CheckMetadata, Block,
        ReadBack, ReadIdentity, Landing
  <2> QED
    BY <1>5, <2>5, <2>6, <2>7, <2>8 DEF Execute
<1> QED
  BY <1>2, <1>3, <1>4, <1>5 DEF Next

\* Where no run moves, the promise sees at most new facts.
LEMMA FactsMove == ASSUME TypeOK', \A d \in Comments : StageOf(d)' = StageOf(d) PROVE RunStep
<1>1. Stages' = Stages /\ metaMain' \in Mains
  BY DEF Stages, TypeOK
<1> QED
  BY <1>1, NamedRequest DEF RunStep, Promised!RunNext, Promised!MoveFacts, Stages, Named

\* Requests are dropped, together where one cancels those before it.
LEMMA DropStep ==
  ASSUME NEW dropped \in SUBSET Comments, UNCHANGED <<metaMain, pat>>,
         \A d \in dropped : StageOf(d) \in {"waiting", "running", "cleared"} /\ StageOf(d)' = "refused",
         \A d \in Comments \ dropped : StageOf(d)' = StageOf(d)
  PROVE  RunStep
<1>1. Stages' = [d \in Comments |-> IF d \in dropped THEN "refused" ELSE Stages[d]]
  BY DEF Stages
<1>2. Promised!Refuse(dropped)
  BY <1>1, NamedRequest DEF Promised!Refuse, Stages, Named
<1> QED
  BY <1>2 DEF RunStep, Promised!RunNext

\* A newcomer of the concurrency group cancels the runs that wait there.
LEMMA EnterStep ==
  ASSUME Inv, NEW c \in Comments, pc[c] \in {"absent", "ended"}, EnterGroup(c) PROVE RunStep
<1> DEFINE dropped == {d \in Comments : d # c /\ pc[d] = "pending" /\ outcome[d] = "none"}
<1>1. UNCHANGED <<metaMain, pat, sent>>
  BY DEF EnterGroup, factVars, serverVars
<1>2. ASSUME NEW d \in dropped
      PROVE  StageOf(d) = "waiting" /\ StageOf(d)' = "refused"
  <2>1. sent[d] = 0 /\ sent'[d] = 0 /\ pc[d] = "pending" /\ outcome[d] = "none" /\ outcome'[d] = "cancelled"
    BY <1>1 DEF Inv, RunInv, SentInv, AttemptInv, MaySend, BeforePut, Active, EnterGroup
  <2> QED
    BY <2>1 DEF StageOf
<1>3. ASSUME NEW d \in Comments \ dropped PROVE StageOf(d)' = StageOf(d)
  <2>1. outcome'[d] = outcome[d] /\ sent'[d] = sent[d]
    BY <1>1 DEF EnterGroup
  <2>2. CASE outcome[d] # "none"
    BY <2>1, <2>2 DEF StageOf
  <2>3. CASE outcome[d] = "none" /\ d # c
    <3>1. pc'[d] = pc[d]
      BY <2>3 DEF EnterGroup
    <3> QED
      BY <2>1, <3>1 DEF StageOf
  <2>4. CASE outcome[d] = "none" /\ d = c
    <3>1. pc[c] = "absent"
      <4>1. pc[c] \in Active \/ MaySend(c)
        BY <2>4 DEF Inv, RunInv, AttemptInv
      <4> QED
        BY <4>1 DEF MaySend, BeforePut, Active, Qualifying, Binding, Landing
    <3>2. pc'[c] = "pending"
      BY DEF EnterGroup
    <3> QED
      BY <2>1, <2>4, <3>1, <3>2 DEF StageOf
  <2> QED
    BY <2>2, <2>3, <2>4
<1> QED
  BY <1>1, <1>2, <1>3, DropStep

\* A run on its way, and what its step is allowed to be.
LEMMA WorkingStep ==
  ASSUME Inv, Inv', NEW c \in Comments, Execute(c) \/ Die(c), BoundInv(c) PROVE RunStep
<1>1. TypeOK /\ TypeOK' /\ RunInv(c) /\ RunInv(c)'
  BY DEF Inv
<1>2. \A d \in Comments \ {c} : StageOf(d)' = StageOf(d)
  <2>1. \A d \in Comments \ {c} : SameRun(d)
    BY <1>1, OtherRunsSame
  <2> QED
    BY <2>1 DEF SameRun, StageOf
<1>3. UNCHANGED <<metaMain, pat>>
  <2>1. CASE Land(c) \/ Receive(c)
    BY <2>1
    DEF Land, PersistLog, PersistSummary, CheckMetadata, ReadBack, ReadIdentity,
        Receive, ReceiveAccepted, ReceiveConflict, ReceiveRefusal, LosePutAnswer, Local, factVars
  <2>2. CASE Qualify(c) \/ Bind(c)
    BY <2>2
    DEF Qualify, ReadComment, ReadPull, ReadGate, ReadSource, Bind, BindPrincipal,
        ReadMembership, ReadPermission, ReadMainLast, Check, Local, factVars
  <2>3. CASE StartRun(c) \/ CheckoutMain(c) \/ LaunchExecutor(c) \/ SendPut(c) \/ Die(c)
    BY <2>3 DEF StartRun, CheckoutMain, LaunchExecutor, SendPut, Die, Local, factVars
  <2> QED
    BY <1>1, <2>1, <2>2, <2>3 DEF Execute
<1>4. CASE StageOf(c)' = StageOf(c)
  BY <1>1, <1>2, <1>4, FactsMove
<1>5. CASE sent[c] = 1 /\ ~SendPut(c)
  <2>1. sent'[c] = 1
    BY <1>5, OtherStep
  <2>2. StageOf(c)' = StageOf(c)
    BY <1>5, <2>1 DEF StageOf
  <2> QED
    BY <1>4, <2>2
<1>6. CASE sent[c] = 0 /\ outcome[c] # "none" /\ ~SendPut(c)
  <2>1. sent'[c] = 0
    BY <1>6, OtherStep
  <2>2. outcome'[c] = outcome[c]
    <3>1. outcome' = outcome \/ \E o : Finish(c, o)
      BY <1>6, OtherStep
    <3> QED
      BY <1>1, <1>6, <3>1 DEF Finish, TypeOK
  <2>3. StageOf(c)' = StageOf(c)
    BY <1>6, <2>1, <2>2 DEF StageOf
  <2> QED
    BY <1>4, <2>3
<1>7. CASE /\ sent[c] = 0 /\ outcome[c] = "none" /\ ~SendPut(c)
           /\ \E o \in Outcomes \ {"none"} : Finish(c, o)
  <2>1. sent'[c] = 0 /\ outcome'[c] # "none"
    <3>1. sent' = sent
      BY <1>7, OtherStep
    <3>2. PICK o \in Outcomes \ {"none"} : Finish(c, o)
      BY <1>7
    <3>3. outcome'[c] = o
      BY <1>1, <1>7, <3>2 DEF Finish, TypeOK
    <3> QED
      BY <1>7, <3>1, <3>3
  <2>2. StageOf(c) \in {"waiting", "running", "cleared"} /\ StageOf(c)' = "refused"
    BY <1>7, <2>1 DEF StageOf
  <2> QED
    BY <1>2, <1>3, <2>2, DropStep
<1>8. ASSUME sent[c] = 0, outcome[c] = "none", NEW there, Goto(c, there), ~SendPut(c)
      PROVE  sent'[c] = 0 /\ outcome'[c] = "none" /\ pc'[c] = there
  BY <1>1, <1>8, OtherStep DEF Goto, TypeOK
<1>9. CASE sent[c] = 0 /\ outcome[c] = "none" /\ CheckoutMain(c) /\ Goto(c, "launch") /\ Holds(c, "main")
  <2>1. StageOf(c) = "waiting" /\ StageOf(c)' = "running"
    <3>1. pc[c] = "checkout" /\ ~SendPut(c)
      BY <1>9 DEF CheckoutMain, SendPut
    <3>2. sent'[c] = 0 /\ outcome'[c] = "none" /\ pc'[c] = "launch"
      BY <1>8, <1>9, <3>1
    <3> QED
      BY <1>9, <3>1, <3>2 DEF StageOf
  <2>2. metaMain = Request[c].main
    BY <1>9 DEF Holds
  <2>3. Stages' = [Stages EXCEPT ![c] = "running"]
    BY <1>2, <2>1 DEF Stages
  <2>4. Promised!Begin(c)
    BY <1>3, <2>1, <2>2, <2>3, NamedRequest DEF Promised!Begin, Promised!NamesMain, Stages, Named
  <2> QED
    BY <2>4 DEF RunStep, Promised!RunNext
<1>10. CASE sent[c] = 0 /\ outcome[c] = "none" /\ ReadMainLast(c) /\ Goto(c, "put") /\ Holds(c, "main")
  <2>1. StageOf(c) = "running" /\ StageOf(c)' = "cleared" /\ pat = Request[c].actor
    <3>1. pc[c] = "main" /\ ~SendPut(c)
      BY <1>10 DEF ReadMainLast, Check, SendPut
    <3>2. sent'[c] = 0 /\ outcome'[c] = "none" /\ pc'[c] = "put"
      BY <1>8, <1>10, <3>1
    <3> QED
      BY <1>10, <3>1, <3>2 DEF StageOf, BoundInv
  <2>2. metaMain = Request[c].main
    BY <1>10 DEF Holds
  <2>3. Stages' = [Stages EXCEPT ![c] = "cleared"]
    BY <1>2, <2>1 DEF Stages
  <2>4. Promised!Clear(c)
    BY <1>3, <2>1, <2>2, <2>3, NamedRequest DEF Promised!Clear, Promised!NamesMain, Stages, Named
  <2> QED
    BY <2>4 DEF RunStep, Promised!RunNext
<1>11. CASE SendPut(c)
  <2>1. StageOf(c) = "cleared" /\ StageOf(c)' = "submitted"
    <3>1. pc[c] = "put" /\ sent[c] = 0 /\ outcome[c] = "none"
      BY <1>1, <1>11 DEF SendPut, RunInv, SentInv, AttemptInv, MaySend, BeforePut
    <3>2. sent'[c] = 1
      BY <1>1, <1>11, <3>1 DEF SendPut, TypeOK
    <3> QED
      BY <3>1, <3>2 DEF StageOf
  <2>2. Stages' = [Stages EXCEPT ![c] = "submitted"]
    BY <1>2, <2>1 DEF Stages
  <2>3. Promised!Submit(c)
    BY <1>3, <2>1, <2>2, NamedRequest DEF Promised!Submit, Stages, Named
  <2> QED
    BY <2>3 DEF RunStep, Promised!RunNext
<1>12. CASE /\ sent[c] = 0 /\ outcome[c] = "none" /\ ~SendPut(c)
            /\ \/ StartRun(c) /\ Goto(c, "checkout") /\ pc[c] = "pending"
               \/ /\ pc[c] \in {"launch", "member", "permission"} \cup {"principal"} \cup Qualifying
                  /\ \E there \in {"principal", "member", "permission", "main"} \cup Qualifying : Goto(c, there)
  <2>1. PICK there \in {"checkout", "principal", "member", "permission", "main"} \cup Qualifying :
          /\ Goto(c, there)
          /\ there = "checkout" <=> pc[c] = "pending"
          /\ pc[c] \in {"pending", "launch", "principal", "member", "permission"} \cup Qualifying
    BY <1>12 DEF Qualifying
  <2>2. sent'[c] = 0 /\ outcome'[c] = "none" /\ pc'[c] = there
    BY <1>8, <1>12, <2>1
  <2>3. StageOf(c)' = StageOf(c)
    BY <1>12, <2>1, <2>2 DEF StageOf, Qualifying
  <2> QED
    BY <1>4, <2>3
<1>13. CASE Qualify(c) \/ LaunchExecutor(c) \/ BindPrincipal(c) \/ ReadMembership(c) \/ ReadPermission(c)
  <2>1. /\ pc[c] \in {"launch", "principal", "member", "permission"} \cup Qualifying /\ ~SendPut(c)
        /\ \/ \E o \in Outcomes \ {"none"} : Finish(c, o)
           \/ \E there \in {"principal", "member", "permission", "main"} \cup Qualifying : Goto(c, there)
    BY <1>13
    DEF Qualify, ReadComment, ReadPull, ReadGate, ReadSource, LaunchExecutor, BindPrincipal,
        ReadMembership, ReadPermission, Check, AfterSource, Outcomes, Qualifying, SendPut
  <2>2. sent[c] \in {0, 1}
    BY <1>1 DEF RunInv, SentInv
  <2> QED
    BY <1>5, <1>6, <1>7, <1>12, <2>1, <2>2
<1>14. CASE StartRun(c) \/ CheckoutMain(c) \/ ReadMainLast(c) \/ Die(c)
  <2>1. /\ ~SendPut(c) \/ Die(c)
        /\ \/ \E o \in Outcomes \ {"none"} : Finish(c, o)
           \/ StartRun(c) /\ Goto(c, "checkout") /\ pc[c] = "pending"
           \/ CheckoutMain(c) /\ Goto(c, "launch") /\ Holds(c, "main")
           \/ ReadMainLast(c) /\ Goto(c, "put") /\ Holds(c, "main")
    BY <1>14 DEF StartRun, CheckoutMain, ReadMainLast, Check, Die, SendPut, Outcomes
  <2>2. sent[c] \in {0, 1}
    BY <1>1 DEF RunInv, SentInv
  <2> QED
    BY <1>5, <1>6, <1>7, <1>9, <1>10, <1>11, <1>12, <2>1, <2>2
<1>15. CASE Receive(c) \/ Land(c)
  <2>1. pc[c] \in Active \ BeforePut /\ ~SendPut(c)
    BY <1>15
    DEF Receive, ReceiveAccepted, ReceiveConflict, ReceiveRefusal, LosePutAnswer, SendPut,
        Land, PersistLog, PersistSummary, CheckMetadata, ReadBack, ReadIdentity,
        Active, BeforePut, Landing, Qualifying, Binding
  <2>2. sent[c] = 1
    BY <1>1, <2>1 DEF RunInv, SentInv
  <2> QED
    BY <1>5, <2>1, <2>2
<1> QED
  BY <1>11, <1>13, <1>14, <1>15 DEF Execute, Bind

\* Through reruns, cancellations and crashes the executor takes only steps of
\* the run that the author of its request was promised.
THEOREM RequestKept == Spec => KeepsToRequest
<1> DEFINE Bounds == \A c \in Comments : BoundInv(c)
<1>1. Init => Bounds /\ Promised!RunInit
  <2> SUFFICES ASSUME Init PROVE Bounds /\ Promised!RunInit
    OBVIOUS
  <2>1. Bounds
    BY DEF Init, BoundInv
  <2>2. metaMain \in Mains /\ \A c \in Comments : StageOf(c) = "waiting"
    BY DEF Init, StageOf
  <2> QED
    BY <2>1, <2>2, NamedRequest DEF Promised!RunInit, Named
<1>2. TypeOK /\ Bounds /\ [Next]_vars => Bounds'
  BY BoundStep
<1>3. ASSUME Inv, Inv', Bounds, [Next]_vars PROVE RunStep
  <2>1. CASE Environment \/ Server \/ UNCHANGED vars
    <3>1. UNCHANGED <<pc, sent, outcome>>
      BY <2>1
      DEF Environment, ChangePull, ChangeChecks, EditComment, ChangeMembership, ChangePermission,
          AdvanceMain, LeaveQueue, Server, ServerAccept, ServerConflict, ServerRefuse, vars
    <3> QED
      BY <1>3, <3>1, FactsMove DEF Inv, StageOf
  <2>2. ASSUME NEW c \in Comments, PostComment(c) \/ Rerun(c) PROVE RunStep
    BY <1>3, <2>2, EnterStep DEF PostComment, Rerun
  <2>3. ASSUME NEW c \in Comments, Execute(c) \/ Die(c) PROVE RunStep
    BY <1>3, <2>3, WorkingStep
  <2> QED
    BY <1>3, <2>1, <2>2, <2>3 DEF Next
<1>4. Inv /\ Inv' /\ Bounds /\ [Next]_vars => [Promised!RunNext]_(Promised!runVars)
  BY <1>3 DEF RunStep, Promised!runVars, Stages, Named
<1>5. Inv => TypeOK
  BY DEF Inv
<1> QED
  BY <1>1, <1>2, <1>4, <1>5, Invariance, PTL DEF Spec, KeepsToRequest, Promised!RunSpec
-----------------------------------------------------------------------------
(* A run has no loop: what its qualification repeats, it repeats once.     *)

NumSources(c) == Len(Sources[Request[c].pull])
OnePass(c)    == NumSources(c) + 3

\* The longest way from a place to the end, the two qualifications apart.
Ahead == [absent |-> 0, pending |-> 14, checkout |-> 13, launch |-> 12, principal |-> 11,
          member |-> 10, permission |-> 9, main |-> 8, put |-> 7, await |-> 6, log |-> 5,
          summary |-> 4, metadata |-> 3, readback |-> 2, identity |-> 1, ended |-> 0]
InPass(c) == [comment |-> OnePass(c), pull |-> OnePass(c) - 1, gate |-> OnePass(c) - 2,
              source |-> OnePass(c) - 2 - nth[c]]
StepsLeft(c) ==
  IF pc[c] \in Qualifying
  THEN Ahead.principal + (IF pass[c] = 1 THEN OnePass(c) ELSE 0) + InPass(c)[pc[c]]
  ELSE Ahead[pc[c]] + (IF pc[c] \in {"pending", "checkout", "launch"} THEN 2 * OnePass(c) ELSE 0)

\* A target has a source, so that a pass has a length.
LEMMA PassLength == \A c \in Comments : NumSources(c) \in Nat \ {0} /\ OnePass(c) \in Nat
<1>1. ASSUME NEW c \in Comments PROVE NumSources(c) \in Nat \ {0}
  <2>1. Sources[Request[c].pull] \in Seq(Workflows) /\ Len(Sources[Request[c].pull]) > 0
    BY RequestAssumption, SourcesAssumption
  <2> QED
    BY <2>1 DEF NumSources
<1> QED
  BY <1>1 DEF OnePass

\* Where a run is, some way is ahead of it, and no more than this.
LEMMA SomeAhead ==
  ASSUME FreshFacts, NEW c \in Comments
  PROVE  /\ StepsLeft(c) \in 0..(Ahead.pending + 2 * OnePass(c))
         /\ pc[c] \in Active \cup {"pending"} => StepsLeft(c) > 0
         /\ pc[c] \in {"absent", "ended"} => StepsLeft(c) = 0
         /\ pc[c] = "pending" => StepsLeft(c) = Ahead.pending + 2 * OnePass(c)
<1>1. /\ pc[c] \in Active \cup {"absent", "pending", "ended"} /\ pass[c] \in {1, 2} /\ nth[c] \in Nat
      /\ pc[c] = "source" => nth[c] \in 1..NumSources(c)
  BY DEF FreshFacts, FreshInv, TypeOK, NumSources
<1>2. NumSources(c) \in Nat \ {0} /\ OnePass(c) = NumSources(c) + 3
  BY PassLength DEF OnePass
<1>3. CASE pc[c] \in Qualifying
  <2>1. InPass(c)[pc[c]] \in 1..OnePass(c)
    BY <1>1, <1>2, <1>3 DEF InPass, Qualifying
  <2> QED
    BY <1>1, <1>2, <1>3, <2>1 DEF StepsLeft, Ahead, Qualifying
<1>4. CASE pc[c] \notin Qualifying
  BY <1>1, <1>2, <1>4 DEF StepsLeft, Ahead, Active, Qualifying, Binding, Landing
<1> QED
  BY <1>3, <1>4

SomeWay == \A c \in Comments : StepsLeft(c) \in Nat
LEMMA FiniteAhead == FreshFacts => SomeWay
BY SomeAhead DEF SomeWay

\* Qualification goes on, in the same pass or to the next.
LEMMA QualifyGoesOn ==
  ASSUME FreshFacts, NEW c \in Comments, Qualify(c)
  PROVE  \/ pc'[c] = "ended"
         \/ /\ pass'[c] = pass[c] /\ nth'[c] = nth[c]
            /\ <<pc[c], pc'[c]>> \in {<<"comment", "pull">>, <<"gate", "source">>}
         \/ pass'[c] = pass[c] /\ nth'[c] = 1 /\ pc[c] = "pull" /\ pc'[c] \in {"gate", "source"}
         \/ pass'[c] = pass[c] /\ nth'[c] = nth[c] + 1 /\ pc[c] = "source" /\ pc'[c] = "source"
         \/ pass[c] = 1 /\ pass'[c] = 2 /\ pc[c] = "source" /\ pc'[c] = "comment"
         \/ pc[c] = "source" /\ pc'[c] = "principal"
<1>1. TypeOK /\ FreshInv(c)
  BY DEF FreshFacts
<1>2. (\A there : Goto(c, there) => pc'[c] = there) /\ (\A o : Finish(c, o) => pc'[c] = "ended")
  BY <1>1 DEF Goto, Finish, TypeOK
<1>3. CASE ReadComment(c) \/ ReadGate(c)
  BY <1>2, <1>3 DEF ReadComment, ReadGate, Check
<1>4. CASE ReadPull(c)
  <2>1. pc[c] = "pull" /\ pass'[c] = pass[c] /\ nth'[c] = 1
    BY <1>1, <1>4 DEF ReadPull, Check, TypeOK
  <2> QED
    BY <1>2, <1>4, <2>1 DEF ReadPull, Check
<1>5. CASE ReadSource(c)
  <2>1. /\ pc[c] = "source"
        /\ pc'[c] = "ended" \/ pc'[c] = AfterSource(c)
    BY <1>2, <1>5 DEF ReadSource, Check
  <2>2. /\ nth'[c] = (IF LastSource(c) THEN 1 ELSE nth[c] + 1)
        /\ pass'[c] = (IF LastSource(c) THEN 2 ELSE pass[c])
    BY <1>1, <1>5 DEF ReadSource, TypeOK
  <2> QED
    BY <1>1, <2>1, <2>2 DEF AfterSource, TypeOK
<1> QED
  BY <1>3, <1>4, <1>5 DEF Qualify

\* So does the rest of the run.
LEMMA RunGoesOn ==
  ASSUME TypeOK, NEW c \in Comments, Execute(c), ~Qualify(c)
  PROVE  \/ pc'[c] = "ended" /\ pc[c] \in Active \cup {"pending"}
         \/ pc[c] = "launch" /\ pc'[c] = "comment"
         \/ <<pc[c], pc'[c]>> \in
              {<<"pending", "checkout">>, <<"checkout", "launch">>, <<"principal", "member">>,
               <<"member", "permission">>, <<"permission", "main">>, <<"main", "put">>, <<"put", "await">>,
               <<"await", "log">>, <<"await", "readback">>, <<"await", "identity">>, <<"log", "summary">>,
               <<"summary", "metadata">>, <<"metadata", "readback">>, <<"readback", "identity">>}
<1>1. (\A there : Goto(c, there) => pc'[c] = there) /\ (\A o : Finish(c, o) => pc'[c] = "ended")
  BY DEF Goto, Finish, TypeOK
<1> USE DEF Active, Binding, Landing
<1>2. CASE StartRun(c) \/ CheckoutMain(c) \/ LaunchExecutor(c) \/ SendPut(c)
  BY <1>1, <1>2 DEF StartRun, CheckoutMain, LaunchExecutor, SendPut
<1>3. CASE Bind(c)
  BY <1>1, <1>3 DEF Bind, BindPrincipal, ReadMembership, ReadPermission, ReadMainLast, Check
<1>4. CASE Receive(c)
  BY <1>1, <1>4
  DEF Receive, ReceiveAccepted, ReceiveConflict, ReceiveRefusal, LosePutAnswer, AfterAccepted, AfterConflict
<1>5. CASE Land(c)
  BY <1>1, <1>5 DEF Land, PersistLog, PersistSummary, CheckMetadata, Block, ReadBack, ReadIdentity
<1> QED
  BY <1>2, <1>3, <1>4, <1>5 DEF Execute

\* Every step of a run is one towards its end.
LEMMA NearerTheEnd ==
  ASSUME FreshFacts, FreshFacts', NEW c \in Comments, Execute(c) \/ Die(c)
  PROVE  StepsLeft(c)' < StepsLeft(c)
<1>1. /\ pc[c] \in Active \cup {"absent", "pending", "ended"} /\ pass[c] \in {1, 2}
      /\ pass'[c] \in {1, 2} /\ nth[c] \in Nat /\ nth'[c] \in Nat
      /\ pc[c] = "gate" => nth[c] = 1
      /\ pc[c] = "source" => nth[c] \in 1..NumSources(c)
  BY DEF FreshFacts, FreshInv, TypeOK, NumSources
<1>2. NumSources(c) \in Nat \ {0} /\ OnePass(c) = NumSources(c) + 3 /\ OnePass(c)' = OnePass(c)
  BY PassLength DEF OnePass, NumSources
<1>3. ASSUME pc'[c] = "ended", pc[c] \in Active \cup {"pending"} PROVE StepsLeft(c)' < StepsLeft(c)
  <2>1. StepsLeft(c)' = 0
    BY <1>3 DEF StepsLeft, Qualifying, Ahead
  <2> QED
    BY <1>3, <2>1, SomeAhead
<1>4. CASE Qualify(c)
  <2>1. pc[c] \in Qualifying
    BY <1>4 DEF Qualify, ReadComment, ReadPull, ReadGate, ReadSource, Check, Qualifying
  <2>2. StepsLeft(c) = 11 + (IF pass[c] = 1 THEN OnePass(c) ELSE 0) + InPass(c)[pc[c]]
    BY <2>1 DEF StepsLeft, Ahead
  <2>3. CASE pc'[c] = "ended"
    BY <1>3, <2>1, <2>3 DEF Active
  <2>4. CASE pc'[c] = "principal" /\ pc[c] = "source"
    <3>1. StepsLeft(c)' = 11
      BY <2>4 DEF StepsLeft, Qualifying, Ahead
    <3>2. InPass(c)["source"] = OnePass(c) - 2 - nth[c]
      BY DEF InPass
    <3> QED
      BY <1>1, <1>2, <2>2, <2>4, <3>1, <3>2
  <2>5. CASE pc'[c] \in Qualifying
    <3>1. StepsLeft(c)' = 11 + (IF pass'[c] = 1 THEN OnePass(c) ELSE 0) + InPass(c)'[pc'[c]]
      BY <1>2, <2>5 DEF StepsLeft, Ahead
    <3>2. /\ InPass(c)["comment"] = OnePass(c) /\ InPass(c)["pull"] = OnePass(c) - 1
          /\ InPass(c)["gate"] = OnePass(c) - 2 /\ InPass(c)["source"] = OnePass(c) - 2 - nth[c]
          /\ InPass(c)'["comment"] = OnePass(c) /\ InPass(c)'["pull"] = OnePass(c) - 1
          /\ InPass(c)'["gate"] = OnePass(c) - 2 /\ InPass(c)'["source"] = OnePass(c) - 2 - nth'[c]
      BY <1>2 DEF InPass
    <3>3. \/ /\ pass'[c] = pass[c] /\ nth'[c] = nth[c]
             /\ <<pc[c], pc'[c]>> \in {<<"comment", "pull">>, <<"gate", "source">>}
          \/ pass'[c] = pass[c] /\ nth'[c] = 1 /\ pc[c] = "pull" /\ pc'[c] \in {"gate", "source"}
          \/ pass'[c] = pass[c] /\ nth'[c] = nth[c] + 1 /\ pc[c] = "source" /\ pc'[c] = "source"
          \/ pass[c] = 1 /\ pass'[c] = 2 /\ pc[c] = "source" /\ pc'[c] = "comment"
      BY <1>4, <2>5, QualifyGoesOn DEF Qualifying
    <3> QED
      BY <1>1, <1>2, <2>2, <3>1, <3>2, <3>3
  <2> QED
    BY <1>4, <2>3, <2>4, <2>5, QualifyGoesOn DEF Qualifying
<1>5. CASE Die(c)
  BY <1>3, <1>5 DEF Die, Finish, FreshFacts, TypeOK
<1>6. CASE Execute(c) /\ ~Qualify(c)
  <2>1. CASE pc'[c] = "ended" /\ pc[c] \in Active \cup {"pending"}
    BY <1>3, <2>1
  <2>2. CASE pc[c] = "launch" /\ pc'[c] = "comment"
    <3>1. StepsLeft(c) = 12 + 2 * OnePass(c)
      BY <2>2 DEF StepsLeft, Ahead, Qualifying
    <3>2. StepsLeft(c)' = 11 + (IF pass'[c] = 1 THEN OnePass(c) ELSE 0) + OnePass(c)
      BY <1>2, <2>2 DEF StepsLeft, Ahead, Qualifying, InPass
    <3> QED
      BY <1>1, <1>2, <3>1, <3>2
  <2>3. CASE <<pc[c], pc'[c]>> \in
              {<<"pending", "checkout">>, <<"checkout", "launch">>, <<"principal", "member">>,
               <<"member", "permission">>, <<"permission", "main">>, <<"main", "put">>, <<"put", "await">>,
               <<"await", "log">>, <<"await", "readback">>, <<"await", "identity">>, <<"log", "summary">>,
               <<"summary", "metadata">>, <<"metadata", "readback">>, <<"readback", "identity">>}
    BY <1>1, <1>2, <2>3 DEF StepsLeft, Ahead, Qualifying
  <2> QED
    BY <1>6, <2>1, <2>2, <2>3, RunGoesOn DEF FreshFacts
<1> QED
  BY <1>4, <1>5, <1>6

\* A run takes at most as many steps as two qualifications and fourteen more:
\* each brings it nearer its end, and only a comment or a rerun starts anew.
NeverTurnsBack ==
  [][\A c \in Comments :
       /\ StepsLeft(c) \in 0..(Ahead.pending + 2 * OnePass(c))
       /\ Execute(c) \/ Die(c) => StepsLeft(c)' < StepsLeft(c)
       /\ StepsLeft(c)' > StepsLeft(c) => PostComment(c) \/ Rerun(c)]_vars

\* A run terminates unless it stands still: it has no loop, and users, the
\* service, other runs and crashes add no step to it.
THEOREM RunIsShort == Spec => NeverTurnsBack
<1>1. ASSUME FreshFacts, FreshFacts', Next, NEW c \in Comments
      PROVE  /\ StepsLeft(c) \in 0..(Ahead.pending + 2 * OnePass(c))
             /\ Execute(c) \/ Die(c) => StepsLeft(c)' < StepsLeft(c)
             /\ StepsLeft(c)' > StepsLeft(c) => PostComment(c) \/ Rerun(c)
  <2>1. /\ StepsLeft(c) \in 0..(Ahead.pending + 2 * OnePass(c))
        /\ StepsLeft(c) \in Nat /\ StepsLeft(c)' \in Nat
        /\ Execute(c) \/ Die(c) => StepsLeft(c)' < StepsLeft(c)
    <3>1. SomeWay /\ SomeWay'
      BY <1>1, FiniteAhead, PTL
    <3> QED
      BY <1>1, <3>1, SomeAhead, NearerTheEnd DEF SomeWay
  <2>2. SUFFICES ASSUME ~(PostComment(c) \/ Rerun(c)) PROVE ~(StepsLeft(c)' > StepsLeft(c))
    BY <2>1
  <2>3. ASSUME pc'[c] = pc[c], pass'[c] = pass[c], nth'[c] = nth[c] PROVE StepsLeft(c)' = StepsLeft(c)
    BY <2>3 DEF StepsLeft, InPass, OnePass, NumSources
  <2>4. CASE Environment \/ Server
    <3>1. UNCHANGED <<pc, pass, nth>>
      BY <2>4
      DEF Environment, ChangePull, ChangeChecks, EditComment, ChangeMembership,
          ChangePermission, AdvanceMain, LeaveQueue, Server, ServerAccept, ServerConflict, ServerRefuse
    <3> QED
      BY <2>1, <2>3, <3>1
  <2>5. CASE Execute(c) \/ Die(c)
    BY <2>1, <2>5
  <2>6. ASSUME NEW d \in Comments \ {c}, PostComment(d) \/ Rerun(d)
        PROVE  ~(StepsLeft(c)' > StepsLeft(c))
    <3>1. UNCHANGED <<pass, nth>> /\ (pc'[c] = pc[c] \/ (pc[c] = "pending" /\ pc'[c] = "ended"))
      BY <2>6 DEF PostComment, Rerun, EnterGroup
    <3>2. CASE pc'[c] = pc[c]
      BY <2>1, <2>3, <3>1, <3>2
    <3>3. CASE pc[c] = "pending" /\ pc'[c] = "ended"
      <4>1. StepsLeft(c)' = 0
        BY <3>3 DEF StepsLeft, Qualifying, Ahead
      <4> QED
        BY <2>1, <4>1
    <3> QED
      BY <3>1, <3>2, <3>3
  <2>7. ASSUME NEW d \in Comments \ {c}, Execute(d) \/ Die(d)
        PROVE  ~(StepsLeft(c)' > StepsLeft(c))
    <3>1. pc'[c] = pc[c] /\ pass'[c] = pass[c] /\ nth'[c] = nth[c]
      BY <1>1, <2>7, OtherPlaces DEF FreshFacts
    <3> QED
      BY <2>1, <2>3, <3>1
  <2> QED
    BY <1>1, <2>2, <2>4, <2>5, <2>6, <2>7 DEF Next
<1>2. FreshFacts /\ FreshFacts' /\ [Next]_vars =>
        [\A c \in Comments :
           /\ StepsLeft(c) \in 0..(Ahead.pending + 2 * OnePass(c))
           /\ Execute(c) \/ Die(c) => StepsLeft(c)' < StepsLeft(c)
           /\ StepsLeft(c)' > StepsLeft(c) => PostComment(c) \/ Rerun(c)]_vars
  BY <1>1
<1> QED
  BY <1>2, FreshAlways, PTL DEF Spec, NeverTurnsBack
=============================================================================
