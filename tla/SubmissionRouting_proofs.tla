------------------------ MODULE SubmissionRouting_proofs ------------------------
(***************************************************************************)
(* Proofs about the native submission contract, for every number of        *)
(* attempts, pulls, heads, freezes and surfaces, every age and every bound. *)
(***************************************************************************)
EXTENDS SubmissionRouting, TLAPS

Entries == [attempt: Attempts, pull: Pulls, head: Heads]
Requests == [decision: Decisions, head: Heads, at: Time]
Verdicts == [result: Results, uuid: Nat, at: Time]
Confirmed == "POST_SUBMISSION_TARGET_CONFIRMED"

-----------------------------------------------------------------------------
(* Types, in the parts that a step leaves alone or changes together.       *)

PullTypes == now \in Time /\ changes \in Nat /\ pull \in [Pulls -> Facts]
ServiceTypes ==
  /\ reply \in [Attempts -> Answers] /\ ledger \in Seq(Entries) /\ queued \subseteq DOMAIN ledger
TargetTypes ==
  /\ attempt \in [Attempts -> Target \cup {NoRecord}]
  /\ authorization \in [Attempts -> Authorization \cup {NoRecord}]
  /\ request \in [Attempts -> Requests \cup {NoRecord}]
EvidenceTypes ==
  /\ receipt \in [Attempts -> Receipt \cup {NoRecord}]
  /\ readings \subseteq Reading /\ sequence \in Nat
  /\ verdict \in [Attempts -> Verdicts]
HistoryTypes ==
  /\ held \subseteq [pull: Pulls, facts: Facts, at: Time]
  /\ since \in [Attempts -> SUBSET ({"main", "other"} \X Heads)]

LEMMA Types == TypeOK <=> PullTypes /\ ServiceTypes /\ TargetTypes /\ EvidenceTypes /\ HistoryTypes
BY DEF TypeOK, PullTypes, ServiceTypes, TargetTypes, EvidenceTypes, HistoryTypes, Entries, Requests, Verdicts

\* A request was built for what its attempt is bound to, an answer belongs to
\* a request, a receipt to an answer.
Bound(a) ==
  /\ request[a] # NoRecord => attempt[a] # NoRecord /\ request[a].head = attempt[a].head
  /\ reply[a] # NoAnswer => request[a] # NoRecord
  /\ reply[a].status = "none" => reply[a] = NoAnswer
  /\ receipt[a] # NoRecord => reply[a] # NoAnswer

Binding == \A a \in Attempts : Bound(a)


\* The steps that leave the evidence alone.
Service == LeaveQueue \/ \E a \in Attempts : Accept(a) \/ AnswerConflict(a) \/ AnswerError(a)
World   == Tick \/ \E p \in Pulls : ChangePull(p)
Prepare(a) == Bind(a) \/ ReadAuthorization(a) \/ BuildRequest(a)
Gather  == (\E a \in Attempts : RecordReceipt(a)) \/ \E p \in Pulls : ReadBack(p)
Verify(a)  == VerifyReceipt(a) \/ VerifyTarget(a)

LEMMA Steps == Step => World \/ Service \/ Gather \/ \E a \in Attempts : Prepare(a) \/ Verify(a)
BY DEF Step, World, Service, Gather, Prepare, Verify

\* What each group leaves alone.
LEMMA Frames ==
  /\ World => UNCHANGED <<reply, ledger, queued, attempt, authorization, request, receipt, readings, sequence, verdict>>
  /\ Service => UNCHANGED <<now, pull, changes, attempt, authorization, request, receipt, readings, sequence, verdict>>
  /\ Gather => UNCHANGED <<now, pull, changes, reply, ledger, queued, attempt, authorization, request, verdict>>
  /\ \A a \in Attempts :
       /\ Prepare(a) => UNCHANGED <<now, pull, changes, reply, ledger, queued, receipt, readings, sequence, verdict>>
       /\ Verify(a) => UNCHANGED <<now, pull, changes, reply, ledger, queued, attempt, authorization, request,
                                   receipt, readings, sequence>>
<1>1. World => UNCHANGED <<reply, ledger, queued, attempt, authorization, request, receipt, readings, sequence, verdict>>
  BY DEF World, Tick, ChangePull, serviceVars
<1>2. Service => UNCHANGED <<now, pull, changes, attempt, authorization, request, receipt, readings, sequence, verdict>>
  BY DEF Service, LeaveQueue, Accept, AnswerConflict, AnswerError, AnswerWith
<1>3. Gather => UNCHANGED <<now, pull, changes, reply, ledger, queued, attempt, authorization, request, verdict>>
  BY DEF Gather, RecordReceipt, ReadBack, serviceVars
<1>4. ASSUME NEW a \in Attempts
      PROVE  /\ Prepare(a) => UNCHANGED <<now, pull, changes, reply, ledger, queued, receipt, readings, sequence, verdict>>
             /\ Verify(a) => UNCHANGED <<now, pull, changes, reply, ledger, queued, attempt, authorization, request,
                                         receipt, readings, sequence>>
  BY DEF Prepare, Bind, ReadAuthorization, BuildRequest, Verify, VerifyReceipt, VerifyTarget, Judge, serviceVars
<1> QED BY <1>1, <1>2, <1>3, <1>4

LEMMA PullStep == ASSUME PullTypes, Step PROVE PullTypes'
<1>1. CASE Tick
  BY <1>1, BoundAssumption DEF Tick, PullTypes, Time
<1>3. ASSUME NEW p \in Pulls, ChangePull(p) PROVE PullTypes'
  <2>1. pull' \in [Pulls -> Facts]
    <3>1. ASSUME NEW h \in Heads, pull' = [pull EXCEPT ![p].head = h] PROVE pull' \in [Pulls -> Facts]
      BY <3>1 DEF PullTypes, Facts
    <3>2. ASSUME NEW b \in {"main", "other"}, pull' = [pull EXCEPT ![p].base = b] PROVE pull' \in [Pulls -> Facts]
      BY <3>2 DEF PullTypes, Facts
    <3>3. CASE pull' = [pull EXCEPT ![p].authorized = ~@]
      BY <3>3 DEF PullTypes, Facts
    <3>4. CASE pull' = [pull EXCEPT ![p].eligible = ~@]
      BY <3>4 DEF PullTypes, Facts
    <3> QED BY <1>3, <3>1, <3>2, <3>3, <3>4 DEF ChangePull
  <2> QED BY <1>3, <2>1 DEF ChangePull, PullTypes
<1>2. CASE ~World
  BY <1>2, Steps, Frames DEF PullTypes
<1> QED BY <1>1, <1>2, <1>3 DEF World

LEMMA ServiceStep == ASSUME ServiceTypes, TargetTypes, Binding, Step PROVE ServiceTypes'
<1> USE DEF ServiceTypes
<1>1. ASSUME NEW a \in Attempts, Accept(a) PROVE ServiceTypes'
  <2>1. attempt[a] \in Target /\ request[a] \in Requests
    BY <1>1 DEF Accept, Waits, TargetTypes, Binding, Bound
  <2>2. Entry(a) \in Entries
    BY <2>1 DEF Entry, Entries, Target, Requests
  <2>3. ledger' = Append(ledger, Entry(a)) /\ queued' = queued \cup {Len(ledger')}
    BY <1>1 DEF Accept
  <2>4. ledger' \in Seq(Entries) /\ Len(ledger') = Len(ledger) + 1
    BY <2>2, <2>3
  <2>5. queued' \subseteq DOMAIN ledger'
    BY <2>3, <2>4
  <2>6. PICK status \in {"202", "error"}, uuid \in {NoUuid, Len(ledger')} : AnswerWith(a, status, uuid)
    BY <1>1 DEF Accept
  <2>7. reply' \in [Attempts -> Answers]
    BY <2>4, <2>6 DEF AnswerWith, Answers, NoUuid
  <2> QED BY <2>4, <2>5, <2>7
<1>2. ASSUME NEW a \in Attempts, AnswerConflict(a) \/ AnswerError(a) PROVE ServiceTypes'
  <2>1. PICK status \in {"200/409", "error"} : AnswerWith(a, status, NoUuid) /\ UNCHANGED <<ledger, queued>>
    BY <1>2 DEF AnswerConflict, AnswerError
  <2>2. [status |-> status, uuid |-> NoUuid] \in Answers
    BY DEF Answers, NoUuid
  <2> QED BY <2>1, <2>2 DEF AnswerWith
<1>3. CASE LeaveQueue
  BY <1>3 DEF LeaveQueue
<1>4. CASE ~Service
  BY <1>4, Steps, Frames
<1> QED BY <1>1, <1>2, <1>3, <1>4 DEF Service

\* A route is one of the decisions.
LEMMA RouteType ==
  ASSUME NEW a, NEW auth, NEW freeze, NEW surface
  PROVE  /\ Route(a, auth, freeze, surface) \in Decisions
         /\ Route(a, auth, freeze, surface) = "ASYNC_MERGE_QUEUE"
              => AuthorizationMatches(a, auth) /\ auth.facts.authorized /\ auth.facts.eligible
<1> USE DEF Route, Decisions
<1>1. CASE ~AuthorizationMatches(a, auth)
  BY <1>1
<1>2. CASE AuthorizationMatches(a, auth) /\ ~auth.facts.authorized
  BY <1>2
<1>3. CASE AuthorizationMatches(a, auth) /\ auth.facts.authorized /\ ~auth.facts.eligible
  BY <1>3
<1>4. CASE AuthorizationMatches(a, auth) /\ auth.facts.authorized /\ auth.facts.eligible
  BY <1>4
<1> QED BY <1>1, <1>2, <1>3, <1>4

LEMMA TargetStep == ASSUME PullTypes, TargetTypes, Step PROVE TargetTypes'
<1> USE DEF TargetTypes
<1>1. ASSUME NEW a \in Attempts, Bind(a) PROVE TargetTypes'
  BY <1>1 DEF Bind, PullTypes, Facts, Target
<1>2. ASSUME NEW a \in Attempts, ReadAuthorization(a) PROVE TargetTypes'
  <2>1. [pull |-> attempt[a].pull, facts |-> pull[attempt[a].pull], at |-> now] \in Authorization
    BY <1>2 DEF ReadAuthorization, PullTypes, Target, Authorization
  <2> QED BY <1>2, <2>1 DEF ReadAuthorization
<1>3. ASSUME NEW a \in Attempts, BuildRequest(a) PROVE TargetTypes'
  <2>1. PICK d \in Decisions : request' = [request EXCEPT ![a] = [decision |-> d, head |-> attempt[a].head, at |-> now]]
    BY <1>3, RouteType DEF BuildRequest
  <2>2. [decision |-> d, head |-> attempt[a].head, at |-> now] \in Requests
    BY <1>3 DEF BuildRequest, PullTypes, Target, Requests
  <2> QED BY <1>3, <2>1, <2>2 DEF BuildRequest
<1>4. CASE ~(\E a \in Attempts : Prepare(a))
  BY <1>4, Steps, Frames
<1> QED BY <1>1, <1>2, <1>3, <1>4 DEF Prepare

\* A receipt verdict says what the receipt is.
LEMMA ReceiptCases ==
  ASSUME NEW a, NEW r
  PROVE  /\ ReceiptVerdict(a, r) \in Results
         /\ ReceiptVerdict(a, r) # Confirmed
         /\ ReceiptVerdict(a, r) = "SUBMISSION_ACCEPTED" =>
              BelongsTo(a, r) /\ Fresh(r.at, MaxReceiptAge) /\ r.status = "202" /\ r.uuid # NoUuid
         /\ ReceiptVerdict(a, r) = "RECONCILE_REQUIRED" => BelongsTo(a, r) /\ r.status = "200/409"
<1> USE DEF ReceiptVerdict, Results, Confirmed
<1>1. CASE ~BelongsTo(a, r) \/ ~Fresh(r.at, MaxReceiptAge)
  BY <1>1
<1>2. CASE ~(~BelongsTo(a, r) \/ ~Fresh(r.at, MaxReceiptAge))
  <2>1. CASE r.status = "200/409"
    BY <1>2, <2>1
  <2>2. CASE r.status = "202" /\ r.uuid # NoUuid
    BY <1>2, <2>2
  <2>3. CASE r.status # "200/409" /\ ~(r.status = "202" /\ r.uuid # NoUuid)
    BY <1>2, <2>3
  <2> QED BY <2>1, <2>2, <2>3
<1> QED BY <1>1, <1>2

LEMMA EvidenceStep ==
  ASSUME PullTypes, ServiceTypes, TargetTypes, EvidenceTypes, Binding, Step PROVE EvidenceTypes'
<1> USE DEF EvidenceTypes
<1>1. ASSUME NEW a \in Attempts, RecordReceipt(a) PROVE EvidenceTypes'
  <2>1. attempt[a] \in Target /\ request[a] \in Requests /\ reply[a] \in Answers /\ reply[a].status # "none"
    BY <1>1 DEF RecordReceipt, TargetTypes, ServiceTypes, Binding, Bound
  <2>2. [attempt |-> a, pull |-> attempt[a].pull, head |-> request[a].head, status |-> reply[a].status,
         uuid |-> reply[a].uuid, at |-> now, sequence |-> sequence + 1] \in Receipt
    BY <2>1 DEF PullTypes, Target, Requests, Answers, Receipt
  <2> QED BY <1>1, <2>2 DEF RecordReceipt
<1>2. ASSUME NEW p \in Pulls, ReadBack(p) PROVE EvidenceTypes'
  <2>1. [pull |-> p, base |-> pull[p].base, head |-> pull[p].head, at |-> now, sequence |-> sequence + 1] \in Reading
    BY DEF PullTypes, Facts, Reading
  <2> QED BY <1>2, <2>1 DEF ReadBack
<1>3. ASSUME NEW a \in Attempts, Verify(a) PROVE EvidenceTypes'
  <2>1. PICK r \in Results, b \in Attempts : receipt[b] # NoRecord /\ Judge(a, r, receipt[b].uuid)
    <3>1. CASE VerifyReceipt(a)
      BY <3>1, ReceiptCases DEF VerifyReceipt
    <3>2. CASE VerifyTarget(a)
      BY <3>2 DEF VerifyTarget, Results
    <3> QED BY <1>3, <3>1, <3>2 DEF Verify
  <2>2. [result |-> r, uuid |-> receipt[b].uuid, at |-> now] \in Verdicts
    BY <2>1 DEF PullTypes, Receipt, Verdicts
  <2> QED BY <2>1, <2>2 DEF Judge
<1>4. CASE ~Gather /\ ~(\E a \in Attempts : Verify(a))
  BY <1>4, Steps, Frames
<1> QED BY <1>1, <1>2, <1>3, <1>4 DEF Gather

LEMMA HistoryStep ==
  ASSUME PullTypes', EvidenceTypes', HistoryTypes, Remember PROVE HistoryTypes'
<1>1. held' \subseteq [pull: Pulls, facts: Facts, at: Time]
  BY DEF PullTypes, HistoryTypes, Remember
<1>2. ASSUME NEW a \in Attempts, receipt'[a] # NoRecord
      PROVE  <<pull'[receipt'[a].pull].base, pull'[receipt'[a].pull].head>> \in {"main", "other"} \X Heads
  BY <1>2 DEF PullTypes, EvidenceTypes, Receipt, Facts
<1>3. since' \in [Attempts -> SUBSET ({"main", "other"} \X Heads)]
  BY <1>2 DEF HistoryTypes, Remember
<1> QED BY <1>1, <1>3 DEF HistoryTypes

LEMMA BindingStep == ASSUME TargetTypes, ServiceTypes, EvidenceTypes, Binding, Step PROVE Binding'
<1> USE DEF TargetTypes, ServiceTypes, EvidenceTypes
<1>1. CASE World
  BY <1>1, Frames DEF Binding, Bound
<1>2. ASSUME NEW b \in Attempts, Bind(b) \/ ReadAuthorization(b) PROVE Binding'
  BY <1>2 DEF Bind, ReadAuthorization, serviceVars, Binding, Bound
<1>3. ASSUME NEW b \in Attempts, BuildRequest(b) PROVE Binding'
  <2>1. PICK d : request' = [request EXCEPT ![b] = [decision |-> d, head |-> attempt[b].head, at |-> now]]
    BY <1>3 DEF BuildRequest
  <2> QED BY <1>3, <2>1 DEF BuildRequest, serviceVars, Binding, Bound
<1>4. ASSUME NEW b \in Attempts, Accept(b) \/ AnswerConflict(b) \/ AnswerError(b) PROVE Binding'
  <2>1. PICK status, uuid : status \in {"202", "200/409", "error"} /\ AnswerWith(b, status, uuid)
    BY <1>4 DEF Accept, AnswerConflict, AnswerError
  <2>2. Waits(b)
    BY <1>4 DEF Accept, AnswerConflict, AnswerError
  <2> QED BY <2>1, <2>2 DEF AnswerWith, Waits, Binding, Bound
<1>5. CASE LeaveQueue
  BY <1>5 DEF LeaveQueue, Binding, Bound
<1>6. CASE Gather
  BY <1>6 DEF Gather, RecordReceipt, ReadBack, serviceVars, Binding, Bound
<1>7. ASSUME NEW b \in Attempts, Verify(b) PROVE Binding'
  BY <1>7, Frames DEF Binding, Bound
<1> QED BY <1>1, <1>2, <1>3, <1>4, <1>5, <1>6, <1>7, Steps DEF Service, Prepare

LEMMA InitType == Init => TypeOK /\ Binding
<1> SUFFICES ASSUME Init PROVE TypeOK /\ Binding
  OBVIOUS
<1> USE BoundAssumption DEF Init
<1>1. PullTypes
  <2>1. [base: {"main"}, head: Heads, authorized: BOOLEAN, eligible: {TRUE}] \subseteq Facts
    BY DEF Facts
  <2>2. pull \in [Pulls -> Facts]
    BY <2>1
  <2> QED BY <2>2 DEF PullTypes, Time
<1>2. ServiceTypes
  BY DEF ServiceTypes, NoAnswer, Answers, NoUuid
<1>3. TargetTypes
  BY DEF TargetTypes
<1>4. EvidenceTypes
  BY DEF EvidenceTypes, Verdicts, Results, Time, NoUuid
<1>5. HistoryTypes
  BY <1>1 DEF HistoryTypes, PullTypes, Time
<1>6. Binding
  BY DEF Binding, Bound, NoAnswer
<1> QED BY <1>1, <1>2, <1>3, <1>4, <1>5, <1>6, Types

LEMMA TypeStep == TypeOK /\ Binding /\ [Next]_vars => TypeOK' /\ Binding'
<1>1. ASSUME TypeOK, Binding, UNCHANGED vars PROVE TypeOK' /\ Binding'
  BY <1>1 DEF vars, TypeOK, Binding, Bound
<1>2. ASSUME TypeOK, Binding, Next PROVE TypeOK' /\ Binding'
  <2>1. PullTypes' /\ ServiceTypes' /\ TargetTypes' /\ EvidenceTypes' /\ Binding'
    BY <1>2, Types, PullStep, ServiceStep, TargetStep, EvidenceStep, BindingStep DEF Next
  <2>2. HistoryTypes'
    BY <1>2, <2>1, Types, HistoryStep DEF Next
  <2> QED BY <2>1, <2>2 DEF TypeOK, PullTypes, ServiceTypes, TargetTypes, EvidenceTypes, HistoryTypes,
         Entries, Requests, Verdicts
<1> QED BY <1>1, <1>2

\* Pulls, evidence, requests and verdicts stay well typed.
THEOREM TypeCorrect == Spec => []TypeOK
BY InitType, TypeStep, PTL DEF Spec
-----------------------------------------------------------------------------
(* Evidence and what it was taken from.                                    *)

Fact(p, base, head, at) ==
  \E fact \in held : fact.pull = p /\ fact.facts.base = base /\ fact.facts.head = head /\ fact.at = at

\* An authorization is what held when it was read.
AuthorizationInv == \A a \in Attempts : authorization[a] # NoRecord => authorization[a] \in held

Qualified(a) ==
  request[a] # NoRecord /\ request[a].decision = "ASYNC_MERGE_QUEUE" =>
    \E fact \in held :
      /\ fact.pull = attempt[a].pull
      /\ fact.facts = [base |-> "main", head |-> request[a].head, authorized |-> TRUE, eligible |-> TRUE]
      /\ fact.at <= request[a].at /\ request[a].at - fact.at <= MaxAuthorizationAge

\* An answer with a UUID is about the ledger's entry of its attempt, and so is
\* the receipt recorded from it.
Entered(l, a, uuid, p, head) == uuid \in DOMAIN l /\ l[uuid] = [attempt |-> a, pull |-> p, head |-> head]
Ours(a, uuid, p, head) == Entered(ledger, a, uuid, p, head)
AcceptanceInv ==
  \A a \in Attempts :
    /\ reply[a].status = "202" /\ reply[a].uuid # NoUuid
         => Ours(a, reply[a].uuid, attempt[a].pull, request[a].head)
    /\ receipt[a] # NoRecord => receipt[a].attempt = a /\ receipt[a].status = reply[a].status
    /\ receipt[a] # NoRecord /\ receipt[a].status = "202" /\ receipt[a].uuid # NoUuid
         => Ours(a, receipt[a].uuid, receipt[a].pull, receipt[a].head)

\* Who is on record was answered so, or by an error.
RecordInv == \A u \in DOMAIN ledger : reply[ledger[u].attempt].status \in {"202", "error"}

\* A reading is what held when it was made; one that comes after a receipt in
\* the sequence was made after it.
ReadingInv ==
  \A o \in readings :
    /\ o.sequence <= sequence
    /\ Fact(o.pull, o.base, o.head, o.at)
    /\ \A a \in Attempts :
         receipt[a] # NoRecord /\ receipt[a].pull = o.pull /\ o.sequence > receipt[a].sequence
           => <<o.base, o.head>> \in since[a]

VerdictInv(a) ==
  /\ verdict[a].result \in {"SUBMISSION_ACCEPTED", Confirmed}
       => attempt[a] # NoRecord /\ Ours(a, verdict[a].uuid, attempt[a].pull, attempt[a].head)
  /\ verdict[a].result = Confirmed =>
       /\ receipt[a] # NoRecord /\ <<"main", attempt[a].head>> \in since[a]
       /\ verdict[a].at - receipt[a].at <= MaxReceiptAge
       /\ \E fact \in held : /\ fact.pull = attempt[a].pull
                             /\ fact.facts.base = "main" /\ fact.facts.head = attempt[a].head
                             /\ fact.at <= verdict[a].at /\ verdict[a].at - fact.at <= MaxPostAge
  /\ verdict[a].result = "RECONCILE_REQUIRED" => reply[a].status = "200/409"

EvidenceInv == /\ AuthorizationInv /\ AcceptanceInv /\ RecordInv /\ ReadingInv
               /\ \A a \in Attempts : Qualified(a) /\ VerdictInv(a)

-----------------------------------------------------------------------------
(* What no step takes back.                                                *)

LEMMA HeldGrows == ASSUME Remember PROVE held \subseteq held' /\ \A p \in Pulls : [pull |-> p, facts |-> pull'[p], at |-> now'] \in held'
BY DEF Remember

\* An attempt keeps what it is bound to, its request, its answer, its receipt.
LEMMA Kept ==
  ASSUME TypeOK, Binding, Step, NEW a \in Attempts
  PROVE  /\ attempt[a] # NoRecord => attempt'[a] = attempt[a]
         /\ request[a] # NoRecord => request'[a] = request[a]
         /\ reply[a] # NoAnswer => reply'[a] = reply[a]
         /\ receipt[a] # NoRecord => receipt'[a] = receipt[a]
<1> USE DEF TypeOK
<1>1. CASE World \/ LeaveQueue
  BY <1>1, Frames DEF LeaveQueue
<1>2. ASSUME NEW b \in Attempts, Prepare(b)
      PROVE  /\ attempt[a] # NoRecord => attempt'[a] = attempt[a]
             /\ request[a] # NoRecord => request'[a] = request[a]
  BY <1>2 DEF Prepare, Bind, ReadAuthorization, BuildRequest
<1>3. ASSUME NEW b \in Attempts, Accept(b) \/ AnswerConflict(b) \/ AnswerError(b)
      PROVE  reply[a] # NoAnswer => reply'[a] = reply[a]
  BY <1>3 DEF Accept, AnswerConflict, AnswerError, AnswerWith, Waits
<1>4. Gather => (receipt[a] # NoRecord => receipt'[a] = receipt[a])
  BY DEF Gather, RecordReceipt, ReadBack
<1>5. CASE Service
  BY <1>1, <1>3, <1>5, Frames DEF Service
<1>6. CASE Gather
  BY <1>4, <1>6, Frames
<1>7. ASSUME NEW b \in Attempts, Prepare(b)
      PROVE  UNCHANGED <<reply, receipt>>
  BY <1>7, Frames
<1>8. CASE \E b \in Attempts : Prepare(b)
  <2>1. PICK b \in Attempts : Prepare(b)
    BY <1>8
  <2> QED BY <1>2, <1>7, <2>1
<1>9. CASE \E b \in Attempts : Verify(b)
  BY <1>9, Frames
<1> QED BY <1>1, <1>5, <1>6, <1>8, <1>9, Steps

\* The ledger only grows.
LEMMA LedgerGrows ==
  ASSUME TypeOK, Binding, Step
  PROVE  \A a \in Attempts : \A uuid, p, head : Ours(a, uuid, p, head) => Entered(ledger', a, uuid, p, head)
<1>1. CASE UNCHANGED ledger
  BY <1>1 DEF Ours, Entered
<1>2. ASSUME NEW b \in Attempts, Accept(b)
      PROVE  \A u \in DOMAIN ledger : u \in DOMAIN ledger' /\ ledger'[u] = ledger[u]
  <2>1. attempt[b] \in Target /\ request[b] \in Requests
    BY <1>2 DEF Accept, Waits, TypeOK, Binding, Bound, Requests
  <2>2. Entry(b) \in Entries /\ ledger \in Seq(Entries) /\ ledger' = Append(ledger, Entry(b))
    BY <1>2, <2>1 DEF Entry, Entries, Target, Requests, Accept, TypeOK
  <2> QED BY <2>2
<1>3. UNCHANGED ledger \/ \E b \in Attempts : Accept(b)
  BY Steps, Frames DEF Service, LeaveQueue, AnswerConflict, AnswerError
<1> QED BY <1>1, <1>2, <1>3 DEF Ours, Entered

\* What an attempt's pull has been since its receipt only grows.
LEMMA SinceGrows ==
  ASSUME TypeOK, Binding, Next, NEW a \in Attempts, receipt[a] # NoRecord
  PROVE  /\ since[a] \subseteq since'[a]
         /\ <<pull'[receipt[a].pull].base, pull'[receipt[a].pull].head>> \in since'[a]
<1>1. receipt'[a] = receipt[a]
  BY Kept DEF Next
<1> QED BY <1>1 DEF Next, Remember
-----------------------------------------------------------------------------
(* Each part is kept.                                                      *)

LEMMA AuthorizationStep ==
  ASSUME TypeOK, Binding, AuthorizationInv, Next PROVE AuthorizationInv'
<1> SUFFICES ASSUME NEW a \in Attempts, authorization'[a] # NoRecord PROVE authorization'[a] \in held'
  BY DEF AuthorizationInv
<1>1. CASE authorization'[a] = authorization[a]
  BY <1>1, HeldGrows DEF Next, AuthorizationInv
<1>2. CASE ReadAuthorization(a)
  <2>1. authorization'[a] = [pull |-> attempt[a].pull, facts |-> pull'[attempt[a].pull], at |-> now']
    BY <1>2 DEF ReadAuthorization, TypeOK
  <2>2. attempt[a].pull \in Pulls
    BY <1>2 DEF ReadAuthorization, TypeOK, Target
  <2> QED BY <2>1, <2>2, HeldGrows DEF Next
<1>3. ASSUME NEW b \in Attempts, Prepare(b) PROVE authorization'[a] = authorization[a] \/ ReadAuthorization(a)
  BY <1>3 DEF Prepare, Bind, ReadAuthorization, BuildRequest, TypeOK
<1> QED BY <1>1, <1>2, <1>3, Steps, Frames DEF Next

\* Whoever's authorization was presented, the request names what it holds of.
LEMMA QualifiedStep ==
  ASSUME TypeOK, Binding, AuthorizationInv, NEW a \in Attempts, Qualified(a), Next PROVE Qualified(a)'
<1>0. Step /\ Remember
  BY DEF Next
<1>1. CASE request[a] # NoRecord
  <2>1. request'[a] = request[a] /\ attempt'[a] = attempt[a]
    BY <1>0, <1>1, Kept DEF Binding, Bound
  <2> QED BY <1>0, <1>1, <2>1, HeldGrows DEF Qualified
<1>2. CASE request'[a] = request[a] /\ request[a] = NoRecord
  BY <1>2 DEF Qualified
<1>3. CASE BuildRequest(a)
  <2>1. PICK b \in Attempts, freeze \in Freezes, surface \in Surfaces :
          /\ authorization[b] # NoRecord
          /\ request' = [request EXCEPT ![a] =
               [decision |-> Route(a, authorization[b], freeze, surface), head |-> attempt[a].head, at |-> now]]
    BY <1>3 DEF BuildRequest
  <2>2. /\ request'[a].decision = Route(a, authorization[b], freeze, surface)
        /\ request'[a].head = attempt[a].head /\ request'[a].at = now /\ attempt' = attempt
    BY <1>3, <2>1 DEF BuildRequest, TypeOK
  <2> SUFFICES ASSUME request'[a].decision = "ASYNC_MERGE_QUEUE"
               PROVE  \E fact \in held' :
                        /\ fact.pull = attempt[a].pull
                        /\ fact.facts = [base |-> "main", head |-> attempt[a].head, authorized |-> TRUE, eligible |-> TRUE]
                        /\ fact.at <= now /\ now - fact.at <= MaxAuthorizationAge
    BY <2>2 DEF Qualified
  <2> DEFINE auth == authorization[b]
  <2>3. AuthorizationMatches(a, auth) /\ auth.facts.authorized /\ auth.facts.eligible
    BY <2>2, RouteType
  <2>4. auth \in held' /\ auth.facts \in Facts
    BY <1>0, <2>1, HeldGrows DEF AuthorizationInv, TypeOK, Authorization
  <2>5. auth.facts = [base |-> "main", head |-> attempt[a].head, authorized |-> TRUE, eligible |-> TRUE]
    BY <2>3, <2>4 DEF AuthorizationMatches, Facts
  <2> QED BY <2>3, <2>4, <2>5 DEF AuthorizationMatches, Fresh
<1>4. ASSUME NEW b \in Attempts, Prepare(b) PROVE request'[a] = request[a] \/ BuildRequest(a)
  BY <1>4 DEF Prepare, Bind, ReadAuthorization, BuildRequest, TypeOK
<1> QED BY <1>0, <1>1, <1>2, <1>3, <1>4, Steps, Frames

LEMMA AcceptanceStep ==
  ASSUME TypeOK, Binding, AcceptanceInv, Next PROVE AcceptanceInv'
<1>0. Step /\ Remember /\ \A a \in Attempts : \A uuid, p, head : Ours(a, uuid, p, head) => Entered(ledger', a, uuid, p, head)
  BY LedgerGrows DEF Next
<1> SUFFICES ASSUME NEW a \in Attempts
             PROVE  /\ reply'[a].status = "202" /\ reply'[a].uuid # NoUuid
                         => Entered(ledger', a, reply'[a].uuid, attempt'[a].pull, request'[a].head)
                    /\ receipt'[a] # NoRecord => receipt'[a].attempt = a /\ receipt'[a].status = reply'[a].status
                    /\ receipt'[a] # NoRecord /\ receipt'[a].status = "202" /\ receipt'[a].uuid # NoUuid
                         => Entered(ledger', a, receipt'[a].uuid, receipt'[a].pull, receipt'[a].head)
  BY DEF AcceptanceInv, Ours
<1>1. reply'[a].status = "202" /\ reply'[a].uuid # NoUuid
        => Entered(ledger', a, reply'[a].uuid, attempt'[a].pull, request'[a].head)
  <2>1. CASE reply[a] # NoAnswer
    <3>1. reply'[a] = reply[a] /\ request'[a] = request[a] /\ attempt'[a] = attempt[a]
      BY <1>0, <2>1, Kept DEF Binding, Bound
    <3> QED BY <1>0, <3>1 DEF AcceptanceInv, Ours
  <2>2. CASE Accept(a)
    <3>1. attempt[a] \in Target /\ request[a] \in Requests
      BY <2>2 DEF Accept, Waits, TypeOK, Binding, Bound, Requests
    <3>2. Entry(a) \in Entries /\ ledger \in Seq(Entries) /\ ledger' = Append(ledger, Entry(a))
      BY <2>2, <3>1 DEF Entry, Entries, Target, Requests, Accept, TypeOK
    <3>3. Len(ledger') \in DOMAIN ledger' /\ ledger'[Len(ledger')] = Entry(a)
      BY <3>2
    <3>4. PICK status \in {"202", "error"}, uuid \in {NoUuid, Len(ledger')} : AnswerWith(a, status, uuid)
      BY <2>2 DEF Accept
    <3>5. reply'[a].uuid = uuid /\ attempt' = attempt /\ request' = request
      BY <3>4 DEF AnswerWith, TypeOK
    <3> QED BY <3>3, <3>4, <3>5 DEF Entered, Entry
  <2>3. CASE reply[a] = NoAnswer /\ ~Accept(a)
    <3>1. reply'[a].status # "202"
      <4>1. ASSUME NEW b \in Attempts, Accept(b) \/ AnswerConflict(b) \/ AnswerError(b) PROVE reply'[a].status # "202"
        BY <2>3, <4>1 DEF Accept, AnswerConflict, AnswerError, AnswerWith, TypeOK, NoAnswer
      <4>2. CASE reply' = reply
        BY <2>3, <4>2 DEF NoAnswer
      <4>3. reply' = reply \/ \E b \in Attempts : Accept(b) \/ AnswerConflict(b) \/ AnswerError(b)
        BY <1>0, Steps, Frames DEF Service, LeaveQueue
      <4> QED BY <4>1, <4>2, <4>3
    <3> QED BY <3>1
  <2> QED BY <2>1, <2>2, <2>3
<1>2. CASE receipt[a] # NoRecord
  <2>1. receipt'[a] = receipt[a] /\ reply'[a] = reply[a]
    BY <1>0, <1>2, Kept DEF Binding, Bound
  <2>2. receipt[a].status = "202" /\ receipt[a].uuid # NoUuid
          => Entered(ledger', a, receipt[a].uuid, receipt[a].pull, receipt[a].head)
    BY <1>0, <1>2 DEF AcceptanceInv
  <2> QED BY <1>1, <1>2, <2>1, <2>2 DEF AcceptanceInv, Ours
<1>3. CASE RecordReceipt(a)
  <2>1. /\ receipt'[a].attempt = a /\ receipt'[a].pull = attempt[a].pull /\ receipt'[a].head = request[a].head
        /\ receipt'[a].status = reply[a].status /\ receipt'[a].uuid = reply[a].uuid /\ ledger' = ledger
        /\ reply' = reply
    BY <1>3 DEF RecordReceipt, TypeOK, serviceVars
  <2> QED BY <1>1, <2>1 DEF AcceptanceInv, Ours
<1>4. CASE receipt[a] = NoRecord /\ ~RecordReceipt(a)
  <2>1. receipt'[a] = NoRecord
    <3>1. Gather => receipt'[a] = receipt[a]
      BY <1>4 DEF Gather, RecordReceipt, ReadBack, TypeOK
    <3> QED BY <1>0, <1>4, <3>1, Steps, Frames
  <2> QED BY <1>1, <2>1
<1> QED BY <1>2, <1>3, <1>4

LEMMA RecordStep ==
  ASSUME TypeOK, Binding, RecordInv, Next PROVE RecordInv'
<1> Step
  BY DEF Next
<1>1. ASSUME NEW a \in Attempts, reply[a].status \in {"202", "error"}
      PROVE  reply'[a].status \in {"202", "error"}
  BY <1>1, Kept DEF NoAnswer
<1>2. \A u \in DOMAIN ledger : ledger[u].attempt \in Attempts
  <2>1. ledger \in Seq(Entries)
    BY DEF TypeOK, Entries
  <2>2. \A u \in DOMAIN ledger : ledger[u] \in Entries
    BY <2>1
  <2> QED BY <2>2 DEF Entries
<1>3. CASE UNCHANGED ledger
  BY <1>1, <1>2, <1>3 DEF RecordInv
<1>4. ASSUME NEW b \in Attempts, Accept(b) PROVE RecordInv'
  <2>1. attempt[b] \in Target /\ request[b] \in Requests
    BY <1>4 DEF Accept, Waits, TypeOK, Binding, Bound, Requests
  <2>2. Entry(b) \in Entries /\ ledger \in Seq(Entries) /\ ledger' = Append(ledger, Entry(b))
    BY <1>4, <2>1 DEF Entry, Entries, Target, Requests, Accept, TypeOK
  <2>3. \A u \in DOMAIN ledger' : ledger'[u] = Entry(b) \/ (u \in DOMAIN ledger /\ ledger'[u] = ledger[u])
    BY <2>2
  <2>4. reply'[b].status \in {"202", "error"}
    BY <1>4 DEF Accept, AnswerWith, TypeOK
  <2> QED BY <1>1, <1>2, <2>3, <2>4 DEF RecordInv, Entry
<1>5. UNCHANGED ledger \/ \E b \in Attempts : Accept(b)
  BY Steps, Frames DEF Service, LeaveQueue, AnswerConflict, AnswerError
<1> QED BY <1>3, <1>4, <1>5

LEMMA ReadingStep ==
  ASSUME TypeOK, TypeOK', Binding, ReadingInv, Next PROVE ReadingInv'
<1>0. Step /\ Remember
  BY DEF Next
<1>1. held \subseteq held'
  BY <1>0, HeldGrows
<1> SUFFICES ASSUME NEW o \in readings'
             PROVE  /\ o.sequence <= sequence'
                    /\ Fact(o.pull, o.base, o.head, o.at)'
                    /\ \A a \in Attempts :
                         receipt'[a] # NoRecord /\ receipt'[a].pull = o.pull /\ o.sequence > receipt'[a].sequence
                           => <<o.base, o.head>> \in since'[a]
  BY DEF ReadingInv, Fact
<1>2. sequence' \in Nat /\ sequence \in Nat /\ o.sequence \in Nat
  BY DEF TypeOK, Reading
<1>3. CASE o \in readings
  <2>1. sequence' >= sequence
    BY <1>0, <1>2, Steps, Frames DEF Gather, RecordReceipt, ReadBack
  <2>2. o.sequence <= sequence
    BY <1>3 DEF ReadingInv
  <2>3. ASSUME NEW a \in Attempts, receipt'[a] # NoRecord, receipt'[a].pull = o.pull, o.sequence > receipt'[a].sequence
        PROVE  <<o.base, o.head>> \in since'[a]
    <3>1. CASE receipt[a] # NoRecord
      BY <1>0, <1>3, <2>3, <3>1, Kept, SinceGrows DEF ReadingInv
    <3>2. CASE RecordReceipt(a)
      <4>1. receipt'[a].sequence = sequence + 1
        BY <3>2 DEF RecordReceipt, TypeOK
      <4> QED BY <1>2, <2>2, <2>3, <4>1
    <3>3. CASE receipt[a] = NoRecord /\ ~RecordReceipt(a)
      <4>1. Gather => receipt'[a] = receipt[a]
        BY <3>3 DEF Gather, RecordReceipt, ReadBack, TypeOK
      <4> QED BY <1>0, <2>3, <3>3, <4>1, Steps, Frames
    <3> QED BY <3>1, <3>2, <3>3
  <2>4. Fact(o.pull, o.base, o.head, o.at)'
    <3>1. PICK fact \in held : /\ fact.pull = o.pull /\ fact.facts.base = o.base
                               /\ fact.facts.head = o.head /\ fact.at = o.at
      BY <1>3 DEF ReadingInv, Fact
    <3> QED BY <1>1, <3>1 DEF Fact
  <2> QED BY <1>2, <2>1, <2>2, <2>3, <2>4
<1>4. CASE o \notin readings
  <2>1. PICK p \in Pulls : ReadBack(p)
    BY <1>0, <1>4, Steps, Frames DEF Gather, RecordReceipt
  <2>2. o = [pull |-> p, base |-> pull[p].base, head |-> pull[p].head, at |-> now, sequence |-> sequence']
    BY <1>4, <2>1 DEF ReadBack
  <2>3. UNCHANGED <<now, pull, receipt>>
    BY <2>1 DEF ReadBack
  <2>4. [pull |-> p, facts |-> pull[p], at |-> now] \in held'
    BY <1>0, <2>3, HeldGrows
  <2>5. Fact(o.pull, o.base, o.head, o.at)'
    BY <2>2, <2>4 DEF Fact
  <2>6. ASSUME NEW a \in Attempts, receipt[a] # NoRecord, receipt[a].pull = p
        PROVE  <<o.base, o.head>> \in since'[a]
    BY <2>2, <2>3, <2>6, SinceGrows
  <2> QED BY <1>2, <2>2, <2>3, <2>5, <2>6
<1> QED BY <1>3, <1>4

\* A judgement names the receipt it was made from.
LEMMA VerdictStep ==
  ASSUME TypeOK, Binding, AcceptanceInv, ReadingInv, NEW a \in Attempts, VerdictInv(a), Next
  PROVE  VerdictInv(a)'
<1>0. /\ Step /\ Remember /\ held \subseteq held'
      /\ \A b \in Attempts : \A uuid, p, head : Ours(b, uuid, p, head) => Entered(ledger', b, uuid, p, head)
  BY HeldGrows, LedgerGrows DEF Next
<1>1. CASE verdict'[a] = verdict[a]
  <2>1. CASE verdict[a].result \notin {"SUBMISSION_ACCEPTED", Confirmed}
    BY <1>0, <1>1, <2>1, Kept DEF VerdictInv, NoAnswer
  <2>2. CASE verdict[a].result \in {"SUBMISSION_ACCEPTED", Confirmed}
    <3>1. attempt[a] # NoRecord /\ attempt'[a] = attempt[a]
      BY <1>0, <2>2, Kept DEF VerdictInv
    <3>2. Entered(ledger', a, verdict'[a].uuid, attempt'[a].pull, attempt'[a].head)
      BY <1>0, <1>1, <2>2, <3>1 DEF VerdictInv
    <3>3. CASE verdict[a].result = Confirmed
      <4>1. receipt'[a] = receipt[a] /\ receipt[a] # NoRecord
        BY <1>0, <3>3, Kept DEF VerdictInv
      <4>2. <<"main", attempt'[a].head>> \in since'[a]
        BY <3>1, <3>3, <4>1, SinceGrows DEF VerdictInv
      <4>3. \E fact \in held' : /\ fact.pull = attempt'[a].pull
                                /\ fact.facts.base = "main" /\ fact.facts.head = attempt'[a].head
                                /\ fact.at <= verdict'[a].at /\ verdict'[a].at - fact.at <= MaxPostAge
        BY <1>0, <1>1, <3>1, <3>3 DEF VerdictInv
      <4> QED BY <1>1, <3>1, <3>2, <3>3, <4>1, <4>2, <4>3 DEF VerdictInv, Ours, Confirmed
    <3>4. CASE verdict[a].result # Confirmed
      BY <1>1, <2>2, <3>1, <3>2, <3>4 DEF VerdictInv, Ours, Confirmed
    <3> QED BY <3>3, <3>4
  <2> QED BY <2>1, <2>2
<1>2. CASE Verify(a)
  <2>1. UNCHANGED <<now, reply, ledger, attempt, receipt, readings>> /\ attempt[a] # NoRecord
    BY <1>2, Frames DEF Verify, VerifyReceipt, VerifyTarget
  <2>2. PICK b \in Attempts, result \in Results :
          /\ receipt[b] # NoRecord /\ Judge(a, result, receipt[b].uuid)
          /\ (result \in {"SUBMISSION_ACCEPTED", Confirmed} => ReceiptVerdict(a, receipt[b]) = "SUBMISSION_ACCEPTED")
          /\ (result = Confirmed => \E o \in readings : ConfirmsTarget(a, o, receipt[b]))
          /\ (result = "RECONCILE_REQUIRED" => ReceiptVerdict(a, receipt[b]) = "RECONCILE_REQUIRED")
    <3>1. CASE VerifyReceipt(a)
      <4>1. PICK b \in Attempts : receipt[b] # NoRecord /\ Judge(a, ReceiptVerdict(a, receipt[b]), receipt[b].uuid)
        BY <3>1 DEF VerifyReceipt
      <4> QED BY <4>1, ReceiptCases
    <3>2. CASE VerifyTarget(a)
      <4>1. PICK b \in Attempts, o \in readings :
              /\ receipt[b] # NoRecord
              /\ Judge(a,
                   IF ReceiptVerdict(a, receipt[b]) # "SUBMISSION_ACCEPTED" THEN "BLOCKED_RECEIPT_INVALID"
                   ELSE IF ConfirmsTarget(a, o, receipt[b]) THEN "POST_SUBMISSION_TARGET_CONFIRMED"
                   ELSE "BLOCKED_POST_SUBMISSION_TARGET_MISMATCH",
                   receipt[b].uuid)
        BY <3>2 DEF VerifyTarget
      <4>2. CASE ReceiptVerdict(a, receipt[b]) # "SUBMISSION_ACCEPTED"
        BY <4>1, <4>2 DEF Results, Confirmed
      <4>3. CASE ReceiptVerdict(a, receipt[b]) = "SUBMISSION_ACCEPTED" /\ ConfirmsTarget(a, o, receipt[b])
        BY <4>1, <4>3 DEF Results, Confirmed
      <4>4. CASE ReceiptVerdict(a, receipt[b]) = "SUBMISSION_ACCEPTED" /\ ~ConfirmsTarget(a, o, receipt[b])
        BY <4>1, <4>4 DEF Results, Confirmed
      <4> QED BY <4>2, <4>3, <4>4
    <3> QED BY <1>2, <3>1, <3>2 DEF Verify
  <2>3. verdict'[a].result = result /\ verdict'[a].uuid = receipt[b].uuid /\ verdict'[a].at = now
    BY <2>2 DEF Judge, TypeOK
  <2>4. CASE result \notin {"SUBMISSION_ACCEPTED", Confirmed}
    <3>1. result = "RECONCILE_REQUIRED" => reply[a].status = "200/409"
      BY <2>2, ReceiptCases DEF AcceptanceInv, BelongsTo
    <3> QED BY <2>1, <2>3, <2>4, <3>1 DEF VerdictInv
  <2>5. CASE result \in {"SUBMISSION_ACCEPTED", Confirmed}
    <3>1. BelongsTo(a, receipt[b]) /\ receipt[b].status = "202" /\ receipt[b].uuid # NoUuid
      BY <2>2, <2>5, ReceiptCases
    <3>2. b = a /\ now - receipt[a].at <= MaxReceiptAge
      <4>1. b = a
        BY <2>2, <3>1 DEF AcceptanceInv, BelongsTo
      <4> QED BY <2>2, <2>5, <4>1, ReceiptCases DEF Fresh
    <3>3. Entered(ledger', a, verdict'[a].uuid, attempt'[a].pull, attempt'[a].head)
      BY <2>1, <2>2, <2>3, <3>1, <3>2 DEF AcceptanceInv, BelongsTo, Ours
    <3>4. CASE result = Confirmed
      <4>1. PICK o \in readings : ConfirmsTarget(a, o, receipt[a])
        BY <2>2, <3>2, <3>4
      <4>2. o.pull = receipt[a].pull /\ o.sequence > receipt[a].sequence
        BY <3>1, <3>2, <4>1 DEF ConfirmsTarget, After, BelongsTo
      <4>3. <<"main", attempt[a].head>> \in since[a]
        BY <2>2, <3>2, <4>1, <4>2 DEF ReadingInv, ConfirmsTarget
      <4>4. <<"main", attempt[a].head>> \in since'[a]
        BY <2>2, <3>2, <4>3, SinceGrows
      <4>5. PICK fact \in held : fact.pull = o.pull /\ fact.facts.base = o.base /\ fact.facts.head = o.head /\ fact.at = o.at
        BY DEF ReadingInv, Fact
      <4>6. \E f \in held' : /\ f.pull = attempt[a].pull
                             /\ f.facts.base = "main" /\ f.facts.head = attempt[a].head
                             /\ f.at <= now /\ now - f.at <= MaxPostAge
        BY <1>0, <4>1, <4>5 DEF ConfirmsTarget, Fresh
      <4> QED BY <2>1, <2>2, <2>3, <3>2, <3>3, <3>4, <4>4, <4>6 DEF VerdictInv, Ours, Confirmed
    <3>5. CASE result # Confirmed
      BY <2>1, <2>3, <2>5, <3>3, <3>5 DEF VerdictInv, Ours, Confirmed
    <3> QED BY <3>4, <3>5
  <2> QED BY <2>4, <2>5
<1>3. ASSUME NEW b \in Attempts, Verify(b) PROVE verdict'[a] = verdict[a] \/ Verify(a)
  BY <1>3 DEF Verify, VerifyReceipt, VerifyTarget, Judge, TypeOK
<1>4. CASE World \/ Service \/ Gather \/ \E b \in Attempts : Prepare(b)
  BY <1>1, <1>4, Frames
<1> QED BY <1>0, <1>1, <1>2, <1>3, <1>4, Steps
-----------------------------------------------------------------------------
(* Theorems.                                                               *)

Inv == TypeOK /\ Binding /\ EvidenceInv

LEMMA InvStep == Inv /\ [Next]_vars => Inv'
<1>1. ASSUME Inv, Next PROVE Inv'
  <2>1. TypeOK' /\ Binding'
    BY <1>1, TypeStep DEF Inv
  <2>2. AuthorizationInv' /\ AcceptanceInv' /\ RecordInv' /\ ReadingInv'
    BY <1>1, <2>1, AuthorizationStep, AcceptanceStep, RecordStep, ReadingStep DEF Inv, EvidenceInv
  <2>3. \A a \in Attempts : Qualified(a)' /\ VerdictInv(a)'
    BY <1>1, QualifiedStep, VerdictStep DEF Inv, EvidenceInv
  <2> QED BY <2>1, <2>2, <2>3 DEF Inv, EvidenceInv
<1>2. ASSUME Inv, UNCHANGED vars PROVE Inv'
  <2>1. TypeOK' /\ Binding'
    BY <1>2, TypeStep DEF Inv
  <2>2. AuthorizationInv' /\ AcceptanceInv' /\ RecordInv' /\ ReadingInv'
    BY <1>2 DEF Inv, EvidenceInv, vars, AuthorizationInv, AcceptanceInv, RecordInv, ReadingInv, Ours, Entered, Fact
  <2>3. \A a \in Attempts : Qualified(a)' /\ VerdictInv(a)'
    BY <1>2 DEF Inv, EvidenceInv, vars, Qualified, VerdictInv, Ours, Entered
  <2> QED BY <2>1, <2>2, <2>3 DEF Inv, EvidenceInv
<1> QED BY <1>1, <1>2

\* The strengthening: every piece of evidence is what held when it was taken,
\* and belongs to the attempt it was taken for.
THEOREM Invariance == Spec => []Inv
<1>1. Init => EvidenceInv
  BY DEF Init, EvidenceInv, AuthorizationInv, AcceptanceInv, RecordInv, ReadingInv, Qualified, VerdictInv,
     NoAnswer, Confirmed
<1> QED BY <1>1, InitType, InvStep, PTL DEF Spec, Inv

\* build_merge_async_request() builds only for a target that held on main,
\* authorized and eligible, within the age, whoever's authorization it is given.
THEOREM QualifiedRequest == Spec => []RequestIsQualified
<1>1. Inv => RequestIsQualified
  BY DEF Inv, EvidenceInv, Qualified, RequestIsQualified
<1> QED BY <1>1, Invariance, PTL

\* verify_submission_receipt() gives an attempt credit only for the request the
\* service accepted from that very attempt, and tells one to reconcile only if
\* it accepted none of it.
THEOREM OwnAcceptance == Spec => []AcceptedIsOurs
<1>1. Inv => AcceptedIsOurs
  BY DEF Inv, EvidenceInv, RecordInv, VerdictInv, Ours, Entered, Confirmed, AcceptedIsOurs
<1> QED BY <1>1, Invariance, PTL

\* verify_post_submission_target() confirms only what was read after the
\* receipt, also within one second of the clock.
THEOREM ReadAfterAnswer == Spec => []ConfirmedAfterAnswer
<1>1. Inv => ConfirmedAfterAnswer
  BY DEF Inv, EvidenceInv, VerdictInv, Confirmed, ConfirmedAfterAnswer
<1> QED BY <1>1, Invariance, PTL

\* What verify_post_submission_target() confirms was so in the last seconds.
THEOREM FreshConfirmation == Spec => []ConfirmedIsFresh
<1>1. Inv => ConfirmedIsFresh
  BY DEF Inv, EvidenceInv, VerdictInv, Confirmed, ConfirmedIsFresh
<1> QED BY <1>1, Invariance, PTL
=============================================================================
