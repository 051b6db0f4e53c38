-------------------- MODULE IntegrationCapability_proofs --------------------
(***************************************************************************)
(* Proofs about capability routing, for every number of workers, logins    *)
(* and mains, every age and every bound.                                   *)
(***************************************************************************)
EXTENDS IntegrationCapability, TLAPS

-----------------------------------------------------------------------------
(* Types.                                                                  *)

Outside == ChangeTools \/ AdvanceMain \/ RotateCredential \/ StartCanary \/ FinishCanary
Gather(w)   == Begin(w) \/ Discover(w) \/ ReadExecutor(w)
Classify(w) == AcquireFails(w) \/ Decide(w)
Delegate(w) == PostRequest(w) \/ CheckoutMain(w) \/ BindAndSubmit(w)
Work(w)     == Gather(w) \/ Classify(w) \/ Delegate(w)

\* A step is one of these.
LEMMA Steps == Step <=> Tick \/ Outside \/ \E w \in Workers : Work(w)
BY DEF Step, Outside, Work, Gather, Classify, Delegate

FactTypes ==
  /\ now \in Time /\ changes \in Nat
  /\ tools \in Tools /\ main \in Mains /\ credential \in Credential
  /\ canary \in Canary \cup {NoRecord}
EvidenceTypes ==
  /\ asOf \in [Workers -> Time \cup {NoRecord}]
  /\ found \in [Workers -> [required: BOOLEAN, tools: Tools, at: Time] \cup {NoRecord}]
  /\ executor \in [Workers -> Evidence \cup {NoRecord}]
ResultTypes ==
  /\ decision \in [Workers -> Decision \cup {NoRecord}]
  /\ request \in [Workers -> [main: Mains, author: Logins] \cup {NoRecord}]
  /\ run \in [Workers -> Runs \cup {NoRecord}]
HistoryTypes ==
  /\ proved \subseteq Mains /\ directAt \subseteq Time
  /\ commentAt \subseteq Logins \X Time /\ readyAt \subseteq Logins \X Time

\* The type invariant in parts.
LEMMA Types == TypeOK <=> observed \subseteq Workers /\ FactTypes /\ EvidenceTypes /\ ResultTypes /\ HistoryTypes
BY DEF TypeOK, FactTypes, EvidenceTypes, ResultTypes, HistoryTypes

\* Facts change within their types.
LEMMA FactStep == ASSUME FactTypes, Step PROVE FactTypes'
<1>1. CASE Tick
  BY <1>1, BoundAssumption DEF FactTypes, Tick, factVars, Time
<1>2. CASE ChangeTools \/ AdvanceMain \/ RotateCredential
  BY <1>2 DEF FactTypes, ChangeTools, AdvanceMain, RotateCredential, Change
<1>3. CASE StartCanary
  BY <1>3 DEF FactTypes, StartCanary, Canary
<1>4. CASE FinishCanary
  BY <1>4 DEF FactTypes, FinishCanary, Canary
<1>5. ASSUME NEW w \in Workers, Work(w) PROVE FactTypes'
  BY <1>5 DEF FactTypes, factVars, Work, Gather, Classify, Delegate, Begin, Discover, ReadExecutor,
       AcquireFails, Decide, PostRequest, CheckoutMain, BindAndSubmit
<1> QED
  BY <1>1, <1>2, <1>3, <1>4, <1>5, Steps DEF Outside

\* Evidence is a copy of facts and of the clock.
LEMMA EvidenceStep == ASSUME FactTypes, EvidenceTypes, Step PROVE EvidenceTypes'
<1>1. CASE Tick \/ Outside
  BY <1>1 DEF EvidenceTypes, Tick, Outside, workerVars, ChangeTools, AdvanceMain, RotateCredential,
       Change, StartCanary, FinishCanary
<1>2. ASSUME NEW w \in Workers, Begin(w) PROVE EvidenceTypes'
  BY <1>2 DEF EvidenceTypes, FactTypes, Begin
<1>3. ASSUME NEW w \in Workers, Discover(w) PROVE EvidenceTypes'
  BY <1>3 DEF EvidenceTypes, FactTypes, Discover
<1>4. ASSUME NEW w \in Workers, ReadExecutor(w) PROVE EvidenceTypes'
  <2>1. canary \in Canary
    BY <1>4 DEF ReadExecutor, FactTypes
  <2>2. [main |-> main, operational |-> credential.operational, at |-> now,
         principal |-> credential.principal, canary |-> canary.main, terminal |-> canary.terminal]
          \in Evidence
    BY <2>1 DEF FactTypes, Credential, Canary, Evidence
  <2> QED
    BY <1>4, <2>2 DEF EvidenceTypes, ReadExecutor
<1>5. ASSUME NEW w \in Workers, Classify(w) PROVE EvidenceTypes'
  BY <1>5 DEF EvidenceTypes, FactTypes, Classify, AcquireFails, Decide, Judged
<1>6. ASSUME NEW w \in Workers, Delegate(w) PROVE EvidenceTypes'
  BY <1>6 DEF EvidenceTypes, Delegate, PostRequest, CheckoutMain, BindAndSubmit
<1> QED
  BY <1>1, <1>2, <1>3, <1>4, <1>5, <1>6, Steps DEF Work, Gather

\* Every decision is one of the four states, and a delegated one has evidence.
LEMMA StateType ==
  ASSUME NEW w \in Workers
  PROVE  /\ StateOf(w) \in States
         /\ StateOf(w) = "DELEGATED_CAPABLE" => ExecutorIsOperational(w)
BY DEF StateOf, States, CanDelegate

\* Decisions, requests and runs stay well typed.
LEMMA ResultStep == ASSUME FactTypes, EvidenceTypes, ResultTypes, Step PROVE ResultTypes'
<1>1. CASE Tick \/ Outside
  BY <1>1 DEF ResultTypes, Tick, Outside, workerVars, ChangeTools, AdvanceMain, RotateCredential,
       Change, StartCanary, FinishCanary
<1>2. ASSUME NEW w \in Workers, Gather(w) PROVE ResultTypes'
  BY <1>2 DEF ResultTypes, Gather, Begin, Discover, ReadExecutor
<1>3. ASSUME NEW w \in Workers, AcquireFails(w) PROVE ResultTypes'
  BY <1>3 DEF ResultTypes, AcquireFails, Decision, States
<1>4. ASSUME NEW w \in Workers, Decide(w) PROVE ResultTypes'
  <2>1. StateOf(w) = "DELEGATED_CAPABLE" => executor[w].canary \in Mains
    <3>1. ExecutorIsOperational(w) => executor[w] \in Evidence
      BY DEF ExecutorIsOperational, EvidenceTypes
    <3> QED
      BY <3>1, StateType DEF Evidence
  <2>2. [state |-> StateOf(w), failed |-> FALSE,
         main |-> IF StateOf(w) = "DELEGATED_CAPABLE" THEN executor[w].canary ELSE NoRecord]
          \in Decision
    BY <2>1, StateType DEF Decision
  <2> QED
    BY <1>4, <2>2 DEF ResultTypes, Decide
<1>5. ASSUME NEW w \in Workers, PostRequest(w) PROVE ResultTypes'
  <2>1. decision[w] \in Decision /\ decision[w].main \in Mains
    BY <1>5 DEF PostRequest, ResultTypes, Decision
  <2> QED
    BY <1>5, <2>1 DEF ResultTypes, FactTypes, Tools, PostRequest
<1>6. ASSUME NEW w \in Workers, CheckoutMain(w) PROVE ResultTypes'
  BY <1>6 DEF ResultTypes, FactTypes, CheckoutMain, Runs
<1>7. ASSUME NEW w \in Workers, BindAndSubmit(w) PROVE ResultTypes'
  BY <1>7 DEF ResultTypes, BindAndSubmit, Runs
<1> QED
  BY <1>1, <1>2, <1>3, <1>4, <1>5, <1>6, <1>7, Steps DEF Work, Classify, Delegate

\* The history records typed facts and seconds.
LEMMA HistoryStep ==
  ASSUME FactTypes, HistoryTypes, FactTypes', Remember PROVE HistoryTypes'
<1>1. proved' \subseteq Mains
  <2>1. canary' # NoRecord => canary'.main \in Mains
    BY DEF FactTypes, Canary
  <2> QED
    BY <2>1 DEF Remember, HistoryTypes
<1>2. directAt' \subseteq Time
  BY DEF Remember, HistoryTypes, FactTypes
<1>3. commentAt' \subseteq Logins \X Time
  <2>1. tools'.actor \in Logins /\ now' \in Time
    BY DEF FactTypes, Tools
  <2>2. <<tools'.actor, now'>> \in Logins \X Time
    BY <2>1
  <2> QED
    BY <2>2 DEF Remember, HistoryTypes
<1>4. readyAt' \subseteq Logins \X Time
  <2>1. credential'.principal \in Logins /\ now' \in Time
    BY DEF FactTypes, Credential
  <2>2. <<credential'.principal, now'>> \in Logins \X Time
    BY <2>1
  <2> QED
    BY <2>2 DEF Remember, HistoryTypes
<1> QED
  BY <1>1, <1>2, <1>3, <1>4 DEF HistoryTypes

\* The initial states are well typed.
LEMMA InitType == Init => TypeOK
<1> SUFFICES ASSUME Init PROVE TypeOK
  OBVIOUS
<1>1. 0 \in Time
  BY BoundAssumption DEF Time
<1>2. observed \subseteq Workers /\ FactTypes /\ EvidenceTypes /\ ResultTypes
  BY <1>1 DEF Init, FactTypes, EvidenceTypes, ResultTypes
<1>3. <<tools.actor, 0>> \in Logins \X Time
  BY <1>1, <1>2 DEF FactTypes, Tools
<1>4. HistoryTypes
  BY <1>1, <1>3 DEF Init, HistoryTypes
<1> QED
  BY <1>2, <1>4, Types

\* Every step, and stuttering, keeps the types.
LEMMA TypeStep == TypeOK /\ [Next]_vars => TypeOK'
<1>1. ASSUME TypeOK, Next PROVE TypeOK'
  <2>1. observed' \subseteq Workers /\ FactTypes' /\ EvidenceTypes' /\ ResultTypes'
    BY <1>1, Types, FactStep, EvidenceStep, ResultStep DEF Next
  <2>2. HistoryTypes'
    BY <1>1, <2>1, Types, HistoryStep DEF Next
  <2> QED
    BY <2>1, <2>2 DEF TypeOK, FactTypes, EvidenceTypes, ResultTypes, HistoryTypes
<1>2. TypeOK /\ UNCHANGED vars => TypeOK'
  BY DEF TypeOK, vars
<1> QED
  BY <1>1, <1>2

\* Facts, evidence, decisions and runs stay well typed.
THEOREM TypeCorrect == Spec => []TypeOK
BY InitType, TypeStep, PTL DEF Spec
-----------------------------------------------------------------------------
(* From a finished canary to a submitted request: each record on the way   *)
(* vouches for the one after it, although none of them is dated.           *)

CanaryInv == canary # NoRecord => (canary.terminal => canary.main \in proved)

EvidenceInv(w) ==
  executor[w] # NoRecord => (executor[w].terminal => executor[w].canary \in proved)

Delegated(w) == decision[w] # NoRecord /\ decision[w].state = "DELEGATED_CAPABLE"
DecisionInv(w) == Delegated(w) => decision[w].main \in Pinned \cap proved

RequestInv(w) == request[w] # NoRecord => Delegated(w) /\ request[w].main = decision[w].main

RunInv(w) ==
  run[w] # NoRecord =>
    /\ request[w] # NoRecord
    /\ run[w].stage \in {"running", "submitted"} => run[w].main = request[w].main

WorkerInv(w) == EvidenceInv(w) /\ DecisionInv(w) /\ RequestInv(w) /\ RunInv(w)
Inv == TypeOK /\ CanaryInv /\ \A w \in Workers : WorkerInv(w)

\* What has been proved stays proved.
LEMMA ProvedGrows == Remember => proved \subseteq proved'
BY DEF Remember

\* The history learns of a canary no later than it ends.
LEMMA CanaryStep == ASSUME Remember PROVE CanaryInv'
BY DEF Remember, CanaryInv

\* A step that leaves a worker's records alone keeps what they vouch for.
LEMMA WorkerFrame ==
  ASSUME NEW w \in Workers, WorkerInv(w), proved \subseteq proved',
         executor'[w] = executor[w], decision'[w] = decision[w],
         request'[w] = request[w], run'[w] = run[w]
  PROVE  WorkerInv(w)'
BY DEF WorkerInv, EvidenceInv, DecisionInv, Delegated, RequestInv, RunInv

\* A worker's step touches no record of another worker.
LEMMA OtherWorkers ==
  ASSUME TypeOK, NEW w \in Workers, Work(w), NEW v \in Workers, v # w
  PROVE  /\ executor'[v] = executor[v] /\ decision'[v] = decision[v]
         /\ request'[v] = request[v] /\ run'[v] = run[v]
<1>1. CASE Gather(w)
  BY <1>1 DEF TypeOK, Gather, Begin, Discover, ReadExecutor
<1>2. CASE Classify(w)
  BY <1>2 DEF TypeOK, Classify, AcquireFails, Decide
<1>3. CASE Delegate(w)
  BY <1>3 DEF TypeOK, Delegate, PostRequest, CheckoutMain, BindAndSubmit
<1> QED
  BY <1>1, <1>2, <1>3 DEF Work

\* Reading the executor copies a canary that the history already knows.
LEMMA GatherWorker ==
  ASSUME Inv, NEW w \in Workers, Gather(w), proved \subseteq proved' PROVE WorkerInv(w)'
<1>1. TypeOK /\ CanaryInv /\ WorkerInv(w)
  BY DEF Inv
<1>2. CASE Begin(w) \/ Discover(w)
  BY <1>1, <1>2, WorkerFrame DEF Begin, Discover
<1>3. CASE ReadExecutor(w)
  <2>1. /\ executor'[w].terminal = canary.terminal /\ executor'[w].canary = canary.main
        /\ canary # NoRecord
        /\ UNCHANGED <<decision, request, run>>
    BY <1>1, <1>3 DEF TypeOK, ReadExecutor
  <2>2. EvidenceInv(w)'
    BY <1>1, <2>1 DEF EvidenceInv, CanaryInv
  <2> QED
    BY <1>1, <2>1, <2>2 DEF WorkerInv, DecisionInv, Delegated, RequestInv, RunInv
<1> QED
  BY <1>2, <1>3 DEF Gather

\* A delegated decision keeps a main that is pinned and whose canary ended.
LEMMA ClassifyWorker ==
  ASSUME Inv, NEW w \in Workers, Classify(w), proved \subseteq proved' PROVE WorkerInv(w)'
<1>1. TypeOK /\ WorkerInv(w)
  BY DEF Inv
<1>2. decision[w] = NoRecord /\ UNCHANGED <<executor, request, run>>
  BY DEF Classify, AcquireFails, Decide
<1>3. request[w] = NoRecord /\ run[w] = NoRecord
  BY <1>1, <1>2 DEF WorkerInv, RequestInv, RunInv, Delegated
<1>4. DecisionInv(w)'
  <2>1. CASE AcquireFails(w)
    BY <1>1, <2>1 DEF TypeOK, AcquireFails, DecisionInv, Delegated
  <2>2. CASE Decide(w)
    <3>1. decision'[w].state = StateOf(w)
          /\ (StateOf(w) = "DELEGATED_CAPABLE" => decision'[w].main = executor[w].canary)
      BY <1>1, <2>2 DEF TypeOK, Decide
    <3>2. StateOf(w) = "DELEGATED_CAPABLE" => executor[w].canary \in Pinned \cap proved
      BY <1>1, StateType DEF ExecutorIsOperational, WorkerInv, EvidenceInv
    <3> QED
      BY <3>1, <3>2 DEF DecisionInv, Delegated
  <2> QED
    BY <2>1, <2>2 DEF Classify
<1> QED
  BY <1>1, <1>2, <1>3, <1>4 DEF WorkerInv, EvidenceInv, RequestInv, RunInv

\* A request names the main of its decision, and only a run on that main
\* goes on.
LEMMA DelegateWorker ==
  ASSUME Inv, NEW w \in Workers, Delegate(w), proved \subseteq proved' PROVE WorkerInv(w)'
<1>1. TypeOK /\ WorkerInv(w)
  BY DEF Inv
<1>2. EvidenceInv(w)' /\ DecisionInv(w)' /\ UNCHANGED <<executor, decision>>
  BY <1>1 DEF Delegate, PostRequest, CheckoutMain, BindAndSubmit, WorkerInv, EvidenceInv,
       DecisionInv, Delegated
<1>3. CASE PostRequest(w)
  <2>1. Delegated(w) /\ request'[w].main = decision[w].main
    BY <1>1, <1>3 DEF TypeOK, PostRequest, Delegated
  <2>2. run'[w] = NoRecord
    BY <1>1, <1>3 DEF PostRequest, WorkerInv, RunInv
  <2> QED
    BY <1>2, <2>1, <2>2 DEF WorkerInv, RequestInv, RunInv, Delegated
<1>4. CASE CheckoutMain(w)
  <2>1. request[w] # NoRecord /\ UNCHANGED request /\ run'[w].main = main
        /\ (run'[w].stage = "running" => request[w].main = main)
        /\ run'[w].stage \in {"running", "refused"}
    BY <1>1, <1>4 DEF TypeOK, CheckoutMain, NamesThisMain
  <2>2. RunInv(w)'
    BY <2>1 DEF RunInv
  <2> QED
    BY <1>1, <1>2, <2>1, <2>2 DEF WorkerInv, RequestInv, Delegated
<1>5. CASE BindAndSubmit(w)
  <2>1. run[w] # NoRecord /\ run[w].stage = "running"
        /\ UNCHANGED request /\ run'[w].main = run[w].main
    BY <1>1, <1>5 DEF TypeOK, BindAndSubmit
  <2>2. RunInv(w)'
    BY <1>1, <2>1 DEF WorkerInv, RunInv
  <2> QED
    BY <1>1, <1>2, <2>1, <2>2 DEF WorkerInv, RequestInv, Delegated
<1> QED
  BY <1>3, <1>4, <1>5 DEF Delegate

\* The invariant is inductive.
LEMMA NextInv == Inv /\ [Next]_vars => Inv'
<1>1. ASSUME Inv, Next PROVE Inv'
  <2>1. TypeOK'
    BY <1>1, TypeStep DEF Inv
  <2>2. CanaryInv' /\ proved \subseteq proved'
    BY <1>1, CanaryStep, ProvedGrows DEF Next
  <2>3. ASSUME NEW v \in Workers PROVE WorkerInv(v)'
    <3>1. CASE Tick \/ Outside
      <4>1. UNCHANGED <<executor, decision, request, run>>
        BY <3>1 DEF Tick, Outside, workerVars, ChangeTools, AdvanceMain, RotateCredential,
             Change, StartCanary, FinishCanary
      <4> QED
        BY <1>1, <2>2, <4>1, WorkerFrame DEF Inv
    <3>2. ASSUME NEW w \in Workers, Work(w) PROVE WorkerInv(v)'
      <4>1. CASE v = w
        BY <1>1, <2>2, <3>2, <4>1, GatherWorker, ClassifyWorker, DelegateWorker DEF Work
      <4>2. CASE v # w
        BY <1>1, <2>2, <3>2, <4>2, OtherWorkers, WorkerFrame DEF Inv
      <4> QED
        BY <4>1, <4>2
    <3> QED
      BY <1>1, <3>1, <3>2, Steps DEF Next
  <2> QED
    BY <2>1, <2>2, <2>3 DEF Inv
<1>2. Inv /\ UNCHANGED vars => Inv'
  <2> SUFFICES ASSUME Inv, UNCHANGED vars PROVE Inv'
    OBVIOUS
  <2>1. TypeOK'
    BY TypeStep DEF Inv
  <2>2. CanaryInv' /\ \A w \in Workers : WorkerInv(w)'
    BY DEF Inv, vars, CanaryInv, WorkerInv, EvidenceInv, DecisionInv, Delegated, RequestInv, RunInv
  <2> QED
    BY <2>1, <2>2 DEF Inv
<1> QED
  BY <1>1, <1>2

\* The invariant holds before anything is gathered.
LEMMA InitInv == Init => Inv
<1>1. Init => CanaryInv /\ \A w \in Workers : WorkerInv(w)
  BY DEF Init, CanaryInv, WorkerInv, EvidenceInv, DecisionInv, Delegated, RequestInv, RunInv
<1> QED
  BY <1>1, InitType DEF Inv

\* However old the decision behind it, a delegated request is submitted only
\* on a pinned main where a canary ended, and by a run on the main it names.
THEOREM SubmittedOnProvedMain == Spec => []SubmittedByProvedMain
<1>1. Inv => SubmittedByProvedMain
  BY DEF Inv, WorkerInv, DecisionInv, Delegated, RequestInv, RunInv, SubmittedByProvedMain
<1> QED
  BY <1>1, InitInv, NextInv, PTL DEF Spec
-----------------------------------------------------------------------------
(* From two readings to a release: each reading was true in its own second, *)
(* and the decision keeps both within MaxAge of the second it is judged in. *)

FoundInv(w) ==
  found[w] # NoRecord =>
    /\ found[w].tools.direct => found[w].at \in directAt
    /\ found[w].tools.comment => <<found[w].tools.actor, found[w].at>> \in commentAt

ReadyInv(w) ==
  LET e == executor[w] IN
    e # NoRecord /\ e.main \in Pinned /\ e.operational /\ e.canary = e.main /\ e.terminal
      => <<e.principal, e.at>> \in readyAt

\* An observed worker has had its clock read before anything else.
ClockInv(w) ==
  w \in observed /\ (found[w] # NoRecord \/ decision[w] # NoRecord) => asOf[w] # NoRecord

HadRoute(w) ==
  decision[w] # NoRecord =>
    /\ decision[w].state = "DIRECT_CAPABLE" => \E t \in directAt : Recent(w, t)
    /\ decision[w].state = "DELEGATED_CAPABLE" =>
         \E login \in Logins : \E t, u \in Time :
           /\ <<login, t>> \in commentAt /\ <<login, u>> \in readyAt
           /\ Recent(w, t) /\ Recent(w, u)

RouteInv(w) == FoundInv(w) /\ ReadyInv(w) /\ ClockInv(w) /\ HadRoute(w)
History == directAt \subseteq directAt' /\ commentAt \subseteq commentAt' /\ readyAt \subseteq readyAt'

\* A step that leaves a worker's evidence and decision alone, and the second
\* a decision was judged in, keeps its route.
LEMMA RouteFrame ==
  ASSUME NEW w \in Workers, RouteInv(w), History, UNCHANGED observed,
         found'[w] = found[w], executor'[w] = executor[w], decision'[w] = decision[w],
         asOf'[w] = asOf[w] \/ (asOf[w] = NoRecord /\ asOf'[w] # NoRecord /\ decision[w] = NoRecord)
  PROVE  RouteInv(w)'
<1>1. FoundInv(w)' /\ ReadyInv(w)' /\ ClockInv(w)'
  BY DEF RouteInv, FoundInv, ReadyInv, ClockInv, History
<1>2. HadRoute(w)'
  <2>1. CASE decision[w] = NoRecord
    BY <2>1 DEF HadRoute
  <2>2. CASE decision[w] # NoRecord
    <3>1. asOf'[w] = asOf[w] /\ decision'[w] # NoRecord
      BY <2>2
    <3>2. \A t : Recent(w, t) => Recent(w, t)'
      BY <3>1 DEF Recent
    <3>3. HadRoute(w)
      BY DEF RouteInv
    <3> QED BY <2>2, <3>2, <3>3 DEF HadRoute, History
  <2> QED BY <2>1, <2>2
<1> QED BY <1>1, <1>2 DEF RouteInv

\* The discovery is recorded in the second it is made.
LEMMA DiscoverRoute ==
  ASSUME TypeOK, NEW w \in Workers, RouteInv(w), Discover(w), Remember, History, UNCHANGED observed
  PROVE  RouteInv(w)'
<1>1. /\ found'[w].tools = tools /\ found'[w].at = now
      /\ UNCHANGED <<now, tools, executor, decision, asOf>>
      /\ decision[w] = NoRecord /\ (w \in observed => asOf[w] # NoRecord)
  <2>1. PICK required \in BOOLEAN :
          found' = [found EXCEPT ![w] = [required |-> required, tools |-> tools, at |-> now]]
    BY DEF Discover
  <2>2. found'[w] = [required |-> required, tools |-> tools, at |-> now]
    BY <2>1 DEF TypeOK
  <2> QED BY <2>2 DEF Discover, factVars
<1>2. FoundInv(w)'
  BY <1>1 DEF FoundInv, Remember
<1> QED BY <1>1, <1>2 DEF RouteInv, ReadyInv, ClockInv, HadRoute, History
\* The readback is recorded in the second it is made.
LEMMA ReadRoute ==
  ASSUME TypeOK, NEW w \in Workers, RouteInv(w), ReadExecutor(w), Remember, History, UNCHANGED observed
  PROVE  RouteInv(w)'
<1>1. /\ executor'[w].main = main /\ executor'[w].operational = credential.operational
      /\ executor'[w].principal = credential.principal /\ executor'[w].at = now
      /\ executor'[w].canary = canary.main /\ executor'[w].terminal = canary.terminal
      /\ UNCHANGED <<now, main, credential, canary, found, decision, asOf>>
      /\ canary \in Canary /\ decision[w] = NoRecord
  BY DEF TypeOK, ReadExecutor, factVars
<1>2. ReadyInv(w)'
  <2>1. canary = [main |-> canary.main, terminal |-> canary.terminal]
    BY <1>1 DEF Canary
  <2>2. main \in Pinned /\ credential.operational /\ canary.main = main /\ canary.terminal
          => <<credential.principal, now>> \in readyAt'
    <3>1. SUFFICES ASSUME main \in Pinned, credential.operational, canary.main = main, canary.terminal
                   PROVE  <<credential.principal, now>> \in readyAt'
      OBVIOUS
    <3>2. canary.terminal = TRUE
      BY <1>1, <3>1 DEF Canary
    <3>3. Ready'
      BY <1>1, <2>1, <3>1, <3>2 DEF Ready
    <3> QED BY <1>1, <3>3 DEF Remember
  <2> QED BY <1>1, <2>2 DEF ReadyInv
<1> QED BY <1>1, <1>2 DEF RouteInv, FoundInv, ClockInv, HadRoute, History

\* What the two capable states mean.
LEMMA CapableStates ==
  ASSUME NEW w \in Workers
  PROVE  /\ StateOf(w) = "DIRECT_CAPABLE" => Fresh(w, found[w].at) /\ found[w].tools.direct
         /\ StateOf(w) = "DELEGATED_CAPABLE" => Fresh(w, found[w].at) /\ CanDelegate(w)
<1> USE DEF StateOf
<1>1. CASE ~found[w].required
  BY <1>1
<1>2. CASE found[w].required /\ ~Fresh(w, found[w].at)
  BY <1>2
<1>3. CASE found[w].required /\ Fresh(w, found[w].at)
  BY <1>3
<1> QED BY <1>1, <1>2, <1>3

\* The decision is made in the second that both readings are recent for.
LEMMA DecideRoute ==
  ASSUME TypeOK, NEW w \in Workers, RouteInv(w), Decide(w), History, UNCHANGED observed
  PROVE  RouteInv(w)'
<1>1. /\ asOf'[w] = Judged(w) /\ decision'[w].state = StateOf(w)
      /\ UNCHANGED <<found, executor>> /\ found[w] # NoRecord
  BY DEF TypeOK, Decide
<1>2. ClockInv(w)'
  BY <1>1 DEF RouteInv, ClockInv, Judged
<1>3. \A t : Fresh(w, t) => Recent(w, t)'
  BY <1>1 DEF Fresh, Recent
<1>4. StateOf(w) = "DIRECT_CAPABLE" => found[w].at \in directAt' /\ Recent(w, found[w].at)'
  BY <1>1, <1>3, CapableStates DEF RouteInv, FoundInv, History
<1>5. StateOf(w) = "DELEGATED_CAPABLE" =>
        \E login \in Logins : \E t, u \in Time :
          /\ <<login, t>> \in commentAt' /\ <<login, u>> \in readyAt'
          /\ Recent(w, t)' /\ Recent(w, u)'
  <2> SUFFICES ASSUME StateOf(w) = "DELEGATED_CAPABLE"
               PROVE  \E login \in Logins : \E t, u \in Time :
                        /\ <<login, t>> \in commentAt' /\ <<login, u>> \in readyAt'
                        /\ Recent(w, t)' /\ Recent(w, u)'
    OBVIOUS
  <2>1. Fresh(w, found[w].at) /\ CanDelegate(w)
    BY CapableStates
  <2>2. /\ <<found[w].tools.actor, found[w].at>> \in commentAt'
        /\ <<found[w].tools.actor, executor[w].at>> \in readyAt'
    BY <1>1, <2>1 DEF CanDelegate, ExecutorIsOperational, RouteInv, FoundInv, ReadyInv, History
  <2>3. Recent(w, found[w].at)' /\ Recent(w, executor[w].at)'
    BY <1>1, <1>3, <2>1 DEF CanDelegate, ExecutorIsOperational
  <2>4. found[w].tools.actor \in Logins /\ found[w].at \in Time /\ executor[w].at \in Time
    <3>1. found[w] \in [required: BOOLEAN, tools: Tools, at: Time]
      BY <1>1 DEF TypeOK
    <3>2. executor[w] \in Evidence
      BY <2>1 DEF TypeOK, CanDelegate, ExecutorIsOperational
    <3> QED BY <3>1, <3>2 DEF Tools, Evidence
  <2>5. PICK login \in Logins, t \in Time, u \in Time :
          login = found[w].tools.actor /\ t = found[w].at /\ u = executor[w].at
    BY <2>4
  <2>6. <<login, t>> \in commentAt' /\ <<login, u>> \in readyAt'
    BY <2>2, <2>5
  <2>7. Recent(w, t)' /\ Recent(w, u)'
    BY <1>1, <2>3, <2>5 DEF Recent
  <2> QED BY <2>6, <2>7
<1>6. HadRoute(w)'
  BY <1>1, <1>4, <1>5 DEF HadRoute
<1> QED BY <1>1, <1>2, <1>6 DEF RouteInv, FoundInv, ReadyInv, History

LEMMA RouteStep ==
  ASSUME TypeOK, NEW v \in Workers, RouteInv(v), [Next]_vars PROVE RouteInv(v)'
<1>1. CASE UNCHANGED vars
  BY <1>1 DEF vars, RouteInv, FoundInv, ReadyInv, ClockInv, HadRoute, Recent
<1>2. CASE Next
  <2>1. History /\ Remember /\ UNCHANGED observed
    BY <1>2 DEF Next, Remember, History
  <2>2. CASE Tick \/ Outside
    BY <2>1, <2>2, RouteFrame DEF Tick, Outside, workerVars, ChangeTools, AdvanceMain, RotateCredential,
       Change, StartCanary, FinishCanary
  <2>3. ASSUME NEW w \in Workers, w # v, Work(w) PROVE RouteInv(v)'
    <3>1. found'[v] = found[v] /\ executor'[v] = executor[v] /\ decision'[v] = decision[v] /\ asOf'[v] = asOf[v]
      BY <2>3 DEF TypeOK, Work, Gather, Classify, Delegate, Begin, Discover, ReadExecutor, AcquireFails,
         Decide, PostRequest, CheckoutMain, BindAndSubmit
    <3> QED BY <2>1, <3>1, RouteFrame
  <2>4. CASE Begin(v)
    <3>1. /\ asOf'[v] = now /\ asOf[v] = NoRecord /\ v \in observed
          /\ UNCHANGED <<found, executor, decision>>
      BY <2>4 DEF TypeOK, Begin
    <3>2. found[v] = NoRecord /\ decision[v] = NoRecord
      BY <3>1 DEF RouteInv, ClockInv
    <3> QED BY <2>1, <3>1, <3>2 DEF RouteInv, FoundInv, ReadyInv, ClockInv, HadRoute, History
  <2>5. CASE AcquireFails(v)
    <3>1. /\ asOf' = asOf /\ asOf[v] # NoRecord /\ UNCHANGED <<found, executor>>
          /\ decision'[v].state = "BLOCKED_CAPABILITY_UNAVAILABLE"
      BY <2>5 DEF TypeOK, AcquireFails
    <3> QED BY <2>1, <3>1 DEF RouteInv, FoundInv, ReadyInv, ClockInv, HadRoute, History
  <2>6. CASE Delegate(v)
    BY <2>1, <2>6, RouteFrame DEF Delegate, PostRequest, CheckoutMain, BindAndSubmit
  <2>7. CASE Discover(v) \/ ReadExecutor(v) \/ Decide(v)
    BY <2>1, <2>7, DiscoverRoute, ReadRoute, DecideRoute
  <2>8. Tick \/ Outside \/ \E w \in Workers : Work(w)
    BY <1>2, Steps DEF Next
  <2> QED BY <2>2, <2>3, <2>4, <2>5, <2>6, <2>7, <2>8 DEF Work, Gather, Classify
<1> QED BY <1>1, <1>2

\* Whatever changes between the two readings, and however late typed evidence
\* is presented, a released worker's route was there within MaxAge.
THEOREM RouteWasThere == Spec => []ReleaseHadRoute
<1> DEFINE Routes == \A w \in Workers : RouteInv(w)
<1>1. Init => Routes
  BY DEF Init, RouteInv, FoundInv, ReadyInv, ClockInv, HadRoute
<1>2. TypeOK /\ Routes /\ [Next]_vars => Routes'
  BY RouteStep
<1>3. Routes => ReleaseHadRoute
  BY DEF RouteInv, HadRoute, ReleaseHadRoute
<1> QED BY <1>1, <1>2, <1>3, TypeCorrect, PTL DEF Spec
-----------------------------------------------------------------------------
(* What routing assumes of a delegated run is what DelegatedRun promises.   *)

\* The mapped stage of a run, and the step it should take.
Stage == [w \in Workers |-> IF run[w] = NoRecord THEN "waiting" ELSE run[w].stage]
RunStep == [Promised!RunNext]_<<main, credential.principal, request, Stage>>

\* A step that posts no request and moves no run leaves the promise with its
\* facts.
LEMMA FactsMove == ASSUME FactTypes', UNCHANGED <<request, run>> PROVE RunStep
<1>1. Stage' = Stage /\ main' \in Mains
  BY DEF Stage, FactTypes
<1> QED
  BY <1>1 DEF RunStep, Promised!RunNext, Promised!MoveFacts, Stage

\* A request names the author whose session posts it.
LEMMA PostStep == ASSUME Inv, Inv', NEW w \in Workers, PostRequest(w) PROVE RunStep
<1>1. /\ request[w] = NoRecord /\ UNCHANGED <<main, credential, run>>
      /\ request' = [request EXCEPT ![w] = [main |-> decision[w].main, author |-> tools.actor]]
  BY DEF PostRequest, factVars
<1>2. [main |-> decision[w].main, author |-> tools.actor] \in Promised!Asked
  <2>1. decision[w] \in Decision /\ decision[w].main \in Mains /\ tools.actor \in Logins
    BY DEF PostRequest, Inv, TypeOK, Decision, Tools
  <2> QED
    BY <2>1 DEF Promised!Asked
<1>3. Stage' = Stage
  BY <1>1 DEF Stage
<1>4. Promised!Post(w)
  BY <1>1, <1>2, <1>3 DEF Promised!Post, Stage
<1> QED
  BY <1>4 DEF RunStep, Promised!RunNext

\* A run that ends without a submission has been refused.
LEMMA RefuseStep ==
  ASSUME TypeOK, NEW w \in Workers, request[w] # NoRecord,
         Stage[w] \in {"waiting", "running"}, UNCHANGED <<main, credential, request>>,
         Stage' = [Stage EXCEPT ![w] = "refused"]
  PROVE  RunStep
<1>1. Stage' = [v \in Workers |-> IF v \in {w} THEN "refused" ELSE Stage[v]]
  BY DEF Stage
<1>2. Promised!Refuse({w})
  BY <1>1 DEF Promised!Refuse, Stage
<1> QED
  BY <1>2 DEF RunStep, Promised!RunNext

\* The executor's two steps on a request, each on the main it reads.
LEMMA CheckoutStep == ASSUME Inv, NEW w \in Workers, CheckoutMain(w) PROVE RunStep
<1> DEFINE there == IF NamesThisMain(w) THEN "running" ELSE "refused"
<1>1. TypeOK /\ request[w] # NoRecord /\ run[w] = NoRecord /\ UNCHANGED <<main, credential, request>>
  BY DEF Inv, CheckoutMain, factVars
<1>2. Stage' = [Stage EXCEPT ![w] = there]
  <2>1. run' = [run EXCEPT ![w] = [stage |-> there, main |-> main]]
    BY DEF CheckoutMain
  <2>2. [stage |-> there, main |-> main] \in Runs
    BY <1>1 DEF Runs, TypeOK
  <2> HIDE DEF there
  <2>3. run'[w] # NoRecord /\ run'[w].stage = there
    BY <1>1, <2>1, <2>2, MainAssumption DEF TypeOK
  <2>4. \A v \in Workers \ {w} : run'[v] = run[v]
    BY <1>1, <2>1 DEF TypeOK
  <2> QED
    BY <2>3, <2>4 DEF Stage
<1>3. Stage[w] = "waiting"
  BY <1>1 DEF Stage
<1>4. CASE NamesThisMain(w)
  <2>1. Promised!NamesMain(w)
    BY <1>1, <1>4 DEF NamesThisMain, Promised!NamesMain
  <2>2. Promised!Begin(w)
    BY <1>1, <1>2, <1>3, <1>4, <2>1 DEF Promised!Begin, Stage
  <2> QED
    BY <2>2 DEF RunStep, Promised!RunNext
<1>5. CASE ~NamesThisMain(w)
  BY <1>1, <1>2, <1>3, <1>5, RefuseStep
<1> QED
  BY <1>4, <1>5

LEMMA BindStep == ASSUME Inv, NEW w \in Workers, BindAndSubmit(w) PROVE RunStep
<1> DEFINE bound == credential.operational /\ credential.principal = request[w].author /\ NamesThisMain(w)
           there == IF bound THEN "submitted" ELSE "refused"
<1>1. TypeOK /\ run[w] # NoRecord /\ run[w].stage = "running" /\ UNCHANGED <<main, credential, request>>
  BY DEF Inv, BindAndSubmit, factVars
<1>2. request[w] # NoRecord
  BY <1>1 DEF Inv, WorkerInv, RunInv
<1>3. Stage' = [Stage EXCEPT ![w] = there]
  <2>1. run' = [run EXCEPT ![w].stage = there]
    BY DEF BindAndSubmit
  <2>2. run[w] \in Runs /\ there \in {"submitted", "refused"}
    BY <1>1 DEF TypeOK
  <2> HIDE DEF there
  <2>3. run'[w] \in Runs /\ run'[w].stage = there
    BY <1>1, <2>1, <2>2 DEF TypeOK, Runs
  <2>4. run'[w] # NoRecord
    BY <2>3, MainAssumption
  <2>5. \A v \in Workers \ {w} : run'[v] = run[v]
    BY <1>1, <2>1 DEF TypeOK
  <2> QED
    BY <2>3, <2>4, <2>5 DEF Stage
<1>4. Stage[w] = "running"
  BY <1>1 DEF Stage
<1>5. CASE bound
  <2>1. Promised!NamesMain(w) /\ credential.principal = request[w].author
    BY <1>2, <1>5 DEF NamesThisMain, Promised!NamesMain
  <2>2. Promised!Clear(w)
    BY <1>1, <1>3, <1>4, <1>5, <2>1 DEF Promised!Clear, Stage
  <2> QED
    BY <2>2 DEF RunStep, Promised!RunNext
<1>6. CASE ~bound
  BY <1>1, <1>2, <1>3, <1>4, <1>6, RefuseStep
<1> QED
  BY <1>5, <1>6

\* Whatever becomes of main, of the credential and of the decision, requests
\* and their runs take only steps of DelegatedRun.
THEOREM RequestKept == Spec => KeepsToRequest
<1>1. Init => Promised!RunInit
  <2> SUFFICES ASSUME Init PROVE Promised!RunInit
    OBVIOUS
  <2>1. main \in Mains /\ request = [w \in Workers |-> NoRecord]
        /\ \A w \in Workers : run[w] = NoRecord
    BY DEF Init
  <2> QED
    BY <2>1 DEF Promised!RunInit
<1>2. ASSUME Inv, Inv', [Next]_vars PROVE RunStep
  <2>1. FactTypes'
    BY <1>2 DEF Inv, TypeOK, FactTypes
  <2>2. CASE UNCHANGED vars
    BY <2>1, <2>2, FactsMove DEF vars
  <2>3. CASE Tick \/ Outside
    BY <2>1, <2>3, FactsMove DEF Tick, Outside, workerVars, ChangeTools, AdvanceMain,
         RotateCredential, Change, StartCanary, FinishCanary
  <2>4. ASSUME NEW w \in Workers, Gather(w) \/ Classify(w) PROVE RunStep
    BY <2>1, <2>4, FactsMove DEF Gather, Begin, Discover, ReadExecutor, Classify, AcquireFails, Decide
  <2>5. ASSUME NEW w \in Workers, Delegate(w) PROVE RunStep
    BY <1>2, <2>5, PostStep, CheckoutStep, BindStep DEF Delegate
  <2> QED
    BY <1>2, <2>2, <2>3, <2>4, <2>5, Steps DEF Next, Work
<1>3. Inv /\ Inv' /\ [Next]_vars => [Promised!RunNext]_(Promised!runVars)
  BY <1>2 DEF RunStep, Promised!runVars, Stage
<1> QED
  BY <1>1, <1>3, InitInv, NextInv, PTL DEF Spec, KeepsToRequest, Promised!RunSpec
-----------------------------------------------------------------------------
(* How far BlockedIsUnproven can fail: an observer that discovers the      *)
(* direct operation is overruled only when the second has turned since the *)
(* clock was read.                                                         *)

Overruled(w) ==
  /\ decision[w] # NoRecord /\ decision[w].state = "BLOCKED_CAPABILITY_UNAVAILABLE"
  /\ ~decision[w].failed /\ found[w].tools.direct

OverruledOnlyByTheClock == \A w \in observed : Overruled(w) => found[w].at > asOf[w]

\* The clock of an observed worker is read first.
OrderInv(w) ==
  w \in observed =>
    /\ asOf[w] # NoRecord => asOf[w] <= now
    /\ found[w] # NoRecord => asOf[w] # NoRecord /\ asOf[w] <= found[w].at
    /\ asOf[w] = NoRecord => decision[w] = NoRecord
    /\ Overruled(w) => found[w].at > asOf[w]

\* A fresh discovery of the direct operation is never a block.
LEMMA FreshIsCapable ==
  ASSUME NEW w \in Workers, StateOf(w) = "BLOCKED_CAPABILITY_UNAVAILABLE", found[w].tools.direct
  PROVE  ~Fresh(w, found[w].at)
<1> USE DEF StateOf
<1>1. CASE ~found[w].required
  BY <1>1
<1>2. CASE found[w].required /\ Fresh(w, found[w].at)
  BY <1>2
<1> QED
  BY <1>1, <1>2

\* A step that leaves the worker's clock and evidence alone.
LEMMA OrderFrame ==
  ASSUME NEW w \in Workers, OrderInv(w), TypeOK, TypeOK', now <= now', UNCHANGED observed,
         asOf'[w] = asOf[w], found'[w] = found[w], decision'[w] = decision[w]
  PROVE  OrderInv(w)'
<1>1. now \in Nat /\ now' \in Nat /\ (asOf[w] # NoRecord => asOf[w] \in Nat)
  BY DEF TypeOK, Time
<1> QED
  BY <1>1 DEF OrderInv, Overruled

LEMMA OrderStep ==
  ASSUME TypeOK, TypeOK', NEW v \in Workers, OrderInv(v), [Next]_vars PROVE OrderInv(v)'
<1>1. /\ now \in Nat
      /\ asOf[v] # NoRecord => asOf[v] \in Nat
      /\ found[v] # NoRecord => found[v].at \in Nat
  BY DEF TypeOK, Time
<1>2. CASE UNCHANGED vars
  BY <1>1, <1>2, OrderFrame DEF vars
<1>3. CASE Next
  <2>1. UNCHANGED observed
    BY <1>3 DEF Next
  <2>2. CASE Tick \/ Outside
    <3>1. now <= now' /\ UNCHANGED <<asOf, found, decision>>
      BY <1>1, <2>2 DEF Tick, Outside, workerVars, ChangeTools, AdvanceMain, RotateCredential,
           Change, StartCanary, FinishCanary
    <3> QED
      BY <2>1, <3>1, OrderFrame
  <2>3. ASSUME NEW w \in Workers, w # v, Work(w) PROVE OrderInv(v)'
    <3>1. now' = now /\ found'[v] = found[v] /\ decision'[v] = decision[v] /\ asOf'[v] = asOf[v]
      BY <2>3 DEF TypeOK, Work, Gather, Classify, Delegate, Begin, Discover, ReadExecutor, AcquireFails,
         Decide, PostRequest, CheckoutMain, BindAndSubmit
    <3> QED
      BY <1>1, <2>1, <3>1, OrderFrame
  <2>4. CASE Begin(v)
    <3>1. /\ asOf'[v] = now /\ asOf[v] = NoRecord /\ v \in observed
          /\ UNCHANGED <<now, found, decision>>
      BY <2>4 DEF TypeOK, Begin
    <3>2. found[v] = NoRecord /\ decision[v] = NoRecord
      BY <3>1 DEF OrderInv
    <3> QED
      BY <1>1, <3>1, <3>2 DEF OrderInv, Overruled
  <2>5. CASE Discover(v)
    <3>1. PICK required \in BOOLEAN :
            found' = [found EXCEPT ![v] = [required |-> required, tools |-> tools, at |-> now]]
      BY <2>5 DEF Discover
    <3>2. found'[v].at = now /\ UNCHANGED <<now, asOf, decision>> /\ decision[v] = NoRecord
          /\ (v \in observed => asOf[v] # NoRecord)
      BY <2>5, <3>1 DEF TypeOK, Discover
    <3> QED
      BY <1>1, <2>1, <3>2 DEF OrderInv, Overruled
  <2>6. CASE ReadExecutor(v) \/ Delegate(v)
    BY <1>1, <2>1, <2>6, OrderFrame DEF ReadExecutor, Delegate, PostRequest, CheckoutMain, BindAndSubmit
  <2>7. CASE AcquireFails(v)
    <3>1. decision'[v].failed /\ asOf[v] # NoRecord /\ UNCHANGED <<now, asOf, found>>
      BY <2>7 DEF TypeOK, AcquireFails
    <3> QED
      BY <2>1, <3>1 DEF OrderInv, Overruled
  <2>8. CASE Decide(v)
    <3>1. /\ decision'[v].state = StateOf(v) /\ asOf'[v] = Judged(v) /\ found[v] # NoRecord
          /\ UNCHANGED <<now, found>>
      BY <2>8 DEF TypeOK, Decide
    <3>2. SUFFICES ASSUME v \in observed PROVE OrderInv(v)'
      BY <2>1 DEF OrderInv
    <3>3. asOf'[v] = asOf[v] /\ asOf[v] \in Nat /\ asOf[v] <= found[v].at /\ asOf[v] # NoRecord
      BY <1>1, <3>1, <3>2 DEF OrderInv, Judged
    <3>4. Overruled(v)' => found[v].at > asOf[v]
      <4>1. SUFFICES ASSUME StateOf(v) = "BLOCKED_CAPABILITY_UNAVAILABLE", found[v].tools.direct
                     PROVE  found[v].at > asOf[v]
        BY <3>1 DEF Overruled
      <4>2. ~Fresh(v, found[v].at)
        BY <4>1, FreshIsCapable
      <4>3. MaxAge \in Nat
        BY BoundAssumption
      <4> QED
        BY <1>1, <3>1, <3>2, <3>3, <4>2, <4>3 DEF Fresh, Judged
    <3> QED
      BY <3>1, <3>2, <3>3, <3>4 DEF OrderInv
  <2>9. Tick \/ Outside \/ \E w \in Workers : Work(w)
    BY <1>3, Steps DEF Next
  <2> QED
    BY <2>2, <2>3, <2>4, <2>5, <2>6, <2>7, <2>8, <2>9 DEF Work, Gather, Classify
<1> QED
  BY <1>2, <1>3

\* A worker that is blocked although its observer has found the direct
\* operation was judged against a second before the one of the discovery:
\* nothing else in the classification overrules a discovery.
THEOREM OnlyTheClockOverrules == Spec => []OverruledOnlyByTheClock
<1> DEFINE Order == \A w \in Workers : OrderInv(w)
<1>1. Init => Order
  BY DEF Init, OrderInv, Overruled
<1>2. TypeOK /\ TypeOK' /\ Order /\ [Next]_vars => Order'
  BY OrderStep
<1>3. TypeOK /\ Order => OverruledOnlyByTheClock
  BY DEF TypeOK, OrderInv, OverruledOnlyByTheClock
<1> QED
  BY <1>1, <1>2, <1>3, TypeCorrect, PTL DEF Spec
=============================================================================
