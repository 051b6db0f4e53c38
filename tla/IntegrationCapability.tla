------------------------ MODULE IntegrationCapability ------------------------
(***************************************************************************)
(* Capability routing before a worker is released, and what becomes of a   *)
(* delegated request.                                                      *)
(*                                                                         *)
(* A worker gathers evidence in two readings, the tools of its session and *)
(* the protected executor, and has it classified.  A DELEGATED decision    *)
(* keeps the protected main its canary ran on, never expires, and is later *)
(* turned into a control comment that names that main; the executor's own  *)
(* run compares it with the main it checks out.                            *)
(*                                                                         *)
(* Evidence is either typed, gathered first and presented at any time, or  *)
(* acquired by an observer inside the call that classifies it, which reads *)
(* the clock before it acquires anything.                                  *)
(***************************************************************************)
EXTENDS Naturals

CONSTANTS
  Workers,     \* bounded tasks that await release
  Logins,      \* GitHub logins
  Mains,       \* commits protected META main can have
  Pinned,      \* mains whose executor workflow is the blob the policy pins
  MaxAge,      \* observation_max_age_seconds
  MaxTime,     \* bound on the clock
  MaxChanges,  \* bound on the changes made to the facts
  NoRecord

\* An executor run: how far it came, and the main it checked out.
Runs == [stage: {"running", "refused", "submitted"}, main: Mains]

ASSUME MainAssumption == Pinned \subseteq Mains /\ NoRecord \notin Mains \cup Runs
ASSUME BoundAssumption == MaxAge \in Nat /\ MaxTime \in Nat /\ MaxChanges \in Nat

VARIABLES
  now,         \* epoch seconds
  tools,       \* the session's operations and the login behind its comments
  main,        \* head of protected META main
  credential,  \* mutation credential of the executor: operational?, principal
  canary,      \* the retained canary: the main it ran on, terminal yet?
  changes,
  \* per worker
  observed,    \* workers whose host installs a trusted observer: never changes
  asOf,        \* the second its evidence is judged against
  found,       \* tool discovery
  executor,    \* protected-executor readback
  decision,    \* the sealed decision
  request,     \* the control comment posted from it
  run,         \* the executor run that the comment started
  \* history
  proved,      \* mains a canary has reached its terminal state on
  directAt,    \* seconds in which the direct operation was available
  commentAt,   \* logins with the seconds in which they could comment
  readyAt      \* principals with the seconds in which the executor was ready

factVars   == <<tools, main, credential, canary, changes>>
workerVars == <<asOf, found, executor, decision, request, run>>
vars == <<now, tools, main, credential, canary, changes, asOf, found, executor, decision,
          request, run, proved, directAt, commentAt, readyAt, observed>>
-----------------------------------------------------------------------------
Time   == 0..MaxTime
Tools  == [direct: BOOLEAN, comment: BOOLEAN, actor: Logins]
Credential == [operational: BOOLEAN, principal: Logins]
Canary == [main: Mains, terminal: BOOLEAN]
States == {"NOT_REQUIRED", "DIRECT_CAPABLE", "DELEGATED_CAPABLE", "BLOCKED_CAPABILITY_UNAVAILABLE"}
\* Only a delegated decision keeps the main its canary ran on.
Decision ==
  [state: States \ {"DELEGATED_CAPABLE"}, main: {NoRecord}, failed: BOOLEAN]
    \cup [state: {"DELEGATED_CAPABLE"}, main: Mains, failed: {FALSE}]
Evidence == [main: Mains, operational: BOOLEAN, principal: Logins, canary: Mains,
             terminal: BOOLEAN, at: Time]

TypeOK ==
  /\ now \in Time /\ changes \in Nat
  /\ tools \in Tools /\ main \in Mains /\ credential \in Credential
  /\ canary \in Canary \cup {NoRecord}
  /\ observed \subseteq Workers
  /\ asOf \in [Workers -> Time \cup {NoRecord}]
  /\ found \in [Workers -> [required: BOOLEAN, tools: Tools, at: Time] \cup {NoRecord}]
  /\ executor \in [Workers -> Evidence \cup {NoRecord}]
  /\ decision \in [Workers -> Decision \cup {NoRecord}]
  /\ request \in [Workers -> [main: Mains, author: Logins] \cup {NoRecord}]
  /\ run \in [Workers -> Runs \cup {NoRecord}]
  /\ proved \subseteq Mains /\ directAt \subseteq Time
  /\ commentAt \subseteq Logins \X Time /\ readyAt \subseteq Logins \X Time

\* The protected executor can serve a request: the pinned workflow is on main,
\* its canary ended there, and its credential works.
Ready == /\ main \in Pinned /\ credential.operational
         /\ canary = [main |-> main, terminal |-> TRUE]

Init ==
  /\ now = 0 /\ changes = 0
  /\ tools \in Tools /\ main \in Mains /\ credential \in Credential
  /\ canary = NoRecord
  /\ observed \in SUBSET Workers
  /\ asOf = [w \in Workers |-> NoRecord]
  /\ found = [w \in Workers |-> NoRecord]
  /\ executor = [w \in Workers |-> NoRecord]
  /\ decision = [w \in Workers |-> NoRecord]
  /\ request = [w \in Workers |-> NoRecord]
  /\ run = [w \in Workers |-> NoRecord]
  /\ proved = {}
  /\ directAt = IF tools.direct THEN {0} ELSE {}
  /\ commentAt = IF tools.comment THEN {<<tools.actor, 0>>} ELSE {}
  /\ readyAt = {}

\* The history follows every step.
Remember ==
  /\ proved' = IF canary' # NoRecord /\ canary'.terminal THEN proved \cup {canary'.main} ELSE proved
  /\ directAt' = IF tools'.direct THEN directAt \cup {now'} ELSE directAt
  /\ commentAt' = IF tools'.comment THEN commentAt \cup {<<tools'.actor, now'>>} ELSE commentAt
  /\ readyAt' = IF Ready' THEN readyAt \cup {<<credential'.principal, now'>>} ELSE readyAt
-----------------------------------------------------------------------------
(* Facts outside the worker.                                               *)

Tick == now < MaxTime /\ now' = now + 1 /\ UNCHANGED <<factVars, workerVars>>

Change == changes < MaxChanges /\ changes' = changes + 1 /\ UNCHANGED <<now, workerVars>>

ChangeTools == /\ Change
               /\ tools' \in Tools \ {tools}
               /\ UNCHANGED <<main, credential, canary>>
AdvanceMain == /\ Change
               /\ main' \in Mains \ {main}
               /\ UNCHANGED <<tools, credential, canary>>
RotateCredential == /\ Change
                    /\ credential' \in Credential \ {credential}
                    /\ UNCHANGED <<tools, main, canary>>

\* A canary run on the current main replaces the one retained before.
StartCanary == /\ canary \notin [main: {main}, terminal: BOOLEAN]
               /\ canary' = [main |-> main, terminal |-> FALSE]
               /\ UNCHANGED <<now, tools, main, credential, changes, workerVars>>
FinishCanary == /\ canary # NoRecord /\ ~canary.terminal
                /\ canary' = [canary EXCEPT !.terminal = TRUE]
                /\ UNCHANGED <<now, tools, main, credential, changes, workerVars>>
-----------------------------------------------------------------------------
(* Evidence.                                                               *)

\* observe_and_decide() reads the clock before the observer acquires.
Begin(w) ==
  /\ w \in observed /\ asOf[w] = NoRecord
  /\ asOf' = [asOf EXCEPT ![w] = now]
  /\ UNCHANGED <<now, factVars, found, executor, decision, request, run>>

Discover(w) ==
  /\ found[w] = NoRecord /\ decision[w] = NoRecord
  /\ w \in observed => asOf[w] # NoRecord
  /\ \E required \in BOOLEAN :
       found' = [found EXCEPT ![w] = [required |-> required, tools |-> tools, at |-> now]]
  /\ UNCHANGED <<now, factVars, asOf, executor, decision, request, run>>

\* An observer discovers first; typed evidence is gathered in any order.
ReadExecutor(w) ==
  /\ w \in observed => found[w] # NoRecord
  /\ executor[w] = NoRecord /\ decision[w] = NoRecord
  /\ canary # NoRecord
  /\ executor' = [executor EXCEPT ![w] =
       [main |-> main, operational |-> credential.operational, at |-> now,
        principal |-> credential.principal, canary |-> canary.main, terminal |-> canary.terminal]]
  /\ UNCHANGED <<now, factVars, asOf, found, decision, request, run>>

\* An observer that cannot acquire its evidence leaves the worker blocked.
AcquireFails(w) ==
  /\ w \in observed /\ asOf[w] # NoRecord /\ decision[w] = NoRecord
  /\ decision' = [decision EXCEPT ![w] =
       [state |-> "BLOCKED_CAPABILITY_UNAVAILABLE", main |-> NoRecord, failed |-> TRUE]]
  /\ UNCHANGED <<now, factVars, asOf, found, executor, request, run>>
-----------------------------------------------------------------------------
(* The decision.                                                           *)

\* The second evidence is judged against.
Judged(w) == IF w \in observed THEN asOf[w] ELSE now
Fresh(w, at) == at <= Judged(w) /\ Judged(w) - at <= MaxAge

StaleReadback(w) ==   \* mutant: only the discovery has to be fresh
  LET e == executor[w] IN
    e # NoRecord /\ e.main \in Pinned /\ e.operational /\ e.canary = e.main /\ e.terminal
ExecutorIsOperational(w) ==
  LET e == executor[w] IN
    /\ e # NoRecord
    /\ e.main \in Pinned
    /\ e.operational
    /\ Fresh(w, e.at)
    /\ e.canary = e.main
    /\ e.terminal

CanDelegate(w) ==
  /\ found[w].tools.comment
  /\ ExecutorIsOperational(w)
  /\ found[w].tools.actor = executor[w].principal

StateOf(w) ==
  CASE ~found[w].required -> "NOT_REQUIRED"
    [] found[w].required /\ ~Fresh(w, found[w].at) -> "BLOCKED_CAPABILITY_UNAVAILABLE"
    [] OTHER -> IF found[w].tools.direct THEN "DIRECT_CAPABLE"
                ELSE IF CanDelegate(w) THEN "DELEGATED_CAPABLE"
                ELSE "BLOCKED_CAPABILITY_UNAVAILABLE"

\* The executor evidence is optional: it may be presented without.
Decide(w) ==
  /\ found[w] # NoRecord /\ decision[w] = NoRecord
  /\ asOf' = [asOf EXCEPT ![w] = Judged(w)]
  /\ decision' = [decision EXCEPT ![w] =
       [state |-> StateOf(w), failed |-> FALSE,
        main |-> IF StateOf(w) = "DELEGATED_CAPABLE" THEN executor[w].canary ELSE NoRecord]]
  /\ UNCHANGED <<now, factVars, found, executor, request, run>>
-----------------------------------------------------------------------------
(* The delegated request and the executor run it starts.                   *)

\* build_delegated_request(), at any time after the decision, and the comment
\* posted with the session's tools as they are by then.
PostRequest(w) ==
  /\ decision[w] # NoRecord /\ decision[w].state = "DELEGATED_CAPABLE"
  /\ request[w] = NoRecord /\ tools.comment
  /\ request' = [request EXCEPT ![w] = [main |-> decision[w].main, author |-> tools.actor]]
  /\ UNCHANGED <<now, factVars, asOf, found, executor, decision, run>>

AnyMain(w) == TRUE   \* mutant: the run does not compare protected main
NamesThisMain(w) == request[w].main = main

CheckoutMain(w) ==
  /\ request[w] # NoRecord /\ run[w] = NoRecord
  /\ run' = [run EXCEPT ![w] =
       [stage |-> IF NamesThisMain(w) THEN "running" ELSE "refused", main |-> main]]
  /\ UNCHANGED <<now, factVars, asOf, found, executor, decision, request>>

\* The principal must be the author; main is read again before the PUT.
BindAndSubmit(w) ==
  /\ run[w] # NoRecord /\ run[w].stage = "running"
  /\ run' = [run EXCEPT ![w].stage =
       IF credential.operational /\ credential.principal = request[w].author /\ NamesThisMain(w)
       THEN "submitted" ELSE "refused"]
  /\ UNCHANGED <<now, factVars, asOf, found, executor, decision, request>>

Step ==
  \/ Tick \/ ChangeTools \/ AdvanceMain \/ RotateCredential \/ StartCanary \/ FinishCanary
  \/ \E w \in Workers :
       \/ Begin(w) \/ Discover(w) \/ ReadExecutor(w) \/ AcquireFails(w) \/ Decide(w)
       \/ PostRequest(w) \/ CheckoutMain(w) \/ BindAndSubmit(w)

Next == Step /\ Remember /\ UNCHANGED observed

Spec == Init /\ [][Next]_vars
-----------------------------------------------------------------------------
(* Properties *)

Recent(w, t) == t <= asOf[w] /\ asOf[w] - t <= MaxAge

\* A worker is released only on a route that really was there: the direct
\* operation, or a session that could comment as the very login whose
\* credential a ready executor had, each within MaxAge before the decision,
\* although the two were read at different moments.
ReleaseHadRoute ==
  \A w \in Workers :
    decision[w] # NoRecord =>
      /\ decision[w].state = "DIRECT_CAPABLE" => \E t \in directAt : Recent(w, t)
      /\ decision[w].state = "DELEGATED_CAPABLE" =>
           \E login \in Logins : \E t, u \in Time :
             /\ <<login, t>> \in commentAt /\ <<login, u>> \in readyAt
             /\ Recent(w, t) /\ Recent(w, u)

\* However old the decision behind it, a delegated request is submitted only
\* by the pinned workflow on a main where a canary ended, and by a run
\* on the main the request names.
SubmittedByProvedMain ==
  \A w \in Workers :
    run[w] # NoRecord /\ run[w].stage = "submitted" =>
      run[w].main \in Pinned \cap proved /\ run[w].main = decision[w].main

\* The run that capability routing expects is the one the executor performs.
Promised == INSTANCE DelegatedRun WITH
  Requests  <- Workers,
  NoRequest <- NoRecord,
  principal <- credential.principal,
  asked     <- request,
  stage     <- [w \in Workers |-> IF run[w] = NoRecord THEN "waiting" ELSE run[w].stage]

\* Refinement: of a delegated request and its run this module assumes no more
\* than DelegatedRun, which the executor is shown to implement.
KeepsToRequest == Promised!RunSpec

\* What the policy document says of BLOCKED_CAPABILITY_UNAVAILABLE: neither
\* route is proven.  An observer that found the direct operation has proved it.
BlockedIsUnproven ==
  \A w \in observed :
    decision[w] # NoRecord /\ decision[w].state = "BLOCKED_CAPABILITY_UNAVAILABLE"
      /\ ~decision[w].failed => ~found[w].tools.direct
=============================================================================
