------------------------- MODULE MergeQueueExecutor -------------------------
(***************************************************************************)
(* The governed Merge Queue executor.                                      *)
(*                                                                         *)
(* A comment on META issue 196 starts one workflow run.  The run checks    *)
(* out protected main, qualifies the target twice through separate REST    *)
(* reads, binds the principal of the credential, re-reads protected main   *)
(* and sends exactly one PUT merge-async.  An accepted answer (HTTP 202)   *)
(* is made durable before any fallible read-back.                          *)
(*                                                                         *)
(* Every fact the executor reads belongs to GitHub and may change between  *)
(* two reads; a PUT may be applied although its answer never arrives; the  *)
(* runner may die (or reach its five-minute timeout) at any step.          *)
(***************************************************************************)
EXTENDS Naturals, Sequences, FiniteSets

CONSTANTS
  Comments,      \* created issue comments, each the trigger of one run
  Pulls,         \* pull requests of the permanent target repositories
  Heads,         \* commit identities a pull-request branch can have
  Mains,         \* commit identities protected META main can have
  Actors,        \* GitHub logins
  Workflows,     \* canonical source workflows
  NoActor,       \* the mutation credential is not provisioned
  Request,       \* the immutable event payload of every comment
  AtlasPulls,    \* pulls of Oteryn-Atlas, which has no exact-head gate check
  Sources,       \* per pull, its canonical source workflows in reading order
  InitialChecks, \* states the checks of a head may be in at the start
  MaxAttempts,   \* bound on run attempts (reruns) of one workflow run
  MaxChanges     \* bound on the changes GitHub's users make to the facts

BasicFacts == {"comment", "pull", "gate", "member", "permission", "main"}

ASSUME RequestAssumption ==
  Request \in [Comments -> [pull: Pulls, head: Heads, main: Mains, actor: Actors,
                            ingress: {"foreign", "malformed", "allowed"}]]
ASSUME SourcesAssumption ==
  /\ AtlasPulls \subseteq Pulls
  /\ DOMAIN Sources = Pulls
  /\ \A p \in Pulls : Sources[p] \in Seq(Workflows) /\ Len(Sources[p]) > 0
ASSUME NamesAssumption ==
  /\ Workflows \cap BasicFacts = {}
  /\ NoActor \notin Actors \cup [main: Mains, author: Actors]
Checks == [gate: BOOLEAN, green: SUBSET Workflows, passed: SUBSET Workflows]
ASSUME ChecksAssumption == InitialChecks \subseteq Checks
ASSUME BoundsAssumption ==
  MaxAttempts \in Nat \ {0} /\ MaxChanges \in Nat

VARIABLES
  \* facts kept by GitHub
  pull,          \* state, base and head of every pull request
  checks,        \* conclusions of the gate and the source workflows per head
  intact,        \* does the live comment still bind the event's coordinates?
  members,       \* logins with active membership in the organization
  maintainers,   \* per pull, logins with admin or maintain permission there
  metaMain,      \* head of protected META main
  pat,           \* human principal of the mutation credential
  changes,       \* number of changes made to the facts so far
  \* the merge-async service
  wire,          \* comments whose PUT has been sent and is not yet processed
  reply,         \* the service's answer to each comment's PUT
  ledger,        \* accepted merge requests; the position is the server UUID
  queued,        \* UUIDs whose request is still in the Merge Queue
  \* workflow runs, one per comment
  pc, attempt, pass, nth, outcome, sent, handle,
  held           \* history: facts that were true at a step of the second pass

factVars   == <<pull, checks, intact, members, maintainers, metaMain, changes>>
serverVars == <<wire, reply, ledger, queued>>
vars == <<pull, checks, intact, members, maintainers, metaMain, pat, changes,
          wire, reply, ledger, queued,
          pc, attempt, pass, nth, outcome, sent, handle, held>>
-----------------------------------------------------------------------------
(* Types *)

Qualifying == {"comment", "pull", "gate", "source"}
Binding    == {"principal", "member", "permission", "main"}
Landing    == {"log", "summary", "metadata", "readback", "identity"}
Active     == {"checkout", "launch", "put", "await"}
                \cup Qualifying \cup Binding \cup Landing
Outcomes   == {"none", "cancelled", "ignored", "blocked", "rejected", "refused",
               "unanswered", "unproved", "accepted", "reconcile", "died"}
Statuses   == {"none", "accepted", "conflict", "refused", "error"}

PullState == [state: {"open", "closed", "merged"}, onMain: BOOLEAN, head: Heads]
Reply     == [status: Statuses, uuid: Nat, bound: BOOLEAN]
Entry     == [comment: Comments, pull: Pulls, head: Heads]
Handle    == [log: Nat, summary: Nat, blocker: Nat]

NoUuid   == 0
NoReply  == [status |-> "none", uuid |-> NoUuid, bound |-> FALSE]
NoHandle == [log |-> NoUuid, summary |-> NoUuid, blocker |-> NoUuid]
Facts    == BasicFacts \cup Workflows

TypeOK ==
  /\ pull \in [Pulls -> PullState]
  /\ checks \in [Pulls -> [Heads -> Checks]]
  /\ intact \in [Comments -> BOOLEAN]
  /\ members \subseteq Actors
  /\ maintainers \in [Pulls -> SUBSET Actors]
  /\ metaMain \in Mains
  /\ pat \in Actors \cup {NoActor}
  /\ changes \in Nat
  /\ wire \subseteq Comments
  /\ reply \in [Comments -> Reply]
  /\ ledger \in Seq(Entry)
  /\ queued \subseteq 1..Len(ledger)
  /\ pc \in [Comments -> Active \cup {"absent", "pending", "ended"}]
  /\ attempt \in [Comments -> Nat]
  /\ pass \in [Comments -> {1, 2}]
  /\ nth \in [Comments -> Nat]
  /\ outcome \in [Comments -> Outcomes]
  /\ sent \in [Comments -> Nat]
  /\ handle \in [Comments -> Handle]
  /\ held \in [Comments -> SUBSET Facts]
-----------------------------------------------------------------------------
(* What one REST read of a fact establishes for the request of comment c.  *)
(* A target read requires open, non-draft, base main, same repository and  *)
(* the exact head.  A source workflow must be green in its latest run; for *)
(* Atlas the latest run is chosen among the successful ones, so one run    *)
(* that ever passed for this head is enough.                               *)

Target(c) == [state |-> "open", onMain |-> TRUE, head |-> Request[c].head]
SourceOf(c, i) == Sources[Request[c].pull][i]
IsAtlas(c) == Request[c].pull \in AtlasPulls

\* Of a source run on the gated route the code asks besides that it belongs to the
\* check suite of the gate it has read.  Here any suite will do: the model accepts
\* runs that the code refuses, and what is shown holds with them.
Holds(c, fact) ==
  LET p   == Request[c].pull
      run == checks[p][Request[c].head]
  IN CASE fact = "comment"    -> intact[c]
       [] fact = "pull"       -> pull[p] = Target(c)
       [] fact = "gate"       -> run.gate
       [] fact = "member"     -> Request[c].actor \in members
       [] fact = "permission" -> Request[c].actor \in maintainers[p]
       [] fact = "main"       -> metaMain = Request[c].main
       [] OTHER -> fact \in (IF IsAtlas(c) THEN run.passed ELSE run.green)

SameTarget(c) ==
  /\ pull[Request[c].pull].onMain
  /\ pull[Request[c].pull].head = Request[c].head

\* The facts a PUT for comment c rests on.
FactsFor(c) ==
  (IF IsAtlas(c) THEN BasicFacts \ {"gate"} ELSE BasicFacts)
    \cup {SourceOf(c, i) : i \in 1..Len(Sources[Request[c].pull])}

\* Facts true now; protected main counts only at its own final read.
HeldNow(c) ==
  {f \in FactsFor(c) : (f = "main" => pc[c] = "main") /\ Holds(c, f)}
-----------------------------------------------------------------------------
Init ==
  /\ pull \in [Pulls -> [state: {"open"}, onMain: {TRUE}, head: Heads]]
  /\ checks \in [Pulls -> [Heads -> InitialChecks]]
  /\ intact = [c \in Comments |-> TRUE]
  /\ members = Actors
  /\ maintainers = [p \in Pulls |-> Actors]
  /\ metaMain \in Mains
  /\ pat \in Actors \cup {NoActor}
  /\ changes = 0
  /\ wire = {}
  /\ reply = [c \in Comments |-> NoReply]
  /\ ledger = <<>>
  /\ queued = {}
  /\ pc = [c \in Comments |-> "absent"]
  /\ attempt = [c \in Comments |-> 0]
  /\ pass = [c \in Comments |-> 1]
  /\ nth = [c \in Comments |-> 1]
  /\ outcome = [c \in Comments |-> "none"]
  /\ sent = [c \in Comments |-> 0]
  /\ handle = [c \in Comments |-> NoHandle]
  /\ held = [c \in Comments |-> {}]
-----------------------------------------------------------------------------
(* Steps of GitHub's users and of the Merge Queue.                         *)

Change == changes < MaxChanges /\ changes' = changes + 1

ChangePull(p) ==
  /\ Change
  /\ pull[p].state # "merged"
  /\ \E s \in {"open", "closed"}, m \in BOOLEAN, h \in Heads :
       pull' = [pull EXCEPT ![p] = [state |-> s, onMain |-> m, head |-> h]]
  /\ UNCHANGED <<checks, intact, members, maintainers, metaMain, pat, serverVars,
                 pc, attempt, pass, nth, outcome, sent, handle, held>>

\* A new or re-run check run, or source workflow run, of head h.
ChangeChecks(p, h) ==
  /\ Change
  /\ \E g \in BOOLEAN, w \in SUBSET Workflows :
       checks' = [checks EXCEPT ![p][h] =
                    [gate |-> g, green |-> w, passed |-> @.passed \cup w]]
  /\ UNCHANGED <<pull, intact, members, maintainers, metaMain, pat, serverVars,
                 pc, attempt, pass, nth, outcome, sent, handle, held>>

\* The comment is edited or deleted, or an edit is taken back.
EditComment(c) ==
  /\ Change
  /\ intact' = [intact EXCEPT ![c] = ~@]
  /\ UNCHANGED <<pull, checks, members, maintainers, metaMain, pat, serverVars,
                 pc, attempt, pass, nth, outcome, sent, handle, held>>

ChangeMembership(a) ==
  /\ Change
  /\ members' = IF a \in members THEN members \ {a} ELSE members \cup {a}
  /\ UNCHANGED <<pull, checks, intact, maintainers, metaMain, pat, serverVars,
                 pc, attempt, pass, nth, outcome, sent, handle, held>>

ChangePermission(p, a) ==
  /\ Change
  /\ maintainers' = [maintainers EXCEPT ![p] = IF a \in @ THEN @ \ {a} ELSE @ \cup {a}]
  /\ UNCHANGED <<pull, checks, intact, members, metaMain, pat, serverVars,
                 pc, attempt, pass, nth, outcome, sent, handle, held>>

AdvanceMain(m) ==
  /\ Change
  /\ m # metaMain
  /\ metaMain' = m
  /\ UNCHANGED <<pull, checks, intact, members, maintainers, pat, serverVars,
                 pc, attempt, pass, nth, outcome, sent, handle, held>>

\* The queue merges an entry or drops it.
LeaveQueue(u) ==
  /\ u \in queued
  /\ queued' = queued \ {u}
  /\ \E s \in {"merged", pull[ledger[u].pull].state} :
       pull' = [pull EXCEPT ![ledger[u].pull].state = s]
  /\ UNCHANGED <<checks, intact, members, maintainers, metaMain, pat, changes,
                 wire, reply, ledger, pc, attempt, pass, nth, outcome, sent, handle, held>>

Environment ==
  \/ \E p \in Pulls : ChangePull(p)
  \/ \E p \in Pulls, h \in Heads : ChangeChecks(p, h)
  \/ \E c \in Comments : EditComment(c)
  \/ \E a \in Actors : ChangeMembership(a)
  \/ \E p \in Pulls, a \in Actors : ChangePermission(p, a)
  \/ \E m \in Mains : AdvanceMain(m)
  \/ \E u \in queued : LeaveQueue(u)
-----------------------------------------------------------------------------
(* The merge-async service: what the executor relies on.  The service      *)
(* fences the exact head it is given; it knows nothing of META main.       *)

Answer(c, status, uuid, bound) ==
  /\ wire' = wire \ {c}
  /\ reply' = [reply EXCEPT ![c] = [status |-> status, uuid |-> uuid, bound |-> bound]]

QueuedFor(p) == {u \in queued : ledger[u].pull = p}

\* The request is accepted.  The answer carries the UUID and metadata that
\* bind it, or metadata that does not, or is unusable (malformed, 5xx).
ServerAccept(c) ==
  LET p == Request[c].pull
      u == Len(ledger) + 1
  IN  /\ c \in wire
      /\ pull[p] = Target(c)
      /\ QueuedFor(p) = {}
      /\ ledger' = Append(ledger, [comment |-> c, pull |-> p, head |-> Request[c].head])
      /\ queued' = queued \cup {u}
      /\ \/ \E bound \in BOOLEAN : Answer(c, "accepted", u, bound)
         \/ Answer(c, "accepted", NoUuid, FALSE)
         \/ Answer(c, "error", NoUuid, FALSE)
      /\ UNCHANGED <<factVars, pat, pc, attempt, pass, nth, outcome, sent, handle, held>>

\* HTTP 200 or 409: a request for this pull exists, or the head moved.
ServerConflict(c) ==
  LET p == Request[c].pull
  IN  /\ c \in wire
      /\ \E u \in QueuedFor(p) \cup {NoUuid} :
           /\ u = NoUuid => QueuedFor(p) # {} \/ pull[p] # Target(c)
           /\ Answer(c, "conflict", u, FALSE)
      /\ UNCHANGED <<factVars, pat, ledger, queued,
                     pc, attempt, pass, nth, outcome, sent, handle, held>>

\* HTTP 400/403/404/422, or a server error before anything was recorded.
ServerRefuse(c) ==
  /\ c \in wire
  /\ \E status \in {"refused", "error"} : Answer(c, status, NoUuid, FALSE)
  /\ UNCHANGED <<factVars, pat, ledger, queued,
                 pc, attempt, pass, nth, outcome, sent, handle, held>>

Server == \E c \in Comments : ServerAccept(c) \/ ServerConflict(c) \/ ServerRefuse(c)
-----------------------------------------------------------------------------
(* The workflow: trigger, concurrency group, reruns.                       *)

SlotBusy == \E d \in Comments : pc[d] \in Active

\* A run enters the concurrency group; GitHub keeps one pending run, so an
\* older pending run is cancelled.
EnterGroup(c) ==
  /\ SlotBusy \/ \A d \in Comments : pc[d] # "pending"
  /\ pc' = [d \in Comments |-> IF d = c THEN "pending"
                               ELSE IF pc[d] = "pending" THEN "ended" ELSE pc[d]]
  /\ outcome' = [d \in Comments |->
                   IF d # c /\ pc[d] = "pending" /\ outcome[d] = "none"
                   THEN "cancelled" ELSE outcome[d]]
  /\ attempt' = [attempt EXCEPT ![c] = @ + 1]
  /\ UNCHANGED <<factVars, pat, serverVars, pass, nth, sent, handle, held>>

PostComment(c) == pc[c] = "absent" /\ EnterGroup(c)

Rerun(c) == pc[c] = "ended" /\ attempt[c] < MaxAttempts /\ EnterGroup(c)

Local == <<factVars, pat, serverVars, attempt, sent, handle>>

Goto(c, there) ==
  /\ pc' = [pc EXCEPT ![c] = there]
  /\ held' = [held EXCEPT ![c] = IF pass[c] = 2 THEN @ \cup HeldNow(c) ELSE {}]
  /\ UNCHANGED outcome

Finish(c, o) ==
  /\ pc' = [pc EXCEPT ![c] = "ended"]
  /\ held' = [held EXCEPT ![c] = {}]
  /\ outcome' = [outcome EXCEPT ![c] = IF @ = "none" THEN o ELSE @]

AdmitsAnyAttempt(c) == Request[c].ingress = "allowed"   \* mutant: reruns submit too
AdmitsAttempt(c) == attempt[c] = 1 /\ Request[c].ingress = "allowed"

\* The job starts; its `if` and the parse step let only the first attempt of
\* an allowed control comment through.
StartRun(c) ==
  /\ pc[c] = "pending"
  /\ ~SlotBusy
  /\ IF AdmitsAttempt(c) THEN Goto(c, "checkout") ELSE Finish(c, "ignored")
  /\ pass' = [pass EXCEPT ![c] = 1]
  /\ nth' = [nth EXCEPT ![c] = 1]
  /\ UNCHANGED Local

\* Checkout of META main and its comparison with the requested commit.
CheckoutMain(c) ==
  /\ pc[c] = "checkout"
  /\ \/ Holds(c, "main") /\ Goto(c, "launch")
     \/ Finish(c, "rejected")
  /\ UNCHANGED <<Local, pass, nth>>

\* main() stops with exit status 2 when no credential is provisioned.
LaunchExecutor(c) ==
  /\ pc[c] = "launch"
  /\ IF pat = NoActor THEN Finish(c, "blocked") ELSE Goto(c, "comment")
  /\ UNCHANGED <<Local, pass, nth>>
-----------------------------------------------------------------------------
(* Qualification and binding: one REST read per step.  A read that fails,  *)
(* or a fact that does not hold, ends the run before the PUT.              *)

Check(c, here, fact, there) ==
  /\ pc[c] = here
  /\ \/ Holds(c, fact) /\ Goto(c, there)
     \/ Finish(c, "rejected")
  /\ UNCHANGED Local

ReadComment(c) == Check(c, "comment", "comment", "pull") /\ UNCHANGED <<pass, nth>>

ReadPull(c) ==
  /\ Check(c, "pull", "pull", IF IsAtlas(c) THEN "source" ELSE "gate")
  /\ nth' = [nth EXCEPT ![c] = 1]
  /\ UNCHANGED pass

ReadGate(c) == Check(c, "gate", "gate", "source") /\ UNCHANGED <<pass, nth>>

LastSource(c) == nth[c] = Len(Sources[Request[c].pull])

\* mutant: submit_merge_queue() trusts the first qualification
AfterOnePass(c) == IF LastSource(c) THEN "principal" ELSE "source"
AfterSource(c) ==
  IF ~LastSource(c) THEN "source"
  ELSE IF pass[c] = 1 THEN "comment" ELSE "principal"

\* The workflow runs of one source; after the last one, qualify_target()
\* returns: submit_merge_queue() calls it again, then goes on.
ReadSource(c) ==
  /\ Check(c, "source", SourceOf(c, nth[c]), AfterSource(c))
  /\ nth' = [nth EXCEPT ![c] = IF LastSource(c) THEN 1 ELSE @ + 1]
  /\ pass' = [pass EXCEPT ![c] = IF LastSource(c) THEN 2 ELSE @]

BindPrincipal(c) ==
  /\ pc[c] = "principal"
  /\ \/ pat = Request[c].actor /\ Goto(c, "member")
     \/ Finish(c, "rejected")
  /\ UNCHANGED <<Local, pass, nth>>

ReadMembership(c) == Check(c, "member", "member", "permission") /\ UNCHANGED <<pass, nth>>

ReadPermission(c) == Check(c, "permission", "permission", "main") /\ UNCHANGED <<pass, nth>>

SkipMain(c) ==   \* mutant: protected main is compared at checkout only
  pc[c] = "main" /\ Goto(c, "put") /\ UNCHANGED <<Local, pass, nth>>
ReadMainLast(c) == Check(c, "main", "main", "put") /\ UNCHANGED <<pass, nth>>
-----------------------------------------------------------------------------
(* The one mutation, and what its answer leads to.                         *)

SendPut(c) ==
  /\ pc[c] = "put"
  /\ Goto(c, "await")
  /\ sent' = [sent EXCEPT ![c] = @ + 1]
  /\ wire' = wire \cup {c}
  /\ reply' = [reply EXCEPT ![c] = NoReply]
  /\ UNCHANGED <<factVars, pat, ledger, queued, attempt, handle, pass, nth>>

WaitForAnswer(c) == FALSE   \* mutant: no transport timeout on the PUT
RepeatPut(c) ==   \* mutant: an unanswered PUT is sent again
  pc[c] = "await" /\ Goto(c, "put") /\ UNCHANGED <<Local, pass, nth>>

\* The answer never arrives, or is not readable: the PUT may have happened.
LosePutAnswer(c) ==
  /\ pc[c] = "await"
  /\ Finish(c, "unanswered")
  /\ UNCHANGED <<Local, pass, nth>>

MetadataFirst(c) == "metadata"   \* mutant: validate the answer before persisting
AfterAccepted(c) == "log"

ReceiveAccepted(c) ==
  /\ pc[c] = "await"
  /\ reply[c].status = "accepted"
  /\ IF reply[c].uuid = NoUuid THEN Finish(c, "unanswered") ELSE Goto(c, AfterAccepted(c))
  /\ UNCHANGED <<Local, pass, nth>>

ConflictAsReceipt(c) == IF reply[c].uuid = NoUuid THEN "identity" ELSE "log"   \* mutant
AfterConflict(c) == IF reply[c].uuid = NoUuid THEN "identity" ELSE "readback"

\* HTTP 200/409 only reconciles: it never becomes an acceptance receipt.
ReceiveConflict(c) ==
  /\ pc[c] = "await"
  /\ reply[c].status = "conflict"
  /\ Goto(c, AfterConflict(c))
  /\ UNCHANGED <<Local, pass, nth>>

AnyErrorRefuses(c) == "refused"   \* mutant: a server error counts as a refusal
RefusalOutcome(c) == IF reply[c].status = "refused" THEN "refused" ELSE "unanswered"

ReceiveRefusal(c) ==
  /\ pc[c] = "await"
  /\ reply[c].status \in {"refused", "error"}
  /\ Finish(c, RefusalOutcome(c))
  /\ UNCHANGED <<Local, pass, nth>>

\* A failed write of the receipt, or unusable metadata, stops the run with a
\* blocker that names the accepted UUID.
Block(c) ==
  /\ Finish(c, "unproved")
  /\ handle' = [handle EXCEPT ![c].blocker = reply[c].uuid]

PersistLog(c) ==
  /\ pc[c] = "log"
  /\ \/ /\ Goto(c, "summary")
        /\ handle' = [handle EXCEPT ![c].log = reply[c].uuid]
     \/ Block(c)
  /\ UNCHANGED <<factVars, pat, serverVars, attempt, sent, pass, nth>>

PersistSummary(c) ==
  /\ pc[c] = "summary"
  /\ \/ /\ Goto(c, "metadata")
        /\ handle' = [handle EXCEPT ![c].summary = reply[c].uuid]
     \/ Block(c)
  /\ UNCHANGED <<factVars, pat, serverVars, attempt, sent, pass, nth>>

\* Metadata that binds another head or action blocks with the UUID; metadata
\* that cannot even be read just stops the run.
CheckMetadata(c) ==
  /\ pc[c] = "metadata"
  /\ \/ reply[c].bound /\ Goto(c, "readback") /\ UNCHANGED handle
     \/ ~reply[c].bound /\ Block(c)
     \/ ~reply[c].bound /\ Finish(c, "unproved") /\ UNCHANGED handle
  /\ UNCHANGED <<factVars, pat, serverVars, attempt, sent, pass, nth>>

AnyRecordedHead(c) == TRUE   \* mutant: the read-back compares only the UUID
RecordBindsHead(c) == ledger[reply[c].uuid].head = Request[c].head

\* GET merge-async/{uuid}: the request on record must bind this exact head.
ReadBack(c) ==
  /\ pc[c] = "readback"
  /\ \/ RecordBindsHead(c) /\ Goto(c, "identity")
     \/ Finish(c, "unproved")
  /\ UNCHANGED <<Local, pass, nth>>

AlwaysAccepted(c) == "accepted"   \* mutant: reconciliation reported as acceptance
Verdict(c) == IF reply[c].status = "accepted" THEN "accepted" ELSE "reconcile"

\* Fresh target identity; the pull need no longer be open.
ReadIdentity(c) ==
  /\ pc[c] = "identity"
  /\ \/ SameTarget(c) /\ Finish(c, Verdict(c))
     \/ Finish(c, "unproved")
  /\ UNCHANGED <<Local, pass, nth>>

\* The runner is lost, the job reaches its timeout, or an exception that
\* main() does not catch ends the process.
Die(c) ==
  /\ pc[c] \in Active
  /\ Finish(c, "died")
  /\ UNCHANGED <<Local, pass, nth>>
-----------------------------------------------------------------------------
Qualify(c) == ReadComment(c) \/ ReadPull(c) \/ ReadGate(c) \/ ReadSource(c)
Bind(c) == BindPrincipal(c) \/ ReadMembership(c) \/ ReadPermission(c) \/ ReadMainLast(c)
Receive(c) == ReceiveAccepted(c) \/ ReceiveConflict(c) \/ ReceiveRefusal(c) \/ LosePutAnswer(c)
Land(c) == PersistLog(c) \/ PersistSummary(c) \/ CheckMetadata(c) \/ ReadBack(c) \/ ReadIdentity(c)

Execute(c) ==
  StartRun(c) \/ CheckoutMain(c) \/ LaunchExecutor(c) \/ Qualify(c) \/ Bind(c)
    \/ SendPut(c) \/ Receive(c) \/ Land(c)

Next ==
  \/ Environment
  \/ Server
  \/ \E c \in Comments : PostComment(c) \/ Rerun(c) \/ Execute(c) \/ Die(c)

Spec == Init /\ [][Next]_vars

\* The hosted runner executes the job's next step, or the job's timeout ends
\* it: a started job never stands still.  A job waits for nothing but the
\* concurrency group, which GitHub hands to the pending run.
Fairness == \A c \in Comments : WF_vars(Execute(c))
FairSpec == Spec /\ Fairness
-----------------------------------------------------------------------------
(* Properties *)

Uuids == 1..Len(ledger)

\* A comment causes at most one PUT, over every rerun, crash and lost answer:
\* the run_attempt guard of the workflow and the single call in
\* submit_merge_queue().
AtMostOnePut == \A c \in Comments : sent[c] <= 1

\* When the PUT is out, every fact it rests on was true at some step of the
\* second qualification pass, and protected main at the final read: no fact of
\* the first pass, which only prepares the run, is trusted.
PutOnFreshFacts == \A c \in Comments : pc[c] = "await" => FactsFor(c) \subseteq held[c]

\* Every UUID a run has written (log, summary or blocker) is a request that
\* this very comment put on record: the answers 200 and 409, which name the
\* request of somebody else, never become a receipt.
ReceiptIsOwn ==
  \A c \in Comments :
    \A u \in {handle[c].log, handle[c].summary, handle[c].blocker} \ {NoUuid} :
      u \in Uuids /\ ledger[u].comment = c

\* Whatever fails after a 202 with a UUID was received, the log or the blocker
\* names that UUID; only the loss of the runner itself can lose it.
HandleNotLost ==
  \A c \in Comments :
    outcome[c] \in {"accepted", "unproved"} /\ reply[c].status = "accepted"
      => reply[c].uuid \in {handle[c].log, handle[c].blocker}

\* The run reports acceptance only for a request on record for its own
\* comment, pull and head, and only with a receipt in log and summary.
AcceptedIsOnRecord ==
  \A c \in Comments : outcome[c] = "accepted" =>
    \E u \in Uuids :
      /\ ledger[u] = [comment |-> c, pull |-> Request[c].pull, head |-> Request[c].head]
      /\ handle[c].log = u /\ handle[c].summary = u

\* A run that ended without sending, or with a negative or a conflict answer,
\* has no request on record, and never gets one later: a coordinator may act
\* on that answer.
NegativeIsFinal ==
  \A c \in Comments :
    outcome[c] \in {"cancelled", "ignored", "blocked", "rejected", "refused", "reconcile"}
      => \A u \in Uuids : ledger[u].comment # c

\* A reconciliation that names a UUID names a request for this pull and head.
ReconcileBindsHead ==
  \A c \in Comments :
    outcome[c] = "reconcile" /\ reply[c].uuid # NoUuid =>
      /\ ledger[reply[c].uuid].pull = Request[c].pull
      /\ ledger[reply[c].uuid].head = Request[c].head

\* The first outcome of a comment is its last: later attempts of its run
\* neither send, nor write a receipt, nor change what was reported.
FirstOutcomeIsLast ==
  [][\A c \in Comments : outcome[c] # "none" =>
       /\ outcome'[c] = outcome[c]
       /\ sent'[c] = sent[c]
       /\ handle'[c] = handle[c]]_vars

\* The executor implements the ledger promise.
ReportOf(c) ==
  LET o == outcome[c]
  IN CASE o \in {"none", "accepted", "refused"} -> o
       [] o = "reconcile" -> "conflict"
       [] o \notin {"none", "accepted", "refused", "reconcile"} ->
            IF sent[c] = 0 THEN "notSent" ELSE "unknown"

Promise == INSTANCE SubmissionLedger WITH
  submitted <- {c \in Comments : sent[c] > 0},
  effective <- {ledger[u].comment : u \in Uuids},
  report    <- [c \in Comments |-> ReportOf(c)]

\* Refinement: submissions, effects and reports of the executor, its crashes
\* and reruns and the service's late answers are steps of SubmissionLedger.
KeepsPromise == Promise!LedgerSpec

\* The executor is the run that the author of a delegated request relies on.
StageOf(c) ==
  IF sent[c] > 0 THEN "submitted"
  ELSE IF outcome[c] # "none" THEN "refused"
  ELSE IF pc[c] \in {"absent", "pending", "checkout"} THEN "waiting"
  ELSE IF pc[c] = "put" THEN "cleared" ELSE "running"

Promised == INSTANCE DelegatedRun WITH
  Requests  <- Comments,
  Logins    <- Actors,
  NoRequest <- NoActor,
  main      <- metaMain,
  principal <- pat,
  asked     <- [c \in Comments |-> [main |-> Request[c].main, author |-> Request[c].actor]],
  stage     <- [c \in Comments |-> StageOf(c)]

\* Refinement: the checkout, the two qualifications, the bindings, the final
\* read of protected main, reruns and crashes are steps of DelegatedRun: nothing
\* is submitted on a main, or with a principal, that the request does not name.
KeepsToRequest == Promised!RunSpec

\* Every run that enters the concurrency group ends: nothing in the run waits
\* for an answer that may not come, and the group never wedges.
RunEnds == \A c \in Comments : pc[c] = "pending" ~> pc[c] = "ended"
=============================================================================
