-------------------------- MODULE SubmissionRouting --------------------------
(***************************************************************************)
(* The native exact-head submission contract.                              *)
(*                                                                         *)
(* An execution surface binds an attempt to the live head of a pull,       *)
(* reads whether integration is authorized, builds the merge-async request *)
(* and later judges the evidence it has collected: the receipt of the      *)
(* answer and a read-back of the pull made after it.  The contract is a    *)
(* set of pure checks: which receipt, read-back or authorization is given  *)
(* to them, and when, is the surface's choice, so an attempt may be handed *)
(* anything that any attempt has collected.                                *)
(*                                                                         *)
(* Time is counted in whole seconds: many steps share one second.          *)
(***************************************************************************)
EXTENDS Naturals, Sequences

CONSTANTS
  Attempts,       \* submission attempt identities
  Pulls,          \* pulls of the permanent target repositories
  Heads,          \* commits a pull can have as its head
  Freezes,        \* candidate freezes on record: a set of [pull, head]
  Surfaces,       \* authentications of the surfaces in use
  MaxAuthorizationAge, MaxReceiptAge, MaxPostAge,   \* seconds
  MaxTime,        \* bound on the clock
  MaxSequence,    \* bound on the executor's sequence
  MaxChanges,     \* bound on the changes users make to a pull
  NoRecord

Operational == {"direct_native_merge_async", "fine_grained_pat"}

ASSUME FreezeAssumption == Freezes \subseteq [pull: Pulls, head: Heads]
ASSUME SurfaceAssumption ==
  Surfaces \subseteq Operational \cup {"github_token", "custom_github_app"}
ASSUME BoundAssumption ==
  /\ MaxAuthorizationAge \in Nat /\ MaxReceiptAge \in Nat /\ MaxPostAge \in Nat
  /\ MaxTime \in Nat /\ MaxSequence \in Nat /\ MaxChanges \in Nat

VARIABLES
  now,            \* epoch seconds
  pull,           \* facts of every pull: base, head, authorized?, eligible?
  changes,        \* changes made to the pulls
  \* the merge-async service
  reply,          \* the answer to each attempt's request
  ledger,         \* accepted requests; the position is the async UUID
  queued,         \* UUIDs that have not left the queue
  \* evidence of the execution surface
  attempt,        \* what each attempt is bound to
  authorization,  \* last authorization readback made for an attempt
  request,        \* the request built for an attempt
  receipt,        \* the receipt recorded for an attempt
  readings,       \* live read-backs of pulls
  sequence,       \* executor-owned sequence, advanced by receipts and read-backs
  verdict,        \* what the contract last said of an attempt's evidence
  \* history
  held,           \* facts of pulls, with the second at which they held
  since           \* base and head an attempt's pull has had since its receipt

vars == <<now, pull, changes, reply, ledger, queued, attempt, authorization,
          request, receipt, readings, sequence, verdict, held, since>>
serviceVars == <<reply, ledger, queued>>
-----------------------------------------------------------------------------
Facts  == [base: {"main", "other"}, head: Heads, authorized: BOOLEAN, eligible: BOOLEAN]
Time   == 0..MaxTime
NoUuid == 0
Target == [pull: Pulls, head: Heads]
Answers == [status: {"none", "202", "200/409", "error"}, uuid: Nat]
NoAnswer == [status |-> "none", uuid |-> NoUuid]
Authorization == [pull: Pulls, facts: Facts, at: Time]
Receipt == [attempt: Attempts, pull: Pulls, head: Heads, status: {"202", "200/409", "error"},
            uuid: Nat, at: Time, sequence: Nat \ {0}]
Reading == [pull: Pulls, base: {"main", "other"}, head: Heads, at: Time, sequence: Nat \ {0}]
Results == {"none", "SUBMISSION_ACCEPTED", "RECONCILE_REQUIRED", "BLOCKED_RECEIPT_INVALID",
            "POST_SUBMISSION_TARGET_CONFIRMED", "BLOCKED_POST_SUBMISSION_TARGET_MISMATCH"}
Decisions == {"ASYNC_MERGE_QUEUE", "BLOCKED_STALE_STATE", "BLOCKED_NOT_AUTHORIZED",
              "BLOCKED_NOT_ELIGIBLE", "BLOCKED_FROZEN_HEAD_MISMATCH",
              "BLOCKED_CAPABILITY_UNAVAILABLE"}

TypeOK ==
  /\ now \in Time /\ changes \in Nat /\ sequence \in Nat
  /\ pull \in [Pulls -> Facts]
  /\ reply \in [Attempts -> Answers]
  /\ ledger \in Seq([attempt: Attempts, pull: Pulls, head: Heads])
  /\ queued \subseteq DOMAIN ledger
  /\ attempt \in [Attempts -> Target \cup {NoRecord}]
  /\ authorization \in [Attempts -> Authorization \cup {NoRecord}]
  /\ request \in [Attempts -> [decision: Decisions, head: Heads, at: Time] \cup {NoRecord}]
  /\ receipt \in [Attempts -> Receipt \cup {NoRecord}]
  /\ readings \subseteq Reading
  /\ verdict \in [Attempts -> [result: Results, uuid: Nat, at: Time]]
  /\ held \subseteq [pull: Pulls, facts: Facts, at: Time]
  /\ since \in [Attempts -> SUBSET ({"main", "other"} \X Heads)]

Init ==
  /\ now = 0 /\ changes = 0 /\ sequence = 0
  /\ pull \in [Pulls -> [base: {"main"}, head: Heads, authorized: BOOLEAN, eligible: {TRUE}]]
  /\ reply = [a \in Attempts |-> NoAnswer]
  /\ ledger = <<>> /\ queued = {}
  /\ attempt = [a \in Attempts |-> NoRecord]
  /\ authorization = [a \in Attempts |-> NoRecord]
  /\ request = [a \in Attempts |-> NoRecord]
  /\ receipt = [a \in Attempts |-> NoRecord]
  /\ readings = {}
  /\ verdict = [a \in Attempts |-> [result |-> "none", uuid |-> NoUuid, at |-> 0]]
  /\ held = {[pull |-> p, facts |-> pull[p], at |-> 0] : p \in Pulls}
  /\ since = [a \in Attempts |-> {}]

\* The history follows every step.
Remember ==
  /\ held' = held \cup {[pull |-> p, facts |-> pull'[p], at |-> now'] : p \in Pulls}
  /\ since' = [a \in Attempts |->
       IF receipt'[a] = NoRecord THEN {}
       ELSE LET p == pull'[receipt'[a].pull] IN since[a] \cup {<<p.base, p.head>>}]
-----------------------------------------------------------------------------
(* GitHub.                                                                 *)

Tick ==
  /\ now < MaxTime
  /\ now' = now + 1
  /\ UNCHANGED <<pull, changes, serviceVars, attempt, authorization, request, receipt,
                 readings, sequence, verdict>>

\* A push, a retarget, or a change of authorization or eligibility.
ChangePull(p) ==
  /\ changes < MaxChanges
  /\ \/ \E h \in Heads \ {pull[p].head} : pull' = [pull EXCEPT ![p].head = h]
     \/ \E b \in {"main", "other"} \ {pull[p].base} : pull' = [pull EXCEPT ![p].base = b]
     \/ pull' = [pull EXCEPT ![p].authorized = ~@]
     \/ pull' = [pull EXCEPT ![p].eligible = ~@]
  /\ changes' = changes + 1
  /\ UNCHANGED <<now, serviceVars, attempt, authorization, request, receipt, readings,
                 sequence, verdict>>

Entry(a) == [attempt |-> a, pull |-> attempt[a].pull, head |-> request[a].head]
InQueue(p) == \E u \in queued : ledger[u].pull = p
Waits(a) ==
  /\ request[a] # NoRecord /\ request[a].decision = "ASYNC_MERGE_QUEUE"
  /\ reply[a] = NoAnswer

AnswerWith(a, status, uuid) ==
  /\ reply' = [reply EXCEPT ![a] = [status |-> status, uuid |-> uuid]]
  /\ UNCHANGED <<now, pull, changes, attempt, authorization, request, receipt, readings,
                 sequence, verdict>>

\* The sha fences the head; nothing fences the base.  The body of a 202 may
\* come without a usable UUID, and what was recorded may be answered by an error.
Accept(a) ==
  /\ Waits(a) /\ ~InQueue(attempt[a].pull)
  /\ pull[attempt[a].pull].head = request[a].head
  /\ ledger' = Append(ledger, Entry(a))
  /\ queued' = queued \cup {Len(ledger')}
  /\ \/ \E uuid \in {NoUuid, Len(ledger')} : AnswerWith(a, "202", uuid)
     \/ AnswerWith(a, "error", NoUuid)

AnswerConflict(a) ==
  /\ Waits(a) /\ InQueue(attempt[a].pull)
  /\ UNCHANGED <<ledger, queued>>
  /\ AnswerWith(a, "200/409", NoUuid)

AnswerError(a) ==
  /\ Waits(a)
  /\ UNCHANGED <<ledger, queued>>
  /\ AnswerWith(a, "error", NoUuid)

LeaveQueue ==
  /\ \E u \in queued : queued' = queued \ {u}
  /\ UNCHANGED <<now, pull, changes, reply, ledger, attempt, authorization, request, receipt,
                 readings, sequence, verdict>>
-----------------------------------------------------------------------------
(* Evidence.                                                               *)

Fresh(at, age) == at <= now /\ now - at <= age

Bind(a) ==
  /\ attempt[a] = NoRecord
  /\ \E p \in Pulls : attempt' = [attempt EXCEPT ![a] = [pull |-> p, head |-> pull[p].head]]
  /\ UNCHANGED <<now, pull, changes, serviceVars, authorization, request, receipt, readings,
                 sequence, verdict>>

ReadAuthorization(a) ==
  /\ attempt[a] # NoRecord /\ request[a] = NoRecord
  /\ LET p == attempt[a].pull IN
       authorization' = [authorization EXCEPT ![a] = [pull |-> p, facts |-> pull[p], at |-> now]]
  /\ UNCHANGED <<now, pull, changes, serviceVars, attempt, request, receipt, readings,
                 sequence, verdict>>

RecordReceipt(a) ==
  /\ reply[a] # NoAnswer /\ receipt[a] = NoRecord /\ sequence < MaxSequence
  /\ sequence' = sequence + 1
  /\ receipt' = [receipt EXCEPT ![a] =
       [attempt |-> a, pull |-> attempt[a].pull, head |-> request[a].head,
        status |-> reply[a].status, uuid |-> reply[a].uuid, at |-> now, sequence |-> sequence']]
  /\ UNCHANGED <<now, pull, changes, serviceVars, attempt, authorization, request, readings,
                 verdict>>

\* A surface may read the pull at any time, also before the answer arrives.
ReadBack(p) ==
  /\ sequence < MaxSequence
  /\ sequence' = sequence + 1
  /\ readings' = readings \cup {[pull |-> p, base |-> pull[p].base, head |-> pull[p].head,
                                 at |-> now, sequence |-> sequence']}
  /\ UNCHANGED <<now, pull, changes, serviceVars, attempt, authorization, request, receipt,
                 verdict>>
-----------------------------------------------------------------------------
(* The contract.                                                           *)

AnyAge(a, auth) ==   \* mutant: an old authorization still counts
  auth.pull = attempt[a].pull /\ auth.facts.base = "main" /\ auth.facts.head = attempt[a].head
AuthorizationMatches(a, auth) ==
  /\ auth.pull = attempt[a].pull
  /\ auth.facts.base = "main"
  /\ auth.facts.head = attempt[a].head
  /\ Fresh(auth.at, MaxAuthorizationAge)

FreezeMatches(a, freeze) == freeze = attempt[a]

\* merge-async is the one documented primitive that is approved, so the last
\* check of choose_submission_route() never blocks.
Route(a, auth, freeze, surface) ==
  CASE ~AuthorizationMatches(a, auth) -> "BLOCKED_STALE_STATE"
    [] AuthorizationMatches(a, auth) /\ ~auth.facts.authorized -> "BLOCKED_NOT_AUTHORIZED"
    [] AuthorizationMatches(a, auth) /\ auth.facts.authorized /\ ~auth.facts.eligible ->
         "BLOCKED_NOT_ELIGIBLE"
    [] OTHER -> IF ~FreezeMatches(a, freeze) THEN "BLOCKED_FROZEN_HEAD_MISMATCH"
                ELSE IF surface \in Operational THEN "ASYNC_MERGE_QUEUE"
                ELSE "BLOCKED_CAPABILITY_UNAVAILABLE"

\* build_merge_async_request() with anybody's authorization and freeze.
BuildRequest(a) ==
  /\ attempt[a] # NoRecord /\ request[a] = NoRecord
  /\ \E b \in Attempts, freeze \in Freezes, surface \in Surfaces :
       /\ authorization[b] # NoRecord
       /\ request' = [request EXCEPT ![a] =
            [decision |-> Route(a, authorization[b], freeze, surface),
             head |-> attempt[a].head, at |-> now]]
  /\ UNCHANGED <<now, pull, changes, serviceVars, attempt, authorization, receipt, readings,
                 sequence, verdict>>

SameCoordinates(a, r) == r.pull = attempt[a].pull /\ r.head = attempt[a].head   \* mutant
BelongsTo(a, r) == r.attempt = a /\ r.pull = attempt[a].pull /\ r.head = attempt[a].head

ReceiptVerdict(a, r) ==
  IF ~BelongsTo(a, r) \/ ~Fresh(r.at, MaxReceiptAge) THEN "BLOCKED_RECEIPT_INVALID"
  ELSE CASE r.status = "200/409" -> "RECONCILE_REQUIRED"
         [] r.status = "202" /\ r.uuid # NoUuid -> "SUBMISSION_ACCEPTED"
         [] OTHER -> "BLOCKED_RECEIPT_INVALID"

Judge(a, result, uuid) ==
  /\ verdict' = [verdict EXCEPT ![a] = [result |-> result, uuid |-> uuid, at |-> now]]
  /\ UNCHANGED <<now, pull, changes, serviceVars, attempt, authorization, request, receipt,
                 readings, sequence>>

VerifyReceipt(a) ==
  /\ attempt[a] # NoRecord /\ verdict[a].result # "POST_SUBMISSION_TARGET_CONFIRMED"
  /\ \E b \in Attempts :
       /\ receipt[b] # NoRecord
       /\ Judge(a, ReceiptVerdict(a, receipt[b]), receipt[b].uuid)

AfterBySecond(o, r) == o.at >= r.at   \* mutant: the clock orders the evidence
\* Causal order comes from the sequence, not from the whole-second clock.
After(o, r) == o.sequence > r.sequence /\ o.at >= r.at

TargetAtAnyTime(a, o, r) ==   \* mutant: an old read-back still counts
  o.pull = attempt[a].pull /\ o.base = "main" /\ o.head = attempt[a].head /\ After(o, r)

\* A read-back also carries the UUID of the receipt it is made for, and the code
\* compares the two.  It is left out: here a read-back made for another receipt is
\* accepted as well, and what is shown holds with it.
ConfirmsTarget(a, o, r) ==
  /\ o.pull = attempt[a].pull
  /\ o.base = "main"
  /\ o.head = attempt[a].head
  /\ After(o, r)
  /\ Fresh(o.at, MaxPostAge)

\* verify_post_submission_target(): the receipt is verified again first.
VerifyTarget(a) ==
  /\ attempt[a] # NoRecord /\ verdict[a].result # "POST_SUBMISSION_TARGET_CONFIRMED"
  /\ \E b \in Attempts, o \in readings :
       /\ receipt[b] # NoRecord
       /\ Judge(a,
            IF ReceiptVerdict(a, receipt[b]) # "SUBMISSION_ACCEPTED" THEN "BLOCKED_RECEIPT_INVALID"
            ELSE IF ConfirmsTarget(a, o, receipt[b]) THEN "POST_SUBMISSION_TARGET_CONFIRMED"
            ELSE "BLOCKED_POST_SUBMISSION_TARGET_MISMATCH",
            receipt[b].uuid)

Step ==
  \/ Tick \/ LeaveQueue
  \/ \E p \in Pulls : ChangePull(p) \/ ReadBack(p)
  \/ \E a \in Attempts :
       \/ Accept(a) \/ AnswerConflict(a) \/ AnswerError(a)
       \/ Bind(a) \/ ReadAuthorization(a) \/ BuildRequest(a)
       \/ RecordReceipt(a) \/ VerifyReceipt(a) \/ VerifyTarget(a)

Next == Step /\ Remember

Spec == Init /\ [][Next]_vars
-----------------------------------------------------------------------------
(* Properties *)

\* A request is built only for a target that was really on main at exactly
\* that head, authorized and eligible, at some moment of the seconds the
\* contract allows before it, whoever's authorization was presented.
RequestIsQualified ==
  \A a \in Attempts :
    request[a] # NoRecord /\ request[a].decision = "ASYNC_MERGE_QUEUE" =>
      \E fact \in held :
        /\ fact.pull = attempt[a].pull
        /\ fact.facts = [base |-> "main", head |-> request[a].head,
                         authorized |-> TRUE, eligible |-> TRUE]
        /\ fact.at <= request[a].at /\ request[a].at - fact.at <= MaxAuthorizationAge

\* An attempt whose submission is called accepted or confirmed is the one the
\* service accepted under that UUID: two attempts at one head of one pull can
\* never both take the credit, and a 200 or 409 is never promoted.  An attempt
\* that is told to reconcile has nothing of its own on record: it is another
\* one's submission that it has to look for.
AcceptedIsOurs ==
  \A a \in Attempts :
    /\ verdict[a].result \in {"SUBMISSION_ACCEPTED", "POST_SUBMISSION_TARGET_CONFIRMED"} =>
         /\ verdict[a].uuid \in DOMAIN ledger
         /\ ledger[verdict[a].uuid] =
              [attempt |-> a, pull |-> attempt[a].pull, head |-> attempt[a].head]
    /\ verdict[a].result = "RECONCILE_REQUIRED" =>
         \A uuid \in DOMAIN ledger : ledger[uuid].attempt # a

\* A confirmed target was seen on main at the accepted head after the answer
\* had been recorded; a reading made before it, even in the same second, does
\* not count.
ConfirmedAfterAnswer ==
  \A a \in Attempts :
    verdict[a].result = "POST_SUBMISSION_TARGET_CONFIRMED" =>
      <<"main", attempt[a].head>> \in since[a]

\* When the target is confirmed it held in one of the last MaxPostAge seconds, and
\* the answer was recorded in one of the last MaxReceiptAge: a receipt may grow too
\* old between its own check and the read-back that is presented with it.
ConfirmedIsFresh ==
  \A a \in Attempts :
    verdict[a].result = "POST_SUBMISSION_TARGET_CONFIRMED" =>
      /\ verdict[a].at - receipt[a].at <= MaxReceiptAge
      /\ \E fact \in held :
           /\ fact.pull = attempt[a].pull
           /\ fact.facts.base = "main" /\ fact.facts.head = attempt[a].head
           /\ fact.at <= verdict[a].at /\ verdict[a].at - fact.at <= MaxPostAge
=============================================================================
