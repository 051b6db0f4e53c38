# Oteryn: a verification development of the governance control plane

Oteryn is the META repository of a product ecosystem. It holds no product
runtime; its program is the control plane in `src/tools/governance/` and the
workflows that call it: who may integrate which commit, through which route,
with which evidence, and what is reported afterwards. This directory holds TLA+
models of that control plane, TLC configurations that check them on small
instances, and TLAPS proofs of the results that matter most for every instance.

Paths below are relative to the repository; `G/` stands for
`src/tools/governance/`.

## 1. The system

| Component | State it keeps | Operations | Interacts with |
|---|---|---|---|
| **Merge Queue executor** `G/governed_merge_queue_executor.py`, `src/.github/workflows/governed-merge-queue-executor.yml` | none of its own: a workflow run's place, its log, step summary and exit status | a comment on META issue 196 starts a run; parse, qualify twice, bind the principal, re-read main, one `PUT merge-async`, persist the receipt, validate metadata, read back, report | GitHub REST (facts that others change), merge-async service, concurrency group, reruns |
| **Publication integrity** `G/publication_integrity.py` | recovery bundle, its temporary file, `<ref>.lock` in the endpoint | `publish()`: bind endpoint, stable read, bundle, rebind, leased push, read-back, classify | Git repositories, other Git clients, the filesystem |
| **Bounded execution guard** `G/bounded_execution_guard.py` | the chain of snapshots the caller hands back | `decide()` for observe, mutate, retrigger, retry, run_heavy_validation, complete | any agent that presents snapshots |
| **Submission routing** `G/merge_queue_submission_routing.py` | evidence records: authorization, request, receipt, read-back | the checks `choose_submission_route`, `build_merge_async_request`, `verify_async_receipt`, `verify_post_submission_target` | an execution surface; merge-async service |
| **Integration capability routing** `G/integration_capability_routing.py` | discovery and executor evidence, a decision, a delegated request | `decide`, `observe_and_decide`, `build_delegated_request` | tools of a session, executor canary, the executor itself |
| **Agent continuation policy** `G/agent_continuation_policy.py` | checkpoints with lineage | validate, resume | lineage, lifecycle and continuity authorities |
| **Agent execution routing** `G/agent_execution_routing.py` | none: a task packet with its preflight, lanes, leases and integration order is judged against live state | `validate_packet`, `validate_remote_desktop_action` | a session that reads GitHub, the lanes that work under the packet |
| **Remote Desktop call gate** `G/remote_desktop_call_gate.py` | none | `validate_remote_desktop_call` | execution routing, a session on a host |
| Governance drift audit `G/governance_drift_audit.py` | a report | compare desired and live state over several reads | GitHub refs |
| Central policy resolver `G/central_agent_policy.py`, `G/provider_policy_adoption.py` | none | resolve and validate policy documents | policy tree |
| Release manifest validation `G/validate_release_manifests.py` | none | schema check | files |
| CI and branch lifecycle workflows | none | call the validators; delete merged branches | GitHub |

How they compose: a worker asks *capability routing* for a route; a delegated
route ends in a comment that starts the *executor*; a direct route builds its
request with *submission routing*; both reach the same *merge-async service*.
*Publication* puts the candidate where the pull's head is read. The *guard*
limits how often an agent retries and revalidates on the way. Before all of
it, *execution routing* admits the packet under which agents work, alone or in
parallel lanes, and *continuation* decides what they may leave behind.

What is hard here, per component:

- **executor** — ten facts read one after the other, any of which may change
  before the PUT; a PUT that is applied although its answer is lost; a run killed
  anywhere and rerun; pending runs replaced in the concurrency group; a 409 that
  describes somebody else's request. Correct means: one PUT per comment, on fresh
  facts, and a report that is true and stays true.
- **publication** — repositories exchanged at the approved path, rivals, edits
  that bypass Git, a local branch that moves while it is packed, killed invocations that leave locks, remote pushes applied
  late. Correct means: pushes land where approved, over an ancestor, with a
  bundle first, and the outcome reported is the outcome; that every end is a report
  fails (section 3).
- **guard** — it has no memory but what an untrusted caller returns. Correct
  means: no sequence of accepted snapshots exceeds a budget, thaws a frozen head,
  or leaves DONE.
- **submission routing** — evidence of several attempts, presented in any
  order, some of it taken in the same second. Correct means: acceptance and
  confirmation belong to this attempt and to what came after its answer.
- **agent continuation** — authorities asked one after the other about a task that
  moves, and several workers accepted against one predecessor. Correct means: whoever
  was let go is let in again when the wake-up comes, only the bounded authority ends
  the task, and a resume never forgets retries.
- **execution routing and call gate** — facts read one by one while they move,
  and lanes judged one rule at a time that then work at once. Correct means: what
  passes the preflight was true at one recent moment; lanes never share a file,
  branch, worktree or lease, and no rules together lock them; a host call is one
  the packet declared.
- **capability routing** — two kinds of evidence read at different moments, a
  decision that never expires. Correct means: a release had a real route, and a
  delegated request is submitted only by a proved executor.

The full list, each at its line, is under `hazards` in `PROJECT.json`.

## 2. Modules

Every definition that models code is listed with its source lines under `map` in
`PROJECT.json`. Definitions marked `\* mutant` are plausible wrong versions of
the definition below them. No `Spec` uses one; they show that a property
notices the mistake.

### `MergeQueueExecutor.tla`

One workflow run per comment. `pc[c]` is the place of the run: `PostComment`,
`Rerun` and `EnterGroup` are the trigger and the concurrency group
(`cancel-in-progress: false` and one pending run); `StartRun` is the job's `if`,
including `run_attempt == 1`; `CheckoutMain` and `LaunchExecutor` end at
`main()`; `ReadComment`, `ReadPull`, `ReadGate`, `ReadSource` are
`qualify_target()`, run twice (`pass`); `BindPrincipal` through `ReadMainLast`
are the binding reads; `SendPut` is the single call of the mutation; `Receive*`,
`PersistLog`, `PersistSummary`, `CheckMetadata`, `ReadBack`, `ReadIdentity`
follow `submit_merge_queue()` in its own order. Each REST read is its own step, and
`Environment` may change every fact between any two of them. A read that fails
and a fact that does not hold end the run in the same way, as in the code, so one
disjunct stands for both. `Die` covers the lost runner, the job timeout and an
exception `main()` does not catch.

The service (`ServerAccept`, `ServerConflict`, `ServerRefuse`) is external: it
is what the code relies on, namely that it fences the head it is given and holds
one queued request per pull. It knows nothing of META main, and it may answer a
request it has recorded with an error or with metadata that does not bind it.

On the gated route a source run must also belong to the check suite of the gate that
was read (lines 345 and 368). `Holds` does not ask for it, so the model goes on with
runs that the code refuses; what is shown holds of those too.

`held` is history: the facts that were true at some step of the second pass.

### `SubmissionLedger.tla`

The abstract specification: what the executor promises to a coordinator, with no
reads, runs or messages. A request is submitted at most once, takes effect at
most once, and a report, once given, is true and stays true: `accepted` only of
an effective request; `notSent`, `refused` and `conflict` only of one that never
takes effect; `unknown` promises nothing. `KeepsPromise` in `MergeQueueExecutor`
states the refinement with its mapping.

### `DelegatedRun.tla`

The abstract specification of the run that a control request starts, as its author
sees it: it begins on the main the request names, and what it submits was cleared
while main and the principal of the credential were still those. Two modules meet
here. `MergeQueueExecutor` is this run in all its steps; `IntegrationCapability`
decides whether such a request may be posted and knows no more of the run than
this. Both state `KeepsToRequest` with their own mapping (`Promised`). The last
look at main and the sending of the PUT are two steps of the executor and one of
capability routing, so `Clear` may submit at once or leave that to `Submit`.

### `Publication.tla`

One invocation per publisher; a retry is another publisher with the same
candidate. `LockRef`, `ObserveRef`, `VerifyRef`, `ReverifyRef`, `UnlockRef` are
`stable_readback()` on a local endpoint; `ReadRemote` is its remote form;
`CheckPaths` to `ReplaceBundle` create the recovery bundle; `RebindEndpoint`,
`PinEndpoint`, `SendPush`, `PushReturns`, `Revalidate` are the push and what leads
to the read-back, which is the same stable read with `phase = "readback"`.
`PushApplies` and `PushFails` are receive-pack: for a local endpoint it is a
descendant of the waiting client, which is not killed separately from it; for a
remote one the client may return first. Which of the two the endpoint is
(`local`) never changes; `Endpoints` says which an instance has. A ref has a value and
a storage identity (`file`), because the code pins the storage as well as the
value. `GitWrite`, `RawWrite`, `SwapEndpoint`, `BreakLock` are outside actors,
switched on per instance by `Interference`; with `"work"` in it, the local branch
may have moved between its comparison with the candidate and `git bundle create`
(`LocalHeads`), which is why `Advertises` looks at the written file.

A step that fails ends in one of two ways (`Fail`). `Raise` is a `PublicationError`.
`Escape` is any other exception: `_run_git()` decodes the output of git strictly and
needs its working directory, and files are opened and unlinked again. Nothing handles
it, neither `publish()` nor `main()`, so every step that runs git or touches a file may
escape, also after the push, on local and remote endpoints, and with nobody interfering.
Under the ref lock both ways pass the unlink (`FailUnder`); while a bundle is written
both remove its temporary file (`FailAndClean`).

### `GuardedUpdate.tla`

The abstract specification of `publish()`: one compare-and-swap of a branch in the
repository approved for it, sent at most once and applied at most once, only over
the expected head and only as a fast-forward, and an answer that is true of that
branch when it is given. An ambiguous outcome, an exception that escapes and the death
of the process say nothing, so nothing is promised of them. Over a local endpoint an
answer, or an escape, is also final: nothing is applied after it. `KeepsUpdate` in `Publication` states the refinement: `Home` is
the endpoint an invocation has bound, and a report is told when the invocation ends.

Names and parents of paths, packed-ref layouts and symlinks are abstracted to
*the endpoint is the bound one* and *the pinned storage is what it was*; every
check of them appears as the guard of a step that otherwise raises.

### `BoundedExecution.tla`

`decide()` in one step per branch (`StayDone`, `Wait`, `StayReleased`, `Observe`,
`DenyFirst`, `Edit`, `Retry`, `HeavyValidation`, `Complete`) over *arbitrary*
snapshots: `Presented` is everything `validate_snapshot()` accepts within the
bounds, and `ContinuesHistory` is `_validate_predecessor_history()`. The stored
snapshot `last` is what the guard returned; the caller is assumed to hand back
what it was given, as the interface requires.

### `SubmissionRouting.tla`

The contract's checks are pure, so the model adds what produces their input: an
attempt is bound, reads authorization, builds the request, gets an answer,
records a receipt, and may read the pull at any time. `BuildRequest`,
`VerifyReceipt` and `VerifyTarget` may be given *anything any attempt has
collected*. The service may answer a request it has recorded with an error, or
without a usable UUID, as in `MergeQueueExecutor`. The clock counts whole seconds and many steps share one; `sequence` is
the executor-owned order that receipts and read-backs carry. `held` and `since`
are history. The UUID that a read-back carries, which line 367 compares with the
receipt's, is left out: the model confirms more than the code does, and the properties
hold of that.

### `IntegrationCapability.tla`

A worker with an observer (`w \in observed`: `observe_and_decide()`, which reads
the clock first) or with typed evidence gathered in any order and presented later
(`decide()`); which of the two it is never changes.
`StateOf` is the decision. `PostRequest` is `build_delegated_request()` and the
comment made with it; `CheckoutMain` and `BindAndSubmit` are the two places of
the executor that compare the request with protected main and the credential
again; the rest of the executor is `MergeQueueExecutor`, and `DelegatedRun` is what
the two modules agree on. `proved`, `directAt`,
`commentAt` and `readyAt` are history.

### `AgentContinuation.tla`

`validate_continuation_snapshot()` in its two modes, one step per question that is
asked of an authority about something that changes. `BeginWrite` is the caller resolving
the trusted task; `CompareLifecycle` picks the snapshot (a snapshot that fails shape,
lineage, coordinates or lifecycle is rejected with no effect, so only the others are
worth a step), then `ReadPredecessor`, `ProveFirst` and `CompareFirst`, or
`CompareWithPredecessor`, and `JudgePair` follow the code's order. `PairHolds` and
`FutureHolds` are the halves of `_validate_pair()` before and after
`verify_future_mechanism`; of the questions in them a call asks one about something
that changes, the others are about a given state or locator. `StateForPair` is the
state the pair is judged on, which was read at first. `BeginResume`,
`AuthenticateCause`, `ProveTransition` and `CompareEvidence` are `resume_read`. The
lineage key is constant: there is one task.

The code only names what it asks: its authorities are Protocol classes without bodies.
What they answer (`Latest`, `Bound`, `LiveAndBound`, `EventHappened`,
`AutomaticContinuation`, `MatchesEvidence`, `PreservesContinuity`, `Releases`,
`IsTerminal`) is therefore assumed, is what the question says it proves of the facts
as they are, and is marked external in the map. Outside the code too are the task
(`MoveTask`: branch, pull, head and next action are one value; whether the remaining
work needs a worker may change with it), the bounded authority (`MoveLifecycle`,
`ConsumeRetry`), resume mechanisms (`Arm`, `FireOrCancel`), the owner and the
checkpoint store. Assumed of them: DONE is final (which `BoundedExecution_proofs` proves
of the guard); a locator names one mechanism for good, set up for the task as it is,
which fires at most once unless it is cancelled before; the opaque
`bounded_continuity_ref` is a count of recorded retry evidence, so it cannot point past
what the authority has recorded; the transition authority may answer anything. The
store appends what it is given: the validation returns nothing that would tie the
write to the predecessor it was judged against, so checkpoints may be recorded in
the other order, and `Record` allows it.

`WakeupIsHeard` sets the two modes against each other: what `checkpoint_write` accepted
of a leaving worker, `resume_read` does not refuse when its mechanism has fired, though
lifecycle, task and mechanism move between the questions of the one and until those of
the other. It is about the checkpoint's own coordinates. Whether the task as it is by
then may be resumed from them is the transition authority's decision, and a mechanism
that is cancelled after it was verified leaves the task without one; the code
watches for neither.

### `OwnedPaths.tla`, `DependencySort.tla`, `ExecutionRouting.tla`

A session reads the facts of its task one by one into the packet's preflight
(`ReadPreflight`), again into the live state (`ReadLive`), and presents the packet
(`Present`, `Sort`, `Decide`: `validate_packet()`). `RouteHolds`, `PreflightHolds`
and `LanesHold` are its rules on route, preflight and parallel lanes.
`OwnedPaths` holds the overlap of two path patterns (`PathsOverlap` compares
literal prefixes) next to its reference definition, what a pattern owns
(`Owns`). `DependencySort` is the counting search of `_has_dependency_cycle()`,
one processed lane per step, next to the reference definition of a cycle
(`Cyclic`). An admitted packet is then worked on: lanes start when their
dependencies are merged and their leases free, and merge in the integration
order. The code only says what packets are admitted; `StartLane` and `MergeLane` are
the use its rules are made for and are marked external.

Under a host exception the session asks for calls. `AuthorizeCall` is
`validate_remote_desktop_action()`, which validates the packet again, and
`CallHolds` is `validate_remote_desktop_call()`. A tool's arguments are a semantic and
an incidental part; `Canonical` keeps the first.

The spelling of single fields, which the code checks with regular expressions,
is left out, and so is the comparison of the live state's `verified_at` with the
preflight's (line 319, for that field): the model accepts more. The world stands still while nobody is going to look at it, since
an admitted packet without an exception reads nothing more.

## 3. Runs

`MC*.tla` hold requests, ancestries and symmetry sets; the `.cfg` files give the
constants. Runs of `MergeQueueExecutor`, `Publication`, `SubmissionRouting`,
`AgentContinuation`, `IntegrationCapability` and `ExecutionRouting` set
`CHECK_DEADLOCK FALSE`: comments, invocations, attempts, workers and lanes are
finitely many and the system really stops when they have ended. When admitted lanes
may stop before is a property (`NeverStuck`). The guard can always be asked
again and its runs check deadlock.

| Run | Instance | What it shows |
|---|---|---|
| `executor_rivals` | 2 comments for 2 heads of 1 pull, 2 mains, 1 actor, 2 attempts, 1 change | one PUT, fresh facts, true receipts and reports, and the refinement of `SubmissionLedger`, under rivals, reruns, crashes and lost answers |
| `executor_atlas` | Atlas route with 2 source workflows, checks in either state, 2 actors, a foreign comment, 2 attempts, 2 changes, with fairness | negative answers on the route without a gate check; the refinement of `DelegatedRun`; every run that enters the group ends |
| `publication_rivals` | 2 publishers, fork of base, 2 repositories, a local or a remote endpoint, other Git client, exchanged endpoint, moved local branch, 2 changes | the refinement of `GuardedUpdate`, true and current verdicts, the candidate in the bundle, released locks; over a remote endpoint the lease alone keeps every commit |
| `publication_retry` | same candidate, one commit on its base, and bundle path, ref storage edited and lock files removed, 2 changes, with fairness | the bundle comes first and stays the candidate; invocations end: a stale lock blocks, it does not hang |
| `guard_decisions` | 2 heads, an external dependency, presented RUNNING or DONE, budgets 1, counters to 1, both freezes | budgets, freezes and released states hold for every sequence of snapshots |
| `routing_evidence` | 2 attempts at 1 pull, 2 seconds, ages 0, 1 and 0, sequence to 2, 1 change | a request rests on fresh authorization; acceptance and confirmation belong to the attempt; only a fresh and later read-back confirms |
| `continuation_rivals` | 2 workers, 1 mechanism, 2 coordinates of the task, RUNNING, WAITING_EXTERNAL and DONE, 1 retry, 1 move of task or lifecycle, 2 checkpoints | what checkpoint_write accepted of a leaving worker, resume_read lets in again when its wake-up comes; terminality is the bounded authority's; a resume resets no retry evidence, although checkpoints are recorded in any order |
| `routing_admission` | the packets of `MCExecutionRouting`, 2 facts, 1 move, 2 seconds beyond the first, age 1, with fairness | what passes the preflight was true at one recent moment; the counting search finds exactly the cycles; lanes never collide; they lock only through a lease whose holder comes later in the order, and all get merged in packets in which first holders come first; host calls are declared ones |
| `capability_release` | 1 worker with or without an observer, 2 logins, a pinned and an unpinned main, age 1, 4 seconds, 1 change | a release had a route; a request is submitted only on a proved main; the refinement of `DelegatedRun` |

Why the bounds are enough. Two comments, publishers or attempts give every kind
of rivalry the code distinguishes, because each is compared only with itself and
*another one*. Two changes, where an instance affords them, let a fact fail and be
restored, or two facts change in turn, which is what separates "was true at its own
read" from "was true at some time". Two attempts of a run include a rerun; the guard on the attempt does
not look beyond "is it the first". Two heads let a task leave a head and return.
The clock exceeds an age by one second where staleness matters. A budget of one
is reached, refused and renewed within the bounds. The packets of
`routing_admission` come in five families, each of which varies one part and keeps the
rest sound: `Ordered` (all dependencies among three lanes, wrong orders),
`Isolated` (shared names, branches, worktrees), `Owned` (every pair of seven
patterns with every wildcard, with and without a lease), `Leased` (two leases
with any holder and declarers, with a dependency) and `Hosted` (one
exception that holds and others that differ in one part); three lanes are what a cycle
without a pair, and a wait through two leases, take. Where the proofs below cover a
property, the bounds do not matter to it; that is every invariant and every
refinement of the passing runs. What is proved and follows from a property that is
run is not run again: type invariants (each module has one, `TypeOK`),
`LandsWhereApproved` and `BlockedMeansUntouched`, which `KeepsUpdate` implies.
`PutOnFreshFacts` is checked on the native route and proved for both.

Bounds: `MaxAttempts` (reruns of one run), `MaxChanges`, `MaxMoves` (changes by others),
`MaxCount` (counters a caller may present), `MaxTime`, `MaxClock` (seconds), `MaxSequence`
(receipts and read-backs), `MaxUsed` (retry evidence of a task), `MaxCheckpoints`.

Two cases need more than an instance affords. A pending run is replaced in the
concurrency group only by a third comment, so `executor_rivals` and `executor_atlas`
never see it; the theorems `PromiseKept` and `FinalNegatives`, for any number of
comments, do. In `routing_evidence` the clock never passes a receipt's age bound, since
a third second exceeds what can be checked in a few minutes; that half of
`ConfirmedIsFresh` rests on the theorem `FreshConfirmation`.

### Fairness

- `MergeQueueExecutor`: weak fairness of `Execute(c)`. A hosted runner executes
  the job's next step or its timeout ends it; the transport has its own timeout;
  GitHub hands a free group to the pending run. Nothing is assumed of the
  service: the answer may never come, and `LosePutAnswer` is then the step
  taken. Nothing is assumed of users, reruns or `Die`.
- `Publication`: weak fairness of `Publish(p)` and of `ReceivePack(p)`. The
  second assumes that every git command ends. `_run_git()` sets no timeout, so the
  code does not provide this: a remote that stops answering blocks the invocation.
- `ExecutionRouting`: weak fairness of `LaneStep`. Agents finish the lane they
  work on: told to continue, one is to stop only after verified completion or for want
  of something nobody else can provide
  (`src/docs/agents/contracts/AGENT_EXECUTION_ACCESS_AND_CONTINUATION_POLICY.md:238`),
  and the property is about packets that leave some lane free to go on. Nothing is
  assumed of the session or the facts. `AdmittedCompletes` is about packets in which
  the first holder of a lease comes first in the integration order (`HoldersFirst`).
  `validate_packet()` does not ask for that: it admits packets whose lanes then lock,
  because one waits for a lease whose holder may merge only after it (`LockedOut`). Such
  packets are among those of `routing_admission`, and `NeverStuck`, which is about
  every admitted packet, says that lanes lock in no other way.

### Disagreements between documents and code

Three runs expect a violation; each is recorded with its quotation under
`findings`.

- `publication_escape`: output of git that does not decode (`_run_git()`, lines 62-71),
  a working directory that is gone, or a file that is opened or unlinked again (lines
  706, 1057) raises an exception that is no `PublicationError`; `publish()` (line 1356)
  and `main()` (line 1413) handle nothing else, so after a push the invocation ends
  unclassified, without naming outcome or bundle. The run has no outside actor.
- `guard_freeze_per_head`: the document states the freeze per exact head; the
  code keeps it per uninterrupted stay on that head, since only the previous
  snapshot is remembered. The heavy-validation budget has the same scope
  (`HeavyBudgetHolds` states it per stay).
- `capability_spurious`: the clock is read before the observer acquires evidence,
  so a second that turns in between blocks a worker whose direct operation was
  just found. It fails closed.

## 4. Proofs

All proofs hold for every value of the constants under the named assumptions of
the modules (`RequestAssumption`, `SourcesAssumption`, `NamesAssumption` and
the like): they say what the constants are, and none restricts how many comments,
pulls, heads or workers there are. That the null values `NoActor` and `NoRecord` are none of
the records and values they stand beside is part of them, as it is of model values.

**`MergeQueueExecutor_proofs`** proves type correctness, and `Invariance`, the
inductive invariant `Inv`, from which follow `OnePut`, `OwnReceipts`,
`HandleKept`, `TrueAcceptance`, `FinalNegatives`, `ReconciledHead` and
`FirstOutcomeStays`. None of these properties is inductive by itself: that a
second PUT cannot happen depends on where the run is, on the attempt number and
on the reported outcome together. `Inv` ties them per run: `AttemptInv` (a run
that is past the workflow's guard is the first attempt), `SentInv` (before the
PUT nothing was sent, after it exactly one), `AnswerInv` (what the service's
answer says of the ledger), `ReceiptInv` (which UUIDs may have been written,
per place), `ReportInv` (what each outcome implies of ledger and receipts).
Changes of facts leave all of it alone (`Frame`); steps of one run leave the
others alone (`OtherRuns`); the remaining lemmas go through the steps before,
at and after the PUT.

**`MergeQueueExecutor_results`** builds two results on it. `PromiseKept`: under
the mapping of `Promise`, initial states map to initial states, `SendPut` to `Submit`,
`ServerAccept` to `TakeEffect`, the end of a run to `Tell` (a replaced pending
run included), and every other step to a stutter; `Inv` supplies the guards.
`FreshPut` follows from an invariant of its own: at every place of the second
pass, the facts of the places already passed are in `held`; for the source
workflows, those before the `nth`. `RequestKept` is the refinement of
`DelegatedRun`: `CheckoutMain` maps to `Begin`, `ReadMainLast` to `Clear`,
`SendPut` to `Submit`, and whatever ends a run early to `Refuse`. Its invariant says what
`ReadMainLast` may rely on: that the principal is the comment's author is read some steps
before main is, and no step of a run or of its environment changes the credential.
`RunIsShort` is the half of `RunEnds` that can be proved: `StepsLeft` is a natural number,
every step of a run lowers it, nothing else touches it but a new comment or a rerun. A
run cannot go round for ever; that it takes its next step is fairness.

**`Publication_proofs`** proves `Invariance` for every number of invocations,
repositories and commits, local and remote, with every outside actor. `ReadInv`
says which verdicts a read can have at which place; `SendInv` relates the place of an
invocation to what it has sent, and what has landed to the endpoint it bound and
the head it expected; `HeadInv` says that a verdict or report of publication
has been true; `LockInv` says whose lock is whose. `PublishedTrue`, `LandsApproved`,
`NothingLost`, `BlockedUntouched` and `LocksFreed` follow. `PublishIsShort` bounds an
invocation by twenty steps, as `RunIsShort` does a run.

`UpdateKept` is the refinement of `GuardedUpdate`: binding maps to `Approve`, the push to
`Send`, receive-pack to `Apply`, the end of an invocation to `Tell`, whatever the outside
does to the branch to `WriteElsewhere`, all else to a stutter. `CourierInv` adds what
`Apply` needs, namely that a push in flight is of an invocation that waits for it, has
died, or works over a remote endpoint.

Some theorems have an assumption about the outside, and each is needed.
`VerdictCurrent` and `UpdateKept` assume that nobody edits refs without Git or removes
lock files (`LockRespected`), since a lock binds only those who respect it. `UpdateKept`
is about reports: an invocation that ends in an exception that escapes, before or after
its push, reports nothing, and no theorem says that this does not happen, for it does
(`publication_escape`). `BundleKept` assumes that a bundle path is
used by one invocation, or for one candidate that stays checked out (`OwnBundle`),
since the code looks for the bundle long before it replaces it.

**`SubmissionRouting_proofs`** proves all properties of the native contract from
one invariant: `Binding` (each record names the attempt, pull and head it was made
for, with a place in the sequence) and `EvidenceInv` (what was true when it was
made, and what the service has recorded since). The evidence a check is given is
*any* record collected by any attempt, so the invariant speaks of records, not of
the order of steps. `OwnAcceptance` has a negative half, which needs `RecordInv`: whoever is on
the service's record was answered 202 or by an error, so an attempt that must
reconcile is not on it.

**`BoundedExecution_proofs`** proves types, both budgets, the freeze, DONE and
progress properties. `DecisionIsGood` describes once what all branches of
`decide()` have in common; `BudgetInv` relates the admissions counted by the
history variables to the counters in the kept snapshot, the only memory there is.

**`IntegrationCapability_proofs`** proves types, and `SubmittedOnProvedMain`
along the chain canary, executor evidence, decision, request, run: each record
carries a main whose canary ended, because `proved` only grows and each step
copies the main from the record before it. `RouteWasThere` rests on `RouteInv`:
every piece of evidence carries the second at which its fact is in the history, and
a decision compares these seconds with its own. `RequestKept` is the refinement of
`DelegatedRun`. `OnlyTheClockOverrules` bounds the disagreement of `capability_spurious`:
a worker that has found the direct operation is blocked only if it found it in a later
second than the one its decision was made for (`OrderInv` follows the observer).

**`AgentContinuation_proofs`** proves all four properties of continuation from
one invariant over accepted checkpoints, recorded or not (`Accepted`), and calls
in progress (`CallInv`). A property of the recorded chain alone is not inductive:
what `Record` appends was judged earlier. `Accepted` says that a checkpoint is
consistent for the state it records and that its mechanism is the one at its locator,
for its own coordinates; `Onward` is what the outside never takes back, and
`AcceptedStays` shows that this is enough. So `WakeupsAreHeard`: when that mechanism has
fired, it is the event `resume_read` asks for.

**`ExecutionRouting_proofs`** proves the admission sound for every packet, pattern
and number of lanes. `SharedFileOverlaps` shows that two patterns that own one
file have comparable literal prefixes, whatever wildcards follow. For
`CycleFound`, `SortInv` says that the counters are the numbers of dependencies still
open; when the queue is empty with lanes left, each of these depends on another of
them, which is what a cycle is in `Cyclic`; `TrapInv` is the converse, that such
lanes are never reached. `PreflightSnapshot`
uses that facts only grow: equal readings before and after a moment give the fact
at that moment. `NobodyWaitsForEver` takes the unmerged lane that comes first in
the integration order and shows that it can start or merge, unless a lease it declares
is held by a later lane; `HoldersFirstSuffices` shows that in packets in which first
holders come first this does not happen.

Two of the three disagreements have a theorem that bounds them: `OnlyTheClockOverrules`,
and `FreezeStays` for `guard_freeze_per_head` (within one stay on a head the freeze
holds). `publication_escape` has none: any step may escape.

Only model-checked: the three liveness properties (`RunEnds`, `PublishEnds`,
`AdmittedCompletes`), which rest on fairness and ENABLED; of the first two the
decreasing measure is proved. The three disagreements are counterexamples.

## 5. Not modelled

- Publication's reading of the push configuration and of the worktree (lines
  75-150 and 255-630 of `publication_integrity.py`): a long list of reasons to
  refuse, each a `git config` or `git ls-files` query. In `Publication` every step
  that asks them may refuse, so what follows a refusal is modelled and what causes
  it is not. What Git itself makes of its configuration when it pushes is outside
  this code.
- `_policy_errors()` and the `validate_policy()` functions, `G/central_agent_policy.py`
  with `G/provider_policy_adoption.py`, and release manifest validation: they compare
  documents of a fixed tree with constants and regular expressions, keep nothing, and
  have no precedence or order to get wrong; the one resolving function,
  `resolve_meta_authority_via_github()`, is called by tests alone.
- The drift audit: one pure comparison of a report somebody else has collected
  with a desired state; the reads are not in this repository.
- `select_execution_surface()` of the continuation policy: one evidence record,
  judged once against the clock and not kept.
- Parsing and shape validation of JSON, comments and packets, and SHA-256
  digests, except where their verdict guards a step. Digests are taken as
  injective.
- The CI and branch-lifecycle workflows, and the tests: configuration of external
  actions, with no state.

## 6. What is left

1. **Continuation, further**: an abstract linear history of accepted checkpoints
   and the condition on the store under which `AgentContinuation` implements it;
   the bounded guard as the lifecycle authority instead of an assumed one.
2. **Submission routing and the executor against one merge-async service**. Each is
   checked against its own model of that service; they agree on what it fences and
   records. (Capability routing and the executor meet in `DelegatedRun`.)
3. **Leases**: which further rule on packets would make `HoldersFirst` unnecessary.

## 7. Running

    tlc -config executor_rivals.cfg MCMergeQueueExecutor
    tlapm MergeQueueExecutor_proofs.tla

Each run's module and configuration are listed under `runs` in `PROJECT.json`.
The passing runs take between a few seconds and two
minutes with two workers.
