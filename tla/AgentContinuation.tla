-------------------------- MODULE AgentContinuation --------------------------
(***************************************************************************)
(* Persistent continuation of one agent task.                              *)
(*                                                                         *)
(* Before a worker leaves a task it has a checkpoint validated             *)
(* (checkpoint_write); a worker that comes back has the checkpoint it      *)
(* found validated (resume_read).  validate_continuation_snapshot() keeps  *)
(* nothing: it asks authorities, one after the other, about a task which   *)
(* goes on changing, and the caller then records what was accepted.  The   *)
(* authorities, the task and the checkpoint store are outside this code.   *)
(*                                                                         *)
(* A call that is rejected before its first question changes nothing and   *)
(* is no step here.                                                        *)
(***************************************************************************)
EXTENDS Naturals, Sequences, Functions

CONSTANTS
  Workers,        \* worker sessions of the task
  Coordinates,    \* branch, pull, head and next action of the task, taken together
  Locators,       \* concrete resume mechanisms that can be set up
  Replacing,      \* those which bring a replacement or persistent worker
  Armable,        \* mechanisms set up in this instance
  Proposals,      \* dispositions proposed: a set of [disposition, mechanism, locator]
  BoundedStates,  \* lifecycle states the bounded authority moves between
  MaxUsed,        \* bound on the retry evidence the bounded authority records
  MaxChanges,     \* bound on the moves of task and lifecycle
  MaxCheckpoints, \* bound on the recorded checkpoints
  NoLocator, NoCheckpoint, NoCoordinates

Dispositions == {"continue_current", "release_waiting", "rotate_resumable",
                 "stop_reinvoke_required", "terminal"}
WorkerBound  == {"scheduled_task", "work_event_trigger", "work_persistent"}
Automatic    == WorkerBound \cup {"github_native"}
Mechanisms   == Automatic \cup {"same_session", "owner_reinvoke", "none_terminal"}
States       == {"RUNNING", "WAITING_EXTERNAL", "BLOCKED", "STALLED", "READY", "DONE"}

\* The mechanisms a disposition may name.
Compatible ==
  [continue_current       |-> {"same_session"},
   release_waiting        |-> Automatic,
   rotate_resumable       |-> WorkerBound,
   stop_reinvoke_required |-> {"owner_reinvoke"},
   terminal               |-> {"none_terminal"}]

\* Snapshots of the closed shape: a locator goes with an automatic mechanism only.
Shape == [disposition: Dispositions, mechanism: Mechanisms,
          locator: Locators \cup {NoLocator}]
Snapshot ==
  {c \in [disposition: Dispositions, mechanism: Mechanisms,
          locator: Locators \cup {NoLocator}, task: Coordinates, state: States, used: Nat] :
     c.mechanism \in Automatic <=> c.locator \in Locators}
Checkpoint == {c \in Snapshot : c.mechanism \in Compatible[c.disposition]}

ASSUME ProposalAssumption ==
  \A p \in Proposals : /\ p \in Shape
                       /\ p.mechanism \in Automatic <=> p.locator \in Locators
ASSUME EnvironmentAssumption ==
  /\ Replacing \subseteq Locators /\ Armable \subseteq Automatic
  /\ BoundedStates \subseteq States
  /\ NoLocator \notin Locators /\ NoCheckpoint \notin Snapshot
ASSUME BoundAssumption == MaxUsed \in Nat /\ MaxChanges \in Nat /\ MaxCheckpoints \in Nat

VARIABLES
  \* the task and its authorities
  task,         \* trusted mutable coordinates
  bounded,      \* lifecycle state and retry evidence of the bounded authority
  changes,      \* moves of task and lifecycle so far
  resumer,      \* the mechanism set up at each locator, and what became of it
  unattended,   \* all remaining work completes without an agent worker
  reinvoked,    \* checkpoint the owner last re-entered the task on
  chain,        \* checkpoints recorded for the lineage
  \* the calls in progress
  call          \* of each worker

taskVars == <<task, bounded, changes, resumer, unattended, reinvoked>>
vars == <<taskVars, chain, call>>

At(stage, c) == [at |-> stage, trusted |-> NoCoordinates, late |-> FALSE,
                 snapshot |-> c, predecessor |-> NoCheckpoint]
Idle == At("idle", NoCheckpoint)
Stages == {"idle", "lifecycle", "lineage", "continuity", "first", "pair", "accepted",
           "event", "transition", "evidence", "resumed"}
Resumer == [mechanism: Automatic \cup {"none"}, task: Coordinates,
            is: {"live", "fired", "cancelled"}]

TypeOK ==
  /\ task \in Coordinates /\ unattended \in BOOLEAN
  /\ bounded \in [state: States, used: Nat] /\ changes \in Nat
  /\ resumer \in [Locators -> Resumer]
  /\ reinvoked \in Checkpoint \cup {NoCheckpoint}
  /\ chain \in Seq(Checkpoint)
  /\ call \in [Workers -> [at: Stages, trusted: Coordinates \cup {NoCoordinates}, late: BOOLEAN,
                           snapshot: Snapshot \cup {NoCheckpoint},
                           predecessor: Checkpoint \cup {NoCheckpoint}]]
  /\ \A w \in Workers :
       /\ call[w].at \in {"lineage", "continuity", "first", "pair"} => call[w].snapshot \in Snapshot
       /\ call[w].at \in {"accepted", "event", "transition", "evidence"} =>
            call[w].snapshot \in Checkpoint

Init ==
  /\ task \in Coordinates /\ unattended \in BOOLEAN
  /\ bounded = [state |-> "RUNNING", used |-> 0]
  /\ changes = 0
  /\ resumer = [l \in Locators |-> [mechanism |-> "none", task |-> task, is |-> "live"]]
  /\ reinvoked = NoCheckpoint
  /\ chain = <<>>
  /\ call = [w \in Workers |-> Idle]

Latest == IF chain = <<>> THEN NoCheckpoint ELSE chain[Len(chain)]
-----------------------------------------------------------------------------
(* The task and its authorities.                                           *)

\* With its coordinates, what remains to be done may become another.
MoveTask ==
  /\ changes < MaxChanges
  /\ task' \in Coordinates \ {task} /\ unattended' \in BOOLEAN
  /\ changes' = changes + 1
  /\ UNCHANGED <<bounded, resumer, reinvoked, chain, call>>

\* DONE is final for the bounded guard.
MoveLifecycle ==
  /\ changes < MaxChanges
  /\ bounded.state # "DONE"
  /\ \E s \in BoundedStates : bounded' = [bounded EXCEPT !.state = s]
  /\ changes' = changes + 1
  /\ UNCHANGED <<task, resumer, unattended, reinvoked, chain, call>>

ConsumeRetry ==
  /\ bounded.state # "DONE"
  /\ bounded.used < MaxUsed
  /\ bounded' = [bounded EXCEPT !.used = @ + 1]
  /\ UNCHANGED <<task, changes, resumer, unattended, reinvoked, chain, call>>

\* A locator names one mechanism for good, set up for the task as it is; it fires
\* at most once, unless it is cancelled before.
Arm(l) ==
  /\ resumer[l].mechanism = "none"
  /\ \E m \in Armable :
       resumer' = [resumer EXCEPT ![l] = [mechanism |-> m, task |-> task, is |-> "live"]]
  /\ UNCHANGED <<task, bounded, changes, unattended, reinvoked, chain, call>>

FireOrCancel(l) ==
  /\ resumer[l].mechanism # "none" /\ resumer[l].is = "live"
  /\ \E end \in {"fired", "cancelled"} : resumer' = [resumer EXCEPT ![l].is = end]
  /\ UNCHANGED <<task, bounded, changes, unattended, reinvoked, chain, call>>

OwnerReinvokes ==
  /\ chain # <<>>
  /\ reinvoked # Latest
  /\ reinvoked' = Latest
  /\ UNCHANGED <<task, bounded, changes, resumer, unattended, chain, call>>
-----------------------------------------------------------------------------
(* What the authorities answer.  The code only names the questions; every     *)
(* answer below is what a question says it proves, of the facts as they are.  *)

Bound(c) ==
  resumer[c.locator].mechanism = c.mechanism /\ resumer[c.locator].task = c.task

LiveAndBound(c)  == Bound(c) /\ resumer[c.locator].is = "live"
EventHappened(c) == Bound(c) /\ resumer[c.locator].is = "fired"

AutomaticContinuation(c) ==
  \E l \in Locators : /\ resumer[l].mechanism \in WorkerBound
                      /\ resumer[l].task = c.task /\ resumer[l].is = "live"

WithinEvidence(c) == c.used <= bounded.used   \* mutant
MatchesEvidence(c) == c.used = bounded.used

\* A continuity reference never points past what the authority has recorded.
PreservesContinuity(p, c) == p.used <= c.used /\ c.used <= bounded.used

Releases(s)   == s \in {"WAITING_EXTERNAL", "BLOCKED", "STALLED"}
IsTerminal(s) == s = "DONE"
-----------------------------------------------------------------------------
(* Disposition against ownership, and what must resume the task later.     *)

\* _validate_pair() without future mechanism, for the state it is given.  What
\* ownership and terminality of a state are never changes.
PairHolds(c, s) ==
  /\ c.mechanism \in Compatible[c.disposition]
  /\ c.disposition = "terminal" <=> IsTerminal(s)
  /\ c.disposition \in {"continue_current", "rotate_resumable"} => ~Releases(s)
  /\ c.disposition \in {"release_waiting", "stop_reinvoke_required"} => Releases(s)

Unverified(c) ==   \* mutant
  c.disposition = "rotate_resumable" => c.locator \in Replacing

\* Of these questions a call asks one about something that changes.
FutureHolds(c) ==
  /\ c.disposition = "stop_reinvoke_required" => ~AutomaticContinuation(c)
  /\ c.mechanism \in WorkerBound => LiveAndBound(c)
  /\ c.disposition = "rotate_resumable" => c.locator \in Replacing
  /\ c.disposition = "release_waiting" /\ c.mechanism = "github_native" => unattended
-----------------------------------------------------------------------------
(* checkpoint_write: one step per question, in the order they are asked.   *)

\* The call goes on to the stage, or raises.
Proceed(w, ok, stage) ==
  /\ call' = [call EXCEPT ![w] = IF ok THEN [@ EXCEPT !.at = stage] ELSE Idle]
  /\ UNCHANGED <<taskVars, chain>>

\* The caller resolves the trusted task.
BeginWrite(w) ==
  /\ call[w].at \in {"idle", "resumed"}
  /\ Len(chain) < MaxCheckpoints
  /\ call' = [call EXCEPT ![w] = [At("lifecycle", NoCheckpoint) EXCEPT
                                   !.trusted = task, !.late = IsTerminal(bounded.state)]]
  /\ UNCHANGED <<taskVars, chain>>

AnyLifecycle(w, c) == c.task = call[w].trusted   \* mutant

\* A snapshot of the trusted coordinates and of the current lifecycle state; the
\* caller may propose any, and every other is rejected here.
IsCurrent(w, c) == c.task = call[w].trusted /\ c.state = bounded.state

CompareLifecycle(w) ==
  /\ call[w].at = "lifecycle"
  /\ \E p \in Proposals, t \in Coordinates, s \in BoundedStates, u \in 0..MaxUsed :
       LET c == [disposition |-> p.disposition, mechanism |-> p.mechanism,
                 locator |-> p.locator, task |-> t, state |-> s, used |-> u]
       IN  /\ IsCurrent(w, c)
           /\ call' = [call EXCEPT ![w].at = "lineage", ![w].snapshot = c,
                                   ![w].trusted = NoCoordinates]
  /\ UNCHANGED <<taskVars, chain>>

ReadPredecessor(w) ==
  /\ call[w].at = "lineage"
  /\ call' = [call EXCEPT ![w].at = "continuity", ![w].predecessor = Latest]
  /\ UNCHANGED <<taskVars, chain>>

\* Without a predecessor the lineage authority must still have none to prove, and
\* then the snapshot is compared with the current retry evidence.
ProveFirst(w) ==
  /\ call[w].at = "continuity" /\ call[w].predecessor = NoCheckpoint
  /\ Proceed(w, chain = <<>>, "first")

CompareFirst(w) ==
  /\ call[w].at = "first"
  /\ Proceed(w, MatchesEvidence(call[w].snapshot), "pair")

CompareWithPredecessor(w) ==
  /\ call[w].at = "continuity" /\ call[w].predecessor # NoCheckpoint
  /\ Proceed(w, PreservesContinuity(call[w].predecessor, call[w].snapshot), "pair")

FreshState(w) == bounded.state   \* mutant

\* The state that was read at first, which the snapshot carries.
StateForPair(w) == call[w].snapshot.state

JudgePair(w) ==
  /\ call[w].at = "pair"
  /\ LET c == call[w].snapshot
     IN  Proceed(w, PairHolds(c, StateForPair(w)) /\ FutureHolds(c), "accepted")

\* The caller records what was accepted; nothing ties it to the predecessor.
Record(w) ==
  /\ call[w].at = "accepted"
  /\ Len(chain) < MaxCheckpoints
  /\ chain' = Append(chain, call[w].snapshot)
  /\ call' = [call EXCEPT ![w] = Idle]
  /\ UNCHANGED taskVars

\* The worker ends before it has recorded the checkpoint.
Abandon(w) ==
  /\ call[w].at = "accepted"
  /\ call' = [call EXCEPT ![w] = Idle]
  /\ UNCHANGED <<taskVars, chain>>
-----------------------------------------------------------------------------
(* resume_read.                                                            *)

\* The presented checkpoint must be the latest and be consistent by itself.
BeginResume(w) ==
  /\ call[w].at = "idle"
  /\ chain # <<>>
  /\ PairHolds(Latest, Latest.state)
  /\ call' = [call EXCEPT ![w] = At("event", Latest)]
  /\ UNCHANGED <<taskVars, chain>>

\* An automatic event or the owner: nothing else resumes a task.
CauseHolds(c) ==
  \/ c.mechanism \in Automatic /\ EventHappened(c)
  \/ c.mechanism = "owner_reinvoke" /\ reinvoked = c

AuthenticateCause(w) ==
  /\ call[w].at = "event"
  /\ Proceed(w, CauseHolds(call[w].snapshot), "transition")

\* What the transition authority makes of the fresh state is its own affair.
ProveTransition(w) ==
  /\ call[w].at = "transition"
  /\ \E proved \in BOOLEAN : Proceed(w, proved, "evidence")

\* Ownership and terminality of the fresh state are asked for last and not used.
CompareEvidence(w) ==
  /\ call[w].at = "evidence"
  /\ call' = [call EXCEPT ![w] =
       IF MatchesEvidence(@.snapshot) THEN At("resumed", NoCheckpoint) ELSE Idle]
  /\ UNCHANGED <<taskVars, chain>>
-----------------------------------------------------------------------------
Environment == MoveTask \/ MoveLifecycle \/ ConsumeRetry \/ OwnerReinvokes
Mechanism(l) == Arm(l) \/ FireOrCancel(l)
Write(w) ==
  \/ BeginWrite(w) \/ CompareLifecycle(w) \/ ReadPredecessor(w)
  \/ ProveFirst(w) \/ CompareFirst(w) \/ CompareWithPredecessor(w)
  \/ JudgePair(w) \/ Record(w) \/ Abandon(w)
Resume(w) ==
  \/ BeginResume(w) \/ AuthenticateCause(w) \/ ProveTransition(w) \/ CompareEvidence(w)

Next ==
  \/ Environment
  \/ \E l \in Locators : Mechanism(l)
  \/ \E w \in Workers : Write(w) \/ Resume(w)

Spec == Init /\ [][Next]_vars
-----------------------------------------------------------------------------
(* Properties.                                                             *)

\* What checkpoint_write accepts of a worker that leaves, resume_read does not
\* refuse when the wake-up comes: the checkpoint is consistent by itself, and when
\* the worker mechanism it names has fired, that is the event it is resumed by.
\* Writer and reader judge at different moments: the lifecycle may move between
\* the questions, the mechanism may fire before the checkpoint is even recorded,
\* and the task may be another by then.  What becomes of the task it names is left
\* to the transition authority; of a cancelled mechanism nothing can be promised.
WakeupIsHeard ==
  \A c \in Range(chain) : c.disposition \notin {"continue_current", "terminal"} =>
    /\ PairHolds(c, c.state)
    /\ c.mechanism \in WorkerBound /\ resumer[c.locator].is = "fired" => CauseHolds(c)

\* Terminality is the bounded authority's: a checkpoint ends the task only when
\* the task is done, however long ago the worker began, and a worker who begins
\* after the task is done gets nothing but a terminal checkpoint accepted.
TerminalityAgrees ==
  /\ \A c \in Range(chain) : c.disposition = "terminal" => bounded.state = "DONE"
  /\ \A w \in Workers :
       call[w].at = "accepted" /\ call[w].late => call[w].snapshot.disposition = "terminal"

\* A worker never resumes on retry evidence that any checkpoint of the lineage
\* goes beyond, although checkpoints validated against the same predecessor may
\* be recorded in either order and the latest may be an older worker's.
Resumes(w) == call[w].at = "evidence" /\ call'[w].at = "resumed"
ResumeResetsNothing ==
  [][\A w \in Workers : Resumes(w) =>
       \A c \in Range(chain) : c.used <= call[w].snapshot.used]_vars
=============================================================================
