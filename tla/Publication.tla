---------------------------- MODULE Publication ----------------------------
(***************************************************************************)
(* Guarded publication of one candidate commit to one task branch.         *)
(*                                                                         *)
(* publish() binds the approved endpoint, reads the branch, preserves the  *)
(* candidate in a recovery bundle, binds the endpoint again, pushes with   *)
(* an expected-old-value lease through the pinned repository, and reads    *)
(* the branch back to classify the outcome.  On a local endpoint each read *)
(* holds Git's own per-ref lock from the observation to the verdict.       *)
(*                                                                         *)
(* Each publisher is one invocation; a retry is another publisher with the *)
(* same candidate.  Other Git clients, processes that bypass Git, work in  *)
(* the same worktree, and operators who move repositories or remove lock   *)
(* files interfere.                                                        *)
(***************************************************************************)
EXTENDS Naturals, FiniteSets

CONSTANTS
  Publishers,     \* invocations of publish()
  Repos,          \* repositories (filesystem identities) that exist
  Shas,           \* commits
  Candidate,      \* per publisher, the exact commit to publish
  Expected,       \* per publisher, the expected remote head
  Bundle,         \* per publisher, its recovery bundle path
  Ancestors,      \* per commit, its ancestors and itself
  Endpoints,      \* kinds of approved endpoint: TRUE is a local filesystem path
  Interference,   \* which outside actors an instance has
  MaxChanges,     \* bound on their changes
  Absent,         \* no such ref, no such file
  Free            \* the ref lock is not held

Actors == {"git", "raw", "swap", "unlock", "work"}
Paths  == {Bundle[p] : p \in Publishers}

ASSUME PublisherAssumption ==
  /\ Candidate \in [Publishers -> Shas]
  /\ Expected \in [Publishers -> Shas]
  /\ DOMAIN Bundle = Publishers
  /\ Ancestors \in [Shas -> SUBSET Shas]
  /\ \A s \in Shas : s \in Ancestors[s]
ASSUME EndpointAssumption ==
  /\ Endpoints \subseteq BOOLEAN /\ Endpoints # {}
  /\ Interference \subseteq Actors
  /\ MaxChanges \in Nat
  /\ Absent \notin Shas
  /\ Free \notin Publishers

VARIABLES
  local,     \* is the approved endpoint a local filesystem path?
  endpoint,  \* repository the approved path or URL leads to
  ref,       \* the task branch in every repository: value and storage identity
  lock,      \* holder of <ref>.lock in every repository
  temp,      \* contents of <bundle>.tmp per path: the head it advertises
  bundle,    \* contents of the recovery bundle per path
  inflight,  \* pushes a receive-pack has not finished
  changes,   \* number of outside changes so far
  pc, phase, bound, seen, verdict, result,
  \* history
  sent,      \* publishers that have started their push
  landed,    \* pushes that were applied: by whom, where, over which value
  ever       \* values the branch of every repository ever had

world == <<endpoint, ref, lock, changes, ever>>
vars  == <<local, endpoint, ref, lock, temp, bundle, inflight, changes,
           pc, phase, bound, seen, verdict, result, sent, landed, ever>>
-----------------------------------------------------------------------------
Reading  == {"lock", "observe", "verify", "reverify", "unlock", "read"}
Keeping  == {"paths", "write", "check", "replace"}
Active   == Reading \cup Keeping \cup {"rebind", "pin", "push", "pushing", "revalidate"}
Verdicts == {"none", "published", "notPublished", "drift", "error", "escape"}
Results  == {"none", "already", "published", "notPublished", "drift",
             "ambiguous", "blocked", "escaped", "crashed"}
Ref      == [value: Shas \cup {Absent}, file: Nat]

TypeOK ==
  /\ local \in Endpoints
  /\ endpoint \in Repos
  /\ ref \in [Repos -> Ref]
  /\ lock \in [Repos -> Publishers \cup {Free}]
  /\ temp \in [Paths -> Shas \cup {Absent}]
  /\ bundle \in [Paths -> Shas \cup {Absent}]
  /\ inflight \subseteq Publishers
  /\ changes \in Nat
  /\ pc \in [Publishers -> Active \cup {"idle", "ended"}]
  /\ phase \in [Publishers -> {"preflight", "readback"}]
  /\ bound \in [Publishers -> Repos]
  /\ seen \in [Publishers -> Ref]
  /\ verdict \in [Publishers -> Verdicts]
  /\ result \in [Publishers -> Results]
  /\ sent \subseteq Publishers
  /\ landed \subseteq [by: Publishers, in: Repos, over: Shas \cup {Absent}]
  /\ ever \in [Repos -> SUBSET (Shas \cup {Absent})]

Init ==
  /\ local \in Endpoints
  /\ endpoint \in Repos
  /\ ref \in [Repos -> [value: Shas, file: {0}]]
  /\ lock = [r \in Repos |-> Free]
  /\ temp = [path \in Paths |-> Absent]
  /\ bundle = [path \in Paths |-> Absent]
  /\ inflight = {}
  /\ changes = 0
  /\ pc = [p \in Publishers |-> "idle"]
  /\ phase = [p \in Publishers |-> "preflight"]
  /\ bound = [p \in Publishers |-> endpoint]
  /\ seen = [p \in Publishers |-> ref[endpoint]]
  /\ verdict = [p \in Publishers |-> "none"]
  /\ result = [p \in Publishers |-> "none"]
  /\ sent = {}
  /\ landed = {}
  /\ ever = [r \in Repos |-> {ref[r].value}]
-----------------------------------------------------------------------------
(* Outside actors.                                                         *)

Change(who) ==
  /\ who \in Interference
  /\ changes < MaxChanges
  /\ changes' = changes + 1
  /\ UNCHANGED <<temp, bundle, inflight, pc, phase, bound, seen, verdict, result, sent, landed>>

Store(r, s, file) ==
  /\ ref' = [ref EXCEPT ![r] = [value |-> s, file |-> file]]
  /\ ever' = [ever EXCEPT ![r] = @ \cup {s}]

\* Another Git client updates or deletes the branch: it respects the lock and
\* replaces the storage of the ref.
GitWrite(r) ==
  /\ Change("git")
  /\ lock[r] = Free
  /\ \E s \in Shas \cup {Absent} : Store(r, s, ref[r].file + 1)
  /\ UNCHANGED <<endpoint, lock>>

\* A process that bypasses Git edits, replaces or removes the ref's storage.
RawWrite(r) ==
  /\ Change("raw")
  /\ \E s \in Shas \cup {Absent}, k \in {0, 1} : Store(r, s, ref[r].file + k)
  /\ UNCHANGED <<endpoint, lock>>

\* Another repository is moved to the approved path.
SwapEndpoint(r) ==
  /\ Change("swap")
  /\ local
  /\ r # endpoint
  /\ endpoint' = r
  /\ UNCHANGED <<ref, lock, ever>>

\* An operator removes a lock file that looks stale.
BreakLock(r) ==
  /\ Change("unlock")
  /\ lock[r] # Free
  /\ lock' = [lock EXCEPT ![r] = Free]
  /\ UNCHANGED <<endpoint, ref, ever>>

Outside == \E r \in Repos : GitWrite(r) \/ RawWrite(r) \/ SwapEndpoint(r) \/ BreakLock(r)
-----------------------------------------------------------------------------
(* Control of one invocation.                                              *)

Goto(p, there) == pc' = [pc EXCEPT ![p] = there] /\ UNCHANGED result

End(p, r) ==
  /\ pc' = [pc EXCEPT ![p] = "ended"]
  /\ result' = [result EXCEPT ![p] = r]

ErrorResult(p) == IF phase[p] = "preflight" THEN "blocked" ELSE "ambiguous"

\* A PublicationError.  publish() turns one raised after the second binding
\* into an ambiguous outcome.
Raise(p) == End(p, ErrorResult(p))

\* Any other exception, which neither publish() nor main() handles: output of
\* git that does not decode, a working directory or a file that is gone.
Escape(p) == End(p, "escaped")
Fail(p) == Raise(p) \/ Escape(p)

Read(p) == IF local THEN "lock" ELSE "read"

\* The device and inode of the endpoint, of its Git directory and of the common
\* directory are those bound first.
SameEndpoint(p) == endpoint = bound[p]

FastForward(p) == Expected[p] \in Ancestors[Candidate[p]]

\* Resolve and bind the endpoint, then the local preconditions: checked-out
\* branch and HEAD, clean worktree, fast-forward ancestry.
BindEndpoint(p) ==
  /\ pc[p] = "idle"
  /\ bound' = [bound EXCEPT ![p] = endpoint]
  /\ \/ FastForward(p) /\ Goto(p, Read(p))
     \/ Fail(p)
  /\ UNCHANGED <<world, temp, bundle, inflight, phase, seen, verdict, sent, landed>>
-----------------------------------------------------------------------------
(* The stable read of a local endpoint, under the ref lock.                *)

AnyAdvance(p, s) == IF s = Expected[p] THEN "notPublished" ELSE "published"   \* mutant
Classify(p, s) ==
  IF s = Candidate[p] THEN "published"
  ELSE IF s = Expected[p] THEN "notPublished" ELSE "drift"

ReuseLockFile(p) == TRUE   \* mutant: the lock file is opened without O_EXCL
LockAvailable(p) == lock[bound[p]] = Free

\* The first read opens the endpoint path again and requires the bound
\* identity; the read-back uses the handles pinned before the push.
AcquireLock(p) ==
  /\ pc[p] = "lock"
  /\ phase[p] = "preflight" => SameEndpoint(p)
  /\ LockAvailable(p)
  /\ lock' = [lock EXCEPT ![bound[p]] = p]
  /\ Goto(p, "observe")

WaitForLock(p) ==   \* mutant: a held lock is waited for
  /\ AcquireLock(p)
  /\ UNCHANGED <<endpoint, ref, changes, ever, temp, bundle, inflight, phase, bound,
                 seen, verdict, sent, landed>>

\* A lock that is held, or any other failure to open, fails closed; the branch
\* name is checked by git before.
LockRef(p) ==
  /\ \/ AcquireLock(p)
     \/ pc[p] = "lock" /\ Fail(p) /\ UNCHANGED lock
  /\ UNCHANGED <<endpoint, ref, changes, ever, temp, bundle, inflight, phase, bound,
                 seen, verdict, sent, landed>>

Under(p, v, there) ==
  /\ verdict' = [verdict EXCEPT ![p] = v]
  /\ Goto(p, there)
  /\ UNCHANGED <<world, temp, bundle, inflight, phase, bound, sent, landed>>

\* Whatever is raised under the lock passes its release first.
FailUnder(p) == \E v \in {"error", "escape"} : Under(p, v, "unlock")

\* ls-remote and the pinned ref must agree; what is read is pinned.
ObserveRef(p) ==
  /\ pc[p] = "observe"
  /\ \/ /\ ref[bound[p]].value # Absent
        /\ seen' = [seen EXCEPT ![p] = ref[bound[p]]]
        /\ Under(p, "none", "verify")
     \/ FailUnder(p) /\ UNCHANGED seen

Pinned(p) == ref[bound[p]] = seen[p]

\* Endpoint identity, ref hierarchy and pinned storage are verified, then the
\* value is classified.  The pinned file is opened again by name, here and once
\* more after the verdict: when it is gone, the FileNotFoundError escapes.
VerifyRef(p) ==
  /\ pc[p] = "verify"
  /\ \/ /\ SameEndpoint(p) /\ Pinned(p)
        /\ Under(p, Classify(p, seen[p].value), "reverify")
     \/ FailUnder(p)
  /\ UNCHANGED seen

ReverifyRef(p) ==
  /\ pc[p] = "reverify"
  /\ \/ Pinned(p) /\ Under(p, verdict[p], "unlock")
     \/ FailUnder(p)
  /\ UNCHANGED seen

SkipBundle(p) == "rebind"   \* mutant: the push does not wait for a recovery bundle
AfterNotPublished(p) == "paths"

\* What publish() does with the verdict of a read.
Conclude(p, v) ==
  CASE v = "error"  -> Raise(p)
    [] v = "escape" -> Escape(p)
    [] v \notin {"error", "escape"} /\ phase[p] = "readback" -> End(p, v)
    [] v = "published" /\ phase[p] = "preflight" -> End(p, "already")
    [] v = "drift" /\ phase[p] = "preflight" -> Raise(p)
    [] v = "notPublished" /\ phase[p] = "preflight" -> Goto(p, AfterNotPublished(p))

KeepOnError(p) == IF verdict[p] = "error" THEN lock[bound[p]] ELSE Free   \* mutant
LockAfter(p) == Free

\* The lock file is unlinked by name, whatever happened; when it is not there
\* any more the FileNotFoundError escapes.
UnlockRef(p) ==
  /\ pc[p] = "unlock"
  /\ IF lock[bound[p]] = Free THEN Escape(p) /\ UNCHANGED lock
     ELSE /\ lock' = [lock EXCEPT ![bound[p]] = LockAfter(p)]
          /\ Conclude(p, verdict[p])
  /\ UNCHANGED <<endpoint, ref, changes, ever, temp, bundle, inflight, phase, bound,
                 seen, verdict, sent, landed>>

\* A remote endpoint is read once, with ls-remote; no lock, no identity.
ReadRemote(p) ==
  /\ pc[p] = "read"
  /\ \/ /\ ref[endpoint].value # Absent
        /\ Conclude(p, Classify(p, ref[endpoint].value))
     \/ Fail(p)
  /\ UNCHANGED <<world, temp, bundle, inflight, phase, bound, seen, verdict, sent, landed>>
-----------------------------------------------------------------------------
(* The recovery bundle.                                                    *)

Keep(p) == UNCHANGED <<world, inflight, phase, bound, seen, verdict, sent, landed>>

\* finally: a temporary file that exists is removed.
FailAndClean(p) ==
  /\ Fail(p)
  /\ temp' = [temp EXCEPT ![Bundle[p]] = Absent]
  /\ UNCHANGED bundle

\* The parent directory is made; neither the bundle nor its temporary file may
\* exist.
CheckPaths(p) ==
  /\ pc[p] = "paths"
  /\ \/ bundle[Bundle[p]] = Absent /\ temp[Bundle[p]] = Absent /\ Goto(p, "write")
     \/ Fail(p)
  /\ UNCHANGED <<temp, bundle>>
  /\ Keep(p)

\* git packs what the local branch is now, which work in the worktree may have
\* moved since it was compared with the candidate; it packs no empty range.
LocalHeads(p) ==
  (IF "work" \in Interference THEN Shas ELSE {Candidate[p]}) \ Ancestors[Expected[p]]

WriteBundle(p) ==
  /\ pc[p] = "write"
  /\ \/ /\ \E s \in LocalHeads(p) : temp' = [temp EXCEPT ![Bundle[p]] = s]
        /\ Goto(p, "check")
        /\ UNCHANGED bundle
     \/ FailAndClean(p)
  /\ Keep(p)

AnyHead(p) == temp[Bundle[p]] # Absent   \* mutant: bundle verify alone
Advertises(p) == temp[Bundle[p]] = Candidate[p]

\* bundle verify, and list-heads must advertise the candidate.
CheckBundle(p) ==
  /\ pc[p] = "check"
  /\ \/ Advertises(p) /\ Goto(p, "replace") /\ UNCHANGED <<temp, bundle>>
     \/ FailAndClean(p)
  /\ Keep(p)

\* Digest and rename; a temporary file that is gone raises an OSError.
ReplaceBundle(p) ==
  /\ pc[p] = "replace"
  /\ temp' = [temp EXCEPT ![Bundle[p]] = Absent]
  /\ IF temp[Bundle[p]] = Absent THEN Escape(p) /\ UNCHANGED bundle
     ELSE /\ bundle' = [bundle EXCEPT ![Bundle[p]] = temp[Bundle[p]]]
          /\ Goto(p, "rebind")
  /\ Keep(p)
-----------------------------------------------------------------------------
(* The push.                                                               *)

Rest(p) == UNCHANGED <<world, temp, bundle, bound, seen, verdict, landed>>

\* The second binding must equal the first; from here on a PublicationError is
\* reported as ambiguous, and any other exception still escapes.
RebindEndpoint(p) ==
  /\ pc[p] = "rebind"
  /\ \/ /\ SameEndpoint(p)
        /\ Goto(p, IF local THEN "pin" ELSE "push")
        /\ phase' = [phase EXCEPT ![p] = "readback"]
     \/ Fail(p) /\ UNCHANGED phase
  /\ UNCHANGED <<inflight, sent>>
  /\ Rest(p)

\* Git and common directory are opened and must be the bound ones.
PinEndpoint(p) ==
  /\ pc[p] = "pin"
  /\ \/ SameEndpoint(p) /\ Goto(p, "push")
     \/ Raise(p)
  /\ UNCHANGED <<phase, inflight, sent>>
  /\ Rest(p)

\* git push is started, unless its working directory is gone.
SendPush(p) ==
  /\ pc[p] = "push"
  /\ \/ /\ Goto(p, "pushing")
        /\ inflight' = inflight \cup {p}
        /\ sent' = sent \cup {p}
     \/ Escape(p) /\ UNCHANGED <<inflight, sent>>
  /\ UNCHANGED phase
  /\ Rest(p)

PushByPath(p) == endpoint   \* mutant: the push operand is the approved path
PushTarget(p) == IF local THEN bound[p] ELSE endpoint

NoLease(p) == TRUE   \* mutant: plain forced update
LeaseHolds(p) == ref[PushTarget(p)].value = Expected[p]

\* receive-pack updates the ref under its lock, if the lease still holds.
PushApplies(p) ==
  /\ p \in inflight
  /\ lock[PushTarget(p)] = Free
  /\ LeaseHolds(p)
  /\ inflight' = inflight \ {p}
  /\ landed' = landed \cup {[by |-> p, in |-> PushTarget(p), over |-> ref[PushTarget(p)].value]}
  /\ Store(PushTarget(p), Candidate[p], ref[PushTarget(p)].file + 1)
  /\ UNCHANGED <<endpoint, lock, changes, temp, bundle, pc, phase, bound, seen,
                 verdict, result, sent>>

\* Lease lost, lock held, refused by the server, or never arrived.
PushFails(p) ==
  /\ p \in inflight
  /\ inflight' = inflight \ {p}
  /\ UNCHANGED <<world, temp, bundle, pc, phase, bound, seen, verdict, result, sent, landed>>

AtAnyMoment(p) == TRUE   \* mutant: git push is abandoned while it runs
ClientMayReturn(p) == local => p \notin inflight

\* git push exits, with any status: a local receive-pack is its child, while
\* the connection to a remote one can be lost at any moment.  Its output is
\* decoded then, strictly: what a hook or server wrote may not be text.
PushReturns(p) ==
  /\ pc[p] = "pushing"
  /\ ClientMayReturn(p)
  /\ Goto(p, "revalidate") \/ Escape(p)
  /\ UNCHANGED <<phase, inflight, sent>>
  /\ Rest(p)

\* The endpoint must still be the bound one before it is read back.
Revalidate(p) ==
  /\ pc[p] = "revalidate"
  /\ \/ SameEndpoint(p) /\ Goto(p, Read(p))
     \/ Fail(p)
  /\ UNCHANGED <<phase, inflight, sent>>
  /\ Rest(p)

\* The process is killed: lock and temporary file stay behind.
Crash(p) ==
  /\ pc[p] \in Active
  /\ End(p, "crashed")
  /\ UNCHANGED <<world, temp, bundle, inflight, phase, bound, seen, verdict, sent, landed>>
-----------------------------------------------------------------------------
StableRead(p) == LockRef(p) \/ ObserveRef(p) \/ VerifyRef(p) \/ ReverifyRef(p) \/ UnlockRef(p)
Preserve(p) == CheckPaths(p) \/ WriteBundle(p) \/ CheckBundle(p) \/ ReplaceBundle(p)
Push(p) == RebindEndpoint(p) \/ PinEndpoint(p) \/ SendPush(p) \/ PushReturns(p) \/ Revalidate(p)
Publish(p) == BindEndpoint(p) \/ StableRead(p) \/ ReadRemote(p) \/ Preserve(p) \/ Push(p)
ReceivePack(p) == PushApplies(p) \/ PushFails(p)

Next ==
  /\ Outside \/ \E p \in Publishers : Publish(p) \/ ReceivePack(p) \/ Crash(p)
  /\ UNCHANGED local

Spec == Init /\ [][Next]_vars

\* The process runs, and the git commands it starts end: _run_git() sets no
\* timeout, so this is assumed and not provided by the code.
Fairness ==
  \A p \in Publishers : /\ WF_vars(Publish(p) /\ UNCHANGED local)
                        /\ WF_vars(ReceivePack(p) /\ UNCHANGED local)
FairSpec == Spec /\ Fairness
-----------------------------------------------------------------------------
(* Properties *)

\* ALREADY_PUBLISHED and PUBLISHED are only reported when the approved
\* repository, not one moved to its path, has held the candidate.
PublishedIsTrue ==
  \A p \in Publishers :
    result[p] \in {"already", "published"} => Candidate[p] \in ever[bound[p]]

\* While the ref lock is held, the verdict describes the branch of the
\* approved repository as it is, not as it was: no Git client can restore the
\* predecessor between the last observation and the decision.
VerdictIsCurrent ==
  \A p \in Publishers :
    pc[p] = "unlock" /\ verdict[p] \in {"published", "notPublished", "drift"}
      => verdict[p] = Classify(p, ref[bound[p]].value)

\* A push changes only the repository that was approved, however often the
\* path is pointed elsewhere meanwhile.
LandsWhereApproved == \A l \in landed : l.in = bound[l.by]

\* No publisher erases a commit: what its push replaces is an ancestor of its
\* candidate, for rival publishers and other Git clients alike.
NothingOverwritten == \A l \in landed : l.over \in Ancestors[Candidate[l.by]]

\* Before a push starts, the recovery bundle holds the candidate, and it stays
\* there whatever becomes of the push.
BundleBeforePush == \A p \in sent : bundle[Bundle[p]] = Candidate[p]

\* BLOCKED means that nothing was sent; a push that may have had an effect is
\* never reported as blocked, nor as found already published.
BlockedMeansUntouched == \A p \in Publishers : result[p] \in {"blocked", "already"} => p \notin sent

\* Only a killed process leaves its lock behind: a failing check does not, nor
\* an exception that nothing handles.
LocksReleased ==
  \A p \in Publishers : result[p] \notin {"none", "crashed"} => \A r \in Repos : lock[r] # p

\* A push whose result cannot be read is reported as one of the outcomes of
\* the policy: published, not published, drift or ambiguous.
EveryPushIsClassified ==
  \A p \in sent :
    result[p] \in {"none", "crashed", "published", "notPublished", "drift", "ambiguous"}

\* Publication implements the guarded update: the reads, the ref lock, the push
\* and its late application, crashes and everybody else's writes are steps of
\* GuardedUpdate.  Nobody may bypass the ref lock.
Update == INSTANCE GuardedUpdate WITH
  branch  <- [r \in Repos |-> ref[r].value],
  home    <- [p \in Publishers |-> IF pc[p] = "idle" THEN Absent ELSE bound[p]],
  applied <- {l.by : l \in landed},
  told    <- result

\* What publish() tells is true when it is told, its update is applied at most
\* once, over the expected value of the approved branch, and on a local endpoint
\* never after the answer, nor after an exception that escapes.
KeepsUpdate == Update!UpdateSpec

\* Every invocation ends: a lock left behind by a killed process blocks the
\* next one, it does not hang it.
PublishEnds == \A p \in Publishers : pc[p] # "idle" ~> pc[p] = "ended"
=============================================================================
