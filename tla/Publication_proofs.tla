--------------------------- MODULE Publication_proofs ---------------------------
(***************************************************************************)
(* Proofs about guarded publication, for every number of invocations,      *)
(* repositories and commits, over local and remote endpoints, with every   *)
(* outside actor unless a theorem says otherwise.                          *)
(***************************************************************************)
EXTENDS Publication, TLAPS

Heads == {"published", "notPublished", "drift"}

\* A read that ends has a verdict.
ReadInv ==
  \A p \in Publishers : /\ pc[p] = "reverify" => verdict[p] \in Heads
                        /\ pc[p] = "unlock" => verdict[p] \in Verdicts \ {"none"}

LEMMA ClassifyIsHead ==
  ASSUME NEW p, NEW s
  PROVE  Classify(p, s) \in Heads /\ (Classify(p, s) = "published" => s = Candidate[p])
BY DEF Classify, Heads

\* The alternatives of a verdict.
LEMMA ConcludeCases ==
  ASSUME NEW p \in Publishers, NEW v \in Verdicts \ {"none"}, phase[p] \in {"preflight", "readback"},
         Conclude(p, v)
  PROVE  \/ v \in {"error", "drift"} /\ Raise(p)
         \/ v = "escape" /\ Escape(p)
         \/ v \in Heads /\ phase[p] = "readback" /\ End(p, v)
         \/ v = "published" /\ phase[p] = "preflight" /\ End(p, "already")
         \/ v = "notPublished" /\ phase[p] = "preflight" /\ Goto(p, "paths")
<1> USE DEF Conclude
<1>1. CASE v = "error"
  BY <1>1, Zenon
<1>2. CASE v = "escape"
  BY <1>2, Zenon
<1>3. CASE v \notin {"error", "escape"} /\ phase[p] = "readback"
  <2>1. v \in Heads
    BY <1>3 DEF Verdicts, Heads
  <2>2. End(p, v)
    BY <1>3, Zenon
  <2> QED BY <1>3, <2>1, <2>2
<1>4. CASE v \notin {"error", "escape"} /\ phase[p] = "preflight"
  <2>1. CASE v = "published"
    BY <1>4, <2>1, Zenon
  <2>2. CASE v = "drift"
    BY <1>4, <2>2, Zenon
  <2>3. CASE v = "notPublished"
    BY <1>4, <2>3, Zenon DEF AfterNotPublished
  <2> QED BY <1>4, <2>1, <2>2, <2>3 DEF Verdicts
<1> QED BY <1>1, <1>2, <1>3, <1>4

\* A publisher goes on or ends.
LEMMA GoesOnOrEnds ==
  ASSUME TypeOK, NEW p \in Publishers
  PROVE  /\ \A there \in Active : Goto(p, there) =>
              pc' \in [Publishers -> Active \cup {"idle", "ended"}] /\ result' \in [Publishers -> Results]
         /\ \A r \in Results : End(p, r) =>
              pc' \in [Publishers -> Active \cup {"idle", "ended"}] /\ result' \in [Publishers -> Results]
         /\ Fail(p) =>
              pc' \in [Publishers -> Active \cup {"idle", "ended"}] /\ result' \in [Publishers -> Results]
         /\ Read(p) \in Active
<1>1. ASSUME NEW there \in Active, Goto(p, there)
      PROVE  pc' \in [Publishers -> Active \cup {"idle", "ended"}] /\ result' \in [Publishers -> Results]
  BY <1>1 DEF TypeOK, Goto
<1>2. ASSUME NEW r \in Results, End(p, r)
      PROVE  pc' \in [Publishers -> Active \cup {"idle", "ended"}] /\ result' \in [Publishers -> Results]
  BY <1>2 DEF TypeOK, End
<1>3. ErrorResult(p) \in Results /\ "escaped" \in Results
  BY DEF ErrorResult, Results
<1>4. Read(p) \in Active
  BY DEF Read, Active, Reading
<1> QED BY <1>1, <1>2, <1>3, <1>4 DEF Fail, Raise, Escape

-----------------------------------------------------------------------------
(* Types.                                                                  *)

LEMMA TypeStep == TypeOK /\ ReadInv /\ [Next]_vars => TypeOK'
<1> SUFFICES ASSUME TypeOK, ReadInv, [Next]_vars PROVE TypeOK'
  OBVIOUS
<1> DEFINE Control == /\ pc \in [Publishers -> Active \cup {"idle", "ended"}]
                      /\ result \in [Publishers -> Results]
<1> USE PublisherAssumption, EndpointAssumption
<1> USE DEF TypeOK
<1>0. CASE UNCHANGED vars
  BY <1>0 DEF vars
<1>1. ASSUME NEW r \in Repos, GitWrite(r) \/ RawWrite(r), UNCHANGED local PROVE TypeOK'
  <2>1. PICK s \in Shas \cup {Absent}, n \in Nat : Store(r, s, n)
    BY <1>1 DEF GitWrite, RawWrite, Ref
  <2>2. ref' \in [Repos -> Ref] /\ ever' \in [Repos -> SUBSET (Shas \cup {Absent})]
    BY <2>1 DEF Store, Ref
  <2> QED BY <1>1, <2>2 DEF GitWrite, RawWrite, Change
<1>2. ASSUME NEW r \in Repos, SwapEndpoint(r) \/ BreakLock(r), UNCHANGED local PROVE TypeOK'
  BY <1>2 DEF SwapEndpoint, BreakLock, Change
<1>3. ASSUME NEW p \in Publishers, BindEndpoint(p), UNCHANGED local PROVE TypeOK'
  <2>1. Control'
    BY <1>3, GoesOnOrEnds DEF BindEndpoint
  <2> QED BY <1>3, <2>1 DEF BindEndpoint, world
<1>4. ASSUME NEW p \in Publishers, LockRef(p), UNCHANGED local PROVE TypeOK'
  <2>1. Control'
    BY <1>4, GoesOnOrEnds DEF LockRef, AcquireLock, Active, Reading
  <2>2. lock' \in [Repos -> Publishers \cup {Free}]
    BY <1>4 DEF LockRef, AcquireLock
  <2> QED BY <1>4, <2>1, <2>2 DEF LockRef
<1>5. ASSUME NEW p \in Publishers, ObserveRef(p), UNCHANGED local PROVE TypeOK'
  <2>1. PICK v \in Verdicts, there \in {"verify", "unlock"} : Under(p, v, there)
    <3> HIDE DEF TypeOK
    <3> QED BY <1>5 DEF ObserveRef, FailUnder, Verdicts
  <2>2. Control' /\ verdict' \in [Publishers -> Verdicts]
    BY <2>1, GoesOnOrEnds DEF Under, Active, Reading
  <2>3. seen' \in [Publishers -> Ref]
    BY <1>5 DEF ObserveRef
  <2> QED BY <1>5, <2>1, <2>2, <2>3 DEF ObserveRef, FailUnder, Under, world
<1>6. ASSUME NEW p \in Publishers, VerifyRef(p) \/ ReverifyRef(p), UNCHANGED local PROVE TypeOK'
  <2>1. PICK v \in Verdicts, there \in {"reverify", "unlock"} : Under(p, v, there)
    <3>1. verdict[p] \in Verdicts
      OBVIOUS
    <3> HIDE DEF TypeOK
    <3>2. CASE VerifyRef(p)
      BY <3>2, ClassifyIsHead DEF VerifyRef, FailUnder, Heads, Verdicts
    <3>3. CASE ReverifyRef(p)
      BY <3>1, <3>3 DEF ReverifyRef, FailUnder, Verdicts
    <3> QED BY <1>6, <3>2, <3>3
  <2>2. Control' /\ verdict' \in [Publishers -> Verdicts]
    BY <2>1, GoesOnOrEnds DEF Under, Active, Reading
  <2> QED BY <1>6, <2>1, <2>2 DEF VerifyRef, ReverifyRef, FailUnder, Under, world
<1>7. ASSUME NEW p \in Publishers, NEW v \in Verdicts \ {"none"}, Conclude(p, v)
      PROVE  Control'
  <2>1. \/ Fail(p)
        \/ \E r \in {"already"} \cup Heads : End(p, r)
        \/ Goto(p, "paths")
    BY <1>7, ConcludeCases DEF TypeOK, Fail
  <2>2. {"already"} \cup Heads \subseteq Results /\ "paths" \in Active
    BY DEF Heads, Results, Active, Keeping
  <2> QED BY <2>1, <2>2, GoesOnOrEnds
<1>8. ASSUME NEW p \in Publishers, UnlockRef(p), UNCHANGED local PROVE TypeOK'
  <2>1. pc[p] = "unlock" /\ verdict[p] \in Verdicts \ {"none"}
    BY <1>8 DEF UnlockRef, ReadInv
  <2>2. Control'
    BY <1>7, <1>8, <2>1, GoesOnOrEnds DEF UnlockRef, Fail
  <2>3. lock' \in [Repos -> Publishers \cup {Free}]
    BY <1>8 DEF UnlockRef, LockAfter
  <2> QED BY <1>8, <2>2, <2>3 DEF UnlockRef
<1>9. ASSUME NEW p \in Publishers, ReadRemote(p), UNCHANGED local PROVE TypeOK'
  <2>1. Control'
    BY <1>7, <1>9, ClassifyIsHead, GoesOnOrEnds DEF ReadRemote, Heads, Verdicts
  <2> QED BY <1>9, <2>1 DEF ReadRemote, world
<1>10. ASSUME NEW p \in Publishers, Preserve(p), UNCHANGED local PROVE TypeOK'
  <2>1. Control'
    BY <1>10, GoesOnOrEnds DEF Preserve, CheckPaths, WriteBundle, CheckBundle, ReplaceBundle, FailAndClean,
                               Fail, Active, Keeping
  <2>2. Bundle[p] \in Paths
    BY DEF Paths
  <2>3. temp' \in [Paths -> Shas \cup {Absent}] /\ bundle' \in [Paths -> Shas \cup {Absent}]
    <3>1. CASE CheckPaths(p) \/ WriteBundle(p)
      BY <2>2, <3>1 DEF CheckPaths, WriteBundle, LocalHeads, FailAndClean
    <3>2. CASE CheckBundle(p) \/ ReplaceBundle(p)
      BY <2>2, <3>2 DEF CheckBundle, ReplaceBundle, FailAndClean
    <3> QED BY <1>10, <3>1, <3>2 DEF Preserve
  <2>4. UNCHANGED <<world, inflight, phase, bound, seen, verdict, sent, landed>>
    BY <1>10 DEF Preserve, CheckPaths, WriteBundle, CheckBundle, ReplaceBundle, Keep
  <2> QED BY <1>10, <2>1, <2>3, <2>4 DEF world
<1>11. ASSUME NEW p \in Publishers, Push(p), UNCHANGED local PROVE TypeOK'
  <2>1. Control'
    BY <1>11, GoesOnOrEnds DEF Push, RebindEndpoint, PinEndpoint, SendPush, PushReturns, Revalidate, Fail, Active
  <2>2. /\ phase' \in [Publishers -> {"preflight", "readback"}]
        /\ inflight' \subseteq Publishers /\ sent' \subseteq Publishers
    BY <1>11 DEF Push, RebindEndpoint, PinEndpoint, SendPush, PushReturns, Revalidate
  <2>3. Rest(p)
    BY <1>11 DEF Push, RebindEndpoint, PinEndpoint, SendPush, PushReturns, Revalidate
  <2> QED BY <1>11, <2>1, <2>2, <2>3 DEF Rest, world
<1>12. ASSUME NEW p \in Publishers, PushApplies(p), UNCHANGED local PROVE TypeOK'
  <2>1. PushTarget(p) \in Repos
    BY DEF PushTarget
  <2>2. ref' \in [Repos -> Ref] /\ ever' \in [Repos -> SUBSET (Shas \cup {Absent})]
    BY <1>12, <2>1 DEF PushApplies, Store, Ref
  <2>3. landed' \subseteq [by: Publishers, in: Repos, over: Shas \cup {Absent}]
    BY <1>12, <2>1 DEF PushApplies, Ref
  <2> QED BY <1>12, <2>2, <2>3 DEF PushApplies
<1>13. ASSUME NEW p \in Publishers, PushFails(p) \/ Crash(p), UNCHANGED local PROVE TypeOK'
  <2>1. Control'
    BY <1>13, GoesOnOrEnds DEF PushFails, Crash, Results
  <2> QED BY <1>13, <2>1 DEF PushFails, Crash, world
<1> QED
  BY <1>0, <1>1, <1>2, <1>3, <1>4, <1>5, <1>6, <1>8, <1>9, <1>10, <1>11, <1>12, <1>13
  DEF Next, Outside, Publish, StableRead, ReceivePack
-----------------------------------------------------------------------------
(* The parts of the invariant.                                             *)

Fit(p) == Expected[p] \in Ancestors[Candidate[p]]

\* Who pushes has bound the endpoint it was approved for, and is past the
\* fast-forward check.
Sender(p) ==
  /\ (pc[p] \notin {"idle", "ended"} \/ p \in inflight) => Fit(p)
  /\ p \in inflight => p \in sent
  /\ pc[p] = "read" => ~local
  /\ pc[p] \in {"pin", "push", "pushing", "revalidate"} => phase[p] = "readback"
  /\ p \in sent => phase[p] = "readback" /\ pc[p] # "idle"

SendInv ==
  /\ ~local => \A p \in Publishers : bound[p] = endpoint
  /\ \A p \in Publishers : Sender(p)
  /\ \A l \in landed : /\ l.by \in sent /\ l.in = bound[l.by]
                       /\ l.over = Expected[l.by] /\ Fit(l.by)

\* What is reported has been so.
Reporter(p) ==
  /\ pc[p] = "idle" => verdict[p] = "none"
  /\ pc[p] # "ended" => result[p] = "none"
  /\ verdict[p] = "published" => Candidate[p] \in ever[bound[p]]
  /\ result[p] \in {"already", "published"} => Candidate[p] \in ever[bound[p]]
  /\ result[p] \in {"already", "blocked"} => p \notin sent

HeadInv ==
  /\ \A r \in Repos : ref[r].value \in ever[r]
  /\ \A p \in Publishers : Reporter(p)

\* A lock is held by the read that took it, or by a killed process.
Holding == {"observe", "verify", "reverify", "unlock"}
LockInv ==
  \A r \in Repos, p \in Publishers :
    lock[r] = p => result[p] = "crashed" \/ (r = bound[p] /\ pc[p] \in Holding)

Inv == TypeOK /\ ReadInv /\ SendInv /\ HeadInv /\ LockInv

LEMMA InitInv == Init => Inv
<1> SUFFICES ASSUME Init PROVE Inv
  OBVIOUS
<1> USE PublisherAssumption, EndpointAssumption DEF Init
<1>1. TypeOK
  BY DEF TypeOK, Ref, Active, Verdicts, Results
<1>2. ReadInv /\ SendInv /\ HeadInv
  BY DEF ReadInv, SendInv, Sender, HeadInv, Reporter
<1>3. LockInv
  BY DEF LockInv
<1> QED BY <1>1, <1>2, <1>3 DEF Inv

\* An outside change leaves every invocation alone, and the lock to its holder.
LEMMA OutsideFrame ==
  ASSUME TypeOK, Outside, UNCHANGED local
  PROVE  /\ UNCHANGED <<local, temp, bundle, inflight, pc, phase, bound, seen, verdict, result, sent, landed>>
         /\ (~local => UNCHANGED endpoint)
         /\ \A r \in Repos : /\ ever[r] \subseteq ever'[r]
                             /\ ref'[r].value \in ever'[r] \/ ref'[r] = ref[r]
                             /\ lock'[r] \in {lock[r], Free}
<1>1. ASSUME NEW r \in Repos, GitWrite(r) \/ RawWrite(r)
      PROVE  /\ UNCHANGED <<endpoint, lock>> /\ (Change("git") \/ Change("raw"))
             /\ \A q \in Repos : /\ ever[q] \subseteq ever'[q]
                                 /\ ref'[q].value \in ever'[q] \/ ref'[q] = ref[q]
  BY <1>1 DEF GitWrite, RawWrite, Store, Change, TypeOK
<1>2. ASSUME NEW r \in Repos, SwapEndpoint(r) \/ BreakLock(r)
      PROVE  /\ UNCHANGED <<ref, ever>> /\ (~local => UNCHANGED endpoint)
             /\ \A q \in Repos : lock'[q] \in {lock[q], Free}
             /\ (Change("swap") \/ Change("unlock"))
  BY <1>2 DEF SwapEndpoint, BreakLock, Change, TypeOK
<1>3. \E r \in Repos : (GitWrite(r) \/ RawWrite(r)) \/ (SwapEndpoint(r) \/ BreakLock(r))
  BY DEF Outside
<1>4. ASSUME NEW who, Change(who)
      PROVE  UNCHANGED <<temp, bundle, inflight, pc, phase, bound, seen, verdict, result, sent, landed>>
  BY <1>4 DEF Change
<1>5. CASE \E r \in Repos : GitWrite(r) \/ RawWrite(r)
  BY <1>1, <1>4, <1>5
<1>6. CASE \E r \in Repos : SwapEndpoint(r) \/ BreakLock(r)
  BY <1>2, <1>4, <1>6
<1> QED BY <1>3, <1>5, <1>6

\* A step of an invocation is its own: others keep their place, and nothing
\* but its locks and its push touches the repositories.
Own(p) ==
  /\ UNCHANGED <<local, endpoint, changes>>
  /\ \A q \in Publishers \ {p} :
       /\ pc'[q] = pc[q] /\ result'[q] = result[q] /\ phase'[q] = phase[q]
       /\ bound'[q] = bound[q] /\ verdict'[q] = verdict[q] /\ seen'[q] = seen[q]
       /\ (q \in inflight' <=> q \in inflight)
       /\ (q \in sent' <=> q \in sent)
  /\ sent \subseteq sent'

LEMMA StepIsOwn ==
  ASSUME TypeOK, ReadInv, NEW p \in Publishers, Publish(p) \/ ReceivePack(p) \/ Crash(p), UNCHANGED local
  PROVE  Own(p)
<1> DEFINE Kept == \A q \in Publishers \ {p} : pc'[q] = pc[q] /\ result'[q] = result[q]
<1> USE DEF TypeOK
<1>1. ASSUME NEW there, Goto(p, there) PROVE Kept
  BY <1>1 DEF Goto
<1>2. ASSUME NEW r, End(p, r) PROVE Kept
  BY <1>2 DEF End
<1>3. ASSUME Fail(p) PROVE Kept
  BY <1>2, <1>3 DEF Fail, Raise, Escape
<1>4. ASSUME NEW v \in Verdicts \ {"none"}, Conclude(p, v) PROVE Kept
  <2>1. phase[p] \in {"preflight", "readback"}
    OBVIOUS
  <2> QED BY <1>1, <1>2, <1>3, <1>4, <2>1, ConcludeCases DEF Fail
<1> HIDE DEF Kept
<1>5. CASE BindEndpoint(p)
  <2>1. Kept
    BY <1>1, <1>3, <1>5 DEF BindEndpoint
  <2> QED BY <1>5, <2>1 DEF BindEndpoint, world, Own, Kept
<1>6. CASE LockRef(p)
  <2>1. Kept
    BY <1>1, <1>3, <1>6 DEF LockRef, AcquireLock
  <2> QED BY <1>6, <2>1 DEF LockRef, Own, Kept
<1>7. CASE ObserveRef(p) \/ VerifyRef(p) \/ ReverifyRef(p)
  <2>1. PICK v, there : Under(p, v, there)
    BY <1>7 DEF ObserveRef, VerifyRef, ReverifyRef, FailUnder
  <2>2. Kept /\ \A q \in Publishers \ {p} : verdict'[q] = verdict[q]
    BY <1>1, <2>1 DEF Under
  <2>3. \A q \in Publishers \ {p} : seen'[q] = seen[q]
    BY <1>7 DEF ObserveRef, VerifyRef, ReverifyRef
  <2> QED BY <2>1, <2>2, <2>3 DEF Under, world, Own, Kept
<1>8. CASE UnlockRef(p)
  <2>1. verdict[p] \in Verdicts \ {"none"}
    BY <1>8 DEF UnlockRef, ReadInv
  <2>2. Kept
    BY <1>3, <1>4, <1>8, <2>1 DEF UnlockRef, Fail
  <2> QED BY <1>8, <2>2 DEF UnlockRef, Own, Kept
<1>9. CASE ReadRemote(p)
  <2>1. Classify(p, ref[endpoint].value) \in Verdicts \ {"none"}
    BY ClassifyIsHead DEF Heads, Verdicts
  <2>2. Kept
    BY <1>3, <1>4, <1>9, <2>1 DEF ReadRemote
  <2> QED BY <1>9, <2>2 DEF ReadRemote, world, Own, Kept
<1>10. CASE Preserve(p)
  <2>1. Kept
    BY <1>1, <1>3, <1>10
    DEF Preserve, CheckPaths, WriteBundle, CheckBundle, ReplaceBundle, FailAndClean, Fail
  <2>2. Keep(p)
    BY <1>10 DEF Preserve, CheckPaths, WriteBundle, CheckBundle, ReplaceBundle
  <2> QED BY <2>1, <2>2 DEF Keep, world, Own, Kept
<1>11. CASE Push(p)
  <2>1. Kept
    BY <1>1, <1>3, <1>11 DEF Push, RebindEndpoint, PinEndpoint, SendPush, PushReturns, Revalidate, Fail
  <2>2. Rest(p)
    BY <1>11 DEF Push, RebindEndpoint, PinEndpoint, SendPush, PushReturns, Revalidate
  <2>3. /\ \A q \in Publishers \ {p} : /\ phase'[q] = phase[q]
                                      /\ (q \in inflight' <=> q \in inflight)
                                      /\ (q \in sent' <=> q \in sent)
        /\ sent \subseteq sent'
    <3>1. CASE RebindEndpoint(p) \/ PinEndpoint(p) \/ PushReturns(p) \/ Revalidate(p)
      BY <3>1 DEF RebindEndpoint, PinEndpoint, PushReturns, Revalidate
    <3>2. CASE SendPush(p)
      BY <3>2 DEF SendPush
    <3> QED BY <1>11, <3>1, <3>2 DEF Push
  <2> QED BY <2>1, <2>2, <2>3 DEF Rest, world, Own, Kept
<1>12. CASE PushApplies(p)
  BY <1>12 DEF PushApplies, Own
<1>13. CASE PushFails(p)
  BY <1>13 DEF PushFails, world, Own
<1>14. CASE Crash(p)
  <2>1. Kept
    BY <1>2, <1>14 DEF Crash
  <2> QED BY <1>14, <2>1 DEF Crash, world, Own, Kept
<1> QED
  BY <1>5, <1>6, <1>7, <1>8, <1>9, <1>10, <1>11, <1>12, <1>13, <1>14 DEF Publish, StableRead, ReceivePack

\* Where a publisher goes, and how it ends.
LEMMA Places ==
  ASSUME TypeOK, NEW p \in Publishers
  PROVE  /\ \A there : Goto(p, there) => pc'[p] = there /\ result'[p] = result[p]
         /\ \A r : End(p, r) => pc'[p] = "ended" /\ result'[p] = r
         /\ Raise(p) => Fail(p)
         /\ Fail(p) => /\ pc'[p] = "ended"
                       /\ result'[p] \in {"blocked", "ambiguous", "escaped"}
                       /\ (result'[p] = "blocked" => phase[p] = "preflight")
         /\ Escape(p) => pc'[p] = "ended" /\ result'[p] = "escaped"
         /\ (Read(p) = "read" /\ ~local) \/ (Read(p) = "lock" /\ local)
BY EndpointAssumption DEF TypeOK, Goto, End, Raise, Escape, Fail, ErrorResult, Read

\* What a step of an invocation does to the repositories.
LEMMA RepoStep ==
  ASSUME TypeOK, NEW p \in Publishers, Publish(p) \/ ReceivePack(p) \/ Crash(p)
  PROVE  /\ \A q \in Publishers : pc[q] # "idle" => bound'[q] = bound[q]
         /\ (PushApplies(p) \/ UNCHANGED <<ref, ever, landed>>)
<1> USE DEF TypeOK
<1>1. CASE BindEndpoint(p)
  BY <1>1 DEF BindEndpoint, world
<1>2. CASE StableRead(p)
  BY <1>2 DEF StableRead, LockRef, ObserveRef, VerifyRef, ReverifyRef, FailUnder, UnlockRef, Under, world
<1>3. CASE ReadRemote(p) \/ Crash(p) \/ PushFails(p)
  BY <1>3 DEF ReadRemote, Crash, PushFails, world
<1>4. CASE Preserve(p)
  BY <1>4 DEF Preserve, CheckPaths, WriteBundle, CheckBundle, ReplaceBundle, Keep, world
<1>5. CASE Push(p)
  BY <1>5 DEF Push, RebindEndpoint, PinEndpoint, SendPush, PushReturns, Revalidate, Rest, world
<1>6. CASE PushApplies(p)
  BY <1>6 DEF PushApplies
<1> QED BY <1>1, <1>2, <1>3, <1>4, <1>5, <1>6 DEF Publish, ReceivePack

\* A push that is applied lands in the bound repository, over the expected head.
LEMMA Landing ==
  ASSUME TypeOK, SendInv, NEW p \in Publishers, PushApplies(p)
  PROVE  /\ PushTarget(p) = bound[p]
         /\ landed' = landed \cup {[by |-> p, in |-> bound[p], over |-> Expected[p]]}
         /\ p \in sent /\ Fit(p)
         /\ \A r \in Repos : ever[r] \subseteq ever'[r] /\ (ref'[r].value \in ever'[r] \/ ref'[r] = ref[r])
         /\ UNCHANGED <<pc, phase, bound, verdict, result, sent, lock>>
<1>1. PushTarget(p) = bound[p]
  BY DEF PushTarget, SendInv, TypeOK
<1>2. p \in sent /\ Fit(p)
  BY DEF PushApplies, SendInv, Sender
<1>3. \A r \in Repos : ever[r] \subseteq ever'[r] /\ (ref'[r].value \in ever'[r] \/ ref'[r] = ref[r])
  BY <1>1 DEF PushApplies, Store, TypeOK
<1> QED BY <1>1, <1>2, <1>3 DEF PushApplies, LeaseHolds
-----------------------------------------------------------------------------
(* A read that ends has a verdict. *)

LEMMA ReadStep == TypeOK /\ ReadInv /\ [Next]_vars => ReadInv'
<1> SUFFICES ASSUME TypeOK, ReadInv, [Next]_vars PROVE ReadInv'
  OBVIOUS
<1> DEFINE Reader(p) == /\ pc[p] = "reverify" => verdict[p] \in Heads
                        /\ pc[p] = "unlock" => verdict[p] \in Verdicts \ {"none"}
<1> USE DEF TypeOK, ReadInv
<1>0. CASE UNCHANGED vars
  BY <1>0 DEF vars
<1>1. CASE Outside /\ UNCHANGED local
  BY <1>1, OutsideFrame
<1>2. ASSUME NEW p \in Publishers, Publish(p) \/ ReceivePack(p) \/ Crash(p), UNCHANGED local
      PROVE  ReadInv'
  <2>1. Own(p)
    BY <1>2, StepIsOwn
  <2>2. Reader(p)'
    <3>1. CASE BindEndpoint(p)
      BY <3>1, Places DEF BindEndpoint
    <3>2. CASE LockRef(p)
      BY <3>2, Places DEF LockRef, AcquireLock
    <3>3. CASE ObserveRef(p)
      BY <3>3, Places DEF ObserveRef, FailUnder, Under, Verdicts
    <3>4. CASE VerifyRef(p)
      <4>1. PICK v \in Verdicts \ {"none"}, there \in {"reverify", "unlock"} :
              Under(p, v, there) /\ (there = "reverify" => v \in Heads)
        BY <3>4, ClassifyIsHead DEF VerifyRef, FailUnder, Heads, Verdicts
      <4> QED BY <4>1, Places DEF Under
    <3>5. CASE ReverifyRef(p)
      <4>1. PICK v \in Verdicts \ {"none"} : Under(p, v, "unlock")
        BY <3>5 DEF ReverifyRef, FailUnder, Heads, Verdicts
      <4> QED BY <4>1, Places DEF Under
    <3>6. CASE UnlockRef(p)
      <4>1. pc'[p] \in {"ended", "paths"}
        BY <3>6, Places, ConcludeCases DEF UnlockRef
      <4> QED BY <4>1
    <3>7. CASE ReadRemote(p)
      <4>1. Classify(p, ref[endpoint].value) \in Verdicts \ {"none"}
        BY ClassifyIsHead DEF Heads, Verdicts
      <4>2. pc'[p] \in {"ended", "paths"}
        BY <3>7, <4>1, Places, ConcludeCases DEF ReadRemote
      <4> QED BY <4>2
    <3>8. CASE Preserve(p)
      <4>1. pc'[p] \in {"ended", "write", "check", "replace", "rebind"}
        BY <3>8, Places DEF Preserve, CheckPaths, WriteBundle, CheckBundle, ReplaceBundle, FailAndClean
      <4> QED BY <4>1
    <3>9. CASE Push(p)
      <4>1. pc'[p] \in {"ended", "pin", "push", "pushing", "revalidate", "lock", "read"}
        BY <3>9, Places DEF Push, RebindEndpoint, PinEndpoint, SendPush, PushReturns, Revalidate
      <4> QED BY <4>1
    <3>10. CASE PushApplies(p) \/ PushFails(p)
      BY <3>10 DEF PushApplies, PushFails
    <3>11. CASE Crash(p)
      BY <3>11, Places DEF Crash
    <3> QED
      BY <1>2, <3>1, <3>2, <3>3, <3>4, <3>5, <3>6, <3>7, <3>8, <3>9, <3>10, <3>11
      DEF Publish, StableRead, ReceivePack
  <2> QED BY <2>1, <2>2 DEF Own
<1> QED BY <1>0, <1>1, <1>2 DEF Next
-----------------------------------------------------------------------------
(* Who pushes was approved.                                                *)

LEMMA SenderStep ==
  ASSUME TypeOK, ReadInv, SendInv, NEW p \in Publishers,
         Publish(p) \/ ReceivePack(p) \/ Crash(p), UNCHANGED local
  PROVE  Sender(p)'
<1> USE DEF TypeOK, Sender, SendInv
<1>0. Fit(p)' <=> Fit(p)
  BY DEF Fit
<1> DEFINE Unsent == UNCHANGED <<inflight, sent>>
<1>1. CASE BindEndpoint(p)
  <2>1. pc'[p] = "ended" \/ Fit(p)
    BY <1>1, Places DEF BindEndpoint, FastForward, Fit
  <2> QED BY <1>0, <1>1, <2>1, Places DEF BindEndpoint
<1>2. CASE StableRead(p)
  <2>1. pc[p] \notin {"idle", "ended"} /\ Unsent /\ UNCHANGED phase
    BY <1>2 DEF StableRead, LockRef, AcquireLock, ObserveRef, VerifyRef, ReverifyRef, FailUnder, UnlockRef, Under
  <2>2. CASE LockRef(p)
    BY <1>0, <2>1, <2>2, Places DEF LockRef, AcquireLock
  <2>3. CASE ObserveRef(p) \/ VerifyRef(p) \/ ReverifyRef(p)
    <3>1. pc'[p] \in {"verify", "reverify", "unlock"}
      BY <2>3, Places DEF ObserveRef, VerifyRef, ReverifyRef, FailUnder, Under
    <3> QED BY <1>0, <2>1, <3>1
  <2>4. CASE UnlockRef(p)
    <3>1. pc'[p] \in {"ended", "paths"}
      BY <2>4, Places, ConcludeCases DEF UnlockRef, ReadInv
    <3> QED BY <1>0, <2>1, <3>1
  <2> QED BY <1>2, <2>2, <2>3, <2>4 DEF StableRead
<1>3. CASE ReadRemote(p)
  <2>1. Classify(p, ref[endpoint].value) \in Verdicts \ {"none"}
    BY ClassifyIsHead DEF Heads, Verdicts
  <2>2. pc'[p] \in {"ended", "paths"}
    BY <1>3, <2>1, Places, ConcludeCases DEF ReadRemote
  <2> QED BY <1>0, <1>3, <2>2 DEF ReadRemote
<1>4. CASE Preserve(p)
  <2>1. pc[p] \in Keeping /\ pc'[p] \in {"ended", "write", "check", "replace", "rebind"}
    BY <1>4, Places DEF Preserve, CheckPaths, WriteBundle, CheckBundle, ReplaceBundle, FailAndClean, Keeping
  <2>2. Unsent /\ UNCHANGED phase
    BY <1>4 DEF Preserve, CheckPaths, WriteBundle, CheckBundle, ReplaceBundle, Keep
  <2> QED BY <1>0, <2>1, <2>2 DEF Keeping
<1>5. CASE RebindEndpoint(p)
  BY <1>0, <1>5, Places DEF RebindEndpoint
<1>6. CASE PinEndpoint(p) \/ PushReturns(p) \/ Revalidate(p)
  BY <1>0, <1>6, Places DEF PinEndpoint, PushReturns, Revalidate
<1>7. CASE SendPush(p)
  BY <1>0, <1>7, Places DEF SendPush
<1>8. CASE PushApplies(p) \/ PushFails(p)
  BY <1>0, <1>8 DEF PushApplies, PushFails
<1>9. CASE Crash(p)
  BY <1>0, <1>9, Places DEF Crash, Active, Reading, Keeping
<1> QED
  BY <1>1, <1>2, <1>3, <1>4, <1>5, <1>6, <1>7, <1>8, <1>9 DEF Publish, Push, ReceivePack

LEMMA SendStep == TypeOK /\ ReadInv /\ SendInv /\ [Next]_vars => SendInv'
<1> SUFFICES ASSUME TypeOK, ReadInv, SendInv, [Next]_vars PROVE SendInv'
  OBVIOUS
<1>0. CASE UNCHANGED vars
  BY <1>0 DEF vars, SendInv, Sender, Fit
<1>1. CASE Outside /\ UNCHANGED local
  BY <1>1, OutsideFrame DEF SendInv, Sender, Fit
<1>2. ASSUME NEW p \in Publishers, Publish(p) \/ ReceivePack(p) \/ Crash(p), UNCHANGED local
      PROVE  SendInv'
  <2>1. Own(p)
    BY <1>2, StepIsOwn
  <2>2. \A q \in Publishers : Sender(q)'
    <3>1. ASSUME NEW q \in Publishers \ {p} PROVE Sender(q)'
      BY <2>1 DEF Own, SendInv, Sender, Fit
    <3> QED BY <1>2, <3>1, SenderStep
  <2>3. ~local => \A q \in Publishers : bound'[q] = endpoint'
    <3>1. bound'[p] \in {bound[p], endpoint}
      <4>1. CASE BindEndpoint(p)
        BY <4>1 DEF BindEndpoint, TypeOK
      <4>2. CASE pc[p] # "idle"
        BY <1>2, <4>2, RepoStep
      <4>3. CASE PushApplies(p) \/ PushFails(p)
        BY <4>3 DEF PushApplies, PushFails
      <4>4. BindEndpoint(p) \/ pc[p] # "idle" \/ PushApplies(p) \/ PushFails(p)
        BY <1>2 DEF Publish, ReceivePack, Crash, StableRead, LockRef, AcquireLock, ObserveRef, VerifyRef,
             ReverifyRef, UnlockRef, ReadRemote, Preserve, CheckPaths, WriteBundle, CheckBundle,
             ReplaceBundle, Push, RebindEndpoint, PinEndpoint, SendPush, PushReturns, Revalidate,
             Active, Reading, Keeping
      <4> QED BY <4>1, <4>2, <4>3, <4>4
    <3> QED BY <2>1, <3>1 DEF Own, SendInv
  <2>4. \A l \in landed' : /\ l.by \in sent /\ l.in = bound[l.by]
                           /\ l.over = Expected[l.by] /\ Fit(l.by)
    <3>1. CASE PushApplies(p)
      BY <3>1, Landing DEF SendInv
    <3>2. CASE landed' = landed
      BY <3>2 DEF SendInv
    <3> QED BY <1>2, <3>1, <3>2, RepoStep
  <2>5. \A q \in sent : q \in Publishers /\ bound'[q] = bound[q] /\ q \in sent'
    BY <1>2, <2>1, RepoStep DEF TypeOK, SendInv, Sender, Own
  <2>6. \A l \in landed' : /\ l.by \in sent' /\ l.in = bound'[l.by]
                           /\ l.over = Expected[l.by] /\ Fit(l.by)'
    BY <2>4, <2>5 DEF Fit
  <2> QED BY <1>2, <2>2, <2>3, <2>6 DEF SendInv
<1> QED BY <1>0, <1>1, <1>2 DEF Next
-----------------------------------------------------------------------------
(* A lock is held by the read that took it, or by a killed process.        *)

LEMMA LockStep == TypeOK /\ ReadInv /\ HeadInv /\ LockInv /\ [Next]_vars => LockInv'
<1> SUFFICES ASSUME TypeOK, ReadInv, HeadInv, LockInv, [Next]_vars PROVE LockInv'
  OBVIOUS
<1> USE EndpointAssumption
<1>0. CASE UNCHANGED vars
  BY <1>0 DEF vars, LockInv
<1>1. CASE Outside /\ UNCHANGED local
  BY <1>1, OutsideFrame DEF LockInv
<1>2. ASSUME NEW p \in Publishers, Publish(p) \/ ReceivePack(p) \/ Crash(p), UNCHANGED local
      PROVE  LockInv'
  <2>0. Own(p)
    BY <1>2, StepIsOwn
  <2>1. \A r \in Repos : lock'[r] \in {lock[r], p, Free}
    BY <1>2 DEF TypeOK, Publish, ReceivePack, Crash, StableRead, LockRef, AcquireLock, ObserveRef, VerifyRef,
         ReverifyRef, FailUnder, UnlockRef, LockAfter, Under, ReadRemote, Preserve, CheckPaths, WriteBundle, CheckBundle,
         ReplaceBundle, Keep, Push, RebindEndpoint, PinEndpoint, SendPush, PushReturns, Revalidate, Rest,
         BindEndpoint, PushApplies, PushFails, world
  <2>2. ASSUME NEW r \in Repos, NEW q \in Publishers \ {p}, lock'[r] = q
        PROVE  result'[q] = "crashed" \/ (r = bound'[q] /\ pc'[q] \in Holding)
    BY <2>0, <2>1, <2>2 DEF Own, LockInv, TypeOK
  <2>3. ASSUME NEW r \in Repos, lock'[r] = p
        PROVE  result'[p] = "crashed" \/ (r = bound'[p] /\ pc'[p] \in Holding)
    <3> USE DEF TypeOK
    <3>1. CASE LockRef(p)
      <4>1. lock[r] = p => result[p] = "crashed"
        BY <3>1 DEF LockRef, AcquireLock, LockInv, Holding
      <4>2. result[p] = "none"
        BY <3>1 DEF LockRef, AcquireLock, HeadInv, Reporter
      <4>3. lock[r] # p
        BY <4>1, <4>2
      <4> QED BY <2>3, <3>1, <4>3, Places DEF LockRef, AcquireLock, Holding
    <3>2. CASE UnlockRef(p)
      <4>1. pc[p] = "unlock" /\ result[p] = "none"
        BY <3>2 DEF UnlockRef, HeadInv, Reporter
      <4>2. r # bound[p]
        BY <2>3, <3>2 DEF UnlockRef, LockAfter
      <4>3. lock[r] = p
        BY <2>3, <3>2, <4>2 DEF UnlockRef
      <4> QED BY <4>1, <4>2, <4>3 DEF LockInv
    <3>3. CASE ~LockRef(p) /\ ~UnlockRef(p)
      <4>1. lock'[r] = lock[r]
        BY <1>2, <3>3 DEF Publish, ReceivePack, Crash, StableRead, ObserveRef, VerifyRef, ReverifyRef, FailUnder, Under,
             ReadRemote, Preserve, CheckPaths, WriteBundle, CheckBundle, ReplaceBundle, Keep, Push, RebindEndpoint,
             PinEndpoint, SendPush, PushReturns, Revalidate, Rest, BindEndpoint, PushApplies, PushFails, world
      <4>2. result[p] = "crashed" \/ (r = bound[p] /\ pc[p] \in Holding)
        BY <2>3, <4>1 DEF LockInv
      <4>3. CASE Crash(p)
        BY <4>3, Places DEF Crash
      <4>4. CASE PushApplies(p) \/ PushFails(p)
        BY <4>2, <4>4 DEF PushApplies, PushFails
      <4>5. CASE ObserveRef(p) \/ VerifyRef(p) \/ ReverifyRef(p)
        <5>1. PICK v, there : there \in Holding /\ Under(p, v, there)
          BY <4>5 DEF ObserveRef, VerifyRef, ReverifyRef, FailUnder, Holding
        <5>2. result[p] = "none"
          BY <4>5 DEF ObserveRef, VerifyRef, ReverifyRef, HeadInv, Reporter
        <5> QED BY <4>2, <5>1, <5>2, Places DEF Under
      <4>6. CASE BindEndpoint(p) \/ ReadRemote(p) \/ Preserve(p) \/ Push(p)
        <5>1. pc[p] \notin Holding \cup {"ended"}
          BY <4>6 DEF BindEndpoint, ReadRemote, Preserve, CheckPaths, WriteBundle, CheckBundle, ReplaceBundle,
               Push, RebindEndpoint, PinEndpoint, SendPush, PushReturns, Revalidate, Holding
        <5>2. result[p] = "none"
          BY <5>1 DEF HeadInv, Reporter
        <5> QED BY <4>2, <5>1, <5>2
      <4> QED BY <1>2, <3>3, <4>3, <4>4, <4>5, <4>6 DEF Publish, StableRead, ReceivePack
    <3> QED BY <3>1, <3>2, <3>3
  <2> QED BY <2>2, <2>3 DEF LockInv
<1> QED BY <1>0, <1>1, <1>2 DEF Next
-----------------------------------------------------------------------------
(* What is reported has been so.                                           *)

\* The values a repository ever had only grow.
LEMMA EverGrows ==
  ASSUME TypeOK, ReadInv, SendInv, HeadInv, [Next]_vars
  PROVE  \A r \in Repos : ever[r] \subseteq ever'[r] /\ ref'[r].value \in ever'[r]
<1>0. CASE UNCHANGED vars
  BY <1>0 DEF vars, HeadInv
<1>1. CASE Outside /\ UNCHANGED local
  BY <1>1, OutsideFrame DEF HeadInv
<1>2. ASSUME NEW p \in Publishers, Publish(p) \/ ReceivePack(p) \/ Crash(p), UNCHANGED local
      PROVE  \A r \in Repos : ever[r] \subseteq ever'[r] /\ ref'[r].value \in ever'[r]
  <2>1. CASE PushApplies(p)
    BY <2>1, Landing DEF HeadInv
  <2>2. CASE UNCHANGED <<ref, ever, landed>>
    BY <2>2 DEF HeadInv
  <2> QED BY <1>2, <2>1, <2>2, RepoStep
<1> QED BY <1>0, <1>1, <1>2 DEF Next

\* How an invocation ends with the verdict of a read.
LEMMA ConcludeReport ==
  ASSUME TypeOK, SendInv, NEW p \in Publishers, NEW v \in Verdicts \ {"none"}, Conclude(p, v),
         result[p] = "none", v = "published" => Candidate[p] \in ever[bound[p]]
  PROVE  /\ pc'[p] # "idle" /\ (pc'[p] # "ended" => result'[p] = "none")
         /\ result'[p] \in {"already", "published"} => Candidate[p] \in ever[bound[p]]
         /\ result'[p] \in {"already", "blocked"} => p \notin sent
<1>1. phase[p] \in {"preflight", "readback"}
  BY DEF TypeOK
<1>2. p \in sent => phase[p] = "readback"
  BY DEF SendInv, Sender
<1>3. CASE Raise(p)
  BY <1>2, <1>3, Places
<1>4. CASE Escape(p)
  BY <1>4, Places
<1>5. CASE v \in Heads /\ phase[p] = "readback" /\ End(p, v)
  BY <1>5, Places DEF Heads
<1>6. CASE v = "published" /\ phase[p] = "preflight" /\ End(p, "already")
  BY <1>2, <1>6, Places
<1>7. CASE Goto(p, "paths")
  BY <1>7, Places
<1> QED BY <1>1, <1>3, <1>4, <1>5, <1>6, <1>7, ConcludeCases

LEMMA ReporterStep ==
  ASSUME TypeOK, ReadInv, SendInv, HeadInv, NEW p \in Publishers,
         Publish(p) \/ ReceivePack(p) \/ Crash(p), UNCHANGED local
  PROVE  Reporter(p)'
<1> USE DEF TypeOK
<1>0. /\ Reporter(p) /\ Sender(p)
      /\ \A r \in Repos : ever[r] \subseteq ever'[r] /\ ref[r].value \in ever[r]
  <2>1. [Next]_vars
    BY DEF Next
  <2> QED BY <2>1, EverGrows DEF HeadInv, SendInv
<1>1. CASE BindEndpoint(p)
  BY <1>0, <1>1, Places DEF BindEndpoint, Reporter, Sender, world
<1>2. CASE LockRef(p)
  BY <1>0, <1>2, Places DEF LockRef, AcquireLock, Reporter, Sender
<1>3. CASE ObserveRef(p)
  BY <1>0, <1>3, Places DEF ObserveRef, FailUnder, Under, Reporter
<1>4. CASE VerifyRef(p)
  <2>1. pc[p] = "verify"
    BY <1>4 DEF VerifyRef
  <2>2. PICK v, there : /\ Under(p, v, there) /\ there \in {"reverify", "unlock"}
                        /\ (v = "published" => Candidate[p] = ref[bound[p]].value)
    BY <1>4, ClassifyIsHead DEF VerifyRef, FailUnder, Pinned
  <2> QED BY <1>0, <2>1, <2>2, Places DEF Under, Reporter
<1>5. CASE ReverifyRef(p)
  <2>1. pc[p] = "reverify"
    BY <1>5 DEF ReverifyRef
  <2>2. PICK v : Under(p, v, "unlock") /\ v \in {verdict[p], "error", "escape"}
    BY <1>5 DEF ReverifyRef, FailUnder
  <2> QED BY <1>0, <2>1, <2>2, Places DEF Under, Reporter
<1>6. CASE UnlockRef(p)
  <2>1. pc[p] = "unlock" /\ verdict[p] \in Verdicts \ {"none"} /\ result[p] = "none"
    BY <1>0, <1>6 DEF UnlockRef, ReadInv, Reporter
  <2>2. UNCHANGED <<verdict, ever, bound, sent>>
    BY <1>6 DEF UnlockRef
  <2>3. CASE Escape(p)
    BY <1>0, <2>1, <2>2, <2>3, Places DEF Reporter
  <2>4. CASE Conclude(p, verdict[p])
    BY <1>0, <2>1, <2>2, <2>4, ConcludeReport DEF Reporter
  <2> QED BY <1>6, <2>3, <2>4 DEF UnlockRef
<1>7. CASE ReadRemote(p)
  <2>1. pc[p] = "read" /\ result[p] = "none" /\ bound[p] = endpoint
    BY <1>0, <1>7 DEF ReadRemote, Reporter, Sender, SendInv
  <2>2. UNCHANGED <<verdict, ever, bound, sent>>
    BY <1>7 DEF ReadRemote, world
  <2>3. CASE Fail(p)
    BY <1>0, <2>1, <2>2, <2>3, Places DEF Reporter, Sender
  <2>4. CASE Conclude(p, Classify(p, ref[endpoint].value))
    <3>1. /\ Classify(p, ref[endpoint].value) \in Verdicts \ {"none"}
          /\ (Classify(p, ref[endpoint].value) = "published" => Candidate[p] \in ever[bound[p]])
      BY <1>0, <2>1, ClassifyIsHead DEF Heads, Verdicts
    <3> QED BY <1>0, <2>1, <2>2, <2>4, <3>1, ConcludeReport DEF Reporter
  <2> QED BY <1>7, <2>3, <2>4 DEF ReadRemote
<1>8. CASE Preserve(p)
  <2>1. pc[p] \in Keeping /\ UNCHANGED <<verdict, ever, bound, sent>>
    BY <1>8 DEF Preserve, CheckPaths, WriteBundle, CheckBundle, ReplaceBundle, Keep, world, Keeping
  <2>2. \/ Fail(p)
        \/ \E there \in {"write", "check", "replace", "rebind"} : Goto(p, there)
    BY <1>8 DEF Preserve, CheckPaths, WriteBundle, CheckBundle, ReplaceBundle, FailAndClean, Fail
  <2> QED BY <1>0, <2>1, <2>2, Places DEF Reporter, Sender, Keeping
<1>9. CASE Push(p)
  <2>1. /\ pc[p] \in {"rebind", "pin", "push", "pushing", "revalidate"} /\ UNCHANGED <<verdict, ever, bound>>
        /\ (sent' = sent \/ Goto(p, "pushing"))
    BY <1>9 DEF Push, RebindEndpoint, PinEndpoint, SendPush, PushReturns, Revalidate, Rest, world
  <2>2. Fail(p) \/ \E there \in {"pin", "push", "pushing", "revalidate", "lock", "read"} : Goto(p, there)
    BY <1>9, Places DEF Push, RebindEndpoint, PinEndpoint, SendPush, PushReturns, Revalidate, Fail
  <2> QED BY <1>0, <2>1, <2>2, Places DEF Reporter, Sender
<1>10. CASE PushApplies(p)
  BY <1>0, <1>10 DEF PushApplies, Reporter
<1>11. CASE PushFails(p)
  BY <1>0, <1>11 DEF PushFails, Reporter, world
<1>12. CASE Crash(p)
  <2>1. pc[p] # "idle"
    BY <1>12 DEF Crash, Active, Reading, Keeping
  <2> QED BY <1>0, <1>12, <2>1, Places DEF Crash, Reporter, world
<1> QED
  BY <1>1, <1>2, <1>3, <1>4, <1>5, <1>6, <1>7, <1>8, <1>9, <1>10, <1>11, <1>12
  DEF Publish, StableRead, ReceivePack

LEMMA HeadStep == TypeOK /\ ReadInv /\ SendInv /\ HeadInv /\ [Next]_vars => HeadInv'
<1> SUFFICES ASSUME TypeOK, ReadInv, SendInv, HeadInv, [Next]_vars PROVE HeadInv'
  OBVIOUS
<1>0. \A r \in Repos : ever[r] \subseteq ever'[r] /\ ref'[r].value \in ever'[r]
  BY EverGrows
<1>1. CASE UNCHANGED vars
  BY <1>1 DEF vars, HeadInv, Reporter
<1>2. CASE Outside /\ UNCHANGED local
  BY <1>0, <1>2, OutsideFrame DEF HeadInv, Reporter, TypeOK
<1>3. ASSUME NEW p \in Publishers, Publish(p) \/ ReceivePack(p) \/ Crash(p), UNCHANGED local
      PROVE  HeadInv'
  <2>1. Own(p) /\ Reporter(p)'
    BY <1>3, StepIsOwn, ReporterStep
  <2>2. ASSUME NEW q \in Publishers \ {p} PROVE Reporter(q)'
    BY <1>0, <2>1 DEF Own, HeadInv, Reporter, TypeOK
  <2> QED BY <1>0, <2>1, <2>2 DEF HeadInv
<1> QED BY <1>1, <1>2, <1>3 DEF Next
-----------------------------------------------------------------------------
(* Theorems.                                                               *)

\* The strengthening that every step of publish(), of receive-pack and of the
\* outside actors preserves.
THEOREM Invariance == Spec => []Inv
<1>1. Inv /\ [Next]_vars => Inv'
  BY TypeStep, ReadStep, SendStep, HeadStep, LockStep DEF Inv
<1> QED BY <1>1, InitInv, PTL DEF Spec

\* Every variable keeps its type.
THEOREM TypeCorrect == Spec => []TypeOK
<1>1. Inv => TypeOK
  BY DEF Inv
<1> QED BY <1>1, Invariance, PTL

\* publish() reports a candidate as published only when the approved
\* repository has held it.
THEOREM PublishedTrue == Spec => []PublishedIsTrue
<1>1. Inv => PublishedIsTrue
  BY DEF Inv, HeadInv, Reporter, PublishedIsTrue
<1> QED BY <1>1, Invariance, PTL

\* The push of publish() lands in the repository that was approved, whatever
\* is moved to its path.
THEOREM LandsApproved == Spec => []LandsWhereApproved
<1>1. Inv => LandsWhereApproved
  BY DEF Inv, SendInv, LandsWhereApproved
<1> QED BY <1>1, Invariance, PTL

\* The lease and the ancestry check of publish() together: no push erases a
\* commit, however many publishers and Git clients write the branch.
THEOREM NothingLost == Spec => []NothingOverwritten
<1>1. Inv => NothingOverwritten
  BY DEF Inv, SendInv, Fit, NothingOverwritten
<1> QED BY <1>1, Invariance, PTL

\* publish() reports neither BLOCKED nor ALREADY_PUBLISHED once it has sent.
THEOREM BlockedUntouched == Spec => []BlockedMeansUntouched
<1>1. Inv => BlockedMeansUntouched
  BY DEF Inv, HeadInv, Reporter, BlockedMeansUntouched
<1> QED BY <1>1, Invariance, PTL

\* Whatever check fails, an invocation that is not killed unlinks its lock.
THEOREM LocksFreed == Spec => []LocksReleased
<1>1. Inv => LocksReleased
  BY DEF Inv, HeadInv, Reporter, LockInv, Holding, LocksReleased
<1> QED BY <1>1, Invariance, PTL
-----------------------------------------------------------------------------
(* The verdict under the lock.                                             *)

\* Nobody bypasses the ref lock: no raw writer, no lock file removed by hand.
LockRespected == {"raw", "unlock"} \cap Interference = {}

HeldInv ==
  \A p \in Publishers :
    /\ pc[p] \in Holding => lock[bound[p]] = p
    /\ pc[p] \in {"reverify", "unlock"} /\ verdict[p] \in Heads
         => verdict[p] = Classify(p, ref[bound[p]].value)

LEMMA HeldStep ==
  ASSUME LockRespected, TypeOK, ReadInv, SendInv, HeldInv, [Next]_vars
  PROVE  HeldInv'
<1> USE EndpointAssumption
<1> DEFINE Held(p) == /\ pc[p] \in Holding => lock[bound[p]] = p
                      /\ pc[p] \in {"reverify", "unlock"} /\ verdict[p] \in Heads
                           => verdict[p] = Classify(p, ref[bound[p]].value)
<1>0. CASE UNCHANGED vars
  BY <1>0 DEF vars, HeldInv, Classify
<1>1. CASE Outside /\ UNCHANGED local
  <2>1. PICK r \in Repos : GitWrite(r) \/ SwapEndpoint(r)
    BY <1>1 DEF Outside, LockRespected, RawWrite, BreakLock, Change
  <2>2. /\ UNCHANGED <<pc, bound, verdict, lock>>
        /\ \A q \in Repos : lock[q] # Free => ref'[q] = ref[q]
    BY <2>1 DEF GitWrite, SwapEndpoint, Change, Store, TypeOK
  <2>3. ASSUME NEW p \in Publishers, pc[p] \in Holding
        PROVE  ref'[bound[p]] = ref[bound[p]]
    BY <2>2, <2>3 DEF HeldInv, TypeOK
  <2> QED BY <2>2, <2>3 DEF HeldInv, Holding, Classify
<1>2. ASSUME NEW p \in Publishers, Publish(p) \/ ReceivePack(p) \/ Crash(p), UNCHANGED local
      PROVE  HeldInv'
  <2>1. Own(p)
    BY <1>2, StepIsOwn
  <2>2. \A r \in Repos : lock[r] \notin {p, Free} => lock'[r] = lock[r]
    <3>1. CASE UNCHANGED lock
      BY <3>1
    <3>2. CASE LockRef(p)
      BY <3>2 DEF LockRef, AcquireLock, LockAvailable, TypeOK
    <3>3. CASE UnlockRef(p)
      <4>1. lock[bound[p]] = p
        BY <3>3 DEF UnlockRef, HeldInv, Holding
      <4> QED BY <3>3, <4>1 DEF UnlockRef, TypeOK
    <3>4. UNCHANGED lock \/ LockRef(p) \/ UnlockRef(p)
      BY <1>2 DEF Publish, ReceivePack, Crash, StableRead, ObserveRef, VerifyRef, ReverifyRef, FailUnder, Under,
           ReadRemote, Preserve, CheckPaths, WriteBundle, CheckBundle, ReplaceBundle, Keep, Push, RebindEndpoint,
           PinEndpoint, SendPush, PushReturns, Revalidate, Rest, BindEndpoint, PushApplies, PushFails, world
    <3> QED BY <3>1, <3>2, <3>3, <3>4
  <2>3. \A r \in Repos : lock[r] # Free => ref'[r] = ref[r]
    <3>1. CASE PushApplies(p)
      BY <3>1, Landing DEF PushApplies, Store, TypeOK
    <3>2. CASE UNCHANGED <<ref, ever, landed>>
      BY <3>2
    <3> QED BY <1>2, <3>1, <3>2, RepoStep
  <2>4. ASSUME NEW q \in Publishers \ {p} PROVE Held(q)'
    <3>1. CASE pc[q] \in Holding
      <4>1. lock[bound[q]] = q /\ lock'[bound[q]] = q /\ ref'[bound[q]] = ref[bound[q]]
        BY <2>2, <2>3, <2>4, <3>1 DEF HeldInv, TypeOK
      <4> QED BY <2>1, <2>4, <4>1 DEF Own, HeldInv, Classify
    <3>2. CASE pc[q] \notin Holding
      BY <2>1, <2>4, <3>2 DEF Own, Holding
    <3> QED BY <3>1, <3>2
  <2>5. Held(p)'
    <3> USE DEF TypeOK
    <3>1. CASE LockRef(p)
      BY <3>1, Places DEF LockRef, AcquireLock, Holding
    <3>2. CASE ObserveRef(p)
      <4>1. lock[bound[p]] = p
        BY <3>2 DEF ObserveRef, FailUnder, HeldInv, Holding
      <4>2. PICK v, there : Under(p, v, there) /\ v \notin Heads
        BY <3>2 DEF ObserveRef, FailUnder, Heads
      <4> QED BY <4>1, <4>2, Places DEF Under, world
    <3>3. CASE VerifyRef(p)
      <4>1. lock[bound[p]] = p
        BY <3>3 DEF VerifyRef, FailUnder, HeldInv, Holding
      <4>2. PICK v, there : Under(p, v, there) /\ (v \in Heads => v = Classify(p, ref[bound[p]].value))
        BY <3>3 DEF VerifyRef, FailUnder, Pinned, Heads
      <4> QED BY <4>1, <4>2, Places DEF Under, world, Classify
    <3>4. CASE ReverifyRef(p)
      <4>1. lock[bound[p]] = p /\ (verdict[p] \in Heads => verdict[p] = Classify(p, ref[bound[p]].value))
        BY <3>4 DEF ReverifyRef, FailUnder, HeldInv, Holding
      <4>2. PICK v, there : Under(p, v, there) /\ (v \in Heads => v = verdict[p])
        BY <3>4 DEF ReverifyRef, FailUnder, Heads
      <4> QED BY <4>1, <4>2, Places DEF Under, world, Classify
    <3>5. CASE PushApplies(p) \/ PushFails(p)
      <4>1. UNCHANGED <<pc, bound, verdict, lock>>
        BY <3>5 DEF PushApplies, PushFails, world
      <4> QED BY <2>3, <4>1 DEF HeldInv, Holding, Classify
    <3>6. CASE BindEndpoint(p) \/ UnlockRef(p) \/ ReadRemote(p) \/ Crash(p)
      <4>1. Classify(p, ref[endpoint].value) \in Verdicts \ {"none"}
        BY ClassifyIsHead DEF Heads, Verdicts
      <4>2. pc'[p] \in {"ended", "paths", "lock", "read"}
        BY <3>6, <4>1, Places, ConcludeCases DEF BindEndpoint, UnlockRef, ReadRemote, Crash, ReadInv
      <4> QED BY <4>2 DEF Holding
    <3>7. CASE Preserve(p) \/ Push(p)
      <4>1. pc'[p] \in {"ended", "write", "check", "replace", "rebind", "pin", "push", "pushing",
                        "revalidate", "lock", "read"}
        BY <3>7, Places DEF Preserve, CheckPaths, WriteBundle, CheckBundle, ReplaceBundle, FailAndClean,
           Push, RebindEndpoint, PinEndpoint, SendPush, PushReturns, Revalidate
      <4> QED BY <4>1 DEF Holding
    <3> QED
      BY <1>2, <3>1, <3>2, <3>3, <3>4, <3>5, <3>6, <3>7 DEF Publish, StableRead, ReceivePack
  <2> QED BY <2>4, <2>5 DEF HeldInv
<1> QED BY <1>0, <1>1, <1>2 DEF Next

\* Where nobody bypasses the lock, the verdict that publish() acts on is the
\* state of the branch at the moment it is taken, not an earlier one.
THEOREM VerdictCurrent == ASSUME LockRespected PROVE Spec => []VerdictIsCurrent
<1>1. Init => HeldInv
  BY DEF Init, HeldInv, Holding
<1>2. Inv /\ HeldInv /\ [Next]_vars => HeldInv'
  BY HeldStep DEF Inv
<1>3. HeldInv => VerdictIsCurrent
  BY DEF HeldInv, VerdictIsCurrent, Heads
<1> QED BY <1>1, <1>2, <1>3, Invariance, PTL DEF Spec
-----------------------------------------------------------------------------
(* The recovery bundle.                                                    *)

\* A bundle path is used by one invocation; or for one candidate, by an
\* invocation and its retries, while nobody moves the local branch.
OwnBundle ==
  \A p, q \in Publishers :
    Bundle[p] = Bundle[q] =>
      p = q \/ (Candidate[p] = Candidate[q] /\ "work" \notin Interference)

Preserver(p) ==
  /\ "work" \notin Interference \/ pc[p] = "replace" => temp[Bundle[p]] \in {Absent, Candidate[p]}
  /\ pc[p] = "rebind" \/ phase[p] = "readback" => bundle[Bundle[p]] = Candidate[p]
BundleInv == \A p \in Publishers : Preserver(p)

LEMMA BundleStep ==
  ASSUME OwnBundle, TypeOK, ReadInv, BundleInv, [Next]_vars
  PROVE  BundleInv'
<1> USE PublisherAssumption, EndpointAssumption
<1> USE DEF Preserver
<1>0. CASE UNCHANGED vars
  BY <1>0 DEF vars, BundleInv
<1>1. CASE Outside /\ UNCHANGED local
  BY <1>1, OutsideFrame DEF BundleInv
<1>2. ASSUME NEW p \in Publishers, Publish(p) \/ ReceivePack(p) \/ Crash(p), UNCHANGED local
      PROVE  BundleInv'
  <2>1. Own(p)
    BY <1>2, StepIsOwn
  <2>2. \A q \in Publishers :
          /\ "work" \notin Interference \/ pc'[q] = "replace" => temp'[Bundle[q]] \in {Absent, Candidate[q]}
          /\ bundle'[Bundle[q]] \in {bundle[Bundle[q]], Candidate[q]}
    <3>1. \A q \in Publishers : Bundle[q] \in Paths
      BY DEF Paths
    <3>2. CASE Preserve(p)
      <4>1. CASE CheckPaths(p)
        BY <2>1, <4>1, Places DEF CheckPaths, BundleInv, Own, TypeOK
      <4>2. CASE WriteBundle(p)
        <5>1. UNCHANGED bundle /\ pc'[p] # "replace"
          BY <4>2, Places DEF WriteBundle, FailAndClean, TypeOK
        <5>2. ASSUME NEW q \in Publishers, "work" \notin Interference \/ pc'[q] = "replace"
              PROVE  temp'[Bundle[q]] \in {Absent, Candidate[q]}
          <6>1. CASE Bundle[q] = Bundle[p]
            <7>1. Candidate[q] = Candidate[p] /\ "work" \notin Interference
              BY <5>1, <5>2, <6>1 DEF OwnBundle
            <7> QED BY <3>1, <4>2, <6>1, <7>1 DEF WriteBundle, LocalHeads, FailAndClean, TypeOK
          <6>2. CASE Bundle[q] # Bundle[p]
            BY <2>1, <3>1, <4>2, <5>1, <5>2, <6>2 DEF WriteBundle, FailAndClean, BundleInv, Own, TypeOK
          <6> QED BY <6>1, <6>2
        <5> QED BY <5>1, <5>2
      <4>3. CASE CheckBundle(p)
        <5>1. UNCHANGED bundle
          BY <4>3 DEF CheckBundle, FailAndClean
        <5>2. ASSUME NEW q \in Publishers, "work" \notin Interference \/ pc'[q] = "replace"
              PROVE  temp'[Bundle[q]] \in {Absent, Candidate[q]}
          <6>1. CASE Advertises(p) /\ UNCHANGED temp
            BY <2>1, <5>2, <6>1 DEF Advertises, BundleInv, Own
          <6>2. CASE FailAndClean(p)
            BY <2>1, <3>1, <5>2, <6>2, Places DEF FailAndClean, BundleInv, Own, TypeOK
          <6> QED BY <4>3, <6>1, <6>2 DEF CheckBundle
        <5> QED BY <5>1, <5>2
      <4>4. CASE ReplaceBundle(p)
        <5>1. temp' = [temp EXCEPT ![Bundle[p]] = Absent] /\ pc[p] = "replace"
          BY <4>4 DEF ReplaceBundle
        <5>2. pc'[p] # "replace"
          BY <4>4, Places DEF ReplaceBundle, TypeOK
        <5>3. temp[Bundle[p]] \in {Absent, Candidate[p]}
          BY <5>1 DEF BundleInv
        <5>4. ASSUME NEW q \in Publishers, "work" \notin Interference \/ pc'[q] = "replace"
              PROVE  temp'[Bundle[q]] \in {Absent, Candidate[q]}
          BY <2>1, <3>1, <5>1, <5>2, <5>4 DEF BundleInv, Own, TypeOK
        <5>5. ASSUME NEW q \in Publishers
              PROVE  bundle'[Bundle[q]] \in {bundle[Bundle[q]], Candidate[q]}
          BY <3>1, <4>4, <5>3, <5>5 DEF ReplaceBundle, OwnBundle, TypeOK
        <5> QED BY <5>4, <5>5
      <4> QED BY <3>2, <4>1, <4>2, <4>3, <4>4 DEF Preserve
    <3>3. CASE ~Preserve(p)
      <4>1. UNCHANGED <<temp, bundle>>
        BY <1>2, <3>3 DEF Publish, ReceivePack, Crash, StableRead, LockRef, ObserveRef, VerifyRef, ReverifyRef, FailUnder,
             UnlockRef, Under, ReadRemote, Push, RebindEndpoint, PinEndpoint, SendPush, PushReturns, Revalidate,
             Rest, BindEndpoint, PushApplies, PushFails
      <4>2. pc'[p] = "replace" => pc[p] = "replace"
        <5>1. CASE StableRead(p) \/ ReadRemote(p)
          <6>1. Classify(p, ref[endpoint].value) \in Verdicts \ {"none"}
            BY ClassifyIsHead DEF Heads, Verdicts, TypeOK
          <6> QED
            BY <5>1, <6>1, Places, ConcludeCases DEF StableRead, LockRef, AcquireLock, ObserveRef, VerifyRef,
               ReverifyRef, FailUnder, UnlockRef, Under, ReadRemote, ReadInv, TypeOK
        <5>2. CASE ~StableRead(p) /\ ~ReadRemote(p)
          BY <1>2, <3>3, <5>2, Places DEF Publish, ReceivePack, Crash, Push, RebindEndpoint, PinEndpoint,
             SendPush, PushReturns, Revalidate, BindEndpoint, PushApplies, PushFails
        <5> QED BY <5>1, <5>2
      <4> QED BY <2>1, <4>1, <4>2 DEF BundleInv, Own
    <3> QED BY <3>2, <3>3
  <2>3. ASSUME NEW q \in Publishers \ {p} PROVE Preserver(q)'
    BY <2>1, <2>2, <2>3 DEF Own, BundleInv
  <2>4. Preserver(p)'
    <3> USE DEF TypeOK
    <3>1. CASE ReplaceBundle(p)
      <4>1. Bundle[p] \in Paths
        BY DEF Paths
      <4>2. phase' = phase
        BY <3>1 DEF ReplaceBundle, Keep
      <4>3. CASE temp[Bundle[p]] = Absent
        BY <2>2, <3>1, <4>2, <4>3, Places DEF ReplaceBundle, BundleInv
      <4>4. CASE temp[Bundle[p]] # Absent
        BY <2>2, <3>1, <4>1, <4>4 DEF ReplaceBundle, BundleInv
      <4> QED BY <4>3, <4>4
    <3>2. CASE RebindEndpoint(p)
      BY <2>2, <3>2, Places DEF RebindEndpoint, BundleInv
    <3>3. CASE ~ReplaceBundle(p) /\ ~RebindEndpoint(p)
      <4>1. phase' = phase
        BY <1>2, <3>3 DEF Publish, ReceivePack, Crash, StableRead, LockRef, ObserveRef, VerifyRef, ReverifyRef, FailUnder,
             UnlockRef, Under, ReadRemote, Preserve, CheckPaths, WriteBundle, CheckBundle, Keep, Push,
             PinEndpoint, SendPush, PushReturns, Revalidate, BindEndpoint, PushApplies, PushFails
      <4>2. pc'[p] = "rebind" => pc[p] = "rebind"
        <5>1. CASE StableRead(p) \/ ReadRemote(p)
          <6>1. Classify(p, ref[endpoint].value) \in Verdicts \ {"none"}
            BY ClassifyIsHead DEF Heads, Verdicts
          <6> QED
            BY <5>1, <6>1, Places, ConcludeCases DEF StableRead, LockRef, AcquireLock, ObserveRef, VerifyRef,
               ReverifyRef, FailUnder, UnlockRef, Under, ReadRemote, ReadInv
        <5>2. CASE ~StableRead(p) /\ ~ReadRemote(p)
          BY <1>2, <3>3, <5>2, Places DEF Publish, ReceivePack, Crash, Preserve, CheckPaths, WriteBundle,
             CheckBundle, FailAndClean, Push, PinEndpoint, SendPush, PushReturns, Revalidate, BindEndpoint,
             PushApplies, PushFails
        <5> QED BY <5>1, <5>2
      <4> QED BY <2>2, <4>1, <4>2 DEF BundleInv
    <3> QED BY <3>1, <3>2, <3>3
  <2> QED BY <2>3, <2>4 DEF BundleInv
<1> QED BY <1>0, <1>1, <1>2 DEF Next

\* Where a bundle path belongs to one candidate, no push of publish() starts
\* before the bundle holds the candidate, and no retry, failure or crash of an
\* invocation takes it away again.
THEOREM BundleKept == ASSUME OwnBundle PROVE Spec => []BundleBeforePush
<1>1. Init => BundleInv
  BY DEF Init, BundleInv, Preserver, Paths
<1>2. Inv /\ BundleInv /\ [Next]_vars => BundleInv'
  BY BundleStep DEF Inv
<1>3. Inv /\ BundleInv => BundleBeforePush
  BY DEF Inv, TypeOK, SendInv, Sender, BundleInv, Preserver, BundleBeforePush
<1> QED BY <1>1, <1>2, <1>3, Invariance, PTL DEF Spec
-----------------------------------------------------------------------------
(* Publication implements GuardedUpdate.  First, how phase, push and answer *)
(* go together, and what a reader that holds the lock has seen.            *)

\* Before the second binding nothing is sent; a read-back follows a push; a push
\* lands once, and on a local endpoint only while its publisher waits for it.
Courier(p) ==
  /\ pc[p] \in Keeping \cup {"idle", "rebind"} => phase[p] = "preflight"
  /\ pc[p] \in {"pin", "push"} => p \notin sent
  /\ phase[p] = "readback" /\ pc[p] \in Reading \cup {"pushing", "revalidate"} => p \in sent
  /\ p \in inflight => \A l \in landed : l.by # p
  /\ local /\ p \in inflight => pc[p] = "pushing" \/ result[p] = "crashed"
CourierInv == \A p \in Publishers : Courier(p)

LEMMA OwnCourier ==
  ASSUME TypeOK, ReadInv, SendInv, HeadInv, CourierInv, NEW p \in Publishers,
         Publish(p) \/ ReceivePack(p) \/ Crash(p), UNCHANGED local
  PROVE  Courier(p)'
<1> USE DEF TypeOK
<1>0. Courier(p) /\ Sender(p) /\ Reporter(p)
  BY DEF CourierInv, SendInv, HeadInv
<1>1. CASE BindEndpoint(p)
  BY <1>0, <1>1, Places DEF BindEndpoint, Courier, Sender, Reading, Keeping
<1>2. CASE StableRead(p)
  <2>1. pc[p] \in Reading /\ UNCHANGED <<phase, sent, inflight, landed>>
    BY <1>2 DEF StableRead, LockRef, AcquireLock, ObserveRef, VerifyRef, ReverifyRef, FailUnder, UnlockRef, Under, Reading
  <2>2. pc'[p] \in Reading \/ pc'[p] = "ended" \/ (pc'[p] = "paths" /\ phase[p] = "preflight")
    <3>1. CASE LockRef(p)
      BY <3>1, Places DEF LockRef, AcquireLock, Reading
    <3>2. CASE ObserveRef(p) \/ VerifyRef(p) \/ ReverifyRef(p)
      BY <3>2, Places DEF ObserveRef, VerifyRef, ReverifyRef, FailUnder, Under, Reading
    <3>3. CASE UnlockRef(p)
      BY <3>3, Places, ConcludeCases DEF UnlockRef, ReadInv
    <3> QED BY <1>2, <3>1, <3>2, <3>3 DEF StableRead
  <2>3. p \notin inflight \/ ~local \/ result[p] = "crashed"
    BY <1>0, <2>1 DEF Courier, Reading
  <2> QED BY <1>0, <2>1, <2>2, <2>3 DEF Courier, Reporter, Reading, Keeping
<1>3. CASE ReadRemote(p)
  <2>1. Classify(p, ref[endpoint].value) \in Verdicts \ {"none"}
    BY ClassifyIsHead DEF Heads, Verdicts
  <2>2. pc'[p] = "ended" \/ (pc'[p] = "paths" /\ phase[p] = "preflight")
    BY <1>3, <2>1, Places, ConcludeCases DEF ReadRemote
  <2>3. ~local /\ UNCHANGED <<phase, sent, inflight, landed>>
    BY <1>0, <1>3 DEF ReadRemote, Sender
  <2> QED BY <1>0, <2>2, <2>3 DEF Courier, Reading, Keeping
<1>4. CASE Preserve(p)
  <2>1. pc[p] \in Keeping /\ pc'[p] \in {"ended", "write", "check", "replace", "rebind"}
    BY <1>4, Places DEF Preserve, CheckPaths, WriteBundle, CheckBundle, ReplaceBundle, FailAndClean, Keeping
  <2>2. UNCHANGED <<phase, sent, inflight, landed>>
    BY <1>4 DEF Preserve, CheckPaths, WriteBundle, CheckBundle, ReplaceBundle, Keep
  <2>3. p \notin inflight
    BY <1>0, <2>1 DEF Courier, Sender
  <2> QED BY <1>0, <2>1, <2>2, <2>3 DEF Courier, Reading, Keeping
<1>5. CASE RebindEndpoint(p) \/ PinEndpoint(p)
  <2>1. p \notin sent /\ UNCHANGED <<sent, inflight, landed>>
    BY <1>0, <1>5 DEF RebindEndpoint, PinEndpoint, Rest, Courier, Sender
  <2>2. pc'[p] \in {"ended", "pin", "push"}
    BY <1>5, Places DEF RebindEndpoint, PinEndpoint
  <2> QED BY <1>0, <2>1, <2>2 DEF Courier, Sender, Reading, Keeping
<1>6. CASE SendPush(p)
  <2>1. /\ p \notin sent /\ p \notin inflight /\ UNCHANGED <<phase, landed>>
        /\ (p \in sent' /\ pc'[p] = "pushing") \/ (UNCHANGED inflight /\ pc'[p] = "ended")
    BY <1>0, <1>6, Places DEF SendPush, Rest, Courier, Sender
  <2>2. \A l \in landed : l.by # p
    BY <2>1 DEF SendInv
  <2> QED BY <2>1, <2>2 DEF Courier, Reading, Keeping
<1>7. CASE PushReturns(p) \/ Revalidate(p)
  <2>1. pc[p] \in {"pushing", "revalidate"} /\ UNCHANGED <<phase, sent, inflight, landed>>
    BY <1>7 DEF PushReturns, Revalidate, Rest
  <2>2. p \in sent /\ (p \notin inflight \/ ~local \/ result[p] = "crashed")
    BY <1>0, <1>7, <2>1 DEF Courier, Sender, PushReturns, ClientMayReturn, Revalidate
  <2>3. pc'[p] \in {"ended", "revalidate", "lock", "read"}
    BY <1>7, Places DEF PushReturns, Revalidate
  <2> QED BY <1>0, <2>1, <2>2, <2>3 DEF Courier, Reporter, Reading, Keeping
<1>8. CASE PushApplies(p) \/ PushFails(p)
  BY <1>0, <1>8 DEF PushApplies, PushFails, Courier
<1>9. CASE Crash(p)
  BY <1>0, <1>9, Places DEF Crash, Courier, Reading, Keeping
<1> QED
  BY <1>1, <1>2, <1>3, <1>4, <1>5, <1>6, <1>7, <1>8, <1>9 DEF Publish, Push, ReceivePack

LEMMA CourierStep == ASSUME Inv, CourierInv, [Next]_vars PROVE CourierInv'
<1> USE DEF Inv
<1>0. CASE UNCHANGED vars
  BY <1>0 DEF vars, CourierInv, Courier
<1>1. CASE Outside /\ UNCHANGED local
  BY <1>1, OutsideFrame DEF CourierInv, Courier
<1>2. ASSUME NEW p \in Publishers, Publish(p) \/ ReceivePack(p) \/ Crash(p), UNCHANGED local
      PROVE  CourierInv'
  <2>1. Own(p) /\ Courier(p)'
    BY <1>2, StepIsOwn, OwnCourier
  <2>2. \A l \in landed' : l \in landed \/ l.by = p
    BY <1>2, Landing, RepoStep
  <2>3. ASSUME NEW q \in Publishers \ {p} PROVE Courier(q)'
    BY <2>1, <2>2 DEF Own, CourierInv, Courier
  <2> QED BY <2>1, <2>3 DEF CourierInv
<1> QED BY <1>0, <1>1, <1>2 DEF Next

\* The mapping.
Branch  == [r \in Repos |-> ref[r].value]
Home    == [p \in Publishers |-> IF pc[p] = "idle" THEN Absent ELSE bound[p]]
Applied == {l.by : l \in landed}
UpdateStep == [Update!UpdateNext]_<<local, Branch, Home, sent, Applied, result>>

Answers == Results \ {"none"}

\* What an answer claims of the bound branch and of the push.
Claims(p, answer) ==
  /\ answer \in {"blocked", "already"} => p \notin sent
  /\ answer \in Heads => p \in sent
  /\ answer \in {"already", "published"} => ref[bound[p]].value = Candidate[p]
  /\ answer = "notPublished" => ref[bound[p]].value = Expected[p]
  /\ answer = "drift" => ref[bound[p]].value \notin {Candidate[p], Expected[p]}

LEMMA ClaimIsTrue ==
  ASSUME TypeOK, NEW p \in Publishers, pc[p] # "idle", NEW answer \in Answers, Claims(p, answer)
  PROVE  Update!IsTrue(p, answer)
<1>1. Branch[Home[p]] = ref[bound[p]].value
  BY DEF TypeOK, Branch, Home
<1> DEFINE value == Branch[Home[p]]
<1>2. /\ answer = "blocked" => p \notin sent
      /\ answer = "already" => p \notin sent /\ value = Candidate[p]
      /\ answer = "published" => p \in sent /\ value = Candidate[p]
      /\ answer = "notPublished" => p \in sent /\ value = Expected[p]
      /\ answer = "drift" => p \in sent /\ value \notin {Candidate[p], Expected[p]}
  BY <1>1 DEF Claims, Heads
<1>3. answer \in {"blocked", "already", "published", "notPublished", "drift",
                  "ambiguous", "escaped", "crashed"}
  BY DEF Answers, Results
<1> HIDE DEF value
<1>4. CASE answer = "blocked"
  BY <1>2, <1>4 DEF Update!IsTrue
<1>5. CASE answer \in {"ambiguous", "escaped", "crashed"}
  BY <1>5 DEF Update!IsTrue
<1>6. CASE answer \in {"already", "published", "notPublished", "drift"}
  BY <1>2, <1>6 DEF Update!IsTrue, value, Branch, Home
<1> QED BY <1>3, <1>4, <1>5, <1>6

\* A step that moves no branch, sends and applies nothing and answers nobody.
LEMMA UpdateStutter ==
  ASSUME UNCHANGED <<local, ref, sent, landed, result>>,
         \A q \in Publishers : /\ pc'[q] = "idle" <=> pc[q] = "idle"
                               /\ pc[q] # "idle" => bound'[q] = bound[q]
  PROVE  UpdateStep
<1>1. Branch' = Branch /\ Applied' = Applied
  BY DEF Branch, Applied
<1>2. Home' = Home
  BY DEF Home
<1> QED BY <1>1, <1>2 DEF UpdateStep

\* An invocation that is under way ends with a true answer.
LEMMA UpdateTell ==
  ASSUME TypeOK, NEW p \in Publishers, pc[p] # "idle", result[p] = "none",
         UNCHANGED <<local, ref, sent, landed>>,
         \A q \in Publishers : pc[q] # "idle" => bound'[q] = bound[q],
         NEW answer \in Answers, End(p, answer), Claims(p, answer)
  PROVE  UpdateStep
<1>1. Branch' = Branch /\ Applied' = Applied
  BY DEF Branch, Applied
<1>2. Home' = Home /\ Home[p] \in Repos
  BY DEF Home, End, TypeOK
<1>3. result' = [result EXCEPT ![p] = answer]
  BY DEF End
<1>4. answer \in {"blocked", "already", "published", "notPublished", "drift",
                  "ambiguous", "escaped", "crashed"}
  BY DEF Answers, Results
<1>5. Update!IsTrue(p, answer)
  BY ClaimIsTrue
<1>6. Update!Tell(p)
  BY <1>1, <1>2, <1>3, <1>4, <1>5 DEF Update!Tell, Branch, Home, Applied
<1> QED BY <1>6 DEF UpdateStep, Update!UpdateNext

\* Everybody else: a branch is written, or nothing is seen of the change.
LEMMA UpdateOutside ==
  ASSUME TypeOK, Outside, UNCHANGED local
  PROVE  UpdateStep
<1>1. UNCHANGED <<local, pc, bound, sent, landed, result>>
  BY OutsideFrame
<1>2. CASE \E r \in Repos : GitWrite(r) \/ RawWrite(r)
  <2>0. PICK r \in Repos : GitWrite(r) \/ RawWrite(r)
    BY <1>2
  <2>1. PICK s \in Shas \cup {Absent}, n \in Nat : Store(r, s, n)
    <3>1. ref[r].file \in Nat
      BY DEF TypeOK, Ref
    <3>2. CASE GitWrite(r)
      BY <3>1, <3>2 DEF GitWrite
    <3>3. CASE RawWrite(r)
      <4>1. PICK s \in Shas \cup {Absent}, k \in {0, 1} : Store(r, s, ref[r].file + k)
        BY <3>3 DEF RawWrite
      <4>2. ref[r].file + k \in Nat
        BY <3>1, <4>1
      <4> QED BY <4>1, <4>2
    <3> QED BY <2>0, <3>2, <3>3
  <2>2. Branch' = [Branch EXCEPT ![r] = s]
    BY <2>1 DEF Store, Branch, TypeOK
  <2>3. Home' = Home /\ Applied' = Applied
    BY <1>1 DEF Home, Applied
  <2>4. Update!WriteElsewhere
    BY <1>1, <2>2, <2>3 DEF Update!WriteElsewhere, Branch, Home, Applied
  <2> QED BY <2>4 DEF UpdateStep, Update!UpdateNext
<1>3. CASE \E r \in Repos : SwapEndpoint(r) \/ BreakLock(r)
  <2>1. UNCHANGED ref
    BY <1>3 DEF SwapEndpoint, BreakLock
  <2> QED BY <1>1, <2>1, UpdateStutter
<1> QED BY <1>2, <1>3 DEF Outside

LEMMA UpdateApprove ==
  ASSUME Inv, CourierInv, NEW p \in Publishers, BindEndpoint(p), UNCHANGED local
  PROVE  UpdateStep
<1> USE DEF Inv, TypeOK
<1>1. /\ pc[p] = "idle" /\ result[p] = "none" /\ p \notin sent /\ phase[p] = "preflight"
      /\ UNCHANGED <<ref, sent, landed>>
  BY DEF BindEndpoint, HeadInv, Reporter, SendInv, Sender, CourierInv, Courier, world
<1>2. pc'[p] # "idle" /\ \A q \in Publishers \ {p} : pc'[q] = pc[q] /\ bound'[q] = bound[q]
  <2>1. pc'[p] # "idle"
    BY Places DEF BindEndpoint
  <2>2. Own(p)
    BY StepIsOwn DEF Publish
  <2> QED BY <2>1, <2>2 DEF Own
<1>3. bound'[p] = endpoint
  BY DEF BindEndpoint
<1>4. Branch' = Branch /\ Applied' = Applied /\ Home[p] = Absent
  BY <1>1 DEF Branch, Applied, Home
<1>5. Home' = [Home EXCEPT ![p] = endpoint]
  BY <1>1, <1>2, <1>3 DEF Home
<1>6. \/ UNCHANGED result
      \/ \E answer \in {"blocked", "escaped"} : result' = [result EXCEPT ![p] = answer]
  BY <1>1 DEF BindEndpoint, Goto, Fail, Raise, Escape, End, ErrorResult
<1>7. Update!Approve(p)
  BY <1>1, <1>4, <1>5, <1>6 DEF Update!Approve, Branch, Home, Applied
<1> QED BY <1>7 DEF UpdateStep, Update!UpdateNext

LEMMA UpdateSend ==
  ASSUME Inv, CourierInv, NEW p \in Publishers, SendPush(p), Goto(p, "pushing"), UNCHANGED local
  PROVE  UpdateStep
<1> USE DEF Inv, TypeOK
<1>1. /\ pc[p] = "push" /\ result[p] = "none" /\ p \notin sent /\ Fit(p)
      /\ sent' = sent \cup {p} /\ UNCHANGED <<ref, landed, bound, result>>
  <2>1. pc'[p] = "pushing"
    BY Places
  <2>2. sent' = sent \cup {p}
    BY <2>1, Places DEF SendPush
  <2> QED
    BY <2>2 DEF SendPush, Rest, Goto, HeadInv, Reporter, SendInv, Sender, CourierInv, Courier, world
<1>2. Branch' = Branch /\ Applied' = Applied
  BY <1>1 DEF Branch, Applied
<1>3. \A q \in Publishers : pc'[q] = "idle" <=> pc[q] = "idle"
  BY <1>1 DEF Goto
<1>4. Home' = Home /\ Home[p] \in Repos
  BY <1>1, <1>3 DEF Home
<1>5. Update!Send(p)
  BY <1>1, <1>2, <1>4 DEF Update!Send, Branch, Home, Applied, Fit
<1> QED BY <1>5 DEF UpdateStep, Update!UpdateNext

LEMMA UpdateApply ==
  ASSUME Inv, CourierInv, NEW p \in Publishers, PushApplies(p), UNCHANGED local
  PROVE  UpdateStep
<1> USE DEF Inv, TypeOK
<1>1. /\ PushTarget(p) = bound[p] /\ p \in sent /\ UNCHANGED <<pc, bound, result, sent>>
      /\ landed' = landed \cup {[by |-> p, in |-> bound[p], over |-> Expected[p]]}
  BY Landing
<1>2. p \in sent \ Applied /\ Applied' = Applied \cup {p}
  <2>1. \A l \in landed : l.by # p
    BY DEF PushApplies, CourierInv, Courier
  <2>2. Applied' = Applied \cup {p}
    <3> DEFINE new == [by |-> p, in |-> bound[p], over |-> Expected[p]]
    <3>1. landed' = landed \cup {new} /\ new.by = p
      BY <1>1
    <3> HIDE DEF new
    <3>2. {l.by : l \in landed'} = {l.by : l \in landed} \cup {p}
      BY <3>1
    <3> QED BY <3>2 DEF Applied
  <2> QED BY <1>1, <2>1, <2>2 DEF Applied
<1>3. pc[p] # "idle" /\ (local => result[p] \in {"none", "crashed"})
  BY <1>1 DEF PushApplies, CourierInv, Courier, HeadInv, Reporter, SendInv, Sender
<1>4. Home' = Home /\ Home[p] = bound[p]
  BY <1>1, <1>3 DEF Home
<1>5. Branch[bound[p]] = Expected[p] /\ Branch' = [Branch EXCEPT ![bound[p]] = Candidate[p]]
  BY <1>1 DEF PushApplies, LeaseHolds, Store, Branch
<1>6. Update!Apply(p)
  BY <1>1, <1>2, <1>3, <1>4, <1>5 DEF Update!Apply, Branch, Home, Applied
<1> QED BY <1>6 DEF UpdateStep, Update!UpdateNext

\* A step of an invocation that is under way, other than its push.
Inner(p) ==
  /\ pc[p] \notin {"idle", "ended"}
  /\ UNCHANGED <<local, ref, sent, landed>>
  /\ \A q \in Publishers : pc[q] # "idle" => bound'[q] = bound[q]

LEMMA UpdateGoes ==
  ASSUME TypeOK, NEW p \in Publishers, Inner(p), NEW there \in Active, Goto(p, there)
  PROVE  UpdateStep
<1>1. \A q \in Publishers : pc'[q] = "idle" <=> pc[q] = "idle"
  BY DEF Inner, Goto, TypeOK, Active, Reading, Keeping
<1>2. UNCHANGED <<local, ref, sent, landed, result>>
  BY DEF Inner, Goto
<1> QED BY <1>1, <1>2, UpdateStutter DEF Inner

LEMMA UpdateEnds ==
  ASSUME Inv, NEW p \in Publishers, Inner(p), NEW answer \in Answers, End(p, answer), Claims(p, answer)
  PROVE  UpdateStep
<1>1. result[p] = "none" /\ pc[p] # "idle"
  BY DEF Inv, HeadInv, Reporter, Inner
<1> QED BY <1>1, UpdateTell DEF Inv, Inner

\* An error is reported as blocked only where nothing has been sent.
LEMMA UpdateFails ==
  ASSUME Inv, NEW p \in Publishers, Inner(p), Fail(p)
  PROVE  UpdateStep
<1>1. phase[p] = "preflight" => p \notin sent
  BY DEF Inv, SendInv, Sender
<1>2. ErrorResult(p) \in Answers /\ Claims(p, ErrorResult(p))
  BY <1>1 DEF ErrorResult, Answers, Results, Claims, Heads
<1>3. "escaped" \in Answers /\ Claims(p, "escaped")
  BY DEF Answers, Results, Claims, Heads
<1> QED BY <1>2, <1>3, UpdateEnds DEF Fail, Raise, Escape

\* A push that could not be started.
LEMMA UpdateUnsent ==
  ASSUME Inv, NEW p \in Publishers, SendPush(p), Escape(p), UNCHANGED local
  PROVE  UpdateStep
<1>1. pc[p] = "push" /\ pc'[p] = "ended"
  BY Places DEF SendPush, Inv
<1>2. UNCHANGED sent
  BY <1>1, Places DEF SendPush, Inv
<1>3. Inner(p)
  BY <1>1, <1>2 DEF Inner, SendPush, Rest, world
<1> QED BY <1>3, UpdateFails DEF Fail

\* A verdict that is the state of the bound branch is told as it is.
LEMMA UpdateConcludes ==
  ASSUME Inv, CourierInv, NEW p \in Publishers, Inner(p), pc[p] \in Reading,
         NEW v \in Verdicts \ {"none"}, Conclude(p, v),
         v \in Heads => v = Classify(p, ref[bound[p]].value)
  PROVE  UpdateStep
<1>1. phase[p] \in {"preflight", "readback"}
  BY DEF Inv, TypeOK
<1>2. /\ phase[p] = "preflight" => p \notin sent
      /\ phase[p] = "readback" => p \in sent
  BY DEF Inv, SendInv, Sender, CourierInv, Courier
<1>3. CASE Fail(p)
  BY <1>3, UpdateFails
<1>4. CASE v \in Heads /\ phase[p] = "readback" /\ End(p, v)
  <2>1. v \in Answers /\ Claims(p, v)
    BY <1>2, <1>4, PublisherAssumption DEF Answers, Results, Claims, Heads, Classify
  <2> QED BY <1>4, <2>1, UpdateEnds
<1>5. CASE v = "published" /\ phase[p] = "preflight" /\ End(p, "already")
  <2>1. "already" \in Answers /\ Claims(p, "already")
    BY <1>2, <1>5, ClassifyIsHead DEF Answers, Results, Claims, Heads
  <2> QED BY <1>5, <2>1, UpdateEnds
<1>6. CASE Goto(p, "paths")
  BY <1>6, UpdateGoes DEF Inv, Active, Keeping
<1> QED BY <1>1, <1>3, <1>4, <1>5, <1>6, ConcludeCases DEF Fail

LEMMA UpdateInner ==
  ASSUME Inv, HeldInv, CourierInv, NEW p \in Publishers, UNCHANGED local,
         \/ StableRead(p) \/ ReadRemote(p) \/ Preserve(p) \/ Crash(p)
         \/ RebindEndpoint(p) \/ PinEndpoint(p) \/ PushReturns(p) \/ Revalidate(p)
  PROVE  UpdateStep
<1> USE EndpointAssumption DEF Inv
<1>0. Inner(p)
  <2>1. \A q \in Publishers : pc[q] # "idle" => bound'[q] = bound[q]
    BY RepoStep DEF Publish, Push
  <2>2. UNCHANGED <<ref, landed>>
    BY DEF StableRead, LockRef, ObserveRef, VerifyRef, ReverifyRef, FailUnder, UnlockRef, Under, ReadRemote, Preserve,
         CheckPaths, WriteBundle, CheckBundle, ReplaceBundle, Keep, Crash, RebindEndpoint, PinEndpoint,
         PushReturns, Revalidate, Rest, world
  <2>3. UNCHANGED sent
    BY DEF StableRead, LockRef, ObserveRef, VerifyRef, ReverifyRef, FailUnder, UnlockRef, Under, ReadRemote, Preserve,
         CheckPaths, WriteBundle, CheckBundle, ReplaceBundle, Keep, Crash, RebindEndpoint, PinEndpoint,
         PushReturns, Revalidate, Rest
  <2>4. pc[p] \notin {"idle", "ended"}
    BY DEF StableRead, LockRef, AcquireLock, ObserveRef, VerifyRef, ReverifyRef, UnlockRef, ReadRemote,
         Preserve, CheckPaths, WriteBundle, CheckBundle, ReplaceBundle, Crash, RebindEndpoint, PinEndpoint,
         PushReturns, Revalidate, Active, Reading, Keeping
  <2> QED BY <2>1, <2>2, <2>3, <2>4 DEF Inner
<1>1. CASE LockRef(p)
  BY <1>0, <1>1, UpdateGoes, UpdateFails DEF LockRef, AcquireLock, Active, Reading
<1>2. CASE ObserveRef(p) \/ VerifyRef(p) \/ ReverifyRef(p)
  <2>1. PICK v, there : Under(p, v, there) /\ there \in Reading
    BY <1>2 DEF ObserveRef, VerifyRef, ReverifyRef, FailUnder, Reading
  <2> QED BY <1>0, <2>1, UpdateGoes DEF Under, Active
<1>3. CASE UnlockRef(p)
  <2>1. pc[p] = "unlock" /\ lock[bound[p]] = p
    BY <1>3 DEF UnlockRef, HeldInv, Holding
  <2>2. Conclude(p, verdict[p])
    BY <1>3, <2>1 DEF UnlockRef
  <2>3. /\ verdict[p] \in Verdicts \ {"none"}
        /\ verdict[p] \in Heads => verdict[p] = Classify(p, ref[bound[p]].value)
    BY <2>1 DEF ReadInv, HeldInv
  <2> QED BY <1>0, <2>1, <2>2, <2>3, UpdateConcludes DEF Reading
<1>4. CASE ReadRemote(p)
  <2>1. pc[p] = "read" /\ bound[p] = endpoint
    BY <1>4 DEF ReadRemote, SendInv, Sender
  <2>2. Classify(p, ref[bound[p]].value) \in Verdicts \ {"none"}
    BY ClassifyIsHead DEF Heads, Verdicts
  <2> QED BY <1>0, <1>4, <2>1, <2>2, UpdateConcludes, UpdateFails DEF ReadRemote, Reading
<1>5. CASE Preserve(p)
  <2>1. Fail(p) \/ \E there \in {"write", "check", "replace", "rebind"} : Goto(p, there)
    BY <1>5 DEF Preserve, CheckPaths, WriteBundle, CheckBundle, ReplaceBundle, FailAndClean, Fail
  <2> QED BY <1>0, <2>1, UpdateFails, UpdateGoes DEF Active, Keeping
<1>6. CASE Crash(p)
  <2>1. "crashed" \in Answers /\ Claims(p, "crashed")
    BY DEF Answers, Results, Claims, Heads
  <2> QED BY <1>0, <1>6, <2>1, UpdateEnds DEF Crash
<1>7. CASE RebindEndpoint(p) \/ PinEndpoint(p) \/ PushReturns(p) \/ Revalidate(p)
  <2>1. Fail(p) \/ \E there \in Active : Goto(p, there)
    BY <1>7, Places DEF RebindEndpoint, PinEndpoint, PushReturns, Revalidate, Fail, Active, Reading
  <2> QED BY <1>0, <2>1, UpdateGoes, UpdateFails
<1> QED
  BY <1>1, <1>2, <1>3, <1>4, <1>5, <1>6, <1>7 DEF StableRead

\* Where nobody bypasses the ref lock, publish() with all its reads, locks,
\* retries, crashes and late pushes is one compare-and-swap of the approved
\* branch, and what it tells is true when it is told.
THEOREM UpdateKept == ASSUME LockRespected PROVE Spec => KeepsUpdate
<1> DEFINE I == Inv /\ HeldInv /\ CourierInv
<1>1. Init => HeldInv /\ CourierInv
  BY EndpointAssumption DEF Init, HeldInv, Holding, CourierInv, Courier, Reading, Keeping
<1>2. I /\ [Next]_vars => I'
  <2>1. Inv /\ [Next]_vars => Inv'
    BY TypeStep, ReadStep, SendStep, HeadStep, LockStep DEF Inv
  <2>2. Inv /\ HeldInv /\ [Next]_vars => HeldInv'
    BY HeldStep DEF Inv
  <2> QED BY <2>1, <2>2, CourierStep
<1>3. Init => Update!UpdateInit
  <2> SUFFICES ASSUME Init PROVE Update!UpdateInit
    OBVIOUS
  <2>1. local \in BOOLEAN /\ Branch \in [Repos -> Shas]
    BY EndpointAssumption DEF Init, Branch
  <2>2. Home = [p \in Publishers |-> Absent] /\ Applied = {} /\ sent = {}
    BY DEF Init, Home, Applied
  <2>3. result = [p \in Publishers |-> "none"]
    BY DEF Init
  <2> QED BY <2>1, <2>2, <2>3 DEF Update!UpdateInit, Branch, Home, Applied
<1>4. I /\ [Next]_vars => UpdateStep
  <2> SUFFICES ASSUME I, [Next]_vars PROVE UpdateStep
    OBVIOUS
  <2>1. CASE UNCHANGED vars
    BY <2>1, UpdateStutter DEF vars
  <2>2. CASE Outside /\ UNCHANGED local
    BY <2>2, UpdateOutside DEF Inv
  <2>3. ASSUME NEW p \in Publishers, Publish(p) \/ ReceivePack(p) \/ Crash(p), UNCHANGED local
        PROVE  UpdateStep
    <3>1. CASE PushFails(p)
      BY <2>3, <3>1, UpdateStutter DEF PushFails, world
    <3>2. CASE SendPush(p)
      <4>1. Goto(p, "pushing") \/ Escape(p)
        BY <3>2 DEF SendPush
      <4> QED
        BY <2>3, <3>2, <4>1, UpdateSend, UpdateUnsent
    <3> QED
      BY <2>3, <3>1, <3>2, UpdateApprove, UpdateApply, UpdateInner DEF Publish, Push, ReceivePack
  <2> QED BY <2>1, <2>2, <2>3 DEF Next
<1>5. UpdateStep => [Update!UpdateNext]_(Update!updateVars)
  BY DEF UpdateStep, Update!updateVars, Branch, Home, Applied
<1> QED
  BY <1>1, <1>2, <1>3, <1>4, <1>5, InitInv, PTL DEF Spec, KeepsUpdate, Update!UpdateSpec
-----------------------------------------------------------------------------
(* An invocation has no loop.  What keeps it from ending is only a step    *)
(* that is never taken, which is what the fairness of PublishEnds excludes. *)

\* The longest way from a place to the end, the read apart that comes first.
Ahead == [idle |-> 20, lock |-> 5, read |-> 5, observe |-> 4, verify |-> 3, reverify |-> 2,
          unlock |-> 1, paths |-> 14, write |-> 13, check |-> 12, replace |-> 11, rebind |-> 10,
          pin |-> 9, push |-> 8, pushing |-> 7, revalidate |-> 6, ended |-> 0]
FirstRead(p) == pc[p] \in Reading /\ phase[p] = "preflight"
StepsLeft(p) == Ahead[pc[p]] + (IF FirstRead(p) THEN Ahead.paths ELSE 0)

\* The first read, the bundle, the push and its read-back: each goes on to a
\* place nearer the end.
LEMMA GoesOn ==
  ASSUME Inv, NEW p \in Publishers, Publish(p), UNCHANGED local
  PROVE  \/ pc'[p] = "ended" /\ pc[p] # "ended"
         \/ pc[p] = "idle" /\ pc'[p] \in {"lock", "read"}
         \/ /\ phase'[p] = phase[p]
            /\ <<pc[p], pc'[p]>> \in {<<"lock", "observe">>, <<"observe", "verify">>, <<"observe", "unlock">>,
                 <<"verify", "reverify">>, <<"verify", "unlock">>, <<"reverify", "unlock">>}
         \/ pc[p] \in {"unlock", "read"} /\ phase[p] = "preflight" /\ pc'[p] = "paths"
         \/ <<pc[p], pc'[p]>> \in {<<"paths", "write">>, <<"write", "check">>, <<"check", "replace">>,
              <<"replace", "rebind">>, <<"rebind", "pin">>, <<"rebind", "push">>, <<"pin", "push">>,
              <<"push", "pushing">>, <<"pushing", "revalidate">>}
         \/ /\ pc[p] = "revalidate" /\ pc'[p] \in {"lock", "read"}
            /\ phase[p] = "readback" /\ phase'[p] = "readback"
<1>1. TypeOK /\ ReadInv /\ Sender(p) /\ phase[p] \in {"preflight", "readback"}
  BY DEF Inv, SendInv, TypeOK
<1>2. /\ \A there : Goto(p, there) => pc'[p] = there
      /\ \A r : End(p, r) => pc'[p] = "ended"
      /\ Fail(p) => pc'[p] = "ended"
      /\ Read(p) \in {"lock", "read"}
  BY <1>1, Places
<1>3. \A v \in Verdicts \ {"none"} :
        Conclude(p, v) => pc'[p] = "ended" \/ (phase[p] = "preflight" /\ pc'[p] = "paths")
  BY <1>1, <1>2, ConcludeCases DEF Fail
<1>4. CASE BindEndpoint(p) \/ Preserve(p)
  BY <1>2, <1>4
  DEF BindEndpoint, Preserve, CheckPaths, WriteBundle, CheckBundle, ReplaceBundle, FailAndClean, Fail
<1>5. CASE LockRef(p)
  BY <1>2, <1>5 DEF LockRef, AcquireLock
<1>6. CASE ObserveRef(p) \/ VerifyRef(p) \/ ReverifyRef(p)
  BY <1>2, <1>6 DEF ObserveRef, VerifyRef, ReverifyRef, FailUnder, Under
<1>7. CASE UnlockRef(p)
  <2>1. pc[p] = "unlock" /\ verdict[p] \in Verdicts \ {"none"}
    BY <1>1, <1>7 DEF UnlockRef, ReadInv
  <2> QED
    BY <1>2, <1>3, <1>7, <2>1 DEF UnlockRef, Fail
<1>8. CASE ReadRemote(p)
  <2>1. pc[p] = "read" /\ Classify(p, ref[endpoint].value) \in Verdicts \ {"none"}
    BY <1>8, ClassifyIsHead DEF Heads, Verdicts, ReadRemote
  <2> QED
    BY <1>2, <1>3, <1>8, <2>1 DEF ReadRemote
<1>9. CASE RebindEndpoint(p) \/ PinEndpoint(p) \/ SendPush(p) \/ PushReturns(p)
  BY <1>2, <1>9 DEF RebindEndpoint, PinEndpoint, SendPush, PushReturns, Fail
<1>10. CASE Revalidate(p)
  <2>1. pc[p] = "revalidate" /\ phase[p] = "readback" /\ phase' = phase
    BY <1>1, <1>10 DEF Revalidate, Sender
  <2> QED
    BY <1>2, <1>10, <2>1 DEF Revalidate
<1> QED
  BY <1>4, <1>5, <1>6, <1>7, <1>8, <1>9, <1>10 DEF Publish, StableRead, Push

\* Each of those places is nearer the end.
LEMMA NearerTheEnd ==
  ASSUME Inv, Inv', NEW p \in Publishers, Publish(p) \/ Crash(p), UNCHANGED local
  PROVE  StepsLeft(p)' < StepsLeft(p)
<1> DEFINE Left(place, first) == Ahead[place] + (IF place \in Reading /\ first THEN Ahead.paths ELSE 0)
<1>1. /\ pc[p] \in Active \cup {"idle", "ended"} /\ pc'[p] \in Active \cup {"idle", "ended"}
      /\ phase[p] \in {"preflight", "readback"} /\ phase'[p] \in {"preflight", "readback"}
  BY DEF Inv, TypeOK
<1>2. PICK place, next, first, again :
        /\ place = pc[p] /\ next = pc'[p]
        /\ first = (phase[p] = "preflight") /\ again = (phase'[p] = "preflight")
  OBVIOUS
<1>3. StepsLeft(p) = Left(place, first) /\ StepsLeft(p)' = Left(next, again)
  BY <1>2 DEF StepsLeft, FirstRead
<1>4. ASSUME next = "ended", place \in Active \cup {"idle"} PROVE Left(next, again) < Left(place, first)
  BY <1>4 DEF Ahead, Reading, Active, Keeping
<1>5. CASE Crash(p)
  <2>1. next = "ended" /\ place \in Active
    BY <1>2, <1>5, Places DEF Crash, Inv
  <2> QED
    BY <1>3, <1>4, <2>1
<1>6. CASE Publish(p)
  <2>1. \/ next = "ended" /\ place # "ended"
        \/ place = "idle" /\ next \in {"lock", "read"}
        \/ /\ again = first
           /\ <<place, next>> \in {<<"lock", "observe">>, <<"observe", "verify">>, <<"observe", "unlock">>,
                <<"verify", "reverify">>, <<"verify", "unlock">>, <<"reverify", "unlock">>}
        \/ place \in {"unlock", "read"} /\ first /\ next = "paths"
        \/ <<place, next>> \in {<<"paths", "write">>, <<"write", "check">>, <<"check", "replace">>,
             <<"replace", "rebind">>, <<"rebind", "pin">>, <<"rebind", "push">>, <<"pin", "push">>,
             <<"push", "pushing">>, <<"pushing", "revalidate">>}
        \/ place = "revalidate" /\ next \in {"lock", "read"} /\ ~again
    BY <1>2, <1>6, GoesOn
  <2>2. Left(next, again) < Left(place, first)
    BY <1>1, <1>2, <1>4, <2>1 DEF Ahead, Reading
  <2> QED
    BY <1>3, <2>2
<1> QED
  BY <1>5, <1>6

\* No invocation takes more than twenty steps: every step it takes, whatever
\* it reads, brings it nearer its end, and no step of anybody else takes it
\* away from there.
NeverTurnsBack ==
  [][\A p \in Publishers :
       /\ StepsLeft(p) \in 0..20
       /\ Publish(p) \/ Crash(p) => StepsLeft(p)' < StepsLeft(p)
       /\ ~(Publish(p) \/ Crash(p)) => StepsLeft(p)' = StepsLeft(p)]_vars

\* publish() terminates unless it stands still: it has no loop, and rivals,
\* outside actors and crashes add no step to it.
THEOREM PublishIsShort == Spec => NeverTurnsBack
<1>1. ASSUME Inv, Inv', Next, NEW p \in Publishers
      PROVE  /\ StepsLeft(p) \in 0..20
             /\ Publish(p) \/ Crash(p) => StepsLeft(p)' < StepsLeft(p)
             /\ ~(Publish(p) \/ Crash(p)) => StepsLeft(p)' = StepsLeft(p)
  <2>1. StepsLeft(p) \in 0..20
    <3>1. pc[p] \in Active \cup {"idle", "ended"}
      BY <1>1 DEF Inv, TypeOK
    <3> QED
      BY <3>1 DEF StepsLeft, FirstRead, Ahead, Active, Reading, Keeping
  <2>2. UNCHANGED local
    BY <1>1 DEF Next
  <2>3. ASSUME ~(Publish(p) \/ Crash(p)) PROVE StepsLeft(p)' = StepsLeft(p)
    <3>1. CASE Outside
      BY <3>1 DEF Outside, GitWrite, RawWrite, SwapEndpoint, BreakLock, Change, StepsLeft, FirstRead
    <3>2. ASSUME NEW q \in Publishers, q # p, Publish(q) \/ ReceivePack(q) \/ Crash(q)
          PROVE  StepsLeft(p)' = StepsLeft(p)
      <4>1. Own(q)
        BY <1>1, <2>2, <3>2, StepIsOwn DEF Inv
      <4> QED
        BY <3>2, <4>1 DEF Own, StepsLeft, FirstRead
    <3>3. CASE ReceivePack(p)
      BY <3>3 DEF ReceivePack, PushApplies, PushFails, StepsLeft, FirstRead
    <3> QED
      BY <1>1, <2>3, <3>1, <3>2, <3>3 DEF Next
  <2> QED
    BY <1>1, <2>1, <2>2, <2>3, NearerTheEnd
<1>2. Inv /\ Inv' /\ [Next]_vars =>
        [\A p \in Publishers :
           /\ StepsLeft(p) \in 0..20
           /\ Publish(p) \/ Crash(p) => StepsLeft(p)' < StepsLeft(p)
           /\ ~(Publish(p) \/ Crash(p)) => StepsLeft(p)' = StepsLeft(p)]_vars
  BY <1>1
<1> QED
  BY <1>2, Invariance, PTL DEF Spec, NeverTurnsBack
=============================================================================
