-------------------------- MODULE ExecutionRouting --------------------------
(***************************************************************************)
(* Admission of a task packet, and what happens under it.                  *)
(*                                                                         *)
(* A session reads the GitHub facts of its task one by one into the        *)
(* packet's preflight, reads them again as live state, and presents the    *)
(* packet to validate_packet(): the route, the preflight against the live  *)
(* state, and the parallel lanes with their owned paths, dependencies,     *)
(* leases and integration order.  Under an admitted packet the lanes work  *)
(* and merge; under a host exception, each call on the host is judged by   *)
(* validate_remote_desktop_call() against live state read once more.       *)
(***************************************************************************)
EXTENDS OwnedPaths, DependencySort

CONSTANTS
  Fields,      \* identities of a preflight that can move: default branch, task head
  Files,       \* paths of the repository
  Packets,     \* packets a session may present
  Runners,     \* target_runner_compatibility: the runner classes of each target
  Purposes,    \* remote_desktop_reason_action_compatibility: the actions of each reason
  KnownTools,  \* known_remote_desktop_tools
  Forbidden,   \* always_forbidden_remote_desktop_tools
  HostCalls,   \* calls a session may ask for
  MaxAge,      \* preflight_freshness.max_age_seconds
  MaxMoves,    \* bound on the changes of the facts
  MaxClock,    \* bound on the clock
  Unread,      \* a fact that has not been read
  NoPacket     \* no packet has been presented

VARIABLES
  facts,    \* version of every fact; it only grows, for commits do not come back
  moves,    \* number of changes so far
  clock,
  stage,    \* of the session
  pre,      \* the packet's github_preflight: what was read, and verified_at
  live,     \* live_state: what was read, and evaluated_at
  packet,   \* the packet that was presented
  work,     \* what each lane does
  held,     \* the lane that holds each lease
  calls,    \* history: host calls that were authorized
  between   \* history: the facts when the preflight was complete, and the time

worldVars   == <<facts, moves, clock>>
sessionVars == <<stage, pre, live, packet>>
laneVars    == <<work, held>>
vars == <<worldVars, sessionVars, sortVars, laneVars, calls, between>>

Free == 0
Idle == <<>>
Stages == {"preflight", "live", "sorting", "admitted", "rejected"}
Reading == [facts: [Fields -> Nat \cup {Unread}], at: Nat]
NothingRead == [f \in Fields |-> Unread]
Resources == UNION {UNION {{c.resource : c \in p.lanes[i].leases} : i \in DOMAIN p.lanes} : p \in Packets}

ASSUME RoutingAssumption ==
  /\ Unread \notin Nat
  /\ NoPacket \notin Packets
  /\ MaxAge \in Nat
  /\ Fields # {}
  /\ \A path \in Files : IsSequence(path)
  /\ \A p \in Packets : IsSequence(p.lanes) /\ IsSequence(p.order)
  /\ \A p \in Packets : \A i \in DOMAIN p.lanes : \A g \in p.lanes[i].paths : IsSequence(g)
  /\ KnownTools \cap Forbidden = {}   \* _policy_errors()
-----------------------------------------------------------------------------
(* The route: target, runner, and the host exception.                      *)

NoRepeats(s) == \A i, j \in DOMAIN s : s[i] = s[j] => i = j
Among(s, set) == s # <<>> /\ NoRepeats(s) /\ \A i \in DOMAIN s : s[i] \in set

\* An exception has one reason, no equivalent workflow, and lists its actions
\* and tools; the actions of a reason never include polling.
ExceptionHolds(p) ==
  /\ p.reason \in DOMAIN Purposes
  /\ ~p.equivalent_ci
  /\ Among(p.actions, Purposes[p.reason])
  /\ Among(p.tools, KnownTools)

RouteHolds(p) ==
  /\ p.target \in DOMAIN Runners /\ p.runner \in Runners[p.target]
  /\ p.target = "host_exception" <=> p.exception
  /\ IF p.exception THEN ExceptionHolds(p)
     ELSE p.reason = "not_applicable" /\ p.actions = <<>> /\ p.tools = <<>>
-----------------------------------------------------------------------------
(* The preflight.                                                          *)

Complete(reading) == \A f \in Fields : reading.facts[f] # Unread

OneFieldAgrees == \E f \in Fields : pre.facts[f] = live.facts[f]   \* mutant

\* The code also wants the live state to repeat the preflight's verified_at.  It is
\* left out: here a live state that repeats another is accepted as well.
Agrees == \A f \in Fields : pre.facts[f] = live.facts[f]

PreflightHolds ==
  /\ Complete(pre) /\ Complete(live)
  /\ Agrees
  /\ pre.at <= live.at
  /\ live.at - pre.at <= MaxAge
-----------------------------------------------------------------------------
(* The lanes.                                                              *)

Lanes(p) == DOMAIN p.lanes
Ids(p) == {p.lanes[i].id : i \in Lanes(p)}
DependsOn(p, i) == {j \in Lanes(p) : p.lanes[j].id \in p.lanes[i].depends_on}

StrategyHolds(p) ==
  \/ p.strategy = "single_agent" /\ Len(p.lanes) = 1
  \/ p.strategy = "parallel_when_beneficial" /\ Len(p.lanes) >= 2

IdsAreUnique(p) == \A i, j \in Lanes(p) : p.lanes[i].id = p.lanes[j].id => i = j

\* Neither a branch nor a worktree is shared.
IsIsolated(p) ==
  \A i, j \in Lanes(p) :
    p.lanes[i].branch = p.lanes[j].branch \/ p.lanes[i].worktree = p.lanes[j].worktree => i = j

PathsHold(p) ==
  \A i \in Lanes(p) : /\ p.lanes[i].paths # {}
                      /\ \A g \in p.lanes[i].paths : IsSupportedPathGlob(g)

DependenciesHold(p) ==
  \A i \in Lanes(p) : p.lanes[i].depends_on \subseteq Ids(p) \ {p.lanes[i].id}

Claims(p, i, r) == {c \in p.lanes[i].leases : c.resource = r}
Declarers(p, r) == {i \in Lanes(p) : Claims(p, i, r) # {}}
Holders(p, r) ==
  {i \in Lanes(p) : \E j \in Declarers(p, r) : \E c \in Claims(p, j, r) : c.holder = p.lanes[i].id}

\* Exactly one lane holds the lease and declares it, and every claim is
\* structured.
IsLease(p, r) ==
  /\ \E i \in Declarers(p, r) : Holders(p, r) = {i}
  /\ \A i \in Declarers(p, r) : \A c \in Claims(p, i, r) : c.structured

LeasesOf(p, i) == {r \in Resources : i \in Declarers(p, r) /\ IsLease(p, r)}
LeasesHold(p) == \A r \in Resources : Declarers(p, r) # {} => IsLease(p, r)

AnyoneHasLease(p, i, j) == LeasesOf(p, i) \cup LeasesOf(p, j) # {}   \* mutant
ShareALease(p, i, j) == LeasesOf(p, i) \cap LeasesOf(p, j) # {}

Overlap(p, i, j) == \E g \in p.lanes[i].paths, h \in p.lanes[j].paths : PathsOverlap(g, h)

OverlapsAreLeased(p) ==
  \A i, j \in Lanes(p) : i < j /\ Overlap(p, i, j) => ShareALease(p, i, j)

ConstrainedAreLeased(p) == \A r \in p.constrained : \E i \in Lanes(p) : r \in LeasesOf(p, i)

Position(p, i) == CHOOSE k \in DOMAIN p.order : p.order[k] = p.lanes[i].id

ListsEveryLane(p) ==
  /\ Len(p.order) = Len(p.lanes)
  /\ {p.order[k] : k \in DOMAIN p.order} = Ids(p)

DependentsFirst(p) ==   \* mutant: the comparison of the positions is swapped
  \A i \in Lanes(p) : \A j \in DependsOn(p, i) : Position(p, i) <= Position(p, j)
DependenciesFirst(p) ==
  \A i \in Lanes(p) : \A j \in DependsOn(p, i) : Position(p, j) <= Position(p, i)

LanesHold(p) ==
  /\ StrategyHolds(p) /\ IsIsolated(p) /\ PathsHold(p) /\ DependenciesHold(p)
  /\ LeasesHold(p) /\ OverlapsAreLeased(p) /\ ConstrainedAreLeased(p)
  /\ ListsEveryLane(p) /\ DependenciesFirst(p)
-----------------------------------------------------------------------------
(* The calls on the host.                                                  *)

\* Arguments are compared without their runtime-only part.
Canonical(arguments) == arguments.semantic

DeclarationsHold(p) ==
  /\ p.calls # <<>>
  /\ \A i \in DOMAIN p.calls : \E k \in DOMAIN p.tools : p.tools[k] = p.calls[i].tool
  /\ \A i, j \in DOMAIN p.calls :
       /\ p.calls[i].tool = p.calls[j].tool
       /\ Canonical(p.calls[i].arguments) = Canonical(p.calls[j].arguments)
       => i = j

SameTool(d, c) == d.tool = c.tool   \* mutant: the arguments are not compared
SameCall(d, c) == d.tool = c.tool /\ Canonical(d.arguments) = Canonical(c.arguments)

CallHolds(p, c) ==
  /\ c.tool \in KnownTools \ Forbidden
  /\ p.exception
  /\ c.action \in Purposes[p.reason]
  /\ \E k \in DOMAIN p.actions : p.actions[k] = c.action
  /\ \E k \in DOMAIN p.tools : p.tools[k] = c.tool
  /\ DeclarationsHold(p)
  /\ \E k \in DOMAIN p.calls : SameCall(p.calls[k], c)
-----------------------------------------------------------------------------
Init ==
  /\ facts = [f \in Fields |-> 0]
  /\ moves = 0
  /\ clock = 0
  /\ stage = "preflight"
  /\ pre = [facts |-> NothingRead, at |-> 0]
  /\ live = [facts |-> NothingRead, at |-> 0]
  /\ packet = NoPacket
  /\ SortInit
  /\ work = Idle
  /\ held = Idle
  /\ calls = {}
  /\ between = [facts |-> facts, at |-> 0]

(* The world.  It stands still while nobody is going to look at it.        *)

UnderException == stage = "admitted" /\ packet.exception
Watched == stage \in {"preflight", "live"} \/ UnderException
World == Watched /\ UNCHANGED <<sessionVars, sortVars, laneVars, calls, between>>

Move(f) ==
  /\ World
  /\ moves < MaxMoves
  /\ moves' = moves + 1
  /\ facts' = [facts EXCEPT ![f] = @ + 1]
  /\ UNCHANGED clock

Tick ==
  /\ World
  /\ clock < MaxClock
  /\ clock' = clock + 1
  /\ UNCHANGED <<facts, moves>>
-----------------------------------------------------------------------------
(* The session reads, presents, and reads again.                           *)

Session == UNCHANGED <<worldVars, laneVars>>

\* verified_at is stamped when the reading begins, or with any of its reads.
ReadPreflight(f) ==
  /\ stage = "preflight"
  /\ pre.facts[f] = Unread
  /\ \E t \in {pre.at, clock} : pre' = [facts |-> [pre.facts EXCEPT ![f] = facts[f]], at |-> t]
  /\ IF \A g \in Fields \ {f} : pre.facts[g] # Unread
     THEN stage' = "live" /\ between' = [facts |-> facts, at |-> clock]
     ELSE UNCHANGED <<stage, between>>
  /\ UNCHANGED <<live, packet, sortVars, calls>>
  /\ Session

\* The last fact that is read completes the live state.
ReadLive(f) ==
  /\ stage = "live" \/ UnderException
  /\ live.facts[f] = Unread
  /\ live' = [facts |-> [live.facts EXCEPT ![f] = facts[f]], at |-> clock]
  /\ UNCHANGED <<stage, pre, packet, sortVars, calls, between>>
  /\ Session

\* Route and preflight are judged first.  A packet that fails is rejected
\* whatever its lanes are, and so is one that names a lane twice.
Present(p) ==
  /\ stage = "live" /\ Complete(live)
  /\ IF RouteHolds(p) /\ PreflightHolds /\ IdsAreUnique(p)
     THEN /\ stage' = "sorting"
          /\ packet' = p
          /\ Prepare([i \in Lanes(p) |-> DependsOn(p, i)])
     ELSE stage' = "rejected" /\ UNCHANGED <<packet, sortVars>>
  /\ UNCHANGED <<pre, live, calls, between>>
  /\ Session

Sort ==
  /\ stage = "sorting"
  /\ \E i \in ready : Process(i)
  /\ UNCHANGED <<sessionVars, calls, between>>
  /\ Session

FirstHolder(p, r) == IF IsLease(p, r) THEN CHOOSE i \in Lanes(p) : Holders(p, r) = {i} ELSE Free

Decide ==
  /\ stage = "sorting" /\ ready = {}
  /\ IF ~HasDependencyCycle /\ LanesHold(packet)
     THEN /\ stage' = "admitted"
          /\ work' = [i \in Lanes(packet) |-> "waiting"]
          /\ held' = [r \in Resources |-> FirstHolder(packet, r)]
          /\ UNCHANGED packet
     ELSE stage' = "rejected" /\ packet' = NoPacket /\ UNCHANGED laneVars
  /\ Forget
  /\ UNCHANGED <<worldVars, pre, live, calls, between>>

\* A rejected session verifies its preflight anew.
Refresh ==
  /\ stage = "rejected"
  /\ stage' = "preflight"
  /\ pre' = [facts |-> NothingRead, at |-> clock]
  /\ live' = [facts |-> NothingRead, at |-> 0]
  /\ UNCHANGED <<packet, sortVars, calls, between>>
  /\ Session

\* Live state is read anew for a call; the gate itself does not ask for it.
RereadLive ==
  /\ UnderException
  /\ live' = [facts |-> NothingRead, at |-> 0]
  /\ UNCHANGED <<stage, pre, packet, sortVars, calls, between>>
  /\ Session

\* The gate validates the packet again: of what it was admitted by, only the
\* live state can have changed.
AuthorizeCall(c) ==
  /\ UnderException
  /\ PreflightHolds
  /\ CallHolds(packet, c)
  /\ calls' = calls \cup {c}
  /\ UNCHANGED <<sessionVars, sortVars, between>>
  /\ Session
-----------------------------------------------------------------------------
(* The lanes at work.  Dependencies are merged before a lane starts; it    *)
(* keeps its leases until it is merged; leases pass on, and lanes merge,   *)
(* in the integration order.                                               *)

Before(i, j) == Position(packet, i) < Position(packet, j)

MayHave(i, r) ==
  \/ held[r] = i
  \/ /\ held[r] = Free
     /\ \A j \in Declarers(packet, r) : Before(j, i) => work[j] = "merged"

CanStart(i) ==
  /\ work[i] = "waiting"
  /\ \A j \in DependsOn(packet, i) : work[j] = "merged"
  /\ \A r \in LeasesOf(packet, i) : MayHave(i, r)

CanMerge(i) ==
  /\ work[i] = "working"
  /\ \A j \in Lanes(packet) : Before(j, i) => work[j] = "merged"

StartLane(i) ==
  /\ stage = "admitted" /\ CanStart(i)
  /\ work' = [work EXCEPT ![i] = "working"]
  /\ held' = [r \in Resources |-> IF r \in LeasesOf(packet, i) THEN i ELSE held[r]]
  /\ UNCHANGED <<worldVars, sessionVars, sortVars, calls, between>>

MergeLane(i) ==
  /\ stage = "admitted" /\ CanMerge(i)
  /\ work' = [work EXCEPT ![i] = "merged"]
  /\ held' = [r \in Resources |-> IF held[r] = i THEN Free ELSE held[r]]
  /\ UNCHANGED <<worldVars, sessionVars, sortVars, calls, between>>

LaneStep == \E i \in DOMAIN work : StartLane(i) \/ MergeLane(i)
-----------------------------------------------------------------------------
Next ==
  \/ Tick
  \/ \E f \in Fields : Move(f) \/ ReadPreflight(f) \/ ReadLive(f)
  \/ \E p \in Packets : Present(p)
  \/ Sort \/ Decide \/ Refresh \/ RereadLive
  \/ \E c \in HostCalls : AuthorizeCall(c)
  \/ LaneStep

Spec == Init /\ [][Next]_vars

\* Some lane that can go on does: agents are assumed to finish their work.
FairSpec == Spec /\ WF_vars(LaneStep)
-----------------------------------------------------------------------------
(* Properties *)

LaneStates == {"waiting", "working", "merged"}

TypeOK ==
  /\ facts \in [Fields -> Nat]
  /\ moves \in Nat /\ clock \in Nat
  /\ stage \in Stages
  /\ pre \in Reading /\ live \in Reading
  /\ between \in [facts: [Fields -> Nat], at: Nat]
  /\ IF stage \in {"sorting", "admitted"} THEN packet \in Packets ELSE packet = NoPacket
  /\ stage = "admitted" => /\ work \in [Lanes(packet) -> LaneStates]
                           /\ held \in [Resources -> Lanes(packet) \cup {Free}]
  /\ calls \subseteq HostCalls

\* Whatever passes the preflight, a packet or a host call, rests on facts that
\* were all true at one moment, at most MaxAge before the evaluation, although
\* they were read one by one while they moved.
PreflightIsSnapshot ==
  PreflightHolds => /\ between.facts = pre.facts
                    /\ live.at - MaxAge <= between.at
                    /\ between.at <= live.at

\* The queue ends with lanes left over if and only if dependencies are cyclic.
CycleIsFound == stage = "sorting" /\ ready = {} => (HasDependencyCycle <=> Cyclic)

Works(i) == stage = "admitted" /\ work[i] = "working"

\* Two lanes at work never own the same file, branch, worktree or resource,
\* whatever patterns and leases the packet came with.
NoCollision ==
  \A i, j \in DOMAIN work :
    i # j /\ Works(i) /\ Works(j) =>
      /\ ~ \E g \in packet.lanes[i].paths, h \in packet.lanes[j].paths :
             \E path \in Files : Owns(g, path) /\ Owns(h, path)
      /\ packet.lanes[i].branch # packet.lanes[j].branch
      /\ packet.lanes[i].worktree # packet.lanes[j].worktree
      /\ LeasesOf(packet, i) \cap LeasesOf(packet, j) = {}

AllMerged == \A i \in DOMAIN work : work[i] = "merged"

\* The lane waits for a lease which is held by one that may merge only after it.
LockedOut(i) ==
  /\ work[i] = "waiting"
  /\ \E r \in LeasesOf(packet, i) : held[r] \notin {Free, i} /\ Before(i, held[r])

\* Lanes of an admitted packet wait for one another for ever in one case only:
\* the holder of a lease comes later in the integration order than a lane that
\* declares it.  validate_packet() checks dependencies, holders and the order
\* one by one; together they lock no lanes in any other way.
NeverStuck ==
  stage = "admitted" =>
    AllMerged \/ \E i \in DOMAIN work : CanStart(i) \/ CanMerge(i) \/ LockedOut(i)

\* The first holder of every lease comes first in the integration order, which
\* validate_packet() does not ask for.
HoldersFirst ==
  \A r \in Resources : \A i \in Holders(packet, r), j \in Declarers(packet, r) :
    Position(packet, i) <= Position(packet, j)

\* Every lane of an admitted packet is merged in the end, provided that in this
\* packet the first holder of every lease comes first in the integration order.
AdmittedCompletes == stage = "admitted" /\ HoldersFirst ~> AllMerged

\* A host call is made only under an exception without an equivalent workflow,
\* for the one purpose of the packet, and only as the packet declares it.
HostCallIsBound ==
  \A c \in calls :
    /\ UnderException /\ ~packet.equivalent_ci
    /\ c.action \in Purposes[packet.reason]
    /\ c.tool \notin Forbidden
    /\ \E k \in DOMAIN packet.calls :
         packet.calls[k].tool = c.tool
           /\ Canonical(packet.calls[k].arguments) = Canonical(c.arguments)
=============================================================================
