------------------------ MODULE ExecutionRouting_proofs ------------------------
(***************************************************************************)
(* Proofs about the admission of packets and the work under it, for every  *)
(* packet, number of lanes, pattern, lease, policy matrix and bound.       *)
(***************************************************************************)
EXTENDS ExecutionRouting, FiniteSetTheorems, WellFoundedInduction, TLAPS

LEMMA LeastNumber ==
  ASSUME NEW T \in SUBSET Nat, T # {}
  PROVE  \E x \in T : \A y \in T : x <= y
<1> DEFINE Less == {ss \in Nat \X Nat : ss[1] < ss[2]}
<1>1. IsWellFoundedOn(Less, Nat)
  BY NatLessThanWellFounded, Zenon DEF OpToRel
<1> HIDE DEF Less
<1>2. PICK x \in T : \A y \in T : ~ (<<y, x>> \in Less)
  BY <1>1, WFMin, Zenon
<1>3. \A y \in T : <<y, x>> \in Less <=> y < x
  BY DEF Less
<1>4. ASSUME NEW y \in T PROVE x <= y
  <2>1. x \in Nat /\ y \in Nat /\ ~ (y < x)
    BY <1>2, <1>3
  <2> QED BY <2>1
<1> QED BY <1>4

-----------------------------------------------------------------------------
(* Owned paths.                                                            *)

\* Up to its first wildcard a pattern takes one segment of the path for each
\* of its own.
LEMMA PrefixIsLiteral ==
  ASSUME NEW g, IsSequence(g), IsSupportedPathGlob(g),
         NEW path, IsSequence(path),
         NEW upTo \in [0..Len(g) -> 0..Len(path)],
         upTo[0] = 0, \A i \in DOMAIN g : Takes(g[i], path, upTo[i - 1], upTo[i]),
         NEW n \in DOMAIN g, InPrefix(g, n)
  PROVE  upTo[n] = n
<1> DEFINE Off == {i \in 0..n : upTo[i] # i}
<1> USE DEF IsSequence
<1> SUFFICES ASSUME Off # {} PROVE FALSE
  OBVIOUS
<1>1. PICK m \in Off : \A i \in Off : m <= i
  BY LeastNumber, Off \subseteq Nat, Zenon
<1>2. m \in 1..n /\ m - 1 \in 0..n /\ m - 1 \notin Off
  BY <1>1
<1>3. upTo[m - 1] = m - 1
  BY <1>2
<1>4. m \in DOMAIN g /\ g[m] \notin Wildcards
  BY <1>2 DEF InPrefix
<1>5. g[m] # Fragment /\ g[m] # Star /\ g[m] # StarStar
  BY <1>4 DEF IsSupportedPathGlob, Wildcards
<1>6. Takes(g[m], path, m - 1, upTo[m])
  BY <1>3, <1>4
<1>7. upTo[m] = (m - 1) + 1
  BY <1>5, <1>6 DEF Takes
<1> QED BY <1>1, <1>2, <1>7

LEMMA PrefixIsPath ==
  ASSUME NEW g, IsSequence(g), IsSupportedPathGlob(g),
         NEW path, IsSequence(path), Owns(g, path),
         NEW n \in DOMAIN g, InPrefix(g, n)
  PROVE  g[n] = path[n]
<1>1. PICK upTo \in [0..Len(g) -> 0..Len(path)] :
        upTo[0] = 0 /\ \A i \in DOMAIN g : Takes(g[i], path, upTo[i - 1], upTo[i])
  BY DEF Owns
<1>2. upTo[n] = n
  BY <1>1, PrefixIsLiteral
<1>3. g[n] \notin {Star, StarStar, Fragment}
  BY DEF IsSupportedPathGlob, InPrefix, Wildcards, IsSequence
<1>4. Takes(g[n], path, upTo[n - 1], n)
  BY <1>1, <1>2
<1> QED BY <1>3, <1>4 DEF Takes

\* Two patterns that own one file overlap: no pattern escapes the comparison
\* of the prefixes.
THEOREM SharedFileOverlaps ==
  ASSUME NEW g, IsSequence(g), IsSupportedPathGlob(g),
         NEW h, IsSequence(h), IsSupportedPathGlob(h),
         NEW path, IsSequence(path), Owns(g, path), Owns(h, path)
  PROVE  PathsOverlap(g, h)
<1> SUFFICES ASSUME NEW n \in DOMAIN g, InPrefix(g, n), InPrefix(h, n)
             PROVE  g[n] = h[n]
  BY DEF PathsOverlap
<1>1. n \in DOMAIN h
  BY DEF InPrefix
<1> QED BY <1>1, PrefixIsPath

LEMMA OverlapIsSymmetric ==
  ASSUME NEW g, NEW h, PathsOverlap(g, h)
  PROVE  PathsOverlap(h, g)
BY DEF PathsOverlap, InPrefix
-----------------------------------------------------------------------------
(* The parts of the inductive invariant.                                   *)

\* What was read of a fact is at most what it is now; between the last read of
\* the preflight and the first of the live state there is one moment that lies
\* between both.
ReadingsInv ==
  /\ \A f \in Fields : pre.facts[f] # Unread => pre.facts[f] <= facts[f]
  /\ pre.at <= clock
  /\ stage = "preflight" => live.facts = NothingRead
  /\ stage # "preflight" =>
       /\ Complete(pre)
       /\ pre.at <= between.at /\ between.at <= clock
       /\ \A f \in Fields : /\ pre.facts[f] <= between.facts[f]
                            /\ between.facts[f] <= facts[f]
                            /\ live.facts[f] # Unread =>
                                 /\ between.facts[f] <= live.facts[f]
                                 /\ between.at <= live.at

\* The counters of the search say what is still open.
SortInv ==
  stage = "sorting" =>
    /\ depends = [i \in Lanes(packet) |-> DependsOn(packet, i)]
    /\ done \subseteq Lanes(packet)
    /\ \A i \in done : depends[i] \subseteq done
    /\ remaining = [i \in Lanes(packet) |-> Cardinality(depends[i] \ done)]
    /\ processed = Cardinality(done)
    /\ ready = {i \in Lanes(packet) : depends[i] \subseteq done} \ done

\* Lanes that wait for one another are never reached.
Trapped(lanes) == \A i \in lanes : depends[i] \cap lanes # {}
TrapInv == stage = "sorting" => \A lanes \in SUBSET Lanes(packet) : Trapped(lanes) => lanes \cap done = {}

\* What was admitted was sound, and is not exchanged.
PacketInv ==
  /\ stage \in {"sorting", "admitted"} => RouteHolds(packet) /\ IdsAreUnique(packet)
  /\ stage = "admitted" => LanesHold(packet)

\* A lane at work has its leases; a lease is with the first holder, or with a
\* lane before which everybody else is done.
LaneInv ==
  stage = "admitted" =>
    /\ \A i \in Lanes(packet) : work[i] = "working" => \A r \in LeasesOf(packet, i) : held[r] = i
    /\ \A r \in Resources : held[r] # Free =>
         /\ held[r] \in Lanes(packet) /\ work[held[r]] # "merged"
         /\ \/ Holders(packet, r) = {held[r]}
            \/ \A j \in Declarers(packet, r) : Before(j, held[r]) => work[j] = "merged"

CallInv == \A c \in calls : stage = "admitted" /\ CallHolds(packet, c)

Inv == TypeOK /\ ReadingsInv /\ SortInv /\ TrapInv /\ PacketInv /\ LaneInv /\ CallInv

-----------------------------------------------------------------------------
(* Packets.                                                                *)

LEMMA LanesAreFinite ==
  ASSUME NEW p \in Packets
  PROVE  /\ Lanes(p) \subseteq Nat /\ Free \notin Lanes(p)
         /\ IsFiniteSet(Lanes(p))
         /\ \A i \in Lanes(p) : DependsOn(p, i) \subseteq Lanes(p)
<1>1. Len(p.lanes) \in Nat /\ Lanes(p) = 1..Len(p.lanes)
  BY RoutingAssumption DEF Lanes, IsSequence
<1>2. IsFiniteSet(1..Len(p.lanes))
  BY <1>1, FS_Interval
<1> QED BY <1>1, <1>2 DEF Free, DependsOn

\* Every lane has a place in the integration order, and no two have the same.
LEMMA PositionsAreDistinct ==
  ASSUME NEW p \in Packets, ListsEveryLane(p), IdsAreUnique(p)
  PROVE  /\ \A i \in Lanes(p) : Position(p, i) \in Nat /\ p.order[Position(p, i)] = p.lanes[i].id
         /\ \A i, j \in Lanes(p) : Position(p, i) = Position(p, j) => i = j
<1>1. ASSUME NEW i \in Lanes(p)
      PROVE  Position(p, i) \in DOMAIN p.order /\ p.order[Position(p, i)] = p.lanes[i].id
  <2>1. \E k \in DOMAIN p.order : p.order[k] = p.lanes[i].id
    BY DEF ListsEveryLane, Ids
  <2> QED BY <2>1 DEF Position
<1>2. DOMAIN p.order \subseteq Nat
  BY RoutingAssumption DEF IsSequence
<1>3. ASSUME NEW i \in Lanes(p), NEW j \in Lanes(p), Position(p, i) = Position(p, j)
      PROVE  i = j
  <2>1. p.lanes[i].id = p.lanes[j].id
    BY <1>1, <1>3
  <2> QED BY <2>1 DEF IdsAreUnique
<1> QED BY <1>1, <1>2, <1>3

LEMMA LeaseHasFirstHolder ==
  ASSUME NEW p \in Packets, NEW r \in Resources
  PROVE  /\ FirstHolder(p, r) \in Lanes(p) \cup {Free}
         /\ FirstHolder(p, r) # Free => Holders(p, r) = {FirstHolder(p, r)}
<1>1. CASE IsLease(p, r)
  <2>1. \E i \in Lanes(p) : Holders(p, r) = {i}
    BY <1>1 DEF IsLease, Declarers
  <2> QED BY <1>1, <2>1 DEF FirstHolder
<1>2. CASE ~IsLease(p, r)
  BY <1>2 DEF FirstHolder
<1> QED BY <1>1, <1>2

-----------------------------------------------------------------------------
(* Types.                                                                  *)

LEMMA InitInv == Init => Inv
<1> SUFFICES ASSUME Init PROVE Inv
  OBVIOUS
<1> USE DEF Init, SortInit
<1>1. TypeOK
  <2>1. facts \in [Fields -> Nat] /\ NothingRead \in [Fields -> Nat \cup {Unread}]
    BY DEF NothingRead
  <2> QED BY <2>1 DEF TypeOK, Reading, Stages
<1>2. ReadingsInv
  BY DEF ReadingsInv, NothingRead
<1>3. SortInv /\ TrapInv /\ PacketInv /\ LaneInv /\ CallInv
  BY DEF SortInv, TrapInv, PacketInv, LaneInv, CallInv
<1> QED BY <1>1, <1>2, <1>3 DEF Inv

LEMMA TypeStep == TypeOK /\ [Next]_vars => TypeOK'
<1> SUFFICES ASSUME TypeOK, [Next]_vars PROVE TypeOK'
  OBVIOUS
<1> USE DEF TypeOK
<1>0. CASE UNCHANGED vars
  BY <1>0 DEF vars, worldVars, sessionVars, sortVars, laneVars
<1>1. CASE Tick
  BY <1>1 DEF Tick, World, sessionVars, sortVars, laneVars
<1>2. ASSUME NEW f \in Fields, Move(f) PROVE TypeOK'
  BY <1>2 DEF Move, World, sessionVars, sortVars, laneVars
<1>3. ASSUME NEW f \in Fields, ReadPreflight(f) PROVE TypeOK'
  <2>1. pre' \in Reading
    BY <1>3 DEF ReadPreflight, Reading, Session, worldVars
  <2>2. stage = "preflight" /\ stage' \in {"preflight", "live"}
    BY <1>3 DEF ReadPreflight
  <2>3. between' \in [facts: [Fields -> Nat], at: Nat]
    BY <1>3 DEF ReadPreflight
  <2> QED BY <1>3, <2>1, <2>2, <2>3 DEF ReadPreflight, Session, worldVars, laneVars, Stages
<1>4. ASSUME NEW f \in Fields, ReadLive(f) PROVE TypeOK'
  <2>1. live' \in Reading
    BY <1>4 DEF ReadLive, Reading, Session, worldVars
  <2> QED BY <1>4, <2>1 DEF ReadLive, Session, worldVars, laneVars
<1>5. ASSUME NEW p \in Packets, Present(p) PROVE TypeOK'
  BY <1>5 DEF Present, Session, worldVars, laneVars, Stages
<1>6. CASE Sort
  BY <1>6 DEF Sort, Session, worldVars, laneVars, sessionVars
<1>7. CASE Decide
  <2>1. CASE ~HasDependencyCycle /\ LanesHold(packet)
    <3>1. packet \in Packets /\ packet' = packet /\ stage' = "admitted"
      BY <1>7, <2>1 DEF Decide
    <3>2. work' \in [Lanes(packet) -> LaneStates]
      BY <1>7, <2>1 DEF Decide, LaneStates
    <3>3. held' \in [Resources -> Lanes(packet) \cup {Free}]
      BY <1>7, <2>1, <3>1, LeaseHasFirstHolder DEF Decide
    <3> QED BY <1>7, <3>1, <3>2, <3>3 DEF Decide, worldVars, Stages
  <2>2. CASE ~(~HasDependencyCycle /\ LanesHold(packet))
    BY <1>7, <2>2 DEF Decide, worldVars, Stages
  <2> QED BY <2>1, <2>2
<1>8. CASE Refresh
  <2>1. pre' \in Reading /\ live' \in Reading
    BY <1>8 DEF Refresh, Reading, NothingRead
  <2> QED BY <1>8, <2>1 DEF Refresh, Session, worldVars, laneVars, Stages
<1>9. CASE RereadLive
  <2>1. live' \in Reading
    BY <1>9 DEF RereadLive, Reading, NothingRead
  <2> QED BY <1>9, <2>1 DEF RereadLive, Session, worldVars, laneVars
<1>10. ASSUME NEW c \in HostCalls, AuthorizeCall(c) PROVE TypeOK'
  BY <1>10 DEF AuthorizeCall, Session, worldVars, laneVars, sessionVars
<1>11. ASSUME NEW i \in DOMAIN work, StartLane(i) PROVE TypeOK'
  <2>1. stage = "admitted" /\ i \in Lanes(packet) /\ packet' = packet
    BY <1>11 DEF StartLane, sessionVars
  <2>2. work' \in [Lanes(packet) -> LaneStates] /\ held' \in [Resources -> Lanes(packet) \cup {Free}]
    BY <1>11, <2>1 DEF StartLane, LaneStates
  <2> QED BY <1>11, <2>1, <2>2 DEF StartLane, worldVars, sessionVars
<1>12. ASSUME NEW i \in DOMAIN work, MergeLane(i) PROVE TypeOK'
  <2>1. stage = "admitted" /\ i \in Lanes(packet) /\ packet' = packet
    BY <1>12 DEF MergeLane, sessionVars
  <2>2. work' \in [Lanes(packet) -> LaneStates] /\ held' \in [Resources -> Lanes(packet) \cup {Free}]
    BY <1>12, <2>1 DEF MergeLane, LaneStates
  <2> QED BY <1>12, <2>1, <2>2 DEF MergeLane, worldVars, sessionVars
<1> QED
  BY <1>0, <1>1, <1>2, <1>3, <1>4, <1>5, <1>6, <1>7, <1>8, <1>9, <1>10, <1>11, <1>12
  DEF Next, LaneStep
-----------------------------------------------------------------------------
(* The readings.                                                           *)

LEMMA ReadingsStep == TypeOK /\ ReadingsInv /\ [Next]_vars => ReadingsInv'
<1> SUFFICES ASSUME TypeOK, ReadingsInv, [Next]_vars PROVE ReadingsInv'
  OBVIOUS
<1>types. /\ facts \in [Fields -> Nat] /\ clock \in Nat
          /\ pre.facts \in [Fields -> Nat \cup {Unread}] /\ pre.at \in Nat
          /\ live.facts \in [Fields -> Nat \cup {Unread}] /\ live.at \in Nat
          /\ between.facts \in [Fields -> Nat] /\ between.at \in Nat
          /\ Unread \notin Nat
  BY RoutingAssumption DEF TypeOK, Reading
<1> DEFINE Readings == <<facts, clock, pre, live, between>>
<1>0. ASSUME UNCHANGED Readings, stage' = "preflight" <=> stage = "preflight"
      PROVE  ReadingsInv'
  BY <1>0 DEF ReadingsInv, Complete
<1>1. CASE Tick
  BY <1>1, <1>types DEF Tick, World, sessionVars, ReadingsInv, Complete
<1>2. ASSUME NEW f \in Fields, Move(f) PROVE ReadingsInv'
  <2>1. UNCHANGED <<stage, clock, pre, live, between>>
    BY <1>2 DEF Move, World, sessionVars
  <2>2. \A g \in Fields : facts'[g] \in Nat /\ facts[g] <= facts'[g]
    BY <1>2, <1>types DEF Move
  <2> QED BY <1>types, <2>1, <2>2 DEF ReadingsInv, Complete
<1>3. ASSUME NEW f \in Fields, ReadPreflight(f) PROVE ReadingsInv'
  <2>1. /\ UNCHANGED <<facts, clock, live>> /\ stage = "preflight" /\ stage' \in {"preflight", "live"}
        /\ pre'.at \in {pre.at, clock} /\ pre'.facts = [pre.facts EXCEPT ![f] = facts[f]]
    BY <1>3 DEF ReadPreflight, Session, worldVars, TypeOK, Reading
  <2>2. \A g \in Fields : pre'.facts[g] # Unread => pre'.facts[g] <= facts[g]
    BY <1>types, <2>1 DEF ReadingsInv
  <2>3. ASSUME stage' # "preflight"
        PROVE  between' = [facts |-> facts, at |-> clock] /\ \A g \in Fields : pre'.facts[g] # Unread
    <3>1. \A g \in Fields \ {f} : pre.facts[g] # Unread
      BY <1>3, <2>1, <2>3 DEF ReadPreflight
    <3> QED BY <1>3, <1>types, <2>1, <2>3, <3>1 DEF ReadPreflight
  <2>4. live.facts = NothingRead
    BY <2>1 DEF ReadingsInv
  <2>5. CASE stage' = "preflight"
    BY <1>types, <2>1, <2>2, <2>4, <2>5 DEF ReadingsInv
  <2>6. CASE stage' # "preflight"
    <3>1. /\ between'.facts = facts /\ between'.at = clock
          /\ \A g \in Fields : pre'.facts[g] # Unread
      BY <2>3, <2>6
    <3> QED BY <1>types, <2>1, <2>2, <2>4, <2>6, <3>1 DEF ReadingsInv, Complete, NothingRead
  <2> QED BY <2>5, <2>6
<1>4. ASSUME NEW f \in Fields, ReadLive(f) PROVE ReadingsInv'
  <2>1. /\ UNCHANGED <<facts, clock, stage, pre, between>> /\ stage # "preflight"
        /\ live'.at = clock /\ live'.facts = [live.facts EXCEPT ![f] = facts[f]]
    BY <1>4 DEF ReadLive, Session, worldVars, UnderException
  <2> QED BY <1>types, <2>1 DEF ReadingsInv, Complete
<1>5. ASSUME NEW p \in Packets, Present(p) PROVE ReadingsInv'
  BY <1>0, <1>5 DEF Present, Session, worldVars
<1>6. CASE Sort
  BY <1>0, <1>6 DEF Sort, Session, worldVars, sessionVars
<1>7. CASE Decide
  BY <1>0, <1>7 DEF Decide, worldVars
<1>8. CASE Refresh
  BY <1>8, <1>types DEF Refresh, Session, worldVars, ReadingsInv, NothingRead
<1>9. CASE RereadLive
  BY <1>9, <1>types DEF RereadLive, Session, worldVars, UnderException, ReadingsInv, NothingRead, Complete
<1>10. ASSUME NEW c \in HostCalls, AuthorizeCall(c) PROVE ReadingsInv'
  BY <1>0, <1>10 DEF AuthorizeCall, Session, worldVars, sessionVars
<1>11. ASSUME NEW i \in DOMAIN work, StartLane(i) \/ MergeLane(i) PROVE ReadingsInv'
  BY <1>0, <1>11 DEF StartLane, MergeLane, worldVars, sessionVars
<1>12. CASE UNCHANGED vars
  BY <1>0, <1>12 DEF vars, worldVars, sessionVars
<1> QED
  BY <1>1, <1>2, <1>3, <1>4, <1>5, <1>6, <1>7, <1>8, <1>9, <1>10, <1>11, <1>12 DEF Next, LaneStep

\* Equal readings on both sides of one moment are the facts of that moment.
LEMMA SnapshotFromReadings == TypeOK /\ ReadingsInv => PreflightIsSnapshot
<1> SUFFICES ASSUME TypeOK, ReadingsInv, PreflightHolds
             PROVE  between.facts = pre.facts /\ live.at - MaxAge <= between.at /\ between.at <= live.at
  BY DEF PreflightIsSnapshot
<1>1. /\ pre.facts \in [Fields -> Nat \cup {Unread}] /\ pre.at \in Nat
      /\ live.facts \in [Fields -> Nat \cup {Unread}] /\ live.at \in Nat
      /\ between.facts \in [Fields -> Nat] /\ between.at \in Nat
      /\ Unread \notin Nat /\ MaxAge \in Nat
  BY RoutingAssumption DEF TypeOK, Reading
<1>2. PICK f \in Fields : TRUE
  BY RoutingAssumption
<1>3. live.facts[f] # Unread
  BY <1>2 DEF PreflightHolds, Complete
<1>4. stage # "preflight"
  BY <1>2, <1>3 DEF ReadingsInv, NothingRead
<1>5. \A g \in Fields : between.facts[g] = pre.facts[g]
  BY <1>1, <1>4 DEF ReadingsInv, PreflightHolds, Complete, Agrees
<1>6. between.facts = pre.facts
  BY <1>1, <1>5
<1>7. pre.at <= between.at /\ between.at <= live.at
  BY <1>2, <1>3, <1>4 DEF ReadingsInv
<1> QED BY <1>1, <1>6, <1>7 DEF PreflightHolds
-----------------------------------------------------------------------------
(* The search for cycles.                                                  *)

\* A lane leaves the queue: whoever waited for it alone enters.
LEMMA ProcessKeepsCounts ==
  ASSUME packet \in Packets, stage = "sorting", SortInv, NEW l \in ready, Process(l)
  PROVE  /\ done' \subseteq Lanes(packet)
         /\ \A i \in done' : depends[i] \subseteq done'
         /\ remaining' = [i \in Lanes(packet) |-> Cardinality(depends[i] \ done')]
         /\ processed' = Cardinality(done')
         /\ ready' = {i \in Lanes(packet) : depends[i] \subseteq done'} \ done'
<1> DEFINE L == Lanes(packet)
<1>1. /\ done \subseteq L /\ DOMAIN depends = L
      /\ \A i \in L : depends[i] \subseteq L
      /\ \A i \in done : depends[i] \subseteq done
      /\ remaining = [i \in L |-> Cardinality(depends[i] \ done)]
      /\ processed = Cardinality(done)
      /\ ready = {i \in L : depends[i] \subseteq done} \ done
  BY LanesAreFinite DEF SortInv
<1>2. l \in L /\ l \notin done /\ depends[l] \subseteq done /\ done' = done \cup {l}
  BY <1>1 DEF Process
<1>3. IsFiniteSet(done) /\ \A i \in L : IsFiniteSet(depends[i] \ done)
  <2>1. IsFiniteSet(L)
    BY LanesAreFinite
  <2>2. \A T \in SUBSET L : IsFiniteSet(T)
    BY <2>1, FS_Subset
  <2> QED BY <1>1, <2>2
<1> HIDE DEF L
<1>4. Dependents(l) = {i \in L : l \in depends[i]}
  BY <1>1 DEF Dependents
<1>5. ASSUME NEW i \in L
      PROVE  Cardinality(depends[i] \ done') =
               IF l \in depends[i] THEN Cardinality(depends[i] \ done) - 1
               ELSE Cardinality(depends[i] \ done)
  <2>1. depends[i] \ done' = (depends[i] \ done) \ {l}
    BY <1>2
  <2>2. l \in depends[i] \ done <=> l \in depends[i]
    BY <1>2
  <2>3. Cardinality((depends[i] \ done) \ {l}) =
          IF l \in depends[i] \ done THEN Cardinality(depends[i] \ done) - 1
          ELSE Cardinality(depends[i] \ done)
    BY <1>3, FS_RemoveElement
  <2> QED BY <2>1, <2>2, <2>3, Zenon
<1>6. remaining' = [i \in L |-> Cardinality(depends[i] \ done')]
  <2>1. remaining' = [i \in L |-> IF l \in depends[i] THEN remaining[i] - 1 ELSE remaining[i]]
    BY <1>1, <1>4 DEF Process
  <2>2. \A i \in L : remaining[i] = Cardinality(depends[i] \ done)
    BY <1>1
  <2> QED BY <1>5, <2>1, <2>2
<1>7. processed' = Cardinality(done')
  <2>1. Cardinality(done \cup {l}) = Cardinality(done) + 1
    BY <1>2, <1>3, FS_AddElement
  <2> QED BY <1>1, <1>2, <2>1 DEF Process
<1>8. Released(l) = {i \in L : depends[i] \ done = {l}}
  <2>1. ASSUME NEW i \in L, l \in depends[i]
        PROVE  remaining[i] = 1 <=> depends[i] \ done = {l}
    <3>1. remaining[i] = Cardinality(depends[i] \ done)
      BY <1>1
    <3>2. Cardinality(depends[i] \ done) = 1 <=> \E x : depends[i] \ done = {x}
      BY <1>3, FS_Singleton
    <3>3. l \in depends[i] \ done
      BY <1>2, <2>1
    <3> QED BY <3>1, <3>2, <3>3
  <2> QED BY <1>4, <2>1 DEF Released
<1>9. ready' = {i \in L : depends[i] \subseteq done'} \ done'
  <2>1. ready' = (ready \ {l}) \cup {i \in L : depends[i] \ done = {l}}
    BY <1>8 DEF Process
  <2>2. ASSUME NEW i \in L
        PROVE  i \in (ready \ {l}) \cup {j \in L : depends[j] \ done = {l}}
                 <=> depends[i] \subseteq done' /\ i \notin done'
    <3>1. i \in ready <=> depends[i] \subseteq done /\ i \notin done
      BY <1>1
    <3>2. depends[i] \ done = {l} => i \notin done /\ i # l
      BY <1>1, <1>2
    <3>3. depends[i] \subseteq done' <=> depends[i] \subseteq done \/ depends[i] \ done = {l}
      BY <1>2
    <3> QED BY <1>2, <3>1, <3>2, <3>3
  <2>3. ready \subseteq L
    BY <1>1
  <2> QED BY <2>1, <2>2, <2>3
<1>10. \A i \in done' : depends[i] \subseteq done'
  BY <1>1, <1>2
<1> QED BY <1>1, <1>2, <1>6, <1>7, <1>9, <1>10 DEF L

LEMMA PrepareStartsSearch ==
  ASSUME NEW p \in Packets, packet' = p, Prepare([i \in Lanes(p) |-> DependsOn(p, i)])
  PROVE  SortInv' /\ TrapInv'
<1> DEFINE d == [i \in Lanes(p) |-> DependsOn(p, i)]
<1>1. /\ depends' = d /\ done' = {} /\ processed' = 0
      /\ remaining' = [i \in Lanes(p) |-> Cardinality(d[i])]
      /\ ready' = {i \in Lanes(p) : d[i] = {}}
  BY DEF Prepare
<1>2. \A i \in Lanes(p) : d[i] \ {} = d[i] /\ (d[i] \subseteq {} <=> d[i] = {})
  OBVIOUS
<1>3. remaining' = [i \in Lanes(p) |-> Cardinality(d[i] \ {})]
  BY <1>1, <1>2
<1>4. ready' = {i \in Lanes(p) : d[i] \subseteq {}} \ {}
  BY <1>1, <1>2
<1>5. Cardinality({}) = 0
  BY FS_EmptySet
<1> QED BY <1>1, <1>3, <1>4, <1>5 DEF SortInv, TrapInv

LEMMA SortStep == TypeOK /\ SortInv /\ TrapInv /\ [Next]_vars => SortInv' /\ TrapInv'
<1> SUFFICES ASSUME TypeOK, SortInv, TrapInv, [Next]_vars PROVE SortInv' /\ TrapInv'
  OBVIOUS
<1>1. ASSUME UNCHANGED <<stage, packet, sortVars>> PROVE SortInv' /\ TrapInv'
  BY <1>1 DEF SortInv, TrapInv, Trapped, sortVars
<1>2. ASSUME stage' # "sorting" PROVE SortInv' /\ TrapInv'
  BY <1>2 DEF SortInv, TrapInv
<1>3. ASSUME NEW p \in Packets, Present(p) PROVE SortInv' /\ TrapInv'
  <2>1. CASE RouteHolds(p) /\ PreflightHolds /\ IdsAreUnique(p)
    BY <1>3, <2>1, PrepareStartsSearch DEF Present
  <2>2. CASE ~(RouteHolds(p) /\ PreflightHolds /\ IdsAreUnique(p))
    BY <1>2, <1>3, <2>2 DEF Present
  <2> QED BY <2>1, <2>2
<1>4. CASE Sort
  <2>1. stage = "sorting" /\ UNCHANGED <<stage, packet>> /\ packet \in Packets
    BY <1>4 DEF Sort, sessionVars, TypeOK
  <2>2. PICK l \in ready : Process(l)
    BY <1>4 DEF Sort
  <2>3. SortInv'
    BY <2>1, <2>2, ProcessKeepsCounts DEF SortInv, Process
  <2>4. l \in Lanes(packet) /\ depends[l] \subseteq done /\ done' = done \cup {l} /\ depends' = depends
    BY <2>1, <2>2 DEF SortInv, Process
  <2>5. ASSUME NEW lanes \in SUBSET Lanes(packet), Trapped(lanes)
        PROVE  lanes \cap done' = {}
    <3>1. lanes \cap done = {}
      BY <2>1, <2>5 DEF TrapInv
    <3>2. l \notin lanes
      BY <2>4, <2>5, <3>1 DEF Trapped
    <3> QED BY <2>4, <3>1, <3>2
  <2>6. TrapInv'
    BY <2>1, <2>4, <2>5 DEF TrapInv, Trapped
  <2> QED BY <2>3, <2>6
<1>5. CASE Decide \/ Refresh \/ RereadLive
  BY <1>2, <1>5 DEF Decide, Refresh, RereadLive, UnderException
<1>6. CASE Tick
  BY <1>1, <1>6 DEF Tick, World, sessionVars
<1>7. ASSUME NEW f \in Fields, Move(f) \/ ReadPreflight(f) \/ ReadLive(f) PROVE SortInv' /\ TrapInv'
  <2>1. CASE Move(f)
    BY <1>1, <2>1 DEF Move, World, sessionVars
  <2>2. CASE ReadPreflight(f)
    BY <1>2, <2>2 DEF ReadPreflight
  <2>3. CASE ReadLive(f)
    BY <1>1, <2>3 DEF ReadLive
  <2> QED BY <1>7, <2>1, <2>2, <2>3
<1>8. ASSUME NEW c \in HostCalls, AuthorizeCall(c) PROVE SortInv' /\ TrapInv'
  BY <1>1, <1>8 DEF AuthorizeCall, sessionVars
<1>9. ASSUME NEW i \in DOMAIN work, StartLane(i) \/ MergeLane(i) PROVE SortInv' /\ TrapInv'
  BY <1>1, <1>9 DEF StartLane, MergeLane, sessionVars
<1>10. CASE UNCHANGED vars
  BY <1>1, <1>10 DEF vars, sessionVars
<1> QED BY <1>3, <1>4, <1>5, <1>6, <1>7, <1>8, <1>9, <1>10 DEF Next, LaneStep

\* The queue ends early exactly when lanes wait for one another.
LEMMA CycleFromCounts == TypeOK /\ SortInv /\ TrapInv => CycleIsFound
<1> SUFFICES ASSUME TypeOK, SortInv, TrapInv, stage = "sorting", ready = {}
             PROVE  HasDependencyCycle <=> Cyclic
  BY DEF CycleIsFound
<1> DEFINE L == Lanes(packet)
<1>1. packet \in Packets
  BY DEF TypeOK
<1>2. IsFiniteSet(L) /\ \A i \in L : DependsOn(packet, i) \subseteq L
  BY <1>1, LanesAreFinite
<1>3. /\ done \subseteq L /\ DOMAIN depends = L /\ processed = Cardinality(done)
      /\ \A i \in L : depends[i] \subseteq L
      /\ {i \in L : depends[i] \subseteq done} \ done = {}
  BY <1>2 DEF SortInv
<1>4. HasDependencyCycle <=> done # L
  BY <1>2, <1>3, FS_Subset DEF HasDependencyCycle
<1>5. ASSUME done # L PROVE Cyclic
  <2>1. L \ done # {} /\ L \ done \in SUBSET (DOMAIN depends)
    BY <1>3, <1>5
  <2>2. \A i \in L \ done : depends[i] \cap (L \ done) # {}
    BY <1>3
  <2> QED BY <2>1, <2>2 DEF Cyclic
<1>6. ASSUME Cyclic PROVE done # L
  <2>1. PICK lanes \in SUBSET L : lanes # {} /\ \A i \in lanes : depends[i] \cap lanes # {}
    BY <1>3, <1>6 DEF Cyclic
  <2>2. lanes \cap done = {}
    BY <2>1 DEF TrapInv, Trapped
  <2> QED BY <2>1, <2>2
<1> QED BY <1>4, <1>5, <1>6
-----------------------------------------------------------------------------
(* The lanes and the calls.                                                *)

LEMMA PacketStep == TypeOK /\ PacketInv /\ [Next]_vars => PacketInv'
<1> SUFFICES ASSUME TypeOK, PacketInv, [Next]_vars PROVE PacketInv'
  OBVIOUS
<1>1. ASSUME UNCHANGED <<stage, packet>> PROVE PacketInv'
  BY <1>1 DEF PacketInv
<1>2. ASSUME stage' \notin {"sorting", "admitted"} PROVE PacketInv'
  BY <1>2 DEF PacketInv
<1>3. ASSUME NEW p \in Packets, Present(p) PROVE PacketInv'
  BY <1>3 DEF Present, PacketInv
<1>4. CASE Decide
  BY <1>4 DEF Decide, PacketInv
<1>5. CASE Refresh
  BY <1>2, <1>5 DEF Refresh
<1>6. CASE Tick \/ Sort \/ RereadLive
  BY <1>1, <1>6 DEF Tick, World, Sort, RereadLive, sessionVars
<1>7. ASSUME NEW f \in Fields, Move(f) \/ ReadPreflight(f) \/ ReadLive(f) PROVE PacketInv'
  <2>1. CASE ReadPreflight(f)
    BY <1>2, <2>1 DEF ReadPreflight
  <2>2. CASE Move(f) \/ ReadLive(f)
    BY <1>1, <2>2 DEF Move, World, ReadLive, sessionVars
  <2> QED BY <1>7, <2>1, <2>2
<1>8. ASSUME NEW c \in HostCalls, AuthorizeCall(c) PROVE PacketInv'
  BY <1>1, <1>8 DEF AuthorizeCall, sessionVars
<1>9. ASSUME NEW i \in DOMAIN work, StartLane(i) \/ MergeLane(i) PROVE PacketInv'
  BY <1>1, <1>9 DEF StartLane, MergeLane, sessionVars
<1>10. CASE UNCHANGED vars
  BY <1>1, <1>10 DEF vars, sessionVars
<1> QED BY <1>3, <1>4, <1>5, <1>6, <1>7, <1>8, <1>9, <1>10 DEF Next, LaneStep

LEMMA LaneStepKeeps == TypeOK /\ LaneInv /\ [Next]_vars => LaneInv'
<1> SUFFICES ASSUME TypeOK, LaneInv, [Next]_vars PROVE LaneInv'
  OBVIOUS
<1>1. ASSUME UNCHANGED <<stage, packet, laneVars>> PROVE LaneInv'
  BY <1>1 DEF LaneInv, laneVars, Before
<1>2. ASSUME stage' # "admitted" PROVE LaneInv'
  BY <1>2 DEF LaneInv
<1>3. CASE Decide
  <2>1. CASE ~HasDependencyCycle /\ LanesHold(packet)
    <3>1. /\ packet' = packet /\ packet \in Packets
          /\ work' = [i \in Lanes(packet) |-> "waiting"]
          /\ held' = [r \in Resources |-> FirstHolder(packet, r)]
      BY <1>3, <2>1 DEF Decide, TypeOK
    <3>2. ASSUME NEW r \in Resources, held'[r] # Free
          PROVE  held'[r] \in Lanes(packet) /\ Holders(packet, r) = {held'[r]}
      BY <3>1, <3>2, LeaseHasFirstHolder
    <3>3. \A i \in Lanes(packet) : work'[i] = "waiting"
      BY <3>1
    <3> QED BY <3>1, <3>2, <3>3 DEF LaneInv
  <2>2. CASE ~(~HasDependencyCycle /\ LanesHold(packet))
    BY <1>2, <1>3, <2>2 DEF Decide
  <2> QED BY <2>1, <2>2
<1>4. ASSUME NEW i \in DOMAIN work, StartLane(i) PROVE LaneInv'
  <2>1. /\ stage = "admitted" /\ UNCHANGED <<stage, packet>> /\ i \in Lanes(packet)
        /\ packet \in Packets
        /\ work \in [Lanes(packet) -> LaneStates]
        /\ work' = [work EXCEPT ![i] = "working"]
        /\ held' = [r \in Resources |-> IF r \in LeasesOf(packet, i) THEN i ELSE held[r]]
        /\ work[i] = "waiting" /\ \A r \in LeasesOf(packet, i) : MayHave(i, r)
    BY <1>4 DEF StartLane, CanStart, sessionVars, TypeOK
  <2>2. Free \notin Lanes(packet)
    BY <2>1, LanesAreFinite
  <2>3. \A j \in Lanes(packet) : (work'[j] = "merged" <=> work[j] = "merged") /\ (work'[j] = "working" => j = i \/ work[j] = "working")
    BY <2>1
  <2>4. ASSUME NEW j \in Lanes(packet), work'[j] = "working", NEW r \in LeasesOf(packet, j)
        PROVE  held'[r] = j
    <3>1. r \in Resources
      BY DEF LeasesOf
    <3>2. CASE j = i
      BY <2>1, <2>4, <3>1, <3>2
    <3>3. CASE j # i
      <4>1. held[r] = j
        BY <2>1, <2>3, <2>4, <3>3 DEF LaneInv
      <4>2. r \notin LeasesOf(packet, i)
        BY <2>1, <2>2, <3>3, <4>1 DEF MayHave
      <4> QED BY <2>1, <3>1, <4>1, <4>2
    <3> QED BY <3>2, <3>3
  <2>5. ASSUME NEW r \in Resources, held'[r] # Free
        PROVE  /\ held'[r] \in Lanes(packet) /\ work'[held'[r]] # "merged"
               /\ \/ Holders(packet, r) = {held'[r]}
                  \/ \A j \in Declarers(packet, r) : Before(j, held'[r]) => work'[j] = "merged"
    <3>1. CASE r \notin LeasesOf(packet, i)
      <4>1. held'[r] = held[r]
        BY <2>1, <3>1
      <4> QED BY <2>1, <2>3, <2>5, <4>1 DEF LaneInv, Declarers, Lanes
    <3>2. CASE r \in LeasesOf(packet, i)
      <4>1. held'[r] = i /\ MayHave(i, r)
        BY <2>1, <3>2
      <4>2. CASE held[r] = i
        BY <2>1, <2>2, <2>3, <4>1, <4>2 DEF LaneInv, Declarers, Lanes
      <4>3. CASE held[r] # i
        BY <2>1, <2>3, <4>1, <4>3 DEF MayHave, Declarers, Lanes
      <4> QED BY <4>2, <4>3
    <3> QED BY <3>1, <3>2
  <2> QED BY <2>1, <2>4, <2>5 DEF LaneInv, Before
<1>5. ASSUME NEW i \in DOMAIN work, MergeLane(i) PROVE LaneInv'
  <2>1. /\ stage = "admitted" /\ UNCHANGED <<stage, packet>> /\ i \in Lanes(packet)
        /\ work \in [Lanes(packet) -> LaneStates]
        /\ work' = [work EXCEPT ![i] = "merged"]
        /\ held' = [r \in Resources |-> IF held[r] = i THEN Free ELSE held[r]]
    BY <1>5 DEF MergeLane, CanMerge, sessionVars, TypeOK
  <2>2. \A j \in Lanes(packet) : /\ work[j] = "merged" => work'[j] = "merged"
                                 /\ j # i => work'[j] = work[j]
                                 /\ work'[j] = "working" => j # i
    BY <2>1
  <2>3. ASSUME NEW j \in Lanes(packet), work'[j] = "working", NEW r \in LeasesOf(packet, j)
        PROVE  held'[r] = j
    <3>1. held[r] = j /\ r \in Resources /\ j # i
      BY <2>1, <2>2, <2>3 DEF LaneInv, LeasesOf
    <3> QED BY <2>1, <3>1
  <2>4. ASSUME NEW r \in Resources, held'[r] # Free
        PROVE  /\ held'[r] \in Lanes(packet) /\ work'[held'[r]] # "merged"
               /\ \/ Holders(packet, r) = {held'[r]}
                  \/ \A j \in Declarers(packet, r) : Before(j, held'[r]) => work'[j] = "merged"
    <3>1. held'[r] = held[r] /\ held[r] # i
      BY <2>1, <2>4
    <3> QED BY <2>1, <2>2, <2>4, <3>1 DEF LaneInv, Declarers, Lanes
  <2> QED BY <2>1, <2>3, <2>4 DEF LaneInv, Before
<1>6. ASSUME NEW p \in Packets, Present(p) PROVE LaneInv'
  BY <1>2, <1>6 DEF Present
<1>7. CASE Refresh
  BY <1>2, <1>7 DEF Refresh
<1>8. CASE Tick \/ Sort \/ RereadLive
  BY <1>1, <1>8 DEF Tick, World, Sort, RereadLive, Session, sessionVars
<1>9. ASSUME NEW f \in Fields, Move(f) \/ ReadPreflight(f) \/ ReadLive(f) PROVE LaneInv'
  <2>1. CASE ReadPreflight(f)
    BY <1>2, <2>1 DEF ReadPreflight
  <2>2. CASE Move(f) \/ ReadLive(f)
    BY <1>1, <2>2 DEF Move, World, ReadLive, Session, sessionVars
  <2> QED BY <1>9, <2>1, <2>2
<1>10. ASSUME NEW c \in HostCalls, AuthorizeCall(c) PROVE LaneInv'
  BY <1>1, <1>10 DEF AuthorizeCall, Session, sessionVars
<1>11. CASE UNCHANGED vars
  BY <1>1, <1>11 DEF vars, sessionVars
<1> QED BY <1>3, <1>4, <1>5, <1>6, <1>7, <1>8, <1>9, <1>10, <1>11 DEF Next, LaneStep

LEMMA CallStep == CallInv /\ [Next]_vars => CallInv'
<1> SUFFICES ASSUME CallInv, [Next]_vars PROVE CallInv'
  OBVIOUS
<1>1. ASSUME UNCHANGED <<stage, packet, calls>> PROVE CallInv'
  BY <1>1 DEF CallInv
<1>2. ASSUME stage # "admitted", UNCHANGED calls PROVE CallInv'
  BY <1>2 DEF CallInv
<1>3. ASSUME NEW c \in HostCalls, AuthorizeCall(c) PROVE CallInv'
  BY <1>3 DEF AuthorizeCall, UnderException, sessionVars, CallInv
<1>4. ASSUME NEW p \in Packets, Present(p) PROVE CallInv'
  BY <1>2, <1>4 DEF Present
<1>5. CASE Decide \/ Refresh
  BY <1>2, <1>5 DEF Decide, Refresh
<1>6. CASE Tick \/ Sort \/ RereadLive
  BY <1>1, <1>6 DEF Tick, World, Sort, RereadLive, sessionVars
<1>7. ASSUME NEW f \in Fields, Move(f) \/ ReadPreflight(f) \/ ReadLive(f) PROVE CallInv'
  <2>1. CASE ReadPreflight(f)
    BY <1>2, <2>1 DEF ReadPreflight
  <2>2. CASE Move(f) \/ ReadLive(f)
    BY <1>1, <2>2 DEF Move, World, ReadLive, sessionVars
  <2> QED BY <1>7, <2>1, <2>2
<1>8. ASSUME NEW i \in DOMAIN work, StartLane(i) \/ MergeLane(i) PROVE CallInv'
  BY <1>1, <1>8 DEF StartLane, MergeLane, sessionVars
<1>9. CASE UNCHANGED vars
  BY <1>1, <1>9 DEF vars, sessionVars
<1> QED BY <1>3, <1>4, <1>5, <1>6, <1>7, <1>8, <1>9 DEF Next, LaneStep
-----------------------------------------------------------------------------
(* The theorems.                                                           *)

\* The invariant that ties the readings to one moment, the search to what is
\* open, and the leases to the lanes at work.
THEOREM Invariance == Spec => []Inv
<1>1. Inv /\ [Next]_vars => Inv'
  BY TypeStep, ReadingsStep, SortStep, PacketStep, LaneStepKeeps, CallStep DEF Inv
<1> QED BY InitInv, <1>1, PTL DEF Spec

\* The state of session, packet and lanes stays well typed.
THEOREM TypeCorrect == Spec => []TypeOK
<1>1. Inv => TypeOK
  BY DEF Inv
<1> QED BY <1>1, Invariance, PTL

\* What passes the preflight was true at one recent moment, although it was
\* read field by field while the repository moved.
THEOREM PreflightSnapshot == Spec => []PreflightIsSnapshot
<1>1. Inv => PreflightIsSnapshot
  BY SnapshotFromReadings DEF Inv
<1> QED BY <1>1, Invariance, PTL

\* The search that counts dependencies down is right for every graph.
THEOREM CycleFound == Spec => []CycleIsFound
<1>1. Inv => CycleIsFound
  BY CycleFromCounts DEF Inv
<1> QED BY <1>1, Invariance, PTL

LEMMA WorkingLanesDiffer ==
  ASSUME Inv, NEW i \in DOMAIN work, NEW j \in DOMAIN work, i # j, Works(i), Works(j)
  PROVE  /\ packet \in Packets /\ i \in Lanes(packet) /\ j \in Lanes(packet)
         /\ LanesHold(packet) /\ LeasesOf(packet, i) \cap LeasesOf(packet, j) = {}
<1>1. /\ stage = "admitted" /\ packet \in Packets /\ DOMAIN work = Lanes(packet)
      /\ work[i] = "working" /\ work[j] = "working"
  BY DEF Works, Inv, TypeOK
<1>2. LanesHold(packet)
  BY <1>1 DEF Inv, PacketInv
<1>3. \A r \in LeasesOf(packet, i) \cap LeasesOf(packet, j) : held[r] = i /\ held[r] = j
  BY <1>1 DEF Inv, LaneInv
<1> QED BY <1>1, <1>2, <1>3

\* Lanes at work together share neither file, branch, worktree nor resource.
THEOREM NobodyCollides == Spec => []NoCollision
<1>1. Inv => NoCollision
  <2> SUFFICES ASSUME Inv, NEW i \in DOMAIN work, NEW j \in DOMAIN work, i # j, Works(i), Works(j)
               PROVE  /\ ~ \E g \in packet.lanes[i].paths, h \in packet.lanes[j].paths :
                             \E path \in Files : Owns(g, path) /\ Owns(h, path)
                      /\ packet.lanes[i].branch # packet.lanes[j].branch
                      /\ packet.lanes[i].worktree # packet.lanes[j].worktree
                      /\ LeasesOf(packet, i) \cap LeasesOf(packet, j) = {}
    BY DEF NoCollision
  <2>1. /\ packet \in Packets /\ i \in Lanes(packet) /\ j \in Lanes(packet)
        /\ LanesHold(packet) /\ LeasesOf(packet, i) \cap LeasesOf(packet, j) = {}
    BY WorkingLanesDiffer
  <2>2. /\ packet.lanes[i].branch # packet.lanes[j].branch
        /\ packet.lanes[i].worktree # packet.lanes[j].worktree
    BY <2>1 DEF LanesHold, IsIsolated
  <2>3. ASSUME NEW g \in packet.lanes[i].paths, NEW h \in packet.lanes[j].paths,
               NEW path \in Files, Owns(g, path), Owns(h, path)
        PROVE  FALSE
    <3>1. /\ IsSequence(g) /\ IsSupportedPathGlob(g) /\ IsSequence(h) /\ IsSupportedPathGlob(h)
          /\ IsSequence(path)
      BY <2>1, RoutingAssumption DEF LanesHold, PathsHold, Lanes
    <3>2. PathsOverlap(g, h)
      BY <2>3, <3>1, SharedFileOverlaps
    <3>3. PathsOverlap(h, g)
      BY <3>2, OverlapIsSymmetric
    <3>4. Overlap(packet, i, j) /\ Overlap(packet, j, i)
      BY <3>2, <3>3 DEF Overlap
    <3>5. i < j \/ j < i
      BY <2>1, LanesAreFinite
    <3> QED BY <2>1, <3>4, <3>5 DEF LanesHold, OverlapsAreLeased, ShareALease
  <2> QED BY <2>1, <2>2, <2>3
<1> QED BY <1>1, Invariance, PTL

\* Dependencies, leases and integration order together leave the lanes of an
\* admitted packet waiting for one another only through a lease whose holder
\* comes later in the order: otherwise the first lane that is not merged can go
\* on.
THEOREM NobodyWaitsForEver == Spec => []NeverStuck
<1>1. Inv => NeverStuck
  <2> SUFFICES ASSUME Inv, stage = "admitted", ~AllMerged, \A i \in DOMAIN work : ~LockedOut(i)
               PROVE  \E i \in DOMAIN work : CanStart(i) \/ CanMerge(i)
    BY DEF NeverStuck
  <2>1. /\ packet \in Packets /\ work \in [Lanes(packet) -> LaneStates]
        /\ held \in [Resources -> Lanes(packet) \cup {Free}]
        /\ LanesHold(packet) /\ IdsAreUnique(packet)
    BY DEF Inv, TypeOK, PacketInv
  <2>2. /\ \A i \in Lanes(packet) : Position(packet, i) \in Nat
        /\ \A i, j \in Lanes(packet) : Position(packet, i) = Position(packet, j) => i = j
    BY <2>1, PositionsAreDistinct DEF LanesHold
  <2> DEFINE Open == {i \in Lanes(packet) : work[i] # "merged"}
             Places == {Position(packet, i) : i \in Open}
  <2>3. Places \in SUBSET Nat /\ Places # {}
    BY <2>1, <2>2 DEF AllMerged
  <2>4. \E k \in Places : \A l \in Places : k <= l
    BY <2>3, LeastNumber, Zenon
  <2>5. PICK m \in Open : \A i \in Open : Position(packet, m) <= Position(packet, i)
    BY <2>4
  <2>6. m \in Lanes(packet) /\ work[m] \in {"waiting", "working"}
    BY <2>1 DEF LaneStates
  <2>7. \A j \in Lanes(packet) : Before(j, m) => work[j] = "merged"
    BY <2>2, <2>5, <2>6 DEF Before
  <2>8. CASE work[m] = "working"
    BY <2>1, <2>6, <2>7, <2>8 DEF CanMerge
  <2>9. CASE work[m] = "waiting"
    <3>1. ASSUME NEW j \in DependsOn(packet, m) PROVE work[j] = "merged"
      <4>1. j \in Lanes(packet) /\ Position(packet, j) <= Position(packet, m)
        BY <2>1, <2>6 DEF LanesHold, DependenciesFirst, DependsOn
      <4>2. j # m
        BY <2>1, <2>6 DEF LanesHold, DependenciesHold, DependsOn
      <4>3. Before(j, m)
        BY <2>2, <2>6, <4>1, <4>2 DEF Before
      <4> QED BY <2>7, <4>1, <4>3
    <3>2. ASSUME NEW r \in LeasesOf(packet, m) PROVE MayHave(m, r)
      <4>1. r \in Resources /\ m \in Declarers(packet, r)
        BY DEF LeasesOf
      <4>2. Declarers(packet, r) \subseteq Lanes(packet)
        BY DEF Declarers
      <4>3. CASE held[r] = Free
        BY <2>7, <4>2, <4>3 DEF MayHave
      <4>4. ASSUME held[r] # Free, held[r] # m PROVE FALSE
        <5>1. held[r] \in Open
          BY <4>1, <4>4 DEF Inv, LaneInv
        <5>2. Before(m, held[r])
          BY <2>2, <2>5, <2>6, <4>4, <5>1 DEF Before
        <5>3. LockedOut(m)
          BY <2>9, <4>4, <5>2 DEF LockedOut
        <5> QED BY <2>1, <2>6, <5>3
      <4> QED BY <4>3, <4>4 DEF MayHave
    <3> QED BY <2>1, <2>6, <2>9, <3>1, <3>2 DEF CanStart
  <2> QED BY <2>6, <2>8, <2>9
<1> QED BY <1>1, Invariance, PTL

\* In a packet in which the first holder of every lease comes first in the
\* integration order, no lane is ever locked out, so that some lane can go on
\* until all are merged.
THEOREM HoldersFirstSuffices ==
  Spec => [](stage = "admitted" /\ HoldersFirst => \A i \in DOMAIN work : ~LockedOut(i))
<1>1. ASSUME Inv, stage = "admitted", HoldersFirst, NEW i \in DOMAIN work, LockedOut(i)
      PROVE  FALSE
  <2>1. PICK r \in LeasesOf(packet, i) : held[r] \notin {Free, i} /\ Before(i, held[r])
    BY <1>1 DEF LockedOut
  <2>2. /\ packet \in Packets /\ i \in Lanes(packet) /\ work[i] = "waiting"
        /\ LanesHold(packet) /\ IdsAreUnique(packet)
        /\ r \in Resources /\ i \in Declarers(packet, r)
    BY <1>1, <2>1 DEF Inv, TypeOK, PacketInv, LockedOut, LeasesOf
  <2>3. /\ held[r] \in Lanes(packet)
        /\ \/ Holders(packet, r) = {held[r]}
           \/ \A j \in Declarers(packet, r) : Before(j, held[r]) => work[j] = "merged"
    BY <1>1, <2>1, <2>2 DEF Inv, LaneInv
  <2>4. Position(packet, held[r]) <= Position(packet, i)
    BY <1>1, <2>1, <2>2, <2>3 DEF HoldersFirst
  <2>5. Position(packet, i) \in Nat /\ Position(packet, held[r]) \in Nat
    BY <2>2, <2>3, PositionsAreDistinct DEF LanesHold
  <2> QED BY <2>1, <2>4, <2>5 DEF Before
<1>2. Inv => (stage = "admitted" /\ HoldersFirst => \A i \in DOMAIN work : ~LockedOut(i))
  BY <1>1
<1> QED BY <1>2, Invariance, PTL

\* Whatever is asked of the host, only declared calls of an excepted packet
\* are authorized.
THEOREM HostCallBound == Spec => []HostCallIsBound
<1>1. Inv => HostCallIsBound
  <2> SUFFICES ASSUME Inv, NEW c \in calls
               PROVE  /\ UnderException /\ ~packet.equivalent_ci
                      /\ c.action \in Purposes[packet.reason]
                      /\ c.tool \notin Forbidden
                      /\ \E k \in DOMAIN packet.calls :
                           packet.calls[k].tool = c.tool
                             /\ Canonical(packet.calls[k].arguments) = Canonical(c.arguments)
    BY DEF HostCallIsBound
  <2>1. stage = "admitted" /\ CallHolds(packet, c)
    BY DEF Inv, CallInv
  <2>2. RouteHolds(packet) /\ packet.exception
    BY <2>1 DEF Inv, PacketInv, CallHolds
  <2>3. UnderException /\ ~packet.equivalent_ci
    BY <2>1, <2>2 DEF UnderException, RouteHolds, ExceptionHolds
  <2> QED BY <2>1, <2>3 DEF CallHolds, SameCall
<1> QED BY <1>1, Invariance, PTL
=============================================================================
