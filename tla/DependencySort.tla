--------------------------- MODULE DependencySort ---------------------------
(***************************************************************************)
(* The search for a dependency cycle: lanes without open dependencies are  *)
(* taken from a queue, and every lane that depends on one of them counts   *)
(* down.  The order within the queue does not matter, so it is a set.      *)
(***************************************************************************)
EXTENDS Naturals, FiniteSets

VARIABLES
  depends,    \* the lanes that each lane depends on
  remaining,  \* remaining_dependencies: how many of them are still open
  ready,      \* queue of lanes without open dependencies
  processed,  \* how many lanes left the queue
  done        \* history: which ones

sortVars == <<depends, remaining, ready, processed, done>>

SortInit ==
  /\ depends = <<>>
  /\ remaining = <<>>
  /\ ready = {}
  /\ processed = 0
  /\ done = {}

\* The variables of the search are gone when it has answered.
Forget == depends' = <<>> /\ remaining' = <<>> /\ ready' = {} /\ processed' = 0 /\ done' = {}

Prepare(dependencies) ==
  /\ depends' = dependencies
  /\ remaining' = [i \in DOMAIN dependencies |-> Cardinality(dependencies[i])]
  /\ ready' = {i \in DOMAIN dependencies : dependencies[i] = {}}
  /\ processed' = 0
  /\ done' = {}

Dependents(lane) == {i \in DOMAIN depends : lane \in depends[i]}

ReleasedAtOnce(lane) == Dependents(lane)   \* mutant: the first dependency that is met releases a lane
Released(lane) == {i \in Dependents(lane) : remaining[i] = 1}

Process(lane) ==
  /\ lane \in ready
  /\ ready' = (ready \ {lane}) \cup Released(lane)
  /\ remaining' = [i \in DOMAIN depends |->
                     IF i \in Dependents(lane) THEN remaining[i] - 1 ELSE remaining[i]]
  /\ processed' = processed + 1
  /\ done' = done \cup {lane}
  /\ UNCHANGED depends

HasDependencyCycle == processed # Cardinality(DOMAIN depends)

\* What a cycle means: some lanes each of which waits for another of them.
Cyclic == \E stuck \in SUBSET (DOMAIN depends) :
            stuck # {} /\ \A i \in stuck : depends[i] \cap stuck # {}
=============================================================================
