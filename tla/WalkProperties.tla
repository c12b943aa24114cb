--------------------------- MODULE WalkProperties ---------------------------
(***************************************************************************)
(* What is claimed of the walks over execution graphs, and of what a graph *)
(* answers once it was found to be in order.                               *)
(***************************************************************************)
EXTENDS GraphWalks

SpecWalk == InitGraph /\ [][NextGraph]_walk_vars

-----------------------------------------------------------------------------

HasCircle == \E S \in SUBSET Ids : S # {} /\ \A n \in S : dependencies(n) \cap S # {}
Repeats   == \E i \in DOMAIN graph : ~IsInjective(graph[i].deps)

\* The steps that end a chain of k dependencies.
Behind[k \in Nat] == IF k = 0 THEN Ids
                     ELSE {n \in Ids : dependencies(n) \cap Behind[k - 1] # {}}

Place(n) == CHOOSE i \in DOMAIN out : out[i] = n

InOrder == /\ Len(out) = Cardinality(Ids) /\ ToSet(out) = Ids
           /\ \A n \in Ids : \A d \in dependencies(n) : Place(d) < Place(n)

WavesAreDepths == \A k \in DOMAIN parallel_waves :
                    parallel_waves[k] = Behind[k - 1] \ Behind[k]

PathIsChain == /\ Len(critical_path) = Len(parallel_waves)
               /\ \A i \in 2..Len(critical_path) :
                    critical_path[i - 1] \in dependencies(critical_path[i])

NeighboursMirror ==
  \A n, o \in Ids : /\ (n \in transitive_dependencies(o)) = (o \in transitive_dependents(n))
                    /\ dependencies(n) \subseteq transitive_dependencies(n) \cup {n}

\* The walk refuses a list of steps with an id twice, a dependency on no step
\* or a circle, and no other: except that it takes a step that names one step
\* twice for part of a circle, which the walk over instances does not.  What
\* it accepts comes out whole, dependencies first; waves are the lengths of the
\* longest chains, and the critical path is one of the longest.
\* (ExecutionGraph::topological_sort, parallel_waves, critical_path,
\* ElementInstanceGraph::topological_order)
WalksSound ==
  /\ verdict = "ok" => ~Duplicate /\ ~Dangling /\ ~HasCircle
  /\ verdict = "cycle" => HasCircle \/ (form = "steps" /\ Repeats)
  /\ verdict = "duplicate" => Duplicate
  /\ verdict = "dangling" => Dangling
  /\ verdict = "ok" =>
       /\ InOrder /\ WavesAreDepths /\ PathIsChain /\ NeighboursMirror
       /\ graph # <<>> => statistics.max_depth + 1 <= Len(graph)
       /\ statistics.edge_count <= Len(graph) * statistics.max_fan_in
       /\ statistics.maximum_parallelism * Len(parallel_waves) >= Len(graph)
=============================================================================
