----------------------------- MODULE GraphWalks -----------------------------
(***************************************************************************)
(* What an execution graph answers about itself: Kahn's walk over the      *)
(* steps, and over the instances of elements, one turn of its loop at a    *)
(* time; waves, the critical path, transitive neighbours and statistics.   *)
(* A graph is the list of its steps, each with the list of the steps it    *)
(* depends on, as they were written: nothing keeps an id, or a dependency, *)
(* from being there twice, or a dependency from naming no step.            *)
(***************************************************************************)
EXTENDS Integers, FiniteSetsExt, SequencesExt

CONSTANT GraphsToWalk

ASSUME GraphWalksAssumption == GraphsToWalk \subseteq Seq([id : Nat, deps : Seq(Nat)])

VARIABLES graph,      \* the steps, in the order of the list
          form,       \* "steps" or "instances"
          verdict,    \* what the walk answered
          indegree,   \* id -> dependencies still to come
          ready,      \* a stack
          out

walk_vars == <<graph, form, verdict, indegree, ready, out>>

Ids == {graph[i].id : i \in DOMAIN graph}
at(id)  == CHOOSE i \in DOMAIN graph :
             graph[i].id = id /\ \A j \in 1..(i - 1) : graph[j].id # id
step(id) == graph[at(id)]
depends_on(id)   == step(id).deps
dependencies(id) == IF id \in Ids THEN ToSet(depends_on(id)) \cap Ids ELSE {}
dependents(id)   == {graph[i].id : i \in {j \in DOMAIN graph : id \in ToSet(graph[j].deps)}}

\* The members of S in the order of their ranks.
Lined(S, rank) == CHOOSE s \in [1..Cardinality(S) -> S] :
                    \A i, j \in DOMAIN s : i < j => rank[s[i]] < rank[s[j]]
ByName   == [id \in Ids |-> id]
AsListed == [id \in Ids |-> at(id)]

-----------------------------------------------------------------------------

InitGraph ==
  /\ graph \in GraphsToWalk
  /\ form \in {"steps", "instances"}
  /\ verdict = "unread"
  /\ indegree = <<>> /\ ready = <<>> /\ out = <<>>

Duplicate == \E i, j \in DOMAIN graph : i # j /\ graph[i].id = graph[j].id
Dangling  == \E i \in DOMAIN graph : \E d \in ToSet(graph[i].deps) : d \notin Ids

\* The checks of validate, the counts, and the steps that wait for nothing.
BeginWalk ==
  /\ verdict = "unread"
  /\ LET count == [id \in Ids |-> Len(depends_on(id))]
     IN  IF Duplicate THEN verdict' = "duplicate" /\ UNCHANGED <<indegree, ready>>
         ELSE IF Dangling THEN verdict' = "dangling" /\ UNCHANGED <<indegree, ready>>
         ELSE /\ verdict' = "walking"
              /\ indegree' = count
              /\ ready' = Lined({id \in Ids : count[id] = 0}, ByName)
  /\ UNCHANGED <<graph, form, out>>

\* Mutant: a step is ready as soon as one of its dependencies is out.
Lowered_all(k) == [n \in Ids |-> IF n \in dependents(k) THEN 0 ELSE indegree[n]]

Times(id, d) == Cardinality({i \in DOMAIN depends_on(id) : depends_on(id)[i] = d})

\* The counts once k is out: of a step that waits for k one less, however often
\* it names k; of an instance one less for every edge.
Lowered(k) ==
  [n \in Ids |-> LET by == IF form = "steps" THEN 1 ELSE Times(n, k)
                 IN  IF n \notin dependents(k) THEN indegree[n]
                     ELSE IF by > indegree[n] THEN 0 ELSE indegree[n] - by]

WalkStep ==
  /\ verdict = "walking"
  /\ ready # <<>>
  /\ LET k == Last(ready)
     IN  /\ out' = Append(out, k)
         /\ indegree' = Lowered(k)
         /\ ready' = Front(ready)
                      \o Lined({n \in dependents(k) : Lowered(k)[n] = 0}, AsListed)
  /\ UNCHANGED <<graph, form, verdict>>

EndWalk ==
  /\ verdict = "walking"
  /\ ready = <<>>
  /\ verdict' = IF Len(out) # Len(graph) THEN "cycle" ELSE "ok"
  /\ UNCHANGED <<graph, form, indegree, ready, out>>

NextGraph == BeginWalk \/ WalkStep \/ EndWalk

-----------------------------------------------------------------------------
(* Answers, from the order the walk gave                                   *)

\* Each step in turn moves those that depend on it behind it.
depth ==
  LET d[i \in 0..Len(out)] ==
        IF i = 0 THEN [n \in Ids |-> 0]
        ELSE [n \in Ids |-> IF /\ out[i] \in dependencies(n)
                              /\ d[i - 1][out[i]] + 1 > d[i - 1][n]
                            THEN d[i - 1][out[i]] + 1 ELSE d[i - 1][n]]
  IN  d[Len(out)]

parallel_waves ==
  LET d == depth
  IN  [k \in 1..(IF Ids = {} THEN 0 ELSE Max({d[n] : n \in Ids}) + 1) |->
         {n \in Ids : d[n] = k - 1}]

\* The longest chains to each step, and the step before it on one of them.
Chains ==
  LET c[i \in 0..Len(out)] ==
        IF i = 0 THEN [n \in Ids |-> [len |-> 1, prev |-> <<>>]]
        ELSE [n \in Ids |-> IF /\ out[i] \in dependencies(n)
                              /\ c[i - 1][out[i]].len + 1 > c[i - 1][n].len
                            THEN [len |-> c[i - 1][out[i]].len + 1, prev |-> <<out[i]>>]
                            ELSE c[i - 1][n]]
  IN  c[Len(out)]

\* From a step back along prev; max_by_key takes the last of the longest.
Longest(c) ==
  CHOOSE t \in Ids : \A n \in Ids :
    c[n].len < c[t].len \/ (c[n].len = c[t].len /\ n <= t)

critical_path ==
  LET c == Chains
      long == IF Ids = {} THEN 0 ELSE c[Longest(c)].len
      back[i \in 1..long] == IF i = 1 THEN Longest(c) ELSE Head(c[back[i - 1]].prev)
  IN  [i \in 1..long |-> back[long + 1 - i]]

\* Breadth first, round by round, without the step itself.
transitive(id, near) ==
  LET round[k \in 0..Len(graph)] ==
        IF k = 0 THEN {id} ELSE round[k - 1] \cup UNION {near[n] : n \in round[k - 1]}
  IN  round[Len(graph)] \ {id}

transitive_dependencies(id) == transitive(id, [n \in Ids \cup {id} |-> dependencies(n)])
transitive_dependents(id)   == transitive(id, [n \in Ids \cup {id} |-> dependents(n)])

Most(S) == Max(S \cup {0})

statistics ==
  LET waves == parallel_waves
  IN  [edge_count  |-> SumFunction([i \in DOMAIN graph |-> Len(graph[i].deps)]),
       max_depth   |-> Most({Len(waves) - 1}),
       max_fan_out |-> Most({Cardinality(dependents(n)) : n \in Ids}),
       max_fan_in  |-> Most({Len(depends_on(n)) : n \in Ids}),
       maximum_parallelism |-> Most({Cardinality(waves[k]) : k \in DOMAIN waves})]

=============================================================================
