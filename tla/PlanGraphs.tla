----------------------------- MODULE PlanGraphs ------------------------------
(***************************************************************************)
(* The dependency graphs of execution plans, as functions from a step to   *)
(* the set of steps it depends on (AtomicStep::depends_on).                *)
(***************************************************************************)
EXTENDS FiniteSets

CONSTANT Steps   \* the steps of a plan

(* What ExecutionGraph::validate guarantees of every graph it builds: some *)
(* step of any set of steps depends on no other step of the set.           *)
Acyclic(g) == \A S \in SUBSET Steps : S # {} => \E s \in S : g[s] \cap S = {}

(* The steps that depend directly on a step of F. *)
Dependents(g, F) == {c \in Steps : g[c] \cap F # {}}

(* The least subset of W that holds the dependents in W of F and its own.  *)
DownstreamIn(g, F, W) ==
  {c \in W : \A X \in SUBSET W : Dependents(g, F \cup X) \cap W \subseteq X => c \in X}

(* Everything that depends, transitively, on a step of F. *)
Downstream(g, F) == DownstreamIn(g, F, Steps)
==============================================================================
