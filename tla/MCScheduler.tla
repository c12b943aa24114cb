----------------------------- MODULE MCScheduler -----------------------------
(* Small instances of the scheduler under its client's protocol. *)
EXTENDS SchedulerProtocol

(* Every graph whose edges go from a larger to a smaller step: up to       *)
(* renaming, all the acyclic ones.                                         *)
MCGraphs == {g \in [Steps -> SUBSET Steps] : \A s \in Steps : \A d \in g[s] : d < s}

PlanOver(g, need) == [deps |-> g, need |-> need,
                      trial |-> [s \in Steps |-> s \div 3], trials |-> 2]

(* All graphs, nothing asked for. *)
MCAllGraphs == {PlanOver(g, [s \in Steps |-> 0]) : g \in MCGraphs}

(* Bound: once a checkpoint is taken the client sticks to its plan.        *)
SamePlan == saved = NoCheckpoint \/ saved.plan = plan

(* Four steps, the first two of one trial, with no order, an order inside  *)
(* a trial, or a fork; asking for nothing, or for 1, 2, 1 and 2.           *)
MCOrders == {[s \in Steps |-> {}],
             [s \in Steps |-> IF s = 4 THEN {3} ELSE {}],
             [s \in Steps |-> IF s = 1 THEN {} ELSE {1}]}
MCBatches == {PlanOver(g, need) : g \in MCOrders,
                                  need \in {[s \in Steps |-> 0], [s \in Steps |-> 2 - (s % 2)]}}

(* Bounds for the choice of batches: no checkpoints; priorities are set    *)
(* where they are looked at, and for the last two steps.                   *)
BatchesOnly == /\ saved = NoCheckpoint
               /\ priorities[1] = Normal /\ priorities[2] = Normal
               /\ policy = "Priority" \/ \A s \in Steps : priorities[s] = Normal
==============================================================================
