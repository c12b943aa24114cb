----------------------------- MODULE MCExecutor ------------------------------
(* Small instances of the executor. *)
EXTENDS ExecutorProperties

MCGraphs == {g \in [Steps -> SUBSET Steps] : \A s \in Steps : \A d \in g[s] : d < s}

(* A plan of Deploys that asks for nothing, with the default policies. *)
MCPlain(g) ==
  [deps |-> g, need |-> [s \in Steps |-> 0], trial |-> [s \in Steps |-> 0], trials |-> 1,
   kind |-> [s \in Steps |-> "Deploy"], on_failure |-> "Skip", retries |-> 0,
   mode |-> "Immediate", partial |-> "RetainResults",
   interval |-> FALSE, on_barriers |-> FALSE, on_errors |-> FALSE, max_checkpoints |-> 9]

Spending(runs, pauses, stops, requests, crashes, takes) ==
  [what \in Spendable |->
     CASE what = "runs" -> runs [] what = "pauses" -> pauses [] what = "stops" -> stops
       [] what = "requests" -> requests [] what = "crashes" -> crashes [] OTHER -> takes]

(* Bound: the client comes back with the plan it has checkpoints of. *)
SamePlan == \A c \in stored : plan_fp = NoPlan \/ c.plan_fp = plan_fp

(* Four graphs; failures are skipped, with a checkpoint, or retried once.  *)
MCShapes == {[s \in Steps |-> {}],
             [s \in Steps |-> {s - 1} \ {0}],
             [s \in Steps |-> IF s = 1 THEN {} ELSE {1}],
             [s \in Steps |-> IF s = 3 THEN {1, 2} ELSE {}]}
MCFailures == UNION {{[MCPlain(g) EXCEPT !.on_errors = TRUE],
                      [MCPlain(g) EXCEPT !.on_failure = "Retry", !.retries = 1]} :
                     g \in MCShapes}
MCTwoRunsOneCrash == Spending(2, 0, 0, 0, 1, 0)

(* A trial whose TrialEnd does not wait for its Await, under two sets of   *)
(* policies, and a chain with a barrier and a checkpoint step.             *)
MCTrial == [MCPlain([s \in Steps |-> IF s = 1 THEN {} ELSE {1}]) EXCEPT
              !.kind  = [s \in Steps |-> CASE s = 1 -> "TrialStart" [] s = 2 -> "Await"
                                           [] OTHER -> "TrialEnd"],
              !.trial = [s \in Steps |-> 1], !.trials = 2]
MCChain == [MCPlain([s \in Steps |-> {s - 1} \ {0}]) EXCEPT
              !.kind = [s \in Steps |-> CASE s = 1 -> "Deploy" [] s = 2 -> "Barrier"
                                          [] OTHER -> "Checkpoint"],
              !.on_barriers = TRUE, !.max_checkpoints = 1]
MCControlled == {[MCTrial EXCEPT !.interval = TRUE, !.partial = "FailRun"],
                 [MCTrial EXCEPT !.mode = "AfterActiveTrials", !.on_failure = "Stop"],
                 MCChain}
MCControls == Spending(1, 1, 1, 1, 1, 0)

(* Steps that ask for 1, 2 and 2 units, and free ones that all fit at once. *)
MCAsking == {[MCPlain(g) EXCEPT !.need = [s \in Steps |-> IF s = 1 THEN 1 ELSE 2]] :
               g \in MCShapes}
            \cup {[MCPlain([s \in Steps |-> {}]) EXCEPT !.need = [s \in Steps |-> 1]]}
MCOneRunOnePause == Spending(1, 1, 0, 0, 0, 0)
MCOneRunTwoTakes == Spending(1, 0, 0, 0, 0, 2)
==============================================================================
