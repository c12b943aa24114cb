---------------------------- MODULE StepLifecycle ----------------------------
(***************************************************************************)
(* What the scheduler of an execution promises, without its queues.        *)
(*                                                                         *)
(* Every step of a plan has one status.  Steps start only when all their   *)
(* dependencies are settled, a failure blocks everything downstream of the *)
(* failed step at once, and a checkpoint restores exactly the statuses it  *)
(* recorded, apart from the steps that were running, which start over.     *)
(* Older checkpoints may be dropped when a new one is recorded.            *)
(***************************************************************************)
EXTENDS PlanGraphs

CONSTANT Graphs   \* the dependency functions plans may have

VARIABLES
  deps,        \* the dependency function of the plan being run
  status,      \* [Steps -> Status]
  checkpoints  \* the recorded [deps, status]

vars == <<deps, status, checkpoints>>

Status  == {"waiting", "running", "completed", "failed", "skipped"}
Settled == {"completed", "skipped"}

AllWaiting == [s \in Steps |-> "waiting"]

Init == /\ deps \in Graphs
        /\ status = AllWaiting
        /\ checkpoints = {}

(* A batch of steps starts: each was waiting for settled dependencies. *)
Start(S) == /\ \A s \in S : /\ status[s] = "waiting"
                            /\ \A d \in deps[s] : status[d] \in Settled
            /\ status' = [s \in Steps |-> IF s \in S THEN "running" ELSE status[s]]
            /\ UNCHANGED <<deps, checkpoints>>

Finish(s, outcome) == /\ status[s] = "running"
                      /\ status' = [status EXCEPT ![s] = outcome]
                      /\ UNCHANGED <<deps, checkpoints>>

(* A failure settles the step and skips all that is downstream of it. *)
Fail(s) == /\ status[s] = "running"
           /\ status' = [x \in Steps |->
                           CASE x = s                        -> "failed"
                             [] x \in Downstream(deps, {s})  -> "skipped"
                             [] OTHER                        -> status[x]]
           /\ UNCHANGED <<deps, checkpoints>>

Now == [deps   |-> deps,
        status |-> [s \in Steps |-> IF status[s] = "running" THEN "waiting" ELSE status[s]]]

Record == /\ \E kept \in SUBSET checkpoints : checkpoints' = kept \cup {Now}
          /\ UNCHANGED <<deps, status>>

Fresh(g) == deps' = g /\ status' = AllWaiting /\ UNCHANGED checkpoints

Restart == /\ \E c \in checkpoints : deps' = c.deps /\ status' = c.status
           /\ UNCHANGED checkpoints

Next == \/ \E S \in SUBSET Steps : Start(S)
        \/ \E s \in Steps, outcome \in Settled : Finish(s, outcome)
        \/ \E s \in Steps : Fail(s)
        \/ Record
        \/ \E g \in Graphs : Fresh(g)
        \/ Restart

Spec == Init /\ [][Next]_vars
==============================================================================
