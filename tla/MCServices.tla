----------------------------- MODULE MCServices -----------------------------
(***************************************************************************)
(* Barriers, the orchestrator and the collector do not touch each other: a *)
(* behaviour is about one of them, the focus.                              *)
(***************************************************************************)
EXTENDS ServiceProperties

VARIABLE focus

vars == <<focus, barrier, orchestrator, collector>>

Init == /\ focus \in {"barrier", "orchestrator", "collector"}
        /\ InitBarrier
        /\ focus # "barrier" => pending = {}
        /\ InitOrchestrator
        /\ InitCollector

OnBarrier      == /\ focus = "barrier"
                  /\ NextBarrier
                  /\ UNCHANGED <<focus, orchestrator, collector>>
OnOrchestrator == /\ focus = "orchestrator"
                  /\ NextOrchestrator
                  /\ UNCHANGED <<focus, barrier, collector>>
OnCollector    == /\ focus = "collector"
                  /\ NextCollector
                  /\ UNCHANGED <<focus, barrier, orchestrator>>

Next == OnBarrier \/ OnOrchestrator \/ OnCollector

\* While the others have the focus the barrier is not touched.
Spec == Init /\ [][Next]_vars /\ (focus = "barrier" => FairBarrier)

MCOutputs == {[qps |-> 1], [qps |-> 2], [p99 |-> 1]}

=============================================================================
