---------------------------- MODULE Orchestrator ----------------------------
(***************************************************************************)
(* DefaultOrchestrator: the runtimes of the elements, the stash of what    *)
(* each Deploy gave, and the steps an executor hands to it, in the order   *)
(* the plan has for the instances of an element: deployed, awaited, saved  *)
(* from, torn down, one instance after the other.  The run may be resumed  *)
(* in a new process, or another one begun on the same orchestrator.        *)
(***************************************************************************)
EXTENDS Naturals, FiniteSets

CONSTANTS Elements, Instances,   \* the numbers of the instances, from 0
          Outputs,               \* what a materialization may give
          Parameters,            \* result parameters that may be asked for
          MaxTries, MaxProcesses

VARIABLES runtimes,    \* elements with a runtime
          outputs,     \* (element, instance) -> what its Deploy gave
          status,      \* element -> the state its runtime reports
          settled,     \* the steps that are settled, in any process
          gave,        \* what each Deploy really gave, and in which process
          last,        \* the last step and its outcome
          tries,       \* bounds the steps
          processes, ended

orchestrator == <<runtimes, outputs, status, settled, gave, last, tries,
                  processes, ended>>

NoOutputs == [p \in {} |-> "none"]

InitOrchestrator ==
  /\ runtimes = Elements
  /\ outputs = [k \in {} |-> NoOutputs]
  /\ status = [e \in Elements |-> "Ready"]
  /\ settled = {}
  /\ gave = [k \in {} |-> NoOutputs]
  /\ last = [kind |-> "none"]
  /\ tries = 0
  /\ processes = 1
  /\ ended = FALSE

Stash(f, k, v) == [x \in DOMAIN f \cup {k} |-> IF x = k THEN v ELSE f[x]]

Step(kind, e, i) == <<kind, e, i>>

\* The order of the plan.
Due(kind, e, i) ==
  /\ Step(kind, e, i) \notin settled
  /\ \A j \in Instances : j < i => Step("Teardown", e, j) \in settled
  /\ kind # "Deploy" => Step("Deploy", e, i) \in settled
  /\ Step("Teardown", e, i) \notin settled

\* One step: its outcome, what it leaves in the books of the executor, and in
\* the log of this module.  A failed step may be tried again.
Did(kind, e, i, outcome) ==
  /\ tries < MaxTries
  /\ tries' = tries + 1
  /\ settled' = IF outcome.is = "Completed" THEN settled \cup {Step(kind, e, i)}
                ELSE settled
  /\ last' = [kind |-> kind, element |-> e, instance |-> i, outcome |-> outcome,
              process |-> processes]
  /\ UNCHANGED <<processes, ended>>

Completed       == [is |-> "Completed"]
Metric(p, v)    == [is |-> "Completed", parameter |-> p, value |-> v]
Volume          == [is |-> "Completed", volume |-> TRUE]
Failed(why)     == [is |-> "Failed", why |-> why]
NoRuntime       == [is |-> "Error", why |-> "NoRuntimeForElement"]

Refused(kind, e, i) ==
  /\ e \notin runtimes
  /\ Did(kind, e, i, NoRuntime)
  /\ UNCHANGED <<runtimes, outputs, status, gave>>

-----------------------------------------------------------------------------

Deploy(e, i) ==
  /\ Due("Deploy", e, i)
  /\ e \in runtimes
  /\ \/ \E o \in Outputs :
          /\ outputs' = Stash(outputs, <<e, i>>, o)
          /\ gave' = Stash(gave, <<e, i>>, [out |-> o, process |-> processes])
          /\ status' = [status EXCEPT ![e] = "Ready"]
          /\ Did("Deploy", e, i, Completed)
     \/ /\ status' = [status EXCEPT ![e] = "Failed"]
        /\ Did("Deploy", e, i, Failed("MaterializeFailed"))
        /\ UNCHANGED <<outputs, gave>>
  /\ UNCHANGED runtimes

Await(e, i) ==
  /\ Due("Await", e, i)
  /\ e \in runtimes
  /\ Did("Await", e, i, IF status[e] = "Failed" THEN Failed("ElementFailed")
                                                ELSE Completed)
  /\ UNCHANGED <<runtimes, outputs, status, gave>>

\* Mutant: the outputs of any instance of the element.
Saved_any(e, i, p) ==
  LET of == {k \in DOMAIN outputs : k[1] = e}
  IN  IF status[e] = "Failed" THEN Failed("ElementFailed")
      ELSE IF of = {} THEN Failed("NoOutputsForInstance")
      ELSE LET k == CHOOSE k \in of : TRUE
           IN  IF p \in DOMAIN outputs[k] THEN Metric(p, outputs[k][p])
               ELSE Failed("MissingResultParameter")

\* The value comes from the stash; the runtime is asked for its state only.
Saved(e, i, p) ==
  IF status[e] = "Failed" THEN Failed("ElementFailed")
  ELSE IF <<e, i>> \notin DOMAIN outputs THEN Failed("NoOutputsForInstance")
  ELSE IF p = "volume" THEN Volume
  ELSE IF p \in DOMAIN outputs[<<e, i>>] THEN Metric(p, outputs[<<e, i>>][p])
  ELSE Failed("MissingResultParameter")

SaveOutput(e, i, p) ==
  /\ Due("SaveOutput", e, i)
  /\ e \in runtimes
  /\ Did("SaveOutput", e, i, Saved(e, i, p))
  /\ UNCHANGED <<runtimes, outputs, status, gave>>

\* The stash keeps what the instance gave.
Teardown(e, i) ==
  /\ Due("Teardown", e, i)
  /\ e \in runtimes
  /\ \/ Did("Teardown", e, i, Completed)
     \/ Did("Teardown", e, i, Failed("DematerializeFailed"))
  /\ UNCHANGED <<runtimes, outputs, status, gave>>

\* An element that is up fails, or recovers.
Turn(e) ==
  /\ status' = [status EXCEPT ![e] = IF @ = "Failed" THEN "Ready" ELSE "Failed"]
  /\ UNCHANGED <<runtimes, outputs, settled, gave, last, tries, processes, ended>>

\* The end of every run.  Another run of the same plan starts from nothing.
shutdown ==
  /\ ~ended
  /\ runtimes' = {}
  /\ settled' = {}
  /\ ended' = TRUE
  /\ UNCHANGED <<outputs, status, gave, last, tries, processes>>

\* A resume: the settled steps are known, the orchestrator is a new one.
NewProcess ==
  /\ ~ended
  /\ processes < MaxProcesses
  /\ processes' = processes + 1
  /\ runtimes' = Elements
  /\ outputs' = [k \in {} |-> NoOutputs]
  /\ UNCHANGED <<status, settled, gave, last, tries, ended>>

NextOrchestrator ==
  \/ \E e \in Elements, i \in Instances : Deploy(e, i)
  \/ \E e \in Elements, i \in Instances : Await(e, i)
  \/ \E e \in Elements, i \in Instances, p \in Parameters \cup {"volume"} :
       SaveOutput(e, i, p)
  \/ \E e \in Elements, i \in Instances : Teardown(e, i)
  \/ \E e \in Elements, i \in Instances :
       Due("Deploy", e, i) /\ Refused("Deploy", e, i)
  \/ \E e \in Elements : Turn(e)
  \/ shutdown
  \/ NewProcess

SpecOrchestrator == InitOrchestrator /\ [][NextOrchestrator]_orchestrator

=============================================================================
