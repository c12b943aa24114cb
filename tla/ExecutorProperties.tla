-------------------------- MODULE ExecutorProperties -------------------------
(* What the executor should keep to, and the claims its sources make.      *)
EXTENDS Executor

TypeOK ==
  /\ running_exec \in Nat /\ cancelled \in BOOLEAN /\ paused \in BOOLEAN
  /\ pending_checkpoint \in Nat /\ checkpoints \in Seq(Nat) /\ issued \in Nat
  /\ plan_fp \in Plans \cup {NoPlan}
  /\ books \in [completed : SUBSET Steps, failed : SUBSET Steps, skipped : SUBSET Steps]
  /\ DOMAIN run = DOMAIN NoRun
  /\ run.pc \in {"idle", "top", "paused", "drain", "interval", "topup", "admit", "wait", "emit"}
  /\ run.exec \in Nat /\ run.seq \in Nat /\ run.due \in Nat
  /\ run.trial_results \subseteq [trial : Nat, ok : BOOLEAN]
  /\ DOMAIN in_flight \subseteq Steps /\ DOMAIN in_flight = DOMAIN in_flight_allocations
  /\ \A a \in active : a.id \in Nat /\ a.granted \in Nat
  /\ \A c \in stored : c.plan_fp \in Plans \cup {NoPlan}

Replayed == run.pc # "idle" /\ run.seed = Nothing
Ends     == run.pc # "idle" /\ run'.pc = "idle"

------------------------------------------------------------------------------
Journaled(kind) == {e.of : e \in {e \in ToSet(journal) : e.kind = kind}}
StepEvents == {"StepStarted", "StepCompleted", "StepFailed", "StepSkipped"}
EventsOf(s) == {i \in DOMAIN journal : journal[i].of = s /\ journal[i].kind \in StepEvents}

(* The journal of a run, read on top of the checkpoint it was resumed      *)
(* from, gives exactly the outcomes the executor has booked, and would     *)
(* write into a checkpoint, at every point of the loop: also with retries, *)
(* cascades and several steps in flight.                                   *)
JournalTellsBooks ==
  Replayed =>
    /\ books.completed = run.base.completed \cup Journaled("StepCompleted")
    /\ books.failed    = run.base.failed \cup
                           {s \in Steps : \E i \in EventsOf(s) :
                              journal[i].kind = "StepFailed" /\ \A j \in EventsOf(s) : j <= i}
    /\ books.skipped   = run.base.skipped \cup Journaled("StepSkipped")

(* No step starts, as the journal tells it, before all that it depends on  *)
(* is journaled as completed or skipped, or was so in the checkpoint the   *)
(* run was resumed from, in whatever order the futures end.                *)
JournalCausal ==
  Replayed =>
    \A i \in DOMAIN journal : journal[i].kind = "StepStarted" =>
      \A d \in plan.deps[journal[i].of] :
        \/ d \in run.base.completed \cup run.base.skipped
        \/ \E j \in 1..(i - 1) : /\ journal[j].of = d
                                 /\ journal[j].kind \in {"StepCompleted", "StepSkipped"}

(* Within a run each step is settled once: skipped by a failure upstream,  *)
(* or after attempts that are told in one piece and numbered from 1, all   *)
(* but the last of which failed, and no more of them than the policy       *)
(* allows.                                                                 *)
ToldAsSkipped(s) == \E i \in DOMAIN journal :
                      EventsOf(s) = {i} /\ journal[i].kind = "StepSkipped"

ToldAsTried(s, attempts) ==
  \E start \in DOMAIN journal :
    /\ EventsOf(s) = start..(start + 2 * attempts - 1)
    /\ \A i \in EventsOf(s) :
         LET n == i - start + 1
         IN /\ journal[i].attempt = (n + 1) \div 2
            /\ journal[i].kind = "StepStarted" <=> n % 2 = 1
            /\ n % 2 = 0 /\ n < 2 * attempts => journal[i].kind = "StepFailed"

AttemptsInOrder ==
  Replayed =>
    \A s \in Steps :
      \/ EventsOf(s) = {} \/ ToldAsSkipped(s)
      \/ \E attempts \in 1..(1 + plan.retries) : ToldAsTried(s, attempts)

(* The journal of a run is a possible history of it: causes first, and of  *)
(* each step the attempts the policy allows.                               *)
JournalSound == JournalCausal /\ AttemptsInOrder

------------------------------------------------------------------------------
(* The pool and the scheduler agree: a step handed out is in the pool, or  *)
(* about to be admitted, until it is settled.  A step the scheduler thinks *)
(* is running and nobody runs would keep the plan incomplete for ever.     *)
PoolIsRunning ==
  Replayed => /\ running = DOMAIN in_flight \cup ToSet(run.batch)
              /\ DOMAIN in_flight \cap ToSet(run.batch) = {}

(* At every point of a run the journal, the books, the scheduler and the   *)
(* pool tell of the same steps in the same stages.                         *)
BooksAgree == JournalTellsBooks /\ PoolIsRunning

(* With a manager of its own the executor never has more in flight than    *)
(* its slots and the capacity allow.                                       *)
Alone == spent["takes"] = 0
WithinLimits ==
  /\ Cardinality(DOMAIN in_flight) <= MaxParallel
  /\ Alone /\ Capacity # Unbounded => granted_sum(active) <= Capacity

(* Every step in the pool holds an allocation of its own for what it asks, *)
(* and nobody else's: a release gives back the right one, whoever else     *)
(* takes and gives in between.                                             *)
AllocationsKept ==
  /\ \A s \in DOMAIN in_flight :
       [id |-> in_flight_allocations[s], granted |-> plan.need[s]] \in active
  /\ \A s, t \in DOMAIN in_flight :
       s # t => in_flight_allocations[s] # in_flight_allocations[t]
  /\ \A s \in DOMAIN in_flight : in_flight_allocations[s] \notin tenants.holding
  /\ tenants.holding \subseteq {a.id : a \in active}

(* A run that is not cut short gives back all it took: whatever is held    *)
(* after it is held by others.                                             *)
AllocationsReturned ==
  spent["runs"] = 1 /\ last.status \in {"Succeeded", "PartialFailure"}
    => {a.id : a \in active} = tenants.holding

(* Allocations are one for one with the steps in flight, whoever else uses *)
(* the manager, and all come back.                                         *)
AllocationsSound == AllocationsKept /\ AllocationsReturned

(* Every checkpoint can be resumed from: what it says is settled has all   *)
(* its dependencies settled there too.  Checkpoints are taken between any  *)
(* two steps of a run, while others are in flight, and between runs.       *)
CheckpointsClosed ==
  \A c \in stored : c.plan_fp \in Plans =>
    \A s \in c.state.completed \cup c.state.failed :
      c.plan_fp.deps[s] \subseteq c.state.completed \cup c.state.skipped

(* A resumed run never starts a step whose outcome its checkpoint holds,   *)
(* nor one downstream of a failure recorded there.                         *)
SettledStaysSettled ==
  Replayed =>
    (DOMAIN in_flight \cup ToSet(run.batch)) \cap
      (run.base.completed \cup run.base.skipped \cup run.base.failed
         \cup Downstream(plan.deps, run.base.failed)) = {}

(* A run can be resumed from any checkpoint without starting over anything *)
(* that it, or a failure upstream of it, settled.                          *)
ResumesSound == CheckpointsClosed /\ SettledStaysSettled

(* The loop gives up on a plan only when nothing of it is left: steps held *)
(* back by the capacity are taken up when it frees up.                     *)
NoEarlyEnd ==
  [][Alone /\ Ends /\ last'.status \in {"Succeeded", "PartialFailure"} => is_complete]_vars

(* A run from the start that nobody pauses says it succeeded exactly when  *)
(* all its steps are completed or skipped for a reason of their own.       *)
SuccessMeansDone ==
  [][Ends /\ run.base = Nothing /\ last'.status \in {"Succeeded", "PartialFailure"} =>
       (last'.status = "Succeeded" <=> failed = {} /\ completed \cup skipped = Steps)]_vars

(* In a run from the start, a trial's result says ok only if no step of    *)
(* that trial had failed when its TrialEnd was settled.                    *)
TrialResultsSound ==
  [][\A r \in run'.trial_results \ run.trial_results :
       r.ok /\ run.base = Nothing => \A s \in failed : plan.trial[s] # r.trial]_vars

(* Every run ends, unless someone pauses the executor. *)
RunEnds == run.pc # "idle" ~> (run.pc = "idle" \/ paused)

(* A stop ends the run, also when it is paused and stays so. *)
StopHonoured == (cancelled /\ run.pc # "idle") ~> run.pc = "idle"

(* The executor implements StepLifecycle over all the checkpoints it ever  *)
(* stored.  Replayed steps already have the status they will get.          *)
AbstractStatus ==
  StatusIn(completed \cup run.seed.completed, failed \cup run.seed.failed,
           skipped \cup run.seed.skipped \cup Downstream(plan.deps, run.seed.failed), running)

AbstractCheckpoints ==
  {[deps   |-> c.plan_fp.deps,
    status |-> StatusIn(c.state.completed, c.state.failed, c.state.skipped
                          \cup Downstream(c.plan_fp.deps, c.state.failed), {})] :
     c \in {c \in stored : c.plan_fp \in Plans}}

Lifecycle == INSTANCE StepLifecycle WITH
  Graphs      <- {p.deps : p \in Plans},
  deps        <- plan.deps,
  status      <- AbstractStatus,
  checkpoints <- AbstractCheckpoints

(* Whatever fails, is retried, paused, stopped, lost in a crash or resumed *)
(* from which checkpoint, steps start and settle as StepLifecycle says.    *)
ImplementsLifecycle == Lifecycle!Spec

------------------------------------------------------------------------------
(* A claim of the sources that the code does not keep. *)

(* executor.rs:67, of Succeeded: every step is terminal, none failed. *)
SucceededIsSuccess ==
  [][Ends /\ last'.status = "Succeeded" => is_complete /\ failed = {}]_vars
=============================================================================
