-------------------------- MODULE SchedulerProtocol --------------------------
(***************************************************************************)
(* The scheduler under the protocol its only client, the executor, keeps:  *)
(* initialise, seed from a checkpoint, then dispatch and settle steps      *)
(* until nothing is left.  The client may crash or be cancelled at any     *)
(* point, which here is the next Execute or Resume arriving early.         *)
(***************************************************************************)
EXTENDS Scheduler

CONSTANTS
  Plans,           \* the plans a client may run, see IsPlan
  MaxParallel,     \* the client never has more than this many steps running
  Capacity         \* bound on the resources a client's snapshot reports free

ASSUME ProtocolAssumption ==
  /\ \A p \in Plans : IsPlan(p) /\ Acyclic(p.deps)
  /\ MaxParallel \in Nat \ {0} /\ Capacity \in Nat

VARIABLES
  seed,        \* what is still to be replayed from a checkpoint
  saved,       \* the last checkpoint taken, or NoCheckpoint
  unbooked,    \* the steps a failure that halted the client cascaded to
  cascaded     \* history: the skipped steps that mark_failed returned

vars  == <<inner, seed, saved, cascaded, unbooked>>

NoSeed == [completed |-> {}, skipped |-> {}, failed |-> {}]
NoCheckpoint == [plan |-> <<>>, at |-> NoSeed, cascaded |-> {}]

Execute(p) == /\ initialise(p)
              /\ seed' = NoSeed /\ cascaded' = {} /\ unbooked' = {}
              /\ UNCHANGED saved

Resume == /\ saved # NoCheckpoint
          /\ initialise(saved.plan)
          /\ seed' = saved.at /\ cascaded' = saved.cascaded /\ unbooked' = {}
          /\ UNCHANGED saved

(* Replay: completed steps first, then skipped, then failed.               *)
SeedCompleted(s) == /\ s \in seed.completed
                    /\ mark_completed(s)
                    /\ seed' = [seed EXCEPT !.completed = @ \ {s}]
                    /\ UNCHANGED <<saved, cascaded, unbooked>>

SeedSkipped(s) == /\ seed.completed = {} /\ s \in seed.skipped
                  /\ mark_skipped(s)
                  /\ seed' = [seed EXCEPT !.skipped = @ \ {s}]
                  /\ UNCHANGED <<saved, cascaded, unbooked>>

SeedFailed(s) == /\ seed.completed = {} /\ seed.skipped = {} /\ s \in seed.failed
                 /\ mark_failed(s)
                 /\ seed' = [seed EXCEPT !.failed = @ \ {s}]
                 /\ cascaded' = cascaded \cup Cascade(s)
                 /\ UNCHANGED <<saved, unbooked>>

(* The client is in its loop: replay is over and no failure halted it.     *)
Looping == seed = NoSeed /\ unbooked = {}

Dispatch(max, free) == /\ Looping
                       /\ max + Cardinality(running) <= MaxParallel
                       /\ next_steps(max, free)
                       /\ UNCHANGED <<seed, saved, cascaded, unbooked>>

Complete(s) == /\ Looping /\ s \in running
               /\ mark_completed(s)
               /\ UNCHANGED <<seed, saved, cascaded, unbooked>>

Skip(s) == /\ Looping /\ s \in running
           /\ mark_skipped(s)
           /\ UNCHANGED <<seed, saved, cascaded, unbooked>>

(* The client halts on a failure before it books the steps cascaded to.    *)
Fail(s, halt) == /\ Looping /\ s \in running
                 /\ mark_failed(s)
                 /\ cascaded' = cascaded \cup Cascade(s)
                 /\ unbooked' = IF halt THEN Cascade(s) ELSE {}
                 /\ UNCHANGED <<seed, saved>>

(* Any caller, at any time. *)
SetPriority(s, p) == set_priority(s, p) /\ UNCHANGED <<seed, saved, cascaded, unbooked>>

(* A checkpoint holds the outcomes the client booked. *)
Checkpoint == /\ seed = NoSeed
              /\ saved' = [plan |-> plan, cascaded |-> cascaded \ unbooked,
                           at |-> [completed |-> completed, failed |-> failed,
                                   skipped |-> skipped \ unbooked]]
              /\ UNCHANGED <<inner, seed, cascaded, unbooked>>

Init == /\ policy \in Policies /\ plan \in Plans
        /\ pending = Steps /\ ready = {s \in Steps : plan.deps[s] = {}}
        /\ running = {} /\ completed = {} /\ failed = {} /\ skipped = {}
        /\ priorities = [s \in Steps |-> Normal] /\ fair_cursor = 0
        /\ seed = NoSeed /\ saved = NoCheckpoint /\ cascaded = {} /\ unbooked = {}

Next == \/ \E p \in Plans : Execute(p)
        \/ Resume
        \/ \E s \in Steps : \/ SeedCompleted(s) \/ SeedSkipped(s) \/ SeedFailed(s)
                            \/ Complete(s) \/ Skip(s)
                            \/ \E halt \in BOOLEAN : Fail(s, halt)
                            \/ \E p \in Priorities : SetPriority(s, p)
        \/ \E max \in 1..MaxParallel, free \in 0..Capacity : Dispatch(max, free)
        \/ Checkpoint

Spec == Init /\ [][Next]_vars

------------------------------------------------------------------------------
TypeOK ==
  /\ policy \in Policies /\ plan \in Plans
  /\ pending \in SUBSET Steps /\ ready \in SUBSET Steps /\ running \in SUBSET Steps
  /\ completed \in SUBSET Steps /\ failed \in SUBSET Steps /\ skipped \in SUBSET Steps
  /\ priorities \in [Steps -> Priorities] /\ fair_cursor \in Nat
  /\ seed \in [completed : SUBSET Steps, skipped : SUBSET Steps, failed : SUBSET Steps]
  /\ cascaded \in SUBSET Steps /\ unbooked \in SUBSET Steps

(* Every step is in exactly one stage, whatever was replayed or dispatched *)
(* when: no step is lost, none is both settled and still to run, and none  *)
(* settled twice.  Steps without dependencies wait in pending and ready.   *)
OneStage ==
  /\ pending \cup ready \cup running \cup completed \cup failed \cup skipped = Steps
  /\ (pending \cup ready) \cap (running \cup completed \cup failed \cup skipped) = {}
  /\ running \cap (completed \cup failed \cup skipped) = {}
  /\ completed \cap (failed \cup skipped) = {} /\ failed \cap skipped = {}

(* The steps settled without a failure upstream. *)
Sound == completed \cup (skipped \ cascaded)

(* A step runs, or ran, only after all its dependencies did, or were       *)
(* skipped for a reason of their own: in particular nothing downstream of  *)
(* a failed step ever runs, also after a resume from a checkpoint that     *)
(* misses the failure's cascade.                                           *)
RunsAfterDependencies ==
  \A s \in running \cup (IF seed = NoSeed THEN Sound ELSE {}) : plan.deps[s] \subseteq Sound

(* No lost wakeup: a step whose dependencies are all settled is ready, so  *)
(* the client can always dispatch, wait for a running step, or be done.    *)
NeverStranded == (seed = NoSeed /\ ready = {} /\ running = {}) => is_complete

(* Fair: in one batch that no resource ask held back, no trial gets two    *)
(* steps ahead of a trial that still had one to run: "pick one step per    *)
(* trial in rotation before taking a second from any trial".               *)
BatchOf(t) == {s \in running' \ running : plan.trial[s] = t}
FairShare ==
  [][(policy = "Fair" /\ plan' = plan /\ Needed(Steps) = 0) =>
       \A left \in ready \cap ready', t \in 0..(plan.trials - 1) :
         Cardinality(BatchOf(t)) <= Cardinality(BatchOf(plan.trial[left])) + 1]_vars

(* Priority: a ready step is passed over for one of lower priority only    *)
(* when it asks for more of the resources than that one.                   *)
NoPriorityInversion ==
  policy = "Priority" /\ plan' = plan =>
    \A left \in ready \cap ready', s \in running' \ running :
      priorities[left] <= priorities[s] \/ plan.need[left] > plan.need[s]

(* One batch never asks for more than the snapshot it was picked against   *)
(* could hold, in whatever order the steps were considered.                *)
BatchFits == Needed(running' \ running) <= Capacity

(* A step is held back only for its size, and a batch is no bigger than    *)
(* what is free.                                                           *)
BatchesSound == [][NoPriorityInversion /\ BatchFits]_vars

(* The scheduler implements StepLifecycle.  Steps of a checkpoint still to *)
(* be replayed already have the status they will get.                      *)
AbstractStatus ==
  StatusIn(completed \cup seed.completed, failed \cup seed.failed,
           skipped \cup seed.skipped \cup Downstream(plan.deps, seed.failed), running)

AbstractCheckpoints ==
  IF saved = NoCheckpoint THEN {}
  ELSE {[deps   |-> saved.plan.deps,
         status |-> StatusIn(saved.at.completed, saved.at.failed, saved.at.skipped
                               \cup Downstream(saved.plan.deps, saved.at.failed), {})]}

Lifecycle == INSTANCE StepLifecycle WITH
  Graphs      <- {p.deps : p \in Plans},
  deps        <- plan.deps,
  status      <- AbstractStatus,
  checkpoints <- AbstractCheckpoints

(* Whatever is dispatched, settled, replayed or lost in a crash, and when, *)
(* steps start, settle and block as StepLifecycle says.                    *)
ImplementsLifecycle == Lifecycle!Spec
==============================================================================
