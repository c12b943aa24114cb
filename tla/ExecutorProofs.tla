--------------------------- MODULE ExecutorProofs ---------------------------
(***************************************************************************)
(* The safety of the executor, for every plan, policy and budget: what it  *)
(* has in its pool, what it holds for that, and what it makes of trials.   *)
(***************************************************************************)
EXTENDS ExecutorProperties, SumProofs, SequenceTheorems

(***************************************************************************)
(* The scheduler of a run keeps to SchedulerProtocol: what is left to      *)
(* replay is run.seed, and a run that ends leaves the protocol.            *)
(***************************************************************************)
CascadedSteps == Downstream(plan.deps, failed \cup run.seed.failed)
                   \cap (skipped \cup run.seed.skipped)

NeverSaved == [plan |-> <<>>, at |-> [completed |-> {}, skipped |-> {}, failed |-> {}],
               cascaded |-> {}]

Sched == INSTANCE SchedulerProofs WITH
  Capacity <- 0,
  seed     <- run.seed,
  saved    <- NeverSaved,
  cascaded <- CascadedSteps,
  unbooked <- {}

(* What the scheduler's modules assume of their constants. *)
LEMMA Assumed ==
  /\ Steps \subseteq Nat /\ Sched!IsFiniteSet(Steps)
  /\ Policies \subseteq {"Fifo", "Priority", "Fair", "ResourceAware"}
  /\ Priorities \subseteq Nat /\ Sched!IsFiniteSet(Priorities) /\ Sched!Normal \in Priorities
  /\ \A p \in Plans : Sched!IsPlan(p) /\ Sched!Acyclic(p.deps)
  /\ MaxParallel \in Nat \ {0} /\ 0 \in Nat
<1>1. Sched!IsFiniteSet(Steps) /\ Sched!IsFiniteSet(Priorities) /\ Sched!Normal \in Priorities
  BY SchedulerAssumption DEF Sched!IsFiniteSet, IsFiniteSet, Sched!Normal, Normal
<1>2. ASSUME NEW p \in Plans PROVE Sched!IsPlan(p) /\ Sched!Acyclic(p.deps)
  <2>1. p \in ExecPlanOf /\ Acyclic(p.deps)
    BY ExecutorAssumption
  <2>. QED  BY <2>1 DEF ExecPlanOf, Sched!IsPlan, Sched!Acyclic, Acyclic
<1>. QED  BY <1>1, <1>2, SchedulerAssumption, ExecutorAssumption

------------------------------------------------------------------------------
(***************************************************************************)
(* Types, and the pool that is empty between runs.                         *)
(***************************************************************************)
Pcs    == {"idle", "top", "paused", "drain", "interval", "topup", "admit", "wait", "emit"}
Settlements == [completed : SUBSET Steps, failed : SUBSET Steps, skipped : SUBSET Steps]
Results == [trial : Nat, ok : BOOLEAN]
Runs   == [pc : Pcs, exec : Nat, seq : Nat, seed : Settlements, base : Settlements,
           any_failed : BOOLEAN, trial_failed : SUBSET Nat, trial_results : SUBSET Results,
           batch : Seq(Steps), due : Nat, checkpointed : BOOLEAN]
EventKinds == StepEvents \cup {"ExecutionStarted", "ExecutionResumed", "ExecutionCompleted",
                               "CheckpointCreated"}
Events == [kind : EventKinds, of : Nat, attempt : Nat]
Stored == [id : Nat, exec : Nat, plan_fp : Plans \cup {NoPlan}, state : Settlements,
           in_flight : {{}}]

FieldsTyped ==
  /\ running_exec \in Nat /\ cancelled \in BOOLEAN /\ paused \in BOOLEAN
  /\ pending_checkpoint \in Nat /\ checkpoints \in Seq(Nat) /\ issued \in Nat
  /\ spent \in [Spendable -> Nat]

PlansTyped == policy \in Policies /\ plan \in Plans /\ plan_fp \in Plans \cup {NoPlan}

SetsTyped ==
  /\ pending \in SUBSET Steps /\ ready \in SUBSET Steps /\ running \in SUBSET Steps
  /\ completed \in SUBSET Steps /\ failed \in SUBSET Steps /\ skipped \in SUBSET Steps

BooksTyped == books \in Settlements /\ stored \in SUBSET Stored

RunTyped == run \in Runs /\ (run.pc = "idle" => run = NoRun) /\ journal \in Seq(Events)

PoolTyped ==
  /\ in_flight \in [DOMAIN in_flight -> Nat \ {0}]
  /\ in_flight_allocations \in [DOMAIN in_flight -> Nat]
  /\ DOMAIN in_flight \subseteq Steps
  /\ run.pc = "idle" => DOMAIN in_flight = {}

ActiveTyped ==
  /\ active \in SUBSET [id : Nat, granted : Nat] /\ IsFiniteSet(active)
  /\ tenants \in [asking : Nat, holding : SUBSET Nat]

Typed == /\ FieldsTyped /\ PlansTyped /\ SetsTyped /\ BooksTyped
         /\ RunTyped /\ PoolTyped /\ ActiveTyped

LEMMA TypedIsTypeOK == Typed => TypeOK
BY DEF Typed, TypeOK, FieldsTyped, PlansTyped, BooksTyped, RunTyped, PoolTyped, ActiveTyped,
       Settlements, Runs, Stored, Pcs, Results, NoRun

LEMMA InitTyped == Init => Typed
<1>. SUFFICES ASSUME Init PROVE Typed
  OBVIOUS
<1>1. plan \in Plans
  BY ExecutorAssumption DEF Init
<1>2. PlansTyped /\ SetsTyped /\ BooksTyped
  BY <1>1 DEF Init, Blank, PlansTyped, SetsTyped, BooksTyped, Settlements, Nothing
<1>f. FieldsTyped
  <2>1. spent \in [Spendable -> Nat] /\ checkpoints \in Seq(Nat) /\ issued \in Nat
    BY DEF Init
  <2>2. running_exec \in Nat /\ pending_checkpoint \in Nat /\ cancelled \in BOOLEAN /\ paused \in BOOLEAN
    BY DEF Init, None
  <2>. QED  BY <2>1, <2>2 DEF FieldsTyped
<1>3. NoRun \in Runs
  BY DEF NoRun, Runs, Pcs, Settlements, Nothing, None
<1>4. RunTyped /\ PoolTyped
  BY <1>3 DEF Init, RunTyped, PoolTyped
<1>5. ActiveTyped
  BY FS_EmptySet DEF Init, ActiveTyped, NoTenants
<1>. QED  BY <1>2, <1>f, <1>4, <1>5 DEF Typed

(* The identifiers that are made up are fresh. *)
LEMMA FreshCheckpointIdTyped == FieldsTyped => FreshCheckpointId \in Nat
<1>1. Steps \cup {0} \subseteq Nat /\ IsFiniteSet(Steps \cup {0})
  BY SchedulerAssumption, FS_AddElement
<1>2. Max(Steps \cup {0}) \in Steps \cup {0}
  BY <1>1, GreatestOf
<1>. QED  BY <1>1, <1>2 DEF FreshCheckpointId, FieldsTyped

LEMMA FreshAllocationIdTyped ==
  ASSUME ActiveTyped
  PROVE  FreshAllocationId \in Nat /\ \A a \in active : a.id # FreshAllocationId
<1>. DEFINE ids  == {a.id : a \in active}
            free == 0..Cardinality(active) \ ids
            f    == [a \in active |-> a.id]
<1>0. IsFiniteSet(active)
  BY DEF ActiveTyped
<1>1. f \in Surjection(active, ids)
  BY DEF Surjection
<1>2. IsFiniteSet(ids) /\ Cardinality(ids) <= Cardinality(active) /\ Cardinality(active) \in Nat
  BY <1>0, <1>1, FS_Surjection, FS_CardinalityType
<1>3. free # {}
  <2>. SUFFICES ASSUME 0..Cardinality(active) \subseteq ids PROVE FALSE
    OBVIOUS
  <2>1. Cardinality(0..Cardinality(active)) = Cardinality(active) + 1
    BY <1>2, FS_Interval
  <2>2. Cardinality(0..Cardinality(active)) <= Cardinality(ids)
    BY <1>2, FS_Subset
  <2>3. Cardinality(ids) \in Nat
    BY <1>2, FS_CardinalityType
  <2>. QED  BY <1>2, <2>1, <2>2, <2>3
<1>4. Min(free) \in free
  BY <1>2, <1>3, LeastOf
<1>5. FreshAllocationId = Min(free)
  BY DEF FreshAllocationId
<1>6. Min(free) \in Nat /\ Min(free) \notin ids
  BY <1>2, <1>4
<1>. QED  BY <1>5, <1>6

LEMMA NoRunTyped == NoRun \in Runs
BY DEF NoRun, Runs, Pcs, Settlements, Nothing, None

LEMMA EventTyped ==
  ASSUME NEW kind \in EventKinds, NEW of \in Nat, NEW attempt \in Nat
  PROVE  Event(kind, of, attempt) \in Events
BY DEF Event, Events

LEMMA OneEventTyped ==
  ASSUME NEW kind \in EventKinds, NEW of \in Nat
  PROVE  <<Event(kind, of, 0)>> \in Seq(Events)
<1>1. Event(kind, of, 0) \in Events
  BY EventTyped
<1>. QED  BY <1>1

LEMMA WriteTyped ==
  ASSUME RunTyped, NEW r \in Runs, NEW events \in Seq(Events), Write(r, events)
  PROVE  /\ RunTyped'
         /\ run' = IF r.pc = "idle" THEN NoRun ELSE [r EXCEPT !.seq = r.seq + Len(events)]
<1>1. [r EXCEPT !.seq = r.seq + Len(events)] \in Runs
  <2>1. r.seq + Len(events) \in Nat
    BY DEF Runs
  <2>. QED  BY <2>1 DEF Runs
<1>2. run' \in Runs /\ (run'.pc = "idle" => run' = NoRun)
  BY <1>1, NoRunTyped DEF Write, Runs
<1>3. journal' \in Seq(Events)
  BY DEF Write, RunTyped
<1>4. run' = IF r.pc = "idle" THEN NoRun ELSE [r EXCEPT !.seq = r.seq + Len(events)]
  BY DEF Write
<1>. QED  BY <1>2, <1>3, <1>4 DEF RunTyped

LEMMA SpendTyped ==
  ASSUME FieldsTyped, NEW what \in Spendable, Spend(what)
  PROVE  spent' \in [Spendable -> Nat]
BY DEF Spend, FieldsTyped

LEMMA ExecuteTyped ==
  ASSUME Typed, NEW p \in Plans, Execute(p)
  PROVE  Typed'
<1>. USE DEF Execute, Spend
<1>1. FieldsTyped'
  BY DEF Typed, FieldsTyped, Nil, Spendable
<1>2. PlansTyped' /\ SetsTyped' /\ BooksTyped'
  BY DEF Typed, PlansTyped, SetsTyped, BooksTyped, initialise, Settlements, Nothing
<1>3. RunTyped' /\ run'.pc = "top"
  <2>. DEFINE r == [NoRun EXCEPT !.pc = "top", !.exec = running_exec']
  <2>1. r \in Runs /\ r.pc = "top"
    BY <1>1, NoRunTyped DEF Runs, Pcs, FieldsTyped
  <2>2. <<Event("ExecutionStarted", None, 0)>> \in Seq(Events)
    <3>1. "ExecutionStarted" \in EventKinds /\ None \in Nat
      BY DEF EventKinds, None
    <3>. QED  BY <3>1, OneEventTyped
  <2>3. Write(r, <<Event("ExecutionStarted", None, 0)>>) /\ RunTyped
    BY DEF Typed
  <2>. HIDE DEF r, Execute, Resume
  <2>4. RunTyped' /\ run' = [r EXCEPT !.seq = r.seq + Len(<<Event("ExecutionStarted", None, 0)>>)]
    BY <2>1, <2>2, <2>3, WriteTyped
  <2>. QED  BY <2>1, <2>4 DEF Runs
<1>4. PoolTyped' /\ ActiveTyped'
  BY <1>3 DEF Typed, PoolTyped, ActiveTyped, pool
<1>. QED  BY <1>1, <1>2, <1>3, <1>4 DEF Typed

LEMMA ResumeTyped ==
  ASSUME Typed, NEW c \in stored, Resume(c)
  PROVE  Typed'
<1>. USE DEF Resume, Spend
<1>0. c \in Stored
  BY DEF Typed, BooksTyped
<1>1. FieldsTyped'
  BY <1>0 DEF Typed, FieldsTyped, Stored, Spendable
<1>2. PlansTyped' /\ SetsTyped' /\ BooksTyped'
  BY <1>0 DEF Typed, PlansTyped, SetsTyped, BooksTyped, initialise, Stored, Restored
<1>3. RunTyped' /\ run'.pc = "top"
  <2>. DEFINE r == [NoRun EXCEPT !.pc = "top", !.exec = c.exec, !.seed = c.state, !.base = c.state]
  <2>1. r \in Runs /\ r.pc = "top"
    BY <1>0, NoRunTyped DEF Runs, Pcs, Stored
  <2>2. <<Event("ExecutionResumed", c.id, 0)>> \in Seq(Events)
    <3>1. "ExecutionResumed" \in EventKinds /\ c.id \in Nat
      BY <1>0 DEF EventKinds, Stored
    <3>. QED  BY <3>1, OneEventTyped
  <2>3. Write(r, <<Event("ExecutionResumed", c.id, 0)>>) /\ RunTyped
    BY DEF Typed
  <2>. HIDE DEF r, Execute, Resume
  <2>4. RunTyped' /\ run' = [r EXCEPT !.seq = r.seq + Len(<<Event("ExecutionResumed", c.id, 0)>>)]
    BY <2>1, <2>2, <2>3, WriteTyped
  <2>. QED  BY <2>1, <2>4 DEF Runs
<1>4. PoolTyped' /\ ActiveTyped'
  BY <1>3 DEF Typed, PoolTyped, ActiveTyped, pool
<1>. QED  BY <1>1, <1>2, <1>3, <1>4 DEF Typed

LEMMA MarkTyped ==
  ASSUME Typed, NEW s \in Steps, mark_completed(s) \/ mark_skipped(s) \/ mark_failed(s)
  PROVE  SetsTyped' /\ UNCHANGED <<policy, plan>>
<1>1. CASE mark_completed(s)
  BY <1>1 DEF Typed, SetsTyped, mark_completed, mark_settled, Promoted
<1>2. CASE mark_skipped(s)
  BY <1>2 DEF Typed, SetsTyped, mark_skipped, mark_settled, Promoted
<1>3. CASE mark_failed(s)
  <2>1. Cascade(s) \subseteq Steps
    BY DEF Cascade, DownstreamIn, Typed, SetsTyped
  <2>. QED  BY <1>3, <2>1 DEF Typed, SetsTyped, mark_failed
<1>. QED  BY <1>1, <1>2, <1>3

LEMMA SeedTyped ==
  ASSUME Typed, NEW s \in Steps, SeedCompleted(s) \/ SeedSkipped(s) \/ SeedFailed(s)
  PROVE  Typed'
<1>1. SetsTyped' /\ UNCHANGED <<policy, plan>>
  BY MarkTyped DEF SeedCompleted, SeedSkipped, SeedFailed
<1>2. PICK rest \in Settlements : Seeding(rest)
  <2>1. run.seed \in Settlements
    BY DEF Typed, RunTyped, Runs
  <2>. QED  BY <2>1 DEF SeedCompleted, SeedSkipped, SeedFailed, Settlements
<1>3. run.pc # "idle"
  BY DEF SeedCompleted, SeedSkipped, SeedFailed, Typed, RunTyped, NoRun, Nothing
<1>4. RunTyped' /\ run'.pc = run.pc
  BY <1>2, <1>3 DEF Seeding, Typed, RunTyped, Runs, kept
<1>5. FieldsTyped' /\ PlansTyped' /\ BooksTyped' /\ PoolTyped' /\ ActiveTyped'
  BY <1>1, <1>2, <1>4 DEF Seeding, kept, pool, fields, Typed, FieldsTyped, PlansTyped, BooksTyped,
     PoolTyped, ActiveTyped
<1>. QED  BY <1>1, <1>4, <1>5 DEF Typed

(* A run ends and its pool is dropped. *)
LEMMA EndTyped ==
  ASSUME Typed, NEW status, NEW trial_results, NEW events \in Seq(Events),
         End(status, trial_results, events)
  PROVE  RunTyped' /\ PoolTyped' /\ run' = NoRun /\ running_exec' \in Nat
<1>. DEFINE all == Append(events, Event("ExecutionCompleted", None, 0))
            r   == [run EXCEPT !.pc = "idle"]
<1>1. all \in Seq(Events)
  <2>1. "ExecutionCompleted" \in EventKinds /\ None \in Nat
    BY DEF EventKinds, None
  <2>. QED  BY <2>1, EventTyped
<1>2. r \in Runs /\ r.pc = "idle" /\ RunTyped
  BY DEF Typed, RunTyped, Runs, Pcs
<1>3. Write(r, all)
  BY DEF End
<1>. HIDE DEF r, all
<1>4. RunTyped' /\ run' = NoRun
  BY <1>1, <1>2, <1>3, WriteTyped
<1>5. PoolTyped' /\ running_exec' \in Nat
  BY <1>4 DEF End, Return, PoolTyped, NoRun, None
<1>. QED  BY <1>4, <1>5

LEMMA CancelledTyped ==
  ASSUME Typed, NEW trial_results, finalise_cancelled(trial_results)
  PROVE  Typed'
<1>1. RunTyped' /\ PoolTyped' /\ running_exec' \in Nat
  <2>1. <<>> \in Seq(Events)
    OBVIOUS
  <2>. QED  BY <2>1, EndTyped DEF finalise_cancelled
<1>2. FieldsTyped' /\ PlansTyped' /\ BooksTyped' /\ ActiveTyped' /\ SetsTyped'
  BY <1>1 DEF finalise_cancelled, Typed, FieldsTyped, PlansTyped, BooksTyped, ActiveTyped, SetsTyped,
              inner, sets
<1>. QED  BY <1>1, <1>2 DEF Typed

LEMMA FinishTyped ==
  ASSUME Typed, Finish
  PROVE  Typed'
<1>1. RunTyped' /\ PoolTyped' /\ running_exec' \in Nat
  <2>1. <<>> \in Seq(Events)
    OBVIOUS
  <2>. QED  BY <2>1, EndTyped DEF Finish
<1>2. FieldsTyped' /\ PlansTyped' /\ BooksTyped' /\ ActiveTyped' /\ SetsTyped'
  BY <1>1 DEF Finish, Typed, FieldsTyped, PlansTyped, BooksTyped, ActiveTyped, SetsTyped,
              inner, sets
<1>. QED  BY <1>1, <1>2 DEF Typed

(* The steps of the loop that only move on. *)
LEMMA GotoTyped ==
  ASSUME Typed, NEW pc \in Pcs \ {"idle"}, run.pc # "idle", Goto(pc),
         UNCHANGED <<inner, active, fields, pool>>, Elsewhere
  PROVE  Typed'
<1>1. RunTyped' /\ PoolTyped'
  BY DEF Typed, RunTyped, Runs, Goto, Elsewhere, kept, pool, PoolTyped
<1>2. FieldsTyped' /\ PlansTyped' /\ BooksTyped' /\ ActiveTyped' /\ SetsTyped'
  BY DEF Typed, FieldsTyped, PlansTyped, BooksTyped, ActiveTyped, SetsTyped, inner, sets,
         fields, Elsewhere, kept
<1>. QED  BY <1>1, <1>2 DEF Typed

LEMMA MovesTyped ==
  ASSUME Typed, Top \/ TopPaused \/ Unpaused \/ NoInterval \/ NoTopUp
  PROVE  Typed'
<1>. DEFINE next == {"paused", "drain", "interval", "topup", "wait"}
<1>1. PICK pc \in next : Goto(pc) /\ UNCHANGED <<inner, active, fields, pool>> /\ Elsewhere
  BY DEF Top, TopPaused, Unpaused, NoInterval, NoTopUp, Onward
<1>2. run.pc # "idle" /\ pc \in Pcs \ {"idle"}
  BY DEF Top, TopPaused, Unpaused, NoInterval, NoTopUp, At, Pcs
<1>. QED  BY <1>1, <1>2, GotoTyped

(* Checkpoints. *)
LEMMA SnapshotTyped ==
  ASSUME Typed, NEW id \in Nat, NEW exec \in Nat
  PROVE  /\ Snapshot(id, exec) \in Stored
         /\ record_checkpoint(id, exec) => stored' \in SUBSET Stored
<1>1. Snapshot(id, exec) \in Stored
  BY DEF Snapshot, Stored, Typed, PlansTyped, BooksTyped
<1>. QED  BY <1>1 DEF record_checkpoint, Typed, BooksTyped

LEMMA NotedTyped ==
  ASSUME checkpoints \in Seq(Nat), NEW id \in Nat
  PROVE  Noted(id) \in Seq(Nat)
BY DEF Noted

LEMMA LastOfTyped ==
  ASSUME NEW list \in Seq(Nat), NEW max \in Nat
  PROVE  LastOf(list, max) \in Seq(Nat)
<1>1. CASE Len(list) <= max
  BY <1>1 DEF LastOf
<1>2. CASE Len(list) > max
  <2>1. Len(list) - max + 1 \in 1..(Len(list) + 1) /\ Len(list) \in Nat
    BY <1>2
  <2>2. SubSeq(list, Len(list) - max + 1, Len(list)) \in Seq(Nat)
    BY <2>1, SubSeqProperties
  <2>. QED  BY <1>2, <2>1, <2>2 DEF LastOf
<1>. QED  BY <1>1, <1>2

LEMMA EmitTyped ==
  ASSUME Typed, run.pc # "idle", NEW id \in Nat, NEW next \in Pcs \ {"idle"},
         emit_checkpoint(id, next)
  PROVE  /\ RunTyped' /\ stored' \in SUBSET Stored /\ checkpoints' \in Seq(Nat)
         /\ run'.pc = next /\ run'.batch = run.batch /\ run'.due = None
         /\ UNCHANGED <<run.seed, run.base>>
<1>. DEFINE r == [run EXCEPT !.pc = next, !.due = None, !.checkpointed = TRUE]
            told == <<Event("CheckpointCreated", id, 0)>>
<1>1. r \in Runs /\ r.pc = next /\ RunTyped /\ run.exec \in Nat
  BY DEF Typed, RunTyped, Runs, None
<1>2. told \in Seq(Events)
  <2>1. "CheckpointCreated" \in EventKinds
    BY DEF EventKinds
  <2>. QED  BY <2>1, OneEventTyped
<1>3. Write(r, told)
  BY DEF emit_checkpoint
<1>4. RunTyped' /\ run' = [r EXCEPT !.seq = r.seq + Len(told)]
  <2>. HIDE DEF r, told
  <2>. QED  BY <1>1, <1>2, <1>3, WriteTyped
<1>5. stored' \in SUBSET Stored
  BY <1>1, SnapshotTyped DEF emit_checkpoint
<1>6. checkpoints' \in Seq(Nat)
  <2>1. plan.max_checkpoints \in Nat
    BY ExecutorAssumption DEF Typed, PlansTyped, ExecPlanOf
  <2>2. Noted(id) \in Seq(Nat)
    BY NotedTyped DEF Typed, FieldsTyped
  <2>. QED  BY <2>1, <2>2, LastOfTyped DEF emit_checkpoint
<1>. QED  BY <1>1, <1>4, <1>5, <1>6 DEF Runs

LEMMA CheckpointingTyped ==
  ASSUME Typed, Drain \/ Interval \/ EmitDue
  PROVE  Typed'
<1>1. PICK id \in Nat, next \in {"interval", "topup", "top"} : emit_checkpoint(id, next)
  <2>1. pending_checkpoint \in Nat /\ run.due \in Nat /\ FreshCheckpointId \in Nat
    BY FreshCheckpointIdTyped DEF Typed, FieldsTyped, RunTyped, Runs
  <2>. QED  BY <2>1 DEF Drain, Interval, EmitDue
<1>2. run.pc # "idle" /\ next \in Pcs \ {"idle"}
  BY DEF Drain, Interval, EmitDue, At, Pcs
<1>3. /\ RunTyped' /\ stored' \in SUBSET Stored /\ checkpoints' \in Seq(Nat)
      /\ run'.pc # "idle"
  BY <1>1, <1>2, EmitTyped
<1>4. /\ FieldsTyped' /\ books' \in Settlements
      /\ UNCHANGED <<inner, active, tenants, plan_fp, pool>>
  BY <1>3 DEF Drain, Interval, EmitDue, Typed, FieldsTyped, BooksTyped, None
<1>5. PlansTyped' /\ SetsTyped' /\ BooksTyped' /\ PoolTyped' /\ ActiveTyped'
  BY <1>2, <1>3, <1>4 DEF Typed, PlansTyped, SetsTyped, BooksTyped, PoolTyped, ActiveTyped,
                    inner, sets, pool
<1>. QED  BY <1>3, <1>4, <1>5 DEF Typed

(* What other tasks do. *)
LEMMA ControlTyped ==
  ASSUME Typed, Control
  PROVE  Typed'
<1>1. FieldsTyped' /\ stored' \in SUBSET Stored
  <2>1. CASE checkpoint_now
    <3>1. FreshCheckpointId \in Nat /\ Nil \in Nat /\ None \in Nat
      BY FreshCheckpointIdTyped DEF Typed, Nil, None
    <3>2. Noted(FreshCheckpointId) \in Seq(Nat)
      BY <3>1, NotedTyped DEF Typed, FieldsTyped
    <3>3. stored' \in SUBSET Stored
      BY <2>1, <3>1, SnapshotTyped DEF checkpoint_now, Typed, BooksTyped
    <3>. QED  BY <2>1, <3>1, <3>2, <3>3 DEF checkpoint_now, Typed, FieldsTyped, Spend, Spendable
  <2>2. CASE Pause \/ Unpause \/ Stop
    <3>1. spent' \in [Spendable -> Nat]
      BY <2>2, SpendTyped DEF Pause, Unpause, Stop, Typed, FieldsTyped, Spendable
    <3>. QED  BY <2>2, <3>1 DEF Pause, Unpause, Stop, Typed, FieldsTyped, BooksTyped
  <2>. QED  BY <2>1, <2>2 DEF Control
<1>2. UNCHANGED <<inner, active, tenants, plan_fp, books, run, journal, pool>>
  BY DEF Control, Pause, Unpause, Stop, checkpoint_now, Around
<1>3. PlansTyped' /\ SetsTyped' /\ BooksTyped' /\ RunTyped' /\ PoolTyped' /\ ActiveTyped'
  BY <1>1, <1>2 DEF Typed, PlansTyped, SetsTyped, BooksTyped, RunTyped, PoolTyped, ActiveTyped,
                    inner, sets, pool
<1>. QED  BY <1>1, <1>3 DEF Typed

(* Allocations that are given and taken. *)
LEMMA PushTyped ==
  ASSUME ActiveTyped, NEW need \in Nat, push([id |-> FreshAllocationId, granted |-> need])
  PROVE  active' \in SUBSET [id : Nat, granted : Nat] /\ IsFiniteSet(active')
<1>1. FreshAllocationId \in Nat
  BY FreshAllocationIdTyped
<1>2. IsFiniteSet(active \cup {[id |-> FreshAllocationId, granted |-> need]})
  BY FS_AddElement DEF ActiveTyped
<1>. QED  BY <1>1, <1>2 DEF push, ActiveTyped

LEMMA ReleaseTyped ==
  ASSUME ActiveTyped, NEW id, release(id)
  PROVE  active' \in SUBSET [id : Nat, granted : Nat] /\ IsFiniteSet(active')
<1>1. active' \in SUBSET active
  BY DEF release
<1>2. IsFiniteSet(active')
  BY <1>1, FS_Subset DEF ActiveTyped
<1>. QED  BY <1>1, <1>2 DEF ActiveTyped

Takes == \/ \E need \in 1..(IF Capacity = Unbounded THEN 0 ELSE Capacity) : TenantChecks(need)
         \/ TenantPushes
         \/ \E id \in tenants.holding : TenantGives(id)

LEMMA TakesTyped ==
  ASSUME Typed, Takes
  PROVE  Typed'
<1>1. ActiveTyped' /\ spent' \in [Spendable -> Nat]
  <2>1. ASSUME NEW need \in 1..(IF Capacity = Unbounded THEN 0 ELSE Capacity), TenantChecks(need)
        PROVE  ActiveTyped' /\ spent' \in [Spendable -> Nat]
    <3>1. need \in Nat
      BY ResourcesAssumption
    <3>2. spent' \in [Spendable -> Nat]
      BY <2>1, SpendTyped DEF TenantChecks, Typed, Spendable
    <3>. QED  BY <2>1, <3>1, <3>2 DEF TenantChecks, Typed, ActiveTyped
  <2>2. CASE TenantPushes
    <3>1. FreshAllocationId \in Nat /\ tenants.asking \in Nat /\ tenants.holding \in SUBSET Nat
      BY FreshAllocationIdTyped DEF Typed, ActiveTyped
    <3>2. active' \in SUBSET [id : Nat, granted : Nat] /\ IsFiniteSet(active')
      BY <2>2, <3>1, PushTyped DEF TenantPushes, Typed
    <3>. QED  BY <2>2, <3>1, <3>2 DEF TenantPushes, Typed, ActiveTyped, FieldsTyped
  <2>3. ASSUME NEW id \in tenants.holding, TenantGives(id)
        PROVE  ActiveTyped' /\ spent' \in [Spendable -> Nat]
    <3>1. active' \in SUBSET [id : Nat, granted : Nat] /\ IsFiniteSet(active')
      BY <2>3, ReleaseTyped DEF TenantGives, Typed
    <3>. QED  BY <2>3, <3>1 DEF TenantGives, Typed, ActiveTyped, FieldsTyped
  <2>. QED  BY <2>1, <2>2, <2>3 DEF Takes
<1>2. /\ UNCHANGED <<running_exec, cancelled, paused, pending_checkpoint, checkpoints, stored, issued>>
      /\ UNCHANGED <<inner, run, pool, plan_fp, books, journal>>
  BY DEF Takes, TenantChecks, TenantPushes, TenantGives, Around
<1>3. FieldsTyped' /\ PlansTyped' /\ SetsTyped' /\ BooksTyped' /\ RunTyped' /\ PoolTyped'
  BY <1>1, <1>2 DEF Typed, FieldsTyped, PlansTyped, SetsTyped, BooksTyped, RunTyped, PoolTyped,
                    inner, sets, pool
<1>. QED  BY <1>1, <1>3 DEF Typed

LEMMA CrashTyped ==
  ASSUME Typed, Crash
  PROVE  Typed'
<1>. USE DEF Crash
<1>1. FieldsTyped'
  <2>1. checkpoints' \in Seq(Nat)
    OBVIOUS
  <2>2. spent' \in [Spendable -> Nat]
    BY SpendTyped DEF Typed, Spendable
  <2>3. running_exec' \in Nat /\ pending_checkpoint' \in Nat /\ issued' \in Nat
    BY DEF Typed, FieldsTyped, None
  <2>. QED  BY <2>1, <2>2, <2>3 DEF FieldsTyped
<1>2. PlansTyped' /\ SetsTyped' /\ BooksTyped'
  BY DEF Typed, PlansTyped, SetsTyped, BooksTyped, new, kept, Nothing, Settlements
<1>3. RunTyped'
  BY NoRunTyped DEF Typed, RunTyped, kept
<1>4. PoolTyped'
  BY DEF PoolTyped, Return
<1>5. ActiveTyped'
  BY FS_EmptySet DEF ActiveTyped, NoTenants
<1>. QED  BY <1>1, <1>2, <1>3, <1>4, <1>5 DEF Typed

(* Topping up, admitting and refusing. *)
LEMMA BatchListed ==
  ASSUME SetsTyped, NEW picked \in SUBSET Steps, NEW batch \in InOrder(picked, Precedes)
  PROVE  /\ batch \in Seq(Steps) /\ ToSet(batch) = picked
         /\ \A i, j \in DOMAIN batch : batch[i] = batch[j] => i = j
<1>1. IsFiniteSet(picked)
  BY SchedulerAssumption, FS_Subset
<1>2. Cardinality(picked) \in Nat
  BY <1>1, FS_CardinalityType
<1>3. batch \in [1..Cardinality(picked) -> picked] /\ ToSet(batch) = picked /\ IsInjective(batch)
  BY DEF InOrder
<1>4. batch \in Seq(Steps)
  BY <1>2, <1>3
<1>. QED  BY <1>3, <1>4 DEF IsInjective

LEMMA TopUpTyped ==
  ASSUME Typed, TopUp
  PROVE  Typed'
<1>1. SetsTyped' /\ UNCHANGED <<policy, plan>>
  BY DEF TopUp, next_steps, Typed, SetsTyped
<1>2. PICK batch \in InOrder(running' \ running, Precedes) :
        run' = [run EXCEPT !.pc = IF batch = <<>> THEN "wait" ELSE "admit", !.batch = batch]
  BY DEF TopUp
<1>3. batch \in Seq(Steps)
  <2>1. running' \ running \in SUBSET Steps /\ SetsTyped
    BY <1>1 DEF SetsTyped, Typed
  <2>. QED  BY <2>1, BatchListed
<1>4. RunTyped' /\ run'.pc # "idle" /\ run.pc # "idle"
  BY <1>2, <1>3 DEF Typed, RunTyped, Runs, Pcs, TopUp, At, Elsewhere, kept
<1>5. FieldsTyped' /\ PlansTyped' /\ BooksTyped' /\ ActiveTyped' /\ PoolTyped'
  BY <1>1, <1>4 DEF TopUp, Typed, FieldsTyped, PlansTyped, BooksTyped, ActiveTyped, PoolTyped,
                    fields, pool, Elsewhere, kept
<1>. QED  BY <1>1, <1>4, <1>5 DEF Typed

(* While steps are admitted there is a next one.                           *)
Admitting == run.pc = "admit" => run.batch # <<>>

LEMMA AdmittedTyped ==
  ASSUME RunTyped, run.pc = "admit", Admitting, Admitted(Tail(run.batch)), UNCHANGED kept
  PROVE  /\ RunTyped' /\ run'.pc \in {"admit", "wait"} /\ Head(run.batch) \in Steps
         /\ run'.batch = Tail(run.batch) /\ UNCHANGED <<run.seed, run.base>>
<1>1. Tail(run.batch) \in Seq(Steps) /\ Head(run.batch) \in Steps
  BY DEF RunTyped, Runs, Admitting
<1>. QED  BY <1>1 DEF Admitted, RunTyped, Runs, Pcs, kept

LEMMA AllocateRefusedTyped ==
  ASSUME Typed, Admitting, AllocateRefused
  PROVE  Typed'
<1>1. /\ RunTyped' /\ run'.pc # "idle" /\ Head(run.batch) \in Steps /\ run.pc # "idle"
  BY AdmittedTyped DEF AllocateRefused, Elsewhere, Typed, At
<1>2. SetsTyped' /\ UNCHANGED <<policy, plan>>
  BY <1>1, MarkTyped DEF AllocateRefused
<1>3. FieldsTyped' /\ PlansTyped' /\ BooksTyped' /\ ActiveTyped' /\ PoolTyped'
  BY <1>1, <1>2 DEF AllocateRefused, Typed, FieldsTyped, PlansTyped, BooksTyped, ActiveTyped,
                    PoolTyped, fields, pool, Elsewhere, kept
<1>. QED  BY <1>1, <1>2, <1>3 DEF Typed

LEMMA NeedTyped ==
  ASSUME Typed, NEW s \in Steps
  PROVE  /\ plan.need[s] \in Nat /\ plan.trial[s] \in Nat /\ plan.retries \in Nat
         /\ plan.deps \in [Steps -> SUBSET Steps]
BY ExecutorAssumption DEF Typed, PlansTyped, ExecPlanOf

LEMMA AdmitTyped ==
  ASSUME Typed, Admitting, Admit
  PROVE  Typed'
<1>. DEFINE s == Head(run.batch)
<1>1. /\ RunTyped' /\ run'.pc # "idle" /\ s \in Steps /\ run.pc # "idle"
  BY AdmittedTyped DEF Admit, Elsewhere, Typed, At
<1>2. ActiveTyped'
  <2>1. plan.need[s] \in Nat
    BY <1>1, NeedTyped
  <2>2. active' \in SUBSET [id : Nat, granted : Nat] /\ IsFiniteSet(active')
    BY <2>1, PushTyped DEF Admit, Typed
  <2>. QED  BY <2>2 DEF Admit, Elsewhere, Typed, ActiveTyped
<1>3. PoolTyped'
  <2>1. FreshAllocationId \in Nat
    BY FreshAllocationIdTyped DEF Typed
  <2>2. /\ in_flight' = Put(in_flight, s, 1)
        /\ in_flight_allocations' = Put(in_flight_allocations, s, FreshAllocationId)
    BY DEF Admit
  <2>. HIDE DEF s
  <2>. QED  BY <1>1, <2>1, <2>2 DEF Typed, PoolTyped, Put
<1>4. FieldsTyped' /\ PlansTyped' /\ SetsTyped' /\ BooksTyped'
  BY DEF Admit, Typed, FieldsTyped, PlansTyped, SetsTyped, BooksTyped, inner, sets, fields,
         Elsewhere, kept
<1>. QED  BY <1>1, <1>2, <1>3, <1>4 DEF Typed

LEMMA RetryTyped ==
  ASSUME Typed, NEW s \in Steps, Retry(s)
  PROVE  Typed'
<1>1. PoolTyped'
  BY DEF Retry, Typed, PoolTyped
<1>2. FieldsTyped' /\ PlansTyped' /\ SetsTyped' /\ BooksTyped' /\ RunTyped' /\ ActiveTyped'
  BY DEF Retry, Typed, FieldsTyped, PlansTyped, SetsTyped, BooksTyped, RunTyped, ActiveTyped,
         inner, sets, fields, Elsewhere, kept
<1>. QED  BY <1>1, <1>2 DEF Typed

(* Settling. *)
LEMMA TrailTyped ==
  ASSUME NEW s \in Steps, NEW attempt \in Nat \ {0}, NEW kind \in EventKinds
  PROVE  /\ Append(Trail(s, attempt), Event(kind, s, attempt)) \in Seq(Events)
         /\ Trail(s, attempt) \in Seq(Events) /\ Len(Trail(s, attempt)) = 2 * attempt - 1
<1>0. s \in Nat /\ 2 * attempt - 1 \in Nat
  BY SchedulerAssumption
<1>1. ASSUME NEW i \in 1..(2 * attempt - 1)
      PROVE  Event(IF i % 2 = 1 THEN "StepStarted" ELSE "StepFailed", s, (i + 1) \div 2) \in Events
  <2>1. (i + 1) \div 2 \in Nat
    OBVIOUS
  <2>. QED  BY <1>0, <2>1 DEF Event, Events, EventKinds, StepEvents
<1>2. Trail(s, attempt) \in [1..(2 * attempt - 1) -> Events]
  BY <1>1 DEF Trail
<1>3. Trail(s, attempt) \in Seq(Events) /\ Len(Trail(s, attempt)) = 2 * attempt - 1
  BY <1>0, <1>2, LenProperties
<1>4. Event(kind, s, attempt) \in Events
  BY <1>0, EventTyped
<1>. QED  BY <1>3, <1>4

LEMMA LoopWithTyped ==
  ASSUME Typed, NEW r \in Runs, NEW due \in Nat, NEW events \in Seq(Events),
         LoopWith(r, due, events)
  PROVE  /\ RunTyped' /\ run'.pc \in {"top", "emit"} /\ issued' \in Nat
         /\ run'.batch = r.batch /\ run'.seed = r.seed /\ run'.base = r.base
<1>. DEFINE q == [r EXCEPT !.due = due, !.pc = IF due = None THEN "top" ELSE "emit"]
<1>1. q \in Runs /\ q.pc \in {"top", "emit"} /\ RunTyped
  BY DEF Runs, Pcs, Typed
<1>2. Write(q, events)
  BY DEF LoopWith
<1>3. RunTyped' /\ run' = [q EXCEPT !.seq = q.seq + Len(events)]
  <2>. HIDE DEF q
  <2>. QED  BY <1>1, <1>2, WriteTyped
<1>4. issued' \in Nat
  BY DEF LoopWith, Typed, FieldsTyped
<1>. QED  BY <1>1, <1>3, <1>4 DEF Runs

LEMMA OthersTyped ==
  ASSUME PoolTyped, NEW s, Others(s), run'.pc # "idle"
  PROVE  PoolTyped' /\ DOMAIN in_flight' = DOMAIN in_flight \ {s}
BY DEF PoolTyped, Others

(* Every way to settle: the step was in the pool, with its attempt.        *)
LEMMA SettleFacts ==
  ASSUME Typed, NEW s \in Steps, Settle(s)
  PROVE  /\ s \in DOMAIN in_flight /\ in_flight[s] \in Nat \ {0} /\ run.pc = "wait"
         /\ run.seed = Nothing /\ run \in Runs
         /\ SetsTyped' /\ ActiveTyped' /\ UNCHANGED <<policy, plan>>
<1>1. /\ s \in DOMAIN in_flight /\ run.pc = "wait" /\ run.seed = Nothing
      /\ release(in_flight_allocations[s]) /\ UNCHANGED tenants
      /\ mark_completed(s) \/ mark_skipped(s) \/ mark_failed(s)
  BY DEF Settle, SettleCompleted, SettleSkipped, SettleFailed, SettleHalting, SettleError,
         LastAttemptFailed, Finished, At
<1>2. SetsTyped' /\ UNCHANGED <<policy, plan>>
  BY <1>1, MarkTyped
<1>3. ActiveTyped'
  <2>1. active' \in SUBSET [id : Nat, granted : Nat] /\ IsFiniteSet(active')
    BY <1>1, ReleaseTyped DEF Typed
  <2>. QED  BY <1>1, <2>1 DEF Typed, ActiveTyped
<1>4. in_flight[s] \in Nat \ {0} /\ run \in Runs
  BY <1>1 DEF Typed, PoolTyped, RunTyped
<1>. QED  BY <1>1, <1>2, <1>3, <1>4

LEMMA SettleCompletedTyped ==
  ASSUME Typed, NEW s \in Steps, SettleCompleted(s)
  PROVE  Typed'
<1>. DEFINE k      == plan.kind[s]
            result == IF k = "TrialEnd" THEN {synthesise_trial_result(plan.trial[s])} ELSE {}
            r      == [run EXCEPT !.trial_results = @ \cup result]
            due    == CASE k = "Checkpoint" -> s
                        [] k = "Barrier" /\ plan.on_barriers -> FreshCheckpointId
                        [] OTHER -> None
            told   == Append(Trail(s, in_flight[s]), Event("StepCompleted", s, in_flight[s]))
<1>1. /\ in_flight[s] \in Nat \ {0} /\ run \in Runs
      /\ SetsTyped' /\ ActiveTyped' /\ UNCHANGED <<policy, plan>>
  BY SettleFacts DEF Settle
<1>2. told \in Seq(Events)
  <2>1. "StepCompleted" \in EventKinds
    BY DEF EventKinds, StepEvents
  <2>. QED  BY <1>1, <2>1, TrailTyped
<1>3. r \in Runs
  <2>1. result \in SUBSET Results
    BY NeedTyped DEF synthesise_trial_result, Results
  <2>. HIDE DEF result
  <2>. QED  BY <1>1, <2>1 DEF Runs
<1>4. due \in Nat
  <2>1. FreshCheckpointId \in Nat /\ s \in Nat /\ None \in Nat
    BY FreshCheckpointIdTyped, SchedulerAssumption DEF Typed, None
  <2>. QED  BY <2>1
<1>5. LoopWith(r, due, told) /\ Others(s) /\ PoolTyped
  BY DEF SettleCompleted, Typed
<1>. HIDE DEF r, due, told
<1>6. RunTyped' /\ PoolTyped' /\ issued' \in Nat
  BY <1>2, <1>3, <1>4, <1>5, LoopWithTyped, OthersTyped
<1>7. books' \in Settlements /\ stored' = stored
  BY DEF SettleCompleted, Typed, BooksTyped, Settlements
<1>8. FieldsTyped' /\ PlansTyped' /\ BooksTyped'
  BY <1>1, <1>6, <1>7 DEF SettleCompleted, Typed, FieldsTyped, PlansTyped, BooksTyped
<1>. QED  BY <1>1, <1>6, <1>8 DEF Typed

LEMMA SettleSkippedTyped ==
  ASSUME Typed, NEW s \in Steps, SettleSkipped(s)
  PROVE  Typed'
<1>. DEFINE told == Append(Trail(s, in_flight[s]), Event("StepSkipped", s, in_flight[s]))
<1>1. /\ in_flight[s] \in Nat \ {0} /\ run \in Runs
      /\ SetsTyped' /\ ActiveTyped' /\ UNCHANGED <<policy, plan>>
  BY SettleFacts DEF Settle
<1>2. told \in Seq(Events)
  <2>1. "StepSkipped" \in EventKinds
    BY DEF EventKinds, StepEvents
  <2>. QED  BY <1>1, <2>1, TrailTyped
<1>5. LoopWith(run, None, told) /\ Others(s) /\ PoolTyped /\ None \in Nat
  BY DEF SettleSkipped, Typed, None
<1>. HIDE DEF told
<1>6. RunTyped' /\ PoolTyped' /\ issued' \in Nat
  BY <1>1, <1>2, <1>5, LoopWithTyped, OthersTyped
<1>7. books' \in Settlements /\ stored' = stored
  BY DEF SettleSkipped, Typed, BooksTyped, Settlements
<1>8. FieldsTyped' /\ PlansTyped' /\ BooksTyped'
  BY <1>1, <1>6, <1>7 DEF SettleSkipped, Typed, FieldsTyped, PlansTyped, BooksTyped
<1>. QED  BY <1>1, <1>6, <1>8 DEF Typed

LEMMA ListTyped ==
  ASSUME NEW n \in Nat, NEW S, NEW list \in [1..n -> S]
  PROVE  list \in Seq(S) /\ Len(list) = n /\ DOMAIN list = 1..n
BY LenProperties

(* What a failure journals. *)
LEMMA CascadeEventsTyped ==
  ASSUME Typed, NEW s \in Steps, NEW cascade \in CascadeEvents(s)
  PROVE  /\ cascade \in Seq(Events)
         /\ \A i \in DOMAIN cascade : /\ cascade[i].kind = "StepSkipped"
                                      /\ cascade[i].of \in Cascade(s) \ books.skipped
         /\ \A c \in Cascade(s) \ books.skipped : \E i \in DOMAIN cascade : cascade[i].of = c
         /\ \A i, j \in DOMAIN cascade : cascade[i].of = cascade[j].of => i = j
<1>. DEFINE K == Cascade(s) \ books.skipped
<1>1. K \in SUBSET Steps
  BY DEF Typed, SetsTyped, Cascade, DownstreamIn
<1>2. IsFiniteSet(K)
  BY <1>1, SchedulerAssumption, FS_Subset
<1>3. PICK unseen \in InOrder(K, <) :
        cascade = [i \in DOMAIN unseen |-> Event("StepSkipped", unseen[i], 0)]
  BY DEF CascadeEvents
<1>4. unseen \in [1..Cardinality(K) -> K] /\ ToSet(unseen) = K /\ IsInjective(unseen)
  BY <1>3 DEF InOrder
<1>. HIDE DEF K
<1>5. ASSUME NEW i \in DOMAIN unseen
      PROVE  Event("StepSkipped", unseen[i], 0) \in Events
  BY <1>1, <1>4, SchedulerAssumption DEF Event, Events, EventKinds, StepEvents
<1>6. cascade \in [1..Cardinality(K) -> Events] /\ Cardinality(K) \in Nat
  BY <1>2, <1>3, <1>4, <1>5, FS_CardinalityType
<1>7. cascade \in Seq(Events)
  BY <1>6, ListTyped
<1>8. \A i \in DOMAIN cascade : cascade[i].kind = "StepSkipped" /\ cascade[i].of = unseen[i]
  BY <1>3 DEF Event
<1>9. DOMAIN cascade = DOMAIN unseen /\ \A c \in K : \E i \in DOMAIN unseen : unseen[i] = c
  BY <1>3, <1>4 DEF ToSet
<1>10. \A i, j \in DOMAIN unseen : unseen[i] = unseen[j] => i = j
  BY <1>4 DEF IsInjective
<1>11. \A i \in DOMAIN cascade : cascade[i].of \in K
  BY <1>4, <1>8, <1>9
<1>12. \A c \in K : \E i \in DOMAIN cascade : cascade[i].of = c
  BY <1>8, <1>9
<1>13. \A i, j \in DOMAIN cascade : cascade[i].of = cascade[j].of => i = j
  BY <1>8, <1>9, <1>10
<1>. QED  BY <1>7, <1>8, <1>11, <1>12, <1>13 DEF K

LEMMA FailureTrailTyped ==
  ASSUME NEW s \in Steps, in_flight[s] \in Nat \ {0}
  PROVE  FailureTrail(s) \in Seq(Events)
<1>1. "StepFailed" \in EventKinds
  BY DEF EventKinds, StepEvents
<1>. QED  BY <1>1, TrailTyped DEF FailureTrail

LEMMA SettleFailedTyped ==
  ASSUME Typed, NEW s \in Steps, SettleFailed(s)
  PROVE  Typed'
<1>. DEFINE r   == [run EXCEPT !.any_failed = TRUE, !.trial_failed = @ \cup TrialOf(s)]
            due == IF plan.on_errors THEN FreshCheckpointId ELSE None
<1>1. /\ in_flight[s] \in Nat \ {0} /\ run \in Runs
      /\ SetsTyped' /\ ActiveTyped' /\ UNCHANGED <<policy, plan>>
  BY SettleFacts DEF Settle
<1>2. PICK cascade \in CascadeEvents(s) : LoopWith(r, due, FailureTrail(s) \o cascade)
  BY DEF SettleFailed
<1>3. FailureTrail(s) \o cascade \in Seq(Events)
  <2>1. FailureTrail(s) \in Seq(Events) /\ cascade \in Seq(Events)
    BY <1>1, FailureTrailTyped, CascadeEventsTyped
  <2>. QED  BY <2>1
<1>4. r \in Runs
  <2>1. TrialOf(s) \in SUBSET Nat
    BY NeedTyped DEF TrialOf
  <2>. QED  BY <1>1, <2>1 DEF Runs
<1>5. due \in Nat
  BY FreshCheckpointIdTyped DEF Typed, None
<1>6. RunTyped' /\ PoolTyped' /\ issued' \in Nat
  <2>1. Others(s) /\ PoolTyped
    BY DEF SettleFailed, Typed
  <2>. HIDE DEF r, due
  <2>2. RunTyped' /\ run'.pc \in {"top", "emit"} /\ issued' \in Nat
    BY <1>2, <1>3, <1>4, <1>5, LoopWithTyped
  <2>. QED  BY <2>1, <2>2, OthersTyped
<1>7. books' \in Settlements /\ stored' = stored
  <2>1. Cascade(s) \in SUBSET Steps
    BY DEF Typed, SetsTyped, Cascade, DownstreamIn
  <2>. QED  BY <2>1 DEF SettleFailed, LastAttemptFailed, Typed, BooksTyped, Settlements
<1>8. FieldsTyped' /\ PlansTyped' /\ BooksTyped'
  BY <1>1, <1>6, <1>7 DEF SettleFailed, LastAttemptFailed, Typed, FieldsTyped, PlansTyped, BooksTyped
<1>. QED  BY <1>1, <1>6, <1>8 DEF Typed

LEMMA SettleHaltingTyped ==
  ASSUME Typed, NEW s \in Steps, SettleHalting(s)
  PROVE  Typed'
<1>1. /\ in_flight[s] \in Nat \ {0}
      /\ SetsTyped' /\ ActiveTyped' /\ UNCHANGED <<policy, plan>>
  BY SettleFacts DEF Settle
<1>2. RunTyped' /\ PoolTyped' /\ running_exec' \in Nat
  BY <1>1, FailureTrailTyped, EndTyped DEF SettleHalting
<1>3. books' \in Settlements /\ stored' = stored
  BY DEF SettleHalting, LastAttemptFailed, Typed, BooksTyped, Settlements
<1>4. FieldsTyped' /\ PlansTyped' /\ BooksTyped'
  BY <1>1, <1>2, <1>3 DEF SettleHalting, LastAttemptFailed, Typed, FieldsTyped, PlansTyped, BooksTyped
<1>. QED  BY <1>1, <1>2, <1>4 DEF Typed

LEMMA SettleErrorTyped ==
  ASSUME Typed, NEW s \in Steps, SettleError(s)
  PROVE  Typed'
<1>. DEFINE r == [run EXCEPT !.pc = "idle"]
<1>1. /\ in_flight[s] \in Nat \ {0} /\ run \in Runs
      /\ SetsTyped' /\ ActiveTyped' /\ UNCHANGED <<policy, plan>>
  BY SettleFacts DEF Settle
<1>2. RunTyped' /\ PoolTyped'
  <2>1. r \in Runs /\ r.pc = "idle" /\ RunTyped /\ Write(r, FailureTrail(s))
    BY <1>1 DEF Runs, Pcs, Typed, SettleError
  <2>. HIDE DEF r
  <2>2. RunTyped'
    BY <1>1, <2>1, FailureTrailTyped, WriteTyped
  <2>. QED  BY <2>2 DEF SettleError, Return, PoolTyped
<1>3. FieldsTyped' /\ PlansTyped' /\ BooksTyped'
  BY <1>1 DEF SettleError, fields, Typed, FieldsTyped, PlansTyped, BooksTyped
<1>. QED  BY <1>1, <1>2, <1>3 DEF Typed

LEMMA SettleTyped ==
  ASSUME Typed, NEW s \in Steps, Settle(s)
  PROVE  Typed'
BY SettleCompletedTyped, SettleSkippedTyped, SettleFailedTyped, SettleHaltingTyped,
   SettleErrorTyped DEF Settle

------------------------------------------------------------------------------
(***************************************************************************)
(* The pool and the scheduler agree.  A batch being admitted lists, each   *)
(* once, the running steps that are not in the pool yet.                   *)
(***************************************************************************)
Listed == ToSet(run.batch)

PoolOK ==
  /\ Admitting
  /\ run.batch # <<>> => run.pc = "admit"
  /\ \A i, j \in DOMAIN run.batch : run.batch[i] = run.batch[j] => i = j
  /\ run.pc # "idle" => /\ running = DOMAIN in_flight \cup Listed
                        /\ DOMAIN in_flight \cap Listed = {}
  /\ run.seed # Nothing => running = {}
  /\ DOMAIN in_flight = DOMAIN in_flight_allocations

LEMMA PoolIsPoolIsRunning == PoolOK => PoolIsRunning
BY DEF PoolOK, PoolIsRunning, Replayed, Listed

(* A step that leaves the run's place in the plan alone. *)
Calm == /\ UNCHANGED <<inner, plan_fp, books, run.seed, run.base, run.batch>>
        /\ UNCHANGED <<DOMAIN in_flight, DOMAIN in_flight_allocations>>
        /\ run.pc = "idle" <=> run'.pc = "idle"
        /\ \/ run.pc # "admit" /\ run'.pc # "admit"
           \/ run' = run

LEMMA CalmPool == ASSUME PoolOK, Calm PROVE PoolOK'
BY DEF PoolOK, Calm, Admitting, Listed, inner, sets

(* All that happens between the steps that move the plan on.               *)
Between == \/ Top \/ TopPaused \/ Unpaused \/ NoInterval \/ NoTopUp
           \/ Drain \/ Interval \/ EmitDue \/ Control \/ Takes
           \/ \E s \in Steps : Retry(s)

LEMMA BetweenCalm ==
  ASSUME Typed, Between
  PROVE  Calm
<1>1. CASE Top \/ TopPaused \/ Unpaused \/ NoInterval \/ NoTopUp
  <2>1. PICK pc \in {"paused", "drain", "interval", "topup", "wait"} :
          Goto(pc) /\ UNCHANGED <<inner, active, fields, pool>> /\ run.pc \notin {"idle", "admit"}
    BY <1>1 DEF Top, TopPaused, Unpaused, NoInterval, NoTopUp, Onward, At
  <2>. QED  BY <2>1 DEF Goto, fields, pool, Calm, Typed, RunTyped, Runs
<1>2. CASE Drain \/ Interval \/ EmitDue
  <2>1. PICK id \in Nat, next \in {"interval", "topup", "top"} : emit_checkpoint(id, next)
    <3>1. pending_checkpoint \in Nat /\ run.due \in Nat /\ FreshCheckpointId \in Nat
      BY FreshCheckpointIdTyped DEF Typed, FieldsTyped, RunTyped, Runs
    <3>. QED  BY <1>2, <3>1 DEF Drain, Interval, EmitDue
  <2>2. run.pc \notin {"idle", "admit"} /\ next \in Pcs \ {"idle"}
    BY <1>2 DEF Drain, Interval, EmitDue, At, Pcs
  <2>3. run'.pc = next /\ UNCHANGED <<run.seed, run.base, run.batch>>
    BY <2>1, <2>2, EmitTyped
  <2>. QED  BY <1>2, <2>2, <2>3 DEF Drain, Interval, EmitDue, pool, Calm
<1>3. CASE Control
  BY <1>3 DEF Control, Pause, Unpause, Stop, checkpoint_now, Around, pool, Calm
<1>4. CASE Takes
  BY <1>4 DEF Takes, TenantChecks, TenantPushes, TenantGives, Around, pool, Calm
<1>5. ASSUME NEW s \in Steps, Retry(s) PROVE Calm
  BY <1>5 DEF Retry, Calm, fields
<1>. QED  BY <1>1, <1>2, <1>3, <1>4, <1>5 DEF Between

(* The ends of a run. *)
Ending == \/ TopCancelled \/ PausedCancelled \/ Finish \/ Crash
          \/ \E s \in Steps : SettleHalting(s) \/ SettleError(s)

LEMMA BetweenTyped ==
  ASSUME Typed, Between
  PROVE  Typed'
BY MovesTyped, CheckpointingTyped, ControlTyped, TakesTyped, RetryTyped DEF Between

LEMMA EndingTyped ==
  ASSUME Typed, Ending
  PROVE  Typed'
BY CancelledTyped, FinishTyped, CrashTyped, SettleHaltingTyped, SettleErrorTyped
   DEF Ending, TopCancelled, PausedCancelled

LEMMA EndingStops ==
  ASSUME Typed, Ending
  PROVE  /\ run' = NoRun /\ in_flight' = <<>> /\ in_flight_allocations' = <<>>
         /\ run.pc # "idle"
<1>1. ASSUME NEW status, NEW trial_results, NEW events \in Seq(Events),
             End(status, trial_results, events)
      PROVE  run' = NoRun /\ in_flight' = <<>> /\ in_flight_allocations' = <<>>
  BY <1>1, EndTyped DEF End, Return
<1>2. CASE TopCancelled \/ PausedCancelled \/ Finish
  <2>1. <<>> \in Seq(Events)
    OBVIOUS
  <2>2. PICK status, trial_results : End(status, trial_results, <<>>)
    BY <1>2 DEF TopCancelled, PausedCancelled, finalise_cancelled, Finish
  <2>. QED  BY <1>1, <1>2, <2>1, <2>2 DEF TopCancelled, PausedCancelled, Finish, At
<1>3. CASE Crash
  BY <1>3 DEF Crash, Return
<1>4. ASSUME NEW s \in Steps, SettleHalting(s)
      PROVE  run' = NoRun /\ in_flight' = <<>> /\ in_flight_allocations' = <<>> /\ run.pc # "idle"
  <2>1. in_flight[s] \in Nat \ {0} /\ run.pc # "idle"
    BY <1>4, SettleFacts DEF Settle
  <2>2. FailureTrail(s) \in Seq(Events)
    BY <2>1, FailureTrailTyped
  <2>. QED  BY <1>1, <1>4, <2>1, <2>2 DEF SettleHalting
<1>5. ASSUME NEW s \in Steps, SettleError(s)
      PROVE  run' = NoRun /\ in_flight' = <<>> /\ in_flight_allocations' = <<>> /\ run.pc # "idle"
  <2>1. in_flight[s] \in Nat \ {0} /\ run.pc # "idle"
    BY <1>5, SettleFacts DEF Settle
  <2>2. [run EXCEPT !.pc = "idle"].pc = "idle"
    BY DEF Typed, RunTyped, Runs
  <2>. QED  BY <1>5, <2>1, <2>2 DEF SettleError, Return, Write
<1>. QED  BY <1>2, <1>3, <1>4, <1>5 DEF Ending

LEMMA EndingPool == ASSUME Typed, Ending PROVE PoolOK'
BY EndingStops DEF PoolOK, Admitting, NoRun, Nothing

(* A run begins with an empty pool. *)
Begins == (\E p \in Plans : Execute(p)) \/ \E c \in stored : Resume(c)

LEMMA BeginsPool ==
  ASSUME Typed, PoolOK, Begins
  PROVE  PoolOK' /\ run'.pc = "top" /\ run.pc = "idle"
<1>1. /\ run'.pc = "top" /\ run'.batch = <<>> /\ run.pc = "idle"
      /\ running' = {} /\ UNCHANGED pool
  <2>1. ASSUME NEW p \in Plans, Execute(p)
        PROVE  run'.pc = "top" /\ run'.batch = <<>> /\ run.pc = "idle" /\ running' = {} /\ UNCHANGED pool
    <3>1. Write([NoRun EXCEPT !.pc = "top", !.exec = running_exec'], <<Event("ExecutionStarted", None, 0)>>)
      BY <2>1 DEF Execute
    <3>2. run'.pc = "top" /\ run'.batch = <<>>
      BY <3>1 DEF Write, NoRun
    <3>. QED  BY <2>1, <3>2 DEF Execute, initialise
  <2>2. ASSUME NEW c \in stored, Resume(c)
        PROVE  run'.pc = "top" /\ run'.batch = <<>> /\ run.pc = "idle" /\ running' = {} /\ UNCHANGED pool
    <3>1. Write([NoRun EXCEPT !.pc = "top", !.exec = c.exec, !.seed = c.state, !.base = c.state],
                <<Event("ExecutionResumed", c.id, 0)>>)
      BY <2>2 DEF Resume
    <3>2. run'.pc = "top" /\ run'.batch = <<>>
      BY <3>1 DEF Write, NoRun
    <3>. QED  BY <2>2, <3>2 DEF Resume, initialise
  <2>. QED  BY <2>1, <2>2 DEF Begins
<1>2. DOMAIN in_flight' = {} /\ DOMAIN in_flight_allocations' = {}
  BY <1>1 DEF pool, Typed, PoolTyped
<1>3. Listed' = {}
  BY <1>1 DEF Listed, ToSet
<1>. QED  BY <1>1, <1>2, <1>3 DEF PoolOK, Admitting

LEMMA SeedPool ==
  ASSUME Typed, PoolOK, NEW s \in Steps, SeedCompleted(s) \/ SeedSkipped(s) \/ SeedFailed(s)
  PROVE  PoolOK'
<1>1. /\ run' = [run EXCEPT !.seed = run'.seed] /\ UNCHANGED pool /\ run.seed # Nothing
      /\ run \in Runs
  BY DEF SeedCompleted, SeedSkipped, SeedFailed, Seeding, Nothing, Typed, RunTyped
<1>2. /\ run'.pc = run.pc /\ run'.batch = run.batch /\ Listed' = Listed
      /\ running' = running \ {s}
  BY <1>1 DEF Runs, Listed, SeedCompleted, SeedSkipped, SeedFailed, mark_completed, mark_skipped,
              mark_failed, mark_settled
<1>. QED  BY <1>1, <1>2 DEF PoolOK, pool, Admitting

LEMMA TopUpPool ==
  ASSUME Typed, PoolOK, TopUp
  PROVE  PoolOK'
<1>1. run.pc = "topup" /\ run.seed = Nothing /\ run \in Runs /\ run.batch \in Seq(Steps)
  BY DEF TopUp, At, Typed, RunTyped, Runs
<1>2. Listed = {} /\ running = DOMAIN in_flight
  <2>1. run.batch = <<>> /\ running = DOMAIN in_flight \cup Listed
    BY <1>1 DEF PoolOK
  <2>2. Listed = {}
    BY <2>1 DEF Listed, ToSet
  <2>. QED  BY <2>1, <2>2
<1>3. SetsTyped' /\ SetsTyped /\ running \subseteq running'
  BY DEF TopUp, next_steps, Typed, SetsTyped
<1>4. PICK batch \in InOrder(running' \ running, Precedes) :
        run' = [run EXCEPT !.pc = IF batch = <<>> THEN "wait" ELSE "admit", !.batch = batch]
  BY DEF TopUp
<1>5. /\ batch \in Seq(Steps) /\ ToSet(batch) = running' \ running
      /\ \A i, j \in DOMAIN batch : batch[i] = batch[j] => i = j
  <2>1. running' \ running \in SUBSET Steps
    BY <1>3 DEF SetsTyped
  <2>. QED  BY <1>3, <2>1, BatchListed
<1>6. run'.batch = batch /\ run'.pc = (IF batch = <<>> THEN "wait" ELSE "admit") /\ run'.seed = Nothing
  BY <1>1, <1>4 DEF Runs
<1>7. Listed' = running' \ running /\ UNCHANGED pool
  BY <1>5, <1>6 DEF Listed, TopUp
<1>. QED  BY <1>1, <1>2, <1>3, <1>5, <1>6, <1>7 DEF PoolOK, Admitting, pool

(* Of a batch that lists each step once, all but the first are left. *)
LEMMA TailLists ==
  ASSUME NEW batch \in Seq(Steps), batch # <<>>,
         \A i, j \in DOMAIN batch : batch[i] = batch[j] => i = j
  PROVE  /\ Tail(batch) \in Seq(Steps) /\ ToSet(Tail(batch)) = ToSet(batch) \ {Head(batch)}
         /\ Head(batch) \in ToSet(batch) /\ Head(batch) \in Steps
         /\ \A i, j \in DOMAIN Tail(batch) : Tail(batch)[i] = Tail(batch)[j] => i = j
<1>1. /\ Tail(batch) \in Seq(Steps) /\ Len(Tail(batch)) = Len(batch) - 1
      /\ \A i \in 1..(Len(batch) - 1) : Tail(batch)[i] = batch[i + 1]
      /\ DOMAIN batch = 1..Len(batch) /\ DOMAIN Tail(batch) = 1..(Len(batch) - 1)
      /\ Len(batch) \in Nat \ {0} /\ Head(batch) = batch[1]
  OBVIOUS
<1>2. \A i, j \in DOMAIN Tail(batch) : Tail(batch)[i] = Tail(batch)[j] => i = j
  BY <1>1
<1>3. \A s : s \in ToSet(Tail(batch)) => s \in ToSet(batch) /\ s # Head(batch)
  BY <1>1 DEF ToSet
<1>4. ASSUME NEW s \in ToSet(batch), s # Head(batch) PROVE s \in ToSet(Tail(batch))
  <2>1. PICK i \in 1..Len(batch) : batch[i] = s
    BY <1>1 DEF ToSet
  <2>2. i # 1 /\ i - 1 \in 1..(Len(batch) - 1) /\ Tail(batch)[i - 1] = s
    BY <1>1, <1>4, <2>1
  <2>. QED  BY <1>1, <2>2 DEF ToSet
<1>5. Head(batch) \in ToSet(batch) /\ Head(batch) \in Steps
  BY <1>1 DEF ToSet
<1>. QED  BY <1>1, <1>2, <1>3, <1>4, <1>5

LEMMA AdmittedPool ==
  ASSUME Typed, PoolOK, At("admit"), Admitted(Tail(run.batch)),
         DOMAIN in_flight' = DOMAIN in_flight_allocations',
         \/ /\ running' = running \ {Head(run.batch)}
            /\ DOMAIN in_flight' = DOMAIN in_flight
         \/ /\ running' = running
            /\ DOMAIN in_flight' = DOMAIN in_flight \cup {Head(run.batch)}
  PROVE  PoolOK'
<1>1. /\ run \in Runs /\ run.batch \in Seq(Steps) /\ run.batch # <<>> /\ run.pc = "admit"
      /\ run.seed = Nothing
  BY DEF Typed, RunTyped, Runs, PoolOK, Admitting, At
<1>2. /\ run'.batch = Tail(run.batch) /\ run'.seed = Nothing
      /\ run'.pc = (IF Tail(run.batch) = <<>> THEN "wait" ELSE "admit")
  BY <1>1 DEF Admitted, Runs
<1>3. /\ Listed' = Listed \ {Head(run.batch)} /\ Head(run.batch) \in Listed
      /\ \A i, j \in DOMAIN run'.batch : run'.batch[i] = run'.batch[j] => i = j
  BY <1>1, <1>2, TailLists DEF Listed, PoolOK
<1>. QED  BY <1>1, <1>2, <1>3 DEF PoolOK, Admitting

LEMMA AdmittingPool ==
  ASSUME Typed, PoolOK, AllocateRefused \/ Admit
  PROVE  PoolOK'
<1>1. At("admit") /\ Admitted(Tail(run.batch))
  BY DEF AllocateRefused, Admit
<1>2. CASE AllocateRefused
  BY <1>1, <1>2, AdmittedPool DEF AllocateRefused, mark_skipped, mark_settled, pool, PoolOK
<1>3. CASE Admit
  <2>1. running' = running
    BY <1>3 DEF Admit, inner, sets
  <2>2. /\ DOMAIN in_flight' = DOMAIN in_flight \cup {Head(run.batch)}
        /\ DOMAIN in_flight_allocations' = DOMAIN in_flight_allocations \cup {Head(run.batch)}
    BY <1>3 DEF Admit, Put
  <2>. QED  BY <1>1, <2>1, <2>2, AdmittedPool DEF PoolOK
<1>. QED  BY <1>2, <1>3

(* A step that settles leaves the run going.                               *)
Settles(s) == SettleCompleted(s) \/ SettleSkipped(s) \/ SettleFailed(s)

LEMMA SettlesRun ==
  ASSUME Typed, NEW s \in Steps, Settles(s)
  PROVE  /\ run'.pc \in {"top", "emit"} /\ run'.batch = run.batch /\ run'.seed = Nothing
         /\ run'.base = run.base /\ run.pc = "wait" /\ run.seed = Nothing
         /\ s \in DOMAIN in_flight /\ Others(s) /\ running' = running \ {s}
<1>1. PICK due, events, r : /\ LoopWith(r, due, events) /\ r \in Runs
                            /\ r.batch = run.batch /\ r.seed = run.seed /\ r.base = run.base
  <2>0. run \in Runs
    BY DEF Typed, RunTyped
  <2>1. CASE SettleCompleted(s)
    <3>. DEFINE result == IF plan.kind[s] = "TrialEnd"
                          THEN {synthesise_trial_result(plan.trial[s])} ELSE {}
                r == [run EXCEPT !.trial_results = @ \cup result]
    <3>1. result \in SUBSET Results
      BY NeedTyped DEF synthesise_trial_result, Results
    <3>2. \E due, events : LoopWith(r, due, events)
      BY <2>1 DEF SettleCompleted
    <3>. HIDE DEF result
    <3>3. r \in Runs /\ r.batch = run.batch /\ r.seed = run.seed /\ r.base = run.base
      BY <2>0, <3>1 DEF Runs
    <3>. QED  BY <3>2, <3>3
  <2>2. CASE SettleSkipped(s)
    BY <2>0, <2>2 DEF SettleSkipped
  <2>3. CASE SettleFailed(s)
    <3>1. TrialOf(s) \in SUBSET Nat
      BY NeedTyped DEF TrialOf
    <3>. DEFINE r == [run EXCEPT !.any_failed = TRUE, !.trial_failed = @ \cup TrialOf(s)]
    <3>2. r \in Runs /\ r.batch = run.batch /\ r.seed = run.seed /\ r.base = run.base
      BY <2>0, <3>1 DEF Runs
    <3>3. \E due, events : LoopWith(r, due, events)
      BY <2>3 DEF SettleFailed
    <3>. QED  BY <3>2, <3>3
  <2>. QED  BY <2>1, <2>2, <2>3 DEF Settles
<1>2. /\ run.pc = "wait" /\ run.seed = Nothing /\ s \in DOMAIN in_flight /\ Others(s)
      /\ running' = running \ {s}
  BY DEF Settles, SettleCompleted, SettleSkipped, SettleFailed, LastAttemptFailed, Finished, At,
         mark_completed, mark_skipped, mark_failed, mark_settled
<1>3. /\ run'.pc \in {"top", "emit"} /\ run'.batch = r.batch /\ run'.seed = r.seed
      /\ run'.base = r.base
  <2>. DEFINE q == [r EXCEPT !.due = due, !.pc = IF due = None THEN "top" ELSE "emit"]
  <2>1. /\ q.pc \in {"top", "emit"} /\ q.batch = r.batch /\ q.seed = r.seed /\ q.base = r.base
        /\ DOMAIN q = DOMAIN r /\ "seq" \in DOMAIN r
    BY <1>1 DEF Runs
  <2>2. Write(q, events)
    BY <1>1 DEF LoopWith
  <2>. HIDE DEF q
  <2>3. run' = [q EXCEPT !.seq = q.seq + Len(events)]
    BY <2>1, <2>2 DEF Write
  <2>. QED  BY <2>1, <2>3
<1>. QED  BY <1>1, <1>2, <1>3

LEMMA SettlesPool ==
  ASSUME Typed, PoolOK, NEW s \in Steps, Settles(s)
  PROVE  PoolOK'
<1>1. /\ run'.pc \in {"top", "emit"} /\ run'.batch = run.batch /\ run'.seed = Nothing
      /\ run.pc = "wait" /\ s \in DOMAIN in_flight /\ Others(s) /\ running' = running \ {s}
  BY SettlesRun
<1>2. run.batch = <<>> /\ Listed = {} /\ Listed' = {}
  BY <1>1 DEF PoolOK, Listed, ToSet
<1>3. /\ DOMAIN in_flight' = DOMAIN in_flight \ {s}
      /\ DOMAIN in_flight_allocations' = DOMAIN in_flight_allocations \ {s}
  BY <1>1 DEF Others
<1>. QED  BY <1>1, <1>2, <1>3 DEF PoolOK, Admitting

(***************************************************************************)
(* The steps of the executor, by what they do to the run.                  *)
(***************************************************************************)
Replays(s) == SeedCompleted(s) \/ SeedSkipped(s) \/ SeedFailed(s)
Admits     == AllocateRefused \/ Admit

LEMMA NextCases ==
  ASSUME Next
  PROVE  \/ Begins \/ TopUp \/ Admits \/ Between \/ Ending
         \/ \E s \in Steps : Replays(s) \/ Settles(s)
BY DEF Next, Begins, Replays, Admits, Between, Ending, Settles, Loop, Settle, Takes

LEMMA NextTyped ==
  ASSUME Typed, PoolOK, [Next]_vars
  PROVE  Typed' /\ PoolOK'
<1>1. CASE Begins
  BY <1>1, ExecuteTyped, ResumeTyped, BeginsPool DEF Begins
<1>2. CASE TopUp
  BY <1>2, TopUpTyped, TopUpPool
<1>3. CASE Admits
  BY <1>3, AllocateRefusedTyped, AdmitTyped, AdmittingPool DEF Admits, PoolOK
<1>4. CASE Between
  BY <1>4, BetweenTyped, BetweenCalm, CalmPool
<1>5. CASE Ending
  BY <1>5, EndingTyped, EndingPool
<1>6. ASSUME NEW s \in Steps, Replays(s) PROVE Typed' /\ PoolOK'
  BY <1>6, SeedTyped, SeedPool DEF Replays
<1>7. ASSUME NEW s \in Steps, Settles(s) PROVE Typed' /\ PoolOK'
  BY <1>7, SettleTyped, SettlesPool DEF Settles, Settle
<1>8. CASE UNCHANGED vars
  <2>1. UNCHANGED <<inner, active, run, pool, kept, tenants, issued, spent>> /\ UNCHANGED fields
    BY <1>8 DEF vars
  <2>2. Typed'
    BY <2>1 DEF Typed, FieldsTyped, PlansTyped, SetsTyped, BooksTyped, RunTyped, PoolTyped,
       ActiveTyped, inner, sets, pool, kept, fields
  <2>3. PoolOK'
    BY <2>1 DEF PoolOK, Admitting, Listed, inner, sets, pool
  <2>. QED  BY <2>2, <2>3
<1>. QED  BY <1>1, <1>2, <1>3, <1>4, <1>5, <1>6, <1>7, <1>8, NextCases

LEMMA InitPool == Init => PoolOK
BY DEF Init, PoolOK, Admitting, NoRun, Nothing

LEMMA AlwaysTyped == Spec => [](Typed /\ PoolOK)
<1>1. Init => Typed /\ PoolOK
  BY InitTyped, InitPool
<1>2. Typed /\ PoolOK /\ [Next]_vars => (Typed /\ PoolOK)'
  BY NextTyped
<1>. QED  BY <1>1, <1>2, PTL DEF Spec

(* Every field and local of the executor keeps its type, for every plan    *)
(* and policy, whatever is paused, stopped, lost in a crash or resumed.    *)
THEOREM ExecutorTyped == Spec => []TypeOK
BY AlwaysTyped, TypedIsTypeOK, PTL

(* A step the scheduler has handed out is in the pool, or is next to be    *)
(* admitted, and every other is not: none is lost between the two.         *)
THEOREM PoolKept == Spec => []PoolIsRunning
BY AlwaysTyped, PoolIsPoolIsRunning, PTL

------------------------------------------------------------------------------
(***************************************************************************)
(* Allocations.  Their identifiers are unique, whoever else takes and      *)
(* gives, and as long as no run was cut short all that is held is held by  *)
(* a step in the pool or by another user of the manager.                   *)
(***************************************************************************)
Ids  == {a.id : a \in active}
Held == {in_flight_allocations[s] : s \in DOMAIN in_flight}

Unique == \A a, b \in active : a.id = b.id => a = b

Accounted ==
  /\ run.pc # "idle" => last.status = "None" /\ spent["runs"] # 0
  /\ spent["runs"] = 0 => last.status = "None"

AllocationsOK == Unique /\ AllocationsKept /\ Accounted

(* A run that is cut short leaves what it took; a crash leaves nothing.    *)
Regular  == last.status \in {"None", "Succeeded", "PartialFailure", "Crashed"}
Returned == Ids = tenants.holding \cup Held
FirstRun == spent["runs"] <= 1 /\ Regular

(* Both last, step by step, until a run is cut short. *)
Accounting == /\ Returned /\ Regular' => Returned'
              /\ FirstRun' => FirstRun

LEMMA AllocationsOKIsSound ==
  ASSUME Typed, AllocationsOK, FirstRun => Returned
  PROVE  AllocationsSound
<1>1. ASSUME spent["runs"] = 1, last.status \in {"Succeeded", "PartialFailure"}
      PROVE  Ids = tenants.holding
  <2>1. Ids = tenants.holding \cup Held
    BY <1>1 DEF FirstRun, Regular, Returned
  <2>2. run.pc = "idle"
    BY <1>1 DEF AllocationsOK, Accounted
  <2>3. Held = {}
    BY <2>2 DEF Held, Typed, PoolTyped
  <2>. QED  BY <2>1, <2>3
<1>. QED  BY <1>1 DEF AllocationsSound, AllocationsReturned, AllocationsOK, Ids

LEMMA InitAllocations == Init => AllocationsOK /\ Returned
<1>. SUFFICES ASSUME Init PROVE AllocationsOK /\ Returned
  OBVIOUS
<1>1. Unique /\ AllocationsKept
  BY DEF Init, Unique, AllocationsKept, NoTenants
<1>2. Accounted /\ Returned
  BY DEF Init, Accounted, Returned, Ids, Held, NoTenants, NoResult, NoRun, Spendable
<1>. QED  BY <1>1, <1>2 DEF AllocationsOK

(* What a push adds and a release takes. *)
LEMMA PushedIds ==
  ASSUME Typed, Unique, NEW need, push([id |-> FreshAllocationId, granted |-> need])
  PROVE  /\ Unique' /\ Ids' = Ids \cup {FreshAllocationId} /\ FreshAllocationId \notin Ids
         /\ active \subseteq active'
         /\ [id |-> FreshAllocationId, granted |-> need] \in active'
<1>1. FreshAllocationId \in Nat /\ \A a \in active : a.id # FreshAllocationId
  BY FreshAllocationIdTyped DEF Typed
<1>. DEFINE a == [id |-> FreshAllocationId, granted |-> need]
<1>2. active' = active \cup {a} /\ a.id = FreshAllocationId
  BY DEF push
<1>. HIDE DEF a
<1>3. Unique'
  BY <1>1, <1>2 DEF Unique
<1>4. Ids' = Ids \cup {FreshAllocationId} /\ FreshAllocationId \notin Ids
  BY <1>1, <1>2 DEF Ids
<1>. QED  BY <1>2, <1>3, <1>4 DEF a

LEMMA ReleasedIds ==
  ASSUME Unique, NEW id, release(id)
  PROVE  /\ Unique' /\ Ids' = Ids \ {id}
         /\ \A a \in active : a.id # id => a \in active'
BY DEF release, Unique, Ids

(* What the steps leave alone. *)
LEMMA QuietAllocations ==
  ASSUME AllocationsOK, UNCHANGED <<active, tenants, in_flight_allocations, DOMAIN in_flight>>,
         UNCHANGED <<last, spent["runs"], plan.need, run.pc = "idle">>
  PROVE  AllocationsOK' /\ Accounting
<1>1. Unique' /\ Ids' = Ids /\ Held' = Held
  BY DEF AllocationsOK, Unique, Ids, Held
<1>2. AllocationsKept'
  BY DEF AllocationsOK, AllocationsKept
<1>3. Accounted' /\ Accounting
  BY <1>1 DEF AllocationsOK, Accounted, Accounting, FirstRun, Returned, Regular
<1>. QED  BY <1>1, <1>2, <1>3 DEF AllocationsOK

LEMMA BeginsAllocations ==
  ASSUME Typed, AllocationsOK, Begins
  PROVE  AllocationsOK' /\ Accounting
<1>1. UNCHANGED <<active, pool, tenants>> /\ last' = NoResult
  BY DEF Begins, Execute, Resume
<1>2. run.pc = "idle" /\ Spend("runs")
  BY DEF Begins, Execute, Resume
<1>3. DOMAIN in_flight = {} /\ spent["runs"] \in Nat /\ spent'["runs"] = spent["runs"] + 1
  BY <1>2 DEF Spend, Typed, PoolTyped, FieldsTyped, Spendable
<1>4. Unique' /\ AllocationsKept' /\ Ids' = Ids /\ Held' = Held
  BY <1>1, <1>3 DEF AllocationsOK, Unique, AllocationsKept, Ids, Held, pool
<1>5. Accounted' /\ Accounting
  BY <1>1, <1>2, <1>3, <1>4 DEF AllocationsOK, Accounted, NoResult, Accounting, FirstRun, Returned, Regular
<1>. QED  BY <1>4, <1>5 DEF AllocationsOK

LEMMA AdmitAllocations ==
  ASSUME Typed, PoolOK, AllocationsOK, Admit
  PROVE  AllocationsOK' /\ Accounting
<1>. DEFINE s == Head(run.batch)
            fresh == FreshAllocationId
<1>1. At("admit") /\ run.batch \in Seq(Steps) /\ run.batch # <<>> /\ run \in Runs
  BY DEF Admit, PoolOK, Admitting, At, Typed, RunTyped, Runs
<1>2. s \in Listed /\ s \in Steps
  BY <1>1, TailLists DEF PoolOK, Listed
<1>3. s \notin DOMAIN in_flight
  BY <1>1, <1>2 DEF PoolOK, At
<1>4. /\ Unique' /\ Ids' = Ids \cup {fresh} /\ fresh \notin Ids /\ active \subseteq active'
      /\ [id |-> fresh, granted |-> plan.need[s]] \in active'
  BY PushedIds DEF Admit, AllocationsOK
<1>5. /\ in_flight' = Put(in_flight, s, 1)
      /\ in_flight_allocations' = Put(in_flight_allocations, s, fresh)
      /\ UNCHANGED <<tenants, last, spent, plan>> /\ run.pc # "idle" /\ run'.pc # "idle"
  BY <1>1 DEF Admit, Elsewhere, inner, Admitted, Runs, At
<1>. HIDE DEF s, fresh
<1>6. /\ DOMAIN in_flight' = DOMAIN in_flight \cup {s}
      /\ in_flight_allocations'[s] = fresh
      /\ \A t \in DOMAIN in_flight : in_flight_allocations'[t] = in_flight_allocations[t]
  BY <1>3, <1>5 DEF Put, PoolOK
<1>7. \A t \in DOMAIN in_flight : in_flight_allocations[t] \in Ids
  <2>. SUFFICES ASSUME NEW t \in DOMAIN in_flight PROVE in_flight_allocations[t] \in Ids
    OBVIOUS
  <2>. DEFINE a == [id |-> in_flight_allocations[t], granted |-> plan.need[t]]
  <2>1. a \in active /\ a.id = in_flight_allocations[t]
    BY DEF AllocationsOK, AllocationsKept
  <2>. HIDE DEF a
  <2>. QED  BY <2>1 DEF Ids
<1>8. AllocationsKept'
  <2>1. \A t \in DOMAIN in_flight' :
          [id |-> in_flight_allocations'[t], granted |-> plan.need[t]] \in active'
    BY <1>4, <1>6 DEF AllocationsOK, AllocationsKept
  <2>2. \A t, u \in DOMAIN in_flight' :
          t # u => in_flight_allocations'[t] # in_flight_allocations'[u]
    BY <1>4, <1>6, <1>7 DEF AllocationsOK, AllocationsKept
  <2>3. tenants.holding \subseteq Ids
    BY DEF AllocationsOK, AllocationsKept, Ids
  <2>4. \A t \in DOMAIN in_flight' : in_flight_allocations'[t] \notin tenants.holding
    BY <1>4, <1>6, <2>3 DEF AllocationsOK, AllocationsKept
  <2>. QED  BY <1>4, <1>5, <2>1, <2>2, <2>3, <2>4 DEF AllocationsKept, Ids
<1>9. Held' = Held \cup {fresh}
  BY <1>6 DEF Held
<1>10. Accounted' /\ Accounting
  BY <1>4, <1>5, <1>9 DEF AllocationsOK, Accounted, Accounting, FirstRun, Returned, Regular
<1>. QED  BY <1>4, <1>8, <1>10 DEF AllocationsOK

LEMMA SettlesAllocations ==
  ASSUME Typed, PoolOK, AllocationsOK, NEW s \in Steps, Settles(s)
  PROVE  AllocationsOK' /\ Accounting
<1>1. /\ s \in DOMAIN in_flight /\ Others(s) /\ run.pc # "idle" /\ run'.pc # "idle"
  BY SettlesRun
<1>2. release(in_flight_allocations[s]) /\ UNCHANGED <<tenants, last, spent, plan>>
  BY SettleFacts DEF Settles, Settle, SettleCompleted, SettleSkipped, SettleFailed, LastAttemptFailed, Finished
<1>3. /\ Unique' /\ Ids' = Ids \ {in_flight_allocations[s]}
      /\ \A a \in active : a.id # in_flight_allocations[s] => a \in active'
  BY <1>2, ReleasedIds DEF AllocationsOK
<1>4. /\ DOMAIN in_flight' = DOMAIN in_flight \ {s}
      /\ \A t \in DOMAIN in_flight \ {s} : in_flight_allocations'[t] = in_flight_allocations[t]
  BY <1>1 DEF Others, PoolOK
<1>5. \A t \in DOMAIN in_flight \ {s} : in_flight_allocations[t] # in_flight_allocations[s]
  BY <1>1 DEF AllocationsOK, AllocationsKept
<1>6. AllocationsKept'
  <2>1. \A t \in DOMAIN in_flight' :
          [id |-> in_flight_allocations'[t], granted |-> plan.need[t]] \in active'
    <3>. SUFFICES ASSUME NEW t \in DOMAIN in_flight \ {s}
                  PROVE  [id |-> in_flight_allocations[t], granted |-> plan.need[t]] \in active'
      BY <1>4
    <3>1. [id |-> in_flight_allocations[t], granted |-> plan.need[t]] \in active
      BY DEF AllocationsOK, AllocationsKept
    <3>. QED  BY <1>3, <1>5, <3>1
  <2>2. \A t, u \in DOMAIN in_flight' :
          t # u => in_flight_allocations'[t] # in_flight_allocations'[u]
    BY <1>4 DEF AllocationsOK, AllocationsKept
  <2>3. tenants.holding \subseteq Ids'
    BY <1>1, <1>3 DEF AllocationsOK, AllocationsKept, Ids
  <2>4. \A t \in DOMAIN in_flight' : in_flight_allocations'[t] \notin tenants.holding
    BY <1>4 DEF AllocationsOK, AllocationsKept
  <2>. QED  BY <1>2, <2>1, <2>2, <2>3, <2>4 DEF AllocationsKept, Ids
<1>7. Held' = Held \ {in_flight_allocations[s]}
  BY <1>1, <1>4, <1>5 DEF Held
<1>8. in_flight_allocations[s] \notin tenants.holding
  BY <1>1 DEF AllocationsOK, AllocationsKept
<1>9. Accounted' /\ Accounting
  BY <1>1, <1>2, <1>3, <1>7, <1>8 DEF AllocationsOK, Accounted, Accounting, FirstRun, Returned, Regular
<1>. QED  BY <1>3, <1>6, <1>9 DEF AllocationsOK

LEMMA TakesAllocations ==
  ASSUME Typed, AllocationsOK, Takes
  PROVE  AllocationsOK' /\ Accounting
<1>0. /\ UNCHANGED <<run, pool, plan, last>>
      /\ tenants \in [asking : Nat, holding : SUBSET Nat]
  BY DEF Takes, TenantChecks, TenantPushes, TenantGives, Around, inner, Typed, ActiveTyped
<1>1. ASSUME NEW need, TenantChecks(need) PROVE AllocationsOK' /\ Accounting
  <2>1. UNCHANGED active /\ tenants'.holding = tenants.holding /\ spent'["runs"] = spent["runs"]
    BY <1>0, <1>1 DEF TenantChecks, Spend, Typed, FieldsTyped, Spendable
  <2>2. Unique' /\ Ids' = Ids /\ Held' = Held /\ AllocationsKept'
    BY <1>0, <2>1 DEF AllocationsOK, Unique, Ids, Held, AllocationsKept, pool
  <2>. QED  BY <1>0, <2>1, <2>2 DEF AllocationsOK, Accounted, Accounting, FirstRun, Returned, Regular
<1>2. CASE TenantPushes
  <2>1. /\ tenants'.holding = tenants.holding \cup {FreshAllocationId} /\ UNCHANGED spent
        /\ push([id |-> FreshAllocationId, granted |-> tenants.asking])
    BY <1>2 DEF TenantPushes
  <2>2. /\ Unique' /\ Ids' = Ids \cup {FreshAllocationId} /\ FreshAllocationId \notin Ids
        /\ active \subseteq active'
    BY <2>1, PushedIds DEF AllocationsOK
  <2>3. \A s \in DOMAIN in_flight : in_flight_allocations[s] \in Ids
    <3>. SUFFICES ASSUME NEW s \in DOMAIN in_flight PROVE in_flight_allocations[s] \in Ids
      OBVIOUS
    <3>. DEFINE a == [id |-> in_flight_allocations[s], granted |-> plan.need[s]]
    <3>1. a \in active /\ a.id = in_flight_allocations[s]
      BY DEF AllocationsOK, AllocationsKept
    <3>. HIDE DEF a
    <3>. QED  BY <3>1 DEF Ids
  <2>4. AllocationsKept'
    <3>1. \A s \in DOMAIN in_flight : in_flight_allocations[s] \notin tenants'.holding
      BY <2>1, <2>2, <2>3 DEF AllocationsOK, AllocationsKept
    <3>2. tenants'.holding \subseteq Ids'
      BY <2>1, <2>2 DEF AllocationsOK, AllocationsKept, Ids
    <3>. QED  BY <1>0, <2>2, <3>1, <3>2 DEF AllocationsOK, AllocationsKept, Ids, pool
  <2>5. Held' = Held
    BY <1>0 DEF Held, pool
  <2>. QED  BY <1>0, <2>1, <2>2, <2>4, <2>5 DEF AllocationsOK, Accounted, Accounting, FirstRun, Returned, Regular
<1>3. ASSUME NEW id \in tenants.holding, TenantGives(id) PROVE AllocationsOK' /\ Accounting
  <2>1. /\ tenants'.holding = tenants.holding \ {id} /\ UNCHANGED spent /\ release(id)
    BY <1>0, <1>3 DEF TenantGives
  <2>2. /\ Unique' /\ Ids' = Ids \ {id} /\ \A a \in active : a.id # id => a \in active'
    BY <2>1, ReleasedIds DEF AllocationsOK
  <2>3. \A s \in DOMAIN in_flight : in_flight_allocations[s] # id
    BY <1>3 DEF AllocationsOK, AllocationsKept
  <2>4. \A s \in DOMAIN in_flight :
          [id |-> in_flight_allocations[s], granted |-> plan.need[s]] \in active'
    <3>. SUFFICES ASSUME NEW s \in DOMAIN in_flight
                  PROVE  [id |-> in_flight_allocations[s], granted |-> plan.need[s]] \in active'
      OBVIOUS
    <3>1. [id |-> in_flight_allocations[s], granted |-> plan.need[s]] \in active
      BY DEF AllocationsOK, AllocationsKept
    <3>. QED  BY <2>2, <2>3, <3>1
  <2>5. AllocationsKept'
    <3>1. tenants'.holding \subseteq Ids'
      BY <2>1, <2>2 DEF AllocationsOK, AllocationsKept, Ids
    <3>. QED  BY <1>0, <2>1, <2>4, <3>1 DEF AllocationsOK, AllocationsKept, Ids, pool
  <2>6. Held' = Held /\ id \notin Held
    BY <1>0, <2>3 DEF Held, pool
  <2>. QED  BY <1>0, <2>1, <2>2, <2>5, <2>6 DEF AllocationsOK, Accounted, Accounting, FirstRun, Returned, Regular
<1>. QED  BY <1>1, <1>2, <1>3 DEF Takes

LEMMA EndingAllocations ==
  ASSUME Typed, AllocationsOK, Ending
  PROVE  AllocationsOK' /\ Accounting
<1>1. /\ run.pc # "idle" /\ run'.pc = "idle" /\ DOMAIN in_flight' = {} /\ Held' = {}
  BY EndingStops DEF NoRun, Held
<1>2. spent'["runs"] = spent["runs"]
  BY DEF Ending, TopCancelled, PausedCancelled, finalise_cancelled, Finish, Crash, Spend,
         SettleHalting, LastAttemptFailed, SettleError, Typed, FieldsTyped, Spendable
<1>3. Accounted' /\ (FirstRun' => FirstRun)
  BY <1>1, <1>2 DEF AllocationsOK, Accounted, FirstRun, Regular
<1>4. CASE Crash
  <2>1. Unique' /\ AllocationsKept'
    BY <1>1, <1>4 DEF Crash, NoTenants, Unique, AllocationsKept
  <2>2. Ids' = {} /\ tenants'.holding = {}
    BY <1>4 DEF Crash, NoTenants, Ids
  <2>. QED  BY <1>1, <1>3, <2>1, <2>2 DEF AllocationsOK, Accounting, Returned
<1>5. CASE TopCancelled \/ PausedCancelled
  <2>1. UNCHANGED <<active, tenants>> /\ last'.status = "Cancelled"
    BY <1>5 DEF TopCancelled, PausedCancelled, finalise_cancelled, End, Return
  <2>. QED  BY <1>1, <1>3, <2>1 DEF AllocationsOK, Unique, AllocationsKept, Accounting, Returned, Regular
<1>6. CASE Finish
  <2>1. UNCHANGED <<active, tenants>> /\ DOMAIN in_flight = {}
    BY <1>6 DEF Finish
  <2>2. Held = {} /\ Ids' = Ids
    BY <2>1 DEF Held, Ids
  <2>. QED  BY <1>1, <1>3, <2>1, <2>2 DEF AllocationsOK, Unique, AllocationsKept, Accounting, Returned, Regular
<1>7. ASSUME NEW s \in Steps, SettleHalting(s) \/ SettleError(s) PROVE AllocationsOK' /\ Accounting
  <2>1. /\ release(in_flight_allocations[s]) /\ UNCHANGED tenants /\ s \in DOMAIN in_flight
        /\ last'.status \in {"Halted", "Error"}
    BY <1>7 DEF SettleHalting, SettleError, LastAttemptFailed, Finished, End, Return
  <2>2. Unique' /\ Ids' = Ids \ {in_flight_allocations[s]}
    BY <2>1, ReleasedIds DEF AllocationsOK
  <2>3. tenants.holding \subseteq Ids'
    BY <2>1, <2>2 DEF AllocationsOK, AllocationsKept, Ids
  <2>. QED  BY <1>1, <1>3, <2>1, <2>2, <2>3 DEF AllocationsOK, AllocationsKept, Accounting, Returned, Regular, Ids
<1>. QED  BY <1>4, <1>5, <1>6, <1>7 DEF Ending

LEMMA NextAllocations ==
  ASSUME Typed, PoolOK, AllocationsOK, [Next]_vars
  PROVE  AllocationsOK' /\ Accounting
<1>1. CASE TopUp \/ AllocateRefused \/ UNCHANGED vars
  <2>1. UNCHANGED <<active, tenants, pool, last, spent, plan>> /\ (run.pc = "idle") = (run'.pc = "idle")
    BY <1>1 DEF TopUp, AllocateRefused, next_steps, mark_skipped, mark_settled, Elsewhere, vars, inner,
                At, Admitted, Typed, RunTyped, Runs
  <2>. QED  BY <2>1, QuietAllocations DEF pool
<1>2. CASE Between /\ ~Takes
  <2>1. run.pc = "idle" <=> run'.pc = "idle"
    BY <1>2, BetweenCalm DEF Calm
  <2>2. /\ UNCHANGED <<active, tenants, in_flight_allocations, DOMAIN in_flight, last, plan>>
        /\ spent'["runs"] = spent["runs"]
    BY <1>2, BetweenCalm DEF Calm, inner, Between, Top, TopPaused, Unpaused, Onward, NoInterval, NoTopUp,
             Elsewhere, pool, Drain, Interval, EmitDue, Control, Pause, Unpause, Stop, checkpoint_now,
             Around, Retry, Spend, Typed, FieldsTyped, Spendable
  <2>. QED  BY <2>1, <2>2, QuietAllocations
<1>3. ASSUME NEW s \in Steps, Replays(s) PROVE AllocationsOK' /\ Accounting
  <2>1. UNCHANGED <<active, tenants, pool, last, spent, plan>> /\ run'.pc = run.pc
    BY <1>3 DEF Replays, SeedCompleted, SeedSkipped, SeedFailed, Seeding, mark_completed, mark_skipped,
                mark_settled, mark_failed, Typed, RunTyped, Runs
  <2>. QED  BY <2>1, QuietAllocations DEF pool
<1>. QED  BY <1>1, <1>2, <1>3, NextCases, BeginsAllocations, AdmitAllocations, TakesAllocations,
             EndingAllocations, SettlesAllocations DEF Admits

LEMMA AlwaysAllocations == Spec => []AllocationsOK
<1>1. Init => AllocationsOK
  BY InitAllocations
<1>2. (Typed /\ PoolOK) /\ AllocationsOK /\ [Next]_vars => AllocationsOK'
  BY NextAllocations
<1>. QED  BY <1>1, <1>2, AlwaysTyped, PTL DEF Spec

(* Every step in the pool holds an allocation of its own for what it asks, *)
(* which nobody else can give back, and a run that is not cut short gives  *)
(* back all it took, whoever else shares the resource manager.             *)
THEOREM AllocationsAreSound == Spec => []AllocationsSound
<1>1. Init => (FirstRun => Returned)
  BY InitAllocations
<1>2. (Typed /\ PoolOK) /\ AllocationsOK /\ (FirstRun => Returned) /\ [Next]_vars
        => (FirstRun => Returned)'
  BY NextAllocations DEF Accounting, FirstRun
<1>3. (Typed /\ PoolOK) /\ AllocationsOK /\ (FirstRun => Returned) => AllocationsSound
  BY AllocationsOKIsSound
<1>. QED  BY <1>1, <1>2, <1>3, AlwaysTyped, AlwaysAllocations, PTL DEF Spec

------------------------------------------------------------------------------
(***************************************************************************)
(* Trials.  In a run from the start the trial of every step that failed is *)
(* marked, and so is the run; one that was resumed has lost the marks of   *)
(* its replayed steps.                                                     *)
(***************************************************************************)
TrialsOK ==
  run.pc # "idle" /\ run.base = Nothing =>
    /\ run.seed = Nothing
    /\ \A s \in failed : plan.trial[s] # 0 => plan.trial[s] \in run.trial_failed
    /\ run.any_failed <=> failed # {}

SameTrials == UNCHANGED <<run.base, run.seed, run.any_failed, run.trial_failed, run.trial_results,
                          failed, plan, run.pc = "idle">>

LEMMA NextKeepsTrials ==
  ASSUME Typed, PoolOK, TopUp \/ Admits \/ Between \/ UNCHANGED vars
  PROVE  SameTrials
<1>0. run \in Runs
  BY DEF Typed, RunTyped
<1>1. CASE TopUp
  BY <1>0, <1>1 DEF TopUp, next_steps, At, Runs, SameTrials
<1>2. CASE Admits
  BY <1>0, <1>2 DEF Admits, AllocateRefused, Admit, mark_skipped, mark_settled, inner, sets, At,
                    Admitted, Runs, SameTrials
<1>3. CASE Drain \/ Interval \/ EmitDue
  <2>1. PICK id \in Nat, next \in {"interval", "topup", "top"} : emit_checkpoint(id, next)
    <3>1. pending_checkpoint \in Nat /\ run.due \in Nat /\ FreshCheckpointId \in Nat
      BY <1>0, FreshCheckpointIdTyped DEF Typed, FieldsTyped, Runs
    <3>. QED  BY <1>3, <3>1 DEF Drain, Interval, EmitDue
  <2>. DEFINE r == [run EXCEPT !.pc = next, !.due = None, !.checkpointed = TRUE]
              told == <<Event("CheckpointCreated", id, 0)>>
  <2>2. /\ r.pc = next /\ UNCHANGED <<inner>> /\ run.pc # "idle" /\ r \in Runs
        /\ r.base = run.base /\ r.seed = run.seed /\ r.trial_failed = run.trial_failed
        /\ r.trial_results = run.trial_results /\ r.any_failed = run.any_failed
    BY <1>0, <1>3 DEF Runs, Pcs, None, Drain, Interval, EmitDue, At
  <2>3. run' = [r EXCEPT !.seq = r.seq + Len(told)]
    <3>1. Write(r, told)
      BY <2>1 DEF emit_checkpoint
    <3>. HIDE DEF r, told
    <3>. QED  BY <2>2, <3>1 DEF Write
  <2>. HIDE DEF r, told
  <2>. QED  BY <2>2, <2>3 DEF Runs, SameTrials, inner, sets
<1>4. CASE Between /\ ~(Drain \/ Interval \/ EmitDue)
  <2>1. UNCHANGED run \/ \E pc \in Pcs : Goto(pc) /\ pc # "idle" /\ run.pc # "idle"
    BY <1>4 DEF Between, Top, TopPaused, Unpaused, Onward, NoInterval, NoTopUp, Control, Pause, Unpause,
       Stop, checkpoint_now, Around, Takes, TenantChecks, TenantPushes, TenantGives, Retry, At, Pcs
  <2>2. UNCHANGED inner
    BY <1>4, BetweenCalm DEF Calm
  <2>. QED  BY <1>0, <2>1, <2>2 DEF Goto, Runs, SameTrials, inner, sets
<1>5. CASE UNCHANGED vars
  BY <1>5 DEF vars, inner, sets, SameTrials
<1>. QED  BY <1>1, <1>2, <1>3, <1>4, <1>5

LEMMA BeginsTrials ==
  ASSUME Typed, Begins
  PROVE  /\ run'.base = run'.seed /\ run'.trial_results = {} /\ failed' = {}
         /\ run'.any_failed = FALSE
<1>1. ASSUME NEW p \in Plans, Execute(p)
      PROVE  run'.base = run'.seed /\ run'.trial_results = {} /\ failed' = {}
         /\ run'.any_failed = FALSE
  <2>1. Write([NoRun EXCEPT !.pc = "top", !.exec = running_exec'], <<Event("ExecutionStarted", None, 0)>>)
    BY <1>1 DEF Execute
  <2>2. run'.base = run'.seed /\ run'.trial_results = {} /\ run'.any_failed = FALSE
    BY <2>1 DEF Write, NoRun
  <2>. QED  BY <1>1, <2>2 DEF Execute, initialise
<1>2. ASSUME NEW c \in stored, Resume(c)
      PROVE  run'.base = run'.seed /\ run'.trial_results = {} /\ failed' = {}
         /\ run'.any_failed = FALSE
  <2>1. Write([NoRun EXCEPT !.pc = "top", !.exec = c.exec, !.seed = c.state, !.base = c.state],
              <<Event("ExecutionResumed", c.id, 0)>>)
    BY <1>2 DEF Resume
  <2>2. run'.base = run'.seed /\ run'.trial_results = {} /\ run'.any_failed = FALSE
    BY <2>1 DEF Write, NoRun
  <2>. QED  BY <1>2, <2>2 DEF Resume, initialise
<1>. QED  BY <1>1, <1>2 DEF Begins

(* A step settles and no trial is marked, or it failed and its trial is.   *)
SettlesWell(s) ==
  /\ failed' = failed /\ run'.trial_failed = run.trial_failed /\ run'.any_failed = run.any_failed
  /\ run'.trial_results \subseteq run.trial_results \cup
       (IF plan.kind[s] = "TrialEnd" THEN {synthesise_trial_result(plan.trial[s])} ELSE {})

SettlesBadly(s) ==
  /\ failed' = failed \cup {s} /\ run'.trial_failed = run.trial_failed \cup TrialOf(s)
  /\ run'.trial_results = run.trial_results /\ run'.any_failed = TRUE

LEMMA SettlesTrials ==
  ASSUME Typed, NEW s \in Steps, Settles(s)
  PROVE  SettlesWell(s) \/ SettlesBadly(s)
<1>0. run \in Runs
  BY DEF Typed, RunTyped
<1>1. ASSUME NEW r \in Runs, NEW due, NEW events, LoopWith(r, due, events)
      PROVE  /\ run'.trial_failed = r.trial_failed /\ run'.trial_results = r.trial_results
             /\ run'.any_failed = r.any_failed
  <2>. DEFINE q == [r EXCEPT !.due = due, !.pc = IF due = None THEN "top" ELSE "emit"]
  <2>1. /\ q.pc \in {"top", "emit"} /\ q.trial_failed = r.trial_failed
        /\ q.trial_results = r.trial_results /\ q.any_failed = r.any_failed /\ DOMAIN q = DOMAIN r /\ "seq" \in DOMAIN r
    BY DEF Runs
  <2>2. Write(q, events)
    BY <1>1 DEF LoopWith
  <2>. HIDE DEF q
  <2>3. run' = [q EXCEPT !.seq = q.seq + Len(events)]
    BY <2>1, <2>2 DEF Write
  <2>. QED  BY <2>1, <2>3
<1>2. CASE SettleCompleted(s)
  <2>. DEFINE result == IF plan.kind[s] = "TrialEnd"
                        THEN {synthesise_trial_result(plan.trial[s])} ELSE {}
              r == [run EXCEPT !.trial_results = @ \cup result]
  <2>1. result \in SUBSET Results
    BY NeedTyped DEF synthesise_trial_result, Results
  <2>2. /\ \E due, events : LoopWith(r, due, events)
        /\ failed' = failed
    BY <1>2 DEF SettleCompleted, mark_completed, mark_settled
  <2>. HIDE DEF result
  <2>3. r \in Runs /\ r.trial_failed = run.trial_failed /\ r.trial_results = run.trial_results \cup result
        /\ r.any_failed = run.any_failed
    BY <1>0, <2>1 DEF Runs
  <2>. HIDE DEF r
  <2>4. run'.trial_failed = run.trial_failed /\ run'.trial_results = run.trial_results \cup result
        /\ run'.any_failed = run.any_failed
    BY <1>1, <2>2, <2>3
  <2>. QED  BY <1>2, <2>2, <2>4 DEF result, SettlesWell
<1>3. CASE SettleSkipped(s)
  BY <1>0, <1>1, <1>3 DEF SettleSkipped, mark_skipped, mark_settled, SettlesWell
<1>4. CASE SettleFailed(s)
  <2>1. TrialOf(s) \in SUBSET Nat
    BY NeedTyped DEF TrialOf
  <2>. DEFINE r == [run EXCEPT !.any_failed = TRUE, !.trial_failed = @ \cup TrialOf(s)]
  <2>2. /\ r \in Runs /\ r.trial_failed = run.trial_failed \cup TrialOf(s)
        /\ r.trial_results = run.trial_results /\ r.any_failed = TRUE
    BY <1>0, <2>1 DEF Runs
  <2>3. /\ \E due, events : LoopWith(r, due, events)
        /\ failed' = failed \cup {s}
    BY <1>4 DEF SettleFailed, LastAttemptFailed, mark_failed
  <2>. HIDE DEF r
  <2>. QED  BY <1>1, <1>4, <2>2, <2>3 DEF SettlesBadly
<1>. QED  BY <1>2, <1>3, <1>4 DEF Settles

(* What a trial's result says when it is made. *)
ResultsHonest ==
  \A r \in run'.trial_results \ run.trial_results :
    r.ok /\ run.base = Nothing => \A s \in failed : plan.trial[s] # r.trial

LEMMA NextTrials ==
  ASSUME Typed, PoolOK, TrialsOK, [Next]_vars
  PROVE  TrialsOK' /\ ResultsHonest
<1>1. CASE TopUp \/ Admits \/ Between \/ UNCHANGED vars
  <2>1. SameTrials
    BY <1>1, NextKeepsTrials
  <2>2. run'.pc # "idle" <=> run.pc # "idle"
    BY <2>1 DEF SameTrials
  <2>. QED  BY <2>1, <2>2 DEF SameTrials, TrialsOK, ResultsHonest
<1>2. CASE Begins
  BY <1>2, BeginsTrials DEF TrialsOK, ResultsHonest
<1>3. CASE Ending
  BY <1>3, EndingStops DEF NoRun, TrialsOK, ResultsHonest
<1>4. ASSUME NEW s \in Steps, Replays(s) PROVE TrialsOK' /\ ResultsHonest
  <2>1. run.seed # Nothing /\ UNCHANGED <<run.base, run.pc, run.trial_results>>
    BY <1>4 DEF Replays, SeedCompleted, SeedSkipped, SeedFailed, Seeding, Nothing, Typed, RunTyped, Runs
  <2>2. run.pc # "idle"
    BY <2>1 DEF Typed, RunTyped, NoRun
  <2>. QED  BY <2>1, <2>2 DEF TrialsOK, ResultsHonest
<1>5. ASSUME NEW s \in Steps, Settles(s) PROVE TrialsOK' /\ ResultsHonest
  <2>0. /\ run'.base = run.base /\ run'.seed = Nothing /\ run.pc # "idle" /\ UNCHANGED plan
    BY <1>5, SettlesRun, SettleFacts DEF Settles, Settle
  <2>1. CASE SettlesWell(s)
    <3>1. plan.kind[s] = "TrialEnd" => plan.trial[s] # 0
      BY ExecutorAssumption DEF Typed, PlansTyped, Trialless
    <3>2. ResultsHonest
      <4>. SUFFICES ASSUME NEW r \in run'.trial_results \ run.trial_results, r.ok, run.base = Nothing,
                           NEW f \in failed
                    PROVE  plan.trial[f] # r.trial
        BY DEF ResultsHonest
      <4>1. plan.kind[s] = "TrialEnd" /\ r = synthesise_trial_result(plan.trial[s])
        BY <2>1 DEF SettlesWell
      <4>2. r.trial = plan.trial[s] /\ r.trial \notin run.trial_failed /\ r.trial # 0
        BY <3>1, <4>1 DEF synthesise_trial_result
      <4>3. plan.trial[f] # 0 => plan.trial[f] \in run.trial_failed
        BY <2>0 DEF TrialsOK
      <4>. QED  BY <4>2, <4>3
    <3>. QED  BY <2>0, <2>1, <3>2 DEF TrialsOK, SettlesWell
  <2>2. CASE SettlesBadly(s)
    BY <2>0, <2>2 DEF TrialsOK, ResultsHonest, SettlesBadly, TrialOf
  <2>. QED  BY <1>5, <2>1, <2>2, SettlesTrials
<1>. QED  BY <1>1, <1>2, <1>3, <1>4, <1>5, NextCases

LEMMA InitTrials == Init => TrialsOK
BY DEF Init, TrialsOK, NoRun

LEMMA AlwaysTrials == Spec => []TrialsOK
<1>1. (Typed /\ PoolOK) /\ TrialsOK /\ [Next]_vars => TrialsOK'
  BY NextTrials
<1>. QED  BY <1>1, InitTrials, AlwaysTyped, PTL DEF Spec

(* In a run from the start the result of a trial says ok only if no step   *)
(* of the trial has failed: also when another step of it failed long       *)
(* before, was retried in between, or is cascaded over.                    *)
THEOREM TrialResultsAreSound == Spec => TrialResultsSound
<1>1. (Typed /\ PoolOK) /\ TrialsOK /\ [Next]_vars => ResultsHonest
  BY NextTrials
<1>2. ResultsHonest =>
        [\A r \in run'.trial_results \ run.trial_results :
           r.ok /\ run.base = Nothing => \A s \in failed : plan.trial[s] # r.trial]_vars
  BY DEF ResultsHonest
<1>. QED  BY <1>1, <1>2, AlwaysTrials, AlwaysTyped, PTL DEF Spec, TrialResultsSound


------------------------------------------------------------------------------
(***************************************************************************)
(* Limits.  What is granted and what the steps of a batch that are not     *)
(* admitted yet ask for stays within the capacity, as long as nobody else  *)
(* takes from the manager; so no admission is ever refused.                *)
(***************************************************************************)
Allocations == [id : Nat, granted : Nat]
Grants(S)   == [a \in S |-> a.granted]

LEMMA GrantedSumIsTotal ==
  ASSUME NEW S \in SUBSET Allocations, IsFiniteSet(S), NEW R, R \subseteq S
  PROVE  granted_sum(R) = Total(Grants(S), R)
<1>. DEFINE w == Grants(S)
            P(g) == g = [T \in SUBSET R |->
                           IF T = {} THEN 0
                           ELSE Picked(T).granted + g[T \ {Picked(T)}]]
<1>0. IsFiniteSet(R)
  BY FS_Subset
<1>1. \A x \in R : w[x] \in Nat
  BY DEF Grants, Allocations
<1>2. granted_sum(R) = (CHOOSE g : P(g))[R]
  BY DEF granted_sum, MapThenSumSet, MapThenFoldSet, Picked
<1>3. ASSUME NEW g PROVE P(g) <=> Recurs(g, w, R)
  <2>1. \A T \in SUBSET R : T # {} => w[Picked(T)] = Picked(T).granted
    BY PickedIn DEF Grants
  <2>. HIDE DEF w
  <2>2. [T \in SUBSET R |-> IF T = {} THEN 0 ELSE Picked(T).granted + g[T \ {Picked(T)}]]
      = [T \in SUBSET R |-> IF T = {} THEN 0 ELSE w[Picked(T)] + g[T \ {Picked(T)}]]
    BY <2>1
  <2>. QED  BY <2>2 DEF Recurs
<1>. HIDE DEF w, P
<1>4. \E g : P(g)
  BY <1>0, <1>1, <1>3, RecursExists
<1>5. PICK g : g = (CHOOSE h : P(h)) /\ P(g)
  BY <1>4
<1>6. Recurs(g, w, R)
  BY <1>3, <1>5
<1>7. g[R] = Total(w, R)
  BY <1>0, <1>1, <1>6, RecursIsTotal
<1>. QED  BY <1>2, <1>5, <1>7 DEF w

LEMMA GrantedFacts ==
  ASSUME NEW S \in SUBSET Allocations, IsFiniteSet(S)
  PROVE  /\ granted_sum(S) \in Nat /\ granted_sum({}) = 0
         /\ \A a \in S : granted_sum(S) = a.granted + granted_sum(S \ {a})
         /\ \A R \in SUBSET S : granted_sum(R) <= granted_sum(S)
<1>1. \A x \in S : Grants(S)[x] \in Nat
  BY DEF Grants, Allocations
<1>2. \A R \in SUBSET S : granted_sum(R) = Total(Grants(S), R)
  BY GrantedSumIsTotal
<1>3. Total(Grants(S), S) \in Nat /\ Total(Grants(S), {}) = 0
  BY <1>1, TotalUnfolds, FS_EmptySet
<1>4. \A a \in S : Total(Grants(S), S) = Grants(S)[a] + Total(Grants(S), S \ {a})
  BY <1>1, TotalWithout
<1>5. \A R \in SUBSET S : Total(Grants(S), R) <= Total(Grants(S), S)
  BY <1>1, TotalOfPart
<1>6. \A a \in S : Grants(S)[a] = a.granted
  BY DEF Grants
<1>7. {} \in SUBSET S /\ S \in SUBSET S /\ \A a \in S : S \ {a} \in SUBSET S
  OBVIOUS
<1>. QED  BY <1>2, <1>3, <1>4, <1>5, <1>6, <1>7

Asked == Total(plan.need, Listed)

InReach == Capacity # Unbounded => granted_sum(active) + Asked <= Capacity

LimitsOK ==
  /\ priorities \in [Steps -> Priorities] /\ fair_cursor \in Nat
  /\ Cardinality(DOMAIN in_flight) + Cardinality(Listed) <= MaxParallel
  /\ Alone => tenants = NoTenants /\ InReach

(* Numbers that are numbers. *)
LEMMA LimitsTyped ==
  ASSUME Typed, PoolOK
  PROVE  /\ granted_sum(active) \in Nat /\ Asked \in Nat
         /\ Cardinality(DOMAIN in_flight) \in Nat /\ Cardinality(Listed) \in Nat
         /\ IsFiniteSet(DOMAIN in_flight) /\ IsFiniteSet(Listed) /\ Listed \subseteq Steps
         /\ plan.need \in [Steps -> Nat] /\ (Capacity # Unbounded => Capacity \in Nat)
<1>1. plan.need \in [Steps -> Nat]
  BY ExecutorAssumption DEF Typed, PlansTyped, ExecPlanOf
<1>2. Listed \subseteq Steps
  BY DEF Typed, RunTyped, Runs, Listed, ToSet
<1>3. IsFiniteSet(Listed) /\ IsFiniteSet(DOMAIN in_flight)
  BY <1>2, SchedulerAssumption, FS_Subset DEF Typed, PoolTyped
<1>4. Asked \in Nat
  BY <1>1, <1>2, <1>3, TotalUnfolds DEF Asked
<1>5. granted_sum(active) \in Nat
  BY GrantedFacts DEF Typed, ActiveTyped, Allocations
<1>. QED  BY <1>1, <1>2, <1>3, <1>4, <1>5, FS_CardinalityType, ResourcesAssumption

LEMMA InitLimits == Init => LimitsOK
<1>. SUFFICES ASSUME Init PROVE LimitsOK
  OBVIOUS
<1>1. Listed = {} /\ DOMAIN in_flight = {} /\ active = {} /\ tenants = NoTenants
  BY DEF Init, NoRun, Listed, ToSet
<1>2. Cardinality({}) = 0
  BY FS_EmptySet
<1>3. granted_sum({}) = 0
  BY GrantedFacts, FS_EmptySet
<1>4. Asked = 0
  BY <1>1, TotalUnfolds, FS_EmptySet DEF Asked
<1>5. priorities \in [Steps -> Priorities] /\ fair_cursor \in Nat
  BY SchedulerAssumption DEF Init, Blank
<1>. QED  BY <1>1, <1>2, <1>3, <1>4, <1>5, SchedulerAssumption, ExecutorAssumption, ResourcesAssumption
          DEF LimitsOK, InReach

(* What adds nothing to the pool and the batch, and takes nothing from the *)
(* manager, keeps the limits.                                              *)
LEMMA KeepsLimits ==
  ASSUME Typed, PoolOK, LimitsOK,
         priorities' \in [Steps -> Priorities] /\ fair_cursor' \in Nat,
         active' \subseteq active, Alone' => Alone,
         tenants' \in {tenants, NoTenants},
         DOMAIN in_flight' \subseteq DOMAIN in_flight, Listed' \subseteq Listed,
         Listed' = {} \/ UNCHANGED plan
  PROVE  LimitsOK'
<1>. USE LimitsTyped
<1>1. granted_sum(active') <= granted_sum(active) /\ granted_sum(active') \in Nat
  <2>1. IsFiniteSet(active') /\ active' \in SUBSET Allocations
    BY FS_Subset DEF Typed, ActiveTyped, Allocations
  <2>. QED  BY <2>1, GrantedFacts DEF Typed, ActiveTyped, Allocations
<1>2. Asked' <= Asked /\ Asked' \in Nat
  <2>1. CASE Listed' = {}
    <3>1. Total(plan'.need, {}) = 0
      BY TotalUnfolds, FS_EmptySet
    <3>2. Asked' = 0
      BY <2>1, <3>1 DEF Asked
    <3>. QED  BY <3>2
  <2>2. CASE UNCHANGED plan
    <3>1. IsFiniteSet(Listed') /\ \A x \in Listed : plan.need[x] \in Nat
      BY FS_Subset
    <3>2. /\ Total(plan.need, Listed') <= Total(plan.need, Listed)
          /\ Total(plan.need, Listed') \in Nat
      BY <3>1, TotalOfPart, TotalUnfolds
    <3>3. Asked' = Total(plan.need, Listed')
      BY <2>2 DEF Asked
    <3>. QED  BY <3>2, <3>3 DEF Asked
  <2>. QED  BY <2>1, <2>2
<1>3. Cardinality(DOMAIN in_flight') + Cardinality(Listed') <= MaxParallel
  <2>1. /\ Cardinality(DOMAIN in_flight') <= Cardinality(DOMAIN in_flight)
        /\ Cardinality(Listed') <= Cardinality(Listed)
        /\ IsFiniteSet(DOMAIN in_flight') /\ IsFiniteSet(Listed')
    BY FS_Subset
  <2>2. Cardinality(DOMAIN in_flight') \in Nat /\ Cardinality(Listed') \in Nat
    BY <2>1, FS_CardinalityType
  <2>. QED  BY <2>1, <2>2, ExecutorAssumption DEF LimitsOK
<1>4. Alone' => tenants' = NoTenants
  BY DEF LimitsOK
<1>5. Alone' => InReach'
  <2>. SUFFICES ASSUME Alone, Capacity # Unbounded PROVE granted_sum(active') + Asked' <= Capacity
    BY DEF InReach
  <2>1. granted_sum(active) + Asked <= Capacity
    BY DEF LimitsOK, InReach
  <2>. QED  BY <1>1, <1>2, <2>1
<1>. QED  BY <1>3, <1>4, <1>5 DEF LimitsOK

LEMMA BetweenLimits ==
  ASSUME Typed, PoolOK, LimitsOK, Between
  PROVE  LimitsOK'
<1>1. UNCHANGED <<DOMAIN in_flight, Listed, plan, priorities, fair_cursor>>
  BY BetweenCalm DEF Calm, inner, Listed
<1>2. spent \in [Spendable -> Nat] /\ tenants \in [asking : Nat, holding : SUBSET Nat]
  BY DEF Typed, FieldsTyped, ActiveTyped
<1>3. CASE ~Takes
  <2>1. UNCHANGED <<active, tenants>> /\ (Alone' => Alone)
    BY <1>2, <1>3 DEF Between, Top, TopPaused, Unpaused, Onward, NoInterval, NoTopUp, Elsewhere, Drain,
             Interval, EmitDue, Control, Pause, Unpause, Stop, checkpoint_now, Around, Retry, Spend,
             Alone, Spendable
  <2>. QED  BY <1>1, <2>1, KeepsLimits DEF LimitsOK
<1>4. ASSUME NEW need, TenantChecks(need) PROVE LimitsOK'
  <2>1. UNCHANGED active /\ ~Alone'
    BY <1>2, <1>4 DEF TenantChecks, Spend, Alone, Spendable
  <2>. QED  BY <1>1, <2>1 DEF LimitsOK
<1>5. ASSUME TenantPushes \/ \E id \in tenants.holding : TenantGives(id) PROVE LimitsOK'
  <2>1. ~Alone
    BY <1>5 DEF LimitsOK, NoTenants, TenantPushes
  <2>2. ~Alone'
    BY <1>5, <2>1 DEF TenantPushes, TenantGives, Alone
  <2>. QED  BY <1>1, <2>2 DEF LimitsOK
<1>. QED  BY <1>3, <1>4, <1>5 DEF Takes

(***************************************************************************)
(* The batches of the scheduler, as both sides know them.                  *)
(***************************************************************************)
LEMMA SameSizes == \A S : Sched!Cardinality(S) = Cardinality(S)
BY DEF Sched!Cardinality, Cardinality

LEMMA SameSums ==
  /\ \A S : Sched!Needed(S) = Needed(S)
  /\ \A w, S : Sched!Total(w, S) = Total(w, S)
<1>1. \A S : Sched!Needed(S) = Needed(S)
  BY DEF Sched!Needed, Needed, Sched!MapThenSumSet, MapThenSumSet, Sched!MapThenFoldSet,
         MapThenFoldSet
<1>2. \A w, S : Sched!Total(w, S) = Total(w, S)
  BY DEF Sched!Total, Total, Sched!Recurs, Recurs, Sched!Picked, Picked
<1>. QED  BY <1>1, <1>2

LEMMA SameKeys == \A s : Sched!SortKey(s) = SortKey(s)
<1>1. \A S : Sched!Max(S) = Max(S)
  BY DEF Sched!Max, Max
<1>. QED  BY <1>1, SameSizes DEF Sched!SortKey, SortKey

LEMMA SameBatches ==
  ASSUME NEW picked, NEW max, NEW free, IsBatch(picked, max, free)
  PROVE  Sched!IsBatch(picked, max, free)
<1>1. \A s, t : Sched!Precedes(s, t) <=> Precedes(s, t)
  BY SameKeys DEF Sched!Precedes, Precedes
<1>2. \A s : {t \in picked : Sched!Precedes(t, s)} = {t \in picked : Precedes(t, s)}
  BY <1>1
<1>3. \A s, q : Sched!fits(s, q, free) <=> fits(s, q, free)
  BY SameSums DEF Sched!fits, fits
<1>. QED  BY <1>2, <1>3, SameSizes DEF Sched!IsBatch, IsBatch

LEMMA BatchWithin ==
  ASSUME Sched!Sortable, NEW max \in Nat, NEW free \in Nat,
         NEW picked \in SUBSET ready, IsBatch(picked, max, free)
  PROVE  /\ Cardinality(picked) <= max /\ Needed(picked) <= free
         /\ Needed(picked) \in Nat /\ Needed(picked) = Total(plan.need, picked)
<1>0. picked \in SUBSET Steps /\ plan.need \in [Steps -> Nat]
  BY DEF Sched!Sortable
<1>1. Sched!IsBatch(picked, max, free)
  BY SameBatches
<1>2. Sched!Cardinality(picked) <= max /\ Sched!Needed(picked) <= free
  BY <1>1, Sched!BatchLimits, Assumed
<1>3. Sched!Needed(picked) \in Nat
  BY <1>0, Sched!NeededFacts, Assumed
<1>4. Sched!IsFiniteSet(picked)
  <2>1. IsFiniteSet(picked)
    BY <1>0, SchedulerAssumption, FS_Subset
  <2>. QED  BY <2>1 DEF Sched!IsFiniteSet, IsFiniteSet
<1>5. Sched!Needed(picked) = Sched!Total(plan.need, picked)
  BY <1>0, <1>4, Sched!NeededIsTotal, Assumed
<1>. QED  BY <1>2, <1>3, <1>5, SameSizes, SameSums

LEMMA TopUpLimits ==
  ASSUME Typed, PoolOK, LimitsOK, TopUp
  PROVE  LimitsOK'
<1>. USE LimitsTyped
<1>0. run \in Runs /\ plan.trials \in Nat \ {0} /\ run.batch = <<>> /\ Listed = {}
  <2>1. run.pc = "topup"
    BY DEF TopUp, At
  <2>2. run \in Runs /\ run.batch = <<>>
    BY <2>1 DEF Typed, RunTyped, PoolOK
  <2>3. plan.trials \in Nat \ {0}
    BY ExecutorAssumption DEF Typed, PlansTyped, ExecPlanOf
  <2>. QED  BY <2>2, <2>3 DEF Listed, ToSet
<1>1. Sched!Sortable
  BY ExecutorAssumption DEF Sched!Sortable, LimitsOK, Typed, PlansTyped, SetsTyped, ExecPlanOf
<1>2. PICK picked \in SUBSET ready :
        /\ IsBatch(picked, Slots, available) /\ running' = running \cup picked
        /\ fair_cursor' = IF policy = "Fair" THEN (fair_cursor + Slots) % plan.trials
                          ELSE fair_cursor
        /\ UNCHANGED <<plan, priorities>>
  BY DEF TopUp, next_steps
<1>3. PICK batch \in InOrder(running' \ running, Precedes) :
        run' = [run EXCEPT !.pc = IF batch = <<>> THEN "wait" ELSE "admit", !.batch = batch]
  BY DEF TopUp
<1>4. Listed' = running' \ running /\ running' \ running \subseteq picked
  <2>1. running' \ running \in SUBSET Steps
    BY <1>2 DEF Typed, SetsTyped
  <2>2. SetsTyped
    BY DEF Typed
  <2>3. ToSet(batch) = running' \ running
    BY <1>3, <2>1, <2>2, BatchListed
  <2>4. run'.batch = batch
    BY <1>0, <1>3 DEF Runs
  <2>. QED  BY <1>2, <2>3, <2>4 DEF Listed
<1>5. Slots \in Nat /\ Slots = MaxParallel - Cardinality(DOMAIN in_flight) /\ fair_cursor' \in Nat
  <2>1. Slots \in Nat
    BY ExecutorAssumption DEF TopUp, Slots
  <2>. QED  BY <2>1, <1>0, <1>2 DEF Slots, LimitsOK
<1>6. available \in Nat
  BY ResourcesAssumption DEF available
<1>7. picked \subseteq Steps /\ IsFiniteSet(picked)
  BY SchedulerAssumption, FS_Subset DEF Typed, SetsTyped
<1>8. /\ Cardinality(picked) <= Slots /\ Needed(picked) <= available
      /\ Cardinality(picked) \in Nat /\ Needed(picked) \in Nat
      /\ Needed(picked) = Total(plan.need, picked)
  BY <1>1, <1>2, <1>5, <1>6, <1>7, BatchWithin, FS_CardinalityType
<1>9. UNCHANGED <<active, tenants, spent, in_flight>>
  BY DEF TopUp, Elsewhere, pool
<1>10. /\ Cardinality(Listed') <= Cardinality(picked) /\ Cardinality(Listed') \in Nat
       /\ IsFiniteSet(Listed')
  BY <1>4, <1>7, FS_Subset, FS_CardinalityType
<1>11. Asked' <= Needed(picked) /\ Asked' \in Nat
  <2>1. /\ Total(plan.need, Listed') <= Total(plan.need, picked)
        /\ Total(plan.need, Listed') \in Nat
    BY <1>4, <1>7, <1>10, TotalOfPart, TotalUnfolds
  <2>. QED  BY <1>2, <1>8, <2>1 DEF Asked
<1>12. Alone' => InReach'
  <2>. SUFFICES ASSUME Alone, Capacity # Unbounded PROVE granted_sum(active) + Asked' <= Capacity
    BY <1>9 DEF InReach, Alone
  <2>1. granted_sum(active) <= Capacity
    BY DEF LimitsOK, InReach
  <2>2. available = Capacity - granted_sum(active)
    BY <2>1 DEF available
  <2>. QED  BY <1>8, <1>11, <2>1, <2>2
<1>13. Cardinality(DOMAIN in_flight') + Cardinality(Listed') <= MaxParallel
  BY <1>5, <1>8, <1>9, <1>10, ExecutorAssumption
<1>. QED  BY <1>2, <1>5, <1>9, <1>12, <1>13 DEF LimitsOK, Alone

LEMMA BeginsLimits ==
  ASSUME Typed, PoolOK, LimitsOK, Begins
  PROVE  LimitsOK'
<1>1. /\ run.pc = "idle" /\ run'.batch = <<>>
      /\ PoolOK'
  BY BeginsPool DEF PoolOK
<1>2. Listed' = {}
  BY <1>1 DEF Listed, ToSet
<1>3. /\ UNCHANGED <<pool, active, tenants>> /\ priorities' = [s \in Steps |-> Normal]
      /\ fair_cursor' = 0 /\ spent'["takes"] = spent["takes"]
  BY DEF Begins, Execute, Resume, initialise, Spend, Typed, FieldsTyped, Spendable
<1>. QED  BY <1>2, <1>3, KeepsLimits, SchedulerAssumption DEF pool, Alone

LEMMA EndingLimits ==
  ASSUME Typed, PoolOK, LimitsOK, Ending
  PROVE  LimitsOK'
<1>1. Listed' = {} /\ DOMAIN in_flight' = {}
  BY EndingStops DEF NoRun, Listed, ToSet
<1>2. /\ active' \subseteq active /\ tenants' \in {tenants, NoTenants}
      /\ spent'["takes"] = spent["takes"]
      /\ \/ UNCHANGED <<priorities, fair_cursor>>
         \/ priorities' = [s \in Steps |-> Normal] /\ fair_cursor' = 0
  <2>1. CASE TopCancelled \/ PausedCancelled \/ Finish
    BY <2>1 DEF TopCancelled, PausedCancelled, finalise_cancelled, Finish, inner
  <2>2. CASE Crash
    BY <2>2 DEF Crash, new, Spend, Typed, FieldsTyped, Spendable
  <2>3. ASSUME NEW s \in Steps, SettleHalting(s) \/ SettleError(s)
        PROVE  /\ active' \subseteq active /\ UNCHANGED <<tenants, spent, priorities, fair_cursor>>
    BY <2>3 DEF SettleHalting, SettleError, LastAttemptFailed, Finished, release, mark_failed
  <2>. QED  BY <2>1, <2>2, <2>3 DEF Ending
<1>3. priorities' \in [Steps -> Priorities] /\ fair_cursor' \in Nat
  BY <1>2, SchedulerAssumption DEF LimitsOK
<1>. QED  BY <1>1, <1>2, <1>3, KeepsLimits DEF Alone

LEMMA ReplaysLimits ==
  ASSUME Typed, PoolOK, LimitsOK, NEW s \in Steps, Replays(s)
  PROVE  LimitsOK'
<1>1. /\ UNCHANGED <<active, pool, tenants, spent, priorities, fair_cursor, plan>>
      /\ run'.batch = run.batch
  BY DEF Replays, SeedCompleted, SeedSkipped, SeedFailed, Seeding, mark_completed, mark_skipped,
         mark_failed, mark_settled, Typed, RunTyped, Runs
<1>. QED  BY <1>1, KeepsLimits DEF pool, Listed, Alone, LimitsOK

LEMMA SettlesLimits ==
  ASSUME Typed, PoolOK, LimitsOK, NEW s \in Steps, Settles(s)
  PROVE  LimitsOK'
<1>1. run'.batch = run.batch /\ DOMAIN in_flight' \subseteq DOMAIN in_flight
  BY SettlesRun DEF Others
<1>2. /\ release(in_flight_allocations[s])
      /\ UNCHANGED <<tenants, spent, priorities, fair_cursor, plan>>
  BY DEF Settles, SettleCompleted, SettleSkipped, SettleFailed, LastAttemptFailed, Finished,
         mark_completed, mark_skipped, mark_failed, mark_settled
<1>. QED  BY <1>1, <1>2, KeepsLimits DEF release, Listed, Alone, LimitsOK

(* The first of the batch is part of what is asked for.                    *)
LEMMA HeadOfBatch ==
  ASSUME Typed, PoolOK, At("admit"), Admitted(Tail(run.batch))
  PROVE  /\ Head(run.batch) \in Listed /\ Listed' = Listed \ {Head(run.batch)}
         /\ Head(run.batch) \notin DOMAIN in_flight /\ plan.need[Head(run.batch)] \in Nat
         /\ Asked = plan.need[Head(run.batch)] + Total(plan.need, Listed')
         /\ Total(plan.need, Listed') \in Nat
         /\ Cardinality(Listed') = Cardinality(Listed) - 1
<1>. DEFINE s == Head(run.batch)
<1>1. run.batch \in Seq(Steps) /\ run.batch # <<>> /\ run \in Runs /\ run.pc = "admit"
  BY DEF PoolOK, Admitting, At, Typed, RunTyped, Runs
<1>2. s \in Listed /\ s \in Steps /\ ToSet(Tail(run.batch)) = Listed \ {s}
  BY <1>1, TailLists DEF PoolOK, Listed
<1>3. run'.batch = Tail(run.batch)
  BY <1>1 DEF Admitted, Runs
<1>4. s \notin DOMAIN in_flight
  BY <1>1, <1>2 DEF PoolOK
<1>5. Listed' = Listed \ {s}
  BY <1>2, <1>3 DEF Listed
<1>6. /\ IsFiniteSet(Listed) /\ \A x \in Listed : plan.need[x] \in Nat
      /\ IsFiniteSet(Listed \ {s})
  BY LimitsTyped, FS_Subset
<1>. HIDE DEF s
<1>7. Total(plan.need, Listed) = plan.need[s] + Total(plan.need, Listed \ {s})
  BY <1>2, <1>6, TotalWithout
<1>8. Total(plan.need, Listed \ {s}) \in Nat
  BY <1>6, TotalUnfolds
<1>9. Cardinality(Listed \ {s}) = Cardinality(Listed) - 1
  BY <1>2, <1>6, FS_RemoveElement
<1>. QED  BY <1>2, <1>4, <1>5, <1>6, <1>7, <1>8, <1>9 DEF Asked, s

LEMMA RefusedLimits ==
  ASSUME Typed, PoolOK, LimitsOK, AllocateRefused
  PROVE  LimitsOK'
<1>1. Listed' \subseteq Listed
  BY HeadOfBatch DEF AllocateRefused
<1>2. UNCHANGED <<active, pool, tenants, spent, priorities, fair_cursor, plan>>
  BY DEF AllocateRefused, mark_skipped, mark_settled, Elsewhere
<1>. QED  BY <1>1, <1>2, KeepsLimits DEF pool, Alone, LimitsOK

LEMMA AdmitLimits ==
  ASSUME Typed, PoolOK, LimitsOK, Admit
  PROVE  LimitsOK'
<1>. USE LimitsTyped
<1>. DEFINE s == Head(run.batch)
            need == plan.need[s]
            a == [id |-> FreshAllocationId, granted |-> need]
<1>1. At("admit") /\ Admitted(Tail(run.batch)) /\ active' = active \cup {a}
      /\ in_flight' = Put(in_flight, s, 1)
      /\ UNCHANGED <<plan, priorities, fair_cursor, tenants, spent>>
  BY DEF Admit, push, Elsewhere, inner
<1>2. /\ s \in Listed /\ Listed' = Listed \ {s} /\ s \notin DOMAIN in_flight /\ need \in Nat
      /\ Asked = need + Total(plan.need, Listed') /\ Total(plan.need, Listed') \in Nat
      /\ Cardinality(Listed') = Cardinality(Listed) - 1
  BY <1>1, HeadOfBatch
<1>3. a \in Allocations /\ a \notin active /\ a.granted = need
  <2>1. FreshAllocationId \in Nat /\ \A b \in active : b.id # FreshAllocationId
    BY FreshAllocationIdTyped DEF Typed
  <2>. QED  BY <1>2, <2>1 DEF Allocations
<1>. HIDE DEF s, need, a
<1>4. DOMAIN in_flight' = DOMAIN in_flight \cup {s}
  BY <1>1 DEF Put
<1>5. Cardinality(DOMAIN in_flight') = Cardinality(DOMAIN in_flight) + 1
  BY <1>2, <1>4, FS_AddElement
<1>6. granted_sum(active') = need + granted_sum(active)
  <2>1. active \in SUBSET Allocations /\ IsFiniteSet(active)
    BY DEF Typed, ActiveTyped, Allocations
  <2>2. active' \in SUBSET Allocations /\ IsFiniteSet(active')
    BY <1>1, <1>3, <2>1, FS_AddElement
  <2>3. a \in active' /\ active' \ {a} = active
    BY <1>1, <1>3
  <2>4. granted_sum(active') = a.granted + granted_sum(active' \ {a})
    BY <2>2, <2>3, GrantedFacts
  <2>. QED  BY <1>3, <2>3, <2>4
<1>7. Asked' = Total(plan.need, Listed')
  BY <1>1 DEF Asked
<1>8. Alone' => Alone
  BY <1>1 DEF Alone
<1>9. Cardinality(DOMAIN in_flight') + Cardinality(Listed') <= MaxParallel
  BY <1>2, <1>5, ExecutorAssumption DEF LimitsOK
<1>10. Alone => tenants' = NoTenants
  BY <1>1 DEF LimitsOK
<1>11. Alone => InReach'
  <2>. SUFFICES ASSUME Alone, Capacity # Unbounded
                PROVE  granted_sum(active') + Asked' <= Capacity
    BY DEF InReach
  <2>1. granted_sum(active) + Asked <= Capacity
    BY DEF LimitsOK, InReach
  <2>. QED  BY <1>2, <1>6, <1>7, <2>1
<1>. QED  BY <1>1, <1>8, <1>9, <1>10, <1>11 DEF LimitsOK

LEMMA NextLimits ==
  ASSUME Typed, PoolOK, LimitsOK, [Next]_vars
  PROVE  LimitsOK'
<1>1. CASE UNCHANGED vars
  BY <1>1, KeepsLimits DEF vars, inner, sets, pool, Listed, Alone, LimitsOK
<1>. QED  BY <1>1, NextCases, BeginsLimits, TopUpLimits, BetweenLimits, EndingLimits, ReplaysLimits,
             SettlesLimits, RefusedLimits, AdmitLimits DEF Admits

(* Who has used the manager once has used it ever after. *)
LEMMA AloneStays ==
  ASSUME Typed, [Next]_vars, Alone'
  PROVE  Alone
<1>1. spent \in [Spendable -> Nat] /\ {"takes", "runs", "pauses", "stops", "requests", "crashes"} \subseteq Spendable
  BY DEF Typed, FieldsTyped, Spendable
<1>2. UNCHANGED spent \/ \E what \in Spendable : Spend(what)
  <2>1. CASE UNCHANGED vars
    BY <2>1 DEF vars
  <2>2. ASSUME NEW s \in Steps, Replays(s) \/ Settles(s) PROVE UNCHANGED spent
    BY <2>2 DEF Replays, SeedCompleted, SeedSkipped, SeedFailed, Seeding, Settles, SettleCompleted,
                SettleSkipped, SettleFailed, LastAttemptFailed
  <2>3. CASE Begins \/ TopUp \/ Admits
    BY <1>1, <2>3 DEF Begins, Execute, Resume, TopUp, Admits, AllocateRefused, Admit, Elsewhere
  <2>4. CASE Between /\ ~Takes
    BY <1>1, <2>4 DEF Between, Top, TopPaused, Unpaused, Onward, NoInterval, NoTopUp, Elsewhere, Drain,
             Interval, EmitDue, Control, Pause, Unpause, Stop, checkpoint_now, Around, Retry
  <2>5. CASE Takes
    BY <1>1, <2>5 DEF Takes, TenantChecks, TenantPushes, TenantGives
  <2>6. CASE Ending
    BY <1>1, <2>6 DEF Ending, TopCancelled, PausedCancelled, finalise_cancelled, Finish, Crash,
             SettleHalting, SettleError, LastAttemptFailed
  <2>. QED  BY <2>1, <2>2, <2>3, <2>4, <2>5, <2>6, NextCases
<1>. QED  BY <1>1, <1>2 DEF Spend, Alone

(* With a manager of its own the executor is never refused an allocation:  *)
(* what a batch asks for was free when it was chosen, and still is.        *)
LEMMA AloneIsServed ==
  ASSUME Typed, PoolOK, LimitsOK, Alone
  PROVE  ~AllocateRefused
<1>. SUFFICES ASSUME AllocateRefused PROVE FALSE
  OBVIOUS
<1>. DEFINE need == plan.need[Head(run.batch)]
<1>1. need \in Nat /\ Asked = need + Total(plan.need, Listed') /\ Total(plan.need, Listed') \in Nat
  BY HeadOfBatch DEF AllocateRefused
<1>2. Capacity # Unbounded /\ ~(granted_sum(active) + need <= Capacity)
  BY DEF AllocateRefused, can_allocate
<1>3. granted_sum(active) + Asked <= Capacity
  BY <1>2 DEF LimitsOK, InReach
<1>. HIDE DEF need
<1>. QED  BY <1>1, <1>2, <1>3, LimitsTyped

LEMMA LimitsOKIsWithin == Typed /\ PoolOK /\ LimitsOK => WithinLimits
<1>. SUFFICES ASSUME Typed, PoolOK, LimitsOK PROVE WithinLimits
  OBVIOUS
<1>1. Cardinality(DOMAIN in_flight) <= MaxParallel
  BY LimitsTyped, ExecutorAssumption DEF LimitsOK
<1>2. Alone /\ Capacity # Unbounded => granted_sum(active) <= Capacity
  BY LimitsTyped DEF LimitsOK, InReach
<1>. QED  BY <1>1, <1>2 DEF WithinLimits

LEMMA AlwaysLimits == Spec => []LimitsOK
<1>1. Init => LimitsOK
  BY InitLimits
<1>2. (Typed /\ PoolOK) /\ LimitsOK /\ [Next]_vars => LimitsOK'
  BY NextLimits
<1>. QED  BY <1>1, <1>2, AlwaysTyped, PTL DEF Spec

(* The pool never holds more than its slots, and what its steps hold, with *)
(* what those still to be admitted ask for, fits into the capacity as long *)
(* as nobody else takes from the manager.                                  *)
THEOREM LimitsKept == Spec => []WithinLimits
BY LimitsOKIsWithin, AlwaysLimits, AlwaysTyped, PTL

------------------------------------------------------------------------------
(***************************************************************************)
(* Books.  A step waits, runs or is settled, and what is booked is settled *)
(* or left to replay, so no step is booked twice: also when a step was     *)
(* refused its allocation, which the scheduler skips and nobody books.     *)
(***************************************************************************)
Settled == completed \cup failed \cup skipped
Seeds   == run.seed.completed \cup run.seed.failed \cup run.seed.skipped
InBooks == books.completed \cup books.failed \cup books.skipped

StagesApart ==
  /\ (pending \cup ready) \cap (running \cup Settled) = {}
  /\ running \cap Settled = {}
  /\ \A s \in pending \cap ready : plan.deps[s] = {}

Apart(at) == at.skipped \cap (at.completed \cup at.failed) = {}

BooksSettled ==
  /\ StagesApart
  /\ run.pc # "idle" => InBooks \subseteq Settled \cup Seeds
  /\ Apart(books)
  /\ \A c \in stored : Apart(c.state)

(* What a failure cascades to waits for something.                         *)
LEMMA CascadeWaits ==
  ASSUME SetsTyped, NEW s
  PROVE  /\ Cascade(s) \subseteq (pending \cup ready) \ {s}
         /\ \A c \in Cascade(s) : plan.deps[c] # {}
<1>. DEFINE W == (pending \cup ready) \ {s}
            X == {c \in W : plan.deps[c] # {}}
<1>1. X \in SUBSET W /\ Dependents(plan.deps, {s} \cup X) \cap W \subseteq X
  BY DEF Dependents
<1>2. Cascade(s) = {c \in W : \A Y \in SUBSET W :
                                 Dependents(plan.deps, {s} \cup Y) \cap W \subseteq Y => c \in Y}
  BY DEF Cascade, DownstreamIn
<1>. HIDE DEF X
<1>3. Cascade(s) \subseteq W /\ Cascade(s) \subseteq X
  BY <1>1, <1>2
<1>. QED  BY <1>3 DEF X

LEMMA MarkStages ==
  ASSUME SetsTyped, StagesApart, NEW s \in Steps,
         mark_completed(s) \/ mark_skipped(s) \/ mark_failed(s)
  PROVE  StagesApart' /\ Settled \cup {s} \subseteq Settled' /\ UNCHANGED plan
<1>1. CASE mark_completed(s)
  <2>. DEFINE P == Promoted(s, completed \cup {s} \cup skipped)
  <2>1. /\ P \subseteq pending \ {s}
        /\ running' = running \ {s} /\ pending' = pending \ ({s} \cup P)
        /\ ready' = (ready \ {s}) \cup P /\ completed' = completed \cup {s}
        /\ UNCHANGED <<plan, failed, skipped>>
    BY <1>1 DEF mark_completed, mark_settled, Promoted
  <2>. HIDE DEF P
  <2>. QED  BY <2>1 DEF StagesApart, Settled
<1>2. CASE mark_skipped(s)
  <2>. DEFINE P == Promoted(s, completed \cup (skipped \cup {s}))
  <2>1. /\ P \subseteq pending \ {s}
        /\ running' = running \ {s} /\ pending' = pending \ ({s} \cup P)
        /\ ready' = (ready \ {s}) \cup P /\ skipped' = skipped \cup {s}
        /\ UNCHANGED <<plan, failed, completed>>
    BY <1>2 DEF mark_skipped, mark_settled, Promoted
  <2>. HIDE DEF P
  <2>. QED  BY <2>1 DEF StagesApart, Settled
<1>3. CASE mark_failed(s)
  <2>. DEFINE K == Cascade(s)
  <2>1. /\ K \subseteq (pending \cup ready) \ {s} /\ \A c \in K : plan.deps[c] # {}
    BY CascadeWaits
  <2>2. /\ running' = running \ {s} /\ pending' = pending \ ({s} \cup K)
        /\ ready' = ready \ ({s} \cup (K \ pending)) /\ failed' = failed \cup {s}
        /\ skipped' = skipped \cup K /\ UNCHANGED <<plan, completed>>
    BY <1>3 DEF mark_failed
  <2>. HIDE DEF K
  <2>3. K \cap pending \cap ready = {}
    BY <2>1 DEF StagesApart
  <2>. QED  BY <2>1, <2>2, <2>3 DEF StagesApart, Settled
<1>. QED  BY <1>1, <1>2, <1>3

(* A step that runs is not booked, nor is what its failure cascades to.    *)
LEMMA RunningUnbooked ==
  ASSUME Typed, PoolOK, BooksSettled, run.pc # "idle", NEW s \in running
  PROVE  s \notin InBooks /\ s \notin Cascade(s) /\ Cascade(s) \cap InBooks = {}
<1>1. Seeds = {}
  BY DEF PoolOK, Seeds, Nothing
<1>2. InBooks \subseteq Settled
  BY <1>1 DEF BooksSettled
<1>3. Cascade(s) \subseteq (pending \cup ready) \ {s}
  BY CascadeWaits DEF Typed
<1>. QED  BY <1>2, <1>3 DEF BooksSettled, StagesApart

LEMMA BeginsBooks ==
  ASSUME Typed, BooksSettled, Begins
  PROVE  BooksSettled'
<1>1. /\ run'.seed = books' /\ stored' = stored
      /\ books' = Nothing \/ \E c \in stored : books' = c.state
      /\ \E p : p \in Plans /\ initialise(p)
  <2>1. ASSUME NEW p \in Plans, Execute(p)
        PROVE  run'.seed = books' /\ stored' = stored /\ books' = Nothing /\ initialise(p)
    <3>1. Write([NoRun EXCEPT !.pc = "top", !.exec = running_exec'], <<Event("ExecutionStarted", None, 0)>>)
      BY <2>1 DEF Execute
    <3>2. run'.seed = Nothing
      BY <3>1 DEF Write, NoRun
    <3>. QED  BY <2>1, <3>2 DEF Execute
  <2>2. ASSUME NEW c \in stored, Resume(c)
        PROVE  /\ run'.seed = books' /\ stored' = stored /\ books' = c.state
               /\ c.plan_fp \in Plans /\ initialise(c.plan_fp)
    <3>1. Write([NoRun EXCEPT !.pc = "top", !.exec = c.exec, !.seed = c.state, !.base = c.state],
                <<Event("ExecutionResumed", c.id, 0)>>)
      BY <2>2 DEF Resume
    <3>2. run'.seed = c.state
      BY <3>1 DEF Write, NoRun
    <3>. QED  BY <2>2, <3>2 DEF Resume, Restored
  <2>. QED  BY <2>1, <2>2 DEF Begins
<1>2. PICK p : p \in Plans /\ initialise(p)
  BY <1>1
<1>3. StagesApart'
  BY <1>2 DEF initialise, StagesApart, Settled
<1>4. InBooks' = Seeds'
  BY <1>1 DEF InBooks, Seeds
<1>5. Apart(books')
  BY <1>1 DEF BooksSettled, Apart, Nothing
<1>. QED  BY <1>1, <1>3, <1>4, <1>5 DEF BooksSettled

(* What moves no step and books nothing.                                   *)
LEMMA QuietBooks ==
  ASSUME BooksSettled, UNCHANGED <<inner, run.seed, books>>,
         run'.pc # "idle" => run.pc # "idle",
         stored' = stored \/ \E id, exec : record_checkpoint(id, exec)
  PROVE  BooksSettled'
<1>1. UNCHANGED <<pending, ready, running, completed, failed, skipped, plan>>
  BY DEF inner, sets
<1>2. StagesApart' /\ Settled' = Settled /\ Seeds' = Seeds /\ InBooks' = InBooks /\ Apart(books')
  BY <1>1 DEF BooksSettled, StagesApart, Settled, Seeds, InBooks
<1>3. \A c \in stored' : Apart(c.state)
  BY DEF BooksSettled, record_checkpoint, Snapshot
<1>. QED  BY <1>2, <1>3 DEF BooksSettled

LEMMA BetweenBooks ==
  ASSUME Typed, BooksSettled, Between
  PROVE  BooksSettled'
<1>1. UNCHANGED <<inner, run.seed, books>> /\ (run.pc = "idle" <=> run'.pc = "idle")
  BY BetweenCalm DEF Calm
<1>2. stored' = stored \/ \E id, exec : record_checkpoint(id, exec)
  BY DEF Between, Top, TopPaused, Unpaused, Onward, NoInterval, NoTopUp, Elsewhere, kept, Drain,
         Interval, EmitDue, emit_checkpoint, Control, Pause, Unpause, Stop, checkpoint_now, Takes,
         TenantChecks, TenantPushes, TenantGives, Retry
<1>. QED  BY <1>1, <1>2, QuietBooks

LEMMA TopUpBooks ==
  ASSUME Typed, BooksSettled, TopUp
  PROVE  BooksSettled'
<1>1. PICK picked \in SUBSET ready :
        /\ ready' = ready \ picked /\ pending' = pending \ picked
        /\ running' = running \cup picked
        /\ UNCHANGED <<plan, completed, failed, skipped>>
  BY DEF TopUp, next_steps
<1>2. UNCHANGED <<run.seed, books, stored>> /\ run.pc # "idle"
  BY DEF TopUp, At, fields, Elsewhere, kept, Typed, RunTyped, Runs
<1>3. StagesApart' /\ Settled' = Settled
  BY <1>1 DEF BooksSettled, StagesApart, Settled
<1>4. Seeds' = Seeds /\ InBooks' = InBooks /\ Apart(books')
  BY <1>2 DEF Seeds, InBooks, BooksSettled
<1>. QED  BY <1>2, <1>3, <1>4 DEF BooksSettled

LEMMA AdmitsBooks ==
  ASSUME Typed, PoolOK, BooksSettled, Admits
  PROVE  BooksSettled'
<1>1. run \in Runs /\ At("admit") /\ Admitted(Tail(run.batch)) /\ UNCHANGED <<books, stored>>
  BY DEF Admits, AllocateRefused, Admit, fields, Elsewhere, kept, Typed, RunTyped
<1>2. run'.seed = run.seed /\ run.pc # "idle"
  BY <1>1 DEF Admitted, Runs, At
<1>3. CASE AllocateRefused
  <2>1. Head(run.batch) \in Steps /\ SetsTyped
    BY <1>1, HeadOfBatch, LimitsTyped DEF Typed
  <2>2. mark_skipped(Head(run.batch))
    BY <1>3 DEF AllocateRefused
  <2>3. StagesApart' /\ Settled \subseteq Settled'
    BY <2>1, <2>2, MarkStages DEF BooksSettled
  <2>4. Seeds' = Seeds /\ InBooks' = InBooks /\ Apart(books')
    BY <1>1, <1>2 DEF Seeds, InBooks, BooksSettled
  <2>. QED  BY <1>1, <1>2, <2>3, <2>4 DEF BooksSettled
<1>4. CASE Admit
  BY <1>1, <1>2, <1>4, QuietBooks DEF Admit
<1>. QED  BY <1>3, <1>4 DEF Admits

LEMMA ReplaysBooks ==
  ASSUME Typed, BooksSettled, NEW s \in Steps, Replays(s)
  PROVE  BooksSettled'
<1>1. run \in Runs /\ run.seed \in Settlements /\ SetsTyped
  BY DEF Typed, RunTyped, Runs
<1>2. run.pc # "idle"
  BY DEF Replays, SeedCompleted, SeedSkipped, SeedFailed, Nothing, Typed, RunTyped, NoRun
<1>3. PICK rest : Seeding(rest) /\ Seeds \subseteq rest.completed \cup rest.failed \cup rest.skipped \cup {s}
  BY <1>1 DEF Replays, SeedCompleted, SeedSkipped, SeedFailed, Seeds, Settlements
<1>4. run'.seed = rest /\ UNCHANGED <<books, stored>>
  BY <1>1, <1>3 DEF Seeding, Runs, fields, kept
<1>5. StagesApart' /\ Settled \cup {s} \subseteq Settled'
  BY <1>1, MarkStages DEF Replays, SeedCompleted, SeedSkipped, SeedFailed, BooksSettled
<1>6. InBooks' = InBooks /\ Seeds \subseteq Seeds' \cup {s} /\ Apart(books')
  BY <1>3, <1>4 DEF InBooks, Seeds, BooksSettled
<1>. QED  BY <1>2, <1>4, <1>5, <1>6 DEF BooksSettled

LEMMA SettlesBooks ==
  ASSUME Typed, PoolOK, BooksSettled, NEW s \in Steps, Settles(s)
  PROVE  BooksSettled'
<1>1. /\ run.pc # "idle" /\ run'.seed = run.seed /\ s \in running
      /\ books \in Settlements /\ SetsTyped
  BY SettlesRun DEF PoolOK, Typed, BooksTyped
<1>2. /\ mark_completed(s) \/ mark_skipped(s) \/ mark_failed(s)
      /\ stored' = stored
  BY DEF Settles, SettleCompleted, SettleSkipped, SettleFailed, LastAttemptFailed
<1>3. StagesApart' /\ Settled \cup {s} \subseteq Settled'
  BY <1>1, <1>2, MarkStages DEF BooksSettled
<1>4. s \notin InBooks /\ s \notin Cascade(s) /\ Cascade(s) \cap InBooks = {}
  BY <1>1, RunningUnbooked
<1>5. /\ InBooks' \subseteq InBooks \cup {s} \cup (Settled' \ Settled) /\ Apart(books')
  <2>1. CASE SettleCompleted(s)
    <3>1. books' = [books EXCEPT !.completed = @ \cup {s}]
      BY <2>1 DEF SettleCompleted
    <3>. QED  BY <1>1, <1>4, <3>1 DEF InBooks, BooksSettled, Apart, Settlements
  <2>2. CASE SettleSkipped(s)
    <3>1. books' = [books EXCEPT !.skipped = @ \cup {s}]
      BY <2>2 DEF SettleSkipped
    <3>. QED  BY <1>1, <1>4, <3>1 DEF InBooks, BooksSettled, Apart, Settlements
  <2>3. CASE SettleFailed(s)
    <3>1. /\ books' = [books EXCEPT !.failed = @ \cup {s}, !.skipped = @ \cup Cascade(s)]
          /\ skipped' = skipped \cup Cascade(s)
      BY <2>3 DEF SettleFailed, LastAttemptFailed, mark_failed
    <3>2. Cascade(s) \subseteq Settled' \ Settled
      <4>1. Cascade(s) \subseteq pending \cup ready
        BY <1>1, CascadeWaits
      <4>. QED  BY <3>1, <4>1 DEF Settled, BooksSettled, StagesApart
    <3>. HIDE DEF Cascade
    <3>. QED  BY <1>1, <1>4, <3>1, <3>2 DEF InBooks, BooksSettled, Apart, Settlements
  <2>. QED  BY <2>1, <2>2, <2>3 DEF Settles
<1>6. Seeds' = Seeds
  BY <1>1 DEF Seeds
<1>. QED  BY <1>1, <1>2, <1>3, <1>5, <1>6 DEF BooksSettled

LEMMA EndingBooks ==
  ASSUME Typed, PoolOK, BooksSettled, Ending
  PROVE  BooksSettled'
<1>0. run'.pc = "idle"
  BY EndingStops DEF NoRun
<1>1. CASE TopCancelled \/ PausedCancelled \/ Finish
  <2>1. /\ UNCHANGED <<pending, ready, running, completed, failed, skipped, plan, books, stored>>
    BY <1>1 DEF TopCancelled, PausedCancelled, finalise_cancelled, Finish, inner, sets
  <2>. QED  BY <1>0, <2>1 DEF BooksSettled, StagesApart, Settled
<1>2. CASE Crash
  BY <1>0, <1>2 DEF Crash, new, kept, BooksSettled, StagesApart, Settled, Apart, Nothing
<1>3. ASSUME NEW s \in Steps, SettleHalting(s) PROVE BooksSettled'
  <2>1. /\ s \in running /\ run.pc # "idle" /\ mark_failed(s) /\ stored' = stored /\ SetsTyped
        /\ books' = [books EXCEPT !.failed = @ \cup {s}] /\ books \in Settlements
    BY <1>3 DEF SettleHalting, LastAttemptFailed, Finished, At, PoolOK, Typed, BooksTyped
  <2>2. s \notin InBooks
    BY <2>1, RunningUnbooked
  <2>3. StagesApart'
    BY <2>1, MarkStages DEF BooksSettled
  <2>. QED  BY <1>0, <2>1, <2>2, <2>3 DEF BooksSettled, Apart, InBooks, Settlements
<1>4. ASSUME NEW s \in Steps, SettleError(s) PROVE BooksSettled'
  <2>1. mark_failed(s) /\ UNCHANGED <<stored, books>> /\ SetsTyped
    BY <1>4 DEF SettleError, fields, Typed
  <2>2. StagesApart'
    BY <2>1, MarkStages DEF BooksSettled
  <2>. QED  BY <1>0, <2>1, <2>2 DEF BooksSettled
<1>. QED  BY <1>1, <1>2, <1>3, <1>4 DEF Ending

LEMMA NextBooks ==
  ASSUME Typed, PoolOK, BooksSettled, [Next]_vars
  PROVE  BooksSettled'
<1>1. CASE UNCHANGED vars
  BY <1>1, QuietBooks DEF vars, fields, kept
<1>. QED  BY <1>1, NextCases, BeginsBooks, TopUpBooks, AdmitsBooks, BetweenBooks, EndingBooks,
             ReplaysBooks, SettlesBooks

LEMMA InitBooks == Init => BooksSettled
BY DEF Init, Blank, BooksSettled, StagesApart, Settled, Apart, Nothing, NoRun

LEMMA AlwaysBooks == Spec => []BooksSettled
<1>1. Init => BooksSettled
  BY InitBooks
<1>2. (Typed /\ PoolOK) /\ BooksSettled /\ [Next]_vars => BooksSettled'
  BY NextBooks
<1>. QED  BY <1>1, <1>2, AlwaysTyped, PTL DEF Spec
==============================================================================
