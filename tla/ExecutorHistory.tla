--------------------------- MODULE ExecutorHistory ---------------------------
(***************************************************************************)
(* What a run may say of its past: the scheduler of a run keeps to the     *)
(* protocol of SchedulerProtocol, the books follow it, and every           *)
(* checkpoint holds outcomes a later run can be seeded with.  And what it  *)
(* may say at its end: that it succeeded only when nothing was left to do. *)
(* The journal of a run tells what the books hold, in an order that could  *)
(* have happened, and of each step the attempts the policy allows.         *)
(***************************************************************************)
EXTENDS ExecutorProofs

(***************************************************************************)
(* The operators of the scheduler, as both sides know them.                *)
(***************************************************************************)
LEMMA SameGraphs ==
  /\ \A g, F : Sched!Downstream(g, F) = Downstream(g, F)
  /\ \A s : Sched!Cascade(s) = Cascade(s)
BY DEF Sched!Downstream, Sched!Cascade, Sched!DownstreamIn, Sched!Dependents,
       Downstream, Cascade, DownstreamIn, Dependents

LEMMA SameMarks ==
  ASSUME NEW s
  PROVE  /\ mark_completed(s) => Sched!mark_completed(s)
         /\ mark_skipped(s) => Sched!mark_skipped(s)
         /\ mark_failed(s) => Sched!mark_failed(s)
BY SameGraphs DEF mark_completed, mark_skipped, mark_failed, mark_settled, Promoted, Dependents,
   Sched!mark_completed, Sched!mark_skipped, Sched!mark_failed, Sched!mark_settled, Sched!Promoted,
   Sched!Dependents

(* The scheduler's lemmas about graphs. *)
LEMMA BlocksDownstream ==
  ASSUME NEW g, NEW F, NEW c \in Steps, g[c] \cap (F \cup Downstream(g, F)) # {}
  PROVE  c \in Downstream(g, F)
BY SameGraphs, Sched!DownstreamBlocks, Assumed

LEMMA WithinDownstream ==
  ASSUME NEW g, NEW F, NEW X,
         \A c \in Steps : g[c] \cap (F \cup X) # {} => c \in X
  PROVE  Downstream(g, F) \subseteq X
<1>1. Sched!Downstream(g, F) \subseteq X
  BY Sched!DownstreamWithin, Assumed
<1>. QED  BY <1>1, SameGraphs

LEMMA GrowsDownstream ==
  ASSUME NEW g, NEW F, NEW G, F \subseteq G
  PROVE  Downstream(g, F) \subseteq Downstream(g, G)
<1>1. Sched!Downstream(g, F) \subseteq Sched!Downstream(g, G)
  BY Sched!DownstreamGrows, Assumed
<1>. QED  BY <1>1, SameGraphs

LEMMA CascadeDownstream ==
  ASSUME NEW s
  PROVE  Cascade(s) \subseteq Downstream(plan.deps, {s})
<1>1. Sched!Cascade(s) \subseteq Sched!Downstream(plan.deps, {s})
  BY Sched!CascadeIsDownstream, Assumed
<1>. QED  BY <1>1, SameGraphs

LEMMA NoneDownstream == ASSUME NEW g PROVE Downstream(g, {}) = {}
<1>1. Sched!Downstream(g, {}) = {}
  BY Sched!DownstreamOfNone, Assumed
<1>. QED  BY <1>1, SameGraphs

LEMMA DownstreamSteps == ASSUME NEW g, NEW F PROVE Downstream(g, F) \subseteq Steps
BY DEF Downstream, DownstreamIn

------------------------------------------------------------------------------
(***************************************************************************)
(* The steps of the executor are steps of the protocol, as far as the      *)
(* invariant of the scheduler goes: first the replayed steps.              *)
(***************************************************************************)
Failures == failed \cup run.seed.failed
Skips    == skipped \cup run.seed.skipped
Done     == completed \cup run.seed.completed
Doomed   == Downstream(plan.deps, Failures)

LEMMA CascadedStepsAre ==
  CascadedSteps = Doomed \cap Skips /\ CascadedSteps' = Doomed' \cap Skips'
BY DEF CascadedSteps, Doomed, Failures, Skips

ReplayKeeps == /\ plan' = plan /\ run'.pc = run.pc /\ run'.base = run.base
               /\ UNCHANGED <<books, plan_fp, stored>>
               /\ Failures' = Failures /\ Done' = Done

LEMMA SeedingRun ==
  ASSUME run \in Runs, NEW rest \in Settlements, Seeding(rest)
  PROVE  /\ run'.seed = rest /\ run'.pc = run.pc /\ run'.base = run.base
         /\ UNCHANGED <<books, plan_fp, stored>>
BY DEF Seeding, Runs, fields, kept

LEMMA SeedCompletedSched ==
  ASSUME Typed, NEW s \in Steps, SeedCompleted(s)
  PROVE  ReplayKeeps /\ Skips' = Skips /\ Sched!SeedCompleted(s)
<1>1. run \in Runs /\ run.seed \in Settlements
  BY DEF Typed, RunTyped, Runs
<1>. DEFINE rest == [run.seed EXCEPT !.completed = @ \ {s}]
<1>2. /\ rest \in Settlements /\ rest.failed = run.seed.failed /\ rest.skipped = run.seed.skipped
      /\ rest.completed = run.seed.completed \ {s} /\ s \in run.seed.completed
  BY <1>1 DEF Settlements, SeedCompleted
<1>3. Seeding(rest) /\ mark_completed(s)
  BY DEF SeedCompleted
<1>4. run'.seed = rest
  <2>. HIDE DEF rest
  <2>. QED  BY <1>1, <1>2, <1>3, SeedingRun
<1>. HIDE DEF rest
<1>5. completed' = completed \cup {s} /\ UNCHANGED <<plan, failed, skipped>>
  BY <1>3 DEF mark_completed, mark_settled
<1>6. ReplayKeeps /\ Skips' = Skips
  BY <1>1, <1>2, <1>3, <1>4, <1>5, SeedingRun DEF Failures, Done, Skips, ReplayKeeps
<1>7. CascadedSteps' = CascadedSteps
  BY <1>5, <1>6, CascadedStepsAre DEF Doomed, ReplayKeeps
<1>. QED  BY <1>2, <1>3, <1>4, <1>6, <1>7, SameMarks DEF Sched!SeedCompleted, rest

LEMMA SeedSkippedSched ==
  ASSUME Typed, NEW s \in Steps, SeedSkipped(s)
  PROVE  ReplayKeeps /\ Skips' = Skips /\ Sched!SeedSkipped(s)
<1>1. run \in Runs /\ run.seed \in Settlements
  BY DEF Typed, RunTyped, Runs
<1>. DEFINE rest == [run.seed EXCEPT !.skipped = @ \ {s}]
<1>2. /\ rest \in Settlements /\ rest.failed = run.seed.failed
      /\ rest.completed = run.seed.completed
      /\ rest.skipped = run.seed.skipped \ {s} /\ s \in run.seed.skipped
      /\ run.seed.completed = {}
  BY <1>1 DEF Settlements, SeedSkipped
<1>3. Seeding(rest) /\ mark_skipped(s)
  BY DEF SeedSkipped
<1>4. run'.seed = rest
  <2>. HIDE DEF rest
  <2>. QED  BY <1>1, <1>2, <1>3, SeedingRun
<1>. HIDE DEF rest
<1>5. skipped' = skipped \cup {s} /\ UNCHANGED <<plan, failed, completed>>
  BY <1>3 DEF mark_skipped, mark_settled
<1>6. ReplayKeeps /\ Skips' = Skips
  BY <1>1, <1>2, <1>3, <1>4, <1>5, SeedingRun DEF Failures, Done, Skips, ReplayKeeps
<1>7. CascadedSteps' = CascadedSteps
  BY <1>5, <1>6, CascadedStepsAre DEF Doomed, ReplayKeeps
<1>. QED  BY <1>2, <1>3, <1>4, <1>6, <1>7, SameMarks DEF Sched!SeedSkipped, rest

LEMMA SeedFailedSched ==
  ASSUME Typed, NEW s \in Steps, SeedFailed(s)
  PROVE  /\ ReplayKeeps /\ Skips' = Skips \cup Cascade(s) /\ Cascade(s) \subseteq Doomed
         /\ Sched!SeedFailed(s)
<1>1. run \in Runs /\ run.seed \in Settlements
  BY DEF Typed, RunTyped, Runs
<1>. DEFINE rest == [run.seed EXCEPT !.failed = @ \ {s}]
<1>2. /\ rest \in Settlements /\ rest.skipped = run.seed.skipped
      /\ rest.completed = run.seed.completed
      /\ rest.failed = run.seed.failed \ {s} /\ s \in run.seed.failed
      /\ run.seed.completed = {} /\ run.seed.skipped = {}
  BY <1>1 DEF Settlements, SeedFailed
<1>3. Seeding(rest) /\ mark_failed(s)
  BY DEF SeedFailed
<1>4. run'.seed = rest
  <2>. HIDE DEF rest
  <2>. QED  BY <1>1, <1>2, <1>3, SeedingRun
<1>. HIDE DEF rest
<1>5. /\ failed' = failed \cup {s} /\ UNCHANGED <<plan, completed>>
      /\ skipped' = skipped \cup Cascade(s)
  BY <1>3 DEF mark_failed
<1>6. ReplayKeeps /\ Skips' = Skips \cup Cascade(s)
  BY <1>1, <1>2, <1>3, <1>4, <1>5, SeedingRun DEF Failures, Done, Skips, ReplayKeeps
<1>7. Cascade(s) \subseteq Doomed
  <2>1. {s} \subseteq Failures
    BY <1>2 DEF Failures
  <2>2. Downstream(plan.deps, {s}) \subseteq Doomed
    BY <2>1, GrowsDownstream DEF Doomed
  <2>. QED  BY <2>2, CascadeDownstream
<1>8. CascadedSteps' = CascadedSteps \cup Sched!Cascade(s)
  BY <1>5, <1>6, <1>7, CascadedStepsAre, SameGraphs DEF Doomed, ReplayKeeps
<1>. QED  BY <1>2, <1>3, <1>4, <1>6, <1>7, <1>8, SameMarks DEF Sched!SeedFailed, rest

LEMMA ReplaysSched ==
  ASSUME Typed, Sched!IInv, NEW s \in Steps, Replays(s)
  PROVE  /\ Sched!IInv' /\ ReplayKeeps
         /\ Skips' = Skips \/ (Skips' = Skips \cup Cascade(s) /\ Cascade(s) \subseteq Doomed)
<1>1. CASE SeedCompleted(s)
  BY <1>1, SeedCompletedSched, Sched!SeedCompletedIInv, Assumed
<1>2. CASE SeedSkipped(s)
  BY <1>2, SeedSkippedSched, Sched!SeedSkippedIInv, Assumed
<1>3. CASE SeedFailed(s)
  BY <1>3, SeedFailedSched, Sched!SeedFailedIInv, Assumed
<1>. QED  BY <1>1, <1>2, <1>3 DEF Replays

------------------------------------------------------------------------------
(***************************************************************************)
(* A run begins with outcomes its scheduler can be seeded with: all that   *)
(* is settled has its dependencies settled.  A plan that stops at a        *)
(* failure books nothing downstream of it, any other books it all.         *)
(***************************************************************************)
DoomedBy(p, at) == Downstream(p.deps, at.failed)

Booked(p, doomed, skips) ==
  IF p.on_failure = "Stop" THEN doomed \cap skips = {} ELSE doomed \subseteq skips

Resumable(p, at) == /\ Sched!Closed(p, at, DoomedBy(p, at) \cap at.skipped)
                    /\ Booked(p, DoomedBy(p, at), at.skipped)

LEMMA NothingResumable == ASSUME NEW p PROVE Resumable(p, Nothing)
<1>1. DoomedBy(p, Nothing) = {}
  BY NoneDownstream DEF DoomedBy, Nothing
<1>2. Booked(p, {}, {})
  BY DEF Booked
<1>3. Sched!Closed(p, Nothing, {})
  BY DEF Sched!Closed, Sched!StepSets, Nothing
<1>. QED  BY <1>1, <1>2, <1>3 DEF Resumable, Nothing

StoredOK == \A c \in stored : c.plan_fp \in Plans => Resumable(c.plan_fp, c.state)

LEMMA BeginsFacts ==
  ASSUME Typed, StoredOK, Begins
  PROVE  /\ plan_fp' \in Plans /\ initialise(plan_fp') /\ Resumable(plan_fp', books')
         /\ run'.seed = books' /\ run'.base = books' /\ books' \in Settlements
         /\ run'.pc # "idle" /\ stored' = stored
<1>1. ASSUME NEW p \in Plans, Execute(p)
      PROVE  /\ plan_fp' \in Plans /\ initialise(plan_fp') /\ Resumable(plan_fp', books')
             /\ run'.seed = books' /\ run'.base = books' /\ stored' = stored
  <2>1. Write([NoRun EXCEPT !.pc = "top", !.exec = running_exec'], <<Event("ExecutionStarted", None, 0)>>)
    BY <1>1 DEF Execute
  <2>2. run'.seed = Nothing /\ run'.base = Nothing
    BY <2>1 DEF Write, NoRun
  <2>. QED  BY <1>1, <2>2, NothingResumable DEF Execute
<1>2. ASSUME NEW c \in stored, Resume(c)
      PROVE  /\ plan_fp' \in Plans /\ initialise(plan_fp') /\ Resumable(plan_fp', books')
             /\ run'.seed = books' /\ run'.base = books' /\ stored' = stored
  <2>1. Write([NoRun EXCEPT !.pc = "top", !.exec = c.exec, !.seed = c.state, !.base = c.state],
              <<Event("ExecutionResumed", c.id, 0)>>)
    BY <1>2 DEF Resume
  <2>2. run'.seed = c.state /\ run'.base = c.state
    BY <2>1 DEF Write, NoRun
  <2>. QED  BY <1>2, <2>2 DEF Resume, Restored, StoredOK
<1>3. run'.pc # "idle" /\ books' \in Settlements
  <2>1. Typed'
    BY ExecuteTyped, ResumeTyped DEF Begins
  <2>2. run'.pc # "idle"
    <3>1. run'.pc = "top"
      <4>1. ASSUME NEW p \in Plans, Execute(p) PROVE run'.pc = "top"
        BY <4>1 DEF Execute, Write, NoRun
      <4>2. ASSUME NEW c \in stored, Resume(c) PROVE run'.pc = "top"
        BY <4>2 DEF Resume, Write, NoRun
      <4>. QED  BY <4>1, <4>2 DEF Begins
    <3>. QED  BY <3>1
  <2>. QED  BY <2>1, <2>2 DEF Typed, BooksTyped
<1>. QED  BY <1>1, <1>2, <1>3 DEF Begins

LEMMA BeginsSched ==
  ASSUME Typed, StoredOK, Begins
  PROVE  /\ Sched!IInv' /\ plan' = plan_fp' /\ completed' = {} /\ failed' = {} /\ skipped' = {}
<1>1. /\ plan_fp' \in Plans /\ initialise(plan_fp') /\ Resumable(plan_fp', books')
      /\ run'.seed = books'
  BY BeginsFacts
<1>2. /\ plan' = plan_fp' /\ completed' = {} /\ failed' = {} /\ skipped' = {}
      /\ Sched!initialise(plan_fp')
  BY <1>1 DEF initialise, Sched!initialise, Sched!Normal, Normal
<1>3. CascadedSteps' = DoomedBy(plan_fp', books') \cap books'.skipped
  BY <1>1, <1>2 DEF CascadedSteps, DoomedBy
<1>4. Sched!Closed(plan_fp', books', CascadedSteps')
  BY <1>1, <1>3 DEF Resumable
<1>5. policy \in Policies
  BY DEF Typed, PlansTyped
<1>6. Sched!SavedOK'
  BY DEF Sched!SavedOK, Sched!NoCheckpoint, NeverSaved, Sched!NoSeed
<1>. QED  BY <1>1, <1>2, <1>4, <1>5, <1>6, Sched!ReplayBegins, Assumed

------------------------------------------------------------------------------
(* Nothing that runs, or ran, or is to be replayed so, is doomed.          *)
LEMMA DoomedWait ==
  ASSUME Sched!IInv
  PROVE  /\ Doomed \cap (running \cup Failures \cup Done) = {}
         /\ Sched!SoundInTheEnd = Done \cup (Skips \ Doomed)
         /\ Done \cap (Failures \cup Skips) = {} /\ Failures \cap Skips = {}
         /\ running \cap (Done \cup Failures \cup Skips) = {}
<1>. DEFINE Sound == Sched!SoundInTheEnd
            X     == Steps \ (running \cup Failures \cup Sound)
<1>1. Sound = Done \cup (Skips \ Doomed)
  BY CascadedStepsAre DEF Sched!SoundInTheEnd, Sched!Sound, Done, Skips
<1>2. /\ Done \cap (Failures \cup Skips) = {} /\ Failures \cap Skips = {}
      /\ running \cap (Done \cup Failures \cup Skips) = {}
  BY DEF Sched!IInv, Sched!OneStage, Sched!ReplayOK, Sched!Remaining, Done, Failures, Skips, Sched!NoSeed
<1>3. \A c \in running \cup Failures \cup Sound : plan.deps[c] \subseteq Sound
  BY DEF Sched!IInv, Sched!SoundOK, Failures
<1>4. Sound \cap Failures = {}
  BY <1>1, <1>2
<1>5. \A c \in Steps : plan.deps[c] \cap (Failures \cup X) # {} => c \in X
  BY <1>3, <1>4
<1>6. Doomed \subseteq X
  <2>. HIDE DEF X
  <2>. QED  BY <1>5, WithinDownstream DEF Doomed
<1>. QED  BY <1>1, <1>2, <1>6

LEMMA TopUpSched ==
  ASSUME Typed, Sched!IInv, TopUp
  PROVE  Sched!IInv' /\ UNCHANGED <<plan, Failures, Done, Skips, run.base, plan_fp, books, stored>>
<1>1. run \in Runs /\ run.seed = Nothing /\ Slots \in Nat
  <2>1. IsFiniteSet(DOMAIN in_flight)
    BY SchedulerAssumption, FS_Subset DEF Typed, PoolTyped
  <2>2. Cardinality(DOMAIN in_flight) \in Nat
    BY <2>1, FS_CardinalityType
  <2>. QED  BY <2>2, ExecutorAssumption DEF TopUp, At, Typed, RunTyped, Slots
<1>2. PICK picked \in SUBSET ready :
        /\ ready' = ready \ picked /\ pending' = pending \ picked
        /\ running' = running \cup picked
        /\ fair_cursor' = IF policy = "Fair" THEN (fair_cursor + Slots) % plan.trials
                          ELSE fair_cursor
        /\ UNCHANGED <<policy, plan, completed, failed, skipped, priorities>>
  BY DEF TopUp, next_steps
<1>3. fair_cursor' \in Nat
  <2>1. fair_cursor \in Nat
    BY DEF Sched!IInv, Sched!TypeOK
  <2>2. plan.trials \in Nat \ {0}
    BY ExecutorAssumption DEF Typed, PlansTyped, ExecPlanOf
  <2>. QED  BY <1>1, <1>2, <2>1, <2>2
<1>4. run'.seed = run.seed /\ run'.base = run.base
  BY <1>1 DEF TopUp, Runs
<1>5. UNCHANGED <<plan, Failures, Done, Skips, CascadedSteps>>
  BY <1>2, <1>4 DEF Failures, Done, Skips, CascadedSteps
<1>6. Sched!Looping
  BY <1>1 DEF Sched!Looping, Sched!NoSeed, Nothing
<1>7. Sched!IInv'
  BY <1>2, <1>3, <1>4, <1>5, <1>6, Sched!PickedIInv, Assumed
<1>. QED  BY <1>4, <1>5, <1>7 DEF TopUp, fields, Elsewhere, kept

(* A step in the pool settles. *)
LEMMA SettledSched ==
  ASSUME Typed, PoolOK, Sched!IInv, NEW s \in Steps, s \in DOMAIN in_flight, At("wait"),
         run'.seed = Nothing, mark_completed(s) \/ mark_skipped(s)
  PROVE  /\ Sched!IInv' /\ UNCHANGED <<plan, Failures>>
         /\ mark_completed(s) => Done' = Done \cup {s} /\ Skips' = Skips
         /\ mark_skipped(s) => Done' = Done /\ Skips' = Skips \cup {s} /\ s \notin Doomed
<1>1. run.seed = Nothing /\ run.pc # "idle" /\ s \in running
  BY DEF At, PoolOK
<1>2. s \notin Doomed
  BY <1>1, DoomedWait
<1>3. UNCHANGED <<plan, failed>>
  BY DEF mark_completed, mark_skipped, mark_settled
<1>4. UNCHANGED <<plan, Failures, Doomed>>
  BY <1>1, <1>3 DEF Failures, Doomed
<1>5. mark_completed(s) => Done' = Done \cup {s} /\ Skips' = Skips
  BY <1>1 DEF mark_completed, mark_settled, Done, Skips
<1>6. mark_skipped(s) => Done' = Done /\ Skips' = Skips \cup {s}
  BY <1>1 DEF mark_skipped, mark_settled, Done, Skips
<1>7. CascadedSteps' = CascadedSteps
  BY <1>2, <1>4, <1>5, <1>6, CascadedStepsAre
<1>8. Sched!Looping
  BY <1>1 DEF Sched!Looping, Sched!NoSeed, Nothing
<1>9. Sched!Complete(s) \/ Sched!Skip(s)
  BY <1>1, <1>7, <1>8, SameMarks DEF Sched!Complete, Sched!Skip
<1>10. Sched!IInv'
  BY <1>9, Sched!SettleIInv, Assumed
<1>. QED  BY <1>2, <1>4, <1>5, <1>6, <1>10

LEMMA FailedSched ==
  ASSUME Typed, PoolOK, Sched!IInv, NEW s \in Steps, s \in DOMAIN in_flight, At("wait"),
         run'.seed = Nothing, mark_failed(s)
  PROVE  /\ Sched!IInv' /\ plan' = plan /\ Done' = Done
         /\ Failures' = Failures \cup {s} /\ Skips' = Skips \cup Cascade(s)
         /\ Doomed \subseteq Doomed' /\ Cascade(s) \subseteq Doomed'
         /\ Doomed' \subseteq (Doomed \cap Skips) \cup Cascade(s)
         /\ Cascade(s) \cap Skips = {}
<1>1. run.seed = Nothing /\ run.pc # "idle" /\ s \in running
  BY DEF At, PoolOK
<1>2. /\ plan' = plan /\ Done' = Done
      /\ Failures' = Failures \cup {s} /\ Skips' = Skips \cup Cascade(s)
  BY <1>1 DEF mark_failed, Done, Failures, Skips
<1>3. Doomed \subseteq Doomed' /\ Cascade(s) \subseteq Doomed'
  <2>1. Downstream(plan.deps, {s}) \subseteq Doomed' /\ Doomed \subseteq Doomed'
    BY <1>2, GrowsDownstream DEF Doomed
  <2>. QED  BY <2>1, CascadeDownstream
<1>4. Sched!Failing(s)
  BY <1>1 DEF Sched!Failing, Sched!NoSeed, Nothing
<1>5. /\ \A c \in Steps : plan.deps[c] \cap (failed \cup CascadedSteps \cup {s} \cup Cascade(s)) # {}
                            => c \in CascadedSteps \cup Cascade(s)
      /\ Cascade(s) \subseteq pending \cup ready
  <2>1. /\ \A c \in Steps : plan.deps[c] \cap (failed \cup CascadedSteps \cup {s} \cup Sched!Cascade(s)) # {}
                              => c \in CascadedSteps \cup Sched!Cascade(s)
        /\ Sched!Cascade(s) \subseteq (pending \cup ready) \ ({s} \cup run.seed.failed)
    BY <1>4, Sched!CascadeFacts, Assumed
  <2>. QED  BY <2>1, SameGraphs
<1>6. Doomed' \subseteq CascadedSteps \cup Cascade(s)
  <2>1. Failures' = failed \cup {s}
    BY <1>1, <1>2 DEF Failures, Nothing
  <2>. DEFINE X == CascadedSteps \cup Cascade(s)
  <2>2. \A c \in Steps : plan.deps[c] \cap (Failures' \cup X) # {} => c \in X
    BY <1>5, <2>1
  <2>. HIDE DEF X
  <2>3. Downstream(plan.deps, Failures') \subseteq X
    BY <2>2, WithinDownstream
  <2>. QED  BY <1>2, <2>3 DEF X, Doomed
<1>7. CascadedSteps = Doomed \cap Skips /\ CascadedSteps' = CascadedSteps \cup Cascade(s)
  BY <1>2, <1>3, <1>6, CascadedStepsAre
<1>8. Cascade(s) \cap Skips = {}
  BY <1>1, <1>5 DEF Skips, Nothing, Sched!IInv, Sched!OneStage
<1>9. Sched!Looping
  BY <1>1 DEF Sched!Looping, Sched!NoSeed, Nothing
<1>10. Sched!Fail(s, FALSE)
  BY <1>1, <1>7, <1>9, SameMarks, SameGraphs DEF Sched!Fail
<1>11. Sched!IInv'
  BY <1>10, Sched!FailIInv, Assumed
<1>. QED  BY <1>2, <1>3, <1>6, <1>7, <1>8, <1>11

------------------------------------------------------------------------------
(***************************************************************************)
(* The invariant of a run: its books follow its scheduler, what a plan     *)
(* that stops at a failure leaves unbooked is doomed, and what the run was *)
(* resumed from stays booked.                                              *)
(***************************************************************************)
BooksFollow ==
  /\ books.completed = Done /\ books.failed = Failures
  /\ books.skipped \subseteq Skips /\ Skips \subseteq books.skipped \cup Doomed
  /\ Booked(plan, Doomed, books.skipped)

BaseKept == /\ run.base.completed \subseteq books.completed
            /\ run.base.failed \subseteq books.failed
            /\ run.base.skipped \subseteq books.skipped

RunOK == /\ plan_fp = plan /\ Sched!IInv /\ BooksFollow /\ BaseKept

(* Whatever is in the books, during a run and after it, can be resumed.    *)
HistoryOK == /\ run.pc # "idle" => RunOK
             /\ plan_fp \in Plans => Resumable(plan_fp, books)
             /\ StoredOK

LEMMA RunResumable == Typed /\ Sched!IInv /\ BooksFollow => Resumable(plan, books)
<1>. SUFFICES ASSUME Typed, Sched!IInv, BooksFollow PROVE Resumable(plan, books)
  OBVIOUS
<1>1. /\ Doomed \cap (running \cup Failures \cup Done) = {}
      /\ Sched!SoundInTheEnd = Done \cup (Skips \ Doomed)
      /\ Done \cap (Failures \cup Skips) = {} /\ Failures \cap Skips = {}
  BY DoomedWait
<1>2. DoomedBy(plan, books) = Doomed
  BY DEF DoomedBy, Doomed, BooksFollow
<1>. DEFINE blocked == Doomed \cap books.skipped
            settled == books.completed \cup (books.skipped \ blocked)
<1>3. settled = Sched!SoundInTheEnd
  BY <1>1 DEF BooksFollow
<1>4. \A s \in settled \cup books.failed : plan.deps[s] \subseteq settled
  BY <1>3 DEF Sched!IInv, Sched!SoundOK, BooksFollow, Failures
<1>5. \A s \in Steps : plan.deps[s] \cap blocked # {} => s \in blocked
  <2>. SUFFICES ASSUME NEW s \in Steps, plan.deps[s] \cap blocked # {} PROVE s \in blocked
    OBVIOUS
  <2>1. s \in Doomed
    BY BlocksDownstream DEF Doomed
  <2>2. Doomed \subseteq books.skipped
    BY DEF BooksFollow, Booked
  <2>. QED  BY <2>1, <2>2
<1>6. books \in Sched!StepSets
  BY DEF Typed, BooksTyped, Settlements, Sched!StepSets
<1>7. /\ books.completed \cap (books.skipped \cup books.failed) = {}
      /\ books.skipped \cap books.failed = {}
  BY <1>1 DEF BooksFollow
<1>8. Sched!Closed(plan, books, blocked)
  BY <1>4, <1>5, <1>6, <1>7 DEF Sched!Closed
<1>. QED  BY <1>2, <1>8 DEF Resumable, BooksFollow

LEMMA NextRunResumable == (Typed /\ Sched!IInv /\ BooksFollow => Resumable(plan, books))'
BY RunResumable, PTL

LEMMA HistoryResumes == ASSUME Typed, PoolOK, HistoryOK PROVE ResumesSound
<1>1. CheckpointsClosed
  <2>. SUFFICES ASSUME NEW c \in stored, c.plan_fp \in Plans,
                       NEW s \in c.state.completed \cup c.state.failed
                PROVE  c.plan_fp.deps[s] \subseteq c.state.completed \cup c.state.skipped
    BY DEF CheckpointsClosed
  <2>1. Resumable(c.plan_fp, c.state)
    BY DEF HistoryOK, StoredOK
  <2>. QED  BY <2>1 DEF Resumable, Sched!Closed
<1>2. ASSUME Replayed
      PROVE  running \cap (run.base.completed \cup run.base.skipped \cup run.base.failed
                             \cup Downstream(plan.deps, run.base.failed)) = {}
  <2>1. RunOK
    BY <1>2 DEF Replayed, HistoryOK
  <2>2. /\ Doomed \cap running = {} /\ running \cap (Done \cup Failures \cup Skips) = {}
    BY <2>1, DoomedWait DEF RunOK
  <2>3. run.base.failed \subseteq Failures
    BY <2>1 DEF RunOK, BaseKept, BooksFollow
  <2>4. Downstream(plan.deps, run.base.failed) \subseteq Doomed
    BY <2>3, GrowsDownstream DEF Doomed
  <2>. QED  BY <2>1, <2>2, <2>4 DEF RunOK, BaseKept, BooksFollow
<1>3. SettledStaysSettled
  BY <1>2 DEF SettledStaysSettled, Replayed, PoolOK, Listed
<1>. QED  BY <1>1, <1>3 DEF ResumesSound

(* A checkpoint takes the books as they are. *)
LEMMA RecordedOK ==
  ASSUME HistoryOK, NEW id, NEW exec, record_checkpoint(id, exec)
  PROVE  StoredOK'
BY DEF HistoryOK, StoredOK, record_checkpoint, Snapshot

LEMMA BeginsHistory ==
  ASSUME Typed, HistoryOK, Begins
  PROVE  HistoryOK'
<1>1. /\ plan_fp' \in Plans /\ Resumable(plan_fp', books')
      /\ run'.seed = books' /\ run'.base = books' /\ books' \in Settlements
      /\ run'.pc # "idle" /\ stored' = stored
  BY BeginsFacts DEF HistoryOK
<1>2. /\ Sched!IInv' /\ plan' = plan_fp' /\ completed' = {} /\ failed' = {} /\ skipped' = {}
  BY BeginsSched DEF HistoryOK
<1>3. /\ Done' = books'.completed /\ Failures' = books'.failed /\ Skips' = books'.skipped
  BY <1>1, <1>2 DEF Done, Failures, Skips
<1>4. Doomed' = DoomedBy(plan', books')
  BY <1>2, <1>3 DEF Doomed, DoomedBy
<1>5. BooksFollow'
  BY <1>1, <1>2, <1>3, <1>4 DEF BooksFollow, Resumable
<1>6. BaseKept'
  BY <1>1 DEF BaseKept
<1>7. StoredOK'
  BY <1>1 DEF HistoryOK, StoredOK
<1>. QED  BY <1>1, <1>2, <1>5, <1>6, <1>7 DEF HistoryOK, RunOK

LEMMA ReplaysHistory ==
  ASSUME Typed, HistoryOK, NEW s \in Steps, Replays(s)
  PROVE  HistoryOK'
<1>0. run.pc # "idle" /\ RunOK
  <2>1. run.seed # Nothing
    BY DEF Replays, SeedCompleted, SeedSkipped, SeedFailed, Nothing
  <2>2. run.pc # "idle"
    BY <2>1 DEF Typed, RunTyped, NoRun
  <2>. QED  BY <2>2 DEF HistoryOK
<1>1. /\ Sched!IInv' /\ ReplayKeeps
      /\ Skips' = Skips \/ (Skips' = Skips \cup Cascade(s) /\ Cascade(s) \subseteq Doomed)
  BY <1>0, ReplaysSched DEF RunOK
<1>2. Doomed' = Doomed
  BY <1>1 DEF Doomed, ReplayKeeps
<1>3. BooksFollow'
  BY <1>0, <1>1, <1>2 DEF RunOK, BooksFollow, ReplayKeeps
<1>4. BaseKept' /\ plan_fp' = plan'
  BY <1>0, <1>1 DEF RunOK, BaseKept, ReplayKeeps
<1>5. StoredOK' /\ (plan_fp' \in Plans => Resumable(plan_fp', books'))
  BY <1>1 DEF HistoryOK, StoredOK, ReplayKeeps
<1>. QED  BY <1>1, <1>3, <1>4, <1>5 DEF HistoryOK, RunOK

(* RunOK is about the books, the scheduler and the seed alone. *)
LEMMA StaysRun ==
  ASSUME RunOK, UNCHANGED <<inner, run.seed, plan_fp, books>>, run'.base \in {run.base, Nothing}
  PROVE  RunOK'
<1>1. UNCHANGED <<plan, failed, skipped, completed>>
  BY DEF inner, sets
<1>2. UNCHANGED <<Done, Failures, Skips, Doomed, CascadedSteps>>
  BY <1>1 DEF Done, Failures, Skips, Doomed, CascadedSteps
<1>3. UNCHANGED Sched!vars
  BY <1>2 DEF Sched!vars, Sched!inner, Sched!sets, inner, sets
<1>4. Sched!IInv'
  BY <1>3, Sched!NextIInv, Assumed DEF RunOK
<1>5. BaseKept'
  BY DEF RunOK, BaseKept, Nothing
<1>. QED  BY <1>1, <1>2, <1>4, <1>5 DEF RunOK, BooksFollow

LEMMA CalmRun ==
  ASSUME RunOK, UNCHANGED <<inner, run.seed, run.base, plan_fp, books>>
  PROVE  RunOK'
BY StaysRun

LEMMA TopUpHistory ==
  ASSUME Typed, HistoryOK, TopUp
  PROVE  HistoryOK'
<1>1. RunOK
  BY DEF HistoryOK, TopUp, At
<1>2. Sched!IInv' /\ UNCHANGED <<plan, Failures, Done, Skips, run.base, plan_fp, books, stored>>
  BY <1>1, TopUpSched DEF RunOK
<1>3. Doomed' = Doomed
  BY <1>2 DEF Doomed
<1>4. RunOK'
  BY <1>1, <1>2, <1>3 DEF RunOK, BooksFollow, BaseKept
<1>. QED  BY <1>2, <1>4 DEF HistoryOK, StoredOK

LEMMA AdmitHistory ==
  ASSUME Typed, HistoryOK, Admit
  PROVE  HistoryOK'
<1>1. RunOK /\ run \in Runs
  BY DEF HistoryOK, Admit, At, Typed, RunTyped
<1>2. UNCHANGED <<inner, run.seed, run.base, plan_fp, books, stored>>
  BY <1>1 DEF Admit, Admitted, Runs, fields, Elsewhere, kept
<1>3. RunOK'
  BY <1>1, <1>2, CalmRun
<1>. QED  BY <1>2, <1>3 DEF HistoryOK, StoredOK

LEMMA BetweenHistory ==
  ASSUME Typed, HistoryOK, Between
  PROVE  HistoryOK'
<1>1. UNCHANGED <<inner, run.seed, run.base, plan_fp, books>> /\ (run.pc = "idle" <=> run'.pc = "idle")
  BY BetweenCalm DEF Calm
<1>2. run'.pc # "idle" => RunOK'
  BY <1>1, CalmRun DEF HistoryOK
<1>3. stored' = stored \/ \E id, exec : record_checkpoint(id, exec)
  BY DEF Between, Top, TopPaused, Unpaused, Onward, NoInterval, NoTopUp, Elsewhere, kept, Drain,
         Interval, EmitDue, emit_checkpoint, Control, Pause, Unpause, Stop, checkpoint_now, Takes,
         TenantChecks, TenantPushes, TenantGives, Retry
<1>4. StoredOK'
  BY <1>3, RecordedOK DEF HistoryOK, StoredOK
<1>. QED  BY <1>1, <1>2, <1>4 DEF HistoryOK

LEMMA SettlesHistory ==
  ASSUME Typed, PoolOK, HistoryOK, NEW s \in Steps, Settles(s)
  PROVE  HistoryOK'
<1>1. /\ run'.pc \in {"top", "emit"} /\ run'.seed = Nothing /\ run'.base = run.base
      /\ run.pc = "wait" /\ run.seed = Nothing /\ s \in DOMAIN in_flight
  BY SettlesRun
<1>2. RunOK /\ At("wait") /\ UNCHANGED <<plan_fp, stored>>
  BY <1>1 DEF HistoryOK, At, Settles, SettleCompleted, SettleSkipped, SettleFailed, LastAttemptFailed
<1>3. books \in Settlements
  BY DEF Typed, BooksTyped
<1>4. ASSUME SettleCompleted(s) PROVE RunOK'
  <2>1. mark_completed(s) /\ books' = [books EXCEPT !.completed = @ \cup {s}]
    BY <1>4 DEF SettleCompleted
  <2>2. /\ Sched!IInv' /\ UNCHANGED <<plan, Failures>> /\ Done' = Done \cup {s} /\ Skips' = Skips
    BY <1>1, <1>2, <2>1, SettledSched DEF RunOK
  <2>3. Doomed' = Doomed
    BY <2>2 DEF Doomed
  <2>. QED  BY <1>1, <1>2, <1>3, <2>1, <2>2, <2>3 DEF RunOK, BooksFollow, BaseKept, Settlements
<1>5. ASSUME SettleSkipped(s) PROVE RunOK'
  <2>1. mark_skipped(s) /\ books' = [books EXCEPT !.skipped = @ \cup {s}]
    BY <1>5 DEF SettleSkipped
  <2>2. /\ Sched!IInv' /\ UNCHANGED <<plan, Failures>> /\ Done' = Done /\ Skips' = Skips \cup {s}
        /\ s \notin Doomed
    BY <1>1, <1>2, <2>1, SettledSched DEF RunOK
  <2>3. Doomed' = Doomed
    BY <2>2 DEF Doomed
  <2>4. BooksFollow'
    BY <1>2, <1>3, <2>1, <2>2, <2>3 DEF RunOK, BooksFollow, Booked, Settlements
  <2>. QED  BY <1>1, <1>2, <1>3, <2>1, <2>2, <2>4 DEF RunOK, BaseKept, Settlements
<1>6. ASSUME SettleFailed(s) PROVE RunOK'
  <2>1. /\ mark_failed(s) /\ plan.on_failure # "Stop"
        /\ books' = [books EXCEPT !.failed = @ \cup {s}, !.skipped = @ \cup Cascade(s)]
    BY <1>6 DEF SettleFailed, LastAttemptFailed
  <2>2. /\ Sched!IInv' /\ plan' = plan /\ Done' = Done
        /\ Failures' = Failures \cup {s} /\ Skips' = Skips \cup Cascade(s)
        /\ Doomed \subseteq Doomed' /\ Cascade(s) \subseteq Doomed'
        /\ Doomed' \subseteq (Doomed \cap Skips) \cup Cascade(s)
    BY <1>1, <1>2, <2>1, FailedSched DEF RunOK
  <2>3. /\ books'.completed = books.completed /\ books'.failed = books.failed \cup {s}
        /\ books'.skipped = books.skipped \cup Cascade(s)
    BY <1>3, <2>1 DEF Settlements
  <2>4. BooksFollow'
    BY <1>2, <2>1, <2>2, <2>3 DEF RunOK, BooksFollow, Booked
  <2>. QED  BY <1>1, <1>2, <2>2, <2>3, <2>4 DEF RunOK, BaseKept
<1>7. RunOK' /\ StoredOK'
  BY <1>2, <1>4, <1>5, <1>6 DEF Settles, HistoryOK, StoredOK
<1>8. Typed'
  BY SettleTyped DEF Settles, Settle
<1>9. Resumable(plan', books')
  BY <1>7, <1>8, NextRunResumable DEF RunOK
<1>. QED  BY <1>7, <1>9 DEF HistoryOK, RunOK

(* A run that halts has booked the failure and none of its cascade.        *)
LEMMA HaltingRun ==
  ASSUME Typed, PoolOK, HistoryOK, NEW s \in Steps, SettleHalting(s)
  PROVE  RunOK'
<1>1. /\ s \in DOMAIN in_flight /\ At("wait") /\ run.pc # "idle" /\ mark_failed(s)
      /\ plan.on_failure = "Stop" /\ UNCHANGED <<plan_fp, stored>>
      /\ books' = [books EXCEPT !.failed = @ \cup {s}]
  BY DEF SettleHalting, LastAttemptFailed, Finished, At
<1>2. run' = NoRun /\ Ending
  <2>1. Ending
    BY DEF Ending
  <2>. QED  BY <2>1, EndingStops
<1>3. run'.seed = Nothing /\ run'.base = Nothing
  BY <1>2 DEF NoRun
<1>4. RunOK
  BY <1>1 DEF HistoryOK
<1>5. /\ Sched!IInv' /\ plan' = plan /\ Done' = Done
      /\ Failures' = Failures \cup {s} /\ Skips' = Skips \cup Cascade(s)
      /\ Doomed \subseteq Doomed' /\ Cascade(s) \subseteq Doomed'
      /\ Doomed' \subseteq (Doomed \cap Skips) \cup Cascade(s)
      /\ Cascade(s) \cap Skips = {}
  BY <1>1, <1>3, <1>4, FailedSched DEF RunOK
<1>6. /\ books'.completed = books.completed /\ books'.failed = books.failed \cup {s}
      /\ books'.skipped = books.skipped
  BY <1>1 DEF Typed, BooksTyped, Settlements
<1>7. BooksFollow'
  BY <1>1, <1>4, <1>5, <1>6 DEF RunOK, BooksFollow, Booked
<1>. QED  BY <1>1, <1>3, <1>4, <1>5, <1>7 DEF RunOK, BaseKept, Nothing

LEMMA HaltingHistory ==
  ASSUME Typed, PoolOK, HistoryOK, NEW s \in Steps, SettleHalting(s)
  PROVE  HistoryOK'
<1>1. RunOK' /\ Typed'
  BY HaltingRun, SettleTyped DEF Settle
<1>2. Resumable(plan', books') /\ plan_fp' = plan'
  BY <1>1, NextRunResumable DEF RunOK
<1>. QED
  BY <1>1, <1>2 DEF SettleHalting, LastAttemptFailed, HistoryOK, StoredOK

LEMMA EndingHistory ==
  ASSUME Typed, PoolOK, HistoryOK, Ending
  PROVE  HistoryOK'
<1>1. run'.pc = "idle"
  BY EndingStops DEF NoRun
<1>2. CASE TopCancelled \/ PausedCancelled \/ Finish \/ \E s \in Steps : SettleError(s)
  <2>1. UNCHANGED <<books, plan_fp, stored>>
    BY <1>2 DEF TopCancelled, PausedCancelled, finalise_cancelled, Finish, SettleError, fields
  <2>. QED  BY <1>1, <2>1 DEF HistoryOK, StoredOK
<1>3. CASE Crash
  <2>1. books' = Nothing /\ stored' = stored
    BY <1>3 DEF Crash, kept
  <2>. QED  BY <1>1, <2>1, NothingResumable DEF HistoryOK, StoredOK
<1>. QED  BY <1>2, <1>3, HaltingHistory DEF Ending

(* A step that is refused its allocation is skipped in the scheduler and   *)
(* nowhere else, and what depends on it may run.  It takes another user of *)
(* the resource manager who comes between the snapshot and the allocation. *)
NeverRefused == [][~AllocateRefused]_vars

LEMMA NextHistory ==
  ASSUME Typed, PoolOK, HistoryOK, [Next]_vars, [~AllocateRefused]_vars
  PROVE  HistoryOK'
<1>1. CASE UNCHANGED vars
  <2>1. UNCHANGED <<inner, run, fields, kept>>
    BY <1>1 DEF vars
  <2>2. run.pc # "idle" => RunOK'
    BY <2>1, CalmRun DEF HistoryOK, fields
  <2>. QED  BY <2>1, <2>2 DEF HistoryOK, StoredOK, fields, kept
<1>2. CASE Next /\ ~AllocateRefused
  BY <1>2, NextCases, BeginsHistory, TopUpHistory, AdmitHistory, BetweenHistory, EndingHistory,
     ReplaysHistory, SettlesHistory DEF Admits
<1>. QED  BY <1>1, <1>2

LEMMA InitHistory == Init => HistoryOK
<1>. SUFFICES ASSUME Init PROVE HistoryOK
  OBVIOUS
<1>1. run.pc = "idle" /\ books = Nothing /\ stored = {}
  BY DEF Init, NoRun
<1>. QED  BY <1>1, NothingResumable DEF HistoryOK, StoredOK

(* Every checkpoint, whenever it is taken, can be resumed from, and a      *)
(* resumed run starts nothing over that its checkpoint holds as settled,   *)
(* nor anything downstream of a failure recorded there.                    *)
THEOREM ResumesAreSound == Spec /\ NeverRefused => []ResumesSound
<1>1. Init => HistoryOK
  BY InitHistory
<1>2. (Typed /\ PoolOK) /\ HistoryOK /\ [Next]_vars /\ [~AllocateRefused]_vars => HistoryOK'
  BY NextHistory
<1>3. (Typed /\ PoolOK) /\ HistoryOK => ResumesSound
  BY HistoryResumes
<1>. QED  BY <1>1, <1>2, <1>3, AlwaysTyped, PTL DEF Spec, NeverRefused

(* A manager without a cap refuses nobody.                                 *)
THEOREM ResumesAreSoundUncapped ==
  ASSUME Capacity = Unbounded
  PROVE  Spec => []ResumesSound
<1>1. [Next]_vars => [~AllocateRefused]_vars
  BY DEF AllocateRefused, can_allocate
<1>2. Spec => NeverRefused
  BY <1>1, PTL DEF Spec, NeverRefused
<1>. QED  BY <1>2, ResumesAreSound, PTL

(* With a manager of its own the executor is never refused either: what    *)
(* is handed out fits into what was free.  So all is well for as long as   *)
(* nobody else has used the manager.                                       *)
LEMMA AlwaysHistoryAlone == Spec => [](Alone => HistoryOK)
<1>1. Init => (Alone => HistoryOK)
  BY InitHistory
<1>2. (Typed /\ PoolOK) /\ LimitsOK /\ (Alone => HistoryOK) /\ [Next]_vars => (Alone => HistoryOK)'
  BY AloneStays, AloneIsServed, NextHistory
<1>. QED  BY <1>1, <1>2, AlwaysTyped, AlwaysLimits, PTL DEF Spec

THEOREM ResumesAreSoundAlone == Spec => [](Alone => ResumesSound)
<1>1. (Typed /\ PoolOK) /\ (Alone => HistoryOK) => (Alone => ResumesSound)
  BY HistoryResumes
<1>. QED  BY <1>1, AlwaysHistoryAlone, AlwaysTyped, PTL

------------------------------------------------------------------------------
(***************************************************************************)
(* The executor implements StepLifecycle.  What is recorded between runs   *)
(* are the books of the last run; they are those of its scheduler, unless  *)
(* an error broke it off, which leaves the execution noted as running.     *)
(***************************************************************************)
ExecsOK == /\ \A c \in stored : c.exec # None
           /\ run.pc # "idle" => run.exec # None /\ running_exec # None

IdsOK == /\ \A c \in stored : c.id < FreshCheckpointId
         /\ pending_checkpoint < FreshCheckpointId /\ run.due < FreshCheckpointId

IdleOK == run.pc = "idle" /\ running_exec = None /\ plan_fp \in Plans => RunOK

RecordsOK == ExecsOK /\ IdsOK /\ IdleOK

LEMMA FreshIdAbove ==
  ASSUME issued \in Nat
  PROVE  /\ FreshCheckpointId \in Nat /\ FreshCheckpointId > 0
         /\ \A s \in Steps : s < FreshCheckpointId
<1>1. Steps \cup {0} \subseteq Nat /\ IsFiniteSet(Steps \cup {0})
  BY SchedulerAssumption, FS_AddElement
<1>2. /\ Max(Steps \cup {0}) \in Steps \cup {0}
      /\ \A s \in Steps \cup {0} : s <= Max(Steps \cup {0})
  BY <1>1, GreatestOf
<1>. QED  BY <1>1, <1>2 DEF FreshCheckpointId

LEMMA NextFreshId ==
  ASSUME issued \in Nat
  PROVE  /\ issued' = issued => FreshCheckpointId' = FreshCheckpointId
         /\ issued' = issued + 1 => FreshCheckpointId' = FreshCheckpointId + 1
<1>1. Steps \cup {0} \subseteq Nat /\ IsFiniteSet(Steps \cup {0})
  BY SchedulerAssumption, FS_AddElement
<1>2. Max(Steps \cup {0}) \in Nat
  BY <1>1, GreatestOf
<1>. QED  BY <1>2 DEF FreshCheckpointId

LEMMA NoPlanIsNone == NoPlan \notin Plans
<1>1. \A p \in Plans : "deps" \in DOMAIN p
  BY ExecutorAssumption DEF ExecPlanOf
<1>2. "deps" \notin DOMAIN NoPlan
  BY DEF NoPlan
<1>. QED  BY <1>1, <1>2

LEMMA InitRecords == Init => RecordsOK
<1>. SUFFICES ASSUME Init PROVE RecordsOK
  OBVIOUS
<1>1. issued \in Nat
  BY DEF Init
<1>. QED  BY <1>1, FreshIdAbove, NoPlanIsNone
          DEF Init, RecordsOK, ExecsOK, IdsOK, IdleOK, NoRun, None

LEMMA BeginsRecords ==
  ASSUME Typed, RecordsOK, Begins
  PROVE  RecordsOK'
<1>0. issued \in Nat /\ spent \in [Spendable -> Nat] /\ pending_checkpoint \in Nat
  BY DEF Typed, FieldsTyped
<1>1. /\ UNCHANGED <<stored, pending_checkpoint, issued>>
      /\ run'.pc = "top" /\ run'.due = None /\ run'.exec = running_exec' /\ running_exec' # None
  <2>1. ASSUME NEW p \in Plans, Execute(p)
        PROVE  /\ UNCHANGED <<stored, pending_checkpoint, issued>>
               /\ run'.pc = "top" /\ run'.due = None /\ run'.exec = running_exec' /\ running_exec' # None
    <3>1. Write([NoRun EXCEPT !.pc = "top", !.exec = running_exec'], <<Event("ExecutionStarted", None, 0)>>)
      BY <2>1 DEF Execute
    <3>2. run'.pc = "top" /\ run'.due = None /\ run'.exec = running_exec'
      BY <3>1 DEF Write, NoRun
    <3>3. spent'["runs"] \in Nat
      BY <1>0, <2>1 DEF Execute, Spend, Spendable
    <3>. QED  BY <2>1, <3>2, <3>3 DEF Execute, Nil, None
  <2>2. ASSUME NEW c \in stored, Resume(c)
        PROVE  /\ UNCHANGED <<stored, pending_checkpoint, issued>>
               /\ run'.pc = "top" /\ run'.due = None /\ run'.exec = running_exec' /\ running_exec' # None
    <3>1. Write([NoRun EXCEPT !.pc = "top", !.exec = c.exec, !.seed = c.state, !.base = c.state],
                <<Event("ExecutionResumed", c.id, 0)>>)
      BY <2>2 DEF Resume
    <3>2. run'.pc = "top" /\ run'.due = None /\ run'.exec = c.exec
      BY <3>1 DEF Write, NoRun
    <3>. QED  BY <2>2, <3>2 DEF Resume, RecordsOK, ExecsOK
  <2>. QED  BY <2>1, <2>2 DEF Begins
<1>2. FreshCheckpointId' = FreshCheckpointId /\ FreshCheckpointId > 0
  BY <1>0, <1>1, NextFreshId, FreshIdAbove
<1>. QED  BY <1>1, <1>2 DEF RecordsOK, ExecsOK, IdsOK, IdleOK, None

(* A run that goes on keeps its execution. *)
LEMMA GoesOn ==
  ASSUME Typed, RecordsOK, run.pc # "idle", run'.pc # "idle",
         run'.exec = run.exec, run'.due = run.due,
         UNCHANGED <<stored, running_exec, pending_checkpoint, issued>>
  PROVE  RecordsOK'
<1>1. FreshCheckpointId' = FreshCheckpointId
  BY NextFreshId DEF Typed, FieldsTyped
<1>. QED  BY <1>1 DEF RecordsOK, ExecsOK, IdsOK, IdleOK

LEMMA MovesRecords ==
  ASSUME Typed, RecordsOK, \/ \E s \in Steps : Replays(s) \/ Retry(s)
                           \/ Top \/ TopPaused \/ Unpaused \/ NoInterval \/ NoTopUp
                           \/ TopUp \/ Admit
  PROVE  RecordsOK'
<1>0. run \in Runs /\ (run.pc = "idle" => run = NoRun)
  BY DEF Typed, RunTyped
<1>1. ASSUME NEW s \in Steps, Replays(s) PROVE RecordsOK'
  <2>1. run.seed # Nothing
    BY <1>1 DEF Replays, SeedCompleted, SeedSkipped, SeedFailed, Nothing
  <2>2. run.pc # "idle"
    BY <1>0, <2>1 DEF NoRun
  <2>3. PICK rest : Seeding(rest)
    BY <1>1 DEF Replays, SeedCompleted, SeedSkipped, SeedFailed
  <2>4. /\ run'.exec = run.exec /\ run'.due = run.due /\ run'.pc = run.pc
        /\ UNCHANGED <<stored, running_exec, pending_checkpoint, issued>>
    BY <1>0, <2>3 DEF Seeding, Runs, fields, kept
  <2>. QED  BY <2>2, <2>4, GoesOn
<1>2. ASSUME NEW s \in Steps, Retry(s) PROVE RecordsOK'
  BY <1>2, GoesOn DEF Retry, At, fields, Elsewhere, kept
<1>3. CASE Top \/ TopPaused \/ Unpaused \/ NoInterval \/ NoTopUp
  <2>1. PICK pc \in {"paused", "drain", "interval", "topup", "wait"} :
          Goto(pc) /\ UNCHANGED fields /\ Elsewhere /\ run.pc # "idle"
    BY <1>3 DEF Top, TopPaused, Unpaused, NoInterval, NoTopUp, Onward, At
  <2>2. run'.exec = run.exec /\ run'.due = run.due /\ run'.pc = pc
    BY <1>0, <2>1 DEF Goto, Runs
  <2>. QED  BY <2>1, <2>2, GoesOn DEF fields, Elsewhere, kept
<1>4. CASE TopUp
  <2>1. /\ run'.exec = run.exec /\ run'.due = run.due /\ run'.pc \in {"wait", "admit"}
    BY <1>0, <1>4 DEF TopUp, Runs
  <2>. QED  BY <1>4, <2>1, GoesOn DEF TopUp, At, fields, Elsewhere, kept
<1>5. CASE Admit
  <2>1. /\ run'.exec = run.exec /\ run'.due = run.due /\ run'.pc # "idle"
    BY <1>0, <1>5 DEF Admit, At, Admitted, Runs
  <2>. QED  BY <1>5, <2>1, GoesOn DEF Admit, At, fields, Elsewhere, kept
<1>. QED  BY <1>1, <1>2, <1>3, <1>4, <1>5

(* What is recorded has an id that was given out before. *)
LEMMA EmitsRecords ==
  ASSUME Typed, RecordsOK, Drain \/ Interval \/ EmitDue
  PROVE  RecordsOK'
<1>0. run \in Runs /\ issued \in Nat /\ pending_checkpoint \in Nat /\ run.pc # "idle" /\ run.due \in Nat
  BY DEF Typed, RunTyped, Runs, FieldsTyped, Drain, Interval, EmitDue, At
<1>1. PICK id, next : /\ emit_checkpoint(id, next) /\ next # "idle"
                      /\ id < FreshCheckpointId' /\ FreshCheckpointId' \in Nat
                      /\ FreshCheckpointId <= FreshCheckpointId'
                      /\ pending_checkpoint' \in {pending_checkpoint, None}
                      /\ running_exec' = running_exec
  <2>1. FreshCheckpointId \in Nat
    BY <1>0, FreshIdAbove
  <2>2. CASE Drain
    BY <1>0, <2>1, <2>2, NextFreshId DEF Drain, RecordsOK, IdsOK
  <2>3. CASE Interval
    BY <1>0, <2>1, <2>3, NextFreshId DEF Interval
  <2>4. CASE EmitDue
    BY <1>0, <2>1, <2>4, NextFreshId DEF EmitDue, RecordsOK, IdsOK
  <2>. QED  BY <2>2, <2>3, <2>4
<1>. DEFINE r == [run EXCEPT !.pc = next, !.due = None, !.checkpointed = TRUE]
<1>2. r.pc = next /\ r.due = None /\ r.exec = run.exec
  BY <1>0 DEF Runs
<1>3. Write(r, <<Event("CheckpointCreated", id, 0)>>)
  BY <1>1 DEF emit_checkpoint
<1>d. DOMAIN r = DOMAIN run /\ "seq" \in DOMAIN run
  BY <1>0 DEF Runs
<1>. HIDE DEF r
<1>4. run'.pc = next /\ run'.due = None /\ run'.exec = run.exec
  BY <1>1, <1>2, <1>3, <1>d DEF Write
<1>5. stored' = {c \in stored : c.id # id} \cup {Snapshot(id, run.exec)}
  BY <1>1 DEF emit_checkpoint, record_checkpoint
<1>6. Snapshot(id, run.exec).id = id /\ Snapshot(id, run.exec).exec = run.exec
  BY DEF Snapshot
<1>7. FreshCheckpointId \in Nat /\ FreshCheckpointId > 0 /\ \A c \in stored : c.id \in Nat
  BY <1>0, FreshIdAbove DEF Typed, BooksTyped, Stored
<1>8. IdsOK'
  BY <1>0, <1>1, <1>4, <1>5, <1>6, <1>7 DEF RecordsOK, IdsOK, None
<1>9. ExecsOK'
  BY <1>0, <1>1, <1>4, <1>5, <1>6 DEF RecordsOK, ExecsOK
<1>. QED  BY <1>1, <1>4, <1>8, <1>9 DEF RecordsOK, IdleOK

LEMMA AroundRecords ==
  ASSUME Typed, RecordsOK, Control \/ Takes
  PROVE  RecordsOK'
<1>0. issued \in Nat /\ pending_checkpoint \in Nat /\ FreshCheckpointId \in Nat /\ FreshCheckpointId > 0
      /\ \A c \in stored : c.id \in Nat
  BY FreshIdAbove DEF Typed, FieldsTyped, BooksTyped, Stored
<1>1. UNCHANGED <<inner, run, plan_fp, books, running_exec>>
  BY DEF Control, Takes, Pause, Unpause, Stop, checkpoint_now, TenantChecks, TenantPushes, TenantGives,
         Around
<1>2. IdleOK'
  BY <1>1, StaysRun DEF RecordsOK, IdleOK
<1>3. ASSUME UNCHANGED <<stored, pending_checkpoint, issued>>
      PROVE  ExecsOK' /\ IdsOK'
  BY <1>0, <1>1, <1>3, NextFreshId DEF RecordsOK, ExecsOK, IdsOK
<1>4. ASSUME checkpoint_now
      PROVE  ExecsOK' /\ IdsOK'
  <2>1. FreshCheckpointId' = FreshCheckpointId + 1
    BY <1>0, <1>4, NextFreshId DEF checkpoint_now
  <2>2. CASE running_exec # None
    BY <1>0, <1>1, <1>4, <2>1, <2>2 DEF checkpoint_now, RecordsOK, ExecsOK, IdsOK, Typed, RunTyped, Runs
  <2>3. CASE running_exec = None
    <3>. DEFINE snapshot == Snapshot(FreshCheckpointId, Nil)
    <3>1. stored' = {c \in stored : c.id # FreshCheckpointId} \cup {snapshot}
          /\ pending_checkpoint' = pending_checkpoint
      BY <1>4, <2>3 DEF checkpoint_now, record_checkpoint
    <3>2. snapshot.id = FreshCheckpointId /\ snapshot.exec = Nil
      BY DEF Snapshot
    <3>. HIDE DEF snapshot
    <3>3. run.due \in Nat
      BY DEF Typed, RunTyped, Runs
    <3>. QED  BY <1>0, <1>1, <2>1, <3>1, <3>2, <3>3 DEF RecordsOK, ExecsOK, IdsOK, Nil, None
  <2>. QED  BY <2>2, <2>3
<1>5. ExecsOK' /\ IdsOK'
  BY <1>3, <1>4 DEF Control, Takes, Pause, Unpause, Stop, TenantChecks, TenantPushes, TenantGives
<1>. QED  BY <1>2, <1>5 DEF RecordsOK

LEMMA EndingRecords ==
  ASSUME Typed, PoolOK, HistoryOK, RecordsOK, Ending
  PROVE  RecordsOK'
<1>0. issued \in Nat /\ FreshCheckpointId \in Nat /\ FreshCheckpointId > 0
  BY FreshIdAbove DEF Typed, FieldsTyped
<1>1. run' = NoRun /\ run.pc # "idle"
  BY EndingStops
<1>2. /\ UNCHANGED <<stored, issued>> /\ pending_checkpoint' \in {pending_checkpoint, None}
  BY DEF Ending, TopCancelled, PausedCancelled, finalise_cancelled, Finish, Crash, kept, SettleHalting,
         LastAttemptFailed, SettleError, fields
<1>3. ExecsOK' /\ IdsOK'
  BY <1>0, <1>1, <1>2, NextFreshId DEF RecordsOK, ExecsOK, IdsOK, NoRun, None
<1>4. ASSUME TopCancelled \/ PausedCancelled \/ Finish PROVE IdleOK'
  <2>1. run.seed = Nothing /\ UNCHANGED <<inner, plan_fp, books>>
    BY <1>4 DEF TopCancelled, PausedCancelled, finalise_cancelled, Finish, At
  <2>2. run'.seed = Nothing /\ run'.base = Nothing
    BY <1>1 DEF NoRun
  <2>3. RunOK'
    BY <1>1, <2>1, <2>2, StaysRun DEF HistoryOK
  <2>. QED  BY <2>3 DEF IdleOK
<1>5. ASSUME Crash PROVE IdleOK'
  BY <1>5, NoPlanIsNone DEF Crash, IdleOK
<1>6. ASSUME NEW s \in Steps, SettleHalting(s) PROVE IdleOK'
  BY <1>6, HaltingRun DEF IdleOK
<1>7. ASSUME NEW s \in Steps, SettleError(s) PROVE IdleOK'
  BY <1>1, <1>7 DEF SettleError, fields, IdleOK, RecordsOK, ExecsOK
<1>8. IdleOK'
  BY <1>4, <1>5, <1>6, <1>7 DEF Ending
<1>. QED  BY <1>3, <1>8 DEF RecordsOK

LEMMA SettlesRecords ==
  ASSUME Typed, RecordsOK, NEW s \in Steps, Settles(s)
  PROVE  RecordsOK'
<1>0. issued \in Nat /\ FreshCheckpointId \in Nat /\ FreshCheckpointId > 0 /\ s < FreshCheckpointId
      /\ run \in Runs /\ pending_checkpoint \in Nat /\ \A c \in stored : c.id \in Nat
  BY FreshIdAbove DEF Typed, FieldsTyped, RunTyped, BooksTyped, Stored
<1>1. run'.pc \in {"top", "emit"} /\ run.pc = "wait"
  BY SettlesRun
<1>2. UNCHANGED <<stored, running_exec, pending_checkpoint>>
  BY DEF Settles, SettleCompleted, SettleSkipped, SettleFailed, LastAttemptFailed
<1>3. PICK due, events, r : /\ LoopWith(r, due, events) /\ DOMAIN r = DOMAIN run /\ r.exec = run.exec
                            /\ r.pc = "wait" /\ due \in {None, s, FreshCheckpointId}
  <2>1. CASE SettleCompleted(s)
    <3>. DEFINE k == plan.kind[s]
                due == CASE k = "Checkpoint" -> s
                         [] k = "Barrier" /\ plan.on_barriers -> FreshCheckpointId
                         [] OTHER -> None
                result == IF plan.kind[s] = "TrialEnd"
                          THEN {synthesise_trial_result(plan.trial[s])} ELSE {}
                r == [run EXCEPT !.trial_results = @ \cup result]
    <3>1. \E events : LoopWith(r, due, events)
      BY <2>1 DEF SettleCompleted
    <3>2. due \in {None, s, FreshCheckpointId}
      OBVIOUS
    <3>3. DOMAIN r = DOMAIN run /\ r.exec = run.exec /\ r.pc = "wait"
      BY <1>0, <1>1 DEF Runs
    <3>. HIDE DEF due, result, r
    <3>. QED  BY <3>1, <3>2, <3>3
  <2>2. CASE SettleSkipped(s)
    BY <1>1, <2>2 DEF SettleSkipped
  <2>3. CASE SettleFailed(s)
    <3>. DEFINE due == IF plan.on_errors THEN FreshCheckpointId ELSE None
                r == [run EXCEPT !.any_failed = TRUE, !.trial_failed = @ \cup TrialOf(s)]
    <3>1. \E events : LoopWith(r, due, events)
      BY <2>3 DEF SettleFailed
    <3>2. due \in {None, s, FreshCheckpointId}
      OBVIOUS
    <3>3. DOMAIN r = DOMAIN run /\ r.exec = run.exec /\ r.pc = "wait"
      BY <1>0, <1>1 DEF Runs
    <3>. HIDE DEF due, r
    <3>. QED  BY <3>1, <3>2, <3>3
  <2>. QED  BY <2>1, <2>2, <2>3 DEF Settles
<1>4. run'.due = due /\ run'.exec = run.exec
  <2>. DEFINE q == [r EXCEPT !.due = due, !.pc = IF due = None THEN "top" ELSE "emit"]
  <2>1. /\ q.pc # "idle" /\ q.due = due /\ q.exec = run.exec
        /\ DOMAIN q = DOMAIN r /\ "seq" \in DOMAIN r
    BY <1>0, <1>3 DEF Runs
  <2>2. Write(q, events)
    BY <1>3 DEF LoopWith
  <2>. HIDE DEF q
  <2>3. run' = [q EXCEPT !.seq = q.seq + Len(events)]
    BY <2>1, <2>2 DEF Write
  <2>. QED  BY <2>1, <2>3
<1>5. issued' = IF due = FreshCheckpointId THEN issued + 1 ELSE issued
  BY <1>3 DEF LoopWith
<1>6. FreshCheckpointId' = IF due = FreshCheckpointId THEN FreshCheckpointId + 1 ELSE FreshCheckpointId
  BY <1>0, <1>5, NextFreshId
<1>. QED  BY <1>0, <1>1, <1>2, <1>3, <1>4, <1>6 DEF RecordsOK, ExecsOK, IdsOK, IdleOK, None

LEMMA NextRecords ==
  ASSUME Typed, PoolOK, HistoryOK, RecordsOK, [Next]_vars, [~AllocateRefused]_vars
  PROVE  RecordsOK'
<1>1. CASE UNCHANGED vars
  <2>1. UNCHANGED <<inner, run, fields, kept, issued>>
    BY <1>1 DEF vars
  <2>2. IdleOK'
    BY <2>1, StaysRun DEF RecordsOK, IdleOK, fields
  <2>. QED  BY <2>1, <2>2 DEF RecordsOK, ExecsOK, IdsOK, fields, kept, FreshCheckpointId
<1>2. CASE Next /\ ~AllocateRefused
  BY <1>2, NextCases, BeginsRecords, MovesRecords, EmitsRecords, AroundRecords, EndingRecords,
     SettlesRecords DEF Admits, Between
<1>. QED  BY <1>1, <1>2

------------------------------------------------------------------------------
(* The mapped state. *)
LEMMA SameLifecycle ==
  ASSUME NEW g, NEW F
  PROVE  Lifecycle!Downstream(g, F) = Downstream(g, F)
BY DEF Lifecycle!Downstream, Lifecycle!DownstreamIn, Lifecycle!Dependents,
       Downstream, DownstreamIn, Dependents

LEMMA ReplayedStatus ==
  ASSUME run.seed = Nothing
  PROVE  AbstractStatus = StatusIn(completed, failed, skipped, running)
<1>1. run.seed.completed = {} /\ run.seed.failed = {} /\ run.seed.skipped = {}
  BY DEF Nothing
<1>2. Downstream(plan.deps, run.seed.failed) = {}
  BY <1>1, NoneDownstream
<1>. QED  BY <1>1, <1>2 DEF AbstractStatus

LEMMA NextReplayedStatus ==
  run'.seed = Nothing => AbstractStatus' = StatusIn(completed', failed', skipped', running')
<1>1. (run.seed = Nothing => AbstractStatus = StatusIn(completed, failed, skipped, running))'
  BY ReplayedStatus, PTL
<1>. QED  BY <1>1 DEF StatusIn, Nothing

LEMMA StatusStays ==
  ASSUME UNCHANGED <<inner, run.seed>>
  PROVE  plan' = plan /\ AbstractStatus' = AbstractStatus
BY DEF inner, sets, AbstractStatus

(* What is still to be replayed, and what the failures among it block,     *)
(* already have the status they will get.                                  *)
LEMMA StatusInTheEnd ==
  ASSUME Sched!IInv
  PROVE  AbstractStatus = StatusIn(Done, Failures, Skips \cup Doomed, running)
<1>. DEFINE D == Downstream(plan.deps, run.seed.failed)
            X == CascadedSteps \cup D
<1>1. \A c \in Steps : plan.deps[c] \cap (failed \cup CascadedSteps) # {} => c \in CascadedSteps
  BY DEF Sched!IInv, Sched!CascadeOK
<1>2. \A c \in Steps : plan.deps[c] \cap (run.seed.failed \cup D) # {} => c \in D
  BY BlocksDownstream
<1>3. \A c \in Steps : plan.deps[c] \cap (Failures \cup X) # {} => c \in X
  BY <1>1, <1>2 DEF Failures
<1>4. Doomed \subseteq X
  <2>. HIDE DEF X
  <2>. QED  BY <1>3, WithinDownstream DEF Doomed
<1>5. D \subseteq Doomed
  BY GrowsDownstream DEF Doomed, Failures
<1>6. skipped \cup run.seed.skipped \cup D = Skips \cup Doomed
  BY <1>4, <1>5, CascadedStepsAre DEF Skips
<1>. QED  BY <1>6 DEF AbstractStatus, Done, Failures

LEMMA NextStatusInTheEnd ==
  Sched!IInv' => AbstractStatus' = StatusIn(Done', Failures', Skips' \cup Doomed', running')
<1>1. (Sched!IInv => AbstractStatus = StatusIn(Done, Failures, Skips \cup Doomed, running))'
  BY StatusInTheEnd, PTL
<1>. QED  BY <1>1 DEF StatusIn

Recorded(c) == [deps   |-> c.plan_fp.deps,
                status |-> StatusIn(c.state.completed, c.state.failed, c.state.skipped
                                      \cup Downstream(c.plan_fp.deps, c.state.failed), {})]

LEMMA CheckpointsRecorded ==
  /\ AbstractCheckpoints = {Recorded(c) : c \in {c \in stored : c.plan_fp \in Plans}}
  /\ AbstractCheckpoints' = {Recorded(c) : c \in {c \in stored' : c.plan_fp \in Plans}}
BY DEF AbstractCheckpoints, Recorded

LEMMA BeginsRefines ==
  ASSUME Typed, Begins
  PROVE  Lifecycle!Next
<1>1. ASSUME NEW p \in Plans, Execute(p)
      PROVE  Lifecycle!Fresh(p.deps)
  <2>1. Write([NoRun EXCEPT !.pc = "top", !.exec = running_exec'], <<Event("ExecutionStarted", None, 0)>>)
    BY <1>1 DEF Execute
  <2>2. run'.seed = Nothing
    BY <2>1 DEF Write, NoRun
  <2>3. /\ completed' = {} /\ failed' = {} /\ skipped' = {} /\ running' = {} /\ plan' = p
        /\ stored' = stored
    BY <1>1 DEF Execute, initialise
  <2>4. AbstractStatus' = StatusIn({}, {}, {}, {})
    BY <2>2, <2>3, NoneDownstream DEF AbstractStatus, Nothing
  <2>5. AbstractStatus' = Lifecycle!AllWaiting
    BY <2>4 DEF StatusIn, Lifecycle!AllWaiting
  <2>. QED  BY <2>3, <2>5, CheckpointsRecorded DEF Lifecycle!Fresh
<1>2. ASSUME NEW c \in stored, Resume(c)
      PROVE  Lifecycle!Restart
  <2>1. Write([NoRun EXCEPT !.pc = "top", !.exec = c.exec, !.seed = c.state, !.base = c.state],
              <<Event("ExecutionResumed", c.id, 0)>>)
    BY <1>2 DEF Resume
  <2>2. run'.seed = c.state
    BY <2>1 DEF Write, NoRun
  <2>3. /\ completed' = {} /\ failed' = {} /\ skipped' = {} /\ running' = {}
        /\ plan' = c.plan_fp /\ stored' = stored /\ c.plan_fp \in Plans
    BY <1>2 DEF Resume, initialise
  <2>4. AbstractStatus' = Recorded(c).status /\ plan'.deps = Recorded(c).deps
    BY <2>2, <2>3 DEF AbstractStatus, Recorded
  <2>5. Recorded(c) \in AbstractCheckpoints
    BY <2>3, CheckpointsRecorded
  <2>. QED  BY <2>3, <2>4, <2>5, CheckpointsRecorded DEF Lifecycle!Restart
<1>. QED  BY <1>1, <1>2 DEF Begins, Lifecycle!Next

LEMMA ReplaysRefines ==
  ASSUME Typed, PoolOK, HistoryOK, NEW s \in Steps, Replays(s)
  PROVE  UNCHANGED Lifecycle!vars
<1>1. run.seed # Nothing
  BY DEF Replays, SeedCompleted, SeedSkipped, SeedFailed, Nothing
<1>2. run.pc # "idle" /\ running = {}
  BY <1>1 DEF Typed, RunTyped, NoRun, PoolOK
<1>3. Sched!IInv
  BY <1>2 DEF HistoryOK, RunOK
<1>4. /\ Sched!IInv' /\ ReplayKeeps
      /\ Skips' = Skips \/ (Skips' = Skips \cup Cascade(s) /\ Cascade(s) \subseteq Doomed)
  BY <1>3, ReplaysSched
<1>5. Doomed' = Doomed
  BY <1>4 DEF ReplayKeeps, Doomed
<1>6. running' = {}
  BY <1>2 DEF Replays, SeedCompleted, SeedSkipped, SeedFailed, mark_completed, mark_skipped,
     mark_failed, mark_settled
<1>7. Skips' \cup Doomed' = Skips \cup Doomed
  BY <1>4, <1>5
<1>8. AbstractStatus' = AbstractStatus
  BY <1>2, <1>3, <1>4, <1>6, <1>7, StatusInTheEnd, NextStatusInTheEnd DEF ReplayKeeps
<1>. QED  BY <1>4, <1>8, CheckpointsRecorded DEF Lifecycle!vars, ReplayKeeps

LEMMA StagesOnce ==
  ASSUME Sched!IInv
  PROVE  /\ completed \cap (failed \cup skipped \cup running) = {}
         /\ failed \cap (skipped \cup running) = {} /\ skipped \cap running = {}
         /\ (pending \cup ready) \cap (completed \cup failed \cup skipped \cup running) = {}
BY DEF Sched!IInv, Sched!OneStage

LEMMA TopUpRefines ==
  ASSUME Typed, HistoryOK, TopUp
  PROVE  Lifecycle!Next
<1>1. /\ run.seed = Nothing /\ run'.seed = Nothing /\ stored' = stored /\ Sched!IInv
  BY DEF TopUp, At, HistoryOK, RunOK, Typed, RunTyped, Runs, Elsewhere, kept
<1>. PICK picked \in SUBSET ready :
       /\ running' = running \cup picked
       /\ UNCHANGED <<plan, completed, failed, skipped>>
  BY DEF TopUp, next_steps
<1>3. AbstractStatus = StatusIn(completed, failed, skipped, running)
  BY <1>1, ReplayedStatus
<1>4. AbstractStatus' = StatusIn(completed, failed, skipped, running \cup picked)
  BY <1>1, NextReplayedStatus
<1>5. picked \subseteq Steps \ (running \cup completed \cup failed \cup skipped)
  BY <1>1, StagesOnce DEF Typed, SetsTyped
<1>6. ASSUME NEW s \in picked
      PROVE  /\ AbstractStatus[s] = "waiting"
             /\ \A d \in plan.deps[s] : AbstractStatus[d] \in Lifecycle!Settled
  <2>1. plan.deps[s] \subseteq Sched!Sound /\ Sched!Remaining = {}
    BY <1>1 DEF Sched!IInv, Sched!ReadyOK, Sched!Remaining, Sched!NoSeed, Nothing
  <2>2. plan.deps[s] \subseteq (completed \cup skipped) \cap Steps
    BY <2>1 DEF Sched!Sound, Typed, SetsTyped
  <2>3. AbstractStatus[s] = "waiting"
    BY <1>3, <1>5 DEF StatusIn
  <2>4. \A d \in plan.deps[s] : AbstractStatus[d] \in {"completed", "skipped"}
    BY <1>1, <1>3, <2>2, StagesOnce DEF StatusIn
  <2>. QED  BY <2>3, <2>4 DEF Lifecycle!Settled
<1>7. AbstractStatus' = [s \in Steps |-> IF s \in picked THEN "running" ELSE AbstractStatus[s]]
  BY <1>3, <1>4, <1>5 DEF StatusIn
<1>8. Lifecycle!Start(picked)
  BY <1>1, <1>6, <1>7, CheckpointsRecorded DEF Lifecycle!Start
<1>9. picked \in SUBSET Steps
  BY <1>5
<1>. QED  BY <1>8, <1>9 DEF Lifecycle!Next

LEMMA FinishRefines ==
  ASSUME Typed, PoolOK, HistoryOK, NEW s \in Steps, SettleCompleted(s) \/ SettleSkipped(s)
  PROVE  Lifecycle!Next
<1>1. /\ run.seed = Nothing /\ run'.seed = Nothing /\ run.pc = "wait" /\ s \in DOMAIN in_flight
  BY SettlesRun DEF Settles
<1>2. Sched!IInv /\ s \in running
  BY <1>1 DEF HistoryOK, RunOK, PoolOK
<1>3. /\ stored' = stored /\ plan' = plan /\ running' = running \ {s} /\ failed' = failed
      /\ \/ completed' = completed \cup {s} /\ skipped' = skipped
         \/ completed' = completed /\ skipped' = skipped \cup {s}
  <2>1. stored' = stored /\ (mark_completed(s) \/ mark_skipped(s))
    BY DEF SettleCompleted, SettleSkipped
  <2>. QED  BY <2>1 DEF mark_completed, mark_skipped, mark_settled
<1>4. AbstractStatus = StatusIn(completed, failed, skipped, running)
  BY <1>1, ReplayedStatus
<1>5. AbstractStatus' = StatusIn(completed', failed, skipped', running \ {s})
  BY <1>1, <1>3, NextReplayedStatus
<1>6. s \notin completed \cup failed \cup skipped
  BY <1>2, StagesOnce
<1>. DEFINE outcome == IF s \in completed' THEN "completed" ELSE "skipped"
<1>7. AbstractStatus[s] = "running"
  BY <1>2, <1>4, <1>6 DEF StatusIn
<1>8. AbstractStatus' = [AbstractStatus EXCEPT ![s] = outcome]
  BY <1>2, <1>3, <1>4, <1>5, <1>6 DEF StatusIn
<1>9. Lifecycle!Finish(s, outcome)
  BY <1>3, <1>7, <1>8, CheckpointsRecorded DEF Lifecycle!Finish
<1>. QED  BY <1>9 DEF Lifecycle!Next, Lifecycle!Settled

LEMMA SkippedStatus ==
  ASSUME NEW done, NEW fail, NEW skip, NEW runs, NEW s \in Steps,
         s \notin done, s \notin fail, s \in skip, s \notin runs
  PROVE  StatusIn(done, fail, skip, runs)[s] = "skipped"
BY DEF StatusIn

LEMMA FailRefines ==
  ASSUME Typed, PoolOK, HistoryOK, NEW s \in Steps, s \in DOMAIN in_flight, At("wait"),
         mark_failed(s), run'.seed = Nothing, UNCHANGED stored
  PROVE  Lifecycle!Fail(s)
<1>. DEFINE K == Cascade(s)
            D == Downstream(plan.deps, {s})
<1>1. /\ run.seed = Nothing /\ Sched!IInv /\ s \in running
  BY DEF At, HistoryOK, RunOK, PoolOK
<1>2. /\ plan' = plan /\ running' = running \ {s} /\ completed' = completed
      /\ failed' = failed \cup {s} /\ skipped' = skipped \cup K
  BY DEF mark_failed
<1>3. /\ Failures' = Failures \cup {s} /\ K \subseteq Doomed'
      /\ Doomed' \subseteq (Doomed \cap Skips) \cup K
  BY <1>1, FailedSched
<1>4. K \subseteq D
  BY CascadeDownstream
<1>5. D \subseteq skipped \cup K
  <2>1. D \subseteq Doomed'
    BY <1>2, <1>3, GrowsDownstream DEF Doomed
  <2>2. Skips = skipped
    BY <1>1 DEF Skips, Nothing
  <2>. HIDE DEF D, K
  <2>. QED  BY <1>3, <2>1, <2>2
<1>6. K \cap (running \cup completed \cup failed \cup skipped) = {}
  <2>1. Sched!Failing(s)
    BY <1>1 DEF Sched!Failing, Sched!NoSeed, Nothing
  <2>2. /\ \A c \in Steps : plan.deps[c] \cap (failed \cup CascadedSteps \cup {s} \cup Sched!Cascade(s)) # {}
                             => c \in CascadedSteps \cup Sched!Cascade(s)
        /\ Sched!Cascade(s) \subseteq (pending \cup ready) \ ({s} \cup run.seed.failed)
    BY <1>1, <2>1, Sched!CascadeFacts, Assumed
  <2>. QED  BY <1>1, <2>2, SameGraphs, StagesOnce
<1>7. AbstractStatus = StatusIn(completed, failed, skipped, running)
  BY <1>1, ReplayedStatus
<1>8. AbstractStatus' = StatusIn(completed, failed \cup {s}, skipped \cup K, running \ {s})
  BY <1>2, NextReplayedStatus
<1>9. /\ s \notin completed \cup failed \cup skipped \cup K
      /\ skipped \cap (completed \cup failed \cup running) = {}
  BY <1>1, <1>6, StagesOnce
<1>10. AbstractStatus[s] = "running"
  BY <1>1, <1>7, <1>9 DEF StatusIn
<1>. HIDE DEF K, D
<1>11. ASSUME NEW x \in Steps, x \in D, x # s
       PROVE  AbstractStatus'[x] = "skipped"
  <2>1. /\ x \in skipped \cup K
        /\ x \notin completed /\ x \notin failed \cup {s} /\ x \notin running \ {s}
    BY <1>5, <1>6, <1>9, <1>11
  <2>. QED  BY <1>8, <2>1, SkippedStatus
<1>12. ASSUME NEW x \in Steps, x \notin D, x # s
       PROVE  AbstractStatus'[x] = AbstractStatus[x]
  BY <1>4, <1>7, <1>8, <1>12 DEF StatusIn
<1>13. AbstractStatus'[s] = "failed" /\ s \notin D
  BY <1>5, <1>8, <1>9 DEF StatusIn
<1>14. AbstractStatus' = [x \in Steps |-> CASE x = s   -> "failed"
                                            [] x \in D -> "skipped"
                                            [] OTHER   -> AbstractStatus[x]]
  <2>1. AbstractStatus' = [x \in Steps |-> AbstractStatus'[x]]
    BY <1>8 DEF StatusIn
  <2>. QED  BY <2>1, <1>11, <1>12, <1>13
<1>15. D = Lifecycle!Downstream(plan.deps, {s})
  BY SameLifecycle DEF D
<1>. QED  BY <1>2, <1>10, <1>14, <1>15, CheckpointsRecorded DEF Lifecycle!Fail

(* What is recorded of a run restores what is settled in it: the books of  *)
(* a run that halts lack what is downstream of the failure, which a resume *)
(* skips again.                                                            *)
LEMMA RecordRefines ==
  ASSUME RunOK, run.seed = Nothing, UNCHANGED <<inner, run.seed>>, plan \in Plans,
         NEW id, NEW exec, record_checkpoint(id, exec)
  PROVE  Lifecycle!Record
<1>. DEFINE snapshot == Snapshot(id, exec)
<1>1. /\ snapshot.plan_fp = plan /\ snapshot.state = books
      /\ stored' = {c \in stored : c.id # id} \cup {snapshot}
  BY DEF Snapshot, record_checkpoint, RunOK
<1>. HIDE DEF snapshot
<1>2. /\ books.completed = completed /\ books.failed = failed
      /\ books.skipped \cup Downstream(plan.deps, failed) = skipped
  <2>1. Done = completed /\ Failures = failed /\ Skips = skipped
    BY DEF Done, Failures, Skips, Nothing
  <2>2. \A c \in Steps : plan.deps[c] \cap (failed \cup CascadedSteps) # {} => c \in CascadedSteps
    BY DEF RunOK, Sched!IInv, Sched!CascadeOK
  <2>3. Doomed \subseteq CascadedSteps
    BY <2>1, <2>2, WithinDownstream DEF Doomed
  <2>4. Doomed \subseteq Skips
    BY <2>3, CascadedStepsAre
  <2>5. Doomed = Downstream(plan.deps, failed)
    BY <2>1 DEF Doomed
  <2>. QED  BY <2>1, <2>4, <2>5 DEF RunOK, BooksFollow
<1>3. Recorded(snapshot) = [deps |-> plan.deps, status |-> StatusIn(completed, failed, skipped, {})]
  BY <1>1, <1>2 DEF Recorded
<1>4. Recorded(snapshot) = Lifecycle!Now
  <2>1. AbstractStatus = StatusIn(completed, failed, skipped, running)
    BY ReplayedStatus
  <2>2. /\ completed \cap (failed \cup skipped \cup running) = {}
        /\ failed \cap (skipped \cup running) = {} /\ skipped \cap running = {}
    BY StagesOnce DEF RunOK
  <2>3. StatusIn(completed, failed, skipped, {})
          = [s \in Steps |-> IF AbstractStatus[s] = "running" THEN "waiting" ELSE AbstractStatus[s]]
    BY <2>1, <2>2 DEF StatusIn
  <2>. QED  BY <1>3, <2>3 DEF Lifecycle!Now
<1>. DEFINE of(c) == Recorded(c)
            kept_ == {of(c) : c \in {c \in stored : c.id # id /\ c.plan_fp \in Plans}}
<1>5. kept_ \in SUBSET AbstractCheckpoints
  BY CheckpointsRecorded
<1>6. AbstractCheckpoints' = kept_ \cup {of(snapshot)}
  BY <1>1, CheckpointsRecorded
<1>7. \E earlier \in SUBSET AbstractCheckpoints : AbstractCheckpoints' = earlier \cup {Lifecycle!Now}
  BY <1>4, <1>5, <1>6
<1>. QED  BY <1>7, StatusStays DEF Lifecycle!Record

LEMMA BetweenRefines ==
  ASSUME Typed, HistoryOK, RecordsOK, Between
  PROVE  Lifecycle!Record \/ UNCHANGED Lifecycle!vars
<1>1. UNCHANGED <<inner, run.seed>>
  BY BetweenCalm DEF Calm
<1>2. ASSUME UNCHANGED stored
      PROVE  UNCHANGED Lifecycle!vars
  BY <1>1, <1>2, StatusStays, CheckpointsRecorded DEF Lifecycle!vars
<1>3. plan \in Plans
  BY DEF Typed, PlansTyped
<1>4. ASSUME Drain \/ Interval \/ EmitDue
      PROVE  Lifecycle!Record
  <2>1. RunOK /\ run.seed = Nothing
    BY <1>4 DEF Drain, Interval, EmitDue, At, HistoryOK
  <2>2. PICK id : record_checkpoint(id, run.exec)
    BY <1>4 DEF Drain, Interval, EmitDue, emit_checkpoint
  <2>. QED  BY <1>1, <1>3, <2>1, <2>2, RecordRefines
<1>5. ASSUME checkpoint_now, running_exec = None
      PROVE  Lifecycle!Record \/ UNCHANGED Lifecycle!vars
  <2>1. run.pc = "idle" /\ run.seed = Nothing
    BY <1>5 DEF RecordsOK, ExecsOK, Typed, RunTyped, NoRun
  <2>2. record_checkpoint(FreshCheckpointId, Nil)
    BY <1>5 DEF checkpoint_now
  <2>3. CASE plan_fp \in Plans
    <3>1. RunOK
      BY <1>5, <2>1, <2>3 DEF RecordsOK, IdleOK
    <3>. QED  BY <1>1, <1>3, <2>1, <2>2, <3>1, RecordRefines
  <2>4. CASE plan_fp \notin Plans
    <3>. DEFINE id == FreshCheckpointId
    <3>1. \A c \in stored : c.id # id
      <4>1. \A c \in stored : c.id \in Nat /\ c.id < id
        BY DEF RecordsOK, IdsOK, Typed, BooksTyped, Stored
      <4>2. id \in Nat
        BY FreshIdAbove DEF Typed, FieldsTyped
      <4>. HIDE DEF id
      <4>. QED  BY <4>1, <4>2
    <3>2. stored' = stored \cup {Snapshot(id, Nil)} /\ Snapshot(id, Nil).plan_fp \notin Plans
      BY <2>2, <2>4, <3>1 DEF record_checkpoint, Snapshot
    <3>3. {c \in stored' : c.plan_fp \in Plans} = {c \in stored : c.plan_fp \in Plans}
      BY <3>2
    <3>4. AbstractCheckpoints' = AbstractCheckpoints
      BY <3>3, CheckpointsRecorded
    <3>. QED  BY <1>1, <3>4, StatusStays DEF Lifecycle!vars
  <2>. QED  BY <2>3, <2>4
<1>. QED
  BY <1>2, <1>4, <1>5
     DEF Between, Top, TopPaused, Unpaused, Onward, NoInterval, NoTopUp, Elsewhere, kept,
         Control, Pause, Unpause, Stop, checkpoint_now, Takes,
         TenantChecks, TenantPushes, TenantGives, Retry

LEMMA EndingRefines ==
  ASSUME Typed, PoolOK, HistoryOK, Ending
  PROVE  Lifecycle!Next \/ UNCHANGED Lifecycle!vars
<1>1. run'.seed = Nothing
  BY EndingStops DEF NoRun
<1>2. ASSUME TopCancelled \/ PausedCancelled \/ Finish
      PROVE  UNCHANGED Lifecycle!vars
  <2>1. run.seed = Nothing /\ UNCHANGED <<inner, stored>>
    BY <1>2 DEF TopCancelled, PausedCancelled, finalise_cancelled, Finish, At
  <2>. QED  BY <1>1, <2>1, StatusStays, CheckpointsRecorded DEF Lifecycle!vars
<1>3. ASSUME Crash
      PROVE  Lifecycle!Fresh(plan.deps)
  <2>1. /\ completed' = {} /\ failed' = {} /\ skipped' = {} /\ running' = {} /\ plan' = plan
        /\ stored' = stored
    BY <1>3 DEF Crash, new, kept
  <2>2. AbstractStatus' = Lifecycle!AllWaiting
    BY <1>1, <2>1, NextReplayedStatus DEF StatusIn, Lifecycle!AllWaiting
  <2>. QED  BY <2>1, <2>2, CheckpointsRecorded DEF Lifecycle!Fresh
<1>4. ASSUME NEW s \in Steps, SettleHalting(s) \/ SettleError(s)
      PROVE  Lifecycle!Fail(s)
  <2>1. /\ s \in DOMAIN in_flight /\ At("wait") /\ mark_failed(s) /\ UNCHANGED stored
    BY <1>4 DEF SettleHalting, SettleError, LastAttemptFailed, Finished
  <2>. QED  BY <1>1, <2>1, FailRefines
<1>5. plan.deps \in {p.deps : p \in Plans}
  BY DEF Typed, PlansTyped
<1>. QED  BY <1>2, <1>3, <1>4, <1>5 DEF Ending, Lifecycle!Next

LEMMA NextRefines ==
  ASSUME Typed, PoolOK, HistoryOK, RecordsOK, [Next]_vars, [~AllocateRefused]_vars
  PROVE  [Lifecycle!Next]_Lifecycle!vars
<1>1. CASE UNCHANGED vars
  <2>1. UNCHANGED <<inner, run, stored>>
    BY <1>1 DEF vars, kept
  <2>. QED  BY <2>1, StatusStays, CheckpointsRecorded DEF Lifecycle!vars
<1>2. ASSUME Admit
      PROVE  UNCHANGED Lifecycle!vars
  <2>1. UNCHANGED <<inner, run.seed, stored>>
    BY <1>2 DEF Admit, Admitted, Typed, RunTyped, Runs, Elsewhere, kept
  <2>. QED  BY <2>1, StatusStays, CheckpointsRecorded DEF Lifecycle!vars
<1>3. ASSUME NEW s \in Steps, Settles(s)
      PROVE  Lifecycle!Next
  <2>1. CASE SettleCompleted(s) \/ SettleSkipped(s)
    BY <2>1, FinishRefines
  <2>2. CASE SettleFailed(s)
    <3>1. run'.seed = Nothing
      BY <1>3, SettlesRun
    <3>2. /\ s \in DOMAIN in_flight /\ At("wait") /\ mark_failed(s) /\ UNCHANGED stored
      BY <2>2 DEF SettleFailed, LastAttemptFailed, Finished
    <3>. QED  BY <3>1, <3>2, FailRefines DEF Lifecycle!Next
  <2>. QED  BY <1>3, <2>1, <2>2 DEF Settles
<1>4. CASE Next /\ ~AllocateRefused
  <2>1. ASSUME Between
        PROVE  Lifecycle!Next \/ UNCHANGED Lifecycle!vars
    BY <2>1, BetweenRefines DEF Lifecycle!Next
  <2>. QED
    BY <1>2, <1>3, <1>4, <2>1, NextCases, BeginsRefines, TopUpRefines, EndingRefines,
       ReplaysRefines DEF Admits
<1>. QED  BY <1>1, <1>4

LEMMA InitRefines == Init => Lifecycle!Init
<1>. SUFFICES ASSUME Init PROVE Lifecycle!Init
  OBVIOUS
<1>1. plan \in Plans /\ stored = {} /\ run.seed = Nothing
      /\ completed = {} /\ failed = {} /\ skipped = {} /\ running = {}
  BY ExecutorAssumption DEF Init, Blank, NoRun
<1>2. AbstractStatus = Lifecycle!AllWaiting
  BY <1>1, ReplayedStatus DEF StatusIn, Lifecycle!AllWaiting
<1>3. AbstractCheckpoints = {}
  BY <1>1, CheckpointsRecorded
<1>. QED  BY <1>1, <1>2, <1>3 DEF Lifecycle!Init

(* Whatever fails, is retried, paused, stopped, lost in a crash or resumed *)
(* from which checkpoint, steps start and settle as StepLifecycle says, as *)
(* long as the manager refuses nothing the scheduler handed out.           *)
THEOREM ExecutorRefinesLifecycle == Spec /\ NeverRefused => ImplementsLifecycle
<1>. DEFINE Good == HistoryOK /\ RecordsOK
<1>1. Init => Good
  BY InitHistory, InitRecords
<1>2. (Typed /\ PoolOK) /\ Good /\ [Next]_vars /\ [~AllocateRefused]_vars => Good'
  BY NextHistory, NextRecords
<1>3. (Typed /\ PoolOK) /\ Good /\ [Next]_vars /\ [~AllocateRefused]_vars
        => [Lifecycle!Next]_Lifecycle!vars
  BY NextRefines
<1>. HIDE DEF Good
<1>. QED
  BY <1>1, <1>2, <1>3, InitRefines, AlwaysTyped, PTL
     DEF Spec, NeverRefused, ImplementsLifecycle, Lifecycle!Spec

(* A manager without a cap refuses nobody.                                 *)
THEOREM ExecutorRefinesLifecycleUncapped ==
  ASSUME Capacity = Unbounded
  PROVE  Spec => ImplementsLifecycle
<1>1. [Next]_vars => [~AllocateRefused]_vars
  BY DEF AllocateRefused, can_allocate
<1>2. Spec => NeverRefused
  BY <1>1, PTL DEF Spec, NeverRefused
<1>. QED  BY <1>2, ExecutorRefinesLifecycle, PTL

(* With a manager of its own the executor is never refused either.         *)
THEOREM ExecutorRefinesLifecycleAlone == Spec /\ []Alone => ImplementsLifecycle
<1>1. (Typed /\ PoolOK) /\ LimitsOK /\ Alone /\ [Next]_vars => [~AllocateRefused]_vars
  BY AloneIsServed
<1>2. Spec /\ []Alone => NeverRefused
  BY <1>1, AlwaysTyped, AlwaysLimits, PTL DEF Spec, NeverRefused
<1>. QED  BY <1>2, ExecutorRefinesLifecycle, PTL

------------------------------------------------------------------------------
(***************************************************************************)
(* How a run ends.  A step for which the whole capacity is too little is   *)
(* never admitted, a pause may come between the look at it and the         *)
(* admissions, and others, or a run that was cut short, may hold what a    *)
(* step asks for.  Without all that the loop awaits nothing only when      *)
(* nothing is ready.                                                       *)
(***************************************************************************)
Roomy == \A p \in Plans, s \in Steps :
           p.need[s] <= IF Capacity = Unbounded THEN IF Custom THEN 0 ELSE MaxUnits ELSE Capacity

Unhindered == ~paused /\ (Capacity = Unbounded \/ (Alone /\ Regular))

(* With a cap all that is active is what the steps in the pool hold.       *)
Owned == Capacity # Unbounded => Returned

AwaitsSome == /\ run.seed # Nothing => run.pc = "top"
              /\ run.pc = "wait" /\ DOMAIN in_flight = {} => ready = {}

(* With nothing in flight the first batch takes some step, if any is ready. *)
LEMMA TopUpTakes ==
  ASSUME Roomy, Typed, PoolOK, LimitsOK, Owned, Unhindered, TopUp, DOMAIN in_flight = {},
         run'.pc = "wait"
  PROVE  ready' = {}
<1>1. run \in Runs /\ run.batch = <<>> /\ run.pc = "topup"
  BY DEF TopUp, At, Typed, RunTyped, PoolOK
<1>2. running = {}
  BY <1>1 DEF PoolOK, Listed, ToSet
<1>3. PICK picked \in SUBSET ready :
        /\ IsBatch(picked, Slots, available)
        /\ running' = running \cup picked /\ ready' = ready \ picked
  BY DEF TopUp, next_steps
<1>4. picked = {}
  <2>1. PICK batch \in InOrder(running' \ running, Precedes) :
          run' = [run EXCEPT !.pc = IF batch = <<>> THEN "wait" ELSE "admit", !.batch = batch]
    BY DEF TopUp
  <2>2. batch = <<>>
    BY <1>1, <2>1 DEF Runs
  <2>3. running' \ running \in SUBSET Steps /\ SetsTyped
    BY <1>3 DEF Typed, SetsTyped
  <2>4. ToSet(batch) = running' \ running
    BY <2>1, <2>3, BatchListed
  <2>. QED  BY <1>2, <1>3, <2>2, <2>4 DEF ToSet
<1>5. Slots > 0 /\ Cardinality({}) = 0
  BY FS_EmptySet DEF TopUp
<1>6. \A s \in ready : plan.need[s] <= available
  <2>. SUFFICES ASSUME NEW s \in ready PROVE plan.need[s] <= available
    OBVIOUS
  <2>1. plan \in Plans /\ s \in Steps
    BY DEF Typed, PlansTyped, SetsTyped
  <2>2. CASE Capacity = Unbounded
    BY <2>1, <2>2 DEF Roomy, available
  <2>3. CASE Capacity # Unbounded
    <3>1. tenants.holding = {} /\ Held = {} /\ Returned
      BY <2>3 DEF Unhindered, LimitsOK, NoTenants, Held, Owned
    <3>2. active = {}
      BY <3>1 DEF Returned, Ids
    <3>3. granted_sum(active) = 0
      BY <3>2, GrantedFacts, FS_EmptySet
    <3>4. available = Capacity
      BY <2>3, <3>3, ResourcesAssumption DEF available
    <3>. QED  BY <2>1, <2>3, <3>4 DEF Roomy
  <2>. QED  BY <2>2, <2>3
<1>7. Needed({}) = 0 /\ plan.need \in [Steps -> Nat]
  <2>1. plan.need \in [Steps -> Nat]
    BY LimitsTyped
  <2>2. Sched!Needed({}) = 0
    BY <2>1, Sched!NeededFacts, Assumed
  <2>. QED  BY <2>1, <2>2, SameSums
<1>8. ASSUME NEW s \in ready PROVE FALSE
  <2>1. {t \in picked : Precedes(t, s)} = {}
    BY <1>4
  <2>2. ~(Cardinality({}) < Slots /\ fits(s, {}, available))
    BY <1>3, <1>4, <2>1 DEF IsBatch
  <2>3. plan.need[s] \in Nat /\ 0 + plan.need[s] = plan.need[s]
    BY <1>7 DEF Typed, SetsTyped
  <2>4. fits(s, {}, available)
    BY <1>6, <1>7, <2>3 DEF fits
  <2>. QED  BY <1>5, <2>2, <2>4
<1>. QED  BY <1>3, <1>8

LEMMA NextAwaits ==
  ASSUME Roomy, Typed, PoolOK, LimitsOK, Owned, AwaitsSome, Unhindered, [Next]_vars,
         [~AllocateRefused]_vars
  PROVE  AwaitsSome'
<1>0. run \in Runs
  BY DEF Typed, RunTyped
<1>1. CASE UNCHANGED vars
  BY <1>1 DEF vars, inner, sets, pool, AwaitsSome
<1>2. CASE TopUp
  <2>1. run'.seed = Nothing /\ UNCHANGED pool
    BY <1>0, <1>2 DEF TopUp, At, Runs
  <2>. QED  BY <1>2, <2>1, TopUpTakes DEF AwaitsSome, pool
<1>3. CASE Admit
  <2>1. run'.seed = Nothing /\ DOMAIN in_flight' # {}
    BY <1>0, <1>3 DEF Admit, At, Admitted, Put, Runs
  <2>. QED  BY <2>1 DEF AwaitsSome
<1>4. CASE NoTopUp
  <2>1. run'.seed = Nothing /\ Slots = 0 /\ UNCHANGED pool
    BY <1>0, <1>4 DEF NoTopUp, At, Goto, Runs, Unhindered
  <2>2. Cardinality(DOMAIN in_flight) # 0
    BY <2>1, ExecutorAssumption, LimitsTyped DEF Slots
  <2>3. DOMAIN in_flight' # {}
    BY <2>1, <2>2, FS_EmptySet DEF pool
  <2>. QED  BY <2>1, <2>3 DEF AwaitsSome
<1>5. CASE Between /\ ~NoTopUp
  <2>1. UNCHANGED <<inner, run.seed, DOMAIN in_flight>>
    BY <1>5, BetweenCalm DEF Calm
  <2>2. UNCHANGED run \/ (run'.pc # "wait" /\ run.seed = Nothing)
    <3>1. CASE Drain \/ Interval \/ EmitDue
      <4>1. PICK id \in Nat, next \in {"interval", "topup", "top"} : emit_checkpoint(id, next)
        <5>1. pending_checkpoint \in Nat /\ run.due \in Nat /\ FreshCheckpointId \in Nat
          BY <1>0, FreshCheckpointIdTyped DEF Typed, FieldsTyped, Runs
        <5>. QED  BY <3>1, <5>1 DEF Drain, Interval, EmitDue
      <4>2. run'.pc = next
        BY <3>1, <4>1, EmitTyped DEF Drain, Interval, EmitDue, At, Pcs
      <4>. QED  BY <3>1, <4>2 DEF Drain, Interval, EmitDue, At
    <3>2. CASE ~(Drain \/ Interval \/ EmitDue)
      BY <1>0, <1>5, <3>2 DEF Between, Top, TopPaused, Unpaused, Onward, NoInterval, Goto, Control, Pause,
         Unpause, Stop, checkpoint_now, Around, Takes, TenantChecks, TenantPushes, TenantGives, Retry,
         At, Runs
    <3>. QED  BY <3>1, <3>2
  <2>. QED  BY <2>1, <2>2 DEF AwaitsSome, inner, sets
<1>6. CASE Begins
  BY <1>6, BeginsPool DEF AwaitsSome
<1>7. CASE Ending
  BY <1>7, EndingStops DEF AwaitsSome, NoRun
<1>8. ASSUME NEW s \in Steps, Replays(s) PROVE AwaitsSome'
  <2>1. run'.pc = run.pc /\ run.seed # Nothing
    BY <1>0, <1>8 DEF Replays, SeedCompleted, SeedSkipped, SeedFailed, Seeding, Nothing, Runs
  <2>. QED  BY <2>1 DEF AwaitsSome
<1>9. ASSUME NEW s \in Steps, Settles(s) PROVE AwaitsSome'
  BY <1>9, SettlesRun DEF AwaitsSome
<1>. QED  BY <1>1, <1>2, <1>3, <1>4, <1>5, <1>6, <1>7, <1>8, <1>9, NextCases DEF Admits

(* Only the loop that awaits nothing says how a run succeeded.             *)
LEMMA EndingFinishes ==
  ASSUME Typed, PoolOK, AllocationsOK, [Next]_vars, Ends,
         last'.status \in {"Succeeded", "PartialFailure"}
  PROVE  Finish
<1>1. last.status = "None" /\ run.pc # "idle" /\ run'.pc = "idle"
  BY DEF AllocationsOK, Accounted, Ends
<1>2. CASE TopUp \/ Admits \/ Between \/ UNCHANGED vars
  BY <1>1, <1>2, NextKeepsTrials DEF SameTrials
<1>3. CASE Begins
  BY <1>1, <1>3, BeginsPool
<1>4. ASSUME NEW s \in Steps, Replays(s) PROVE FALSE
  BY <1>1, <1>4 DEF Replays, SeedCompleted, SeedSkipped, SeedFailed, Seeding
<1>5. ASSUME NEW s \in Steps, Settles(s) PROVE FALSE
  BY <1>1, <1>5, SettlesRun
<1>6. CASE Ending
  BY <1>6 DEF Ending, TopCancelled, PausedCancelled, finalise_cancelled, Crash, SettleHalting,
              SettleError, End, Return
<1>. QED  BY <1>1, <1>2, <1>3, <1>4, <1>5, <1>6, NextCases

LEMMA FinishCompletes ==
  ASSUME Typed, PoolOK, HistoryOK, AwaitsSome, Finish
  PROVE  is_complete
<1>1. run.pc = "wait" /\ run.seed = Nothing /\ DOMAIN in_flight = {}
  BY DEF Finish, At
<1>2. ready = {} /\ running = {}
  BY <1>1 DEF AwaitsSome, PoolOK, Listed, ToSet
<1>3. Sched!IInv /\ run.seed = Sched!NoSeed
  BY <1>1 DEF HistoryOK, RunOK, Sched!NoSeed, Nothing
<1>4. Sched!NeverStranded
  BY <1>3, Sched!NothingStranded, Assumed
<1>. QED  BY <1>2, <1>3, <1>4 DEF Sched!NeverStranded, Sched!is_complete, is_complete

(* What holds of an executor that nobody hinders.                          *)
Whole == HistoryOK /\ Owned /\ AwaitsSome

LEMMA NextWhole ==
  ASSUME Roomy, Typed, PoolOK, LimitsOK, AllocationsOK, Whole, Unhindered, Unhindered', [Next]_vars
  PROVE  Whole'
<1>1. [~AllocateRefused]_vars
  <2>1. CASE Capacity = Unbounded
    BY <2>1 DEF AllocateRefused, can_allocate
  <2>2. CASE Capacity # Unbounded
    BY <2>2, AloneIsServed DEF Unhindered
  <2>. QED  BY <2>1, <2>2
<1>2. HistoryOK'
  BY <1>1, NextHistory DEF Whole
<1>3. Owned'
  BY NextAllocations DEF Whole, Owned, Unhindered, Accounting
<1>4. AwaitsSome'
  BY <1>1, NextAwaits DEF Whole
<1>. QED  BY <1>2, <1>3, <1>4 DEF Whole

LEMMA InitWhole == Init => Whole
<1>. SUFFICES ASSUME Init PROVE Whole
  OBVIOUS
<1>1. AwaitsSome
  BY DEF Init, AwaitsSome, NoRun
<1>. QED  BY <1>1, InitHistory, InitAllocations DEF Whole, Owned

LEMMA AlwaysWhole == ASSUME Roomy PROVE Spec /\ []Unhindered => []Whole
<1>1. (Typed /\ PoolOK) /\ LimitsOK /\ AllocationsOK /\ Whole /\ Unhindered /\ Unhindered'
        /\ [Next]_vars => Whole'
  BY NextWhole
<1>. QED  BY <1>1, InitWhole, AlwaysTyped, AlwaysLimits, AlwaysAllocations, PTL DEF Spec

(* A run that says it succeeded, or failed in part, has nothing left to    *)
(* do: what waited for capacity was taken up, what was promoted was        *)
(* dispatched, also in a run that resumes after a crash.  Nobody pauses,   *)
(* and with a cap nobody else has used the manager and no earlier run was  *)
(* cut short.                                                              *)
THEOREM NeverEndsEarly == ASSUME Roomy PROVE Spec /\ []Unhindered => NoEarlyEnd
<1>1. (Typed /\ PoolOK) /\ AllocationsOK /\ Whole /\ [Next]_vars
        => [Alone /\ Ends /\ last'.status \in {"Succeeded", "PartialFailure"} => is_complete]_vars
  BY EndingFinishes, FinishCompletes DEF Whole
<1>. QED  BY <1>1, AlwaysWhole, AlwaysTyped, AlwaysAllocations, PTL DEF Spec, NoEarlyEnd

LEMMA SuccessIsDone ==
  ASSUME Typed, PoolOK, AllocationsOK, Whole, TrialsOK, [Next]_vars, Ends, run.base = Nothing,
         last'.status \in {"Succeeded", "PartialFailure"}
  PROVE  last'.status = "Succeeded" <=> failed = {} /\ completed \cup skipped = Steps
<1>1. Finish
  BY EndingFinishes
<1>2. is_complete
  BY <1>1, FinishCompletes DEF Whole
<1>3. last'.status = "Succeeded" <=> ~run.any_failed
  BY <1>1 DEF Finish, End, Return, FinalStatus
<1>4. run.any_failed <=> failed # {}
  BY DEF TrialsOK, Ends
<1>5. Sched!IInv
  BY DEF Whole, HistoryOK, RunOK, Ends
<1>6. completed \cup failed \cup skipped = Steps
  BY <1>2, <1>5 DEF Sched!IInv, Sched!OneStage, Typed, SetsTyped, is_complete
<1>. QED  BY <1>3, <1>4, <1>6

(* ... and a run from the start that says it succeeded has completed every *)
(* step, or skipped it for a reason of its own, and no other run has.      *)
THEOREM SuccessTells == ASSUME Roomy PROVE Spec /\ []Unhindered => SuccessMeansDone
<1>1. (Typed /\ PoolOK) /\ AllocationsOK /\ Whole /\ TrialsOK /\ [Next]_vars
        => [Ends /\ run.base = Nothing /\ last'.status \in {"Succeeded", "PartialFailure"} =>
              (last'.status = "Succeeded" <=> failed = {} /\ completed \cup skipped = Steps)]_vars
  BY SuccessIsDone
<1>. QED  BY <1>1, AlwaysWhole, AlwaysTyped, AlwaysAllocations, AlwaysTrials, PTL
          DEF Spec, SuccessMeansDone

------------------------------------------------------------------------------
(***************************************************************************)
(* What journaling more does to what the journal tells.                    *)
(***************************************************************************)
Joins(c, a, b) == a \in Seq(Events) /\ b \in Seq(Events) /\ c = a \o b

LEMMA Joined ==
  ASSUME NEW a, NEW b, NEW c, Joins(c, a, b)
  PROVE  /\ c \in Seq(Events) /\ Len(a) \in Nat /\ Len(b) \in Nat
         /\ DOMAIN a = 1..Len(a) /\ DOMAIN b = 1..Len(b) /\ DOMAIN c = 1..(Len(a) + Len(b))
         /\ \A i \in DOMAIN a : i \in DOMAIN c /\ c[i] = a[i]
         /\ \A k \in DOMAIN b : Len(a) + k \in DOMAIN c /\ c[Len(a) + k] = b[k]
<1>. DEFINE m == Len(a)
            n == Len(b)
<1>1. /\ c \in Seq(Events) /\ m \in Nat /\ n \in Nat
      /\ DOMAIN a = 1..m /\ DOMAIN b = 1..n /\ DOMAIN c = 1..(m + n)
      /\ \A i \in 1..m : c[i] = a[i]
      /\ \A k \in 1..n : c[m + k] = b[k]
  BY DEF Joins
<1>. HIDE DEF m, n
<1>2. (\A i \in 1..m : i \in 1..(m + n)) /\ \A k \in 1..n : m + k \in 1..(m + n)
  BY <1>1
<1>. QED  BY <1>1, <1>2 DEF m, n

LEMMA JoinedIndex ==
  ASSUME NEW a, NEW b, NEW c, Joins(c, a, b), NEW i \in DOMAIN c, i \notin DOMAIN a
  PROVE  \E k \in DOMAIN b : i = Len(a) + k /\ c[i] = b[k]
<1>. DEFINE k == i - Len(a)
<1>1. /\ Len(a) \in Nat /\ Len(b) \in Nat
      /\ DOMAIN a = 1..Len(a) /\ DOMAIN b = 1..Len(b) /\ DOMAIN c = 1..(Len(a) + Len(b))
      /\ \A j \in DOMAIN b : c[Len(a) + j] = b[j]
  BY Joined
<1>2. k \in DOMAIN b /\ i = Len(a) + k
  BY <1>1
<1>. HIDE DEF k
<1>. QED  BY <1>1, <1>2

(* The old events stay, and the new ones follow them. *)
LEMMA Longer ==
  ASSUME NEW events, Joins(journal', journal, events)
  PROVE  /\ Len(journal) \in Nat /\ Len(events) \in Nat
         /\ DOMAIN journal = 1..Len(journal) /\ DOMAIN events = 1..Len(events)
         /\ DOMAIN journal' = 1..(Len(journal) + Len(events))
         /\ \A i \in DOMAIN journal : i \in DOMAIN journal' /\ journal'[i] = journal[i]
         /\ \A k \in DOMAIN events : /\ Len(journal) + k \in DOMAIN journal'
                                     /\ journal'[Len(journal) + k] = events[k]
         /\ \A i \in DOMAIN journal' :
              \/ i \in DOMAIN journal
              \/ \E k \in DOMAIN events : i = Len(journal) + k /\ journal'[i] = events[k]
<1>2. /\ Len(journal) \in Nat /\ Len(events) \in Nat
      /\ DOMAIN journal = 1..Len(journal) /\ DOMAIN events = 1..Len(events)
      /\ DOMAIN journal' = 1..(Len(journal) + Len(events))
      /\ \A i \in DOMAIN journal : i \in DOMAIN journal' /\ journal'[i] = journal[i]
      /\ \A k \in DOMAIN events : /\ Len(journal) + k \in DOMAIN journal'
                                  /\ journal'[Len(journal) + k] = events[k]
  BY Joined
<1>3. \A i \in DOMAIN journal' :
        \/ i \in DOMAIN journal
        \/ \E k \in DOMAIN events : i = Len(journal) + k /\ journal'[i] = events[k]
  BY JoinedIndex
<1>. QED  BY <1>2, <1>3

Silent(events, t) == \A k \in DOMAIN events : events[k].kind \in StepEvents => events[k].of # t

LEMMA SilentEvents ==
  ASSUME NEW events, Joins(journal', journal, events),
         NEW t, Silent(events, t)
  PROVE  /\ EventsOf(t)' = EventsOf(t)
         /\ \A i \in EventsOf(t) : journal'[i] = journal[i]
         /\ ToldAsSkipped(t) => ToldAsSkipped(t)'
         /\ \A attempts : ToldAsTried(t, attempts) => ToldAsTried(t, attempts)'
<1>1. \A i \in DOMAIN journal : i \in DOMAIN journal' /\ journal'[i] = journal[i]
  BY Longer
<1>2. \A i \in DOMAIN journal' : \/ i \in DOMAIN journal
                                 \/ \E k \in DOMAIN events : journal'[i] = events[k]
  BY Longer
<1>3. EventsOf(t)' = EventsOf(t)
  BY <1>1, <1>2 DEF EventsOf, Silent
<1>4. \A i \in EventsOf(t) : journal'[i] = journal[i] /\ i \in DOMAIN journal'
  BY <1>1 DEF EventsOf
<1>5. ToldAsSkipped(t) => ToldAsSkipped(t)'
  BY <1>1, <1>3 DEF ToldAsSkipped
<1>6. ASSUME NEW attempts, ToldAsTried(t, attempts) PROVE ToldAsTried(t, attempts)'
  <2>1. PICK start \in DOMAIN journal :
          /\ EventsOf(t) = start..(start + 2 * attempts - 1)
          /\ \A i \in EventsOf(t) :
               LET n == i - start + 1
               IN /\ journal[i].attempt = (n + 1) \div 2
                  /\ journal[i].kind = "StepStarted" <=> n % 2 = 1
                  /\ n % 2 = 0 /\ n < 2 * attempts => journal[i].kind = "StepFailed"
    BY <1>6 DEF ToldAsTried
  <2>2. start \in DOMAIN journal'
    BY <1>1
  <2>. QED  BY <1>3, <1>4, <2>1, <2>2 DEF ToldAsTried
<1>. QED  BY <1>3, <1>4, <1>5, <1>6

LEMMA JournaledIs ==
  ASSUME NEW kind, NEW x
  PROVE  x \in Journaled(kind) <=>
           \E i \in DOMAIN journal : journal[i].kind = kind /\ journal[i].of = x
BY DEF Journaled, ToSet

LEMMA NextJournaledIs ==
  ASSUME NEW kind, NEW x
  PROVE  x \in Journaled(kind)' <=>
           \E i \in DOMAIN journal' : journal'[i].kind = kind /\ journal'[i].of = x
BY DEF Journaled, ToSet

Listing(events, kind) == {events[k].of : k \in {k \in DOMAIN events : events[k].kind = kind}}

LEMMA LongerJournaled ==
  ASSUME NEW events, Joins(journal', journal, events),
         NEW kind
  PROVE  Journaled(kind)' = Journaled(kind) \cup Listing(events, kind)
<1>. DEFINE told == Listing(events, kind)
<1>1. ASSUME NEW x \in Journaled(kind)' PROVE x \in Journaled(kind) \cup told
  <2>1. PICK i \in DOMAIN journal' : journal'[i].kind = kind /\ journal'[i].of = x
    BY <1>1, NextJournaledIs
  <2>2. CASE i \in DOMAIN journal
    <3>1. journal'[i] = journal[i]
      BY <2>2, Longer
    <3>. QED  BY <2>1, <2>2, <3>1, JournaledIs
  <2>3. CASE i \notin DOMAIN journal
    <3>1. PICK k \in DOMAIN events : journal'[i] = events[k]
      BY <2>1, <2>3, Longer
    <3>. QED  BY <2>1, <3>1 DEF Listing
  <2>. QED  BY <2>2, <2>3
<1>2. ASSUME NEW x \in Journaled(kind) PROVE x \in Journaled(kind)'
  <2>1. PICK i \in DOMAIN journal : journal[i].kind = kind /\ journal[i].of = x
    BY <1>2, JournaledIs
  <2>2. i \in DOMAIN journal' /\ journal'[i] = journal[i]
    BY Longer
  <2>. QED  BY <2>1, <2>2, NextJournaledIs
<1>3. ASSUME NEW x \in told PROVE x \in Journaled(kind)'
  <2>1. PICK k \in DOMAIN events : events[k].kind = kind /\ events[k].of = x
    BY <1>3 DEF Listing
  <2>. DEFINE i == Len(journal) + k
  <2>2. i \in DOMAIN journal' /\ journal'[i] = events[k]
    BY <2>1, Longer
  <2>. HIDE DEF i
  <2>. QED  BY <2>1, <2>2, NextJournaledIs
<1>. QED  BY <1>1, <1>2, <1>3


------------------------------------------------------------------------------
(***************************************************************************)
(* What is journaled of a step s that settles after n attempts, in one     *)
(* piece: its attempts, the last of which ends as final says, and the      *)
(* steps of C, which are skipped with it.                                  *)
(***************************************************************************)
Attempted(events, s, n, final) ==
  \A k \in 1..(2 * n) :
    /\ k \in DOMAIN events /\ events[k].of = s /\ events[k].attempt = (k + 1) \div 2
    /\ events[k].kind = IF k % 2 = 1 THEN "StepStarted"
                        ELSE IF k < 2 * n THEN "StepFailed" ELSE final

Cascaded(events, n, C) ==
  /\ \A k \in DOMAIN events : k > 2 * n => events[k].kind = "StepSkipped" /\ events[k].of \in C
  /\ \A c \in C : \E k \in DOMAIN events : k > 2 * n /\ events[k].of = c
  /\ \A j, k \in DOMAIN events : j > 2 * n /\ k > 2 * n /\ events[j].of = events[k].of => j = k

Tells(events, s, n, final, C) ==
  /\ events \in Seq(Events) /\ n \in Nat \ {0} /\ s \notin C
  /\ final \in {"StepCompleted", "StepFailed", "StepSkipped"}
  /\ Attempted(events, s, n, final) /\ Cascaded(events, n, C)

LEMMA TrailAttempted ==
  ASSUME NEW s \in Steps, NEW n \in Nat \ {0}, NEW final \in EventKinds
  PROVE  LET told == Append(Trail(s, n), Event(final, s, n))
         IN  told \in Seq(Events) /\ Len(told) = 2 * n /\ Attempted(told, s, n, final)
<1>. DEFINE told == Append(Trail(s, n), Event(final, s, n))
<1>1. /\ told \in Seq(Events) /\ Trail(s, n) \in Seq(Events) /\ Len(Trail(s, n)) = 2 * n - 1
  BY TrailTyped
<1>2. Len(told) = 2 * n /\ DOMAIN told = 1..(2 * n)
  BY <1>1
<1>3. ASSUME NEW k \in 1..(2 * n), k < 2 * n
      PROVE  told[k] = Event(IF k % 2 = 1 THEN "StepStarted" ELSE "StepFailed", s, (k + 1) \div 2)
  <2>1. k \in 1..(2 * n - 1)
    BY <1>3
  <2>2. told[k] = Trail(s, n)[k]
    BY <1>1, <2>1
  <2>. QED  BY <2>1, <2>2 DEF Trail
<1>4. told[2 * n] = Event(final, s, n)
  BY <1>1
<1>5. (2 * n) % 2 = 0 /\ (2 * n + 1) \div 2 = n
  OBVIOUS
<1>. HIDE DEF told
<1>6. ASSUME NEW k \in 1..(2 * n)
      PROVE  /\ k \in DOMAIN told /\ told[k].of = s /\ told[k].attempt = (k + 1) \div 2
             /\ told[k].kind = IF k % 2 = 1 THEN "StepStarted"
                               ELSE IF k < 2 * n THEN "StepFailed" ELSE final
  <2>1. CASE k < 2 * n
    BY <1>2, <1>3, <2>1 DEF Event
  <2>2. CASE k = 2 * n
    <3>1. k % 2 = 0 /\ (k + 1) \div 2 = n /\ ~(k < 2 * n) /\ k % 2 # 1
      BY <1>5, <2>2
    <3>2. /\ told[k].of = s /\ told[k].attempt = n /\ told[k].kind = final
      BY <1>4, <2>2 DEF Event
    <3>. QED  BY <1>2, <3>1, <3>2
  <2>. QED  BY <2>1, <2>2
<1>. QED  BY <1>1, <1>2, <1>6 DEF Attempted, told

(* A step that ends by itself tells of itself alone. *)
LEMMA TrailTells ==
  ASSUME NEW s \in Steps, NEW n \in Nat \ {0},
         NEW final \in {"StepCompleted", "StepFailed", "StepSkipped"}
  PROVE  Tells(Append(Trail(s, n), Event(final, s, n)), s, n, final, {})
<1>. DEFINE told == Append(Trail(s, n), Event(final, s, n))
<1>1. final \in EventKinds
  BY DEF EventKinds, StepEvents
<1>2. told \in Seq(Events) /\ Len(told) = 2 * n /\ Attempted(told, s, n, final)
  BY <1>1, TrailAttempted
<1>. HIDE DEF told
<1>3. Cascaded(told, n, {})
  <2>1. DOMAIN told = 1..(2 * n)
    BY <1>2
  <2>. QED  BY <2>1 DEF Cascaded
<1>. QED  BY <1>2, <1>3 DEF Tells, told

LEMMA FailureTells ==
  ASSUME Typed, NEW s \in Steps, in_flight[s] \in Nat \ {0}, s \notin Cascade(s),
         NEW cascade \in CascadeEvents(s)
  PROVE  Tells(FailureTrail(s) \o cascade, s, in_flight[s], "StepFailed",
               Cascade(s) \ books.skipped)
<1>. DEFINE n    == in_flight[s]
            K    == Cascade(s) \ books.skipped
            tail == FailureTrail(s)
            told == tail \o cascade
<1>1. tail \in Seq(Events) /\ Len(tail) = 2 * n /\ Attempted(tail, s, n, "StepFailed")
  <2>1. "StepFailed" \in EventKinds
    BY DEF EventKinds, StepEvents
  <2>. QED  BY <2>1, TrailAttempted DEF FailureTrail
<1>2. /\ cascade \in Seq(Events)
      /\ \A i \in DOMAIN cascade : cascade[i].kind = "StepSkipped" /\ cascade[i].of \in K
      /\ \A c \in K : \E i \in DOMAIN cascade : cascade[i].of = c
      /\ \A i, j \in DOMAIN cascade : cascade[i].of = cascade[j].of => i = j
  BY CascadeEventsTyped
<1>3. n \in Nat \ {0} /\ s \notin K
  OBVIOUS
<1>. HIDE DEF n, K, tail
<1>4. /\ told \in Seq(Events) /\ DOMAIN tail = 1..(2 * n)
      /\ DOMAIN told = 1..(2 * n + Len(cascade))
      /\ \A k \in 1..(2 * n) : told[k] = tail[k] /\ k \in DOMAIN told
      /\ \A k \in DOMAIN cascade : told[2 * n + k] = cascade[k] /\ 2 * n + k \in DOMAIN told
      /\ DOMAIN cascade = 1..Len(cascade) /\ Len(cascade) \in Nat
  <2>1. /\ Len(tail) = 2 * n /\ tail \in Seq(Events) /\ cascade \in Seq(Events)
        /\ Joins(told, tail, cascade)
    BY <1>1, <1>2 DEF Joins
  <2>. HIDE DEF told
  <2>2. /\ told \in Seq(Events) /\ DOMAIN tail = 1..Len(tail)
        /\ DOMAIN told = 1..(Len(tail) + Len(cascade))
        /\ \A k \in DOMAIN tail : told[k] = tail[k] /\ k \in DOMAIN told
        /\ \A k \in DOMAIN cascade : told[Len(tail) + k] = cascade[k] /\ Len(tail) + k \in DOMAIN told
        /\ DOMAIN cascade = 1..Len(cascade) /\ Len(cascade) \in Nat
    BY <2>1, Joined
  <2>. QED  BY <2>1, <2>2
<1>. HIDE DEF told
<1>5. Attempted(told, s, n, "StepFailed")
  BY <1>1, <1>3, <1>4 DEF Attempted
<1>6. ASSUME NEW k \in DOMAIN told, k > 2 * n
      PROVE  k - 2 * n \in DOMAIN cascade /\ told[k] = cascade[k - 2 * n]
  <2>. DEFINE i == k - 2 * n
  <2>1. i \in DOMAIN cascade /\ k = 2 * n + i
    BY <1>3, <1>4, <1>6
  <2>. HIDE DEF i
  <2>. QED  BY <1>4, <2>1 DEF i
<1>7. Cascaded(told, n, K)
  <2>1. \A k \in DOMAIN told : k > 2 * n => told[k].kind = "StepSkipped" /\ told[k].of \in K
    BY <1>2, <1>6
  <2>2. ASSUME NEW c \in K PROVE \E k \in DOMAIN told : k > 2 * n /\ told[k].of = c
    <3>1. PICK i \in DOMAIN cascade : cascade[i].of = c
      BY <1>2
    <3>2. 2 * n + i \in DOMAIN told /\ told[2 * n + i] = cascade[i] /\ 2 * n + i > 2 * n
      BY <1>3, <1>4
    <3>. QED  BY <3>1, <3>2
  <2>3. ASSUME NEW j \in DOMAIN told, NEW k \in DOMAIN told,
               j > 2 * n, k > 2 * n, told[j].of = told[k].of
        PROVE  j = k
    <3>1. j - 2 * n = k - 2 * n
      BY <1>2, <1>6, <2>3
    <3>. QED  BY <1>3, <1>4, <3>1
  <2>. QED  BY <2>1, <2>2, <2>3 DEF Cascaded
<1>. QED  BY <1>3, <1>4, <1>5, <1>7 DEF Tells, told, tail, n, K


(* Where the events of a piece are in the journal after it. *)
LEMMA PieceEvents ==
  ASSUME NEW events, Joins(journal', journal, events), NEW t, EventsOf(t) = {}
  PROVE  /\ \A i : i \in EventsOf(t)' =>
              \E k \in DOMAIN events : /\ i = Len(journal) + k /\ journal'[i] = events[k]
                                       /\ events[k].of = t /\ events[k].kind \in StepEvents
         /\ \A k \in DOMAIN events : events[k].of = t /\ events[k].kind \in StepEvents =>
              Len(journal) + k \in EventsOf(t)' /\ journal'[Len(journal) + k] = events[k]
<1>1. ASSUME NEW i \in EventsOf(t)'
      PROVE  \E k \in DOMAIN events : /\ i = Len(journal) + k /\ journal'[i] = events[k]
                                      /\ events[k].of = t /\ events[k].kind \in StepEvents
  <2>1. i \in DOMAIN journal' /\ journal'[i].of = t /\ journal'[i].kind \in StepEvents
    BY <1>1 DEF EventsOf
  <2>2. i \notin DOMAIN journal
    BY <2>1, Longer DEF EventsOf
  <2>3. PICK k \in DOMAIN events : i = Len(journal) + k /\ journal'[i] = events[k]
    BY <2>1, <2>2, Longer
  <2>. QED  BY <2>1, <2>3
<1>2. ASSUME NEW k \in DOMAIN events, events[k].of = t, events[k].kind \in StepEvents
      PROVE  Len(journal) + k \in EventsOf(t)' /\ journal'[Len(journal) + k] = events[k]
  <2>. DEFINE i == Len(journal) + k
  <2>1. i \in DOMAIN journal' /\ journal'[i] = events[k]
    BY Longer
  <2>. HIDE DEF i
  <2>2. i \in EventsOf(t)'
    BY <1>2, <2>1 DEF EventsOf
  <2>. QED  BY <2>1, <2>2 DEF i
<1>. QED  BY <1>1, <1>2

(* The k-th event of a step that is tried n times. *)
Tried(event, k, s, n, final) ==
  /\ event.of = s /\ event.kind \in StepEvents
  /\ event.attempt = (k + 1) \div 2 /\ (event.kind = "StepStarted" <=> k % 2 = 1)
  /\ (k % 2 = 0 /\ k < 2 * n => event.kind = "StepFailed")
  /\ (k = 2 * n => event.kind = final)

LEMMA AttemptedKinds ==
  ASSUME NEW events, NEW s, NEW n \in Nat \ {0}, NEW final, Attempted(events, s, n, final),
         final \in {"StepCompleted", "StepFailed", "StepSkipped"}, NEW k \in 1..(2 * n)
  PROVE  k \in DOMAIN events /\ Tried(events[k], k, s, n, final)
<1>1. /\ k \in DOMAIN events /\ events[k].of = s /\ events[k].attempt = (k + 1) \div 2
      /\ events[k].kind = IF k % 2 = 1 THEN "StepStarted"
                          ELSE IF k < 2 * n THEN "StepFailed" ELSE final
  BY DEF Attempted
<1>2. (2 * n) % 2 = 0
  OBVIOUS
<1>3. k = 2 * n => k % 2 # 1 /\ ~(k < 2 * n)
  BY <1>2
<1>. QED  BY <1>1, <1>3 DEF StepEvents, Tried

LEMMA TellsTried ==
  ASSUME NEW events, Joins(journal', journal, events), NEW s, NEW n, NEW final, NEW C,
         Tells(events, s, n, final, C), EventsOf(s) = {}
  PROVE  /\ EventsOf(s)' = (Len(journal) + 1)..(Len(journal) + 2 * n)
         /\ journal'[Len(journal) + 2 * n].kind = final
         /\ ToldAsTried(s, n)'
<1>. DEFINE m == Len(journal)
<1>1. /\ n \in Nat \ {0} /\ s \notin C /\ Attempted(events, s, n, final)
      /\ final \in {"StepCompleted", "StepFailed", "StepSkipped"}
      /\ \A k \in DOMAIN events : k > 2 * n => events[k].of \in C
  BY DEF Tells, Cascaded
<1>2. m \in Nat /\ DOMAIN events = 1..Len(events) /\ Len(events) \in Nat
  BY Longer
<1>3. ASSUME NEW k \in 1..(2 * n)
      PROVE  /\ m + k \in EventsOf(s)' /\ journal'[m + k] = events[k]
             /\ Tried(events[k], k, s, n, final)
  <2>1. k \in DOMAIN events /\ Tried(events[k], k, s, n, final)
    BY <1>1, AttemptedKinds
  <2>2. events[k].of = s /\ events[k].kind \in StepEvents
    BY <2>1 DEF Tried
  <2>. QED  BY <2>1, <2>2, PieceEvents
<1>4. ASSUME NEW i \in EventsOf(s)'
      PROVE  \E k \in 1..(2 * n) : i = m + k /\ journal'[i] = events[k]
  <2>1. PICK k \in DOMAIN events : i = m + k /\ journal'[i] = events[k] /\ events[k].of = s
    BY <1>4, PieceEvents
  <2>2. ~(k > 2 * n)
    BY <1>1, <2>1
  <2>3. k \in 1..(2 * n)
    BY <1>1, <1>2, <2>2
  <2>. QED  BY <2>1, <2>3
<1>. HIDE DEF m
<1>5. EventsOf(s)' = (m + 1)..(m + 2 * n)
  <2>1. \A i \in EventsOf(s)' : i \in (m + 1)..(m + 2 * n)
    BY <1>1, <1>2, <1>4
  <2>2. ASSUME NEW i \in (m + 1)..(m + 2 * n) PROVE i \in EventsOf(s)'
    <3>1. i - m \in 1..(2 * n) /\ m + (i - m) = i
      BY <1>1, <1>2
    <3>. QED  BY <1>3, <3>1
  <2>. QED  BY <2>1, <2>2
<1>6. journal'[m + 2 * n].kind = final
  <2>. DEFINE k == 2 * n
  <2>1. k \in 1..(2 * n) /\ k = 2 * n
    BY <1>1
  <2>. HIDE DEF k
  <2>2. journal'[m + k] = events[k] /\ Tried(events[k], k, s, n, final)
    BY <1>3, <2>1
  <2>3. events[k].kind = final
    BY <2>1, <2>2 DEF Tried
  <2>. QED  BY <2>1, <2>2, <2>3
<1>7. ASSUME NEW i \in EventsOf(s)'
      PROVE  LET k == i - (m + 1) + 1
             IN /\ journal'[i].attempt = (k + 1) \div 2
                /\ (journal'[i].kind = "StepStarted" <=> k % 2 = 1)
                /\ (k % 2 = 0 /\ k < 2 * n => journal'[i].kind = "StepFailed")
  <2>1. PICK k \in 1..(2 * n) : i = m + k /\ journal'[i] = events[k]
    BY <1>4
  <2>2. i - (m + 1) + 1 = k
    BY <1>1, <1>2, <2>1
  <2>3. /\ events[k].attempt = (k + 1) \div 2
        /\ (events[k].kind = "StepStarted" <=> k % 2 = 1)
        /\ (k % 2 = 0 /\ k < 2 * n => events[k].kind = "StepFailed")
    <3>1. Tried(events[k], k, s, n, final)
      BY <1>3
    <3>. QED  BY <3>1 DEF Tried
  <2>. QED  BY <2>1, <2>2, <2>3
<1>8. m + 1 \in DOMAIN journal' /\ (m + 1) + 2 * n - 1 = m + 2 * n
  <2>1. m + 1 \in EventsOf(s)'
    BY <1>1, <1>3
  <2>. QED  BY <1>1, <1>2, <2>1 DEF EventsOf
<1>9. ToldAsTried(s, n)'
  <2>. DEFINE start == m + 1
  <2>1. start \in DOMAIN journal' /\ EventsOf(s)' = start..(start + 2 * n - 1)
    BY <1>5, <1>8
  <2>2. \A i \in EventsOf(s)' :
          LET k == i - start + 1
          IN /\ journal'[i].attempt = (k + 1) \div 2
             /\ journal'[i].kind = "StepStarted" <=> k % 2 = 1
             /\ k % 2 = 0 /\ k < 2 * n => journal'[i].kind = "StepFailed"
    BY <1>7
  <2>. HIDE DEF start
  <2>. QED  BY <2>1, <2>2 DEF ToldAsTried
<1>. QED  BY <1>5, <1>6, <1>9 DEF m


LEMMA TellsSkipped ==
  ASSUME NEW events, Joins(journal', journal, events), NEW s, NEW n, NEW final, NEW C,
         Tells(events, s, n, final, C), NEW c \in C, EventsOf(c) = {}
  PROVE  ToldAsSkipped(c)'
<1>1. /\ n \in Nat \ {0} /\ s \notin C /\ Attempted(events, s, n, final)
      /\ \A k \in DOMAIN events : k > 2 * n => events[k].kind = "StepSkipped"
      /\ \A j, k \in DOMAIN events : j > 2 * n /\ k > 2 * n /\ events[j].of = events[k].of => j = k
  BY DEF Tells, Cascaded
<1>2. PICK k \in DOMAIN events : k > 2 * n /\ events[k].of = c
  BY DEF Tells, Cascaded
<1>3. DOMAIN events = 1..Len(events)
  BY Longer
<1>. DEFINE i == Len(journal) + k
<1>4. i \in EventsOf(c)' /\ journal'[i] = events[k]
  BY <1>1, <1>2, PieceEvents DEF StepEvents
<1>5. ASSUME NEW j \in EventsOf(c)' PROVE j = i
  <2>1. PICK l \in DOMAIN events : j = Len(journal) + l /\ events[l].of = c
    BY <1>5, PieceEvents
  <2>2. l > 2 * n
    <3>. SUFFICES ASSUME ~(l > 2 * n) PROVE FALSE
      OBVIOUS
    <3>1. l \in 1..(2 * n)
      BY <1>1, <1>3
    <3>2. events[l].of = s
      BY <1>1, <3>1 DEF Attempted
    <3>. QED  BY <1>1, <2>1, <3>2
  <2>3. l = k
    BY <1>1, <1>2, <2>1, <2>2
  <2>. QED  BY <2>1, <2>3
<1>. HIDE DEF i
<1>6. EventsOf(c)' = {i} /\ journal'[i].kind = "StepSkipped" /\ i \in DOMAIN journal'
  BY <1>1, <1>2, <1>4, <1>5 DEF EventsOf
<1>. QED  BY <1>6 DEF ToldAsSkipped

LEMMA TellsSilent ==
  ASSUME NEW events, NEW s, NEW n, NEW final, NEW C, Tells(events, s, n, final, C),
         NEW t, t # s, t \notin C
  PROVE  Silent(events, t)
<1>. SUFFICES ASSUME NEW k \in DOMAIN events PROVE events[k].of # t
  BY DEF Silent
<1>1. DOMAIN events = 1..Len(events) /\ Len(events) \in Nat /\ n \in Nat \ {0}
  BY DEF Tells
<1>2. CASE k > 2 * n
  BY <1>2 DEF Tells, Cascaded
<1>3. CASE ~(k > 2 * n)
  <2>1. k \in 1..(2 * n)
    BY <1>1, <1>3
  <2>. QED  BY <2>1 DEF Tells, Attempted
<1>. QED  BY <1>2, <1>3

(* The events of a piece that end a step. *)
LEMMA TellsKinds ==
  ASSUME NEW events, NEW s, NEW n, NEW final, NEW C, Tells(events, s, n, final, C)
  PROVE  /\ \A k \in DOMAIN events : events[k].kind = "StepStarted" => events[k].of = s /\ k <= 2 * n
         /\ \A k \in DOMAIN events : events[k].kind = "StepCompleted" =>
              events[k].of = s /\ final = "StepCompleted"
         /\ \A k \in DOMAIN events : events[k].kind = "StepSkipped" =>
              events[k].of \in C \/ (events[k].of = s /\ final = "StepSkipped")
         /\ \A c \in C : \E k \in DOMAIN events : events[k].kind = "StepSkipped" /\ events[k].of = c
         /\ \E k \in DOMAIN events : events[k].kind = final /\ events[k].of = s
<1>1. /\ n \in Nat \ {0} /\ Attempted(events, s, n, final)
      /\ final \in {"StepCompleted", "StepFailed", "StepSkipped"}
      /\ \A k \in DOMAIN events : k > 2 * n => events[k].kind = "StepSkipped" /\ events[k].of \in C
  BY DEF Tells, Cascaded
<1>2. DOMAIN events = 1..Len(events) /\ Len(events) \in Nat
  BY DEF Tells
<1>3. ASSUME NEW k \in DOMAIN events
      PROVE  \/ k > 2 * n /\ events[k].kind = "StepSkipped" /\ events[k].of \in C
             \/ /\ k \in 1..(2 * n) /\ events[k].of = s /\ k <= 2 * n
                /\ events[k].kind \in {"StepStarted", "StepFailed", final}
  <2>1. CASE k > 2 * n
    BY <1>1, <2>1
  <2>2. CASE ~(k > 2 * n)
    <3>1. k \in 1..(2 * n) /\ k <= 2 * n
      BY <1>1, <1>2, <2>2
    <3>2. /\ events[k].of = s
          /\ events[k].kind = IF k % 2 = 1 THEN "StepStarted"
                              ELSE IF k < 2 * n THEN "StepFailed" ELSE final
      BY <1>1, <3>1 DEF Attempted
    <3>. QED  BY <3>1, <3>2
  <2>. QED  BY <2>1, <2>2
<1>4. \E k \in DOMAIN events : events[k].kind = final /\ events[k].of = s
  <2>. DEFINE k == 2 * n
  <2>1. k \in 1..(2 * n) /\ k = 2 * n
    BY <1>1
  <2>. HIDE DEF k
  <2>2. k \in DOMAIN events /\ Tried(events[k], k, s, n, final)
    BY <1>1, <2>1, AttemptedKinds
  <2>. QED  BY <2>1, <2>2 DEF Tried
<1>5. \A c \in C : \E k \in DOMAIN events : events[k].kind = "StepSkipped" /\ events[k].of = c
  <2>. SUFFICES ASSUME NEW c \in C
                PROVE  \E k \in DOMAIN events : events[k].kind = "StepSkipped" /\ events[k].of = c
    OBVIOUS
  <2>1. PICK k \in DOMAIN events : k > 2 * n /\ events[k].of = c
    BY DEF Tells, Cascaded
  <2>. QED  BY <1>1, <2>1
<1>6. /\ \A k \in DOMAIN events : events[k].kind = "StepStarted" => events[k].of = s /\ k <= 2 * n
      /\ \A k \in DOMAIN events : events[k].kind = "StepCompleted" =>
           events[k].of = s /\ final = "StepCompleted"
      /\ \A k \in DOMAIN events : events[k].kind = "StepSkipped" =>
           events[k].of \in C \/ (events[k].of = s /\ final = "StepSkipped")
  BY <1>1, <1>3
<1>. QED  BY <1>4, <1>5, <1>6

LEMMA TellsJournaled ==
  ASSUME NEW events, Joins(journal', journal, events), NEW s, NEW n, NEW final, NEW C,
         Tells(events, s, n, final, C)
  PROVE  /\ Journaled("StepCompleted")' = Journaled("StepCompleted")
              \cup (IF final = "StepCompleted" THEN {s} ELSE {})
         /\ Journaled("StepSkipped")' = Journaled("StepSkipped") \cup C
              \cup (IF final = "StepSkipped" THEN {s} ELSE {})
<1>1. Listing(events, "StepCompleted")
        = IF final = "StepCompleted" THEN {s} ELSE {}
  BY TellsKinds DEF Listing
<1>2. Listing(events, "StepSkipped")
        = C \cup IF final = "StepSkipped" THEN {s} ELSE {}
  BY TellsKinds DEF Listing
<1>. QED  BY <1>1, <1>2, LongerJournaled


------------------------------------------------------------------------------
(***************************************************************************)
(* The invariant of the journal of a run.  The checks of a run hold it     *)
(* once the checkpoint is replayed; it holds before, too.                  *)
(***************************************************************************)
FailedAtLast(t) == \E i \in EventsOf(t) :
                     journal[i].kind = "StepFailed" /\ \A j \in EventsOf(t) : j <= i

ToldAreBooked ==
  \A t \in Steps : EventsOf(t) # {} => t \in books.completed \cup books.failed \cup books.skipped

BookedAreTold ==
  /\ books.completed = run.base.completed \cup Journaled("StepCompleted")
  /\ books.failed    = run.base.failed \cup {t \in Steps : FailedAtLast(t)}
  /\ books.skipped   = run.base.skipped \cup Journaled("StepSkipped")

ToldInOrder ==
  \A t \in Steps : \/ EventsOf(t) = {} \/ ToldAsSkipped(t)
                   \/ \E attempts \in 1..(1 + plan.retries) : ToldAsTried(t, attempts)

CausesFirst ==
  \A i \in DOMAIN journal : journal[i].kind = "StepStarted" =>
    \A d \in plan.deps[journal[i].of] :
      \/ d \in run.base.completed \cup run.base.skipped
      \/ \E j \in 1..(i - 1) : /\ journal[j].of = d
                               /\ journal[j].kind \in {"StepCompleted", "StepSkipped"}

Told == ToldAreBooked /\ BookedAreTold /\ ToldInOrder

WithinRetries == \A s \in DOMAIN in_flight : in_flight[s] <= 1 + plan.retries

JournalOK == /\ run.pc # "idle" => Told
             /\ WithinRetries

(* Causes come first as long as no step is refused its allocation.         *)
CausesOK == run.pc # "idle" => CausesFirst

LEMMA JournalIsSound ==
  /\ JournalOK => JournalTellsBooks /\ AttemptsInOrder
  /\ CausesOK => JournalCausal
<1>1. JournalOK => JournalTellsBooks
  BY DEF JournalOK, Told, JournalTellsBooks, BookedAreTold, FailedAtLast, Replayed
<1>2. CausesOK => JournalCausal
  BY DEF CausesOK, JournalCausal, CausesFirst, Replayed
<1>3. JournalOK => AttemptsInOrder
  BY DEF JournalOK, Told, AttemptsInOrder, ToldInOrder, Replayed
<1>. QED  BY <1>1, <1>2, <1>3

(* A step that a piece says nothing of. *)
LEMMA SilentFailed ==
  ASSUME NEW events, Joins(journal', journal, events), NEW t, Silent(events, t)
  PROVE  FailedAtLast(t)' <=> FailedAtLast(t)
<1>1. EventsOf(t)' = EventsOf(t) /\ \A i \in EventsOf(t) : journal'[i] = journal[i]
  BY SilentEvents
<1>. QED  BY <1>1 DEF FailedAtLast

LEMMA SkippedNotFailed == ASSUME NEW t, ToldAsSkipped(t) PROVE ~FailedAtLast(t)
BY DEF ToldAsSkipped, FailedAtLast

LEMMA TriedFailed ==
  ASSUME NEW events, Joins(journal', journal, events), NEW s, NEW n, NEW final, NEW C,
         Tells(events, s, n, final, C), EventsOf(s) = {}
  PROVE  FailedAtLast(s)' <=> final = "StepFailed"
<1>. DEFINE first == Len(journal) + 1
            end  == Len(journal) + 2 * n
<1>1. EventsOf(s)' = first..end /\ journal'[end].kind = final
  BY TellsTried
<1>2. first \in Nat /\ end \in Nat /\ end \in first..end
  BY Longer DEF Tells
<1>. HIDE DEF first, end
<1>3. \A i \in first..end : (\A j \in first..end : j <= i) <=> i = end
  BY <1>2
<1>. QED  BY <1>1, <1>2, <1>3 DEF FailedAtLast

LEMMA CausesKept ==
  ASSUME NEW events, Joins(journal', journal, events), BookedAreTold, CausesFirst,
         UNCHANGED <<plan, run.base>>,
         \A k \in DOMAIN events : events[k].kind = "StepStarted" =>
           plan.deps[events[k].of] \subseteq books.completed \cup books.skipped
  PROVE  CausesFirst'
<1>. SUFFICES ASSUME NEW i \in DOMAIN journal', journal'[i].kind = "StepStarted",
                     NEW d \in plan.deps[journal'[i].of],
                     d \notin run.base.completed \cup run.base.skipped
              PROVE  \E j \in 1..(i - 1) : /\ journal'[j].of = d
                                           /\ journal'[j].kind \in {"StepCompleted", "StepSkipped"}
  BY DEF CausesFirst
<1>0. /\ Len(journal) \in Nat /\ DOMAIN journal = 1..Len(journal)
      /\ \A j \in DOMAIN journal : journal'[j] = journal[j]
  BY Longer
<1>1. CASE i \in DOMAIN journal
  <2>1. PICK j \in 1..(i - 1) : /\ journal[j].of = d
                                /\ journal[j].kind \in {"StepCompleted", "StepSkipped"}
    BY <1>0, <1>1 DEF CausesFirst
  <2>2. j \in DOMAIN journal
    BY <1>0, <1>1, <2>1
  <2>. QED  BY <1>0, <2>1, <2>2
<1>2. CASE i \notin DOMAIN journal
  <2>1. PICK k \in DOMAIN events : i = Len(journal) + k /\ journal'[i] = events[k]
    BY <1>2, Longer
  <2>2. d \in Journaled("StepCompleted") \cup Journaled("StepSkipped")
    BY <2>1 DEF BookedAreTold
  <2>3. PICK j \in DOMAIN journal : /\ journal[j].of = d
                                    /\ journal[j].kind \in {"StepCompleted", "StepSkipped"}
    BY <2>2, JournaledIs
  <2>4. j \in 1..(i - 1)
    <3>1. k \in Nat \ {0}
      BY Longer
    <3>. QED  BY <1>0, <2>1, <2>3, <3>1
  <2>. QED  BY <1>0, <2>3, <2>4
<1>. QED  BY <1>1, <1>2

(* What is no event of a step tells nothing new. *)
LEMMA QuietTold ==
  ASSUME NEW events, Joins(journal', journal, events), Told,
         \A k \in DOMAIN events : events[k].kind \notin StepEvents,
         UNCHANGED <<plan, run.base, books>>
  PROVE  Told'
<1>1. \A t : Silent(events, t)
  BY DEF Silent
<1>2. /\ \A t : EventsOf(t)' = EventsOf(t)
      /\ \A t : ToldAsSkipped(t) => ToldAsSkipped(t)'
      /\ \A t, attempts : ToldAsTried(t, attempts) => ToldAsTried(t, attempts)'
      /\ \A t : FailedAtLast(t)' <=> FailedAtLast(t)
  BY <1>1, SilentEvents, SilentFailed
<1>3. /\ Journaled("StepCompleted")' = Journaled("StepCompleted")
      /\ Journaled("StepSkipped")' = Journaled("StepSkipped")
  <2>1. /\ Listing(events, "StepCompleted") = {}
        /\ Listing(events, "StepSkipped") = {}
    BY DEF StepEvents, Listing
  <2>. QED  BY <2>1, LongerJournaled
<1>5. ToldAreBooked'
  BY <1>2 DEF Told, ToldAreBooked
<1>6. BookedAreTold'
  BY <1>2, <1>3 DEF Told, BookedAreTold
<1>7. ToldInOrder'
  BY <1>2 DEF Told, ToldInOrder
<1>. QED  BY <1>5, <1>6, <1>7 DEF Told


------------------------------------------------------------------------------
(* A step that settles is told in one piece, with what is skipped with it. *)
Settling(s, events, final, C) ==
  /\ Joins(journal', journal, events) /\ Tells(events, s, in_flight[s], final, C)
  /\ C \subseteq Steps /\ C \cap books.skipped = {}
  /\ books'.completed = books.completed \cup (IF final = "StepCompleted" THEN {s} ELSE {})
  /\ books'.failed    = books.failed \cup (IF final = "StepFailed" THEN {s} ELSE {})
  /\ books'.skipped   = books.skipped \cup C \cup (IF final = "StepSkipped" THEN {s} ELSE {})

LEMMA LoopJournals ==
  ASSUME Typed, run.pc = "wait", NEW r, NEW due, NEW events \in Seq(Events),
         LoopWith(r, due, events)
  PROVE  Joins(journal', journal, events)
BY DEF LoopWith, Write, Joins, Typed, RunTyped

LEMMA SettlesTells ==
  ASSUME Typed, PoolOK, BooksSettled, NEW s \in Steps, Settles(s)
  PROVE  \E events, final, C : Settling(s, events, final, C)
<1>1. in_flight[s] \in Nat \ {0} /\ run.pc = "wait" /\ run.seed = Nothing /\ books \in Settlements
  BY SettleFacts DEF Settles, Settle, Typed, BooksTyped
<1>2. CASE SettleCompleted(s)
  <2>. DEFINE told == Append(Trail(s, in_flight[s]), Event("StepCompleted", s, in_flight[s]))
  <2>1. Tells(told, s, in_flight[s], "StepCompleted", {})
    BY <1>1, TrailTells
  <2>2. \E r, due : LoopWith(r, due, told)
    BY <1>2 DEF SettleCompleted
  <2>. HIDE DEF told
  <2>3. Joins(journal', journal, told)
    BY <1>1, <2>1, <2>2, LoopJournals DEF Tells
  <2>4. books' = [books EXCEPT !.completed = @ \cup {s}]
    BY <1>2 DEF SettleCompleted
  <2>5. Settling(s, told, "StepCompleted", {})
    BY <1>1, <2>1, <2>3, <2>4 DEF Settling, Settlements
  <2>. QED  BY <2>5
<1>3. CASE SettleSkipped(s)
  <2>. DEFINE told == Append(Trail(s, in_flight[s]), Event("StepSkipped", s, in_flight[s]))
  <2>1. Tells(told, s, in_flight[s], "StepSkipped", {})
    BY <1>1, TrailTells
  <2>2. \E r, due : LoopWith(r, due, told)
    BY <1>3 DEF SettleSkipped
  <2>. HIDE DEF told
  <2>3. Joins(journal', journal, told)
    BY <1>1, <2>1, <2>2, LoopJournals DEF Tells
  <2>4. books' = [books EXCEPT !.skipped = @ \cup {s}]
    BY <1>3 DEF SettleSkipped
  <2>5. Settling(s, told, "StepSkipped", {})
    BY <1>1, <2>1, <2>3, <2>4 DEF Settling, Settlements
  <2>. QED  BY <2>5
<1>4. CASE SettleFailed(s)
  <2>1. PICK cascade \in CascadeEvents(s) :
          \E r, due : LoopWith(r, due, FailureTrail(s) \o cascade)
    BY <1>4 DEF SettleFailed
  <2>2. s \notin Cascade(s)
    <3>1. s \in running
      BY <1>1, <1>4, SettleFacts DEF Settle, PoolOK
    <3>. QED  BY <1>1, <3>1, RunningUnbooked
  <2>. DEFINE told == FailureTrail(s) \o cascade
              K    == Cascade(s) \ books.skipped
  <2>3. Tells(told, s, in_flight[s], "StepFailed", K)
    BY <1>1, <2>2, FailureTells
  <2>4. K \subseteq Steps
    BY DEF Cascade, DownstreamIn, Typed, SetsTyped
  <2>. HIDE DEF told
  <2>5. Joins(journal', journal, told)
    BY <1>1, <2>1, <2>3, LoopJournals DEF Tells, told
  <2>6. books' = [books EXCEPT !.failed = @ \cup {s}, !.skipped = @ \cup Cascade(s)]
    BY <1>4 DEF SettleFailed
  <2>7. Settling(s, told, "StepFailed", K)
    BY <1>1, <2>3, <2>4, <2>5, <2>6 DEF Settling, Settlements
  <2>. QED  BY <2>7
<1>. QED  BY <1>2, <1>3, <1>4 DEF Settles


LEMMA SettlingTold ==
  ASSUME NEW s \in Steps, NEW events, NEW final, NEW C, Settling(s, events, final, C), Told,
         EventsOf(s) = {}, \A c \in C : EventsOf(c) = {}, in_flight[s] <= 1 + plan.retries,
         plan.retries \in Nat, UNCHANGED <<plan, run.base>>
  PROVE  Told'
<1>0. PICK n : n = in_flight[s]
  OBVIOUS
<1>1. /\ Joins(journal', journal, events) /\ Tells(events, s, n, final, C)
      /\ C \subseteq Steps /\ n \in Nat \ {0} /\ s \notin C
      /\ final \in {"StepCompleted", "StepFailed", "StepSkipped"}
  BY <1>0 DEF Settling, Tells
<1>2. /\ books'.completed = books.completed \cup (IF final = "StepCompleted" THEN {s} ELSE {})
      /\ books'.failed    = books.failed \cup (IF final = "StepFailed" THEN {s} ELSE {})
      /\ books'.skipped   = books.skipped \cup C \cup (IF final = "StepSkipped" THEN {s} ELSE {})
  BY DEF Settling
<1>3. n \in 1..(1 + plan.retries)
  BY <1>0, <1>1
<1>4. ToldAsTried(s, n)' /\ (FailedAtLast(s)' <=> final = "StepFailed")
  <2>1. ToldAsTried(s, n)'
    BY <1>1, TellsTried
  <2>2. FailedAtLast(s)' <=> final = "StepFailed"
    BY <1>1, TriedFailed
  <2>. QED  BY <2>1, <2>2
<1>5. \A c \in C : ToldAsSkipped(c)'
  BY <1>1, TellsSkipped
<1>6. \A c \in C : ~FailedAtLast(c)' /\ ~FailedAtLast(c)
  BY <1>5 DEF ToldAsSkipped, FailedAtLast
<1>7. ASSUME NEW t \in Steps, t # s, t \notin C
      PROVE  /\ EventsOf(t)' = EventsOf(t) /\ (FailedAtLast(t)' <=> FailedAtLast(t))
             /\ ToldAsSkipped(t) => ToldAsSkipped(t)'
             /\ \A attempts : ToldAsTried(t, attempts) => ToldAsTried(t, attempts)'
  <2>1. Silent(events, t)
    BY <1>1, <1>7, TellsSilent
  <2>. QED  BY <1>1, <2>1, SilentEvents, SilentFailed
<1>8. ToldAreBooked'
  BY <1>1, <1>2, <1>7 DEF Told, ToldAreBooked
<1>9. ToldInOrder'
  <2>. SUFFICES ASSUME NEW t \in Steps
                PROVE  \/ EventsOf(t)' = {} \/ ToldAsSkipped(t)'
                       \/ \E attempts \in 1..(1 + plan.retries) : ToldAsTried(t, attempts)'
    BY DEF ToldInOrder
  <2>1. CASE t = s
    BY <1>3, <1>4, <2>1
  <2>2. CASE t \in C
    BY <1>5, <2>2
  <2>3. CASE t # s /\ t \notin C
    <3>1. \/ EventsOf(t) = {} \/ ToldAsSkipped(t)
          \/ \E attempts \in 1..(1 + plan.retries) : ToldAsTried(t, attempts)
      BY DEF Told, ToldInOrder
    <3>3. (EventsOf(t) = {} => EventsOf(t)' = {}) /\ (ToldAsSkipped(t) => ToldAsSkipped(t)')
      BY <1>7, <2>3
    <3>4. (\E attempts \in 1..(1 + plan.retries) : ToldAsTried(t, attempts))
            => \E attempts \in 1..(1 + plan.retries) : ToldAsTried(t, attempts)'
      BY <1>7, <2>3
    <3>. QED  BY <3>1, <3>3, <3>4
  <2>. QED  BY <2>1, <2>2, <2>3
<1>10. BookedAreTold'
  <2>1. /\ Journaled("StepCompleted")' = Journaled("StepCompleted")
             \cup (IF final = "StepCompleted" THEN {s} ELSE {})
        /\ Journaled("StepSkipped")' = Journaled("StepSkipped") \cup C
             \cup (IF final = "StepSkipped" THEN {s} ELSE {})
    BY <1>1, TellsJournaled
  <2>2. ~FailedAtLast(s)
    BY DEF FailedAtLast
  <2>3. {t \in Steps : FailedAtLast(t)'}
          = {t \in Steps : FailedAtLast(t)} \cup (IF final = "StepFailed" THEN {s} ELSE {})
    BY <1>4, <1>6, <1>7, <2>2
  <2>4. /\ books.completed = run.base.completed \cup Journaled("StepCompleted")
        /\ books.failed    = run.base.failed \cup {t \in Steps : FailedAtLast(t)}
        /\ books.skipped   = run.base.skipped \cup Journaled("StepSkipped")
    BY DEF Told, BookedAreTold
  <2>5. /\ books'.completed = run'.base.completed \cup Journaled("StepCompleted")'
        /\ books'.failed    = run'.base.failed \cup {t \in Steps : FailedAtLast(t)'}
        /\ books'.skipped   = run'.base.skipped \cup Journaled("StepSkipped")'
    BY <1>2, <2>1, <2>3, <2>4
  <2>. QED  BY <2>5 DEF BookedAreTold
<1>. QED  BY <1>8, <1>9, <1>10 DEF Told


(***************************************************************************)
(* The steps of the executor, as far as the journal goes.                  *)
(***************************************************************************)
LEMMA SettlesJournal ==
  ASSUME Typed, PoolOK, BooksSettled, JournalOK, NEW s \in Steps, Settles(s)
  PROVE  JournalOK'
<1>1. PICK events, final, C : Settling(s, events, final, C)
  BY SettlesTells
<1>2. /\ run'.pc \in {"top", "emit"} /\ run'.seed = Nothing /\ run'.base = run.base
      /\ run.pc = "wait" /\ run.seed = Nothing /\ s \in DOMAIN in_flight /\ Others(s)
  BY SettlesRun
<1>3. Told /\ WithinRetries /\ s \in running
  BY <1>2 DEF JournalOK, PoolOK
<1>4. UNCHANGED plan
  BY SettleFacts DEF Settles, Settle
<1>5. Apart(books')
  BY SettlesBooks DEF BooksSettled
<1>6. s \notin InBooks
  BY <1>2, <1>3, RunningUnbooked
<1>7. C \cap InBooks = {}
  BY <1>1, <1>5 DEF Settling, Apart, InBooks
<1>8. Told'
  <2>1. EventsOf(s) = {} /\ \A c \in C : EventsOf(c) = {}
    BY <1>1, <1>3, <1>6, <1>7 DEF Told, ToldAreBooked, Settling, InBooks
  <2>2. in_flight[s] <= 1 + plan.retries
    BY <1>2, <1>3 DEF WithinRetries
  <2>3. plan.retries \in Nat
    BY NeedTyped
  <2>. QED  BY <1>1, <1>2, <1>3, <1>4, <2>1, <2>2, <2>3, SettlingTold
<1>9. WithinRetries'
  BY <1>2, <1>3, <1>4 DEF WithinRetries, Others
<1>. QED  BY <1>8, <1>9 DEF JournalOK

ToldAlike == UNCHANGED <<plan, run.base, books, journal>>

LEMMA QuietJournal ==
  ASSUME JournalOK, ToldAlike, WithinRetries', run'.pc # "idle" => run.pc # "idle"
  PROVE  JournalOK'
<1>1. UNCHANGED plan /\ UNCHANGED run.base /\ UNCHANGED books /\ UNCHANGED journal
  BY DEF ToldAlike
<1>2. Told => Told'
  BY <1>1 DEF Told, ToldAreBooked, BookedAreTold, ToldInOrder, FailedAtLast, EventsOf,
     ToldAsSkipped, ToldAsTried, Journaled
<1>. QED  BY <1>2 DEF JournalOK


LEMMA BeginsJournal ==
  ASSUME Typed, PoolOK, Begins
  PROVE  JournalOK' /\ CausesOK'
<1>1. run'.base = books' /\ books' \in Settlements
  <2>1. run'.base = books'
    <3>1. ASSUME NEW p \in Plans, Execute(p) PROVE run'.base = books'
      <4>1. Write([NoRun EXCEPT !.pc = "top", !.exec = running_exec'], <<Event("ExecutionStarted", None, 0)>>)
        BY <3>1 DEF Execute
      <4>. QED  BY <3>1, <4>1 DEF Execute, Write, NoRun
    <3>2. ASSUME NEW c \in stored, Resume(c) PROVE run'.base = books'
      <4>1. Write([NoRun EXCEPT !.pc = "top", !.exec = c.exec, !.seed = c.state, !.base = c.state],
                  <<Event("ExecutionResumed", c.id, 0)>>)
        BY <3>2 DEF Resume
      <4>. QED  BY <3>2, <4>1 DEF Resume, Restored, Write, NoRun
    <3>. QED  BY <3>1, <3>2 DEF Begins
  <2>2. Typed'
    BY ExecuteTyped, ResumeTyped DEF Begins
  <2>. QED  BY <2>1, <2>2 DEF Typed, BooksTyped
<1>2. run.pc = "idle" /\ UNCHANGED in_flight /\ DOMAIN in_flight = {}
  BY DEF Begins, Execute, Resume, pool, Typed, PoolTyped
<1>3. PICK kind, of : kind \notin StepEvents /\ journal' = <<Event(kind, of, 0)>>
  <2>1. "ExecutionStarted" \notin StepEvents /\ "ExecutionResumed" \notin StepEvents
    BY DEF StepEvents
  <2>2. ASSUME NEW p \in Plans, Execute(p)
        PROVE  \E of : journal' = <<Event("ExecutionStarted", of, 0)>>
    BY <1>2, <2>2 DEF Execute, Write
  <2>3. ASSUME NEW c \in stored, Resume(c)
        PROVE  \E of : journal' = <<Event("ExecutionResumed", of, 0)>>
    BY <1>2, <2>3 DEF Resume, Write
  <2>. QED  BY <2>1, <2>2, <2>3 DEF Begins
<1>4. DOMAIN journal' = {1} /\ journal'[1].kind \notin StepEvents
  BY <1>3 DEF Event
<1>5. \A t : EventsOf(t)' = {}
  BY <1>4 DEF EventsOf
<1>6. \A k \in StepEvents : Journaled(k)' = {}
  BY <1>4, NextJournaledIs
<1>7. ToldAreBooked' /\ ToldInOrder' /\ CausesFirst'
  BY <1>4, <1>5 DEF ToldAreBooked, ToldInOrder, CausesFirst, StepEvents
<1>8. BookedAreTold'
  BY <1>1, <1>5, <1>6 DEF BookedAreTold, FailedAtLast, StepEvents
<1>9. WithinRetries'
  BY <1>2 DEF WithinRetries
<1>. QED  BY <1>7, <1>8, <1>9 DEF JournalOK, CausesOK, Told

LEMMA AdmitsJournal ==
  ASSUME Typed, PoolOK, JournalOK, Admits
  PROVE  JournalOK' /\ ToldAlike /\ run.pc # "idle"
<1>1. /\ run.pc # "idle" /\ run \in Runs
      /\ UNCHANGED <<plan, books, journal>>
      /\ UNCHANGED in_flight \/ in_flight' = Put(in_flight, Head(run.batch), 1)
  BY DEF Admits, AllocateRefused, mark_skipped, mark_settled, Admit, At, inner, sets, fields, pool,
         Elsewhere, kept, Typed, RunTyped
<1>2. run'.base = run.base
  BY <1>1 DEF Admits, AllocateRefused, Admit, Admitted, Runs
<1>5. ToldAlike
  BY <1>1, <1>2 DEF ToldAlike
<1>3. plan.retries \in Nat
  BY ExecutorAssumption DEF Typed, PlansTyped, ExecPlanOf
<1>4. WithinRetries'
  BY <1>1, <1>3 DEF JournalOK, WithinRetries, Put
<1>. QED  BY <1>1, <1>5, <1>4, QuietJournal

LEMMA BetweenKeeps ==
  ASSUME Typed, Between
  PROVE  UNCHANGED <<plan, run.base, books>> /\ (run'.pc = "idle" <=> run.pc = "idle")
<1>1. UNCHANGED <<inner, books, run.base>> /\ (run.pc = "idle" <=> run'.pc = "idle")
  BY BetweenCalm DEF Calm
<1>. QED  BY <1>1 DEF inner

(* A checkpoint is all that is journaled between the ends of two steps.    *)
LEMMA BetweenTells ==
  ASSUME Typed, Between
  PROVE  \E events : \/ UNCHANGED journal
                     \/ /\ Joins(journal', journal, events) /\ run.pc # "idle" /\ UNCHANGED in_flight
                        /\ \A k \in DOMAIN events : events[k].kind \notin StepEvents
<1>1. CASE Drain \/ Interval \/ EmitDue
  <2>1. PICK id \in Nat, next \in {"interval", "topup", "top"} : emit_checkpoint(id, next)
    <3>1. pending_checkpoint \in Nat /\ run.due \in Nat /\ FreshCheckpointId \in Nat
      BY FreshCheckpointIdTyped DEF Typed, FieldsTyped, RunTyped, Runs
    <3>. QED  BY <1>1, <3>1 DEF Drain, Interval, EmitDue
  <2>2. run.pc # "idle" /\ UNCHANGED in_flight
    BY <1>1 DEF Drain, Interval, EmitDue, At, pool
  <2>. DEFINE told == <<Event("CheckpointCreated", id, 0)>>
  <2>3. told \in Seq(Events) /\ \A k \in DOMAIN told : told[k].kind \notin StepEvents
    <3>1. "CheckpointCreated" \in EventKinds /\ "CheckpointCreated" \notin StepEvents
      BY DEF EventKinds, StepEvents
    <3>2. told \in Seq(Events)
      BY <3>1, OneEventTyped
    <3>3. DOMAIN told = {1} /\ told[1].kind = "CheckpointCreated"
      BY DEF Event
    <3>. QED  BY <3>1, <3>2, <3>3
  <2>4. journal' = journal \o told
    BY <2>1, <2>2 DEF emit_checkpoint, Write
  <2>. HIDE DEF told
  <2>5. Joins(journal', journal, told)
    BY <2>3, <2>4 DEF Joins, Typed, RunTyped
  <2>. QED  BY <2>2, <2>3, <2>5
<1>2. CASE ~(Drain \/ Interval \/ EmitDue)
  <2>1. UNCHANGED journal
    BY <1>2 DEF Between, Top, TopPaused, Unpaused, Onward, NoInterval, NoTopUp, Elsewhere, kept,
       Control, Pause, Unpause, Stop, checkpoint_now, Takes, TenantChecks, TenantPushes,
       TenantGives, Retry, Around
  <2>. QED  BY <2>1
<1>. QED  BY <1>1, <1>2

LEMMA BetweenRetries ==
  ASSUME Typed, WithinRetries, Between
  PROVE  WithinRetries'
<1>0. UNCHANGED plan
  BY BetweenKeeps
<1>1. UNCHANGED in_flight \/ \E s \in Steps : Retry(s)
  BY DEF Between, Top, TopPaused, Unpaused, Onward, NoInterval, NoTopUp, pool,
     Control, Pause, Unpause, Stop, checkpoint_now, Takes, TenantChecks, TenantPushes,
     TenantGives, Around, Drain, Interval, EmitDue
<1>2. CASE UNCHANGED in_flight
  BY <1>0, <1>2 DEF WithinRetries
<1>3. ASSUME NEW s \in Steps, Retry(s) PROVE WithinRetries'
  <2>1. /\ in_flight' = [in_flight EXCEPT ![s] = @ + 1] /\ in_flight[s] < 1 + plan.retries
        /\ s \in DOMAIN in_flight
    BY <1>3 DEF Retry, CanRetry
  <2>2. plan.retries \in Nat /\ in_flight[s] \in Nat
    BY <2>1, NeedTyped DEF Typed, PoolTyped
  <2>. QED  BY <1>0, <2>1, <2>2 DEF WithinRetries
<1>. QED  BY <1>1, <1>2, <1>3

LEMMA BetweenJournal ==
  ASSUME Typed, JournalOK, Between
  PROVE  JournalOK'
<1>0. /\ UNCHANGED <<plan, run.base, books>> /\ (run'.pc = "idle" <=> run.pc = "idle")
      /\ WithinRetries'
  BY BetweenKeeps, BetweenRetries DEF JournalOK
<1>1. PICK events : \/ UNCHANGED journal
                    \/ /\ Joins(journal', journal, events) /\ run.pc # "idle"
                       /\ \A k \in DOMAIN events : events[k].kind \notin StepEvents
  BY BetweenTells
<1>2. CASE UNCHANGED journal
  <2>1. ToldAlike
    BY <1>0, <1>2 DEF ToldAlike
  <2>. QED  BY <1>0, <2>1, QuietJournal
<1>3. CASE /\ Joins(journal', journal, events) /\ run.pc # "idle"
           /\ \A k \in DOMAIN events : events[k].kind \notin StepEvents
  <2>1. Told'
    BY <1>0, <1>3, QuietTold DEF JournalOK
  <2>. QED  BY <1>0, <2>1 DEF JournalOK
<1>. QED  BY <1>1, <1>2, <1>3

LEMMA TopUpTellsNothing ==
  ASSUME Typed, TopUp
  PROVE  ToldAlike /\ run.pc # "idle" /\ UNCHANGED in_flight
<1>1. run.pc # "idle" /\ run \in Runs
  BY DEF TopUp, At, Typed, RunTyped
<1>2. UNCHANGED <<plan, books, journal, in_flight>>
  BY DEF TopUp, next_steps, fields, pool, Elsewhere, kept
<1>3. UNCHANGED run.base
  BY <1>1 DEF TopUp, Runs
<1>. QED  BY <1>1, <1>2, <1>3 DEF ToldAlike

LEMMA ReplaysTellsNothing ==
  ASSUME Typed, NEW s \in Steps, Replays(s)
  PROVE  ToldAlike /\ run.pc # "idle" /\ UNCHANGED in_flight
<1>1. run.pc # "idle" /\ run \in Runs
  BY DEF Replays, SeedCompleted, SeedSkipped, SeedFailed, Nothing, Typed, RunTyped, NoRun
<1>2. PICK rest : Seeding(rest)
  BY DEF Replays, SeedCompleted, SeedSkipped, SeedFailed
<1>3. UNCHANGED <<books, journal, in_flight>> /\ UNCHANGED run.base
  BY <1>1, <1>2 DEF Seeding, fields, pool, kept, Runs
<1>4. UNCHANGED plan
  BY DEF Replays, SeedCompleted, SeedSkipped, SeedFailed, mark_completed, mark_skipped,
     mark_failed, mark_settled, sets
<1>. QED  BY <1>1, <1>3, <1>4 DEF ToldAlike

LEMMA NextJournal ==
  ASSUME Typed, PoolOK, BooksSettled, JournalOK, [Next]_vars
  PROVE  JournalOK'
<1>1. CASE UNCHANGED vars
  <2>1. UNCHANGED <<inner, run, books, journal, in_flight>>
    BY <1>1 DEF vars, fields, kept, pool
  <2>2. ToldAlike /\ run'.pc = run.pc
    BY <2>1 DEF ToldAlike, inner
  <2>3. WithinRetries'
    BY <2>1, <2>2 DEF JournalOK, WithinRetries, ToldAlike
  <2>. QED  BY <2>2, <2>3, QuietJournal
<1>2. ASSUME TopUp \/ \E s \in Steps : Replays(s) PROVE JournalOK' /\ ToldAlike /\ run.pc # "idle"
  <2>1. ToldAlike /\ run.pc # "idle" /\ UNCHANGED in_flight
    BY <1>2, TopUpTellsNothing, ReplaysTellsNothing
  <2>2. WithinRetries'
    BY <2>1 DEF JournalOK, WithinRetries, ToldAlike
  <2>. QED  BY <2>1, <2>2, QuietJournal
<1>3. CASE Ending
  <2>1. run'.pc = "idle" /\ in_flight' = <<>>
    BY <1>3, EndingStops DEF NoRun
  <2>. QED  BY <2>1 DEF JournalOK, WithinRetries
<1>4. ASSUME NEW s \in Steps, Settles(s) PROVE JournalOK'
  BY <1>4, SettlesJournal
<1>. QED  BY <1>1, <1>2, <1>3, <1>4, NextCases, BeginsJournal, AdmitsJournal, BetweenJournal

LEMMA InitJournal == Init => JournalOK /\ CausesOK
BY DEF Init, JournalOK, CausesOK, NoRun, WithinRetries

LEMMA AlwaysJournal == Spec => []JournalOK
<1>1. Init => JournalOK
  BY InitJournal
<1>2. (Typed /\ PoolOK) /\ BooksSettled /\ JournalOK /\ [Next]_vars => JournalOK'
  BY NextJournal
<1>. QED  BY <1>1, <1>2, AlwaysTyped, AlwaysBooks, PTL DEF Spec

------------------------------------------------------------------------------
(***************************************************************************)
(* Causes.  What a step in the pool depends on has ended, as long as no    *)
(* step was refused its allocation.                                        *)
(***************************************************************************)
LEMMA RunningAfterCauses ==
  ASSUME Typed, RunOK, NEW s \in running
  PROVE  plan.deps[s] \subseteq books.completed \cup books.skipped
<1>1. Sched!SoundInTheEnd = Done \cup (Skips \ Doomed)
  BY DoomedWait DEF RunOK
<1>2. plan.deps[s] \subseteq Sched!SoundInTheEnd
  BY DEF RunOK, Sched!IInv, Sched!SoundOK
<1>. QED  BY <1>1, <1>2 DEF RunOK, BooksFollow

LEMMA QuietCauses ==
  ASSUME CausesOK, ToldAlike, run'.pc # "idle" => run.pc # "idle"
  PROVE  CausesOK'
<1>1. UNCHANGED plan /\ UNCHANGED run.base /\ UNCHANGED journal
  BY DEF ToldAlike
<1>. QED  BY <1>1 DEF CausesOK, CausesFirst

LEMMA BetweenCauses ==
  ASSUME Typed, JournalOK, CausesOK, Between
  PROVE  CausesOK'
<1>1. /\ UNCHANGED <<plan, run.base, books>> /\ (run'.pc = "idle" <=> run.pc = "idle")
  BY BetweenKeeps
<1>2. PICK events : UNCHANGED journal \/ (/\ Joins(journal', journal, events) /\ run.pc # "idle"
                                         /\ \A k \in DOMAIN events : events[k].kind \notin StepEvents)
  BY BetweenTells
<1>3. CASE UNCHANGED journal
  <2>1. ToldAlike
    BY <1>1, <1>3 DEF ToldAlike
  <2>. QED  BY <1>1, <2>1, QuietCauses
<1>4. CASE /\ Joins(journal', journal, events) /\ run.pc # "idle"
           /\ \A k \in DOMAIN events : events[k].kind \notin StepEvents
  <2>1. BookedAreTold /\ CausesFirst
    BY <1>4 DEF JournalOK, Told, CausesOK
  <2>2. \A k \in DOMAIN events : events[k].kind # "StepStarted"
    BY <1>4 DEF StepEvents
  <2>3. CausesFirst'
    BY <1>1, <1>4, <2>1, <2>2, CausesKept
  <2>. QED  BY <2>3 DEF CausesOK
<1>. QED  BY <1>2, <1>3, <1>4

LEMMA SettlesCauses ==
  ASSUME Typed, PoolOK, BooksSettled, HistoryOK, JournalOK, CausesOK, NEW s \in Steps, Settles(s)
  PROVE  CausesOK'
<1>1. PICK events, final, C : Settling(s, events, final, C)
  BY SettlesTells
<1>2. /\ run'.base = run.base /\ run.pc = "wait" /\ run.seed = Nothing /\ s \in DOMAIN in_flight
  BY SettlesRun
<1>3. UNCHANGED plan
  BY SettleFacts DEF Settles, Settle
<1>4. RunOK /\ BookedAreTold /\ CausesFirst /\ s \in running
  BY <1>2 DEF HistoryOK, JournalOK, Told, CausesOK, PoolOK
<1>5. Joins(journal', journal, events) /\ Tells(events, s, in_flight[s], final, C)
  BY <1>1 DEF Settling
<1>6. \A k \in DOMAIN events : events[k].kind = "StepStarted" => events[k].of = s
  BY <1>5, TellsKinds
<1>7. plan.deps[s] \subseteq books.completed \cup books.skipped
  BY <1>4, RunningAfterCauses
<1>8. CausesFirst'
  BY <1>2, <1>3, <1>4, <1>5, <1>6, <1>7, CausesKept
<1>. QED  BY <1>8 DEF CausesOK

LEMMA NextCauses ==
  ASSUME Typed, PoolOK, BooksSettled, HistoryOK, JournalOK, CausesOK, [Next]_vars
  PROVE  CausesOK'
<1>1. CASE UNCHANGED vars
  <2>1. ToldAlike /\ run'.pc = run.pc
    BY <1>1 DEF vars, fields, kept, ToldAlike, inner
  <2>. QED  BY <2>1, QuietCauses
<1>2. ASSUME TopUp \/ \E s \in Steps : Replays(s) PROVE CausesOK'
  BY <1>2, TopUpTellsNothing, ReplaysTellsNothing, QuietCauses
<1>3. ASSUME Admits PROVE CausesOK'
  BY <1>3, AdmitsJournal, QuietCauses
<1>4. ASSUME Ending PROVE CausesOK'
  BY <1>4, EndingStops DEF NoRun, CausesOK
<1>5. ASSUME NEW s \in Steps, Settles(s) PROVE CausesOK'
  BY <1>5, SettlesCauses
<1>. QED  BY <1>1, <1>2, <1>3, <1>4, <1>5, NextCases, BeginsJournal, BetweenCauses

LEMMA AlwaysCauses == Spec /\ NeverRefused => []CausesOK
<1>1. Init => CausesOK /\ HistoryOK
  BY InitJournal, InitHistory
<1>2. (Typed /\ PoolOK) /\ BooksSettled /\ JournalOK /\ CausesOK /\ HistoryOK
        /\ [Next]_vars /\ [~AllocateRefused]_vars => (CausesOK /\ HistoryOK)'
  BY NextCauses, NextHistory
<1>. QED  BY <1>1, <1>2, AlwaysTyped, AlwaysBooks, AlwaysJournal, PTL DEF Spec, NeverRefused

------------------------------------------------------------------------------
(* The journal of a run, read on top of the checkpoint it was resumed      *)
(* from, tells at every point exactly what the executor has booked; and    *)
(* the pool holds what the scheduler believes to be running.               *)
THEOREM BooksAlwaysAgree == Spec => []BooksAgree
<1>1. JournalOK /\ (Typed /\ PoolOK) => BooksAgree
  BY JournalIsSound, PoolIsPoolIsRunning DEF BooksAgree
<1>. QED  BY <1>1, AlwaysJournal, AlwaysTyped, PTL

(* Of each step the journal of a run tells once, in one piece, with no     *)
(* more attempts than the policy allows.                                   *)
THEOREM AttemptsStayInOrder == Spec => []AttemptsInOrder
<1>1. JournalOK => AttemptsInOrder
  BY JournalIsSound
<1>. QED  BY <1>1, AlwaysJournal, PTL

(* The journal of a run is a possible history of it: no step starts before *)
(* what it depends on has ended.                                           *)
THEOREM JournalIsAHistory == Spec /\ NeverRefused => []JournalSound
<1>1. CausesOK => JournalCausal
  BY JournalIsSound
<1>2. JournalCausal /\ AttemptsInOrder => JournalSound
  BY DEF JournalSound
<1>. QED  BY <1>1, <1>2, AlwaysCauses, AttemptsStayInOrder, PTL

(* So it is with a manager without a cap ...                               *)
THEOREM JournalUncapped ==
  ASSUME Capacity = Unbounded
  PROVE  Spec => []JournalSound
<1>1. [Next]_vars => [~AllocateRefused]_vars
  BY DEF AllocateRefused, can_allocate
<1>2. Spec => NeverRefused
  BY <1>1, PTL DEF Spec, NeverRefused
<1>. QED  BY <1>2, JournalIsAHistory, PTL

(* ... and with a manager for as long as nobody else has used it.          *)
THEOREM JournalIsAHistoryAlone == Spec => [](Alone => JournalSound)
<1>1. Init => (Alone => CausesOK)
  BY InitJournal
<1>2. (Typed /\ PoolOK) /\ BooksSettled /\ JournalOK /\ (Alone => HistoryOK) /\ (Alone => CausesOK)
        /\ [Next]_vars => (Alone => CausesOK)'
  BY AloneStays, NextCauses
<1>3. AttemptsInOrder /\ (Alone => CausesOK) => (Alone => JournalSound)
  BY JournalIsSound DEF JournalSound
<1>. QED  BY <1>1, <1>2, <1>3, AlwaysTyped, AlwaysBooks, AlwaysJournal, AlwaysHistoryAlone,
             AttemptsStayInOrder, PTL DEF Spec
==============================================================================
