------------------------------ MODULE Scheduler ------------------------------
(***************************************************************************)
(* DefaultScheduler (crates/paramodel-executor/src/scheduler.rs): the step *)
(* sets behind its mutex and one operator per trait method.                *)
(*                                                                         *)
(* Abstracted: step and trial ids are naturals in the order the BTree      *)
(* containers keep them; the five resource dimensions are one; counters of *)
(* SchedulerStatistics, timestamps and reasons are left out.               *)
(***************************************************************************)
EXTENDS Naturals, FiniteSetsExt, PlanGraphs

CONSTANTS
  Policies,        \* the policies a scheduler may be made with
  Priorities       \* SchedulerPriority values a caller may set; Normal is 2

Normal == 2

ASSUME SchedulerAssumption ==
  /\ Steps \subseteq Nat /\ IsFiniteSet(Steps)
  /\ Policies \subseteq {"Fifo", "Priority", "Fair", "ResourceAware"}
  /\ Priorities \subseteq Nat /\ IsFiniteSet(Priorities) /\ Normal \in Priorities

(* deps: depends_on; need: resource_requirements; trial: index of trial_id *)
(* in trial_order; trials: length of trial_order.                          *)
IsPlan(p) == /\ {"deps", "need", "trial", "trials"} \subseteq DOMAIN p
             /\ p.deps \in [Steps -> SUBSET Steps]
             /\ p.need \in [Steps -> Nat] /\ p.trial \in [Steps -> Nat]
             /\ p.trials \in Nat \ {0}

VARIABLES
  policy,      \* SchedulingPolicy given to with_policy
  plan,        \* deps, dependents, requirements, trial_ids, trial_order
  pending, ready, running, completed, failed, skipped,
  priorities,  \* total: a step never set has Normal
  fair_cursor

sets  == <<pending, ready, running, completed, failed, skipped>>
inner == <<policy, plan, sets, priorities, fair_cursor>>

(* Mutant: the policy is ignored. *)
SortKey_by_id(s) == 0

(* The key an entry of the ready set is sorted by; ties go by step id.     *)
(* Fair deals one step per trial and round, starting at the cursor.        *)
SortKey(s) ==
  CASE policy = "Fifo"          -> 0
    [] policy = "Priority"      -> Max(Priorities) - priorities[s]
    [] policy = "ResourceAware" -> Max({plan.need[t] : t \in Steps}) - plan.need[s]
    [] policy = "Fair" ->
         LET turn  == (plan.trial[s] + plan.trials - fair_cursor) % plan.trials
             round == Cardinality({t \in ready : /\ plan.trial[t] = plan.trial[s]
                                                 /\ t < s})
         IN round * plan.trials + turn

Precedes(t, s) == SortKey(t) < SortKey(s) \/ (SortKey(t) = SortKey(s) /\ t < s)

Needed(S) == MapThenSumSet(LAMBDA s : plan.need[s], S)

(* Mutant: the snapshot is not deducted from. *)
fits_alone(s, picked, free) == plan.need[s] <= free

(* fits, after deduct for every step already picked.                       *)
fits(s, picked, free) == Needed(picked) + plan.need[s] <= free

(* What one pass over the sorted ready steps takes: a step is in when the  *)
(* batch still has room and it fits in what the earlier picks left.        *)
IsBatch(picked, max, free) ==
  \A s \in ready :
    s \in picked <=> LET earlier == {t \in picked : Precedes(t, s)}
                     IN Cardinality(earlier) < max /\ fits(s, earlier, free)

(* A scheduler that was made and not initialised yet, and its making.      *)
Blank == /\ policy \in Policies
         /\ pending = {} /\ ready = {} /\ running = {}
         /\ completed = {} /\ failed = {} /\ skipped = {}
         /\ priorities = [s \in Steps |-> Normal] /\ fair_cursor = 0

new == /\ pending' = {} /\ ready' = {} /\ running' = {}
       /\ completed' = {} /\ failed' = {} /\ skipped' = {}
       /\ priorities' = [s \in Steps |-> Normal] /\ fair_cursor' = 0
       /\ policy' \in Policies /\ UNCHANGED plan

(* Mutant: no default for a priority that was never set. *)
initialise_unset(p) == /\ plan' = p
                       /\ pending' = Steps /\ ready' = {s \in Steps : p.deps[s] = {}}
                       /\ running' = {} /\ completed' = {} /\ failed' = {} /\ skipped' = {}
                       /\ priorities' = <<>> /\ fair_cursor' = 0
                       /\ UNCHANGED policy

initialise(p) == /\ plan' = p
                 /\ pending' = Steps
                 /\ ready' = {s \in Steps : p.deps[s] = {}}
                 /\ running' = {} /\ completed' = {} /\ failed' = {} /\ skipped' = {}
                 /\ priorities' = [s \in Steps |-> Normal]
                 /\ fair_cursor' = 0
                 /\ UNCHANGED policy

next_steps(max, free) ==
  \E picked \in SUBSET ready :
    /\ IsBatch(picked, max, free)
    /\ ready' = ready \ picked
    /\ pending' = pending \ picked
    /\ running' = running \cup picked
    /\ fair_cursor' = IF policy = "Fair" THEN (fair_cursor + max) % plan.trials
                      ELSE fair_cursor
    /\ UNCHANGED <<policy, plan, completed, failed, skipped, priorities>>

(* Mutant: one settled dependency is enough. *)
Promoted_early(s, settled) == Dependents(plan.deps, {s}) \cap (pending \ {s})

(* The dependents promote_ready_for moves once s is settled.               *)
Promoted(s, settled) ==
  {d \in Dependents(plan.deps, {s}) \cap (pending \ {s}) : plan.deps[d] \subseteq settled}

(* Mutant: a step settled by a replay stays in pending and ready. *)
mark_settled_running(s, done, skips) ==
  LET promoted == Promoted(s, done \cup skips)
  IN /\ running' = running \ {s}
     /\ pending' = pending \ promoted /\ ready' = ready \cup promoted
     /\ completed' = done /\ skipped' = skips
     /\ UNCHANGED <<policy, plan, failed, priorities, fair_cursor>>

mark_settled(s, done, skips) ==
  LET promoted == Promoted(s, done \cup skips)
  IN /\ running' = running \ {s}
     /\ pending' = pending \ ({s} \cup promoted)
     /\ ready' = (ready \ {s}) \cup promoted
     /\ completed' = done /\ skipped' = skips
     /\ UNCHANGED <<policy, plan, failed, priorities, fair_cursor>>

mark_completed(s) == mark_settled(s, completed \cup {s}, skipped)

(* Mutant: a skipped step promotes nobody. *)
mark_skipped_alone(s) == /\ running' = running \ {s}
                         /\ pending' = pending \ {s} /\ ready' = ready \ {s}
                         /\ skipped' = skipped \cup {s}
                         /\ UNCHANGED <<policy, plan, completed, failed, priorities, fair_cursor>>

mark_skipped(s) == mark_settled(s, completed, skipped \cup {s})

(* Mutant: only direct dependents. *)
Cascade_direct(s) == Dependents(plan.deps, {s}) \cap (pending \cup ready)

(* The steps the depth-first walk over dependents removes from pending or  *)
(* ready: it goes on only from the steps it removed.                       *)
Cascade(s) == DownstreamIn(plan.deps, {s}, (pending \cup ready) \ {s})

mark_failed(s) ==
  LET hit == Cascade(s)
  IN /\ running' = running \ {s}
     /\ pending' = pending \ ({s} \cup hit)
     /\ ready' = ready \ ({s} \cup (hit \ pending))   \* pending.remove || ready.remove
     /\ failed' = failed \cup {s}
     /\ skipped' = skipped \cup hit
     /\ UNCHANGED <<policy, plan, completed, priorities, fair_cursor>>

set_priority(s, p) == /\ priorities' = [priorities EXCEPT ![s] = p]
                      /\ UNCHANGED <<policy, plan, sets, fair_cursor>>

(* The lifecycle status of every step, given the settled and running ones. *)
StatusIn(done, fail, skip, run) ==
  [s \in Steps |-> CASE s \in done -> "completed" [] s \in fail -> "failed"
                    [] s \in skip -> "skipped"   [] s \in run  -> "running"
                    [] OTHER     -> "waiting"]

is_complete == pending = {} /\ ready = {} /\ running = {}
==============================================================================
