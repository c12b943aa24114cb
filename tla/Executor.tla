------------------------------- MODULE Executor ------------------------------
(***************************************************************************)
(* DefaultExecutor (crates/paramodel-executor/src/executor.rs): the loop   *)
(* of run_to_completion with its in-flight pool, retries, checkpoints and  *)
(* journal, over the scheduler and the resource manager; the controls      *)
(* pause, unpause, stop and checkpoint_now, which other tasks call at any  *)
(* time; crashes, and a resume from any stored checkpoint.                 *)
(*                                                                         *)
(* run.pc names the point of the loop that is reached.  What lies between  *)
(* two points is one step: it reads what other tasks write either once or  *)
(* with nothing in between that could tell an earlier reading from a later *)
(* one.  One client at a time calls execute or resume.                     *)
(*                                                                         *)
(* Abstracted: a plan's fingerprint is the plan; time (an attempt that     *)
(* times out is one that fails, an interval may have elapsed or not);      *)
(* observers, statistics, metrics and artifacts; prepare, shutdown and     *)
(* the journal and checkpoint stores never fail.                           *)
(***************************************************************************)
EXTENDS Scheduler, Resources, SequencesExt

CONSTANTS
  Plans,         \* the plans a client may run, see ExecPlanOf
  MaxParallel,   \* with_parallelism
  Outcomes,      \* what an attempt at a step that touches an element may give
  Budget         \* bounds: how often each of Spendable may happen

NoOps == {"TrialStart", "TrialEnd", "Barrier", "Checkpoint"}
Kinds == NoOps \cup {"Deploy", "Teardown", "Await", "SaveOutput"}
Trialless == {"Deploy", "Teardown", "Barrier", "Checkpoint"}
Spendable == {"runs", "pauses", "stops", "requests", "crashes", "takes"}

(* trial: 0 for a step without trial_id, which those of kind Trialless are *)
(* and no others.  max_checkpoints: a large number for None.  retries: the *)
(* budget of OnFailure::Retry, 0 for Stop and Skip.                        *)
ExecPlanOf ==
  [deps : [Steps -> SUBSET Steps], need : [Steps -> Nat], trial : [Steps -> Nat],
   trials : Nat \ {0}, kind : [Steps -> Kinds],
   on_failure : {"Stop", "Skip", "Retry"}, retries : Nat,
   mode : {"Immediate", "AfterActiveTrials"}, partial : {"RetainResults", "FailRun"},
   interval : BOOLEAN, on_barriers : BOOLEAN, on_errors : BOOLEAN, max_checkpoints : Nat]

ASSUME ExecutorAssumption ==
  /\ Plans \subseteq ExecPlanOf /\ Plans # {}
  /\ \A p \in Plans :
       /\ Acyclic(p.deps) /\ (p.on_failure # "Retry" => p.retries = 0)
       /\ \A s \in Steps : p.trial[s] = 0 <=> p.kind[s] \in Trialless
  /\ MaxParallel \in Nat \ {0}
  /\ Outcomes \subseteq {"Completed", "Skipped", "Failed", "Error"}
  /\ Budget \in [Spendable -> Nat]

VARIABLES
  \* fields of DefaultExecutor
  running_exec,        \* running: the id of the execution, or None
  cancelled, paused,
  pending_checkpoint,  \* id of the checkpoint asked for, or None
  checkpoints,         \* ids of the handles, oldest first
  plan_fp, books,      \* books: completed, failed, skipped
  \* locals of run_to_completion
  run,                 \* see NoRun
  in_flight,           \* the attempt each step in the pool is at
  in_flight_allocations,
  \* around the executor
  stored,              \* the checkpoints the state manager keeps
  journal,             \* the events journaled since the run's start or resume
  journal_seq,         \* the highest sequence journaled for each execution
  tenants,             \* what others ask the resource manager for, and hold
  last,                \* what the last run gave its caller
  issued, spent        \* checkpoint ids made so far; budget used

fields == <<running_exec, cancelled, paused, pending_checkpoint, checkpoints, plan_fp, books>>
pool   == <<in_flight, in_flight_allocations>>
kept   == <<stored, journal, journal_seq>>
vars   == <<inner, active, fields, run, pool, kept, tenants, last, issued, spent>>

None     == 0   \* no execution, no checkpoint id
Nil      == 1   \* the nil execution id
NoPlan   == [none |-> TRUE]   \* no fingerprint
Nothing  == [completed |-> {}, failed |-> {}, skipped |-> {}]
NoTenants == [asking |-> 0, holding |-> {}]
NoResult == [status |-> "None", trial_results |-> {}]

(* seed: what is left to replay of base, the checkpoint resumed from; due: *)
(* the id of a checkpoint to emit next; checkpointed: last_checkpoint_at   *)
(* is set.                                                                 *)
NoRun == [pc |-> "idle", exec |-> None, seq |-> 0, seed |-> Nothing, base |-> Nothing,
          any_failed |-> FALSE, trial_failed |-> {}, trial_results |-> {},
          batch |-> <<>>, due |-> None, checkpointed |-> FALSE]

Spend(what) == spent[what] < Budget[what] /\ spent' = [spent EXCEPT ![what] = @ + 1]

At(pc) == run.pc = pc /\ run.seed = Nothing

FreshCheckpointId == Max(Steps \cup {0}) + 1 + issued

Put(map, key, value) ==
  [k \in DOMAIN map \cup {key} |-> IF k = key THEN value ELSE map[k]]

(* The sequences, one unless Before leaves a choice, that list S in order. *)
InOrder(S, Before(_, _)) ==
  {q \in [1..Cardinality(S) -> S] :
     /\ ToSet(q) = S /\ IsInjective(q)
     /\ \A i, j \in DOMAIN q : i < j => Before(q[i], q[j])}

------------------------------------------------------------------------------
(* Journal and checkpoints.                                                *)

Event(kind, of, attempt) == [kind |-> kind, of |-> of, attempt |-> attempt]

HighestSeq(exec) == IF exec \in DOMAIN journal_seq THEN journal_seq[exec] ELSE 0

(* The events get the sequences that follow r.seq, and r becomes the run.  *)
Write(r, events) ==
  LET seq == r.seq + Len(events) IN
    /\ journal' = IF run.pc = "idle" THEN events ELSE journal \o events
    /\ journal_seq' = Put(journal_seq, r.exec, Max({seq, HighestSeq(r.exec)}))
    /\ run' = IF r.pc = "idle" THEN NoRun ELSE [r EXCEPT !.seq = seq]

(* StepStarted and StepFailed for every retried attempt, then StepStarted. *)
Trail(s, attempt) ==
  [i \in 1..(2 * attempt - 1) |->
     Event(IF i % 2 = 1 THEN "StepStarted" ELSE "StepFailed", s, (i + 1) \div 2)]

(* Mutant: what is in flight counts as done. *)
Snapshot_early(id, exec) ==
  [id |-> id, exec |-> exec, plan_fp |-> plan_fp, in_flight |-> {},
   state |-> [books EXCEPT !.completed = @ \cup DOMAIN in_flight]]

Snapshot(id, exec) ==
  [id |-> id, exec |-> exec, plan_fp |-> plan_fp, state |-> books, in_flight |-> {}]

record_checkpoint(id, exec) ==
  stored' = {c \in stored : c.id # id} \cup {Snapshot(id, exec)}

Noted(id) == IF Contains(checkpoints, id) THEN checkpoints ELSE Append(checkpoints, id)

LastOf(list, max) == IF Len(list) <= max THEN list
                     ELSE SubSeq(list, Len(list) - max + 1, Len(list))

emit_checkpoint(id, next) ==
  /\ record_checkpoint(id, run.exec)
  /\ checkpoints' = LastOf(Noted(id), plan.max_checkpoints)
  /\ Write([run EXCEPT !.pc = next, !.due = None, !.checkpointed = TRUE],
           <<Event("CheckpointCreated", id, 0)>>)

------------------------------------------------------------------------------
(* Starting and ending a run.                                              *)

Execute(p) ==
  /\ run.pc = "idle" /\ Spend("runs")
  /\ running_exec' = Nil + spent'["runs"]
  /\ plan_fp' = p /\ books' = Nothing
  /\ initialise(p)
  /\ Write([NoRun EXCEPT !.pc = "top", !.exec = running_exec'],
           <<Event("ExecutionStarted", None, 0)>>)
  /\ last' = NoResult
  /\ UNCHANGED <<active, cancelled, paused, pending_checkpoint, checkpoints, pool, stored,
                 tenants, issued>>

(* Mutant: the books are not restored. *)
Restored_nothing(c) == Nothing

Restored(c) == c.state

(* With another plan resume refuses and changes nothing. *)
Resume(c) ==
  /\ run.pc = "idle" /\ c.plan_fp \in Plans /\ Spend("runs")
  /\ running_exec' = c.exec
  /\ plan_fp' = c.plan_fp /\ books' = Restored(c)
  /\ initialise(c.plan_fp)
  /\ Write([NoRun EXCEPT !.pc = "top", !.exec = c.exec, !.seed = c.state, !.base = c.state],
           <<Event("ExecutionResumed", c.id, 0)>>)
  /\ last' = NoResult
  /\ UNCHANGED <<active, cancelled, paused, pending_checkpoint, checkpoints, pool, stored,
                 tenants, issued>>

Seeding(rest) == /\ run' = [run EXCEPT !.seed = rest]
                 /\ UNCHANGED <<active, fields, pool, kept, tenants, last, issued, spent>>

SeedCompleted(s) == /\ s \in run.seed.completed
                    /\ mark_completed(s)
                    /\ Seeding([run.seed EXCEPT !.completed = @ \ {s}])

SeedSkipped(s) == /\ run.seed.completed = {} /\ s \in run.seed.skipped
                  /\ mark_skipped(s)
                  /\ Seeding([run.seed EXCEPT !.skipped = @ \ {s}])

SeedFailed(s) == /\ run.seed.completed = {} /\ run.seed.skipped = {} /\ s \in run.seed.failed
                 /\ mark_failed(s)
                 /\ Seeding([run.seed EXCEPT !.failed = @ \ {s}])

(* Mutant: the futures outlive the run. *)
Return_running(status, trial_results) ==
  /\ last' = [status |-> status, trial_results |-> trial_results]
  /\ in_flight_allocations' = <<>> /\ UNCHANGED in_flight

(* The futures in the pool and the map of allocations are dropped with the *)
(* locals.                                                                 *)
Return(status, trial_results) ==
  /\ last' = [status |-> status, trial_results |-> trial_results]
  /\ in_flight' = <<>> /\ in_flight_allocations' = <<>>

End(status, trial_results, events) ==
  /\ Write([run EXCEPT !.pc = "idle"], Append(events, Event("ExecutionCompleted", None, 0)))
  /\ running_exec' = None
  /\ Return(status, trial_results)

finalise_cancelled(trial_results) ==
  /\ cancelled' = FALSE
  /\ End("Cancelled", IF plan.partial = "RetainResults" THEN trial_results ELSE {}, <<>>)
  /\ UNCHANGED <<inner, active, paused, pending_checkpoint, checkpoints, plan_fp, books,
                 stored, tenants, issued, spent>>

------------------------------------------------------------------------------
(* The loop, from its top to the await.                                    *)

Goto(pc) == run' = [run EXCEPT !.pc = pc]

Elsewhere == UNCHANGED <<kept, tenants, last, issued, spent>>

TopCancelled == At("top") /\ cancelled /\ finalise_cancelled(run.trial_results)

Draining == plan.mode = "AfterActiveTrials" /\ DOMAIN in_flight # {}

Spinning == paused /\ ~Draining

(* Past the checks for a stop and a pause, checkpoints come first. *)
Onward == /\ Goto(IF pending_checkpoint # None THEN "drain"
                  ELSE IF plan.interval THEN "interval" ELSE "topup")
          /\ UNCHANGED <<inner, active, fields, pool>> /\ Elsewhere

Top == At("top") /\ ~cancelled /\ ~Spinning /\ Onward

TopPaused == /\ At("top") /\ ~cancelled /\ Spinning /\ Goto("paused")
             /\ UNCHANGED <<inner, active, fields, pool>> /\ Elsewhere

Unpaused == At("paused") /\ ~Spinning /\ Onward

(* Mutant: a stop is looked at only after the pause. *)
PausedCancelled_late == At("paused") /\ ~Spinning /\ cancelled /\ finalise_cancelled({})

PausedCancelled == At("paused") /\ Spinning /\ cancelled /\ finalise_cancelled({})

Drain == /\ At("drain")
         /\ emit_checkpoint(pending_checkpoint, "interval")
         /\ pending_checkpoint' = None
         /\ UNCHANGED <<inner, active, running_exec, cancelled, paused, plan_fp, books, pool,
                        tenants, last, issued, spent>>

Interval == /\ At("interval") /\ plan.interval
            /\ emit_checkpoint(FreshCheckpointId, "topup")
            /\ issued' = issued + 1
            /\ UNCHANGED <<inner, active, running_exec, cancelled, paused, pending_checkpoint,
                           plan_fp, books, pool, tenants, last, spent>>

NoInterval == /\ At("interval") /\ (plan.interval => run.checkpointed) /\ Goto("topup")
              /\ UNCHANGED <<inner, active, fields, pool>> /\ Elsewhere

(* Mutant: one slot too many. *)
Slots_over == MaxParallel + 1 - Cardinality(DOMAIN in_flight)

Slots == MaxParallel - Cardinality(DOMAIN in_flight)

TopUp == /\ At("topup") /\ ~paused /\ Slots > 0
         /\ next_steps(Slots, available)
         /\ \E batch \in InOrder(running' \ running, Precedes) :
              run' = [run EXCEPT !.pc = IF batch = <<>> THEN "wait" ELSE "admit",
                                 !.batch = batch]
         /\ UNCHANGED <<active, fields, pool>> /\ Elsewhere

NoTopUp == /\ At("topup") /\ (paused \/ Slots = 0) /\ Goto("wait")
           /\ UNCHANGED <<inner, active, fields, pool>> /\ Elsewhere

FreshAllocationId == Min(0..Cardinality(active) \ {a.id : a \in active})

Admitted(rest) == run' = [run EXCEPT !.batch = rest, !.pc = IF rest = <<>> THEN "wait" ELSE @]

AllocateRefused == /\ At("admit") /\ ~can_allocate(plan.need[Head(run.batch)])
                   /\ mark_skipped(Head(run.batch))
                   /\ Admitted(Tail(run.batch))
                   /\ UNCHANGED <<active, fields, pool>> /\ Elsewhere

Admit == /\ At("admit") /\ can_allocate(plan.need[Head(run.batch)])
         /\ LET s == Head(run.batch) IN
              /\ push([id |-> FreshAllocationId, granted |-> plan.need[s]])
              /\ in_flight' = Put(in_flight, s, 1)
              /\ in_flight_allocations' = Put(in_flight_allocations, s, FreshAllocationId)
         /\ Admitted(Tail(run.batch))
         /\ UNCHANGED <<inner, fields>> /\ Elsewhere

(* Mutant: failures are not counted. *)
FinalStatus_blind == "Succeeded"

FinalStatus == IF run.any_failed THEN "PartialFailure" ELSE "Succeeded"

(* Mutant: the loop is left only with a plan that is complete. *)
Finish_complete ==
  /\ At("wait") /\ DOMAIN in_flight = {} /\ is_complete
  /\ End(FinalStatus, run.trial_results, <<>>)
  /\ UNCHANGED <<inner, active, cancelled, paused, pending_checkpoint, checkpoints,
                 plan_fp, books, stored, tenants, issued, spent>>

(* Nothing is in flight: the run is over, complete or not. *)
Finish == /\ At("wait") /\ DOMAIN in_flight = {}
          /\ End(FinalStatus, run.trial_results, <<>>)
          /\ UNCHANGED <<inner, active, cancelled, paused, pending_checkpoint, checkpoints,
                         plan_fp, books, stored, tenants, issued, spent>>

------------------------------------------------------------------------------
(* Awaiting and settling a step.                                           *)

OutcomesOf(s) == IF plan.kind[s] \in NoOps THEN {"Completed"} ELSE Outcomes

(* Mutant: one attempt too many. *)
CanRetry_again(s) == in_flight[s] <= 1 + plan.retries

CanRetry(s) == in_flight[s] < 1 + plan.retries

Retry(s) == /\ At("wait") /\ s \in DOMAIN in_flight
            /\ "Failed" \in OutcomesOf(s) /\ CanRetry(s)
            /\ in_flight' = [in_flight EXCEPT ![s] = @ + 1]
            /\ UNCHANGED <<inner, active, fields, run, in_flight_allocations>> /\ Elsewhere

(* The await yields s: its allocation is given back first. *)
Finished(s, outcome) ==
  /\ At("wait") /\ s \in DOMAIN in_flight /\ outcome \in OutcomesOf(s)
  /\ release(in_flight_allocations[s])

(* Mutant: the step stays in the pool. *)
Others_all(s) == UNCHANGED pool

Others(s) ==
  /\ in_flight' = [t \in DOMAIN in_flight \ {s} |-> in_flight[t]]
  /\ in_flight_allocations' =
       [t \in DOMAIN in_flight_allocations \ {s} |-> in_flight_allocations[t]]

(* After a settled step the loop starts over, by way of a checkpoint when  *)
(* one is due.                                                             *)
LoopWith(r, due, events) ==
  /\ Write([r EXCEPT !.due = due, !.pc = IF due = None THEN "top" ELSE "emit"], events)
  /\ issued' = IF due = FreshCheckpointId THEN issued + 1 ELSE issued

(* Of a trial that has a failure, a failed result; both as attempt 1. *)
synthesise_trial_result(t) == [trial |-> t, ok |-> t \notin run.trial_failed]

SettleCompleted(s) ==
  LET k == plan.kind[s]
      result == IF k = "TrialEnd" THEN {synthesise_trial_result(plan.trial[s])} ELSE {}
  IN /\ Finished(s, "Completed") /\ Others(s)
     /\ mark_completed(s)
     /\ books' = [books EXCEPT !.completed = @ \cup {s}]
     /\ LoopWith([run EXCEPT !.trial_results = @ \cup result],
                 CASE k = "Checkpoint" -> s
                   [] k = "Barrier" /\ plan.on_barriers -> FreshCheckpointId
                   [] OTHER -> None,
                 Append(Trail(s, in_flight[s]), Event("StepCompleted", s, in_flight[s])))
     /\ UNCHANGED <<running_exec, cancelled, paused, pending_checkpoint, checkpoints, plan_fp,
                    stored, tenants, last, spent>>

SettleSkipped(s) ==
  /\ Finished(s, "Skipped") /\ Others(s)
  /\ mark_skipped(s)
  /\ books' = [books EXCEPT !.skipped = @ \cup {s}]
  /\ LoopWith(run, None, Append(Trail(s, in_flight[s]), Event("StepSkipped", s, in_flight[s])))
  /\ UNCHANGED <<running_exec, cancelled, paused, pending_checkpoint, checkpoints, plan_fp,
                 stored, tenants, last, spent>>

(* The last attempt failed: the trial is marked, the scheduler cascades.   *)
LastAttemptFailed(s) ==
  /\ Finished(s, "Failed") /\ ~CanRetry(s)
  /\ mark_failed(s)
  /\ UNCHANGED <<cancelled, paused, pending_checkpoint, checkpoints, plan_fp, stored,
                 tenants, spent>>

FailureTrail(s) == Append(Trail(s, in_flight[s]), Event("StepFailed", s, in_flight[s]))

(* Mutant: a failure is not held against the trial. *)
TrialOf_none(s) == {}

TrialOf(s) == {plan.trial[s]} \ {0}

(* Mutant: the cascade is not journaled. *)
CascadeEvents_none(s) == {<<>>}

(* One event for each cascaded step, here in the order of their ids. *)
CascadeEvents(s) ==
  {[i \in DOMAIN unseen |-> Event("StepSkipped", unseen[i], 0)] :
     unseen \in InOrder(Cascade(s) \ books.skipped, <)}

SettleFailed(s) ==
  /\ plan.on_failure # "Stop"
  /\ LastAttemptFailed(s) /\ Others(s)
  /\ books' = [books EXCEPT !.failed = @ \cup {s}, !.skipped = @ \cup Cascade(s)]
  /\ \E cascade \in CascadeEvents(s) :
       LoopWith([run EXCEPT !.any_failed = TRUE, !.trial_failed = @ \cup TrialOf(s)],
                IF plan.on_errors THEN FreshCheckpointId ELSE None,
                FailureTrail(s) \o cascade)
  /\ UNCHANGED <<running_exec, last>>

(* OnFailure::Stop leaves the loop at once. *)
SettleHalting(s) ==
  /\ plan.on_failure = "Stop"
  /\ LastAttemptFailed(s)
  /\ books' = [books EXCEPT !.failed = @ \cup {s}]
  /\ End("Halted", run.trial_results, FailureTrail(s))
  /\ UNCHANGED issued

(* An orchestrator error is returned on the spot. *)
SettleError(s) ==
  /\ Finished(s, "Error")
  /\ mark_failed(s)
  /\ Write([run EXCEPT !.pc = "idle"], FailureTrail(s))
  /\ Return("Error", {})
  /\ UNCHANGED <<fields, stored, tenants, issued, spent>>

EmitDue == /\ At("emit")
           /\ emit_checkpoint(run.due, "top")
           /\ UNCHANGED <<inner, active, running_exec, cancelled, paused, pending_checkpoint,
                          plan_fp, books, pool, tenants, last, issued, spent>>

------------------------------------------------------------------------------
(* The controls, and what happens around the executor.                     *)

Around == UNCHANGED <<inner, run, pool, plan_fp, books, journal, journal_seq, last>>

Pause == /\ ~paused /\ Spend("pauses") /\ paused' = TRUE
         /\ UNCHANGED <<active, running_exec, cancelled, pending_checkpoint, checkpoints,
                        stored, tenants, issued>> /\ Around

Unpause == /\ paused /\ paused' = FALSE
           /\ UNCHANGED <<active, running_exec, cancelled, pending_checkpoint, checkpoints,
                          stored, tenants, issued, spent>> /\ Around

Stop == /\ Spend("stops") /\ cancelled' = TRUE
        /\ UNCHANGED <<active, running_exec, paused, pending_checkpoint, checkpoints,
                       stored, tenants, issued>> /\ Around

(* While an execution is noted as running, the request waits in one slot   *)
(* and the handle is given out at once; otherwise the books of the last    *)
(* run are recorded.                                                       *)
checkpoint_now ==
  /\ Spend("requests") /\ issued' = issued + 1
  /\ checkpoints' = Noted(FreshCheckpointId)
  /\ IF running_exec # None
     THEN pending_checkpoint' = FreshCheckpointId /\ UNCHANGED stored
     ELSE record_checkpoint(FreshCheckpointId, Nil) /\ UNCHANGED pending_checkpoint
  /\ UNCHANGED <<active, running_exec, cancelled, paused, tenants>> /\ Around

(* The process dies; what is stored and journaled survives.                *)
Crash == /\ run.pc # "idle" /\ Spend("crashes")
         /\ running_exec' = None /\ cancelled' = FALSE /\ paused' = FALSE
         /\ pending_checkpoint' = None /\ checkpoints' = <<>>
         /\ plan_fp' = NoPlan /\ books' = Nothing
         /\ run' = NoRun /\ Return("Crashed", {})
         /\ active' = {} /\ tenants' = NoTenants
         /\ new /\ UNCHANGED <<kept, issued>>

(* Another user of the same resource manager: its allocate checks first    *)
(* and pushes afterwards, under another lock.                              *)
TenantChecks(need) ==
  /\ tenants.asking = 0 /\ Spend("takes") /\ can_allocate(need)
  /\ tenants' = [tenants EXCEPT !.asking = need]
  /\ UNCHANGED <<active, running_exec, cancelled, paused, pending_checkpoint, checkpoints,
                 stored, issued>> /\ Around

TenantPushes ==
  /\ tenants.asking > 0
  /\ push([id |-> FreshAllocationId, granted |-> tenants.asking])
  /\ tenants' = [asking |-> 0, holding |-> tenants.holding \cup {FreshAllocationId}]
  /\ UNCHANGED <<running_exec, cancelled, paused, pending_checkpoint, checkpoints, stored,
                 issued, spent>> /\ Around

TenantGives(id) ==
  /\ id \in tenants.holding /\ release(id)
  /\ tenants' = [tenants EXCEPT !.holding = @ \ {id}]
  /\ UNCHANGED <<running_exec, cancelled, paused, pending_checkpoint, checkpoints, stored,
                 issued, spent>> /\ Around

------------------------------------------------------------------------------
Init ==
  /\ plan = CHOOSE p \in Plans : TRUE   \* nothing reads it before initialise
  /\ Blank
  /\ active = {} /\ tenants = NoTenants
  /\ running_exec = None /\ cancelled = FALSE /\ paused = FALSE
  /\ pending_checkpoint = None /\ checkpoints = <<>> /\ plan_fp = NoPlan /\ books = Nothing
  /\ run = NoRun /\ in_flight = <<>> /\ in_flight_allocations = <<>>
  /\ stored = {} /\ journal = <<>> /\ journal_seq = <<>> /\ last = NoResult
  /\ issued = 0 /\ spent = [what \in Spendable |-> 0]

Settle(s) == \/ SettleCompleted(s) \/ SettleSkipped(s) \/ SettleFailed(s)
             \/ SettleHalting(s) \/ SettleError(s)

(* What the task that called execute or resume does by itself. *)
Loop == \/ \E s \in Steps : SeedCompleted(s) \/ SeedSkipped(s) \/ SeedFailed(s)
        \/ TopCancelled \/ Top \/ TopPaused \/ Unpaused \/ PausedCancelled
        \/ Drain \/ Interval \/ NoInterval
        \/ TopUp \/ NoTopUp \/ AllocateRefused \/ Admit \/ Finish
        \/ \E s \in Steps : Retry(s) \/ Settle(s)
        \/ EmitDue

Control == Pause \/ Unpause \/ Stop \/ checkpoint_now

Next == \/ \E p \in Plans : Execute(p)
        \/ \E c \in stored : Resume(c)
        \/ Loop \/ Control \/ Crash
        \/ \E need \in 1..(IF Capacity = Unbounded THEN 0 ELSE Capacity) : TenantChecks(need)
        \/ TenantPushes
        \/ \E id \in tenants.holding : TenantGives(id)

Spec == Init /\ [][Next]_vars

(* The executor's task is polled as long as it can move, and every attempt *)
(* at a step ends.                                                         *)
FairSpec == Spec /\ WF_vars(Loop)
==============================================================================
