# Verification of paramodel (hyperplane-rs)

paramodel compiles a test plan (elements, axes, trials) into an execution graph
of atomic steps, runs that graph, and keeps what came of it in stores. This
directory holds TLA+ models of all three and of the values that plans are made
of, the TLC configurations that check them, and proofs that TLAPS checks.
Everything is translated from the Rust sources; line numbers in `PROJECT.json`
and in comments refer to them.

- Model checking: `tlc -config Scheduler_graphs.cfg MCScheduler.tla`, and so on
  for the runs below.
- Proofs: `tlapm SchedulerProofs.tla`, and so on for `SumProofs`, `ServiceProofs`,
  `StoreProofs`, `ExecutorProofs`, `ExecutorHistory`, `CompilerProofs` and
  `WalkProofs`.

## The system

| component | state it keeps | operations | talks to |
|---|---|---|---|
| compiler (`paramodel-compiler`) | none, a pipeline of passes | compile | produces the graph |
| execution graph (`paramodel-plan/src/execution.rs`) | steps and `depends_on` | validate, sort, waves, critical path | read by scheduler and executor |
| scheduler (`paramodel-executor/src/scheduler.rs`) | six sets of steps, priorities, rotation cursor, behind a mutex | initialise, next_steps, mark_completed / failed / skipped, set_priority | called by the executor, set_priority by anyone |
| resource manager (`resources.rs`) | active allocations, capacity | allocate, release, available, can_allocate | called by the executor and by others who share it |
| executor (`executor.rs`) | running, cancelled, paused, pending checkpoint, handles, books; the locals of one loop | execute, resume; pause, unpause, stop, checkpoint_now from other tasks | scheduler, resource manager, orchestrator, journal, state manager, observer |
| orchestrator (`orchestrator.rs`) | runtimes, outputs of Deploys | execute_step, shutdown | element runtimes |
| state manager (`state.rs`, sqlite) | checkpoints, events, suspensions | checkpoint, load_checkpoint, record_event, recover | executor |
| journal (`journal.rs`, sqlite, mock) | events, subscribers | write, append, replay, subscribe, truncate | executor, followers |
| barriers (`barrier.rs`, mock) | dependencies left, state | satisfy, fail, release, await with and without a budget | whoever awaits them |
| artifact collector (`artifacts.rs`) | open and finished collections, metrics | start, stop, collect | element runtimes |
| stores (`paramodel-store-sqlite`, `paramodel-mock`) | tables, or maps, of plans, executions, checkpoints, metadata, artifacts, results | save, get, list by page, query, aggregate, prune, retain | clients of the library |
| plans and elements (`paramodel-plan`, `paramodel-elements`) | values | edit, validate, fingerprint; constraints, domains, parameters, expressions | compiler |
| trials (`paramodel-trials`) | results | synthesised at a trial's end | executor, result store |

What is hard here is the executor: one loop that keeps several futures in
flight, settles them in the order they end, and reads flags that other tasks
set between any two of its steps; it may stop anywhere (halt, stop, error,
crash) and go on from a checkpoint taken while steps were running. The
scheduler is where the consequences meet: replay, cascades and promotions must
leave every step in exactly one set. The stores have several clients, and some
of their calls are two statements on the connection with anything in between;
they compare instants as texts, cut pages before they filter, and have to give
what the in-memory stores give. The compiler and the element model are pure,
and hard for their rules: passes that undo each other's edges, simplifications
that must not change what is fingerprinted, numbers at the ends of their width.
`PROJECT.json` lists the hazards line by line.

## Modules

| module | what it is |
|---|---|
| `PlanGraphs` | acyclic dependency functions, dependents, what is downstream |
| `StepLifecycle` | abstract: one status per step, start, finish, fail with everything downstream, record a checkpoint, restart from one |
| `Scheduler` | `DefaultScheduler`: its sets as variables, one operator per trait method |
| `SchedulerProtocol` | the scheduler under the calls an executor makes: initialise, replay of a checkpoint, dispatch, settle, halt, checkpoint, set_priority; its properties; the refinement of `StepLifecycle` |
| `SumProofs` | lemmas: least and greatest numbers, sums over finite sets |
| `SchedulerProofs` | theorems about `SchedulerProtocol`, its refinement of `StepLifecycle` among them |
| `Resources` | `DefaultResourceManager` in one dimension |
| `Executor` | `DefaultExecutor` over `Scheduler` and `Resources`, with its controls, crashes and other tenants |
| `ExecutorProperties` | what is checked of it |
| `ExecutorProofs` | theorems about its types, its pool, allocations, limits and trial results; that it keeps to what `SchedulerProtocol` assumes of a client; the books and what is settled |
| `ExecutorHistory` | theorems about checkpoints, what resumes from them, `StepLifecycle`, how runs end, the journal and the books |
| `TrialSpace` | stage one of the compiler: trials as mixed radix numbers, binding levels, trial elements |
| `Compiler` | `compile_impl`: its passes as actions over the steps of the graph; the instance graph |
| `CompilerProperties` | what is checked of the graphs |
| `CompilerProofs` | theorems about trials as numbers, levels, `Upstream`, what the steps are after each pass and what each of them waits for |
| `Instants`, `Pages` | instants as texts and their order; a page of a listing, by the places of its rows |
| `Repository` | plans, executions, checkpoints and metadata in sqlite and in memory |
| `Artifacts` | artifacts: the saves of several clients, deletes, listings, retention |
| `Journals` | the journal of one executor, its tables, channels, followers, what recover reads |
| `ResultFilters`, `ResultStore` | filters as SQL and as code, aggregations; results with the index of their metrics |
| `ArchiveProperties` | repository, artifacts and journal next to each other, and what is checked of them |
| `StoreProofs` | theorems about `ArchiveProperties` |
| `StoreProperties` | what is checked of the results, a query that is followed among it |
| `Barriers`, `Orchestrator`, `Collector` | `MockBarrierHandle`, `DefaultOrchestrator`, `InMemoryArtifactCollector` |
| `ServiceProperties` | what is checked of these three |
| `ServiceProofs` | theorems about these three |
| `GraphWalks` | the walk of `ExecutionGraph` and of the instance graph, waves, critical path, neighbours |
| `WalkProperties` | what is checked of these |
| `WalkProofs` | theorems about them |
| `Constraints`, `Domains`, `Parameters` | the constraint algebra, domains, parameters under construction |
| `Expressions` | expressions and derived parameters |
| `AlgebraProperties` | what is checked of parameters and expressions |
| `Authoring`, `AuthoringProperties` | a plan under its edits, its validation and fingerprint, the values trials get; what is checked of it |
| `MCScheduler`, `MCExecutor`, `MCCompiler`, `MCStores`, `MCServices`, `MCAlgebra` | small instances |

### Scheduler

`pending`, `ready`, `running`, `completed`, `failed`, `skipped`, `priorities`
and `fair_cursor` are the fields of `InnerState`; `plan` stands for `deps`,
`dependents`, `requirements`, `trial_ids` and `trial_order`, which `initialise`
copies. Every method holds the mutex throughout and is one step. The order in
which `next_steps` considers ready steps is `SortKey`, a number per step, ties
by id; the greedy pass over that order is `IsBatch`, which characterises the
one set it takes. For `Fair` the key is the round in which the rotation deals
the step, times the number of trials, plus its trial's distance from the
cursor. The depth-first cascade of `mark_failed` goes on only from steps it
removed: that is the least set closed under dependents inside `pending ∪ ready`
(`DownstreamIn`). Steps without dependencies are in `pending` and `ready` at
once, as in the code.

`SchedulerProtocol` adds the client: `seed` is what is left of a checkpoint's
replay (completed, then skipped, then failed, each in any order), `saved` a
checkpoint, `unbooked` the cascade of the failure that halted the client, which
the executor never books, and `cascaded` a history variable.

### Executor

`run.pc` names the point of the loop:

| pc | lines of executor.rs |
|---|---|
| `top` | 661: take the cancel reason, look at paused |
| `paused` | 683-704: the spin |
| `drain` | 706-722: the manual checkpoint |
| `interval` | 724-746 |
| `topup` | 753-757: paused again, slots, snapshot, next_steps |
| `admit` | 758-797, once for each step of the batch |
| `wait` | 801-830, then 832-1131 for the step that ended |
| `emit` | 940-976, 1083-1101: the checkpoint a settled step triggers |

Between two points is one step. Where the code reads a shared flag twice and
the two readings can differ to someone's notice, there are two points:
`paused` at 683 and again at 753. Where nobody can tell, there is one: the
cancel flag, the first look at `paused` and the taking of the pending request
follow each other without a step that others observe, so a call between
them has the effect of the same call before or after. Writing the events of one settled step is one
step: only a crash in the middle could tell, and what a crash in the middle
leaves is a prefix that `ExecutionResumed` follows in either case.
`checkpoint_now` is one step. The code looks at `running` (executor.rs:496), reads
the fingerprint of the plan (497-501) and the sets of the scheduler (258-260) under
locks of their own, so a call that runs into the end of one run and the start of
another may store the fingerprint of one with the sets of the other; such a
checkpoint is not in the model. A run that ends between the reading of `running`
and the writing of the slot leaves the request in the slot, as does a request
after the last drain, which the model has.

The attempts of a step (`run_step_with_retries`) are `Retry` steps on its entry
in `in_flight`; a timeout is a failed attempt. `Outcomes` is what an
orchestrator may answer for steps that touch elements; trial, barrier and
checkpoint steps complete in `DefaultOrchestrator`. `tenants` is everybody else
who uses the resource manager: their `allocate` is two steps, because the check
and the push are under different locks; with that, splitting the executor's own
call would add only the symmetric interleavings. `Crash` empties everything but
the stored checkpoints and the journal.

### Compiler

`compile_impl` calls its passes in a fixed order; `stage` names the next one and
each pass is an action named like the function. `depends_on` is the vector of
steps with the field of that name: its domain are the steps, a step is a record
of what its id is made from. `add_dependency` and `remove_dependency` become
unions and differences over all edges of a pass at once, which is the same
because no pass looks at an edge it has just written. `Refuse` stands for E001
and E002, `Contended` for W002, `broken` for E003 (the graph the passes made is
not valid). Coalescing is the function `current`: the step that stands for a
step after Rule 3. `Redundant` characterises the edges the search of Rule 8
finds; `Upstream` is what a step waits for, closed over paths.

Most properties are about plans that are `Consistent`, a condition on the plan,
the levels and the trial elements alone, which asks of them that what they want
can be had:

- Within one trial nothing has to come before itself. `OneTrial` is the graph of what
  relationships and notifications ask for there: going up and down of every
  element, and the two notifications. An element on a lifeline goes down with the root
  of it.
- What has to be down for another to start (Linear) is on no lifeline. What
  another needs up until it is down (Shared, Exclusive) is on a lifeline only if the other
  lives for a trial and the root of the lifeline for longer.
- Where there is Exclusive, whose instances are brought up one after the other, all
  are `Aligned`: whoever is exclusive lives for a trial and goes down by itself, and what
  an element needs in all its trials is there for all of them (`Covers`).

`ConsistentCompiles` says that this condition is enough: the graph that reaches Rule 8
has no circle, and no such plan ends in E003. It is not too narrow to be of use:
1105 of the plans of `compiler_plans` meet it. It leaves out 437 that compile (some of
them because Rule 8 drops their circle, see below). What it excludes is worth knowing,
because none of it is refused up front:

- a circle of dependencies;
- an element that lasts over trials and needs one that lives for a trial;
- Linear between anything but trial elements, once there are trial elements:
  Rule 4 puts the teardown of one after the end of the trial the other belongs
  to (SRD-0010 calls all 25 combinations valid);
- Exclusive by an element that is coalesced over several trials: its first
  activation is to wait for its last teardown;
- next to an Exclusive, an element that needs several instances of its target in turn;
- a lifeline to `r` together with Shared on something that is itself to go
  down before `r` (the row "Shared, Lifeline" of SRD-0010's table): the
  collapse turns "y goes down after x" into "y goes down after r".

### Stores

A row is a record with an id, an instant, a tag and a group, and what these
stand for depends on the table; the tables of sqlite are `db`, the maps of the
in-memory stores `mem`, and every call changes both, so that what they answer can
be compared in any state. Each `conn.call` is one step, since one thread serves
the connection. `save_plan` and the `save` of artifacts make two calls and are two actions:
`SavePlan`, `InsertPlan`; `BeginSave`, `InsertArtifact`. Between them another client
may act or the caller may be dropped (`AbandonSave`). A row of artifacts gets its id
and then its time after the first call and before the INSERT (`made`, `at`): ids
tell instants apart (`Fresh`), those of two savers need not be in the order of
their times. The in-memory store does a save under one mutex (`mock_save`), at the
time of the INSERT.

In memory `save_plan` looks for nothing and always puts the plan under its id
(`mock_save_plan`). Two history variables say where the repositories may differ:
`refused`, the plans that sqlite turned down, and `crossed`, the executions whose
checkpoints were pruned while texts and instants had them in different orders.
A page of metadata with a row that does not parse is an error (`Unreadable`): the
listing ends there.

jiff prints an instant without trailing zeros; `Rank` is the place of that text
among all texts, with a base instead of ten digits, so that the model has
instants whose texts are in another order than they are. SQL compares with
`Rank`, Rust with `at`.

Listings are followed by `walk`, `reading` and `query`: a page, then the page
after its token, while others save and delete; `due` is what was there at the
beginning and still is.

In `Journals` the writer is what the executor makes of it: a first event that
goes through `record_event` and `write` both, then events step by step, each
stored and then published. `follower` subscribes, replays the history at any
time after, and receives from a channel of bounded capacity that tells it of a
loss. `Likened` gives for a step that `is_step_completed` is `Asked` about the steps
whose ids its LIKE takes for that one.

A filter is a tree; `Pushed` is the WHERE clause it becomes, `filter_matches`
what is evaluated on the rows that were read, `mock_matches` what the in-memory
store evaluates. `metric` rows in `index` have one of the typed columns, as
`MetricRow` fills them. Numbers are counted in a small unit; where rows are compared
one by one, numbers less than `Epsilon` apart are equal (`Tolerant`), the clause
compares them as they are (`Cmp`).

### Services

`Look` and `Register` are the two halves of the loop of `await_satisfied`, with
the window between them. Satisfying, failing and releasing set the state under the mutex
(`ringing` counts who has done so) and `Ring` wakes whoever is registered then.
The end of a budget is `Expire`, what it does under the mutex `TimeOut`.

`Orchestrator` has the order of the compiled plan for the instances of an
element (`Due`) and what the executor remembers of steps (`settled`), and keeps
what each Deploy really gave and in which process (`gave`).

### Algebra

`GraphWalks` takes Kahn's walk one turn of the loop at a time, over lists of
steps as they were written, with ids or dependencies twice or of nothing; the instance
graph's walk lowers a count by its edges and not by one. `Parameters` is a builder: a
parameter is made, constraints are built beside it and registered, defaults,
labels and tags set in any order. A regular expression is the set of
strings it matches; integers have `Width` bits. `Expressions` builds an expression node by
node and evaluates it in every state to a set of outcomes, more than one where
the value of a double decides, which is left out. `Authoring` is a plan with
its axes, bindings and configurations under `with_axis`, `bind`, `configure`
and `with_axes_reordered`; fingerprints are the fields that are hashed. `Assigned` are the
values the compiler gives to the steps of a trial, `resolve_bindings_map` what it gives
to the instance graph, two functions of the code that should agree.

## Runs

| run | instance | shows |
|---|---|---|
| `scheduler_graphs` | all 8 acyclic graphs on 3 steps, 2 slots, checkpoints, crashes, replays, priorities unused | `OneStage`, `RunsAfterDependencies`, `NeverStranded`; refinement of `StepLifecycle` |
| `scheduler_batches` | 4 steps, 2 trials, 3 graphs, asks of 0 or 1 and 2, three policies, batches up to 3 | `FairShare`; `BatchesSound`: no inversion of priorities but for size, no batch above its snapshot |
| `executor_failures` | 3 steps, 4 graphs, checkpoint on errors or one retry, errors, 2 runs, 1 crash | `BooksAgree`: journal, books, scheduler, pool; `JournalSound`: causality, attempts; `ResumesSound`: checkpoints and what a resume starts; `SuccessMeansDone`; refinement of `StepLifecycle` |
| `executor_controls` | a trial under two policies and a chain with Barrier and Checkpoint; a pause, a stop, a request, a crash at any time; fairness | `RunEnds`, `StopHonoured`, `TrialResultsSound` |
| `executor_capacity` | 3 units, asks of 1 and 2 or of 1, two allocations by others | `WithinLimits`, `NoEarlyEnd`, `AllocationsSound` |
| `compiler_plans` | some 1700 plans of 3 elements, at most 6 trials: all choices of relationships along three directions, under eight choices of axes, trial elements and health checks; plans that are turned down | the trial space; `StepsOrdered` and `InstancesSound`, which look at the order the finished graph enforces; `ConsistentCompiles`: the rules do not contradict one another |
| `stores` | one table or store at a time; 3 ids, instants whose texts are out of order, 2 clients, 3 saves; 3 journaled events over 2 runs; 19 filters by 11 aggregations, among them equality with a number that is almost the one stored; a step that runs and one whose id is LIKE it | `SavedMeansStored`, `WalksComplete`, `BackendsAgree`, `RetentionKeeps`, `NothingMissed`, `RecoversWhatEnded`, `ResultsAgree` |
| `services` | 2 dependencies and a foreign step, 2 waiters, one with a budget, fail and release; one element with 2 instances in 2 processes; 2 trials with 2 pieces each; fairness | `AnswersSound`, `WaitersReturn`, `OutputsFresh`, `CollectedOnce` |
| `algebra` | all graphs of 4 steps without self loops, the empty one and malformed ones of 2 and 3; parameters of five kinds by 3 bits wide integers; expressions two deep; plans by 3 edits | `WalksSound`, `CanonicalSaysTheSame`, `ParametersSound`, `DerivesTyped`, `PlansSound` |
| `executor_paused_success` | one pause | finding: Succeeded with steps left |
| `stores_once` | as `stores` | finding: two rows under one key after two saves under CreateNew |
| `stores_kept` | as `stores` | finding: events of a resumed run that are dropped |

Some properties are conjunctions of named parts, one for each part of what they
say; several of these have more than one mutant in `PROJECT.json`.

### Bounds

- Three steps hold every pattern the code distinguishes: a chain (a failure
  with a grandchild), a fork, a join (a step with one settled dependency and
  one that is not), and independent steps. All graphs are built with edges from
  larger to smaller ids, in the scheduler's runs all of them, in the executor's
  four shapes. Replays and cascades go in any order, so the numbering loses
  nothing there; it does fix who goes first in a batch.
- Two slots let one step end while another is in flight; three in
  `scheduler_batches` leave somebody out of a batch of four.
- `Budget` of the executor bounds what is not the loop's own: the number of
  runs, pauses, stops, requests, crashes and foreign allocations. Two runs and
  a crash give crash, resume, and a resume from a checkpoint older than the
  crash. `SamePlan` keeps the client at one plan once it has a checkpoint
  (with another plan `resume` refuses and changes nothing).
- `BatchesOnly` leaves checkpoints out of `scheduler_batches` and bounds
  who gets a priority: batches depend on the ready set, not on how it came
  about.
- The compiler's three elements hold chains, forks and joins of relationships;
  an axis on the first, on a later or on several elements gives elements that
  span the run, a group or a trial. Relationships are chosen freely along
  "later on earlier" and, for levels to spread against the order of
  declaration, across it.
- In the stores two clients give every interleaving of a two-call save with
  another one, three rows a page with something before and after it; a base of
  two gives four instants within a second, whose texts are in another order.
  `MaxPageSize` is 4 instead of 1000, so that a clamp may matter; where a
  comparison is about everything that matches, the property says that it fits on
  one page. `Epsilon` is 2 of units of which four make one, so that two numbers can be
  almost equal; "a_b" is LIKE "a-b", which runs. Two runs of one execution are a run and its resume; a channel of
  capacity 1 is one that overflows.
- The stores share only a file, and barriers, orchestrator and collector nothing:
  a behaviour of `MCStores`, `MCServices` or `MCAlgebra` is about one of them, its
  `focus`, and leaves the others empty. The product of all would be larger
  and show nothing more.
- Three bits of integer hold -4 to 3: a least integer whose negation wraps,
  products that wrap, ranges that exceed the counter; `MaxDouble` is small enough for
  a range of doubles that is wider. Constraints that are built
  by two operations on leaves hold every pair of nested combinators, which is
  where canonicalization does its work; expressions nested twice hold every pair
  of operators.
- Three edits of a plan are two axes and a binding, a configuration or a
  reordering. The axes are six that go together and seven that are each wrong
  in a way of their own.
- A compiled plan, an idle executor whose budget is spent, stores after the last
  save, and finished walks rest; their runs do not check for deadlock. The
  scheduler's do.

### Fairness

`WF_vars(Loop)`: the task that called `execute` is polled as long as it can
move, and attempts end. The code awaits an attempt without any other way out, so a step
that hangs without a timeout hangs the run; that is assumed away. Pause, unpause, stop and requests are never assumed to come.

`FairBarrier`: tasks that can go on are polled; a call that has set the state of
a barrier goes on to wake its waiters; a budget that is over ends the wait it is
for, strongly, because a wakeup in between only makes the task look at the state
and wait again under the same budget. Nobody is assumed to satisfy a barrier.

## What is proved

Every theorem is about every value of the constants that the named assumptions
allow: in `Scheduler` and `SchedulerProtocol` finitely many steps and priorities and
acyclic plans (which the compiler's E003 and `ExecutionGraph::validate` give); in
`Executor` also that a step has no trial exactly if its kind is one of
those the compiler gives none, and no retries without the policy Retry; in
`Repository`, `Artifacts` and `Journals` that sizes, times, ids and capacities are numbers,
that `None` is neither an id nor a row nor a save, that metadata as clients save it
parses, and that the id of a step is LIKE itself; in `Compiler` that there are finitely many
elements, numbered in the order they are declared in, and that plans are well typed, with axes
of at least one value; in `GraphWalks` only that ids and dependencies are numbers, which
stand for names in their order. `InstancesAlwaysSound` also assumes `AxesInOrder`, without which the
code is wrong (binding.rs:84, below). None of the theorems needs the bounds that the runs put on
steps, runs, crashes, rows or clients. The run of a property shows it on a small
instance, and that its hypotheses are met there.

| theorem | states | run |
|---|---|---|
| `TypeCorrect`, `StepsInOneStage`, `DependenciesFirst`, `AlwaysProgress` | `TypeOK`, `OneStage`, `RunsAfterDependencies`, `NeverStranded` of the scheduler | `scheduler_graphs` |
| `BatchesAreSound`, `SharesStayFair` | `BatchesSound`, `FairShare` | `scheduler_batches` |
| `SchedulerRefinesLifecycle` | the scheduler with its client implements `StepLifecycle` | `scheduler_graphs` |
| `ExecutorTyped`, `PoolKept` | `TypeOK` of the executor; its pool is what the scheduler runs or is about to be admitted | `executor_failures` |
| `AllocationsAreSound` | `AllocationsSound` | `executor_capacity` |
| `TrialResultsAreSound` | `TrialResultsSound` | `executor_controls` |
| `LimitsKept` | `WithinLimits` | `executor_capacity` |
| `BooksAlwaysAgree`, `AttemptsStayInOrder` | `BooksAgree`; the part of `JournalSound` about one step's events | `executor_failures` |
| `ResumesAreSound`, `JournalIsAHistory`, `ExecutorRefinesLifecycle` | `ResumesSound`, `JournalSound`, the executor implements `StepLifecycle`, if no admission is refused; each also without a cap (`...Uncapped`) and for as long as nobody else has used the manager (`...Alone`) | `executor_failures` |
| `NeverEndsEarly` | `NoEarlyEnd`, of an executor that is `Unhindered` and whose plans are `Roomy` | `executor_capacity` |
| `SuccessTells` | `SuccessMeansDone`, under the same hypotheses | `executor_failures` |
| `BarrierAnswersSound`, `SavedOutputsFresh`, `PiecesCollectedOnce` | `AnswersSound`, `OutputsFresh`, `CollectedOnce` | `services` |
| `SavedStaysStored`, `ListingsAreComplete`, `RetentionIsSound`, `FollowersMissNothing`, `WhatEndedIsRecovered` | `SavedMeansStored`, `WalksComplete`, `RetentionKeeps`, `NothingMissed`, `RecoversWhatEnded` | `stores` |
| `BackendsAlwaysAgree` | `BackendsAgree`: the sqlite and the in-memory stores answer alike | `stores` |
| `EveryTrialOnce` | `EveryCombinationOnce` | `compiler_plans` |
| `OrderAlwaysSurvives` | `OrderSurvives` | `compiler_plans` |
| `InstancesAlwaysSound`, `SharedAlwaysStays` | `InstancesSound`, of plans with `AxesInOrder`; its first half of all plans | `compiler_plans` |
| `ConsistentAlwaysCompiles`, `StepsAlwaysOrdered` | `ConsistentCompiles`, `StepsOrdered` | `compiler_plans` |
| `WalksAlwaysSound` | `WalksSound`, for any lists of steps | `algebra` |

**Scheduler.** The first four follow from one inductive invariant `IInv`. None of
them is inductive: a resume replays what an earlier checkpoint holds, so `IInv` also
says of every checkpoint that it is closed under dependencies (`SavedOK`); a replay
settles steps that are neither ready nor running, so it says of every state what
will have been settled when the replay is over (`ReplayOK`, `SoundInTheEnd`); a
failure must not be replayed below something sound (`CascadeOK`), and a
promotion must not be missed when the last dependency is settled by a skip or
a replay (`NoLostWakeup`). There is one lemma per action. `AlwaysProgress` uses
acyclicity: among the pending steps one depends on no other, and if it is not
ready then a dependency of it has failed and the cascade has taken it. The
refinement goes step by step over the actions and needs one more invariant,
`UnbookedOK`: the cascade that a halted client has not booked is found again from
the failures that it has. A batch is characterised by an order, `SortKey` and then id, and
by sums of what steps before another one ask for; `BatchesAreSound` goes over that order,
`SharesStayFair` over the rounds in which the rotation deals out the steps of each trial.

The library's induction theorems take a predicate as a parameter, which no
installed prover can instantiate; `SumProofs` proves what it says of sums over
finite sets by a smallest counterexample, from the well-foundedness of inclusion.

**Executor.** `ExecutorProofs` gives the types of every field and local and
`PoolOK`. It instantiates `SchedulerProofs` with the executor's own variables
(`Sched`: the replay that is left is `run.seed`), so that the scheduler's lemmas
serve again: `RunOK` says that `IInv` holds of the scheduler inside a run and that the
books follow it, `StoredOK` that what is stored can be resumed from, `HistoryOK` is
both. Both need `NeverRefused`: a step that is refused its allocation is skipped in
the scheduler, and neither booked nor journaled, and what depends on it runs all
the same. That takes another user of the manager who comes between the snapshot and
the allocation. `LimitsOK` shows that it takes one: what is in flight and what is
listed for admission fit into the slots, and what is granted and what is asked for
into the capacity as long as the executor is `Alone` with its manager; hence the two
corollaries that assume nothing about refusals.

What holds also with refusals has an argument of its own. `BooksSettled` keeps the
stages apart and what is booked within what is settled or left to replay. `JournalOK`
says that whatever is told is booked and whatever is booked is told or came with the
checkpoint, and that a step's events are those of one of its possible attempts: a step is
told once and in one piece, since a step that is booked is never in the pool again.
`CausesOK`, that dependencies are told first, is the part that needs `NeverRefused`.
`AllocationsOK` says that ids are unique and that whoever is in the pool holds one of
its own; `Returned`, that what is active is what the pool and the others hold, lasts
until a run is cut short. `TrialsOK` is about runs from the start, whose `any_failed` is
true exactly if a step has failed; a resumed one has lost the marks of the steps
it replayed.

That the executor implements `StepLifecycle` needs `HistoryOK` and a few facts more
(`RecordsOK`). What is asked for while no execution is noted is recorded with the books of
the run before, which are those of its scheduler unless a crash or an error broke it off: a
crash leaves no fingerprint, an error leaves the execution noted, and requests wait in the
slot (`IdleOK`). And ids are fresh (`IdsOK`): what is recorded after a crash, of no plan,
takes nothing away. The replay of a checkpoint is a stutter, since its steps have the
statuses they will get already (`StatusInTheEnd`); a halted run's books lack the
cascade, which a checkpoint of them has all the same (`RecordRefines`). A refusal is no
step of `StepLifecycle`, hence `NeverRefused`.

How runs end is `Whole`: `HistoryOK`, `Returned` where there is a cap, and
`AwaitsSome`, the loop comes to its await with an empty pool only when nothing
is ready. A step is then ready only if the batch was picked against too
little, so `TopUpTakes` needs what is free to be the whole capacity and the first ready
step to fit into it. That is what the hypotheses give. `Roomy`: no step of a plan asks for
more than the capacity (nor for anything custom of a manager without one, which never
lists it). `Unhindered`: nobody pauses, and with a cap nobody else has used the
manager and no run before was stopped, halted or broken off by an error. Each is needed: a pause
that comes between the pause loop and the top-up leaves ready steps behind
(`executor_paused_success`), and an allocation that a halted run has kept, or a step
that is too large, leaves them ready for good. The rest is the
scheduler's: `AlwaysProgress` says of a state with nothing ready, running or left
to replay that it is complete, and only then does the loop report how it went.

**Services.** Each has an invariant that ties what was answered to the state
that it was answered from: `BarrierInv` (what a state of the barrier says
about the calls so far, what an answer says about that state), `OrchestratorInv` (what a
saved output says about the Deploy of that instance in this process), `CollectorInv` (each
piece is handed out, open or finished, and in one place only).

**Stores.** The theorems are about `SpecArchive`, where repository, artifacts and
journal act in any order. `RepositoryInv`: a client that was told "ok" finds its
plan, no statement takes plans away, and keys stand for one row. `ArtifactsInv`: rows
that are minted have ids of their own, before the present. `ListingsAreComplete` is about
listings that are followed while others save and delete. A page is defined by places:
how many rows are ahead of a row gives each its own (`Places`), so that what a page
does not show of the rows that match comes after its token (`PageShows`). What a listing
has shown is in order up to its cursor (`Reached`), and what is due of it has been shown
or comes after the cursor (`Covered`). Each page keeps both. A write takes rows
away from what is due, and a row that is new is not due. `WalkInv` says so of the four
tables of the repository, `ReadingInv` of artifacts, where it takes that an id is handed
out once. `RetentionIsSound` goes
through the three passes of a sweep, with lemmas on the order of texts (`Rank`) of
instants in different seconds, on who is newer than whom and on sums of sizes.
`FollowersMissNothing`: what a channel carries is in order, also over a resume that
numbers its events from 1 again, and a row of the followed execution is seen, is further down
the channel or is about to be published (`JournalsInv`).

For `WhatEndedIsRecovered` the fold of `recover` is given a closed form, `Known`: what the
events at any places of a sequence say. It satisfies the equation of the fold place by
place (`OneMore`), and nothing else does, by a smallest counterexample (`FoldIsKnown`).
`LogInv` then ties the table to the log. The rows of steps are logged, unless some were
dropped on request; of an execution that ran once what is logged is also stored, since
the run numbers its events upwards and `INSERT OR IGNORE` ignores only the first event
when it is written again. What is asked about a step is answered about all whose ids
it is LIKE: the theorem says that the answer is yes exactly if one of these has
completed by what `recover` says, and no more can be said of it. A resumed run numbers from 1 again, and those of its events whose
numbers are taken are ignored: then only the first half holds (`stores_kept`).

`BackendsAlwaysAgree` takes one invariant per store, on top of those above. `HeldInv`: of
plans only refused ones are in memory alone, and a plan that is in the table alone has
lost its place to one of those; executions are the same; so are the checkpoints of an
execution that is not `crossed`, and all metadata that parses (`HeldStep`, a lemma per
table). `ApartInv`: as long as nobody was
interrupted and no two saved under one key at once, savers have keys of their own, there is
no row left of what is being replaced nor one yet of what is being created, and the two stores
differ in nothing but the keys that somebody is replacing. `AlikeInv`: of an execution that
ran once, the table and the log have the same events past the first. The rest is about
operators. Two instants have one text only if they are equal (`RankApart`), so that the
order of texts, where it is that of instants, is a strict order on the rows: `latest`,
`prune` and pages are then the same by either. Two sequences of the same rows, each in one
strict order, are equal (`SortedOnce`), so that what the in-memory journal filters is what
the table sorts, and its fold ends with the last one (`HighestIsLast`).

**Compiler.** `EveryTrialOnce`: strides are the products of the sizes behind them, so the
digits of a number tell it from every other (`DigitsTell`), and every combination is one
of a number (`DigitsOccur`). `LevelsSettle`: a pass over the levels that still raises something
has taken in another element, so that as many passes as elements are enough, as the code
has it; after them what an element shares has at most its level. `UpstreamIsClosure`: the loop
over intermediate steps computes what is reachable. That the reduction keeps it
(`ReductionKeepsOrder`) takes a graph without circles: of an edge that was dropped, what lies
between its ends gets smaller from hop to hop, down to edges that are still there.

`Shape` is the invariant that says which activations there are after each pass: those of all
trials, and from Rule 3 on one for each group of trials. Groups are runs of consecutive
numbers, and those of a lower level consist of those of a higher one (`GroupsNest`);
both halves of `InstancesSound` follow, the second one from levels that reach the axes of an
element (`LevelsReach`).

`Built` and `Folding` say of each pass which edges there are, exactly: up to the lifelines
`AskedEdges`, what rules ask for element by element and trial by trial; then those edges
between steps that remain, with groups folded (`FoldedEdges`), with the notifications, and
rerouted past dedicated instances (`Routed`). From the gates on `Folding` gives bounds instead:
the graph holds all of `Routed` directly or through a gate (`Direct`), and has no edge
that does not respect an order. This order is what the proof turns on. `Follows` puts the
steps of dedicated instances before and after all others (`Layer`), and compares the others
by trial if some element is exclusive (`Turn`), then by what `OneTrial` has earlier. Every
edge of every pass goes from a later to an earlier step of it: a fold moves a step to
the first or last trial of its group, and what the edge asks for is there for that group, or
trials do not matter. So no graph has a circle (`FollowingIsCircleless`), nothing is `broken`,
and the reduction leaves a graph that is `Enforced`, of the same `Upstream` as one that
holds everything directly. `StepsOrdered` is then read off that graph: the steps that bring up
and take down what a trial runs against are those of its group (`UpIs`, `DownIsStep`).

**Execution graph.** `WalkInv` says of Kahn's walk that what is out or on the stack is what
has no count left, each of them once, that a count is what a step has listed less what of
it is out (`Left`), and that what is out came after all it depends on. If the walk stops short
every step that is left waits for another one of them, or names a step twice
(`CycleIsCircle`). In the order of a walk that got through, a step whose turn it is
has had all its own dependencies' turns, so the loops of `parallel_waves` and `critical_path`
take only final values from it: depths are one more than the deepest dependency
(`DepthIsLayered`), chains one longer than depths, and `prev` leads one level down
(`ChainsAreLinked`, `BackAlong`). `Behind`, the reference for waves, satisfies its equation
with the depths and with nothing else (`BehindIsDeep`). Neighbours mirror each other because a
round may be added at either end of a path (`FirstStep`). The loops are recursive functions
over a bounded domain: that there are such functions is `IterationExists`.

Only model-checked:

- liveness, which this prover does not do under fairness: `WaitersReturn`, `RunEnds`,
  `StopHonoured`;
- `ResultsAgree`: filters are trees, and what they select and aggregate is defined by
  recursion over them, of which the provers see nothing;
- `CanonicalSaysTheSame`, `ParametersSound`, `DerivesTyped`: constraints and expressions
  are trees as well, and what is done to them is recursive (`Constraints`,
  `Expressions`), so it is checked over bounded inputs;
- `PlansSound`: nothing in it is recursive, and part of it follows from the digits of
  `EveryTrialOnce`. It also needs that every value an axis lists is typed, that
  parameters of one element have names of their own and that an axis has no more
  values than two digits tell apart; a proof from these is not written.

## Where code and documentation disagree

Three runs end in a violation on purpose; `findings` in `PROJECT.json` quotes
the lines. The following were met while modelling, are part of the model as the
code has them, and have no run of their own.

Scheduler and executor:

- resources.rs:305: a manager without capacity lists no custom resources, and
  the scheduler takes an unlisted one for zero, so a step that asks for one is
  never admitted (resources.rs:185 "Defaults to unbounded (always admits).").
- executor.rs:267: checkpoints store sequence zero and a resumed run numbers its
  events from 1 again (journal.rs:26 "Monotonic sequence within the
  execution."); `EventsKept` shows what the sqlite journal makes of it.
- executor.rs:511: a request for a checkpoint waits in one slot that the loop
  reads at its top; a later request overwrites it, and a run that ends leaves
  it (executor.rs:515 "Main loop writes the actual checkpoint").
- executor.rs:615: a run resumed from a checkpoint with failed steps has
  `any_failed` false and reports Succeeded. `SuccessMeansDone` is therefore
  about runs from the start.
- executor.rs:689-702: a stop while paused hands over an empty list of trial
  results also under RetainResults (policies.rs:146 "Keep partial results.").
- executor.rs:1062-1065: a halt leaves the loop with steps in flight;
  executor.rs:748-751 says they are drained. So does a stop under
  AfterActiveTrials (662; policies.rs:138). Their allocations are not released
  (executor.rs:651-653), which is why `AllocationsReturned` is about runs that
  are not cut short.
- executor.rs:774: a step whose allocation is refused is skipped for good;
  executor.rs:772-773 says it returns to ready.
- executor.rs:843-897: StepStarted is written when the step has ended.
  state.rs: the state managers hear of ExecutionStarted and ExecutionResumed
  only, so `InMemoryStateManager::recover` knows of no step.
- executor.rs:481: a stop that comes when nothing runs ends the next run.
- executor.rs:261: a checkpoint never names the steps in flight (state.rs:54).
- resources.rs:239-259: two callers of allocate can exceed the cap together
  (resources.rs:205-207), so `WithinLimits` is about an executor with a manager
  of its own.
- scheduler.rs:302: the cursor stays when the batch limit is a multiple of the
  number of trials (scheduler.rs:267-269 says that batches do not all start at
  trial 0); scheduler.rs:64 calls ready steps a subset of the pending ones,
  which promote_ready_for removes them from.
- scheduler.rs:138-144 and executor.rs:148 still describe earlier versions
  (policies that degrade to Fifo, a stubbed resume).

Compiler:

- binding.rs:84: levels count axes in the order of the elements, trials in the
  order of the plan. With the two different an element may be kept up while its
  values change (docs/design/SRD-0010-compilation-pipeline.md:497-499 "at every
  group boundary where bound values change, the element deactivates and
  re-activates."). The plans of `compiler_plans` have one order.
- compiler.rs:1384: TrialEnd waits for the teardowns that are left after the
  lifeline collapse; a trial element on a lifeline has none
  (SRD-0010:907-909). `TrialsWrapped` is about the others.
- compiler.rs:388-393: Rule 8 runs before the graph is checked for circles. Of
  two edges of a circle that are redundant by way of each other both go, so a
  trial element that is Linear on two others, which no schedule can meet,
  compiles to a graph without either order. compiler.rs:1572 says
  "Reachability is preserved", SRD-0010 puts the check before Rule 8;
  `OrderSurvives` is about graphs without a circle.
- compiler.rs:1040-1064: what the teardown of an element on a lifeline waited
  for is dropped, so its target may go down, and it with it, before it came up or
  while others that share it are still up.
- compiler.rs:678-833: a dedicated instance waits for none of the target's own
  dependencies and is not coalesced with its owner (SRD-0010, Rule 3).
- compiler.rs:1532-1543: the exemption of an element's teardown from its gate
  looks for equal trials, so a coalesced element, deployed in the first and torn
  down in the last trial of a group, waits for the gate (compiler.rs:1439-1442).
- compiler.rs:348: Start does not precede TrialStart and TrialEnd when these
  have no dependencies.
- compiler.rs:396-397: the instance graph has one instance per element and
  trial, whatever was coalesced (instance.rs says "One instance per trial" of
  InstanceScope::Trial). Bindings of it skip tokens (compiler.rs:1798), so that it
  shows the configuration or the default where the steps have the token's
  value (SRD-0010:764 "record its ResolvedConfiguration as
  ElementInstance.bindings").
- A derived parameter without a literal is E001: the compiler never calls
  `compute`. Literals of bindings and configurations are not checked for kind,
  nor the parameter a value of an axis names, which `Assignments::new` would
  refuse (`Misaddressed`). Trial codes of axes with more than 256 values are
  ambiguous.
- W001 and W003 to W006 and the validators of SRD-0010's invariants do not
  exist; compiler.rs:6-23 describes an earlier version.
- critical_path takes the greatest id among the longest chains (its comment:
  "Ties broken by authoring order").
- execution.rs:452: a dependency that is listed twice is reported as a circle;
  the walk over instances takes it.

Stores:

- A different plan under a used id: in memory it takes the place of the first and the
  answer is Ok (mock/execution_repository.rs:175-182), where the trait says "A repeat save
  of a different payload under the same id is a `Conflict`"
  (persistence/execution_repository.rs:115-117), and sqlite says so. From then on
  the two hold different plans; `BackendsAgree` says that they differ in nothing but
  what was `refused`.
- `save_plan` of a plan that was compiled again, with a new id and the same
  fingerprint, is a Backend error in sqlite and Ok in memory; of two clients that
  save the same plan at once one gets a Backend error, where the trait promises
  a no-op.
- execution_repository.rs:116: a page of plans that labels have emptied has no
  token though rows remain; `WalksComplete` leaves such walks out. Rows of executions
  have an empty fingerprint, so `executions_of_plan` is always empty.
- Instants are compared as texts whose trailing zeros are trimmed: "1.1Z" comes
  after "1.11Z". `BackendsAgree` is about instants in one order. The cutoff of
  retention is cut to the second, so an artifact lives up to a second longer or
  shorter than the policy says.
- Metadata: `set_attr` for an id without metadata writes "{}", which no read parses; nor
  can `list_test_plans` and `list_execution_plans` give a page that has such a row
  (metadata_store.rs:50-59, 82-90).
- Checkpoints of one instant: in memory `latest` takes the greatest id and
  `prune` drops it first.
- Artifacts: between the DELETE and the INSERT of a Replace there is no
  artifact, and a caller dropped there leaves none.
- Results: `count` of a filter whose leaves are all SQL counts everything where
  Or and Not are left out of the clause (result_store.rs:222, 311); `aggregate`
  and `stream` stop at one page; percentiles are rounded in sqlite and
  truncated in memory, empty aggregates infinite, NaN or an error;
  texts compared for inequality differ.
- Results: equality of numbers is up to f64::EPSILON where rows are compared one by one
  (sqlite/result_store.rs:470-471, mock/result_store.rs:195-196) and exact in the clause
  that `push_metric_leaf` makes (sqlite/result_store.rs:687-696): of 0.1 + 0.2 and 0.3 the
  clause drops a row that the evaluator takes, although result_store.rs:663-665 takes
  such a leaf to be "fully resolved by a SQL subquery". `Supported` leaves out leaves
  for which a number is stored that is almost equal (`AlmostStored`); without that
  `ResultsAgree` is violated.
- sqlite/state_manager.rs:111-123: `is_step_completed` looks for the id with LIKE, in which
  an underscore stands for any character and letters for either case: asked about
  "activate_a_b_t0" it answers for "activate_a-b_t0" too ("rough but correct for this
  shape"). `recover` and the in-memory manager compare ids. `RecoversWhatEnded` takes
  the step for all those it is LIKE.
- Journal: the first event of a run is published twice; the comment at
  journal_store.rs:205-207 has history replayed before one subscribes, which
  misses what is written in between. `NothingMissed` subscribes first.

Services and element model:

- mock/barrier.rs:92-119: a task that looked at the state and registers after
  everybody was woken waits for ever (`late` in `WaitersReturn`). A barrier that
  timed out for one waiter stays so, and one whose budget ends as it is satisfied
  is told that it was not.
- orchestrator.rs:377: shutdown leaves no runtime for a second run; 287: a resume
  in a new process finds no outputs. `OutputsFresh` says that these are the only
  reasons for the two errors.
- artifacts.rs:194: a piece after the stop opens a collection that hides the
  finished one.
- with_constraint after with_default does not look at the default; `validate`
  of an external selection takes any size; satisfies may claim that a pattern
  is met; the least integer modulo or divided by -1 ends the process, which the
  inputs of `Constraints` leave out and `Expressions` has as `Panic`, which `DerivesTyped`
  lets pass.
- `DoubleDomain::range` takes any two finite bounds (domain.rs:373-381), and a sample of
  one whose width is not a finite double panics (415-420): `TooWide`.

## Not modelled, and the plan

Left out for good: serialisation, wording, statistics, observers (callbacks
without state), the Hyperplane tier (design documents and re-exports), the
conformance kit (test code). Attributes, ports, names, `Element::validate` and
`wiring_for` are validation of data that no other crate calls yet; `TrialSet`, sampling
strategies and `TrialResult::validate` are values nothing uses. `append_batch` of the
journal store has no caller outside tests.

Next, in this order:

1. The compiler's graphs handed to the executor and the orchestrator, to see
   which elements a failure leaves up.
2. `PlansSound` as a theorem, from the assumptions named above.
