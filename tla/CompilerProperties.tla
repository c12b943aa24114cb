-------------------------- MODULE CompilerProperties -------------------------
(***************************************************************************)
(* What the compiler promises of the graphs it produces.  Most properties  *)
(* look at the order the finished graph enforces and at nothing else.      *)
(***************************************************************************)
EXTENDS Compiler

Before == Upstream(depends_on)

(* The mixed radix enumeration runs every combination of axis values, and  *)
(* none twice.                                                             *)
EveryCombinationOnce ==
  LET combinations == {offsets(plan.axes, t) : t \in Trials}
  IN /\ Cardinality(combinations) = Cardinality(Trials)
     /\ combinations = {c \in [DOMAIN plan.axes -> 0..trial_count(plan.axes)] :
                          \A i \in DOMAIN plan.axes : c[i] < plan.axes[i].size}

------------------------------------------------------------------------------
(* The steps that bring up and take down the instance of e that trial t    *)
(* runs against: the last activation up to t, the first teardown from t,   *)
(* which for an element on a lifeline is that of the element it leads to.  *)
Up(e, t) == Activate(e, Max({u \in 0..t : Activate(e, u) \in DOMAIN depends_on}))

Down(e, t) ==
  LET r == lifeline_root_of(e) IN
    Deactivate(r, Min({u \in t..Max(Trials) : Deactivate(r, u) \in DOMAIN depends_on}))

OnLifeline == {e \in Elements : lifeline_root_of(e) # e}

Lasting(e) == e \in NonTrialElements /\ group_size_at(plan.axes, level[e]) > 1

(* What comes before what within one trial, as relationships and           *)
(* notifications ask for it.  What is on a lifeline goes down with the root*)
(* of it.                                                                  *)
OneTrial ==
  LET up(e)   == <<"up", e>>
      down(e) == <<"down", lifeline_root_of(e)>>
      begin   == <<"begin", 0>>
      end     == <<"end", 0>>
      own     == Elements \ OnLifeline
      asked(x) ==
        {<<up(x), up(y)>> : y \in Deps(x, {"Shared", "Exclusive", "Lifeline"})}
        \cup {<<down(y), down(x)>> : y \in Deps(x, {"Shared", "Exclusive"}) \ OnLifeline}
        \cup {<<up(x), down(y)>> : y \in {y \in Deps(x, {"Linear"}) : level[x] = level[y]}}
  IN add_dependencies(
       [p \in ({"up", "down"} \X Elements) \cup {begin, end} |-> {}],
       {<<down(x), up(x)>> : x \in own}
       \cup {<<begin, up(x)>> : x \in NonTrialElements}
       \cup {<<up(x), begin>> : x \in trial_elements}
       \cup {<<end, down(x)>> : x \in own \cap trial_elements}
       \cup {<<down(x), end>> : x \in own \cap NonTrialElements}
       \cup UNION {asked(x) : x \in Elements})

(* An instance of y is there for all trials of one of x. *)
Covers(y, x) == ~Lasting(x) \/ (y \in NonTrialElements /\ level[y] <= level[x])

Aligned(x) ==
  /\ Deps(x, {"Exclusive"}) # {} => ~Lasting(x) /\ x \notin OnLifeline
  /\ \A y \in Deps(x, {"Shared", "Exclusive", "Lifeline"}) : Covers(y, x)
  /\ \A y \in Deps(x, {"Shared", "Exclusive"}) \ OnLifeline : Covers(y, lifeline_root_of(x))
  /\ \A y \in Deps(x, {"Linear"}) :
       level[x] = level[y] => ~Lasting(x) /\ ~Lasting(lifeline_root_of(y))

(* Plans whose constraints can all be met.  Nothing has to come before     *)
(* itself in a trial; what has to be down for another goes down by itself, *)
(* and what is kept up for another only goes down with a lifeline that is  *)
(* longer than the trials of the other.  Where instances exclude one       *)
(* another, and their trials run one after the other, what an element      *)
(* needs in all its trials is there for all of them.                       *)
Consistent ==
  /\ Circleless(OneTrial)
  /\ \A x \in Elements :
       /\ Deps(x, {"Linear"}) \cap OnLifeline = {}
       /\ \A y \in Deps(x, {"Shared", "Exclusive"}) \cap OnLifeline :
            x \in trial_elements /\ lifeline_root_of(y) \in NonTrialElements
  /\ (\E x \in Elements : Deps(x, {"Exclusive"}) # {}) => \A x \in Elements : Aligned(x)

Compiled == stage = "compiled" /\ Consistent

(* No plan that can be met ends in E003: the passes, each of which adds    *)
(* edges of its own, never contradict one another, and none is saved by    *)
(* the reduction, which could open a circle before anybody looks for one.  *)
ConsistentCompiles ==
  stage \in {"reduce", "broken"} /\ Consistent => stage = "reduce" /\ Circleless(depends_on)

(* In every trial what an element depends on is up before it, what it      *)
(* shares stays up until it is down, and what runs before it is down when  *)
(* it starts (Rule 2), through coalescing, gates and reduction.            *)
DependenciesHold ==
  Compiled =>
    \A x \in Elements, t \in Trials :
      /\ \A y \in Deps(x, {"Shared", "Exclusive", "Lifeline"}) : Up(y, t) \in Before[Up(x, t)]
      /\ \A y \in Deps(x, {"Shared", "Exclusive"}) :
           x \notin OnLifeline => Down(x, t) \in Before[Down(y, t)]
      /\ \A y \in Deps(x, {"Linear"}) :
           level[x] = level[y] => Down(y, t) \in Before[Up(x, t)]

(* Two instances of an element that wants its target for itself are never  *)
(* up together, also when their order goes by way of the notifications.    *)
OneAtATime ==
  Compiled =>
    \A x \in Elements, t \in Later :
      Deps(x, {"Exclusive"}) # {} => Down(x, t - 1) \in Before[Up(x, t)]

(* The dedicated instances of all trials are up before their owner, whose  *)
(* own steps may have been coalesced, and go down after it.                *)
OwnInstance ==
  Compiled =>
    \A x \in Elements, t \in Trials : \A y \in Deps(x, {"Dedicated"}) :
      /\ Dedicated(Activate(y, t), x) \in Before[Up(x, t)]
      /\ Down(x, t) \in Before[Dedicated(Deactivate(y, t), x)]

(* A trial is announced when all that outlives it is up, its elements come *)
(* and go between its two notifications, and what outlives it stays until  *)
(* every trial of its group is over (Rule 4, "group-end coverage").        *)
TrialsWrapped ==
  Compiled /\ trial_elements # {} =>
    \A t \in Trials :
      /\ \A x \in trial_elements \ OnLifeline :
           /\ TrialStart(t) \in Before[Up(x, t)]
           /\ Up(x, t) \in Before[Down(x, t)] /\ Down(x, t) \in Before[TrialEnd(t)]
      /\ \A y \in NonTrialElements :
           /\ Up(y, t) \in Before[TrialStart(t)]
           /\ lifeline_root_of(y) \in NonTrialElements => TrialEnd(t) \in Before[Down(y, t)]

(* Nobody is brought up before the readiness gate of what it shares.       *)
GatesHold ==
  Compiled =>
    \A x \in Elements, t \in Trials :
      \A y \in Deps(x, {"Shared", "Exclusive"}) \cap plan.health_check :
        Readiness(Up(y, t)) \in Before[Up(x, t)]

(* The instance graph tells of the steps: what it says is one for the whole*)
(* study is brought up once, and of instances it joins the source finds the*)
(* target up, but one after the other only where the levels are the same.  *)
InstancesTold ==
  /\ stage = "compiled" =>
       \A i \in Instances : Scope(i.element) = "study" => Up(i.element, i.trial).trial = 0
  /\ Compiled =>
       \A e \in InstanceEdges :
         LET x == e[1].element y == e[2].element t == e[1].trial
         IN level[x] = level[y] \/ y \notin Deps(x, {"Linear"}) => Up(y, t) \in Before[Up(x, t)]

(* The finished graph brings things up and takes them down in the order    *)
(* every relationship, trial notification and readiness gate asks for, and *)
(* as the instance graph tells.                                            *)
StepsOrdered ==
  DependenciesHold /\ OneAtATime /\ OwnInstance /\ TrialsWrapped /\ GatesHold /\ InstancesTold

------------------------------------------------------------------------------
(* What an element shares is not replaced under it: in all trials of its   *)
(* instance it finds the same instance of the target (effective levels).   *)
SharedStays ==
  stage = "compiled" =>
    \A x \in Elements, t \in Trials : \A y \in Deps(x, {"Shared", "Exclusive"}) :
      y \in NonTrialElements => Up(y, Up(x, t).trial) = Up(y, t)

(* An element is up in a trial with the values the trial gives to its axes:*)
(* where they change it is taken down and brought up again (Rule 3).       *)
ReactivatedOnChange ==
  stage = "compiled" =>
    \A x \in Elements, t \in Trials : \A i \in DOMAIN plan.axes :
      plan.axes[i].element = x =>
        offsets(plan.axes, t)[i] = offsets(plan.axes, Up(x, t).trial)[i]

(* What a trial finds up are instances with its own values, of which none  *)
(* is replaced under another that shares it.                               *)
InstancesSound == SharedStays /\ ReactivatedOnChange

------------------------------------------------------------------------------
(* Transitive reduction drops edges and never an order (Rule 8), but that  *)
(* of steps that wait for themselves.                                      *)
OrderSurvives ==
  [][stage = "reduce" /\ Circleless(depends_on) =>
       Upstream(depends_on') = Upstream(depends_on)]_vars
==============================================================================
