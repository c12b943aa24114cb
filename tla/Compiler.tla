------------------------------- MODULE Compiler ------------------------------
(***************************************************************************)
(* DefaultCompiler (crates/paramodel-compiler/src/compiler.rs): the passes *)
(* of compile_impl over the steps of the graph, in order, one action each; *)
(* a pass that reports an error refuses the plan.                          *)
(*                                                                         *)
(* Abstracted: step ids are records of what they are made from and never   *)
(* collide; depends_on is a set; a step's configuration is that of its     *)
(* trial; reasons, metadata and concurrency limits are left out.           *)
(***************************************************************************)
EXTENDS TrialSpace

CONSTANT Plans

(* No element declares the same dependency twice: ExecutionGraph::validate  *)
(* would take the second for a circle.                                     *)
ASSUME CompilerAssumption ==
  \A p \in Plans : p \in TestPlanOf /\ \A e \in Elements : IsInjective(p.dependencies[e])

VARIABLES
  plan,
  stage,            \* the pass to run next, or "compiled", "refused", "broken" (E003)
  level,            \* BindingStateComputer::effective_levels
  trial_elements,
  depends_on        \* the steps, and what each of them waits for

vars == <<plan, stage, level, trial_elements, depends_on>>

Trials == 0..(trial_count(plan.axes) - 1)
Later  == Trials \ {0}

Step(kind, e, owner, t) == [kind |-> kind, element |-> e, owner |-> owner, trial |-> t]

Activate(e, t)   == Step("activate", e, 0, t)
Deactivate(e, t) == Step("deactivate", e, 0, t)
TrialStart(t)    == Step("trial_start", 0, 0, t)
TrialEnd(t)      == Step("trial_end", 0, 0, t)
Start            == Step("start", 0, 0, 0)
End              == Step("end", 0, 0, 0)

Dedicated(step, owner) == [step EXCEPT !.owner = owner]
Readiness(step)        == [step EXCEPT !.kind = "ready"]

Deps(e, kinds) == Targets(plan, e, kinds)
NonTrialElements == Elements \ trial_elements

(* Every edge <<s, d>> makes s wait for d; one of a step that is not there *)
(* is dropped without a word.                                              *)
add_dependencies(g, edges) ==
  [s \in DOMAIN g |-> g[s] \cup {e[2] : e \in {e \in edges : e[1] = s}}]

remove_dependencies(g, edges) ==
  [s \in DOMAIN g |-> g[s] \ {e[2] : e \in {e \in edges : e[1] = s}}]

Edges(g) == UNION {{<<s, d>> : d \in g[s]} : s \in DOMAIN g}

(* The steps of both graphs. *)
Joined(f, g) ==
  [s \in DOMAIN f \cup DOMAIN g |-> IF s \in DOMAIN f THEN f[s] ELSE g[s]]

Pass(from, to) == stage = from /\ stage' = to
Analysed == UNCHANGED <<plan, level, trial_elements>>

------------------------------------------------------------------------------
(* plan.validate, gather_unsupported, resolve_configuration. *)
Unsupported ==
  \/ plan.commands # {} \/ plan.unbound # {}
  \/ \E e \in Elements : ~(Deps(e, Relationships) \subseteq Elements)

Refuse == /\ Unsupported /\ Pass("new", "refused")
          /\ UNCHANGED depends_on /\ Analysed

(* Rule 1, with the deploy side of Shared. *)
Expand ==
  /\ ~Unsupported /\ Pass("new", "rule2")
  /\ level' = effective_levels(plan)
  /\ trial_elements' = identify_trial_elements(plan, level')
  /\ depends_on' =
       Joined(
         [s \in {Activate(e, t) : e \in Elements, t \in Trials} |->
            {Start} \cup {Activate(y, s.trial) : y \in Deps(s.element, {"Shared"})}],
         [s \in {Deactivate(e, t) : e \in Elements, t \in Trials} |->
            {Activate(s.element, s.trial)}])
  /\ UNCHANGED plan

(* Mutant: the target is not kept up for its dependents. *)
SharedEdges_none == {}

SharedEdges ==
  UNION {{<<Deactivate(y, t), Deactivate(x, t)>> : y \in Deps(x, {"Shared"})} :
           x \in Elements, t \in Trials}

LinearEdges ==
  UNION {{<<Activate(x, t), Deactivate(y, t)>> :
            y \in {y \in Deps(x, {"Linear"}) : level[x] = level[y]}} :
           x \in Elements, t \in Trials}

LifelineEdges ==
  UNION {{<<Activate(x, t), Activate(y, t)>> : y \in Deps(x, {"Lifeline"})} :
           x \in Elements, t \in Trials}

apply_rule2_edges ==
  /\ Pass("rule2", "dedicated")
  /\ depends_on' = add_dependencies(depends_on, SharedEdges \cup LinearEdges \cup LifelineEdges)
  /\ Analysed

(* Each owner gets an instance of the target for itself, in every trial.   *)
apply_dedicated_materialisation ==
  LET Of == {o \in Elements \X Elements \X Trials : o[2] \in Deps(o[1], {"Dedicated"})}
  IN /\ Pass("dedicated", "exclusive")
     /\ depends_on' =
          Joined(
            add_dependencies(depends_on,
              {<<Activate(o[1], o[3]), Dedicated(Activate(o[2], o[3]), o[1])>> : o \in Of}),
            Joined([s \in {Dedicated(Activate(o[2], o[3]), o[1]) : o \in Of} |-> {Start}],
                   [s \in {Dedicated(Deactivate(o[2], o[3]), o[1]) : o \in Of} |->
                      {Deactivate(s.owner, s.trial)}]))
     /\ Analysed

(* W002: two elements want the same target for themselves. *)
Contended ==
  \E x, z \in Elements : x # z /\ Deps(x, {"Exclusive"}) \cap Deps(z, {"Exclusive"}) # {}

(* Mutant: trials are not put one after the other. *)
SerialEdges_none == {}

SerialEdges ==
  {<<Activate(x, t), Deactivate(x, t - 1)>> :
     x \in {x \in Elements : Deps(x, {"Exclusive"}) # {}}, t \in Later}

apply_exclusive_serialisation ==
  /\ Pass("exclusive", IF Contended THEN "refused" ELSE "lifeline")
  /\ depends_on' =
       add_dependencies(depends_on,
         SerialEdges
         \cup UNION {{<<Activate(x, t), Activate(y, t)>> : y \in Deps(x, {"Exclusive"})} \cup
                     {<<Deactivate(y, t), Deactivate(x, t)>> : y \in Deps(x, {"Exclusive"})} :
                       x \in Elements, t \in Trials})
  /\ Analysed

------------------------------------------------------------------------------
Lifelines(e) ==
  {i \in DOMAIN plan.dependencies[e] : plan.dependencies[e][i].relationship = "Lifeline"}
LifelineTarget(e) ==
  IF Lifelines(e) = {} THEN e ELSE plan.dependencies[e][Min(Lifelines(e))].target

(* Where the chain of lifelines from e ends; a chain that turns in circles, *)
(* be it of one element, counts for none.                                   *)
lifeline_root_of(e) ==
  LET hop[n \in Nat] == IF n = 0 THEN e ELSE LifelineTarget(hop[n - 1])
      last == hop[Cardinality(Elements)]
  IN IF Lifelines(last) = {} THEN last ELSE e

Collapsed(s) ==
  IF s.kind = "deactivate" /\ s.owner = 0
  THEN [s EXCEPT !.element = lifeline_root_of(s.element)] ELSE s

(* What the removed teardowns waited for is forgotten. *)
apply_lifeline_collapse ==
  /\ Pass("lifeline", "coalesce")
  /\ depends_on' = [s \in {s \in DOMAIN depends_on : Collapsed(s) = s} |->
                      {Collapsed(d) : d \in depends_on[s]}]
  /\ Analysed

(* Of a group of trials the first activation and the last deactivation are *)
(* kept.                                                                   *)
GroupFirst(e, t) == LET size == group_size_at(plan.axes, level[e]) IN (t \div size) * size

GroupLast(e, t) ==
  Min({GroupFirst(e, t) + group_size_at(plan.axes, level[e]) - 1, Max(Trials)})

current(s) ==
  IF s.owner # 0 \/ s.element \notin NonTrialElements THEN s
  ELSE CASE s.kind = "activate"   -> [s EXCEPT !.trial = GroupFirst(s.element, s.trial)]
         [] s.kind = "deactivate" -> [s EXCEPT !.trial = GroupLast(s.element, s.trial)]
         [] OTHER -> s

(* Mutant: the edges of the removed steps are not folded. *)
Folded_kept(s) == {current(d) : d \in depends_on[s]} \ {s}

(* What the steps folded into s waited for. *)
Folded(s) ==
  (UNION {{current(d) : d \in depends_on[r]} :
            r \in {r \in DOMAIN depends_on : current(r) = s}}) \ {s}

apply_coalescing ==
  /\ Pass("coalesce", "notify")
  /\ depends_on' =
       IF \A s \in DOMAIN depends_on : current(s) = s THEN depends_on
       ELSE [s \in {s \in DOMAIN depends_on : current(s) = s} |-> Folded(s)]
  /\ Analysed

(* Mutant: a group waits for its last trial only. *)
HoldEdges_last ==
  {<<Deactivate(e, GroupLast(e, t)), TrialEnd(GroupLast(e, t))>> :
     e \in NonTrialElements, t \in Trials}

(* Mutant: trial elements wait for the end of their trial, too. *)
HoldEdges_all ==
  {<<Deactivate(e, GroupLast(e, t)), TrialEnd(t)>> : e \in Elements, t \in Trials}

HoldEdges ==
  {<<Deactivate(e, GroupLast(e, t)), TrialEnd(t)>> : e \in NonTrialElements, t \in Trials}

apply_trial_notifications ==
  /\ Pass("notify", "reroute")
  /\ depends_on' =
       IF trial_elements = {} THEN depends_on
       ELSE Joined(
              add_dependencies(depends_on,
                {<<Activate(e, t), TrialStart(t)>> : e \in trial_elements, t \in Trials}
                \cup HoldEdges),
              Joined([s \in {TrialStart(t) : t \in Trials} |->
                        {current(Activate(e, s.trial)) : e \in NonTrialElements}
                          \cap DOMAIN depends_on],
                     [s \in {TrialEnd(t) : t \in Trials} |->
                        {Deactivate(e, s.trial) : e \in trial_elements} \cap DOMAIN depends_on]))
  /\ Analysed

(* Mutant: the direct edges go, the trials are not bridged. *)
Bridges_none == {}

Bridges == {<<TrialStart(t), TrialEnd(t - 1)>> : t \in Later}

apply_exclusive_rerouting ==
  LET exclusive == {e \in trial_elements : Deps(e, {"Exclusive"}) # {}}
  IN /\ Pass("reroute", "gates")
     /\ depends_on' =
          IF exclusive = {} THEN depends_on
          ELSE remove_dependencies(add_dependencies(depends_on, Bridges),
                 {<<Activate(e, t), Deactivate(e, t - 1)>> : e \in exclusive, t \in Later})
     /\ Analysed

------------------------------------------------------------------------------
Gated == {s \in DOMAIN depends_on : s.kind = "activate" /\ s.element \in plan.health_check}

(* Teardowns of a gated element in the trial of one of its deploys.        *)
Exempt(s) == s.kind = "deactivate" /\ \E a \in Gated : a.element = s.element /\ a.trial = s.trial

(* Mutant: nobody waits for the gate. *)
BehindGate_all(s, d) == d

BehindGate(s, d) == IF d \in Gated /\ ~Exempt(s) THEN Readiness(d) ELSE d

apply_readiness_gates ==
  /\ Pass("gates", "sentinels")
  /\ depends_on' =
       Joined([s \in DOMAIN depends_on |-> {BehindGate(s, d) : d \in depends_on[s]}],
              [s \in {Readiness(a) : a \in Gated} |-> {[s EXCEPT !.kind = "activate"]}])
  /\ Analysed

AddSentinels ==
  LET awaited == UNION {depends_on[s] : s \in DOMAIN depends_on}
  IN /\ Pass("sentinels", "reduce")
     /\ depends_on' =
          Joined(depends_on,
                 [s \in {Start, End} |-> IF s = Start THEN {} ELSE DOMAIN depends_on \ awaited])
     /\ Analysed

(* Who waits for k waits for what k waits for. *)
Through(k, paths) ==
  paths \cup ({e[1] : e \in {e \in paths : e[2] = k}}
                \X {e[2] : e \in {e \in paths : e[1] = k}})

(* All that each step of g waits for, directly or not: paths are closed    *)
(* over one inner step at a time.                                          *)
Upstream(g) ==
  LET paths == FoldSet(Through, Edges(g), DOMAIN g)
  IN [s \in DOMAIN g |-> {e[2] : e \in {e \in paths : e[1] = s}}]

(* Mutant: the order is lost where two wait for the same step. *)
Redundant_any(g) == {e \in Edges(g) : \E f \in Edges(g) : f[2] = e[2] /\ f[1] # e[1]}

(* Edges <<s, d>> for which s waits for another that waits for d. *)
Redundant(g) ==
  LET up == Upstream(g)
  IN {e \in Edges(g) : \E y \in up[e[1]] \cap DOMAIN g : y # e[1] /\ e[2] \in g[y]}

apply_transitive_reduction ==
  /\ Pass("reduce", "validate")
  /\ depends_on' = remove_dependencies(depends_on, Redundant(depends_on))
  /\ Analysed

(* No step waits for itself. *)
Circleless(g) == LET up == Upstream(g) IN \A s \in DOMAIN g : s \notin up[s]

(* ExecutionGraph::new. *)
Valid(g) ==
  /\ UNION {g[s] : s \in DOMAIN g} \subseteq DOMAIN g
  /\ Circleless(g)

Validate == /\ Pass("validate", IF Valid(depends_on) THEN "compiled" ELSE "broken")
            /\ UNCHANGED depends_on /\ Analysed

------------------------------------------------------------------------------
(* build_trivial_instance_graph: an instance for every trial, in the end,  *)
(* whatever became of its steps.                                           *)
Scope(e) == IF e \in trial_elements \/ level[e] > 0 THEN "trial" ELSE "study"

Instances == [element : Elements, trial : Trials]

InstanceEdges ==
  UNION {{<<[element |-> x, trial |-> t], [element |-> y, trial |-> t]>> :
            y \in Deps(x, {"Shared", "Linear", "Lifeline"})} : x \in Elements, t \in Trials}

------------------------------------------------------------------------------
Init == /\ plan \in Plans /\ stage = "new"
        /\ level = <<>> /\ trial_elements = {} /\ depends_on = <<>>

Next == \/ Refuse \/ Expand \/ apply_rule2_edges \/ apply_dedicated_materialisation
        \/ apply_exclusive_serialisation \/ apply_lifeline_collapse \/ apply_coalescing
        \/ apply_trial_notifications \/ apply_exclusive_rerouting \/ apply_readiness_gates
        \/ AddSentinels \/ apply_transitive_reduction \/ Validate

Spec == Init /\ [][Next]_vars
==============================================================================
