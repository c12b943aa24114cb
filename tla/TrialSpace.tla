----------------------------- MODULE TrialSpace ------------------------------
(***************************************************************************)
(* Stage one of the compiler (crates/paramodel-compiler/src): trials as    *)
(* mixed radix numbers (enumerator.rs), binding levels (binding.rs) and    *)
(* the elements that are brought up for each trial (trial_element.rs).     *)
(*                                                                         *)
(* Elements are numbered in the order in which the plan declares them.     *)
(* Abstracted: an axis is the element it varies and the number of its      *)
(* values, each axis of an element varies a parameter of its own; trial    *)
(* codes; products that overflow.                                          *)
(***************************************************************************)
EXTENDS Integers, FiniteSetsExt, SequencesExt

CONSTANT Elements

ASSUME ElementsAssumption == IsFiniteSet(Elements) /\ Elements = 1..Cardinality(Elements)

Relationships == {"Shared", "Exclusive", "Dedicated", "Linear", "Lifeline"}

(* A target outside Elements is one the plan does not declare.  commands:  *)
(* elements that shut down by command.  unbound: those with a parameter    *)
(* that no axis, binding, configuration or default gives a value.          *)
TestPlanOf ==
  [axes : Seq([element : Elements, size : Nat \ {0}]),
   dependencies : [Elements -> Seq([target : Nat, relationship : Relationships])],
   trial_element : [Elements -> {"auto", "on", "off"}],
   health_check : SUBSET Elements, commands : SUBSET Elements, unbound : SUBSET Elements]

------------------------------------------------------------------------------
trial_count(axes) == FoldLeft(LAMBDA n, axis : n * axis.size, 1, axes)

(* Mutant: the digit's own size is counted in. *)
strides_inclusive(axes) ==
  [i \in DOMAIN axes |-> trial_count(SubSeq(axes, i, Len(axes)))]

strides(axes) == [i \in DOMAIN axes |-> trial_count(SubSeq(axes, i + 1, Len(axes)))]

offsets(axes, t) == [i \in DOMAIN axes |-> (t \div strides(axes)[i]) % axes[i].size]

------------------------------------------------------------------------------
Targets(p, e, kinds) ==
  {d.target : d \in {d \in ToSet(p.dependencies[e]) : d.relationship \in kinds}}

own_level(p, e) == Cardinality({i \in DOMAIN p.axes : p.axes[i].element <= e})

(* Mutant: levels are not taken over from dependencies. *)
effective_levels_own(p) == [e \in Elements |-> own_level(p, e)]

(* As many passes as it takes at most for levels to spread. *)
effective_levels(p) ==
  LET pass[n \in Nat] ==
        IF n = 0 THEN [e \in Elements |-> own_level(p, e)]
        ELSE LET before == pass[n - 1] IN
               [e \in Elements |->
                  Max({before[e]} \cup
                      {before[d] : d \in Targets(p, e, {"Shared", "Exclusive", "Linear"})})]
  IN pass[Cardinality(Elements) + 1]

(* Mutant: ranks are counted from one. *)
group_size_at_wide(axes, level) ==
  IF level <= 1 THEN trial_count(axes) ELSE strides(axes)[level - 1]

(* How many consecutive trials agree on the first axes, level of them. *)
group_size_at(axes, level) ==
  IF level = 0 THEN trial_count(axes)
  ELSE IF level >= Len(axes) THEN 1 ELSE strides(axes)[level]

------------------------------------------------------------------------------
(* With axes the candidates are what some axis binds; without, what has to *)
(* do with another element.  Those no other candidate depends on are taken.*)
identify_trial_elements(p, level) ==
  LET pool == IF p.axes # <<>> THEN {e \in Elements : level[e] > 0}
              ELSE {e \in Elements : \/ p.dependencies[e] # <<>>
                                     \/ \E x \in Elements : e \in Targets(p, x, Relationships)}
      leaves == pool \ UNION {Targets(p, x, Relationships) : x \in pool}
      forced(how) == {e \in Elements : p.trial_element[e] = how}
  IN (leaves \cup forced("on")) \ forced("off")
==============================================================================
