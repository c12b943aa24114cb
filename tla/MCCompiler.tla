----------------------------- MODULE MCCompiler ------------------------------
(* Small plans for the compiler: three elements, up to four trials (six in *)
(* one plan), every choice of relationships along fixed directions.        *)
EXTENDS CompilerProperties

Axis(e, n) == [element |-> e, size |-> n]

Auto == [e \in 1..3 |-> "auto"]

Plan(axes, deps) ==
  [axes |-> axes, dependencies |-> deps, trial_element |-> Auto, health_check |-> {},
   commands |-> {}, unbound |-> {}]

On(y, r) == IF r = "none" THEN <<>> ELSE <<[target |-> y, relationship |-> r]>>

RelationshipOrNone == Relationships \cup {"none"}

(* 2 and 3 depend on elements declared before them.                        *)
Forward == {<< <<>>, On(1, a), On(1, b) \o On(2, c) >> : a, b, c \in RelationshipOrNone}

(* 1 depends on 2, which is declared after it, and 3 on both.              *)
Across == {<< On(2, a), <<>>, On(1, b) \o On(2, c) >> : a, b, c \in RelationshipOrNone}

Chain == << <<>>, On(1, "Shared"), On(2, "Shared") >>

(* Plans that are turned down, circles, and one with axes of two sizes.     *)
OddPlans ==
  LET some == Plan(<<Axis(3, 2)>>, Chain)
  IN {[some EXCEPT !.commands = {2}], [some EXCEPT !.unbound = {3}],
      [some EXCEPT !.dependencies[3] = On(4, "Shared")],
      [some EXCEPT !.dependencies[1] = On(3, "Shared")],
      [some EXCEPT !.dependencies = << <<>>, On(3, "Lifeline"), On(3, "Lifeline")>>],
      Plan(<<Axis(2, 2), Axis(2, 3)>>, Chain)}

MCPlans ==
  {Plan(axes, d) : axes \in {<<>>, <<Axis(3, 2)>>, <<Axis(1, 2), Axis(3, 2)>>}, d \in Forward}
  \cup {[Plan(<<Axis(2, 2)>>, d) EXCEPT !.trial_element[2] = "on", !.health_check = {1}] :
          d \in Forward}
  \cup {[Plan(<<Axis(3, 2)>>, d) EXCEPT !.trial_element = <<"on", "auto", "off">>,
                                        !.health_check = {2}] : d \in Forward}
  \cup {[Plan(<<Axis(2, 2), Axis(3, 2)>>, d) EXCEPT !.health_check = {1}] : d \in Across}
  \cup {[Plan(<<Axis(3, 2)>>, d) EXCEPT !.trial_element = <<"on", "on", "auto">>] : d \in Forward}
  \cup {[Plan(<<Axis(2, 2)>>, d) EXCEPT !.trial_element = [e \in 1..3 |-> "off"]] : d \in Forward}
  \cup OddPlans
==============================================================================
