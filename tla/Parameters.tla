---------------------------- MODULE Parameters ------------------------------
(***************************************************************************)
(* A parameter under construction: made over a domain, given constraints,  *)
(* which are built beside it, and defaults, labels and tags, in any order; *)
(* and what it generates, validates and claims to satisfy.                 *)
(***************************************************************************)
EXTENDS Domains

CONSTANTS Shapes,    \* what the constructors are called with
          Leaves,    \* kind -> constraints to begin with
          Others,    \* kind -> constraints to put beside one
          Keys,      \* of labels and tags
          Defaults,  \* kind -> the values with_default is called with
          None, MaxBuilt,
          MaxConstraints   \* a parameter that has these is given no more

VARIABLES param,     \* None before it is made
          held,      \* a constraint in the making
          known,     \* the constraints there were when the default was set
          built      \* bounds the construction of constraints

parameters == <<param, held, known, built>>

InitParameters ==
  /\ param = None /\ held = None
  /\ known = {} /\ built = 0

Make(d) ==
  /\ param = None
  /\ ~Rejected(d)
  /\ param' = [domain |-> d, constraints |-> {}, default |-> None,
               labels |-> {}, tags |-> {}]
  /\ UNCHANGED <<held, known, built>>

kind == KindOf(param.domain)

-----------------------------------------------------------------------------
(* Constraints in the making                                               *)

More == Cardinality(param.constraints) < MaxConstraints

Take(leaf) ==
  /\ held = None /\ More
  /\ held' = leaf
  /\ UNCHANGED <<param, known, built>>

Build(c) == /\ built < MaxBuilt
            /\ built' = built + 1
            /\ held' = c
            /\ UNCHANGED <<param, known>>

\* What is read from a file may be nested as it likes.  There are no
\* combinations of booleans.
Grow(leaf) == \/ Build(and(held, leaf))
              \/ Build(or(held, leaf))
              \/ Build(Joined("and", {held, leaf}))
              \/ Build(Joined("or", {held, leaf}))

Negate == Build(Negation(held))
Empty  == built = 0 /\ More /\ \E op \in {"and", "or"} : Build(Joined(op, {}))

-----------------------------------------------------------------------------
(* Setters                                                                 *)

with_constraint ==
  /\ More
  /\ param' = [param EXCEPT !.constraints = @ \cup {held}]
  /\ held' = None
  /\ UNCHANGED <<known, built>>

\* The members of an external selection are not known.
Legal(v) == param.domain.shape = "external" \/ contains(param.domain, v)

\* Mutant: constraints are not looked at.
Accepts_domain(v) == Legal(v)

Accepts(v) == /\ Legal(v)
              /\ \A c \in param.constraints : test(c, v)

with_default(v) ==
  /\ Accepts(v)
  /\ param' = [param EXCEPT !.default = v]
  /\ known' = param.constraints
  /\ UNCHANGED <<held, built>>

with_label(k) ==
  /\ k \notin param.tags
  /\ param' = [param EXCEPT !.labels = @ \cup {k}]
  /\ UNCHANGED <<held, known, built>>

with_tag(k) ==
  /\ k \notin param.labels
  /\ param' = [param EXCEPT !.tags = @ \cup {k}]
  /\ UNCHANGED <<held, known, built>>

NextParameters ==
  \/ \E d \in Shapes : Make(d)
  \/ /\ param # None
     /\ \/ \E leaf \in Leaves[kind] : Take(leaf)
        \/ held # None /\ kind # "boolean" /\ \E leaf \in Others[kind] : Grow(leaf)
        \/ held # None /\ kind # "boolean" /\ Empty
        \/ held # None /\ Negate
        \/ held # None /\ with_constraint
        \/ \E v \in Defaults[kind] : with_default(v)
        \/ \E k \in Keys : with_label(k) \/ with_tag(k)

-----------------------------------------------------------------------------
(* Answers                                                                 *)

generate_random == sample(param.domain)
generate == IF param.default # None THEN {param.default} ELSE generate_random
generate_boundary == IF boundary_values(param.domain) = {} THEN sample(param.domain)
                     ELSE boundary_values(param.domain)

validate(v) == /\ IsKind(v, kind)
               /\ Legal(v)
               /\ \A c \in param.constraints : test(c, v)

\* Boundary values, then, of numbers, eight samples: what they are is open.
satisfies(c) ==
  LET Hit(values) == \E v \in values : test(c, v)
      samples == IF kind \in {"integer", "double"} THEN sample(param.domain) ELSE {}
  IN  CASE Hit(boundary_values(param.domain)) -> {TRUE}
        [] samples = {Panic} -> {Panic}
        [] OTHER -> IF Hit(samples) THEN BOOLEAN ELSE {FALSE}
=============================================================================
