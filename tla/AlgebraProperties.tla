------------------------- MODULE AlgebraProperties --------------------------
(***************************************************************************)
(* What is claimed of parameters with their domains and constraints, and   *)
(* of derived values.                                                      *)
(***************************************************************************)
EXTENDS WalkProperties, Parameters, Expressions

-----------------------------------------------------------------------------
(* Parameters                                                              *)

RECURSIVE Plain(_)
\* Nothing left to merge, drop or cancel.
Plain(c) ==
  CASE c.op \in {"and", "or"} ->
         /\ Cardinality(c.children) > 1
         /\ \A k \in c.children : k.op \notin {c.op, "always", "never"} /\ Plain(k)
    [] c.op = "not" -> c.child.op \notin {"not", "always", "never", "eq_to"} /\ Plain(c.child)
    [] OTHER -> TRUE

\* A canonical constraint says what the one it came from says, of every value
\* but a NaN, which fails them all; it is its own canonical form, and nothing in
\* it is left to simplify.  (canonicalize of the five constraint kinds: what
\* fingerprints of plans and elements are taken from)
CanonicalSaysTheSame ==
  param # None /\ held # None =>
    LET c == canonicalize(held)
    IN  /\ \A v \in Values(kind) : test(c, v) = test(held, v)
        /\ canonicalize(c) = c
        /\ Plain(c)

Opaque == param.domain.shape \in {"regex", "external"}

\* What a domain lists, samples (a range of doubles only where its width is a
\* double too) and has at its ends it contains; it counts what it contains, unless those are more than the counter holds or selections.
DomainCoheres ==
  LET d == param.domain
      inside == {v \in Values(kind) : contains(d, v)}
  IN  /\ ~Opaque => \A v \in boundary_values(d) : contains(d, v)
      /\ ~Opaque /\ ~TooWide(d) => sample(d) # {} /\ \A v \in sample(d) : contains(d, v)
      /\ enumerate(d) # {} =>
           /\ enumerate(d) \subseteq inside
           /\ kind # "selection" => enumerate(d) = inside
           /\ Cardinality(enumerate(d)) = cardinality(d) \/ cardinality(d) = MaxCount

\* A parameter's domain coheres.  A default was in it and met the constraints
\* of the time it was set, so what generate gives by default is valid as long
\* as no constraint came after; no key is a label and a tag; and a constraint
\* is claimed to be satisfiable only if a value of the domain meets it, unless
\* the domain is a pattern.  (Domain, with_default, validate, generate, satisfies)
ParametersSound ==
  param # None =>
    /\ DomainCoheres
    /\ param.default # None =>
         /\ generate = {param.default}
         /\ Legal(param.default)
         /\ known = param.constraints => validate(param.default)
    /\ param.labels \cap param.tags = {}
    /\ held # None /\ ~Opaque /\ TRUE \in satisfies(held) =>
         \E v \in Values(kind) : contains(param.domain, v) /\ test(held, v)

-----------------------------------------------------------------------------
(* Derived values                                                          *)

Numeric == {"integer", "double"}

RECURSIVE KindsOf(_)
\* The kinds an expression may come to, read off its shape.
KindsOf(e) ==
  CASE e.node = "literal" -> DOMAIN e.value
    [] e.node = "ref" -> IF IsValue(lookup(e.name)) THEN DOMAIN lookup(e.name) ELSE {}
    [] e.node = "binop" /\ e.op \in Arithmetic \cup {"/"} ->
         KindsOf(e.lhs) \cap KindsOf(e.rhs) \cap Numeric
    [] e.node = "binop" /\ e.op = "%" -> KindsOf(e.lhs) \cap KindsOf(e.rhs) \cap {"integer"}
    [] e.node = "binop" -> {"boolean"}
    [] e.node = "unop" -> IF e.op = "not" THEN {"boolean"} ELSE KindsOf(e.arg) \cap Numeric
    [] e.node = "call" /\ e.func \in Rounding \cup {"len"} -> {"integer"}
    [] e.node = "call" /\ e.func = "pow" -> {"double"}
    [] e.node = "call" -> UNION {KindsOf(e.args[i]) : i \in DOMAIN e.args} \cap Numeric
    [] e.node = "if" -> KindsOf(e.then) \cup KindsOf(e.else)

RECURSIVE Exact(_)
\* The whole number an expression of + - * and literals stands for.
IsSum(e) == e.node = "binop" /\ e.op \in Arithmetic
Exact(e) == IF IsSum(e) THEN Computed(e.op, Exact(e.lhs), Exact(e.rhs)) ELSE e.value.integer

RECURSIVE OfWholes(_)
OfWholes(e) == \/ e.node = "literal" /\ IsKind(e.value, "integer")
               \/ IsSum(e) /\ OfWholes(e.lhs) /\ OfWholes(e.rhs)

RECURSIVE Needed(_)
\* The names an evaluation cannot do without: a branch is no such place, the
\* right side of an && or an || is one.
Needed(e) ==
  CASE e.node = "literal" -> {}
    [] e.node = "ref"     -> {e.name}
    [] e.node = "binop"   -> Needed(e.lhs) \cup Needed(e.rhs)
    [] e.node = "unop"    -> Needed(e.arg)
    [] e.node = "call"    -> UNION {Needed(e.args[i]) : i \in DOMAIN e.args}
    [] e.node = "if"      -> Needed(e.cond) \cup (Needed(e.then) \cap Needed(e.else))

\* An expression comes to a value of a kind its shape allows, within the width
\* of integers, to an error, or to the panic of the least integer by -1; sums and
\* products of integers come to the exact number modulo 2^Width however they are
\* nested; no value comes of an unbound name on the way.  A derived parameter has
\* the declared kind or an error.  (Expression::eval, DerivedParameter::compute)
DerivesTyped ==
  expression # <<>> =>
    LET outcomes == eval(expression)
        values   == {o \in outcomes : IsValue(o)}
    IN  /\ outcomes # {}
        /\ \A v \in values : /\ DOMAIN v \subseteq KindsOf(expression)
                             /\ IsKind(v, "integer") => v.integer \in Ints
        /\ OfWholes(expression) => values = {Whole(Wrap(Exact(expression)))}
        /\ values # {} => \A n \in Needed(expression) : IsValue(lookup(n))
        /\ \A k \in {"integer", "double", "boolean", "string"} :
             compute(expression, k) \cap values = {v \in values : IsKind(v, k)}
=============================================================================
