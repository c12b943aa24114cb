---------------------------- MODULE Constraints -----------------------------
(***************************************************************************)
(* The constraint algebra: leaves over one kind of value each, and And, Or *)
(* and Not over them.  The order and the repetitions of children, which    *)
(* neither test nor canonicalize keeps, are left out: children are a set.  *)
(* A value is a record of one field, named for its kind.                   *)
(***************************************************************************)
EXTENDS Integers, FiniteSets, Sequences

CONSTANTS NaN, Infinite   \* the doubles that are no bounds

Always == [op |-> "always"]
Never  == [op |-> "never"]
Negation(c) == [op |-> "not", child |-> c]
Joined(op, C) == [op |-> op, children |-> C]

\* Tests on the native value of each kind.  The divisor of a multiple is not -1
\* here: the least integer modulo -1 ends the program.
IntHolds(c, x) ==
  CASE c.op = "min"        -> x >= c.n
    [] c.op = "max"        -> x <= c.n
    [] c.op = "range"      -> c.min <= x /\ x <= c.max
    [] c.op = "in_set"     -> x \in c.values
    [] c.op = "not_in_set" -> x \notin c.values
    [] c.op = "multiple"   -> c.n # 0 /\ x % c.n = 0

DoubleHolds(c, x) ==
  CASE c.op = "min"   -> x >= c.n
    [] c.op = "max"   -> x <= c.n
    [] c.op = "range" -> c.min <= x /\ x <= c.max

BoolHolds(c, x) == x = c.b

StringHolds(c, x) ==
  CASE c.op = "regex"        -> x \in c.matches       \* what the pattern matches
    [] c.op = "length_range" -> c.min <= Len(x) /\ Len(x) <= c.max
    [] c.op = "non_empty"    -> x # ""
    [] c.op = "in_set"       -> x \in c.values
    [] c.op = "not_in_set"   -> x \notin c.values

SelectionHolds(c, x) ==
  CASE c.op = "require_all" -> c.items \subseteq x
    [] c.op = "require_any" -> c.items \cap x # {}
    [] c.op = "forbid_all"  -> c.items \cap x = {}
    [] c.op = "min_size"    -> Cardinality(x) >= c.n
    [] c.op = "max_size"    -> Cardinality(x) <= c.n

LeafHolds(c, v) ==
  CASE "integer" \in DOMAIN v   -> IntHolds(c, v.integer)
    [] "double" \in DOMAIN v    -> DoubleHolds(c, v.double)
    [] "boolean" \in DOMAIN v   -> BoolHolds(c, v.boolean)
    [] "string" \in DOMAIN v    -> StringHolds(c, v.string)
    [] "selection" \in DOMAIN v -> SelectionHolds(c, v.selection)

\* A NaN fails whatever is asked of it.
IsNaN(v) == "double" \in DOMAIN v /\ v.double = NaN

RECURSIVE test(_, _)
test(c, v) ==
  /\ ~IsNaN(v)
  /\ CASE c.op = "always" -> TRUE
       [] c.op = "never"  -> FALSE
       [] c.op = "and"    -> \A k \in c.children : test(k, v)
       [] c.op = "or"     -> \E k \in c.children : test(k, v)
       [] c.op = "not"    -> ~test(c.child, v)
       [] OTHER           -> LeafHolds(c, v)

-----------------------------------------------------------------------------

\* and, or: what is such a combination already brings its children.
Absorbed(op, c) == IF c.op = op THEN c.children ELSE {c}
and(a, b) == Joined("and", Absorbed("and", a) \cup Absorbed("and", b))
or(a, b)  == Joined("or", Absorbed("or", a) \cup Absorbed("or", b))

\* The child of a negation is canonical.
Negated(c) == CASE c.op = "not"    -> c.child
                [] c.op = "always" -> Never
                [] c.op = "never"  -> Always
                [] c.op = "eq_to"  -> [c EXCEPT !.b = ~@]
                [] OTHER           -> Negation(c)

Identity(op)  == IF op = "and" THEN Always ELSE Never
Absorbing(op) == IF op = "and" THEN Never ELSE Always

\* What is left of the children, without the identity and the repetitions.
Collapsed(op, flat) ==
  IF flat = {} THEN Identity(op)
  ELSE IF Cardinality(flat) = 1 THEN CHOOSE k \in flat : TRUE
  ELSE Joined(op, flat)

\* Mutant: an Or drops what is always satisfied, as an And does.
Combined_dropped(op, C) ==
  IF op = "and" /\ Never \in C THEN Never
  ELSE Collapsed(op, UNION {Absorbed(op, k) : k \in C \ {Always}})

\* Canonical children: the absorbing one stays alone.
Combined(op, C) ==
  IF Absorbing(op) \in C THEN Absorbing(op)
  ELSE Collapsed(op, UNION {Absorbed(op, k) : k \in C \ {Identity(op)}})

RECURSIVE canonicalize(_)
canonicalize(c) ==
  CASE c.op \in {"and", "or"} -> Combined(c.op, {canonicalize(k) : k \in c.children})
    [] c.op = "not"           -> Negated(canonicalize(c.child))
    [] OTHER                  -> c
=============================================================================
