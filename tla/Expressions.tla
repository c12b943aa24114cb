---------------------------- MODULE Expressions -----------------------------
(***************************************************************************)
(* The expressions of derived parameters: put together node by node, and   *)
(* evaluated against what is bound.  A value is a record of one field,     *)
(* named for its kind, and so is an error.  What a double comes to is left *)
(* out: an answer that depends on it may be any.                           *)
(***************************************************************************)
EXTENDS Domains

CONSTANTS Bindings,    \* names -> values
          Operands,    \* expressions to begin with
          Partners,    \* expressions to put beside one that was put together
          MaxDepth

VARIABLES expression,  \* <<>> before there is one
          height

expression_vars == <<expression, height>>

Literal(v)            == [node |-> "literal", value |-> v]
Reference(name)       == [node |-> "ref", name |-> name]
Binop(op, l, r)       == [node |-> "binop", op |-> op, lhs |-> l, rhs |-> r]
Unop(op, a)           == [node |-> "unop", op |-> op, arg |-> a]
Call(func, as)        == [node |-> "call", func |-> func, args |-> as]
IfThenElse(c, th, el) == [node |-> "if", cond |-> c, then |-> th, else |-> el]

Arithmetic == {"+", "-", "*"}
Ordering   == {"<", "<=", ">", ">="}
Binary     == Arithmetic \cup {"/", "%", "==", "!=", "&&", "||"} \cup Ordering
Rounding   == {"ceil", "floor", "round"}
Extremes   == {"min", "max"}
Builtins   == Rounding \cup Extremes \cup {"abs", "pow", "len"}

InitExpression == expression = <<>> /\ height = 0

Begin == /\ expression = <<>>
         /\ expression' \in Operands
         /\ UNCHANGED height

Put(e) == /\ expression # <<>>
          /\ height < MaxDepth
          /\ height' = height + 1
          /\ expression' = e

PutBeside(p) ==
  \/ \E op \in Binary : \/ Put(Binop(op, expression, p))
                        \/ Put(Binop(op, p, expression))
  \/ \E func \in Builtins \ Rounding : Put(Call(func, <<expression, p>>))
  \/ \E func \in Extremes, q \in Partners : Put(Call(func, <<p, expression, q>>))
  \/ \E q \in Partners : \/ Put(IfThenElse(expression, p, q))
                         \/ Put(IfThenElse(p, expression, q))

PutAround == \/ \E op \in {"neg", "not"} : Put(Unop(op, expression))
             \/ \E func \in Builtins : Put(Call(func, <<expression>>))

NextExpression ==
  \/ Begin
  \/ \E p \in (IF height = 0 THEN Operands ELSE Partners) : PutBeside(p)
  \/ PutAround

-----------------------------------------------------------------------------
(* Evaluation: the outcomes there may be                                   *)

Whole(n)     == [integer |-> n]
Truth(b)     == [boolean |-> b]
SomeDouble   == [double |-> "some"]
Failed(why)  == [error |-> why]
IsValue(o)   == o # Panic /\ "error" \notin DOMAIN o
AllBools     == {Truth(b) : b \in BOOLEAN}
Mismatch     == {Failed("type mismatch")}

Wrap(n) == ((n + 2 ^ (Width - 1)) % 2 ^ Width) - 2 ^ (Width - 1)
Size(n) == IF n < 0 THEN -n ELSE n

\* Towards zero; the remainder has the sign of the dividend.
Quotient(a, b) == (IF (a < 0) = (b < 0) THEN 1 ELSE -1) * (Size(a) \div Size(b))

\* The divisor of the least integer by -1 is not looked for.
Divided(op, a, b) ==
  IF b = 0 THEN {Failed("division by zero")}
  ELSE IF Quotient(a, b) \notin Ints THEN {Panic}
  ELSE {Whole(IF op = "/" THEN Quotient(a, b) ELSE a - b * Quotient(a, b))}

Computed(op, a, b) == CASE op = "+" -> a + b [] op = "-" -> a - b [] op = "*" -> a * b

\* Mutant: sums and products stop at the ends instead of going round.
Arith_saturating(op, a, b) == Min({Max({Computed(op, a, b), Min(Ints)}), Max(Ints)})

Arith(op, a, b) == Wrap(Computed(op, a, b))

Compared(op, a, b) == CASE op = "<" -> a < b [] op = "<=" -> a <= b
                        [] op = ">" -> a > b [] op = ">=" -> a >= b

Both(l, r, kind) == IsKind(l, kind) /\ IsKind(r, kind)

eval_binop(op, l, r) ==
  CASE op \in Arithmetic /\ Both(l, r, "integer") ->
         {Whole(Arith(op, l.integer, r.integer))}
    [] op \in {"/", "%"} /\ Both(l, r, "integer")   -> Divided(op, l.integer, r.integer)
    [] op \in Arithmetic \cup {"/"} /\ Both(l, r, "double") -> {SomeDouble}
    [] op \in {"==", "!=", "<", "<=", ">", ">="} /\ Both(l, r, "double") -> AllBools
    [] op \in {"==", "!="} /\ DOMAIN l = DOMAIN r   -> {Truth((op = "==") = (l = r))}
    [] op \in Ordering /\ Both(l, r, "integer")     -> {Truth(Compared(op, l.integer, r.integer))}
    [] op = "&&" /\ Both(l, r, "boolean")           -> {Truth(l.boolean /\ r.boolean)}
    [] op = "||" /\ Both(l, r, "boolean")           -> {Truth(l.boolean \/ r.boolean)}
    [] OTHER -> Mismatch

eval_unop(op, a) ==
  CASE op = "neg" /\ IsKind(a, "integer") -> {Whole(Wrap(-a.integer))}
    [] op = "neg" /\ IsKind(a, "double")  -> {SomeDouble}
    [] op = "not" /\ IsKind(a, "boolean") -> {Truth(~a.boolean)}
    [] OTHER -> Mismatch

\* Two arguments or more, all of one kind.
AllOf(args, kind) == \A a \in ToSet(args) : IsKind(a, kind)

fold_minmax(func, args) ==
  CASE AllOf(args, "integer") ->
         LET ints == {a.integer : a \in ToSet(args)}
         IN  {Whole(IF func = "min" THEN Min(ints) ELSE Max(ints))}
    [] AllOf(args, "double")  -> {SomeDouble}
    [] OTHER                  -> Mismatch

arity(func) == CASE func \in Extremes -> {n \in Nat : n >= 2}
                 [] func = "pow"       -> {2}
                 [] OTHER              -> {1}

eval_call(func, args) ==
  IF Len(args) \notin arity(func) THEN {Failed("arity")}
  ELSE CASE func \in Extremes -> fold_minmax(func, args)
         [] func \in Rounding /\ IsKind(args[1], "double") -> {Whole(n) : n \in Ints}
         [] func = "abs" /\ IsKind(args[1], "integer") -> {Whole(Wrap(Size(args[1].integer)))}
         [] func = "abs" /\ IsKind(args[1], "double")  -> {SomeDouble}
         [] func = "pow" /\ Both(args[1], args[2], "double") -> {SomeDouble}
         [] func = "len" /\ IsKind(args[1], "string") -> {Whole(Len(args[1].string))}
         [] OTHER -> Mismatch

lookup(name) ==
  IF name \notin DOMAIN Bindings THEN Failed("unknown parameter")
  ELSE IF IsKind(Bindings[name], "selection") THEN Failed("selection")
  ELSE Bindings[name]

\* What comes of F after each outcome; an error is the end.
After(outcomes, F(_)) == UNION {IF IsValue(o) THEN F(o) ELSE {o} : o \in outcomes}

\* Operands and arguments from the left, all of them; of an if the branch taken.
RECURSIVE eval(_), eval_args(_)
eval(e) ==
  CASE e.node = "literal" -> {e.value}
    [] e.node = "ref"     -> {lookup(e.name)}
    [] e.node = "binop"   ->
         After(eval(e.lhs), LAMBDA l : After(eval(e.rhs), LAMBDA r : eval_binop(e.op, l, r)))
    [] e.node = "unop"    -> After(eval(e.arg), LAMBDA a : eval_unop(e.op, a))
    [] e.node = "call"    -> After(eval_args(e.args), LAMBDA o : eval_call(e.func, o.args))
    [] e.node = "if"      ->
         After(eval(e.cond), LAMBDA c : IF ~IsKind(c, "boolean") THEN Mismatch
                                        ELSE IF c.boolean THEN eval(e.then) ELSE eval(e.else))

eval_args(as) ==
  IF as = <<>> THEN {[args |-> <<>>]}
  ELSE After(eval_args(Front(as)),
             LAMBDA o : After(eval(Last(as)), LAMBDA v : {[args |-> Append(o.args, v)]}))

\* Of a derived parameter, which is never declared a selection.
compute(e, kind) == After(eval(e), LAMBDA v : IF IsKind(v, kind) THEN {v} ELSE Mismatch)
=============================================================================
