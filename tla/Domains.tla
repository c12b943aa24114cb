------------------------------ MODULE Domains -------------------------------
(***************************************************************************)
(* The domains of parameters: what they contain, how many values they      *)
(* count, their boundary values, what a sample may be, what they list.     *)
(***************************************************************************)
EXTENDS Constraints, FiniteSetsExt, SequencesExt

CONSTANTS Width,     \* of an integer in bits: 64
          Strings, Items,
          MaxDouble, \* the greatest finite double
          Panic      \* the program ends

Ints == -(2 ^ (Width - 1)) .. 2 ^ (Width - 1) - 1
MaxCount == 2 ^ Width - 1

Unbounded     == "unbounded"

\* The constructors: range, discrete, DoubleDomain::range, fixed, external.
Rejected(d) ==
  CASE d.shape = "range"        -> d.min > d.max
    [] d.shape = "discrete"     -> d.values = {}
    [] d.shape = "double_range" -> \/ {d.low, d.high} \cap {NaN, Infinite} # {}
                                   \/ d.low > d.high
    [] d.shape = "fixed"        -> d.values = <<>> \/ d.max_selections = 0
    [] d.shape = "external"     -> d.max_selections = 0
    [] OTHER                    -> FALSE               \* boolean, any, regex

KindOf(d) == CASE d.shape \in {"range", "discrete"} -> "integer"
               [] d.shape = "double_range"          -> "double"
               [] d.shape = "boolean"               -> "boolean"
               [] d.shape \in {"any", "regex"}      -> "string"
               [] OTHER                             -> "selection"

IsKind(v, kind) == kind \in DOMAIN v

contains(d, v) ==
  /\ IsKind(v, KindOf(d))
  /\ CASE d.shape = "range"        -> d.min <= v.integer /\ v.integer <= d.max
       [] d.shape = "discrete"     -> v.integer \in d.values
       [] d.shape = "double_range" -> /\ v.double \notin {NaN, Infinite}
                                      /\ d.low <= v.double /\ v.double <= d.high
       [] d.shape \in {"boolean", "any"} -> TRUE
       [] d.shape = "regex"        -> v.string \in d.matches
       [] d.shape = "fixed"        -> /\ Cardinality(v.selection) <= d.max_selections
                                      /\ v.selection \subseteq ToSet(d.values)
       [] d.shape = "external"     -> Cardinality(v.selection) <= d.max_selections

\* Saturates; of a selection it counts the items.
cardinality(d) ==
  CASE d.shape = "range"    -> Min({d.max - d.min + 1, MaxCount})
    [] d.shape = "discrete" -> Cardinality(d.values)
    [] d.shape = "boolean"  -> 2
    [] d.shape = "fixed"    -> Len(d.values)
    [] OTHER                -> Unbounded

Integers(S) == {[integer |-> n] : n \in S}
OneOf(S)    == {[selection |-> {i}] : i \in S}

boundary_values(d) ==
  CASE d.shape = "range"        -> Integers({d.min, d.max})
    [] d.shape = "discrete"     -> Integers({Min(d.values), Max(d.values)})
    [] d.shape = "double_range" -> {[double |-> d.low], [double |-> d.high]}
    [] d.shape = "boolean"      -> {[boolean |-> b] : b \in BOOLEAN}
    [] d.shape \in {"any", "regex"} -> {[string |-> ""]}
    [] d.shape = "fixed"        -> OneOf({Head(d.values), Last(d.values)})
    [] d.shape = "external"     -> {}

\* gen_range takes no range whose width is not a finite double.
TooWide(d) == d.shape = "double_range" /\ d.high - d.low > MaxDouble

\* What a sample may be.
sample(d) ==
  CASE d.shape = "range"        -> Integers(d.min .. d.max)
    [] d.shape = "discrete"     -> Integers(d.values)
    [] d.shape = "double_range" -> IF TooWide(d) THEN {Panic}
                                   ELSE {[double |-> x] : x \in d.low .. d.high}
    [] d.shape = "boolean"      -> {[boolean |-> b] : b \in BOOLEAN}
    [] d.shape = "any"          -> {[string |-> ""]}
    [] d.shape = "fixed"        ->
         {[selection |-> S] : S \in {X \in SUBSET ToSet(d.values) :
                                       Cardinality(X) \in 1 .. d.max_selections}}
    [] OTHER                    -> {Panic}

\* Of a selection, the single items; nothing where it has no answer.
enumerate(d) ==
  CASE d.shape = "range"    -> Integers(d.min .. d.max)
    [] d.shape = "discrete" -> Integers(d.values)
    [] d.shape = "boolean"  -> {[boolean |-> b] : b \in BOOLEAN}
    [] d.shape = "fixed"    -> OneOf(ToSet(d.values))
    [] OTHER                -> {}

\* Every value of a kind, to look at.
Values(kind) ==
  CASE kind = "integer"   -> Integers(Ints)
    [] kind = "double"    -> {[double |-> x] : x \in {-1, 0, 1, 2, NaN}}
    [] kind = "boolean"   -> {[boolean |-> b] : b \in BOOLEAN}
    [] kind = "string"    -> {[string |-> s] : s \in Strings}
    [] kind = "selection" -> {[selection |-> S] : S \in SUBSET Items}
=============================================================================
