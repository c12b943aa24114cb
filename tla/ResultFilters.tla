---------------------------- MODULE ResultFilters ----------------------------
(***************************************************************************)
(* Filters over the results of trials: what the sqlite store turns into a  *)
(* WHERE clause, what it evaluates on the rows it has read, what the       *)
(* in-memory store evaluates; aggregations.                                *)
(*                                                                         *)
(* A result is [id, status, attempt, at, label, metrics], metrics a set of *)
(* [coord, value] with one value per coordinate; a value is [kind, v, made]*)
(* where made stands for its provenance.  A filter is a record with a tag  *)
(* op; the leaves on columns that no result fills are "unfilled", those on *)
(* assignments "assignment".                                               *)
(***************************************************************************)
EXTENDS Instants, FiniteSetsExt

CONSTANT Epsilon       \* f64::EPSILON, in the unit that numbers are counted in

ASSUME EpsilonAssumption == Epsilon \in Nat \ {0}

Leaf(op, v)            == [op |-> op, value |-> v]
StatusIn(among)        == [op |-> "status", among |-> among]
Attempt(cmp, n)        == [op |-> "attempt", cmp |-> cmp, value |-> n]
Metric(coord, cmp, v)  == [op |-> "metric", coord |-> coord, cmp |-> cmp, value |-> v]
Label(text)            == [op |-> "label", text |-> text]
Combination(op, of)    == [op |-> op, of |-> of]

Cmp(cmp, a, b) == CASE cmp = "Eq" -> a = b
                    [] cmp = "Ne" -> a # b
                    [] cmp = "Lt" -> a < b
                    [] cmp = "Le" -> a <= b
                    [] cmp = "Gt" -> a > b
                    [] cmp = "Ge" -> a >= b

Numeric(v) == v.kind \in {"integer", "double"}

\* Where rows are compared one by one, numbers are equal up to the epsilon;
\* the SQL compares them as they are.
Close(a, b) == a - b < Epsilon /\ b - a < Epsilon

Tolerant(cmp, a, b) == CASE cmp = "Eq" -> Close(a, b)
                         [] cmp = "Ne" -> ~Close(a, b)
                         [] OTHER      -> Cmp(cmp, a, b)

\* One comparison of numbers for both; of other values the mock knows Eq only.
compare_values(cmp, l, r) ==
  IF Numeric(l) /\ Numeric(r) THEN Tolerant(cmp, l.v, r.v)
  ELSE (cmp = "Eq" /\ l = r) \/ (cmp = "Ne" /\ l # r)
mock_compare_values(cmp, l, r) ==
  IF Numeric(l) /\ Numeric(r) THEN Tolerant(cmp, l.v, r.v) ELSE cmp = "Eq" /\ l = r

MetricAt(r, coord) == {m.value : m \in {x \in r.metrics : x.coord = coord}}

-----------------------------------------------------------------------------
(* trial_metrics: a value in the column of its kind, the others NULL.      *)

ColumnOf(kind) == CASE kind \in {"integer", "double"} -> "value_num"
                    [] kind = "string"  -> "value_text"
                    [] kind = "boolean" -> "value_bool"
                    [] OTHER            -> "none"

MetricRows(r) == {[id |-> r.id, coord |-> m.coord, column |-> ColumnOf(m.value.kind),
                   v |-> m.value.v] : m \in r.metrics}

metric_filter_sql_compatible(value, cmp) ==
  \/ Numeric(value)
  \/ value.kind \in {"string", "boolean"} /\ cmp \in {"Eq", "Ne"}

\* Mutant: the metric of any coordinate.
push_metric_leaf_any(f, r, index) ==
  \E m \in index : /\ m.id = r.id
                   /\ m.column = ColumnOf(f.value.kind)
                   /\ Cmp(f.cmp, m.v, f.value.v)

\* Comparing with NULL selects nothing.
push_metric_leaf(f, r, index) ==
  \E m \in index : /\ m.id = r.id
                   /\ m.coord = f.coord
                   /\ m.column = ColumnOf(f.value.kind)
                   /\ Cmp(f.cmp, m.v, f.value.v)

-----------------------------------------------------------------------------

RECURSIVE Pushed(_, _, _), fully_sql_filter(_), filter_matches(_, _), mock_matches(_, _)

\* push_sql_leaves: the leaves below top-level Ands.  execution_id,
\* plan_fingerprint and trial_code are NULL in every row.
Pushed(f, r, index) ==
  CASE f.op = "and"      -> \A c \in f.of : Pushed(c, r, index)
    [] f.op = "id"       -> r.id = f.value
    [] f.op = "unfilled" -> FALSE
    [] f.op = "status"   -> r.status \in f.among
    [] f.op = "after"    -> Rank(r.at) > Rank(f.value)
    [] f.op = "before"   -> Rank(r.at) < Rank(f.value)
    [] f.op = "attempt"  -> Cmp(f.cmp, r.attempt, f.value)
    [] f.op = "metric"   -> metric_filter_sql_compatible(f.value, f.cmp)
                              => push_metric_leaf(f, r, index)
    [] OTHER             -> TRUE

fully_sql_filter(f) ==
  CASE f.op = "metric" -> metric_filter_sql_compatible(f.value, f.cmp)
    [] f.op \in {"assignment", "label"} -> FALSE
    [] f.op \in {"and", "or"} -> \A c \in f.of : fully_sql_filter(c)
    [] f.op = "not" -> \A c \in f.of : fully_sql_filter(c)
    [] OTHER -> TRUE

filter_matches(f, r) ==
  CASE f.op = "and" -> \A c \in f.of : filter_matches(c, r)
    [] f.op = "or"  -> \E c \in f.of : filter_matches(c, r)
    [] f.op = "not" -> \A c \in f.of : ~filter_matches(c, r)
    [] f.op = "id"      -> r.id = f.value
    [] f.op = "status"  -> r.status \in f.among
    [] f.op = "after"   -> r.at > f.value
    [] f.op = "before"  -> r.at < f.value
    [] f.op = "attempt" -> Cmp(f.cmp, r.attempt, f.value)
    [] f.op = "metric"  -> \E v \in MetricAt(r, f.coord) : compare_values(f.cmp, v, f.value)
    [] f.op = "label"   -> r.label = f.text
    [] OTHER            -> TRUE             \* any, unfilled, assignment

mock_matches(f, r) ==
  CASE f.op = "any" -> TRUE
    [] f.op = "and" -> \A c \in f.of : mock_matches(c, r)
    [] f.op = "or"  -> \E c \in f.of : mock_matches(c, r)
    [] f.op = "not" -> \A c \in f.of : ~mock_matches(c, r)
    [] f.op = "id"      -> r.id = f.value
    [] f.op = "status"  -> r.status \in f.among
    [] f.op = "after"   -> r.at > f.value
    [] f.op = "before"  -> r.at < f.value
    [] f.op = "attempt" -> Cmp(f.cmp, r.attempt, f.value)
    [] f.op = "metric"  -> \E v \in MetricAt(r, f.coord) :
                             mock_compare_values(f.cmp, v, f.value)
    [] f.op = "label"   -> r.label = f.text
    [] OTHER            -> FALSE            \* unfilled, assignment

-----------------------------------------------------------------------------
(* Aggregation: of numbers at a coordinate; an average is <<sum, count>>, a *)
(* percentile is given in quarters.                                        *)

Numbers(rows, coord) ==
  UNION {{<<r.id, v.v>> : v \in {x \in MetricAt(r, coord) : Numeric(x)}} : r \in rows}

Sum(pairs) == MapThenSumSet(LAMBDA p : p[2], pairs)
Least(pairs) == CHOOSE n \in {p[2] : p \in pairs} : \A p \in pairs : n <= p[2]
Greatest(pairs) == CHOOSE n \in {p[2] : p \in pairs} : \A p \in pairs : n >= p[2]

\* The n-th of the numbers in ascending order, from 0.
Nth(pairs, n) ==
  CHOOSE v \in {p[2] : p \in pairs} :
    /\ Cardinality({p \in pairs : p[2] < v}) <= n
    /\ Cardinality({p \in pairs : p[2] <= v}) > n

Quarters(q) == IF q < 0 THEN 0 ELSE IF q > 4 THEN 4 ELSE q

\* The store rounds the place of a percentile, the mock cuts it.
Place(q, n)     == (2 * Quarters(q) * (n - 1) + 4) \div 8
MockPlace(q, n) == (Quarters(q) * (n - 1)) \div 4

Scalar(agg, pairs, place) ==
  CASE agg.op = "min" -> Least(pairs)
    [] agg.op = "max" -> Greatest(pairs)
    [] agg.op = "sum" -> Sum(pairs)
    [] agg.op = "avg" -> <<Sum(pairs), Cardinality(pairs)>>
    [] agg.op = "percentile" -> Nth(pairs, place)

Value(v) == [value |-> v]
Invalid  == [error |-> "InvalidQuery"]

Empty(op) == CASE op = "min" -> [bound |-> "inf"] [] op = "max" -> [bound |-> "-inf"]
               [] op = "sum" -> Value(0)          [] OTHER -> [bound |-> "NaN"]

\* Assignments are not in a result: the store takes each trial for a group of
\* its own, the mock all of them for one.
GroupOf(dimension, r) == CASE dimension = "status" -> r.status
                           [] dimension = "assignment" -> r.id
                           [] OTHER -> "all"
MockGroupOf(dimension, r) == IF dimension = "status" THEN r.status ELSE dimension

RECURSIVE run_aggregation(_, _), compute_aggregation(_, _)

run_aggregation(agg, rows) ==
  CASE agg.op = "count" -> Value(Cardinality(rows))
    [] agg.op = "group" ->
         [groups |->
           {<<k, run_aggregation(agg.then, {r \in rows : GroupOf(agg.by, r) = k})>> :
              k \in {GroupOf(agg.by, r) : r \in rows}}]
    [] OTHER -> LET pairs == Numbers(rows, agg.coord)
                IN  IF pairs = {} THEN Empty(agg.op)
                    ELSE Value(Scalar(agg, pairs, Place(agg.q, Cardinality(pairs))))

\* A group without numbers makes the whole an error.
compute_aggregation(agg, rows) ==
  CASE agg.op = "count" -> Value(Cardinality(rows))
    [] agg.op = "group" ->
         LET parts == {<<k, compute_aggregation(agg.then, {r \in rows :
                              MockGroupOf(agg.by, r) = k})>> :
                         k \in {MockGroupOf(agg.by, r) : r \in rows}}
         IN  IF \E p \in parts : p[2] = Invalid THEN Invalid
             ELSE [groups |-> parts]
    [] OTHER -> LET pairs == Numbers(rows, agg.coord)
                IN  IF pairs = {} THEN Invalid
                    ELSE Value(Scalar(agg, pairs, MockPlace(agg.q, Cardinality(pairs))))

=============================================================================
