--------------------------- MODULE StoreProperties ---------------------------
(***************************************************************************)
(* What the store of results promises: a query that is followed shows      *)
(* everything, and the sqlite and the in-memory store find the same        *)
(* results.                                                                *)
(***************************************************************************)
EXTENDS ArchiveProperties, ResultStore

CONSTANT Aggregations
-----------------------------------------------------------------------------
(* Results                                                                 *)

RECURSIVE Leaves(_), Plain(_)

Leaves(f) == IF f.op \in {"and", "or", "not"} THEN UNION {Leaves(c) : c \in f.of}
             ELSE {f}
Plain(f) == f.op \notin {"or", "not"} /\ (f.op = "and" => \A c \in f.of : Plain(c))

\* A number compared for equality with one that is stored within the epsilon of
\* it and is not the same: the clause and the evaluators differ.
AlmostStored(l) ==
  /\ l.cmp \in {"Eq", "Ne"} /\ Numeric(l.value)
  /\ \E p \in Numbers(records, l.coord) : p[2] # l.value.v /\ Close(p[2], l.value.v)

\* Leaves both stores evaluate: no column that nothing fills, no assignment,
\* no text or boolean compared in any other way than for equality, no number
\* almost equal to one that is stored, no bound whose text lies between those of
\* the rows in another order.
Supported(f) ==
  \A l \in Leaves(f) :
    /\ l.op \notin {"unfilled", "assignment"}
    /\ l.op = "metric" => /\ Numeric(l.value) \/ l.cmp = "Eq"
                          /\ ~AlmostStored(l)
    /\ l.op \in {"after", "before"} => ClearOf(l.value, results)

Matching(f) == {r \in records : mock_matches(f, r)}

\* The stores agree on what an aggregation says of numbers that are there, at
\* the ends of a percentile.
RECURSIVE Agreed(_, _)
Agreed(agg, rows) ==
  CASE agg.op = "count" -> TRUE
    [] agg.op = "group" -> /\ agg.by # "assignment"
                           /\ \A k \in {r.status : r \in rows} :
                                Agreed(agg.then, {r \in rows : r.status = k})
    [] agg.op = "percentile" -> Numbers(rows, agg.coord) # {} /\ agg.q \notin 1..3
    [] OTHER -> Numbers(rows, agg.coord) # {}

\* The WHERE clause that a filter becomes never drops a row that matches it,
\* and the sqlite store gives the rows, the counts and the aggregates of the
\* in-memory store; a count only where no Or and no Not is left out of the
\* clause.  The rows of metrics are those of the results, also of one saved
\* again.  All of it in the states where no query is being followed: what is
\* stored is the same in the others.  And a query that is followed to its end
\* while others save and delete shows every row that matched all the time.
ResultsAgree ==
  /\ results = records
  /\ index = UNION {MetricRows(r) : r \in results}
  /\ query # None /\ query.done => Once(query.due, query.got)
  /\ results # {} /\ query = None => \A f \in Filters : Supported(f) /\ Cardinality(records) <= MaxPageSize =>
       /\ FirstPage(f) = Matching(f)
       /\ FirstPage(f) = ToSet(mock_query_page(f, MaxPageSize).items)
       /\ ~fully_sql_filter(f) \/ Plain(f) => count(f) = mock_count(f)
       /\ \A agg \in Aggregations :
            Agreed(agg, Matching(f)) => aggregate(f, agg) = mock_aggregate(f, agg)

=============================================================================
