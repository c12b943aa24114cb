----------------------------- MODULE ResultStore -----------------------------
(***************************************************************************)
(* The results of trials in sqlite, trial_results with trial_metrics as an *)
(* index over the metrics, and in memory; saves, deletes, and somebody who *)
(* queries page by page while they go on.                                  *)
(***************************************************************************)
EXTENDS ResultFilters, Pages

CONSTANTS Results, Filters, Followed, QuerySizes, MaxResultSaves

VARIABLES results,   \* trial_results
          index,     \* trial_metrics
          records,   \* the map in memory
          query,     \* a query that is being followed
          written    \* bounds the runs

result_store == <<results, index, records, query, written>>

InitResults ==
  /\ results = {} /\ index = {} /\ records = {}
  /\ query = None
  /\ written = 0

Without(rows, i) == {r \in rows : r.id # i}

\* What a query that is being followed still has to show.
Kept == query' = IF query = None THEN None
                 ELSE [query EXCEPT !.due = @ \cap results']

\* Mutant: the metrics of an earlier save of the result stay in the index.
save_result_kept(r) ==
  /\ written < MaxResultSaves
  /\ written' = written + 1
  /\ results' = Without(results, r.id) \cup {r}
  /\ index' = index \cup MetricRows(r)
  /\ records' = Without(records, r.id) \cup {r}
  /\ Kept

\* One transaction.
save_result(r) ==
  /\ written < MaxResultSaves
  /\ written' = written + 1
  /\ results' = Without(results, r.id) \cup {r}
  /\ index' = Without(index, r.id) \cup MetricRows(r)
  /\ records' = Without(records, r.id) \cup {r}
  /\ Kept

delete_result(i) ==
  /\ \E r \in results : r.id = i
  /\ results' = Without(results, i)
  /\ index' = Without(index, i)
  /\ records' = Without(records, i)
  /\ Kept
  /\ UNCHANGED written

-----------------------------------------------------------------------------

\* Every row after the cursor that the WHERE clause selects is read, and the
\* page filled with those that match; a full page has a token.
query_page(f, size, cursor) ==
  LET n       == clamped(size)
      read    == SetToSortSeq({r \in results : /\ Pushed(f, r, index)
                                               /\ cursor = None \/ ById(cursor, r)},
                              ById)
      items   == First(SelectSeq(read, LAMBDA r : filter_matches(f, r)), n)
  IN  [items |-> items, token |-> IF Len(items) >= n THEN Last(items) ELSE None]

mock_query_page(f, size) ==
  Terminal(SetToSortSeq({r \in records : mock_matches(f, r)}, ById), size)

FirstPage(f) == ToSet(query_page(f, MaxPageSize, None).items)

count(f) == IF fully_sql_filter(f)
            THEN Cardinality({r \in results : Pushed(f, r, index)})
            ELSE Cardinality(FirstPage(f))
mock_count(f) == Cardinality({r \in records : mock_matches(f, r)})

aggregate(f, agg) == run_aggregation(agg, FirstPage(f))
mock_aggregate(f, agg) ==
  compute_aggregation(agg, {r \in records : mock_matches(f, r)})

get_result(rows, i) == {r \in rows : r.id = i}

-----------------------------------------------------------------------------

StartQuery(f, size) ==
  /\ query = None
  /\ query' = [f |-> f, size |-> size, cursor |-> None, got |-> <<>>, done |-> FALSE,
               due |-> {r \in results : Pushed(f, r, index) /\ filter_matches(f, r)}]
  /\ UNCHANGED <<results, index, records, written>>

QueryPage ==
  /\ query # None
  /\ ~query.done
  /\ LET page == query_page(query.f, query.size, query.cursor)
     IN  query' = [query EXCEPT !.got = @ \o page.items,
                                !.cursor = page.token,
                                !.done = page.token = None]
  /\ UNCHANGED <<results, index, records, written>>

NextResults ==
  \/ \E r \in Results : save_result(r)
  \/ \E r \in results : delete_result(r.id)
  \/ \E f \in Followed, size \in QuerySizes : StartQuery(f, size)
  \/ QueryPage

=============================================================================
