------------------------------ MODULE MCStores ------------------------------
(***************************************************************************)
(* The stores share nothing but the file they are in, so a behaviour is    *)
(* about one of them, the focus; the others stay empty.                    *)
(***************************************************************************)
EXTENDS StoreProperties

VARIABLE focus

vars == <<focus, repo, store, journals, result_store>>

InitAll == /\ InitRepository
           /\ InitArtifacts
           /\ InitJournals
           /\ InitResults

Init == InitAll /\ focus \in Tables \cup {"artifacts", "journal", "results"}

OnTable     == /\ focus \in Tables
               /\ NextRepository(focus)
               /\ UNCHANGED <<focus, store, journals, result_store>>
OnArtifacts == /\ focus = "artifacts"
               /\ NextArtifacts
               /\ UNCHANGED <<focus, repo, journals, result_store>>
OnJournal   == /\ focus = "journal"
               /\ NextJournals
               /\ UNCHANGED <<focus, repo, store, result_store>>
OnResults   == /\ focus = "results"
               /\ NextResults
               /\ UNCHANGED <<focus, repo, store, journals>>

Next == OnTable \/ OnArtifacts \/ OnJournal \/ OnResults

\* Clients are told apart by nothing.
Interchangeable == Permutations(Clients)

Spec == Init /\ [][Next]_vars

-----------------------------------------------------------------------------
(* Base 2: four instants in a second, 4 ("1Z"), 5 ("1.01Z"), 6 ("1.1Z"), 7  *)
(* ("1.11Z"), whose texts are in the order 5, 7, 6, 4.                      *)

Dated(is, ats, tags, groups) ==
  [id : is, at : ats, tag : tags, group : groups]

\* Two plans under id 1, two with the fingerprint "q".
MCPlans == {[id |-> 1, at |-> 4, tag |-> "b", group |-> "p"],
            [id |-> 1, at |-> 6, tag |-> "a", group |-> "p"],
            [id |-> 2, at |-> 6, tag |-> "b", group |-> "q"],
            [id |-> 3, at |-> 9, tag |-> "a", group |-> "r"],
            [id |-> 3, at |-> 9, tag |-> "a", group |-> "q"]}

MCRows ==
  [t \in Tables |->
     CASE t = "plans"       -> MCPlans
       [] t = "executions"  -> Dated(1..3, {4, 6}, {"running", "ended"}, {"p"})
       [] t = "checkpoints" -> Dated(1..3, {4, 6, 9}, {"a"}, {"p", "q"})
       [] t = "metadata"    -> Dated(1..3, {Undated}, {"a", "b"}, {"p", "q"})]

Ask(t, g, tag, a, b, size) ==
  [table |-> t, group |-> g, tag |-> tag, after |-> a, before |-> b, size |-> size]

MCQueries ==
  {Ask("plans", g, tag, a, None, size) :
     g \in {None, "p"}, tag \in {None, "a"}, a \in {None, 5}, size \in {1}}
  \cup {Ask("executions", g, tag, None, b, 1) :
     g \in {None, "p"}, tag \in {None, "ended"}, b \in {None, 5, 9}}
  \cup {Ask(t, "p", None, None, None, size) :
     t \in {"checkpoints", "metadata"}, size \in 0..2}

\* One limit at a time, and all of them.
MCPolicies ==
  {[age |-> p[1], keep |-> p[2], cap |-> p[3]] :
     p \in {<<1, None, None>>, <<None, 1, None>>, <<None, None, 2>>, <<1, 1, 2>>}}

\* The step "a-b" runs, and "a_b", whose id it is LIKE, does not.
MCLikened == [s \in {"a_b", "a-b"} |-> {"a-b"}]

\* Four units to a whole number; a double that is one unit more is within the
\* epsilon of two.
Number(n) == [kind |-> "integer", v |-> 4 * n, made |-> "m"]
Almost(n) == [kind |-> "double", v |-> 4 * n + 1, made |-> "m"]
Text(n)   == [kind |-> "string", v |-> n, made |-> "m"]     \* texts are numbered

MCResults ==
  {[id |-> i, status |-> s, attempt |-> 1, at |-> at, label |-> "l",
    metrics |-> {[coord |-> "c", value |-> v]}] :
     i \in {1}, s \in {"ok", "failed"}, at \in {4, 6},
     v \in {Number(1), Text(1)}}
  \cup {[id |-> 2, status |-> "failed", attempt |-> 1, at |-> 6, label |-> "k",
         metrics |-> {[coord |-> "c", value |-> v]}] : v \in {Almost(2), Number(3)}}
  \cup {[id |-> 3, status |-> "ok", attempt |-> 2, at |-> 9, label |-> "k",
         metrics |-> m] :
         m \in {{}, {[coord |-> "c", value |-> Number(2)],
                     [coord |-> "d", value |-> Text(1)]}}}

MCLeaves ==
  {Leaf("id", 1), StatusIn({"ok"}), Leaf("after", 5), Leaf("before", 9),
   Attempt("Ge", 2), Metric("c", "Ge", Number(2)), Metric("d", "Eq", Text(1)),
   Metric("c", "Eq", Number(2)), Metric("c", "Ne", Number(2)),
   Metric("c", "Lt", Text(1)), Metric("c", "Ne", Text(1)), Label("k")}

MCFilters ==
  MCLeaves \cup {[op |-> "any"], [op |-> "unfilled"], [op |-> "assignment"]}
  \cup {Combination("not", {Metric("c", "Lt", Number(2))}),
        Combination("or", {StatusIn({"failed"}), Metric("d", "Eq", Text(1))}),
        Combination("and", {Metric("c", "Gt", Number(1)),
                    Combination("or", {Label("k"), Attempt("Le", 1)})}),
        Combination("and", {StatusIn({"ok"}), Metric("c", "Ne", Number(1))})}

MCFollowed == {f \in MCFilters : f.op = "and"} \cup {[op |-> "any"]}

Upload(ctx, name, size) == [id |-> 0, ctx |-> ctx, name |-> name, size |-> size, at |-> 0]
MCUploads == {Upload("x", "m", 1), Upload("x", "n", 2), Upload("y", "m", 1)}

On(op, q) == [op |-> op, coord |-> "c", q |-> q]
By(by, agg) == [op |-> "group", by |-> by, then |-> agg]

MCAggregations ==
  {[op |-> "count"], On("min", 0), On("max", 0), On("sum", 0), On("avg", 0),
   On("percentile", 0), On("percentile", 2), On("percentile", 4),
   By("status", On("sum", 0)), By("status", [op |-> "count"]),
   By("assignment", [op |-> "count"])}

=============================================================================
