----------------------------- MODULE Repository -----------------------------
(***************************************************************************)
(* What the library keeps under ids: compiled plans, executions,           *)
(* checkpoints and metadata, in the tables of sqlite (db) and in the maps  *)
(* of the in-memory stores (mem), under the calls of several clients.      *)
(*                                                                         *)
(* A row has an id, an instant (compiled, started, created), a tag (a      *)
(* plan's label, an execution's status, the contents of a checkpoint or of *)
(* metadata) and a group (a plan's fingerprint, the plan of an execution,  *)
(* the execution of a checkpoint, the scope of metadata).  Ids are        *)
(* numbers in the order of their texts.                                    *)
(***************************************************************************)
EXTENDS Instants, Pages, FiniteSets

CONSTANTS Clients, Groups, Queries, MaxSaves,
          Rows               \* table -> the rows that clients save

Tables == {"plans", "executions", "checkpoints", "metadata"}

Blank == "{}"         \* what set_attr writes where there is no metadata yet

VARIABLES db, mem,     \* Tables -> sets of rows
          call,        \* client -> the plan it has found no row for
          told,        \* client -> its last save of a plan and the answer
          refused,     \* the plans that sqlite did not save
          crossed,     \* executions pruned while the texts of the instants of
                       \* their checkpoints were in another order
          walk,        \* a listing that is being followed
          due,         \* the rows it has to show
          saves        \* bounds the runs

repo == <<db, mem, call, told, refused, crossed, walk, due, saves>>

Undated == 0      \* metadata has no instant

\* The rows of a table: those that clients save, and what set_attr makes.
Stored(t) == [id : Nat, at : Nat, tag : {r.tag : r \in Rows[t]} \cup {Blank},
              group : {r.group : r \in Rows[t]}]

ASSUME RepositoryAssumption ==
  /\ \A t \in Tables : Rows[t] \subseteq Stored(t) /\ None \notin Stored(t)
  /\ \A r \in Rows["metadata"] : r.tag # Blank
  /\ \A q \in Queries :
       q \in [table : Tables, group : {q.group}, tag : {q.tag}, size : Nat,
              after : Nat \cup {None}, before : Nat \cup {None}]

Key(t, r) == IF t = "metadata" THEN <<r.group, r.id>> ELSE <<r.id>>
Upsert(t, rows, r) == {x \in rows : Key(t, x) # Key(t, r)} \cup {r}

-----------------------------------------------------------------------------
(* Queries: [table, group, tag, after, before, size], None where a filter   *)
(* is not set.                                                             *)

NewestFirst(a, b) == \/ Rank(a.at) > Rank(b.at)
                     \/ Rank(a.at) = Rank(b.at) /\ a.id > b.id

Bounded(q, r) == /\ q.after = None \/ Rank(r.at) >= Rank(q.after)
                 /\ q.before = None \/ Rank(r.at) <= Rank(q.before)

\* The WHERE clauses.  save_execution does not know the plan and stores the
\* empty fingerprint; list_executions ignores labels.
PlansWhere(q) == {r \in db["plans"] : (q.group = None \/ r.group = q.group)
                                      /\ Bounded(q, r)}
ExecutionsWhere(q) == {r \in db["executions"] : (q.group = None \/ q.group = "")
                                                /\ (q.tag = None \/ r.tag = q.tag)
                                                /\ Bounded(q, r)}
GroupWhere(q) == {r \in db[q.table] : r.group = q.group}

\* What comes after the cursor in the order of ids, or newest first.
After(rows, cursor) == {r \in rows : cursor = None \/ ById(cursor, r)}

\* Mutant: the cursor is an instant only.
AfterNewest_tied(rows, cursor) ==
  {r \in rows : cursor = None \/ Rank(cursor.at) > Rank(r.at)}

AfterNewest(rows, cursor) == {r \in rows : cursor = None \/ NewestFirst(cursor, r)}

\* ORDER BY and LIMIT.
ListById(rows, cursor, size, shown) ==
  LET rest == After(rows, cursor) IN PageOf(rest, Pairs(rest, ById), size, shown)
ListNewest(rows, cursor, size) ==
  LET rest == AfterNewest(rows, cursor)
  IN  PageOf(rest, Pairs(rest, NewestFirst), size, rest)

\* Labels and tags are compared after the LIMIT.
list_plans(q, cursor) ==
  ListById(PlansWhere(q), cursor, q.size,
           {r \in PlansWhere(q) : q.tag = None \/ r.tag = q.tag})
list_executions(q, cursor) ==
  ListById(ExecutionsWhere(q), cursor, q.size, ExecutionsWhere(q))
list_checkpoints(q, cursor) == ListNewest(GroupWhere(q), cursor, q.size)
list_scope(q, cursor)       == ListById(GroupWhere(q), cursor, q.size, GroupWhere(q))

Shows(q, cursor) == CASE q.table = "plans"       -> list_plans(q, cursor)
                      [] q.table = "executions"  -> list_executions(q, cursor)
                      [] q.table = "checkpoints" -> list_checkpoints(q, cursor)
                      [] q.table = "metadata"    -> list_scope(q, cursor)

\* What a listing is to show, all pages taken together.
Wanted(q) == CASE q.table = "plans" ->
                    {r \in PlansWhere(q) : q.tag = None \/ r.tag = q.tag}
               [] q.table = "executions" -> ExecutionsWhere(q)
               [] OTHER -> GroupWhere(q)

\* The in-memory stores compare instants, leave the bounds out, take the
\* fingerprint of the first plan for that of every execution, give one page,
\* and sort what is in the order of ids with a stable sort.
MockFirst(a, b) == a.at > b.at \/ (a.at = b.at /\ a.id < b.id)

lookup_plan_fp ==
  IF mem["plans"] = {} THEN ""
  ELSE (CHOOSE p \in mem["plans"] : \A o \in mem["plans"] : p.id <= o.id).group

MockBounded(q, r) == /\ q.after = None \/ r.at > q.after
                     /\ q.before = None \/ r.at < q.before

Newest(rows) == InTurn(rows, Pairs(rows, MockFirst))

mock_list_plans(q) ==
  Terminal(Newest({r \in mem["plans"] : /\ q.group = None \/ r.group = q.group
                                        /\ q.tag = None \/ r.tag = q.tag
                                        /\ MockBounded(q, r)}), q.size)
mock_list_executions(q) ==
  Terminal(Newest({r \in mem["executions"] : /\ q.group = None \/ lookup_plan_fp = q.group
                                             /\ q.tag = None \/ r.tag = q.tag
                                             /\ MockBounded(q, r)}), q.size)
mock_list_checkpoints(q) ==
  Terminal(Newest({r \in mem["checkpoints"] : r.group = q.group}), q.size)
mock_list_scope(q) ==
  LET rows == {r \in mem["metadata"] : r.group = q.group}
  IN  Terminal(InTurn(rows, Pairs(rows, ById)), q.size)

MockShows(q) == CASE q.table = "plans"       -> mock_list_plans(q)
                  [] q.table = "executions"  -> mock_list_executions(q)
                  [] q.table = "checkpoints" -> mock_list_checkpoints(q)
                  [] q.table = "metadata"    -> mock_list_scope(q)

-----------------------------------------------------------------------------
(* Reads                                                                   *)

ByKey(t, rows, k) == {r \in rows : Key(t, r) = k}

Best(rows, Before(_, _)) ==
  IF rows = {} THEN None
  ELSE CHOOSE r \in rows : \A o \in rows : o = r \/ Before(r, o)

latest(rows, e) == Best({r \in rows : r.group = e}, NewestFirst)

\* max_by_key keeps the last of several greatest.
MockNewer(a, b) == a.at > b.at \/ (a.at = b.at /\ a.id > b.id)
mock_latest(rows, e) == Best({r \in rows : r.group = e}, MockNewer)

\* Both look for the fingerprint of the plan among empty ones.
executions_of_plan(plan, size) ==
  list_executions([table |-> "executions", group |-> plan.group, tag |-> None,
                   after |-> None, before |-> None, size |-> size], None)
latest_execution_of_plan(plan) ==
  Best({r \in db["executions"] : plan.group = ""}, NewestFirst)

\* LIMIT -1 OFFSET keep.
SqlNewest(rows) == InTurn(rows, Pairs(rows, NewestFirst))

Oldest(sorted, keep) ==
  ToSet(SubSeq(sorted, IF keep < Len(sorted) THEN keep + 1 ELSE Len(sorted) + 1, Len(sorted)))

\* Mutant: the newest go.
prune_newest(rows, e, keep) ==
  rows \ Oldest(Reverse(SqlNewest({r \in rows : r.group = e})), keep)

prune(rows, e, keep) == rows \ Oldest(SqlNewest({r \in rows : r.group = e}), keep)

mock_prune(rows, e, keep) == rows \ Oldest(Newest({r \in rows : r.group = e}), keep)

\* Texts and instants give the rows one and the same strict order.
InOrder(rows) ==
  \A a, b \in rows : a # b => /\ a.at # b.at
                              /\ (a.at < b.at) <=> (Rank(a.at) < Rank(b.at))

\* fetch_metadata: what set_attr wrote for the want of metadata does not parse.
fetch_metadata(scope, i) ==
  LET found == ByKey("metadata", db["metadata"], <<scope, i>>)
  IN  IF found = {} THEN None
      ELSE IF \E r \in found : r.tag = Blank THEN "unreadable"
      ELSE (CHOOSE r \in found : TRUE).tag

\* Nor can a page be read that has such a row; the listing is an error.
Unreadable(q, page) == q.table = "metadata" /\ \E r \in ToSet(page.items) : r.tag = Blank

-----------------------------------------------------------------------------
(* Calls                                                                   *)

Idle == [plan |-> None, answer |-> "none"]

InitRepository ==
  /\ db = [t \in Tables |-> {}]
  /\ mem = db
  /\ call = [c \in Clients |-> None]
  /\ told = [c \in Clients |-> Idle]
  /\ refused = {} /\ crossed = {}
  /\ walk = None
  /\ due = {}
  /\ saves = 0

\* Every step: what is still there of the rows the listing has to show.
Watch == due' = due \cap db'[walk.q.table]
Quiet == UNCHANGED <<walk, saves>>

Saving == /\ saves < MaxSaves
          /\ saves' = saves + 1
          /\ UNCHANGED walk

Put(t, r) == /\ db' = [db EXCEPT ![t] = Upsert(t, @, r)]
             /\ mem' = [mem EXCEPT ![t] = Upsert(t, @, r)]

Answer(c, p, a) == told' = [told EXCEPT ![c] = [plan |-> p, answer |-> a]]

Refuse(p, no) == refused' = IF no THEN refused \cup {p} ELSE refused

\* The in-memory store looks for nothing and refuses nothing: it keeps the last
\* plan under an id.
mock_save_plan(p) == mem' = [mem EXCEPT !["plans"] = Upsert("plans", @, p)]

\* save_plan, up to the second call on the connection.  In memory a save is done
\* when it is answered here.
SavePlan(c, p) ==
  /\ call[c] = None
  /\ Saving
  /\ LET found == ByKey("plans", db["plans"], <<p.id>>)
         other == found # {p}
     IN  IF found = {}
         THEN /\ call' = [call EXCEPT ![c] = p]
              /\ told' = [told EXCEPT ![c] = Idle]
              /\ UNCHANGED <<mem, refused>>
         ELSE /\ Answer(c, p, IF other THEN "conflict" ELSE "ok")
              /\ mock_save_plan(p)
              /\ Refuse(p, other)
              /\ UNCHANGED call
  /\ UNCHANGED <<db, crossed>>

\* Mutant: INSERT OR REPLACE.
InsertPlan_replacing(c) ==
  /\ call[c] # None
  /\ LET p == call[c]
     IN  /\ Answer(c, p, "ok")
         /\ db' = [db EXCEPT !["plans"] =
                     {r \in @ : r.id # p.id /\ r.group # p.group} \cup {p}]
         /\ mock_save_plan(p)
  /\ call' = [call EXCEPT ![c] = None]
  /\ UNCHANGED <<refused, crossed>>
  /\ Quiet

\* The second call: id is the key of the table, fingerprint is UNIQUE.
InsertPlan(c) ==
  /\ call[c] # None
  /\ LET p     == call[c]
         taken == \E r \in db["plans"] : r.id = p.id \/ r.group = p.group
     IN  /\ Answer(c, p, IF taken THEN "backend" ELSE "ok")
         /\ db' = IF taken THEN db ELSE [db EXCEPT !["plans"] = @ \cup {p}]
         /\ mock_save_plan(p)
         /\ Refuse(p, taken)
  /\ call' = [call EXCEPT ![c] = None]
  /\ UNCHANGED crossed
  /\ Quiet

SaveRow(t, r) ==
  /\ Saving
  /\ Put(t, r)
  /\ UNCHANGED <<call, told, refused, crossed>>

save_execution(r)  == SaveRow("executions", r)
save_checkpoint(r) == SaveRow("checkpoints", r)
upsert_metadata(r) == SaveRow("metadata", r)

delete_checkpoint(i) ==
  /\ db' = [db EXCEPT !["checkpoints"] = {r \in @ : r.id # i}]
  /\ mem' = [mem EXCEPT !["checkpoints"] = {r \in @ : r.id # i}]
  /\ db' # db
  /\ UNCHANGED <<call, told, refused, crossed>>
  /\ Quiet

prune_checkpoints(e, keep) ==
  /\ db' = [db EXCEPT !["checkpoints"] = prune(@, e, keep)]
  /\ mem' = [mem EXCEPT !["checkpoints"] = mock_prune(@, e, keep)]
  /\ db' # db
  /\ crossed' = IF InOrder({r \in db["checkpoints"] : r.group = e}) THEN crossed
                ELSE crossed \cup {e}
  /\ UNCHANGED <<call, told, refused>>
  /\ Quiet

\* Labels and tags have columns of their own; where there is no row for them
\* yet, sqlite makes one with empty metadata.  In memory they are kept apart.
set_attr(scope, i) ==
  /\ Saving
  /\ db' = [db EXCEPT !["metadata"] =
              IF ByKey("metadata", @, <<scope, i>>) = {}
              THEN @ \cup {[id |-> i, at |-> Undated, tag |-> Blank, group |-> scope]}
              ELSE @]
  /\ UNCHANGED <<mem, call, told, refused, crossed>>

\* Somebody lists, and follows the tokens.
StartWalk(q) ==
  /\ walk = None
  /\ walk' = [q |-> q, got |-> <<>>, cursor |-> None,
              last |-> <<>>, done |-> FALSE]
  /\ due' = Wanted(q)
  /\ UNCHANGED <<db, mem, call, told, refused, crossed, saves>>

NextPage ==
  /\ walk # None
  /\ ~walk.done
  /\ LET page == Shows(walk.q, walk.cursor)
     IN  IF Unreadable(walk.q, page)
         THEN walk' = None /\ due' = {}
         ELSE /\ walk' = [walk EXCEPT !.got = @ \o page.items,
                                      !.last = page.items,
                                      !.cursor = page.token,
                                      !.done = page.token = None]
              /\ UNCHANGED due
  /\ UNCHANGED <<db, mem, call, told, refused, crossed, saves>>

Mutation(t) ==
  \/ /\ t = "plans"
     /\ \E c \in Clients : InsertPlan(c) \/ \E p \in Rows[t] : SavePlan(c, p)
  \/ t = "executions" /\ \E r \in Rows[t] : save_execution(r)
  \/ t = "checkpoints" /\ \E r \in Rows[t] : save_checkpoint(r)
  \/ t = "checkpoints" /\ \E r \in db[t] : delete_checkpoint(r.id)
  \/ t = "checkpoints" /\ \E e \in Groups, keep \in 0..2 : prune_checkpoints(e, keep)
  \/ t = "metadata" /\ \E r \in Rows[t] : upsert_metadata(r)
  \/ t = "metadata" /\ \E r \in Rows[t] : set_attr(r.group, r.id)

NextRepository(t) ==
  \/ Mutation(t) /\ (IF walk = None THEN UNCHANGED due ELSE Watch)
  \/ \E q \in Queries : q.table = t /\ StartWalk(q)
  \/ NextPage

=============================================================================
