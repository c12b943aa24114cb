-------------------------- MODULE ArchiveProperties --------------------------
(***************************************************************************)
(* What the repository, the artifact store and the journal promise to      *)
(* those who call them: what was saved is there, the sqlite and the        *)
(* in-memory stores answer alike, retention drops what it should, whoever  *)
(* follows an execution misses nothing.                                    *)
(***************************************************************************)
EXTENDS Repository, Artifacts, Journals

\* They share nothing but the file they are in: each goes on by itself.
InitArchive == InitRepository /\ InitArtifacts /\ InitJournals

NextArchive ==
  \/ (\E t \in Tables : NextRepository(t)) /\ UNCHANGED <<store, journals>>
  \/ NextArtifacts /\ UNCHANGED <<repo, journals>>
  \/ NextJournals /\ UNCHANGED <<repo, store>>

SpecArchive == InitArchive /\ [][NextArchive]_<<repo, store, journals>>

\* A listing that is followed to its end while others save and delete shows
\* every row that was there all the time, and none twice.  A page of plans
\* that labels have emptied ends the listing early.
Once(rows, got) == /\ rows \subseteq ToSet(got)
                   /\ IsInjective(got)

WalksComplete ==
  /\ walk # None /\ walk.done
       /\ ~(walk.q.table = "plans" /\ walk.q.tag # None /\ walk.last = <<>>)
     => Once(due, walk.got)
  /\ reading # None /\ reading.done
     => Once(reading.due \cap artifacts, reading.got)

-----------------------------------------------------------------------------
(* The repository                                                          *)

\* Whoever was told that a plan is saved finds that plan, whichever clients
\* saved others between the two calls of save_plan; and tables keep one row
\* for a key, whoever wrote it twice.
SavedMeansStored ==
  /\ \A c \in Clients : told[c].answer = "ok" => told[c].plan \in db["plans"]
  /\ \A t \in Tables : \A a, b \in db[t] :
       a # b => /\ Key(t, a) # Key(t, b)
                /\ t = "plans" => a.group # b.group
  /\ \A a, b \in artifacts : a.id = b.id => a = b

\* Bounds as far from a row as from another: not equal, and ordered alike.
ClearOf(t, rows) ==
  t = None \/ \A r \in rows : /\ r.at # t
                              /\ (r.at < t) <=> (Rank(r.at) < Rank(t))

\* A query both answer: execution rows have no fingerprint in sqlite.
Common(q) == /\ ClearOf(q.after, db[q.table]) /\ ClearOf(q.before, db[q.table])
             /\ q.table = "executions" => q.group = None
             /\ q.table = "checkpoints" => InOrder({r \in db["checkpoints"] : r.group = q.group})

\* About rows that are the same in both: no plan was refused, the execution was
\* not pruned in two orders, no row is unreadable.
Alike(q) == CASE q.table = "plans"       -> refused = {}
              [] q.table = "executions"  -> TRUE
              [] q.table = "checkpoints" -> q.group \notin crossed
              [] q.table = "metadata"    -> \A r \in GroupWhere(q) : r.tag # Blank

\* Only refused plans are in memory alone, and only they have taken the place of
\* others there; executions and metadata that is not blank are the same, and the
\* checkpoints of an execution, of which both find and keep the same latest.
RepositoriesAgree ==
  /\ mem["plans"] \ db["plans"] \subseteq refused
  /\ \A r \in db["plans"] \ mem["plans"] : \E p \in refused : p.id = r.id
  /\ mem["executions"] = db["executions"]
  /\ mem["metadata"] = {r \in db["metadata"] : r.tag # Blank}
  /\ \A r \in mem["metadata"] : fetch_metadata(r.group, r.id) = r.tag
  /\ \A e \in {r.group : r \in Rows["checkpoints"]} \ crossed :
       LET rows == {r \in db["checkpoints"] : r.group = e}
       IN  /\ rows = {r \in mem["checkpoints"] : r.group = e}
           /\ rows # {} /\ InOrder(rows) =>
                /\ latest(rows, e) = mock_latest(rows, e)
                /\ \A keep \in 0..2 : /\ prune(rows, e, keep) = mock_prune(rows, e, keep)
                                      /\ Cardinality(prune(rows, e, keep)) <= keep
                                      /\ keep > 0 =>
                                           latest(rows, e) \in prune(rows, e, keep)
  /\ walk = None => \A q \in {x \in Queries : db[x.table] # {}} :
       Common(q) /\ Alike(q) /\ Cardinality(db[q.table]) <= MaxPageSize
       => LET whole == [q EXCEPT !.size = MaxPageSize]
          IN  ToSet(Shows(whole, None).items) = ToSet(MockShows(whole).items)

-----------------------------------------------------------------------------
(* Artifacts                                                               *)

Replacing == {KeyOf(saver[c].row) : c \in {x \in Savers :
                saver[x] # None /\ saver[x].mode = "Replace"}}
Unless(rows, keys) == {r \in rows : KeyOf(r) \notin keys}

\* Outside of a Replace that is under way.
ArtifactsAgree ==
  artifacts \cup shelf # {} /\ ~apart =>
    /\ Unless(artifacts, Replacing) = Unless(shelf, Replacing)
    /\ Replacing = {} =>
         /\ \A i \in ArtifactIds : get(artifacts, i) = get(shelf, i)
         /\ \A x \in Contexts :
              Cardinality(InContext(shelf, x)) <= MaxPageSize =>
                /\ ToSet(stream(x)) = InContext(shelf, x)
                /\ ToSet(mock_list_artifacts(x, MaxPageSize).items) = ToSet(stream(x))

\* What a retention pass leaves is within the limits of its policy, with ages
\* to the second; it drops nothing without a limit that says so, and nothing of
\* a second while it keeps something of an earlier one in the same context.
RetentionKeeps ==
  swept # None =>
    LET before  == swept.before
        after   == swept.after
        dropped == before \ after
        p       == swept.policy
        Age(r)  == swept.when - r.at
        Long    == p.age * Base * Base
        second  == Base * Base
    IN  /\ after \subseteq before
        /\ p.age # None => \A r \in after : Age(r) < Long + second
        /\ \A x \in Contexts :
             /\ p.keep # None => Cardinality(InContext(after, x)) <= p.keep
             /\ p.cap # None => Bytes(InContext(after, x)) <= p.cap
        /\ \A d \in dropped :
             /\ \/ p.age # None /\ Age(d) > Long - second
                \/ p.keep # None /\ Cardinality(Newer(before, d)) >= p.keep
                \/ p.cap # None /\ Bytes(Newer(before, d) \cup {d}) > p.cap
             /\ \A k \in InContext(after, d.ctx) : Second(d.at) <= Second(k.at)

\* A save under CreateNew puts no second row under its key
\* (paramodel-persistence/src/artifact_store.rs:95, "Fail with
\* `PersistenceError::Conflict` on duplicate").
Creating(r) == \E c \in Savers : /\ saver[c] # None /\ saver'[c] = None
                                 /\ saver[c].mode = "CreateNew"
                                 /\ KeyOf(saver[c].row) = KeyOf(r)
CreatedOnce ==
  [][\A r \in artifacts' \ artifacts : Creating(r) => Same(artifacts, r) = {}]_store

-----------------------------------------------------------------------------
(* The journal                                                             *)

\* An event of e is stored and not yet published.
Publishing(e) == writer.exec = e /\ writer.queue # <<>>

Seen(f) == ToSet(f.history) \cup ToSet(f.got)

\* Who subscribes before it replays the history has missed nothing that is in
\* the table, once it has read its channel and was not told of a loss; what it
\* receives comes in the order of the sequence, the first event of a run twice.
NothingMissed ==
  /\ follower # None =>
       /\ \A i \in 1..Len(follower.got) - 1 :
            LET a == follower.got[i]
                b == follower.got[i + 1]
            IN  a.run = b.run => a.seq < b.seq \/ (a = b /\ a.seq = 1)
       /\ follower.history # None =>
            LET e == follower.exec
            IN  follower.lost = 0 /\ follower.at = Len(sent[e]) /\ ~Publishing(e)
                  => Of(table, e) \subseteq Seen(follower)

Ends(kind, e) == {r.step : r \in {x \in ToSet(log) : x.exec = e /\ x.kind = kind}}
KeptWhole(e) == e \notin cut

\* The last that was written of step s is that it started.
Runs(e, s) ==
  \E i \in DOMAIN log :
    /\ log[i].exec = e /\ log[i].step = s /\ log[i].kind = "StepStarted"
    /\ \A j \in DOMAIN log : log[j].exec = e /\ log[j].step = s => j <= i

\* What recover reads in the table happened: a step it calls completed, failed
\* or skipped was; after one run it knows of every end, and takes those steps
\* for running whose start is the last that was written of them.
\* is_step_completed says the same of a step, or of another one whose id is LIKE
\* its own: what it denies did not complete, but what it affirms may not have
\* (state_manager.rs:111 calls the match "rough but correct for this shape").
RecoversWhatEnded ==
  \A e \in Executions : LET known == recover(e) IN
    /\ \A s \in Asked :
         is_step_completed(e, s) <=> Likened[s] \cap known.completed # {}
    /\ KeptWhole(e) =>
         /\ known.completed \subseteq Ends("StepCompleted", e)
         /\ known.failed \subseteq Ends("StepFailed", e)
         /\ known.skipped \subseteq Ends("StepSkipped", e)
         /\ runs[e] <= 1 =>
              /\ known.completed = Ends("StepCompleted", e)
              /\ known.failed = Ends("StepFailed", e)
              /\ known.skipped = Ends("StepSkipped", e)
              /\ known.in_flight = {s \in Steps : Runs(e, s)}

\* Every event that the executor wrote is in the table once it was published:
\* the sequence of the event is that of the row (journal_store.rs:19, "Backend
\* commits the sequence before returning").
EventsKept ==
  \A e \in Executions : KeptWhole(e) /\ ~Publishing(e) => Ends("StepCompleted", e)
    \subseteq recover(e).completed

-----------------------------------------------------------------------------
(* The in-memory stores                                                    *)

\* Of an execution that ran once, past the event that it starts with.
JournalsAgree ==
  follower = None =>
    /\ \A e \in {x \in Executions : runs[x] <= 1} :
         /\ \A n \in 1..MaxEvents : replay(e, n) = mock_replay(e, n)
         /\ latest_sequence(e) > 1 =>
              /\ latest_sequence(e) = mock_latest_sequence(e)
              /\ latest_event(e) = mock_latest_event(e)
    /\ (\A e \in Executions : runs[e] <= 1) =>
         \A n \in 1..MaxEvents : since(n) = ToSet(mock_since(n))

\* Whatever is saved and deleted, by whom and in which order, and whenever
\* read, the sqlite and the in-memory stores answer alike: where instants
\* differ and have texts in the same order, nobody was interrupted, no two
\* saved under one key at once, and no execution was resumed.  Plans are the same
\* up to those that sqlite refused; the in-memory store refuses none, though "a
\* repeat save of a different payload under the same id is a `Conflict`"
\* (paramodel-persistence/src/execution_repository.rs:115-117).  Listings are
\* compared where none is being followed, the journals where nobody follows:
\* what is stored is the same in the other states.
BackendsAgree == RepositoriesAgree /\ ArtifactsAgree /\ JournalsAgree

=============================================================================
