------------------------------ MODULE Artifacts ------------------------------
(***************************************************************************)
(* The artifacts of trials in the table of sqlite and, atomic, in the map  *)
(* of the in-memory store; clients that save, delete and list, a clock,    *)
(* and the retention pass.  A row has a context (execution, trial,         *)
(* element), a name, a size, the instant of the save, and its client.      *)
(***************************************************************************)
EXTENDS Instants, Pages, FiniteSetsExt

CONSTANTS Savers, ArtifactIds, Contexts, Policies, PageSizes, StartTime,
          Uploads,           \* what clients save, before it has an id and a time
          MaxTime, MaxCalls, MaxCrashes

SaveModes == {"CreateNew", "Replace", "Version"}

ASSUME ArtifactsAssumption ==
  /\ StartTime \in Nat /\ ArtifactIds \subseteq Nat
  /\ \A r \in Uploads :
       r \in [id : {0}, ctx : Contexts, name : {r.name}, size : Nat, at : {0}]
  /\ None \notin [id : ArtifactIds, ctx : Contexts, name : {r.name : r \in Uploads},
                  size : Nat, at : Nat]
  /\ None \notin [row : Uploads, mode : SaveModes, since : Nat]
  /\ PageSizes \subseteq Nat
  /\ \A p \in Policies : \A limit \in {p.age, p.keep, p.cap} : limit \in Nat \cup {None}

VARIABLES artifacts,   \* the table
          shelf,       \* what the in-memory store would hold
          saver,       \* client -> the save it is in the middle of, since when
          now,
          apart,       \* the two stores hold different rows: two saves under one
                       \* key at once, one that was dropped, a retention pass
          swept,       \* a retention pass just made: before, after, policy, when
          reading,     \* a listing that is being followed
          minted,      \* the ULIDs of rows and when they were made
          calls, crashes

store == <<artifacts, shelf, saver, now, apart, swept, reading, minted,
           calls, crashes>>

KeyOf(r) == <<r.ctx, r.name>>
Same(rows, r) == {x \in rows : KeyOf(x) = KeyOf(r)}

Bytes(rows) == MapThenSumSet(LAMBDA r : r.size, rows)

-----------------------------------------------------------------------------
(* Saving                                                                  *)

InitArtifacts ==
  /\ artifacts = {} /\ shelf = {}
  /\ saver = [c \in Savers |-> None]
  /\ now = StartTime
  /\ apart = FALSE
  /\ swept = None
  /\ reading = None
  /\ minted = {}
  /\ calls = 0 /\ crashes = 0

\* The first call on the connection: a look under CreateNew, a DELETE under
\* Replace, nothing under Version.
BeginSave(c, r, mode) ==
  /\ saver[c] = None
  /\ calls < MaxCalls
  /\ calls' = calls + 1
  /\ artifacts' = IF mode = "Replace" THEN artifacts \ Same(artifacts, r)
                                      ELSE artifacts
  /\ IF mode = "CreateNew" /\ Same(artifacts, r) # {}
     THEN UNCHANGED <<saver, apart>>                       \* Conflict
     ELSE /\ saver' = [saver EXCEPT ![c] = [row |-> r, mode |-> mode,
                                                     since |-> now]]
          /\ apart' = (apart \/ \E o \in Savers : /\ saver[o] # None
                                                  /\ KeyOf(saver[o].row) = KeyOf(r))
  /\ swept' = None
  /\ UNCHANGED <<shelf, now, reading, minted, crashes>>

\* The in-memory store does all of a save under its mutex.
mock_save(row, mode) ==
  CASE mode = "CreateNew" -> IF Same(shelf, row) # {} THEN shelf ELSE shelf \cup {row}
    [] mode = "Replace"   -> (shelf \ Same(shelf, row)) \cup {row}
    [] mode = "Version"   -> shelf \cup {row}

\* The ids that a ULID of that instant can be: those of earlier instants are
\* less, those of later ones greater.
Fresh(made) == {i \in ArtifactIds : \A m \in minted :
                  m.id # i /\ (m.at < made => m.id < i) /\ (made < m.at => i < m.id)}

\* The second: the row under a ULID made after the first call and with an instant
\* taken after that, both before the INSERT gets the connection.
InsertArtifact(c) ==
  /\ saver[c] # None
  /\ \E made \in saver[c].since..now : \E at \in made..now, i \in Fresh(made) :
       LET s   == saver[c]
           row == [s.row EXCEPT !.id = i, !.at = at]
       IN  /\ artifacts' = artifacts \cup {row}
           /\ shelf' = mock_save(row, s.mode)
           /\ minted' = minted \cup {[id |-> i, at |-> made]}
  /\ saver' = [saver EXCEPT ![c] = None]
  /\ swept' = None
  /\ UNCHANGED <<now, apart, reading, calls, crashes>>

\* The client's process ends, or its future is dropped, between the two.
AbandonSave(c) ==
  /\ saver[c] # None
  /\ crashes < MaxCrashes
  /\ crashes' = crashes + 1
  /\ saver' = [saver EXCEPT ![c] = None]
  /\ apart' = TRUE
  /\ swept' = None
  /\ UNCHANGED <<artifacts, shelf, now, reading, minted, calls>>

DeleteArtifact(i) ==
  /\ \E r \in artifacts : r.id = i
  /\ artifacts' = {r \in artifacts : r.id # i}
  /\ shelf' = {r \in shelf : r.id # i}
  /\ swept' = None
  /\ UNCHANGED <<saver, now, apart, reading, minted, calls, crashes>>

Tick == /\ now < MaxTime
        /\ now' = now + 1
        /\ swept' = None
        /\ UNCHANGED <<artifacts, shelf, saver, apart, reading, minted,
                       calls, crashes>>

-----------------------------------------------------------------------------
(* Retention, in one transaction; in memory there is none.  A policy is    *)
(* [age, keep, cap], None where it sets no limit; an age is in seconds.    *)

\* The statements order by created_at alone: rows of one instant come in the
\* order of ids here.
Older(a, b) == Rank(a.at) < Rank(b.at) \/ (Rank(a.at) = Rank(b.at) /\ a.id < b.id)
InContext(rows, x) == {r \in rows : r.ctx = x}
Newer(rows, r) == {o \in InContext(rows, r.ctx) : Older(r, o)}

\* The cutoff is cut to the second; it is compared with the row as a text.
Cutoff(age) == Whole(now) - age * Base * Base

AgePass(rows, age) ==
  {r \in rows : age = None \/ Rank(r.at) >= Rank(Cutoff(age))}

\* Mutant: one more than asked for.
KeepPass_more(rows, keep) ==
  {r \in rows : keep = None \/ Cardinality(Newer(rows, r)) <= keep}

KeepPass(rows, keep) ==
  {r \in rows : keep = None \/ Cardinality(Newer(rows, r)) < keep}

\* Oldest first, while what remains is over the cap.
CapPass(rows, cap) ==
  {r \in rows : cap = None \/ LET x == InContext(rows, r.ctx)
                              IN  Bytes({o \in x : ~Older(o, r)}) <= cap}

run_retention(p) ==
  /\ artifacts # {}
  /\ LET left == CapPass(KeepPass(AgePass(artifacts, p.age), p.keep), p.cap)
     IN  /\ artifacts' = left
         /\ swept' = [before |-> artifacts, after |-> left, policy |-> p, when |-> now]
  /\ apart' = TRUE
  /\ UNCHANGED <<shelf, saver, now, reading, minted, calls, crashes>>

-----------------------------------------------------------------------------
(* Reading                                                                 *)

list_artifacts(x, size, cursor) ==
  LET rows == {r \in artifacts : r.ctx = x /\ (cursor = None \/ ById(cursor, r))}
  IN  PageOf(rows, Pairs(rows, ById), size, rows)

\* One page of the greatest size.
stream(x) == list_artifacts(x, MaxPageSize, None).items

OldestFirst(a, b) == a.at < b.at \/ (a.at = b.at /\ a.id < b.id)
mock_list_artifacts(x, size) ==
  LET rows == {r \in shelf : r.ctx = x}
  IN  Terminal(InTurn(rows, Pairs(rows, OldestFirst)), size)

get(rows, i) == LET found == {r \in rows : r.id = i}
                IN  IF found = {} THEN None ELSE CHOOSE r \in found : TRUE

StartReading(x, size) ==
  /\ reading = None
  /\ reading' = [ctx |-> x, size |-> size, got |-> <<>>, cursor |-> None,
                 due |-> InContext(artifacts, x), done |-> FALSE]
  /\ swept' = None
  /\ UNCHANGED <<artifacts, shelf, saver, now, apart, minted, calls, crashes>>

ReadPage ==
  /\ reading # None
  /\ ~reading.done
  /\ LET page == list_artifacts(reading.ctx, reading.size, reading.cursor)
     IN  reading' = [reading EXCEPT !.got = @ \o page.items,
                                    !.cursor = page.token,
                                    !.done = page.token = None]
  /\ swept' = None
  /\ UNCHANGED <<artifacts, shelf, saver, now, apart, minted, calls, crashes>>

NextArtifacts ==
  \/ \E c \in Savers, r \in Uploads, mode \in SaveModes : BeginSave(c, r, mode)
  \/ \E c \in Savers : InsertArtifact(c)
  \/ \E c \in Savers : AbandonSave(c)
  \/ \E i \in ArtifactIds : DeleteArtifact(i)
  \/ Tick
  \/ \E p \in Policies : run_retention(p)
  \/ \E x \in Contexts, size \in PageSizes : StartReading(x, size)
  \/ ReadPage

=============================================================================
