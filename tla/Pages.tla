------------------------------- MODULE Pages -------------------------------
(***************************************************************************)
(* One page of a listing by key: the backend reads one row more than the   *)
(* page has room for, fills the page from what it read, and hands out a    *)
(* token when there was one more.                                          *)
(***************************************************************************)
EXTENDS Integers, SequencesExt, FiniteSets

CONSTANTS None, MaxPageSize      \* MAX_PAGE_SIZE is 1000

ASSUME PageSizeAssumption == MaxPageSize \in Nat \ {0}

clamped(size) == IF size > MaxPageSize THEN MaxPageSize
                 ELSE IF size = 0 THEN 1 ELSE size

ById(a, b) == a.id < b.id

First(s, n) == SubSeq(s, 1, IF n < Len(s) THEN n ELSE Len(s))

\* An order is a set of pairs, each of a row and one that comes after it.
Pairs(rows, Before(_, _)) == {p \in rows \X rows : Before(p[1], p[2])}
Ahead(r, rows, order)     == {o \in rows : <<o, r>> \in order}

\* The first n of the rows, the last of them, and all of them one by one.
Foremost(rows, order, n) == {r \in rows : Cardinality(Ahead(r, rows, order)) < n}
Hindmost(rows, order)    == CHOOSE r \in rows : Ahead(r, rows, order) = rows \ {r}
InTurn(rows, order) ==
  [i \in 1..Cardinality(rows) |->
     CHOOSE r \in rows : Cardinality(Ahead(r, rows, order)) = i - 1]

\* The page of those rows that are shown; its last is the token.
PageOf(rows, order, size, shown) ==
  LET n     == clamped(size)
      read  == Foremost(rows, order, n + 1)
      items == Foremost(read \cap shown, order, n)
  IN  [items |-> InTurn(items, order),
       token |-> IF Cardinality(read) > n /\ items # {} THEN Hindmost(items, order)
                 ELSE None]

\* Page::terminal: what the in-memory stores answer.
Terminal(sorted, size) == [items |-> First(sorted, clamped(size)), token |-> None]

=============================================================================
