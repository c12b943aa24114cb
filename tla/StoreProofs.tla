----------------------------- MODULE StoreProofs -----------------------------
(***************************************************************************)
(* What the repository, the artifact store and the journal promise holds   *)
(* for every set of clients, rows and executions, however many saves,      *)
(* crashes and runs there are.                                             *)
(***************************************************************************)
EXTENDS ArchiveProperties, SumProofs, SequenceTheorems

(***************************************************************************)
(* Listings.  An order of finitely many rows gives each of them a place,   *)
(* how many are ahead of it; a page has those of the first places, and     *)
(* every other row comes after the last of them, which is the token.       *)
(***************************************************************************)
Strict(order, rows) == /\ \A a \in rows : <<a, a>> \notin order
                       /\ \A a, b, c \in rows : <<a, b>> \in order /\ <<b, c>> \in order
                                                  => <<a, c>> \in order
Comparable(order, rows) == \A a, b \in rows : a = b \/ <<a, b>> \in order \/ <<b, a>> \in order

Place(r, rows, order) == Cardinality(Ahead(r, rows, order))

(* Places are in the order of the rows. *)
LEMMA Places ==
  ASSUME NEW rows, IsFiniteSet(rows), NEW order, Strict(order, rows), Comparable(order, rows)
  PROVE  /\ Cardinality(rows) \in Nat
         /\ \A r \in rows : Place(r, rows, order) \in 0..Cardinality(rows) - 1
         /\ \A a, b \in rows :
              <<a, b>> \in order <=> Place(a, rows, order) < Place(b, rows, order)
         /\ \A a, b \in rows : Place(a, rows, order) = Place(b, rows, order) => a = b
<1>. DEFINE P(r) == Place(r, rows, order)
<1>1. Cardinality(rows) \in Nat
  BY FS_CardinalityType
<1>2. ASSUME NEW r \in rows
      PROVE  P(r) \in Nat /\ P(r) < Cardinality(rows) /\ IsFiniteSet(Ahead(r, rows, order))
  <2>. DEFINE A == Ahead(r, rows, order)
  <2>1. A \subseteq rows /\ A # rows
    BY DEF Ahead, Strict
  <2>. HIDE DEF A
  <2>2. IsFiniteSet(A) /\ Cardinality(A) <= Cardinality(rows) /\ Cardinality(A) # Cardinality(rows)
    BY <2>1, FS_Subset
  <2>3. Cardinality(A) \in Nat
    BY <2>2, FS_CardinalityType
  <2>. QED  BY <1>1, <2>2, <2>3 DEF A, Place
<1>3. ASSUME NEW a \in rows, NEW b \in rows, <<a, b>> \in order
      PROVE  P(a) < P(b)
  <2>. DEFINE A == Ahead(a, rows, order)
              B == Ahead(b, rows, order)
  <2>1. A \subseteq B /\ a \in B /\ a \notin A
    BY <1>3 DEF Ahead, Strict
  <2>2. IsFiniteSet(B) /\ Cardinality(A) \in Nat /\ Cardinality(B) \in Nat
    BY <1>2 DEF Place
  <2>. HIDE DEF A, B
  <2>3. Cardinality(A) <= Cardinality(B) /\ Cardinality(A) # Cardinality(B)
    BY <2>1, <2>2, FS_Subset
  <2>. QED  BY <2>2, <2>3 DEF A, B, Place
<1>. HIDE DEF P
<1>4. \A a, b \in rows : a = b \/ P(a) < P(b) \/ P(b) < P(a)
  BY <1>3 DEF Comparable
<1>5. \A r \in rows : P(r) \in 0..Cardinality(rows) - 1
  BY <1>1, <1>2
<1>6. \A a, b \in rows : P(a) < P(b) => <<a, b>> \in order
  <2>. SUFFICES ASSUME NEW a \in rows, NEW b \in rows, P(a) < P(b), <<a, b>> \notin order
                PROVE  FALSE
    OBVIOUS
  <2>1. P(a) \in Nat /\ P(b) \in Nat
    BY <1>2
  <2>2. a = b \/ P(b) < P(a)
    BY <1>3 DEF Comparable
  <2>. QED  BY <2>1, <2>2
<1>7. \A a, b \in rows : P(a) = P(b) => a = b
  BY <1>2, <1>4
<1>. QED  BY <1>1, <1>3, <1>5, <1>6, <1>7 DEF P

(* So do those of a part. *)
LEMMA PartOrdered ==
  ASSUME NEW rows, NEW order, Strict(order, rows), Comparable(order, rows), NEW part, part \subseteq rows
  PROVE  Strict(order, part) /\ Comparable(order, part)
BY DEF Strict, Comparable

(* Some row of a part has the first place in it, and some the last.        *)
LEMMA FirstAndLast ==
  ASSUME NEW rows, IsFiniteSet(rows), NEW order, Strict(order, rows), Comparable(order, rows),
         NEW part, part \subseteq rows, part # {}
  PROVE  /\ \E r \in part : \A o \in part : o = r \/ <<r, o>> \in order
         /\ \E r \in part : \A o \in part : o = r \/ <<o, r>> \in order
<1>. DEFINE P(r) == Place(r, rows, order)
            places == {P(r) : r \in part}
<1>1. /\ \A r \in rows : P(r) \in 0..Cardinality(rows) - 1
      /\ \A a, b \in rows : <<a, b>> \in order <=> P(a) < P(b)
      /\ \A a, b \in rows : P(a) = P(b) => a = b
      /\ Cardinality(rows) \in Nat
  BY Places
<1>. HIDE DEF P
<1>2. places \in SUBSET Int /\ places \in SUBSET Nat /\ places # {} /\ IsFiniteSet(places)
  <2>1. places \subseteq 0..Cardinality(rows) - 1 /\ places # {}
    BY <1>1
  <2>. DEFINE last == Cardinality(rows) - 1
  <2>2. last \in Int
    BY <1>1
  <2>. HIDE DEF places, last
  <2>3. IsFiniteSet(0..last) /\ 0..last \subseteq Nat
    BY <2>2, FS_Interval
  <2>4. places \subseteq 0..last
    BY <2>1 DEF last
  <2>5. IsFiniteSet(places)
    BY <2>3, <2>4, FS_Subset
  <2>6. places \subseteq Nat /\ places \subseteq Int
    BY <2>3, <2>4
  <2>. QED  BY <2>1, <2>5, <2>6
<1>3. Min(places) \in places /\ \A y \in places : Min(places) <= y
  <2>. HIDE DEF places
  <2>. QED  BY <1>2, LeastOf
<1>4. Max(places) \in places /\ \A y \in places : y <= Max(places)
  <2>. HIDE DEF places
  <2>. QED  BY <1>2, GreatestOf
<1>5. PICK r \in part : \A o \in part : P(r) <= P(o)
  BY <1>3
<1>6. PICK s \in part : \A o \in part : P(o) <= P(s)
  BY <1>4
<1>7. \A o \in part : (o = r \/ <<r, o>> \in order) /\ (o = s \/ <<o, s>> \in order)
  <2>1. \A a \in part : P(a) \in Int
    BY <1>1
  <2>. QED  BY <1>1, <1>5, <1>6, <2>1
<1>. QED  BY <1>7

(* The first n rows. *)
LEMMA ForemostRows ==
  ASSUME NEW rows, IsFiniteSet(rows), NEW order, Strict(order, rows), Comparable(order, rows),
         NEW n \in Nat
  PROVE  LET F == Foremost(rows, order, n)
         IN  /\ F \subseteq rows
             /\ \A f \in F, r \in rows \ F : <<f, r>> \in order
             /\ rows \ F # {} => Cardinality(F) >= n
             /\ n > 0 /\ rows # {} => F # {}
<1>. DEFINE F == Foremost(rows, order, n)
            P(r) == Place(r, rows, order)
<1>1. /\ \A r \in rows : P(r) \in Nat
      /\ \A a, b \in rows : <<a, b>> \in order <=> P(a) < P(b)
  BY Places
<1>2. F \subseteq rows /\ \A r \in rows : r \in F <=> P(r) < n
  BY DEF Foremost, Place
<1>3. IsFiniteSet(F) /\ Cardinality(F) \in Nat
  <2>. HIDE DEF F
  <2>. QED  BY <1>2, FS_Subset, FS_CardinalityType
<1>4. \A f \in F, r \in rows \ F : <<f, r>> \in order
  <2>. HIDE DEF P, F
  <2>. SUFFICES ASSUME NEW f \in F, NEW r \in rows \ F PROVE <<f, r>> \in order
    OBVIOUS
  <2>1. P(f) < n /\ ~(P(r) < n) /\ P(f) \in Nat /\ P(r) \in Nat /\ f \in rows
    BY <1>1, <1>2
  <2>. QED  BY <1>1, <2>1
<1>5. ASSUME rows \ F # {} PROVE Cardinality(F) >= n
  <2>. DEFINE rest == rows \ F
  <2>1. rest \subseteq rows /\ rest # {}
    BY <1>5
  <2>2. PICK r \in rest : \A o \in rest : o = r \/ <<r, o>> \in order
    <3>. HIDE DEF rest
    <3>. QED  BY <2>1, FirstAndLast
  <2>. DEFINE A == Ahead(r, rows, order)
  <2>3. A \subseteq F
    <3>. HIDE DEF F
    <3>. QED  BY <2>2 DEF Ahead, Strict
  <2>4. Cardinality(A) = P(r) /\ P(r) \in Nat /\ P(r) >= n
    <3>1. Cardinality(A) = P(r)
      BY DEF Place
    <3>. HIDE DEF P, F, A
    <3>. QED  BY <1>1, <1>2, <2>2, <3>1
  <2>. HIDE DEF A, F, P
  <2>5. Cardinality(A) <= Cardinality(F)
    BY <1>3, <2>3, FS_Subset
  <2>. QED  BY <1>3, <2>4, <2>5
<1>6. ASSUME n > 0, rows # {} PROVE F # {}
  <2>1. PICK r \in rows : \A o \in rows : o = r \/ <<r, o>> \in order
    BY <1>6, FirstAndLast
  <2>2. Ahead(r, rows, order) = {}
    BY <2>1 DEF Ahead, Strict
  <2>3. P(r) = 0
    BY <2>2, FS_EmptySet DEF Place
  <2>. HIDE DEF P, F
  <2>. QED  BY <1>2, <1>6, <2>3
<1>. QED  BY <1>2, <1>4, <1>5, <1>6

LEMMA HindmostRow ==
  ASSUME NEW rows, IsFiniteSet(rows), NEW order, Strict(order, rows), Comparable(order, rows), rows # {}
  PROVE  /\ Hindmost(rows, order) \in rows
         /\ \A o \in rows : o = Hindmost(rows, order) \/ <<o, Hindmost(rows, order)>> \in order
<1>1. PICK r \in rows : \A o \in rows : o = r \/ <<o, r>> \in order
  BY FirstAndLast
<1>2. Ahead(r, rows, order) = rows \ {r}
  BY <1>1 DEF Ahead, Strict
<1>3. Hindmost(rows, order) \in rows
      /\ Ahead(Hindmost(rows, order), rows, order) = rows \ {Hindmost(rows, order)}
  BY <1>2 DEF Hindmost
<1>. QED  BY <1>3 DEF Ahead

(* Every place is some row's, so a sequence of the rows in turn has them   *)
(* all, in order.                                                          *)
LEMMA EveryPlace ==
  ASSUME NEW rows, IsFiniteSet(rows), NEW order, Strict(order, rows), Comparable(order, rows),
         NEW i \in 1..Cardinality(rows)
  PROVE  \E r \in rows : Place(r, rows, order) = i - 1
<1>. DEFINE P(r) == Place(r, rows, order)
            T == 0..Cardinality(rows) - 1
            f == [r \in rows |-> P(r)]
<1>1. /\ \A r \in rows : P(r) \in T
      /\ \A a, b \in rows : P(a) = P(b) => a = b
      /\ Cardinality(rows) \in Nat
  BY Places
<1>2. IsFiniteSet(T) /\ Cardinality(T) = Cardinality(rows)
  <2>. DEFINE last == Cardinality(rows) - 1
  <2>1. last \in Int /\ last >= -1 /\ Cardinality(rows) = last + 1
    BY <1>1
  <2>. HIDE DEF last
  <2>2. IsFiniteSet(0..last) /\ Cardinality(0..last) = last + 1
    BY <2>1, FS_Interval
  <2>. QED  BY <2>1, <2>2 DEF last
<1>. HIDE DEF P, T
<1>3. f \in Injection(rows, T)
  BY <1>1 DEF Injection, IsInjective
<1>4. f \in Surjection(rows, T)
  <2>. HIDE DEF f
  <2>. QED  BY <1>2, <1>3, FS_Injection
<1>5. i - 1 \in T
  BY <1>1 DEF T
<1>. QED  BY <1>4, <1>5 DEF Surjection, P

LEMMA InTurnShows ==
  ASSUME NEW rows, IsFiniteSet(rows), NEW order, Strict(order, rows), Comparable(order, rows)
  PROVE  LET s == InTurn(rows, order)
         IN  /\ s \in Seq(rows) /\ Len(s) = Cardinality(rows) /\ Len(s) \in Nat
             /\ \A r \in rows : \E i \in 1..Len(s) : s[i] = r
             /\ \A i, j \in 1..Len(s) : i < j => <<s[i], s[j]>> \in order
<1>. DEFINE P(r) == Place(r, rows, order)
            s == InTurn(rows, order)
            n == Cardinality(rows)
<1>1. /\ \A r \in rows : P(r) \in 0..n - 1
      /\ \A a, b \in rows : <<a, b>> \in order <=> P(a) < P(b)
      /\ \A a, b \in rows : P(a) = P(b) => a = b
      /\ n \in Nat
  BY Places
<1>2. s = [i \in 1..n |-> CHOOSE r \in rows : P(r) = i - 1]
  BY DEF InTurn, Place
<1>. HIDE DEF s
<1>3. \A i \in 1..n : s[i] \in rows /\ P(s[i]) = i - 1
  <2>. SUFFICES ASSUME NEW i \in 1..n PROVE s[i] \in rows /\ P(s[i]) = i - 1
    OBVIOUS
  <2>1. \E r \in rows : P(r) = i - 1
    BY EveryPlace
  <2>. HIDE DEF P, n
  <2>. QED  BY <1>2, <2>1
<1>. HIDE DEF P, n
<1>4. s \in Seq(rows) /\ Len(s) = n
  <2>1. s \in [1..n -> rows]
    BY <1>2, <1>3
  <2>. QED  BY <1>1, <2>1
<1>5. \A r \in rows : \E i \in 1..n : s[i] = r
  <2>. SUFFICES ASSUME NEW r \in rows PROVE \E i \in 1..n : s[i] = r
    OBVIOUS
  <2>1. P(r) + 1 \in 1..n /\ (P(r) + 1) - 1 = P(r)
    BY <1>1
  <2>. QED  BY <1>1, <1>3, <2>1
<1>6. \A i, j \in 1..n : i < j => <<s[i], s[j]>> \in order
  BY <1>1, <1>3
<1>. QED  BY <1>1, <1>4, <1>5, <1>6 DEF s, n

LEMMA ClampedSize ==
  ASSUME NEW size \in Nat
  PROVE  clamped(size) \in Nat \ {0}
BY PageSizeAssumption DEF clamped

(* A page shows its rows in order.  What it does not show of those that    *)
(* match comes after its token, unless nothing of what was read matches.   *)
SoundPage(rest, order, shown, page) ==
  LET s == page.items
  IN  /\ s \in Seq(rest)
      /\ \A i, j \in 1..Len(s) : i < j => <<s[i], s[j]>> \in order
      /\ page.token # None =>
           /\ page.token \in rest /\ s # <<>>
           /\ \A i \in 1..Len(s) : s[i] = page.token \/ <<s[i], page.token>> \in order
      /\ s # <<>> \/ rest \subseteq shown =>
           \A r \in rest \cap shown :
             \/ \E i \in 1..Len(s) : s[i] = r
             \/ page.token # None /\ <<page.token, r>> \in order

LEMMA PageShows ==
  ASSUME NEW rest, IsFiniteSet(rest), None \notin rest, NEW order, Strict(order, rest),
         Comparable(order, rest), NEW size \in Nat, NEW shown
  PROVE  SoundPage(rest, order, shown, PageOf(rest, order, size, shown))
<1>. DEFINE n     == clamped(size)
            read  == Foremost(rest, order, n + 1)
            match == read \cap shown
            items == Foremost(match, order, n)
            token == IF Cardinality(read) > n /\ items # {} THEN Hindmost(items, order) ELSE None
            s     == InTurn(items, order)
<1>0. PageOf(rest, order, size, shown) = [items |-> s, token |-> token]
  BY DEF PageOf
<1>1. n \in Nat /\ n > 0 /\ n + 1 \in Nat
  BY ClampedSize
<1>. HIDE DEF n
<1>2. /\ read \subseteq rest
      /\ \A f \in read, r \in rest \ read : <<f, r>> \in order
      /\ rest \ read # {} => Cardinality(read) >= n + 1
      /\ rest # {} => read # {}
  BY <1>1, ForemostRows
<1>. HIDE DEF read
<1>3. /\ IsFiniteSet(read) /\ IsFiniteSet(match) /\ match \subseteq read
      /\ Cardinality(read) \in Nat
  <2>1. IsFiniteSet(read) /\ match \subseteq read
    BY <1>2, FS_Subset
  <2>. HIDE DEF match
  <2>. QED  BY <2>1, FS_Subset, FS_CardinalityType
<1>4. Strict(order, match) /\ Comparable(order, match)
  BY <1>2, PartOrdered
<1>. HIDE DEF match
<1>5. /\ items \subseteq match
      /\ \A f \in items, r \in match \ items : <<f, r>> \in order
      /\ match \ items # {} => Cardinality(items) >= n
      /\ match # {} => items # {}
  BY <1>1, <1>3, <1>4, ForemostRows
<1>. HIDE DEF items
<1>6. IsFiniteSet(items) /\ Strict(order, items) /\ Comparable(order, items) /\ items \subseteq rest
  <2>1. IsFiniteSet(items)
    BY <1>3, <1>5, FS_Subset
  <2>. QED  BY <1>2, <1>3, <1>4, <1>5, <2>1, PartOrdered
<1>7. /\ s \in Seq(items) /\ Len(s) \in Nat /\ Len(s) = Cardinality(items)
      /\ \A r \in items : \E i \in 1..Len(s) : s[i] = r
      /\ \A i, j \in 1..Len(s) : i < j => <<s[i], s[j]>> \in order
  BY <1>6, InTurnShows
<1>. HIDE DEF s
<1>8. items # {} => /\ Hindmost(items, order) \in items
                    /\ \A o \in items : \/ o = Hindmost(items, order)
                                       \/ <<o, Hindmost(items, order)>> \in order
  BY <1>6, HindmostRow
<1>9. token # None => /\ items # {} /\ token = Hindmost(items, order) /\ token \in items
                      /\ \A o \in items : o = token \/ <<o, token>> \in order
  BY <1>8
<1>10. items # {} /\ Cardinality(read) > n => token = Hindmost(items, order) /\ token # None
  BY <1>6, <1>8
<1>. HIDE DEF token
<1>11. \A i \in 1..Len(s) : s[i] \in items
  BY <1>7
<1>12. s \in Seq(rest)
  BY <1>6, <1>7
<1>13. ASSUME items # {}, NEW r \in rest \cap shown, r \notin items
       PROVE  token # None /\ <<token, r>> \in order
  <2>1. CASE r \notin read
    <3>1. Cardinality(read) > n
      BY <1>1, <1>2, <1>3, <2>1
    <3>2. token \in items /\ token # None
      BY <1>9, <1>10, <1>13, <3>1
    <3>. QED  BY <1>2, <1>3, <1>5, <2>1, <3>2
  <2>2. CASE r \in read
    <3>1. r \in match \ items
      BY <1>13, <2>2 DEF match
    <3>2. Cardinality(items) >= n /\ items \cup {r} \subseteq read
      BY <1>3, <1>5, <3>1
    <3>3. Cardinality(items \cup {r}) = Cardinality(items) + 1 /\ Cardinality(items) \in Nat
      BY <1>6, <1>13, FS_AddElement, FS_CardinalityType
    <3>4. Cardinality(items \cup {r}) <= Cardinality(read)
      BY <1>3, <3>2, FS_Subset
    <3>5. token \in items /\ token # None
      BY <1>1, <1>3, <1>9, <1>10, <1>13, <3>2, <3>3, <3>4
    <3>. QED  BY <1>5, <3>1, <3>5
  <2>. QED  BY <2>1, <2>2
<1>14. s # <<>> \/ rest \subseteq shown => rest \cap shown = {} \/ items # {}
  <2>1. s # <<>> => items # {}
    BY <1>7, FS_EmptySet
  <2>2. rest \subseteq shown => rest = {} \/ items # {}
    BY <1>2, <1>5 DEF match
  <2>. QED  BY <2>1, <2>2
<1>15. s # <<>> \/ rest \subseteq shown =>
         \A r \in rest \cap shown :
           (\E i \in 1..Len(s) : s[i] = r) \/ (token # None /\ <<token, r>> \in order)
  BY <1>7, <1>13, <1>14
<1>16. token # None => /\ token \in rest /\ s # <<>>
                       /\ \A i \in 1..Len(s) : s[i] = token \/ <<s[i], token>> \in order
  <2>1. items # {} => s # <<>>
    BY <1>7
  <2>. QED  BY <1>6, <1>9, <1>11, <2>1
<1>. QED  BY <1>0, <1>7, <1>12, <1>15, <1>16 DEF SoundPage

(***************************************************************************)
(* A listing that is followed page by page, among rows S in an order R.    *)
(* What it has shown is in order, up to its cursor; what it has not shown  *)
(* of the rows that are due comes after it.                                *)
(***************************************************************************)
Reached(S, R, got, cursor, done) ==
  /\ got \in Seq(S)
  /\ \A i, j \in 1..Len(got) : i < j => <<got[i], got[j]>> \in R
  /\ cursor # None => /\ cursor \in S
                      /\ \A i \in 1..Len(got) : got[i] = cursor \/ <<got[i], cursor>> \in R
  /\ cursor = None /\ ~done => got = <<>>

Covered(R, rows, got, cursor, done) ==
  \A r \in rows : r \in ToSet(got) \/ (~done /\ (cursor = None \/ <<cursor, r>> \in R))

(* What two sequences give, one after the other.                           *)
LEMMA Joined ==
  ASSUME NEW S, NEW s \in Seq(S), NEW u \in Seq(S)
  PROVE  /\ s \o u \in Seq(S) /\ Len(s \o u) = Len(s) + Len(u)
         /\ Len(s) \in Nat /\ Len(u) \in Nat
         /\ \A i \in 1..Len(s) : (s \o u)[i] = s[i]
         /\ \A i \in 1..Len(u) : (s \o u)[Len(s) + i] = u[i]
         /\ \A i \in 1..Len(s \o u) : i \in 1..Len(s) \/ i - Len(s) \in 1..Len(u)
         /\ ToSet(s \o u) = ToSet(s) \cup ToSet(u)
<1>1. /\ s \o u \in Seq(S) /\ Len(s \o u) = Len(s) + Len(u) /\ Len(s) \in Nat /\ Len(u) \in Nat
      /\ \A i \in 1..Len(s) + Len(u) : (s \o u)[i] = IF i <= Len(s) THEN s[i] ELSE u[i - Len(s)]
  OBVIOUS
<1>2. DOMAIN (s \o u) = 1..Len(s) + Len(u) /\ DOMAIN s = 1..Len(s) /\ DOMAIN u = 1..Len(u)
  BY <1>1
<1>. DEFINE w == s \o u
            m == Len(s)
            n == Len(u)
<1>3. /\ w \in Seq(S) /\ Len(w) = m + n /\ m \in Nat /\ n \in Nat
      /\ \A i \in 1..m + n : w[i] = IF i <= m THEN s[i] ELSE u[i - m]
      /\ DOMAIN w = 1..m + n /\ DOMAIN s = 1..m /\ DOMAIN u = 1..n
  BY <1>1, <1>2
<1>. HIDE DEF w, m, n
<1>4. /\ \A i \in 1..m : w[i] = s[i] /\ i \in 1..m + n
      /\ \A i \in 1..n : w[m + i] = u[i] /\ m + i \in 1..m + n
      /\ \A i \in 1..m + n : i \in 1..m \/ i - m \in 1..n
  <2>1. \A i \in 1..n : m + i \in 1..m + n /\ ~(m + i <= m) /\ (m + i) - m = i
    BY <1>3
  <2>. QED  BY <1>3, <2>1
<1>5. ToSet(w) = ToSet(s) \cup ToSet(u)
  <2>1. /\ ToSet(w) = {w[i] : i \in 1..m + n} /\ ToSet(s) = {s[i] : i \in 1..m}
        /\ ToSet(u) = {u[i] : i \in 1..n}
    BY <1>3 DEF ToSet
  <2>2. ASSUME NEW i \in 1..m + n
        PROVE  w[i] \in {s[k] : k \in 1..m} \cup {u[k] : k \in 1..n}
    <3>1. CASE i \in 1..m
      BY <1>4, <3>1
    <3>2. CASE i - m \in 1..n
      <4>1. m + (i - m) = i
        BY <1>3
      <4>2. w[m + (i - m)] = u[i - m]
        BY <1>4, <3>2
      <4>. QED  BY <3>2, <4>1, <4>2
    <3>. QED  BY <1>4, <3>1, <3>2
  <2>3. \A x \in {s[k] : k \in 1..m} \cup {u[k] : k \in 1..n} : \E i \in 1..m + n : w[i] = x
    BY <1>4
  <2>. QED  BY <2>1, <2>2, <2>3
<1>. QED  BY <1>3, <1>4, <1>5 DEF w, m, n

(* One page further, of those of the rows that were left. *)
Further(S, R, rows, rest, shown, got, cursor, page) ==
  /\ Reached(S, R, got \o page.items, page.token, page.token = None)
  /\ page.items = <<>> => page.token = None
  /\ \A wanted \in SUBSET rows :
       /\ wanted \cap rest \subseteq shown
       /\ Covered(R, wanted, got, cursor, FALSE)
       /\ page.items # <<>> \/ rest \subseteq shown
       => Covered(R, wanted, got \o page.items, page.token, page.token = None)

LEMMA ListingGoesOn ==
  ASSUME NEW S, None \notin S, NEW R, Strict(R, S),
         NEW rows \in SUBSET S, IsFiniteSet(rows), Comparable(R, rows),
         NEW got, NEW cursor, Reached(S, R, got, cursor, FALSE),
         NEW rest, rest = {r \in rows : cursor = None \/ <<cursor, r>> \in R},
         NEW order, \A a, b \in rest : <<a, b>> \in order <=> <<a, b>> \in R,
         NEW size \in Nat, NEW shown, NEW page, page = PageOf(rest, order, size, shown)
  PROVE  Further(S, R, rows, rest, shown, got, cursor, page)
<1>. DEFINE s == page.items
            w == got \o s
<1>1. IsFiniteSet(rest) /\ None \notin rest /\ rest \subseteq rows /\ rest \subseteq S
  BY FS_Subset
<1>2. Strict(order, rest) /\ Comparable(order, rest)
  BY <1>1 DEF Strict, Comparable
<1>3. /\ s \in Seq(rest)
      /\ \A i, j \in 1..Len(s) : i < j => <<s[i], s[j]>> \in order
      /\ page.token # None =>
           /\ page.token \in rest /\ s # <<>>
           /\ \A i \in 1..Len(s) : s[i] = page.token \/ <<s[i], page.token>> \in order
      /\ s # <<>> \/ rest \subseteq shown =>
           \A r \in rest \cap shown :
             \/ \E i \in 1..Len(s) : s[i] = r
             \/ page.token # None /\ <<page.token, r>> \in order
  <2>1. SoundPage(rest, order, shown, page)
    BY <1>1, <1>2, PageShows
  <2>. QED  BY <2>1 DEF SoundPage
<1>. HIDE DEF s
<1>4. /\ got \in Seq(S) /\ s \in Seq(S)
      /\ \A i \in 1..Len(s) : s[i] \in rest
  <2>1. got \in Seq(S)
    BY DEF Reached
  <2>2. Len(s) \in Nat /\ s \in [1..Len(s) -> rest]
    BY <1>3
  <2>3. s \in [1..Len(s) -> S]
    BY <1>1, <2>2
  <2>4. s \in Seq(S)
    BY <2>2, <2>3
  <2>. QED  BY <2>1, <2>2, <2>4
<1>5. /\ w \in Seq(S) /\ Len(w) = Len(got) + Len(s) /\ Len(got) \in Nat /\ Len(s) \in Nat
      /\ \A i \in 1..Len(got) : w[i] = got[i]
      /\ \A i \in 1..Len(s) : w[Len(got) + i] = s[i]
      /\ \A i \in 1..Len(w) : i \in 1..Len(got) \/ i - Len(got) \in 1..Len(s)
      /\ ToSet(w) = ToSet(got) \cup ToSet(s)
  BY <1>4, Joined
<1>. HIDE DEF w
<1>6. \A i \in 1..Len(w) : IF i \in 1..Len(got) THEN w[i] = got[i]
                          ELSE i - Len(got) \in 1..Len(s) /\ w[i] = s[i - Len(got)]
  <2>. SUFFICES ASSUME NEW i \in 1..Len(w), i \notin 1..Len(got)
                PROVE  i - Len(got) \in 1..Len(s) /\ w[i] = s[i - Len(got)]
    BY <1>5
  <2>1. i - Len(got) \in 1..Len(s) /\ Len(got) + (i - Len(got)) = i
    BY <1>5
  <2>. QED  BY <1>5, <2>1
<1>7. \A i \in 1..Len(got), j \in 1..Len(s) : got[i] \in S /\ s[j] \in rest /\ <<got[i], s[j]>> \in R
  <2>. SUFFICES ASSUME NEW i \in 1..Len(got), NEW j \in 1..Len(s)
                PROVE  got[i] \in S /\ s[j] \in rest /\ <<got[i], s[j]>> \in R
    OBVIOUS
  <2>1. got[i] \in S /\ s[j] \in rest /\ got # <<>>
    BY <1>4
  <2>2. /\ cursor # None /\ cursor \in S
        /\ got[i] = cursor \/ <<got[i], cursor>> \in R
    BY <2>1 DEF Reached
  <2>3. <<cursor, s[j]>> \in R
    BY <2>1, <2>2
  <2>. QED  BY <1>1, <2>1, <2>2, <2>3 DEF Strict
<1>8. \A i, j \in 1..Len(w) : i < j => <<w[i], w[j]>> \in R
  <2>. SUFFICES ASSUME NEW i \in 1..Len(w), NEW j \in 1..Len(w), i < j PROVE <<w[i], w[j]>> \in R
    OBVIOUS
  <2>1. CASE i \in 1..Len(got) /\ j \in 1..Len(got)
    BY <1>5, <2>1 DEF Reached
  <2>2. CASE i \in 1..Len(got) /\ j \notin 1..Len(got)
    <3>. DEFINE b == j - Len(got)
    <3>1. w[i] = got[i] /\ b \in 1..Len(s) /\ w[j] = s[b]
      BY <1>6, <2>2
    <3>. HIDE DEF b
    <3>. QED  BY <1>7, <2>2, <3>1
  <2>3. CASE i \notin 1..Len(got)
    <3>1. j \notin 1..Len(got)
      BY <1>5, <2>3
    <3>. DEFINE a == i - Len(got)
                b == j - Len(got)
    <3>2. a \in 1..Len(s) /\ b \in 1..Len(s) /\ a < b /\ w[i] = s[a] /\ w[j] = s[b]
      BY <1>5, <1>6, <2>3, <3>1
    <3>3. <<s[a], s[b]>> \in order /\ s[a] \in rest /\ s[b] \in rest
      <4>. HIDE DEF a, b
      <4>. QED  BY <1>3, <1>4, <3>2
    <3>. HIDE DEF a, b
    <3>. QED  BY <3>2, <3>3
  <2>. QED  BY <2>1, <2>2, <2>3
<1>9. ASSUME page.token # None
      PROVE  /\ page.token \in S
             /\ \A i \in 1..Len(w) : w[i] = page.token \/ <<w[i], page.token>> \in R
  <2>1. page.token \in rest /\ page.token \in S
    BY <1>1, <1>3, <1>9
  <2>2. \A i \in 1..Len(s) : s[i] \in rest /\ (s[i] = page.token \/ <<s[i], page.token>> \in R)
    <3>1. \A i \in 1..Len(s) : s[i] = page.token \/ <<s[i], page.token>> \in order
      BY <1>3, <1>9
    <3>. QED  BY <1>4, <2>1, <3>1
  <2>3. \A i \in 1..Len(got) : <<got[i], page.token>> \in R
    <3>. SUFFICES ASSUME NEW i \in 1..Len(got) PROVE <<got[i], page.token>> \in R
      OBVIOUS
    <3>1. got[i] \in S /\ got # <<>>
      BY <1>4
    <3>2. /\ cursor # None /\ cursor \in S
          /\ got[i] = cursor \/ <<got[i], cursor>> \in R
      BY <3>1 DEF Reached
    <3>3. <<cursor, page.token>> \in R
      BY <2>1, <3>2
    <3>. QED  BY <2>1, <3>1, <3>2, <3>3 DEF Strict
  <2>. QED  BY <1>6, <2>1, <2>2, <2>3
<1>10. Reached(S, R, w, page.token, page.token = None)
  BY <1>5, <1>8, <1>9 DEF Reached
<1>11. ASSUME NEW wanted \in SUBSET rows, wanted \cap rest \subseteq shown,
              Covered(R, wanted, got, cursor, FALSE), s # <<>> \/ rest \subseteq shown
       PROVE  Covered(R, wanted, w, page.token, page.token = None)
  <2>. SUFFICES ASSUME NEW r \in wanted, r \notin ToSet(w)
                PROVE  page.token # None /\ <<page.token, r>> \in R
    BY DEF Covered
  <2>1. r \notin ToSet(got) /\ r \notin ToSet(s) /\ r \in rows
    BY <1>5
  <2>2. r \in rest \cap shown
    BY <1>11, <2>1 DEF Covered
  <2>3. ~\E i \in 1..Len(s) : s[i] = r
    BY <1>4, <2>1 DEF ToSet
  <2>4. page.token # None /\ <<page.token, r>> \in order /\ page.token \in rest
    BY <1>3, <1>11, <2>2, <2>3
  <2>. QED  BY <2>2, <2>4
<1>. QED  BY <1>3, <1>10, <1>11 DEF w, s, Further

(* A listing that is done has shown all that is due, and nothing twice.    *)
LEMMA ListingDone ==
  ASSUME NEW S, NEW R, Strict(R, S), NEW got, NEW cursor, Reached(S, R, got, cursor, TRUE),
         NEW rows, Covered(R, rows, got, cursor, TRUE)
  PROVE  Once(rows, got)
<1>1. rows \subseteq ToSet(got)
  BY DEF Covered
<1>2. IsInjective(got)
  <2>. SUFFICES ASSUME NEW i \in DOMAIN got, NEW j \in DOMAIN got, got[i] = got[j], i # j PROVE FALSE
    BY DEF IsInjective
  <2>1. got \in Seq(S) /\ i \in 1..Len(got) /\ j \in 1..Len(got) /\ got[i] \in S
    BY DEF Reached
  <2>2. CASE i < j
    BY <2>1, <2>2 DEF Reached, Strict
  <2>3. CASE j < i
    BY <2>1, <2>3 DEF Reached, Strict
  <2>. QED  BY <2>1, <2>2, <2>3
<1>. QED  BY <1>1, <1>2 DEF Once

------------------------------------------------------------------------------
(***************************************************************************)
(* The repository.  A client that is in the middle of a save holds a plan; *)
(* one that was answered "ok" asked for a plan that is there, and no       *)
(* statement takes plans away.                                             *)
(***************************************************************************)
OneRowPerKey(t, rows) ==
  \A a, b \in rows : a # b => /\ Key(t, a) # Key(t, b)
                              /\ t = "plans" => a.group # b.group

SoundRows(t, rows) == rows \subseteq Stored(t) /\ IsFiniteSet(rows) /\ OneRowPerKey(t, rows)

RepositoryInv ==
  /\ DOMAIN db = Tables
  /\ DOMAIN call = Clients /\ DOMAIN told = Clients
  /\ \A c \in Clients : call[c] # None => call[c] \in Stored("plans")
  /\ \A c \in Clients : told[c].answer = "ok" => told[c].plan \in db["plans"]
  /\ \A t \in Tables : SoundRows(t, db[t])

(* Putting a row over that with its key leaves one row for every key. *)
LEMMA UpsertKeepsKeys ==
  ASSUME NEW t \in Tables \ {"plans"}, NEW rows, NEW r \in Stored(t), SoundRows(t, rows)
  PROVE  SoundRows(t, Upsert(t, rows, r))
<1>. DEFINE others == {x \in rows : Key(t, x) # Key(t, r)}
<1>1. others \subseteq rows /\ IsFiniteSet(rows)
  BY DEF SoundRows
<1>2. OneRowPerKey(t, others \cup {r})
  BY DEF OneRowPerKey, SoundRows
<1>. HIDE DEF others
<1>3. IsFiniteSet(others \cup {r})
  BY <1>1, FS_Subset, FS_AddElement
<1>. QED  BY <1>1, <1>2, <1>3 DEF Upsert, SoundRows, others

(* So does taking rows away. *)
LEMMA PartKeepsKeys ==
  ASSUME NEW t, NEW rows, NEW part, part \subseteq rows, SoundRows(t, rows)
  PROVE  SoundRows(t, part)
BY FS_Subset DEF OneRowPerKey, SoundRows

(* And adding one whose key is not taken. *)
LEMMA AddKeepsKeys ==
  ASSUME NEW t, NEW rows, NEW r \in Stored(t), SoundRows(t, rows),
         \A x \in rows : Key(t, x) # Key(t, r) /\ (t = "plans" => x.group # r.group)
  PROVE  SoundRows(t, rows \cup {r})
<1>1. OneRowPerKey(t, rows \cup {r})
  BY DEF OneRowPerKey, SoundRows
<1>2. IsFiniteSet(rows \cup {r})
  BY FS_AddElement DEF SoundRows
<1>. QED  BY <1>1, <1>2 DEF SoundRows

(* A statement about a table that is not that of the plans. *)
LEMMA OtherTable ==
  ASSUME RepositoryInv, NEW t \in Tables \ {"plans"}, NEW rows,
         db' = [db EXCEPT ![t] = rows], SoundRows(t, rows), UNCHANGED <<call, told>>
  PROVE  RepositoryInv'
BY DEF RepositoryInv, Tables

(* save_plan up to its second statement writes nothing to sqlite; it answers *)
(* "ok" where it has found the plan. *)
LEMMA SavePlanInv ==
  ASSUME RepositoryInv, NEW c \in Clients, NEW p \in Rows["plans"], SavePlan(c, p)
  PROVE  RepositoryInv'
<1>. DEFINE found == ByKey("plans", db["plans"], <<p.id>>)
            a     == IF found = {p} THEN "ok" ELSE "conflict"
<1>0. p \in Stored("plans")
  BY RepositoryAssumption DEF Tables
<1>1. UNCHANGED db /\ DOMAIN call' = Clients
      /\ \A k \in Clients : call'[k] # None => call'[k] \in Stored("plans")
  BY <1>0 DEF SavePlan, RepositoryInv
<1>2. CASE found = {}
  <2>1. told' = [told EXCEPT ![c] = Idle]
    BY <1>2 DEF SavePlan
  <2>. QED  BY <1>1, <2>1 DEF RepositoryInv, Idle
<1>3. CASE found # {}
  <2>1. told' = [told EXCEPT ![c] = [plan |-> p, answer |-> a]]
    BY <1>3 DEF SavePlan, Answer
  <2>2. a = "ok" => p \in db["plans"]
    BY DEF ByKey
  <2>. HIDE DEF a, found
  <2>. QED  BY <1>1, <2>1, <2>2 DEF RepositoryInv
<1>. QED  BY <1>2, <1>3

(* The second statement adds the plan where neither its id nor its *)
(* fingerprint is taken. *)
LEMMA InsertPlanInv ==
  ASSUME RepositoryInv, NEW c \in Clients, InsertPlan(c)
  PROVE  RepositoryInv'
<1>. DEFINE p == call[c]
<1>0. p \in Stored("plans")
  BY DEF InsertPlan, RepositoryInv
<1>1. DOMAIN call' = Clients /\ \A k \in Clients : call'[k] # None => call'[k] \in Stored("plans")
  BY DEF InsertPlan, RepositoryInv
<1>. DEFINE taken == \E r \in db["plans"] : r.id = p.id \/ r.group = p.group
<1>2. CASE taken
  <2>1. db' = db /\ told' = [told EXCEPT ![c] = [plan |-> p, answer |-> "backend"]]
    BY <1>2 DEF InsertPlan, Answer
  <2>. QED  BY <1>1, <2>1 DEF RepositoryInv
<1>3. CASE ~taken
  <2>1. told' = [told EXCEPT ![c] = [plan |-> p, answer |-> "ok"]]
    BY <1>3 DEF InsertPlan, Answer
  <2>4. db' = [db EXCEPT !["plans"] = db["plans"] \cup {p}]
    BY <1>3 DEF InsertPlan
  <2>5. \A x \in db["plans"] : Key("plans", x) # Key("plans", p) /\ x.group # p.group
    BY <1>3 DEF Key
  <2>6. SoundRows("plans", db["plans"])
    BY DEF RepositoryInv, Tables
  <2>. HIDE DEF p
  <2>7. SoundRows("plans", db["plans"] \cup {p})
    BY <1>0, <2>5, <2>6, AddKeepsKeys
  <2>. QED  BY <1>1, <2>1, <2>4, <2>7 DEF RepositoryInv, Tables
<1>. QED  BY <1>2, <1>3

(* Outside of the table of the plans a statement puts a row over that with *)
(* its key, takes rows away, or adds one where none has its key.           *)
LEMMA TableInv ==
  ASSUME RepositoryInv, NEW t \in Tables \ {"plans"}, Mutation(t)
  PROVE  RepositoryInv'
<1>1. SoundRows(t, db[t]) /\ Rows[t] \subseteq Stored(t)
  BY RepositoryAssumption DEF RepositoryInv
<1>2. ASSUME NEW r \in Rows[t], SaveRow(t, r)
      PROVE  RepositoryInv'
  <2>1. db' = [db EXCEPT ![t] = Upsert(t, db[t], r)] /\ UNCHANGED <<call, told>>
    BY <1>2 DEF SaveRow, Put
  <2>. QED  BY <1>1, <2>1, UpsertKeepsKeys, OtherTable
<1>3. ASSUME t = "checkpoints", NEW i, delete_checkpoint(i)
      PROVE  RepositoryInv'
  <2>1. db' = [db EXCEPT ![t] = {r \in db[t] : r.id # i}] /\ UNCHANGED <<call, told>>
    BY <1>3 DEF delete_checkpoint
  <2>2. SoundRows(t, {r \in db[t] : r.id # i})
    BY <1>1, PartKeepsKeys
  <2>. QED  BY <2>1, <2>2, OtherTable
<1>4. ASSUME t = "checkpoints", NEW e, NEW keep, prune_checkpoints(e, keep)
      PROVE  RepositoryInv'
  <2>1. db' = [db EXCEPT ![t] = prune(db[t], e, keep)] /\ UNCHANGED <<call, told>>
    BY <1>4 DEF prune_checkpoints
  <2>2. prune(db[t], e, keep) \subseteq db[t]
    BY DEF prune
  <2>3. SoundRows(t, prune(db[t], e, keep))
    BY <1>1, <2>2, PartKeepsKeys
  <2>. QED  BY <2>1, <2>3, OtherTable
<1>5. ASSUME t = "metadata", NEW of \in Rows[t], set_attr(of.group, of.id)
      PROVE  RepositoryInv'
  <2>. DEFINE row == [id |-> of.id, at |-> Undated, tag |-> Blank, group |-> of.group]
  <2>1. Key(t, row) = <<of.group, of.id>>
    BY <1>5 DEF Key
  <2>2. CASE ByKey(t, db[t], <<of.group, of.id>>) = {}
    <3>1. db' = [db EXCEPT ![t] = db[t] \cup {row}] /\ UNCHANGED <<call, told>>
      BY <1>5, <2>2 DEF set_attr
    <3>2. \A r \in db[t] : Key(t, r) # Key(t, row)
      BY <2>1, <2>2 DEF ByKey
    <3>3. row \in Stored(t)
      BY <1>1 DEF Stored, Undated
    <3>. HIDE DEF row
    <3>4. SoundRows(t, db[t] \cup {row})
      BY <1>1, <3>2, <3>3, AddKeepsKeys
    <3>. QED  BY <3>1, <3>4, OtherTable
  <2>3. CASE ByKey(t, db[t], <<of.group, of.id>>) # {}
    <3>1. db' = [db EXCEPT ![t] = db[t]] /\ UNCHANGED <<call, told>>
      BY <1>5, <2>3 DEF set_attr
    <3>. QED  BY <1>1, <3>1, OtherTable
  <2>. QED  BY <2>2, <2>3
<1>. QED  BY <1>2, <1>3, <1>4, <1>5
     DEF Mutation, save_execution, save_checkpoint, upsert_metadata

(* Every call leaves one row for a key, and what was answered. *)
LEMMA RepositoryStep ==
  ASSUME RepositoryInv, NEW t \in Tables, NextRepository(t)
  PROVE  RepositoryInv'
<1>1. CASE Mutation(t)
  <2>1. CASE t = "plans"
    BY <1>1, <2>1, SavePlanInv, InsertPlanInv DEF Mutation
  <2>2. CASE t # "plans"
    BY <1>1, <2>2, TableInv
  <2>. QED  BY <2>1, <2>2
<1>2. CASE NextPage \/ \E q \in Queries : StartWalk(q)
  BY <1>2 DEF NextPage, StartWalk, RepositoryInv
<1>. QED  BY <1>1, <1>2 DEF NextRepository

(* The tables are empty in the beginning. *)
LEMMA InitRepositoryInv == InitRepository => RepositoryInv
BY FS_EmptySet DEF InitRepository, RepositoryInv, SoundRows, OneRowPerKey, Idle

------------------------------------------------------------------------------
(***************************************************************************)
(* Artifacts.  Every row has an id that was handed out for it, so that no  *)
(* two rows have one.                                                      *)
(***************************************************************************)
Names == {r.name : r \in Uploads}
Row   == [id : ArtifactIds, ctx : Contexts, name : Names, size : Nat, at : Nat]

OneRowPerId(rows) == \A a, b \in rows : a.id = b.id => a = b

ArtifactsInv ==
  /\ artifacts \in SUBSET Row /\ IsFiniteSet(artifacts) /\ OneRowPerId(artifacts)
  /\ \A a \in artifacts : \E m \in minted : m.id = a.id
  /\ DOMAIN saver = Savers
  /\ \A c \in Savers : saver[c] # None => saver[c].row \in Uploads /\ saver[c].since \in Nat
  /\ now \in Nat

(* Rows are taken away, and the clock goes on. *)
LEMMA RowsTaken ==
  ASSUME ArtifactsInv, artifacts' \subseteq artifacts, now' \in Nat, UNCHANGED <<saver, minted>>
  PROVE  ArtifactsInv'
<1>1. IsFiniteSet(artifacts')
  BY FS_Subset DEF ArtifactsInv
<1>. QED  BY <1>1 DEF ArtifactsInv, OneRowPerId

(* What an INSERT writes, whenever the id and the instant were taken. *)
LEMMA Inserted ==
  ASSUME ArtifactsInv, NEW c \in Savers, InsertArtifact(c)
  PROVE  \E i \in ArtifactIds, made, at \in Nat :
           /\ \A m \in minted : m.id # i
           /\ artifacts' = artifacts \cup {[saver[c].row EXCEPT !.id = i, !.at = at]}
           /\ shelf' = mock_save([saver[c].row EXCEPT !.id = i, !.at = at], saver[c].mode)
           /\ minted' = minted \cup {[id |-> i, at |-> made]}
<1>1. PICK made \in saver[c].since..now : \E at \in made..now, i \in Fresh(made) :
        /\ artifacts' = artifacts \cup {[saver[c].row EXCEPT !.id = i, !.at = at]}
        /\ shelf' = mock_save([saver[c].row EXCEPT !.id = i, !.at = at], saver[c].mode)
        /\ minted' = minted \cup {[id |-> i, at |-> made]}
  BY DEF InsertArtifact
<1>2. saver[c].since \in Nat /\ now \in Nat
  BY DEF InsertArtifact, ArtifactsInv
<1>3. made \in Nat /\ \A at \in made..now : at \in Nat
  BY <1>2
<1>4. \A i \in Fresh(made) : i \in ArtifactIds /\ \A m \in minted : m.id # i
  BY DEF Fresh
<1>. QED  BY <1>1, <1>3, <1>4

(* A new row has an id that no other has. *)
LEMMA InsertArtifactInv ==
  ASSUME ArtifactsInv, NEW c \in Savers, InsertArtifact(c)
  PROVE  ArtifactsInv'
<1>. DEFINE s == saver[c]
<1>1. PICK i \in ArtifactIds, made, at \in Nat :
        /\ \A m \in minted : m.id # i
        /\ artifacts' = artifacts \cup {[s.row EXCEPT !.id = i, !.at = at]}
        /\ minted' = minted \cup {[id |-> i, at |-> made]}
  BY Inserted
<1>. DEFINE row == [s.row EXCEPT !.id = i, !.at = at]
<1>2. s.row \in Uploads
  BY DEF ArtifactsInv, InsertArtifact
<1>3. s.row \in [id : {0}, ctx : Contexts, name : Names, size : Nat, at : {0}]
  BY <1>2, ArtifactsAssumption DEF Names
<1>4. i \in ArtifactIds /\ at \in Nat
  BY <1>1
<1>. HIDE DEF s
<1>5. row \in Row /\ row.id = i
  BY <1>3, <1>4 DEF Row
<1>. HIDE DEF row
<1>6. artifacts' = artifacts \cup {row}
  BY <1>1 DEF row
<1>7. \A a \in artifacts : a.id # i
  BY <1>1 DEF ArtifactsInv
<1>8. IsFiniteSet(artifacts') /\ OneRowPerId(artifacts')
  <2>1. IsFiniteSet(artifacts \cup {row})
    BY FS_AddElement DEF ArtifactsInv
  <2>. QED  BY <1>5, <1>6, <1>7, <2>1 DEF ArtifactsInv, OneRowPerId
<1>9. \A a \in artifacts' : \E m \in minted' : m.id = a.id
  <2>1. [id |-> i, at |-> made] \in minted' /\ minted \subseteq minted'
    BY <1>1
  <2>2. \E m \in minted' : m.id = row.id
    BY <1>5, <2>1
  <2>3. \A a \in artifacts : \E m \in minted' : m.id = a.id
    BY <2>1 DEF ArtifactsInv
  <2>. QED  BY <1>6, <2>2, <2>3
<1>10. saver' = [saver EXCEPT ![c] = None] /\ now' = now
  BY DEF InsertArtifact
<1>. QED  BY <1>5, <1>6, <1>8, <1>9, <1>10 DEF ArtifactsInv

(* The first statement of a save takes rows away at most. *)
LEMMA BeginSaveInv ==
  ASSUME ArtifactsInv, NEW c \in Savers, NEW r \in Uploads, NEW mode, BeginSave(c, r, mode)
  PROVE  ArtifactsInv'
<1>1. artifacts' \subseteq artifacts /\ UNCHANGED <<now, minted>>
  BY DEF BeginSave
<1>2. IsFiniteSet(artifacts')
  BY <1>1, FS_Subset DEF ArtifactsInv
<1>3. \/ saver' = saver
      \/ saver' = [saver EXCEPT ![c] = [row |-> r, mode |-> mode, since |-> now]]
  BY DEF BeginSave
<1>4. /\ DOMAIN saver' = Savers
      /\ \A o \in Savers : saver'[o] # None => saver'[o].row \in Uploads /\ saver'[o].since \in Nat
  BY <1>3 DEF ArtifactsInv
<1>. QED  BY <1>1, <1>2, <1>4 DEF ArtifactsInv, OneRowPerId

(* A save that is given up leaves no row. *)
LEMMA AbandonSaveInv ==
  ASSUME ArtifactsInv, NEW c \in Savers, AbandonSave(c)
  PROVE  ArtifactsInv'
BY DEF ArtifactsInv, AbandonSave

(* A retention pass takes rows away. *)
LEMMA RetentionTakes ==
  ASSUME NEW p, run_retention(p)
  PROVE  artifacts' \subseteq artifacts
BY DEF run_retention, CapPass, KeepPass, AgePass

(* Every step leaves one row for an id. *)
LEMMA ArtifactsStep ==
  ASSUME ArtifactsInv, NextArtifacts
  PROVE  ArtifactsInv'
<1>0. now \in Nat
  BY DEF ArtifactsInv
<1>1. ASSUME NEW i, DeleteArtifact(i)
      PROVE  ArtifactsInv'
  BY <1>0, <1>1, RowsTaken DEF DeleteArtifact
<1>2. CASE Tick
  BY <1>0, <1>2, RowsTaken DEF Tick
<1>3. ASSUME NEW p, run_retention(p)
      PROVE  ArtifactsInv'
  <2>1. now' \in Nat /\ UNCHANGED <<saver, minted>>
    BY <1>0, <1>3 DEF run_retention
  <2>. QED  BY <1>3, <2>1, RowsTaken, RetentionTakes
<1>4. ASSUME ReadPage \/ \E x \in Contexts, size \in PageSizes : StartReading(x, size)
      PROVE  ArtifactsInv'
  BY <1>0, <1>4, RowsTaken DEF ReadPage, StartReading
<1>. QED  BY <1>1, <1>2, <1>3, <1>4, BeginSaveInv, InsertArtifactInv, AbandonSaveInv
     DEF NextArtifacts

(* There are no artifacts in the beginning. *)
LEMMA InitArtifactsInv == InitArtifacts => ArtifactsInv
BY FS_EmptySet, ArtifactsAssumption DEF InitArtifacts, ArtifactsInv, OneRowPerId

(* What was saved stays saved, as the clients were told (save_plan of the  *)
(* repository), and a key or an id stands for one row.                     *)
THEOREM SavedStaysStored == SpecArchive => []SavedMeansStored
<1>. DEFINE Inv == RepositoryInv /\ ArtifactsInv
<1>1. InitArchive => Inv
  BY InitRepositoryInv, InitArtifactsInv DEF InitArchive
<1>2. Inv /\ [NextArchive]_<<repo, store, journals>> => Inv'
  <2>. SUFFICES ASSUME Inv, [NextArchive]_<<repo, store, journals>> PROVE Inv'
    OBVIOUS
  <2>1. UNCHANGED repo => RepositoryInv'
    BY DEF repo, RepositoryInv
  <2>2. UNCHANGED store => ArtifactsInv'
    BY DEF store, ArtifactsInv
  <2>. QED  BY <2>1, <2>2, RepositoryStep, ArtifactsStep DEF NextArchive
<1>3. Inv => SavedMeansStored
  BY DEF RepositoryInv, ArtifactsInv, SoundRows, OneRowPerKey, OneRowPerId, SavedMeansStored
<1>. QED  BY <1>1, <1>2, <1>3, PTL DEF SpecArchive

------------------------------------------------------------------------------
(***************************************************************************)
(* Retention.  A later second has the later texts; among rows of their own *)
(* instants and ids one is always the oldest, and whatever it is newer     *)
(* than it comes after in every pass.                                      *)
(***************************************************************************)
(* A number is its quotient times the divisor, and a rest. *)
LEMMA Quotient ==
  ASSUME NEW t \in Int, NEW w \in Nat \ {0}
  PROVE  /\ t \div w \in Int /\ t % w \in 0..w-1
         /\ t = w * (t \div w) + (t % w)
OBVIOUS

(* Multiples of a number are at least that number apart. *)
LEMMA Multiples ==
  ASSUME NEW w \in Nat \ {0}, NEW j \in Int, NEW k \in Int, j < k
  PROVE  w * j + w <= w * k
<1>1. PICK d \in Nat : k = j + 1 + d
  <2>1. k - j - 1 \in Nat /\ k = j + 1 + (k - j - 1)
    OBVIOUS
  <2>. QED BY <2>1
<1>2. w * k = w * j + w + w * d /\ w * d >= 0
  BY <1>1
<1>. QED  BY <1>2

(* A number is between the multiples below and above it. *)
LEMMA Between ==
  ASSUME NEW t \in Int, NEW w \in Nat \ {0}
  PROVE  w * (t \div w) <= t /\ t < w * (t \div w) + w
<1>. DEFINE q == w * (t \div w)
            r == t % w
<1>1. q \in Int /\ r \in 0..w-1 /\ t = q + r
  BY Quotient
<1>. HIDE DEF q, r
<1>2. q <= t /\ t < q + w
  BY <1>1
<1>. QED  BY <1>2 DEF q

(* An instant is in its second. *)
LEMMA Seconds ==
  ASSUME NEW t \in Int
  PROVE  /\ Second(t) \in Int /\ Base * Base \in Nat \ {0}
         /\ (Base * Base) * Second(t) <= t /\ t < (Base * Base) * Second(t) + Base * Base
<1>1. Base * Base \in Nat \ {0}
  BY BaseAssumption
<1>. DEFINE w == Base * Base
<1>. HIDE DEF w
<1>2. w \in Nat \ {0}
  BY <1>1 DEF w
<1>. QED  BY <1>1, <1>2, Quotient, Between DEF w, Second

(* Three digits. *)
LEMMA Digits ==
  ASSUME NEW s \in Int, NEW n \in Int, NEW h \in Int, NEW l \in Int
  PROVE  (s * n + h) * n + l = (n * n) * s + (h * n + l)
<1>1. (s * n + h) * n = (s * n) * n + h * n
  OBVIOUS
<1>2. (s * n) * n = (n * n) * s
  OBVIOUS
<1>3. (n * n) * s \in Int /\ h * n \in Int
  OBVIOUS
<1>. QED  BY <1>1, <1>2, <1>3

(* The texts of two instants in different seconds are in the order of the *)
(* seconds, whatever their fractions are. *)
LEMMA RankOrder ==
  ASSUME NEW a \in Int, NEW b \in Int
  PROVE  /\ Rank(a) \in Int
         /\ a \in Nat => Rank(a) \in Nat
         /\ Second(a) < Second(b) => Rank(a) < Rank(b)
<1>. DEFINE n == Base + 1
<1>0. Base \in Nat \ {0, 1} /\ n \in Nat \ {0} /\ n * n \in Nat \ {0}
  BY BaseAssumption
<1>1. ASSUME NEW t \in Int
      PROVE  \E k \in 0..(n * n - 1) : Rank(t) = (n * n) * Second(t) + k
  <2>. DEFINE f    == t % (Base * Base)
              high == IF f = 0 THEN Base ELSE f \div Base
              low  == IF f % Base = 0 THEN Base ELSE f % Base
  <2>1. f \in 0..Base * Base - 1
    BY <1>0, Quotient, Seconds
  <2>. HIDE DEF f
  <2>2. f \div Base \in 0..Base
    <3>. DEFINE q == f \div Base
    <3>2. q \in Int /\ Base * q <= f /\ f < Base * q + Base
      BY <1>0, <2>1, Quotient, Between
    <3>. HIDE DEF q
    <3>3. ~(Base < q)
      <4>. SUFFICES ASSUME Base < q PROVE FALSE
        OBVIOUS
      <4>1. Base * Base + Base <= Base * q
        BY <1>0, <3>2, Multiples
      <4>. QED  BY <1>0, <2>1, <3>2, <4>1
    <3>4. ~(q < 0)
      <4>. SUFFICES ASSUME q < 0 PROVE FALSE
        OBVIOUS
      <4>1. Base * q + Base <= Base * 0
        BY <1>0, <3>2, Multiples
      <4>. QED  BY <1>0, <2>1, <3>2, <4>1
    <3>. QED  BY <1>0, <3>2, <3>3, <3>4 DEF q
  <2>3. high \in 0..Base
    BY <1>0, <2>2
  <2>4. low \in 0..Base
    BY <1>0, <2>1, Quotient
  <2>5. Rank(t) = (Second(t) * n + high) * n + low
    BY DEF Rank, f
  <2>6. Second(t) \in Int
    BY Seconds
  <2>. HIDE DEF high, low
  <2>7. high * n + low \in 0..(n * n - 1)
    <3>1. high * n + low = high * Base + high + low
      BY <1>0, <2>3, <2>4
    <3>2. high * Base <= Base * Base /\ high * Base \in Nat
      <4>1. PICK d \in Nat : Base = high + d
        <5>1. Base - high \in Nat /\ Base = high + (Base - high)
          BY <1>0, <2>3
        <5>. QED  BY <5>1
      <4>. QED  BY <1>0, <2>3, <4>1
    <3>. QED  BY <1>0, <2>3, <2>4, <3>1, <3>2
  <2>8. (Second(t) * n + high) * n + low = (n * n) * Second(t) + (high * n + low)
    <3>1. Second(t) \in Int /\ n \in Int /\ high \in Int /\ low \in Int
      BY <1>0, <2>3, <2>4, <2>6
    <3>. HIDE DEF n
    <3>. QED  BY <3>1, Digits
  <2>. QED  BY <2>5, <2>7, <2>8
<1>2. PICK j \in 0..(n * n - 1) : Rank(a) = (n * n) * Second(a) + j
  BY <1>1
<1>3. PICK k \in 0..(n * n - 1) : Rank(b) = (n * n) * Second(b) + k
  BY <1>1
<1>4. Second(a) \in Int /\ Second(b) \in Int
  BY Seconds
<1>. DEFINE w == n * n
<1>5. w \in Nat \ {0} /\ j \in 0..w - 1 /\ k \in 0..w - 1
  BY <1>0
<1>6. Rank(a) = w * Second(a) + j /\ Rank(b) = w * Second(b) + k
  BY <1>2, <1>3
<1>. HIDE DEF n, w
<1>7. Rank(a) \in Int
  BY <1>4, <1>5, <1>6
<1>8. a \in Nat => Rank(a) \in Nat
  <2>. SUFFICES ASSUME a \in Nat PROVE Rank(a) \in Nat
    OBVIOUS
  <2>1. ~(Second(a) < 0)
    <3>. SUFFICES ASSUME Second(a) < 0 PROVE FALSE
      OBVIOUS
    <3>1. (Base * Base) * Second(a) + Base * Base <= (Base * Base) * 0
      BY <1>4, Seconds, Multiples
    <3>. QED  BY <1>4, <3>1, Seconds
  <2>2. w * Second(a) \in Nat
    BY <1>4, <1>5, <2>1
  <2>. QED  BY <1>5, <1>6, <2>2
<1>9. ASSUME Second(a) < Second(b)
      PROVE  Rank(a) < Rank(b)
  <2>. DEFINE x == w * Second(a)
              y == w * Second(b)
  <2>1. x + w <= y
    BY <1>4, <1>5, <1>9, Multiples
  <2>2. x \in Int /\ y \in Int /\ Rank(a) = x + j /\ Rank(b) = y + k
    BY <1>4, <1>5, <1>6
  <2>. HIDE DEF x, y
  <2>. QED  BY <1>5, <2>1, <2>2
<1>. QED  BY <1>7, <1>8, <1>9

(* Rows are in a strict order, that of seconds where these differ.         *)
LEMMA OlderOrders ==
  ASSUME NEW rows \in SUBSET Row, OneRowPerId(rows)
  PROVE  /\ \A a, b \in rows : Older(a, b) => ~Older(b, a)
         /\ \A a, b, c \in rows : Older(a, b) /\ Older(b, c) => Older(a, c)
         /\ \A a, b \in rows : a = b \/ Older(a, b) \/ Older(b, a)
         /\ \A a, b \in rows : Second(a.at) < Second(b.at) => Older(a, b)
<1>1. \A a \in rows : Rank(a.at) \in Nat /\ a.id \in Nat
  BY RankOrder, ArtifactsAssumption DEF Row
<1>2. \A a, b \in rows : Second(a.at) < Second(b.at) => Rank(a.at) < Rank(b.at)
  BY RankOrder DEF Row
<1>. QED  BY <1>1, <1>2 DEF Older, OneRowPerId

(* Of some rows one is older than all others. *)
LEMMA OldestRow ==
  ASSUME NEW rows \in SUBSET Row, OneRowPerId(rows), NEW K, K \subseteq rows, K # {}
  PROVE  \E r \in K : \A o \in K : ~Older(o, r)
<1>1. \A a \in K : Rank(a.at) \in Nat /\ a.id \in Nat
  BY RankOrder, ArtifactsAssumption DEF Row
<1>. DEFINE ranks == {Rank(a.at) : a \in K}
            least == Min(ranks)
<1>2. least \in ranks /\ \A n \in ranks : least <= n
  <2>1. ranks \in SUBSET Nat /\ ranks # {}
    BY <1>1
  <2>. HIDE DEF ranks
  <2>. QED  BY <2>1, LeastOf
<1>. HIDE DEF least
<1>. DEFINE first == {a \in K : Rank(a.at) = least}
            ids   == {a.id : a \in first}
            id    == Min(ids)
<1>3. id \in ids /\ \A n \in ids : id <= n
  <2>1. ids \in SUBSET Nat /\ ids # {}
    BY <1>1, <1>2
  <2>. HIDE DEF ids
  <2>. QED  BY <2>1, LeastOf
<1>. HIDE DEF id
<1>4. PICK r \in first : r.id = id
  BY <1>3
<1>5. \A o \in K : least <= Rank(o.at) /\ (Rank(o.at) = least => id <= o.id)
  BY <1>2, <1>3
<1>6. \A o \in K : ~Older(o, r)
  BY <1>1, <1>4, <1>5 DEF Older
<1>. QED  BY <1>4, <1>6

Sizes(rows) == [r \in rows |-> r.size]

(* The bytes of some rows are the sum of their sizes. *)
LEMMA BytesIsTotal ==
  ASSUME NEW S \in SUBSET Row, IsFiniteSet(S), NEW R, R \subseteq S
  PROVE  Bytes(R) = Total(Sizes(S), R)
<1>. DEFINE w == Sizes(S)
            P(g) == g = [T \in SUBSET R |->
                           IF T = {} THEN 0 ELSE Picked(T).size + g[T \ {Picked(T)}]]
<1>0. IsFiniteSet(R)
  BY FS_Subset
<1>1. \A x \in R : w[x] \in Nat
  BY DEF Sizes, Row
<1>2. Bytes(R) = (CHOOSE g : P(g))[R]
  BY DEF Bytes, MapThenSumSet, MapThenFoldSet, Picked
<1>3. ASSUME NEW g PROVE P(g) <=> Recurs(g, w, R)
  <2>1. \A T \in SUBSET R : T # {} => w[Picked(T)] = Picked(T).size
    BY PickedIn DEF Sizes
  <2>. HIDE DEF w
  <2>2. [T \in SUBSET R |-> IF T = {} THEN 0 ELSE Picked(T).size + g[T \ {Picked(T)}]]
      = [T \in SUBSET R |-> IF T = {} THEN 0 ELSE w[Picked(T)] + g[T \ {Picked(T)}]]
    BY <2>1
  <2>. QED  BY <2>2 DEF Recurs
<1>. HIDE DEF w, P
<1>4. \E g : P(g)
  BY <1>0, <1>1, <1>3, RecursExists
<1>5. PICK g : g = (CHOOSE h : P(h)) /\ P(g)
  BY <1>4
<1>6. Recurs(g, w, R)
  BY <1>3, <1>5
<1>7. g[R] = Total(w, R)
  BY <1>0, <1>1, <1>6, RecursIsTotal
<1>. QED  BY <1>2, <1>5, <1>7 DEF w

(* Fewer rows are not more bytes. *)
LEMMA BytesOfPart ==
  ASSUME NEW rows \in SUBSET Row, IsFiniteSet(rows), NEW S, S \subseteq rows, NEW R, R \subseteq S
  PROVE  Bytes(R) \in Nat /\ Bytes(S) \in Nat /\ Bytes(R) <= Bytes(S) /\ Bytes({}) = 0
<1>1. IsFiniteSet(S) /\ IsFiniteSet(R) /\ S \in SUBSET Row /\ IsFiniteSet({})
  BY FS_Subset, FS_EmptySet
<1>2. \A x \in S : Sizes(S)[x] \in Nat
  BY DEF Sizes, Row
<1>3. /\ Bytes(R) = Total(Sizes(S), R) /\ Bytes(S) = Total(Sizes(S), S)
      /\ Bytes({}) = Total(Sizes(S), {})
  BY <1>1, BytesIsTotal
<1>4. Total(Sizes(S), R) \in Nat /\ Total(Sizes(S), S) \in Nat /\ Total(Sizes(S), {}) = 0
  <2>1. \A x \in R : Sizes(S)[x] \in Nat
    BY <1>2
  <2>. QED  BY <1>1, <1>2, <2>1, TotalUnfolds
<1>. QED  BY <1>1, <1>2, <1>3, <1>4, TotalOfPart

Within(limit) == limit \in Nat \cup {None}

(* The pass by age leaves what is not a second older than the limit says   *)
(* and drops what is not a second younger; what it drops is of no later    *)
(* second than what it leaves.                                             *)
LEMMA AgePassDrops ==
  ASSUME NEW rows \in SUBSET Row, now \in Nat, NEW age, Within(age), age # None
  PROVE  /\ \A r \in AgePass(rows, age) : now - r.at < age * Base * Base + Base * Base
         /\ \A d \in rows \ AgePass(rows, age) :
              now - d.at > age * Base * Base - Base * Base
         /\ \A d \in rows \ AgePass(rows, age), k \in AgePass(rows, age) :
              Second(d.at) <= Second(k.at)
<1>. DEFINE w == Base * Base
            k == Second(now) - age
<1>1. age \in Nat /\ Second(now) \in Int /\ w \in Nat \ {0} /\ Base \in Nat
  BY Seconds, BaseAssumption DEF Within
<1>2. Cutoff(age) = w * k
  BY <1>1 DEF Cutoff, Whole
<1>3. age * Base * Base = w * age /\ w * k = w * Second(now) - w * age /\ w * age \in Nat
  BY <1>1
<1>4. k \in Int /\ w * k \in Int
  BY <1>1
<1>. DEFINE n == w * Second(now)
            l == w * age
<1>5. n \in Int /\ l \in Nat /\ w * k = n - l /\ age * Base * Base = l
  BY <1>1, <1>3
<1>6. n <= now /\ now < n + w
  BY Seconds
<1>7. Second(w * k) = k
  <2>. DEFINE q == Second(w * k)
  <2>1. q \in Int /\ w * q <= w * k /\ w * k < w * q + w
    BY <1>4, Seconds
  <2>. HIDE DEF q, w, k
  <2>2. ~(q < k)
    BY <1>1, <1>4, <2>1, Multiples
  <2>3. ~(k < q)
    <3>. SUFFICES ASSUME k < q PROVE FALSE
      OBVIOUS
    <3>1. w * k + w <= w * q
      BY <1>1, <1>4, <2>1, Multiples
    <3>2. w * q \in Int
      BY <1>1, <2>1
    <3>. QED  BY <1>1, <1>4, <2>1, <3>1, <3>2
  <2>4. q = k
    BY <1>4, <2>1, <2>2, <2>3
  <2>. QED  BY <2>4 DEF q
<1>. HIDE DEF w, k, n, l
<1>8. \A r \in rows : r.at \in Nat /\ Second(r.at) \in Int
  BY Seconds DEF Row
<1>9. ASSUME NEW r \in rows, Rank(r.at) >= Rank(Cutoff(age))
      PROVE  Second(r.at) >= k /\ now - r.at < l + w
  <2>1. Rank(r.at) \in Int /\ Rank(w * k) \in Int
    BY <1>4, <1>8, RankOrder
  <2>2. Second(r.at) >= k
    <3>1. Second(r.at) < k => Rank(r.at) < Rank(w * k)
      BY <1>4, <1>7, <1>8, RankOrder
    <3>. QED  BY <1>2, <1>4, <1>8, <1>9, <2>1, <3>1
  <2>3. w * Second(r.at) <= r.at
    BY <1>8, Seconds DEF w
  <2>4. w * k <= w * Second(r.at) /\ w * Second(r.at) \in Int
    BY <1>1, <1>4, <1>8, <2>2, Multiples
  <2>5. n - l <= r.at
    <3>. DEFINE x == w * Second(r.at)
    <3>1. x \in Int /\ n - l <= x /\ x <= r.at
      BY <1>5, <2>3, <2>4
    <3>. HIDE DEF x
    <3>. QED  BY <1>5, <1>8, <3>1
  <2>. QED  BY <1>1, <1>5, <1>6, <1>8, <2>2, <2>5
<1>10. ASSUME NEW r \in rows, ~(Rank(r.at) >= Rank(Cutoff(age)))
       PROVE  Second(r.at) <= k /\ now - r.at > l - w
  <2>1. Rank(r.at) \in Int /\ Rank(w * k) \in Int
    BY <1>4, <1>8, RankOrder
  <2>2. Second(r.at) <= k
    <3>1. k < Second(r.at) => Rank(w * k) < Rank(r.at)
      BY <1>4, <1>7, <1>8, RankOrder
    <3>. QED  BY <1>2, <1>4, <1>8, <1>10, <2>1, <3>1
  <2>3. r.at < w * Second(r.at) + w
    BY <1>8, Seconds DEF w
  <2>4. w * Second(r.at) <= w * k /\ w * Second(r.at) \in Int
    BY <1>1, <1>4, <1>8, <2>2, Multiples
  <2>5. r.at < n - l + w
    <3>. DEFINE x == w * Second(r.at)
    <3>1. x \in Int /\ x <= n - l /\ r.at < x + w
      BY <1>5, <2>3, <2>4
    <3>. HIDE DEF x
    <3>. QED  BY <1>1, <1>5, <1>8, <3>1
  <2>. QED  BY <1>1, <1>5, <1>6, <1>8, <2>2, <2>5
<1>11. \A r \in rows : r \in AgePass(rows, age) <=> Rank(r.at) >= Rank(Cutoff(age))
  BY DEF AgePass, Within
<1>12. AgePass(rows, age) \subseteq rows /\ Base * Base = w
  BY DEF AgePass, w
<1>13. \A r \in AgePass(rows, age) : Second(r.at) >= k /\ now - r.at < l + w
  BY <1>9, <1>11, <1>12
<1>14. \A d \in rows \ AgePass(rows, age) : Second(d.at) <= k /\ now - d.at > l - w
  BY <1>10, <1>11
<1>15. \A d \in rows \ AgePass(rows, age), r \in AgePass(rows, age) : Second(d.at) <= Second(r.at)
  BY <1>4, <1>8, <1>12, <1>13, <1>14
<1>. QED  BY <1>5, <1>12, <1>13, <1>14, <1>15

(* The pass by number leaves at most that number in a context, and drops   *)
(* what has that many before it.                                           *)
LEMMA KeepPassDrops ==
  ASSUME NEW rows \in SUBSET Row, IsFiniteSet(rows), OneRowPerId(rows),
         NEW keep, Within(keep), keep # None
  PROVE  /\ \A x : Cardinality(InContext(KeepPass(rows, keep), x)) <= keep
         /\ \A d \in rows \ KeepPass(rows, keep) :
              /\ Cardinality(Newer(rows, d)) >= keep
              /\ \A k \in InContext(KeepPass(rows, keep), d.ctx) : Second(d.at) <= Second(k.at)
<1>. DEFINE kept == KeepPass(rows, keep)
<1>0. keep \in Nat /\ kept = {r \in rows : Cardinality(Newer(rows, r)) < keep}
  BY DEF KeepPass, Within
<1>. HIDE DEF kept
<1>1. \A r \in rows : Newer(rows, r) \subseteq rows /\ IsFiniteSet(Newer(rows, r))
                      /\ Cardinality(Newer(rows, r)) \in Nat
  <2>1. \A r : Newer(rows, r) \subseteq rows
    BY DEF Newer, InContext
  <2>. QED  BY <2>1, FS_Subset, FS_CardinalityType
<1>2. ASSUME NEW x
      PROVE  Cardinality(InContext(kept, x)) <= keep
  <2>. DEFINE K == InContext(kept, x)
  <2>1. K \subseteq rows /\ \A o \in K : o.ctx = x /\ o \in kept
    BY <1>0 DEF InContext
  <2>. HIDE DEF K
  <2>2. IsFiniteSet(K)
    BY <2>1, FS_Subset
  <2>3. CASE K = {}
    <3>1. Cardinality(K) = 0
      BY <2>3, FS_EmptySet
    <3>. QED  BY <1>0, <3>1 DEF K
  <2>4. CASE K # {}
    <3>1. PICK r \in K : \A o \in K : ~Older(o, r)
      BY <2>1, <2>4, OldestRow
    <3>2. K \ {r} \subseteq Newer(rows, r)
      BY <2>1, <3>1, OlderOrders DEF Newer, InContext
    <3>3. Cardinality(K \ {r}) <= Cardinality(Newer(rows, r))
      BY <1>1, <2>1, <3>2, FS_Subset
    <3>4. Cardinality(K) \in Nat /\ Cardinality(K \ {r}) = Cardinality(K) - 1
      BY <2>2, FS_RemoveElement, FS_CardinalityType
    <3>5. Cardinality(Newer(rows, r)) < keep
      BY <1>0, <2>1
    <3>6. Cardinality(Newer(rows, r)) \in Nat
      BY <1>1, <2>1
    <3>. QED  BY <1>0, <3>3, <3>4, <3>5, <3>6 DEF K
  <2>. QED  BY <2>3, <2>4
<1>3. ASSUME NEW d \in rows \ kept
      PROVE  Cardinality(Newer(rows, d)) >= keep
  BY <1>0, <1>1
<1>4. ASSUME NEW d \in rows \ kept, NEW k \in InContext(kept, d.ctx)
      PROVE  Second(d.at) <= Second(k.at)
  <2>1. k \in rows /\ k.ctx = d.ctx /\ Cardinality(Newer(rows, k)) < keep
    BY <1>0 DEF InContext
  <2>2. Second(d.at) \in Int /\ Second(k.at) \in Int
    BY <2>1, Seconds DEF Row
  <2>3. ASSUME Older(k, d) PROVE FALSE
    <3>1. Newer(rows, d) \subseteq Newer(rows, k)
      BY <2>1, <2>3, OlderOrders DEF Newer, InContext
    <3>2. Cardinality(Newer(rows, d)) <= Cardinality(Newer(rows, k))
      BY <1>1, <2>1, <3>1, FS_Subset
    <3>. QED  BY <1>0, <1>1, <1>3, <2>1, <3>2
  <2>4. ~(Second(k.at) < Second(d.at))
    BY <2>1, <2>3, OlderOrders
  <2>. QED  BY <2>2, <2>4
<1>. QED  BY <1>2, <1>3, <1>4 DEF kept

(* The pass by size leaves no more bytes in a context than the cap, and    *)
(* drops what makes up more than that with what is newer.                  *)
LEMMA CapPassDrops ==
  ASSUME NEW rows \in SUBSET Row, IsFiniteSet(rows), OneRowPerId(rows),
         NEW cap, Within(cap), cap # None
  PROVE  /\ \A x : Bytes(InContext(CapPass(rows, cap), x)) <= cap
         /\ \A d \in rows \ CapPass(rows, cap) :
              /\ Bytes(Newer(rows, d) \cup {d}) > cap
              /\ \A k \in InContext(CapPass(rows, cap), d.ctx) : Second(d.at) <= Second(k.at)
<1>. DEFINE UpTo(r) == {o \in InContext(rows, r.ctx) : ~Older(o, r)}
            kept    == CapPass(rows, cap)
<1>0. cap \in Nat /\ kept = {r \in rows : Bytes(UpTo(r)) <= cap}
  BY DEF CapPass, Within
<1>. HIDE DEF kept
<1>1. \A r : UpTo(r) \subseteq rows
  BY DEF InContext
<1>2. \A r \in rows : UpTo(r) = Newer(rows, r) \cup {r}
  BY OlderOrders DEF Newer, InContext
<1>3. \A r : Bytes(UpTo(r)) \in Nat
  BY <1>1, BytesOfPart
<1>4. ASSUME NEW x
      PROVE  Bytes(InContext(kept, x)) <= cap
  <2>. DEFINE K == InContext(kept, x)
  <2>1. K \subseteq rows /\ \A o \in K : o.ctx = x /\ o \in kept
    BY <1>0 DEF InContext
  <2>. HIDE DEF K
  <2>2. CASE K = {}
    <3>1. Bytes(K) = 0
      BY <2>1, <2>2, BytesOfPart
    <3>. QED  BY <1>0, <3>1 DEF K
  <2>3. CASE K # {}
    <3>1. PICK r \in K : \A o \in K : ~Older(o, r)
      BY <2>1, <2>3, OldestRow
    <3>2. K \subseteq UpTo(r)
      BY <2>1, <3>1 DEF InContext
    <3>3. Bytes(K) <= Bytes(UpTo(r)) /\ Bytes(K) \in Nat
      <4>. DEFINE U == UpTo(r)
      <4>1. K \subseteq U /\ U \subseteq rows
        BY <1>1, <3>2
      <4>. HIDE DEF U
      <4>2. Bytes(K) <= Bytes(U) /\ Bytes(K) \in Nat
        BY <4>1, BytesOfPart
      <4>. QED  BY <4>2 DEF U
    <3>4. Bytes(UpTo(r)) <= cap /\ Bytes(UpTo(r)) \in Nat
      BY <1>0, <1>3, <2>1
    <3>. HIDE DEF UpTo
    <3>. QED  BY <1>0, <3>3, <3>4 DEF K
  <2>. QED  BY <2>2, <2>3
<1>5. ASSUME NEW d \in rows \ kept
      PROVE  Bytes(UpTo(d)) > cap
  <2>1. ~(Bytes(UpTo(d)) <= cap) /\ Bytes(UpTo(d)) \in Nat
    BY <1>0, <1>3
  <2>. HIDE DEF UpTo
  <2>. QED  BY <1>0, <2>1
<1>6. ASSUME NEW d \in rows \ kept, NEW k \in InContext(kept, d.ctx)
      PROVE  Second(d.at) <= Second(k.at)
  <2>1. k \in rows /\ k.ctx = d.ctx /\ Bytes(UpTo(k)) <= cap
    BY <1>0 DEF InContext
  <2>2. Second(d.at) \in Int /\ Second(k.at) \in Int
    BY <2>1, Seconds DEF Row
  <2>3. ASSUME Older(k, d) PROVE FALSE
    <3>1. UpTo(d) \subseteq UpTo(k)
      BY <2>1, <2>3, OlderOrders DEF InContext
    <3>. DEFINE U == UpTo(d)
                V == UpTo(k)
    <3>2. U \subseteq V /\ V \subseteq rows /\ Bytes(U) > cap /\ Bytes(V) <= cap
      BY <1>1, <1>5, <2>1, <3>1
    <3>. HIDE DEF U, V
    <3>. QED  BY <1>0, <3>2, BytesOfPart
  <2>4. ~(Second(k.at) < Second(d.at))
    BY <2>1, <2>3, OlderOrders
  <2>. QED  BY <2>2, <2>4
<1>7. \A d \in rows \ kept : Bytes(Newer(rows, d) \cup {d}) > cap
  BY <1>2, <1>5
<1>. QED  BY <1>4, <1>6, <1>7 DEF kept

(* The three passes one after the other. *)
LEMMA RetentionLeaves ==
  ASSUME ArtifactsInv, NEW p \in Policies, run_retention(p)
  PROVE  RetentionKeeps'
<1>. DEFINE before == artifacts
            fresh  == AgePass(before, p.age)
            kept   == KeepPass(fresh, p.keep)
            left   == CapPass(kept, p.cap)
<1>1. swept' = [before |-> before, after |-> left, policy |-> p, when |-> now]
  BY DEF run_retention
<1>2. Within(p.age) /\ Within(p.keep) /\ Within(p.cap)
  BY ArtifactsAssumption DEF Within
<1>3. /\ left \subseteq kept /\ kept \subseteq fresh /\ fresh \subseteq before
      /\ p.age = None => fresh = before
      /\ p.keep = None => kept = fresh
      /\ p.cap = None => left = kept
  BY DEF AgePass, KeepPass, CapPass
<1>4. now \in Nat /\ before \in SUBSET Row /\ IsFiniteSet(before) /\ OneRowPerId(before)
  BY DEF ArtifactsInv
<1>. HIDE DEF before
<1>5. /\ p.age # None => \A r \in fresh : now - r.at < p.age * Base * Base + Base * Base
      /\ \A d \in before \ fresh :
           /\ p.age # None /\ now - d.at > p.age * Base * Base - Base * Base
           /\ \A k \in fresh : Second(d.at) <= Second(k.at)
  BY <1>2, <1>3, <1>4, AgePassDrops
<1>. HIDE DEF fresh
<1>6. fresh \in SUBSET Row /\ IsFiniteSet(fresh) /\ OneRowPerId(fresh)
  BY <1>3, <1>4, FS_Subset DEF OneRowPerId
<1>7. /\ p.keep # None => \A x : Cardinality(InContext(kept, x)) <= p.keep
      /\ \A d \in fresh \ kept :
           /\ p.keep # None /\ Cardinality(Newer(fresh, d)) >= p.keep
           /\ \A k \in InContext(kept, d.ctx) : Second(d.at) <= Second(k.at)
  BY <1>2, <1>3, <1>6, KeepPassDrops
<1>. HIDE DEF kept
<1>8. kept \in SUBSET Row /\ IsFiniteSet(kept) /\ OneRowPerId(kept)
  BY <1>3, <1>6, FS_Subset DEF OneRowPerId
<1>9. /\ p.cap # None => \A x : Bytes(InContext(left, x)) <= p.cap
      /\ \A d \in kept \ left :
           /\ p.cap # None /\ Bytes(Newer(kept, d) \cup {d}) > p.cap
           /\ \A k \in InContext(left, d.ctx) : Second(d.at) <= Second(k.at)
  BY <1>2, <1>3, <1>8, CapPassDrops
<1>. HIDE DEF left
<1>10. p.keep # None => \A x : Cardinality(InContext(left, x)) <= p.keep
  <2>. SUFFICES ASSUME p.keep # None, NEW x PROVE Cardinality(InContext(left, x)) <= p.keep
    OBVIOUS
  <2>1. InContext(left, x) \subseteq InContext(kept, x) /\ InContext(kept, x) \subseteq kept
    BY <1>3 DEF InContext
  <2>2. IsFiniteSet(InContext(kept, x)) /\ IsFiniteSet(InContext(left, x))
    BY <1>8, <2>1, FS_Subset
  <2>3. Cardinality(InContext(left, x)) <= Cardinality(InContext(kept, x))
    BY <2>1, <2>2, FS_Subset
  <2>. QED  BY <1>2, <1>7, <2>2, <2>3, FS_CardinalityType DEF Within
<1>11. \A rows, all, r : rows \subseteq all => Newer(rows, r) \subseteq Newer(all, r)
  BY DEF Newer, InContext
<1>12. ASSUME NEW d \in fresh \ kept PROVE Cardinality(Newer(before, d)) >= p.keep
  <2>1. Newer(fresh, d) \subseteq Newer(before, d) /\ Newer(before, d) \subseteq before
    BY <1>3 DEF Newer, InContext
  <2>2. IsFiniteSet(Newer(before, d)) /\ IsFiniteSet(Newer(fresh, d))
    BY <1>4, <2>1, FS_Subset
  <2>3. Cardinality(Newer(fresh, d)) <= Cardinality(Newer(before, d))
    BY <2>1, <2>2, FS_Subset
  <2>. QED  BY <1>2, <1>7, <2>2, <2>3, FS_CardinalityType DEF Within
<1>13. ASSUME NEW d \in kept \ left PROVE Bytes(Newer(before, d) \cup {d}) > p.cap
  <2>. DEFINE U == Newer(kept, d) \cup {d}
              V == Newer(before, d) \cup {d}
  <2>1. U \subseteq V /\ V \subseteq before
    BY <1>3 DEF Newer, InContext
  <2>2. Bytes(U) > p.cap /\ p.cap # None
    BY <1>9
  <2>. HIDE DEF U, V
  <2>3. Bytes(U) \in Nat /\ Bytes(V) \in Nat /\ Bytes(U) <= Bytes(V)
    BY <1>4, <2>1, BytesOfPart
  <2>. QED  BY <1>2, <2>2, <2>3 DEF V, Within
<1>14. ASSUME NEW d \in before \ left
       PROVE  /\ \/ p.age # None /\ now - d.at > p.age * Base * Base - Base * Base
                 \/ p.keep # None /\ Cardinality(Newer(before, d)) >= p.keep
                 \/ p.cap # None /\ Bytes(Newer(before, d) \cup {d}) > p.cap
              /\ \A k \in InContext(left, d.ctx) : Second(d.at) <= Second(k.at)
  <2>0. /\ InContext(left, d.ctx) \subseteq fresh
        /\ InContext(left, d.ctx) \subseteq InContext(kept, d.ctx)
    BY <1>3 DEF InContext
  <2>1. CASE d \notin fresh
    BY <1>5, <2>0, <2>1
  <2>2. CASE d \in fresh \ kept
    BY <1>7, <1>12, <2>0, <2>2
  <2>3. CASE d \in kept
    BY <1>9, <1>13, <2>3
  <2>. QED  BY <2>1, <2>2, <2>3
<1>15. p.age # None => \A r \in left : now - r.at < p.age * Base * Base + Base * Base
  BY <1>3, <1>5
<1>. QED  BY <1>1, <1>3, <1>9, <1>10, <1>14, <1>15 DEF RetentionKeeps

(* A retention pass leaves what its policy allows and drops only what a    *)
(* limit of it says, the oldest first.                                     *)
THEOREM RetentionIsSound == SpecArchive => []RetentionKeeps
<1>. DEFINE Inv == ArtifactsInv /\ RetentionKeeps
<1>1. InitArchive => Inv
  BY InitArtifactsInv DEF InitArchive, InitArtifacts, RetentionKeeps
<1>2. Inv /\ [NextArchive]_<<repo, store, journals>> => Inv'
  <2>. SUFFICES ASSUME Inv, [NextArchive]_<<repo, store, journals>> PROVE Inv'
    OBVIOUS
  <2>1. UNCHANGED store => Inv'
    BY DEF store, ArtifactsInv, RetentionKeeps
  <2>2. NextArtifacts => RetentionKeeps'
    <3>1. swept' = None => RetentionKeeps'
      BY DEF RetentionKeeps
    <3>2. NextArtifacts => swept' = None \/ swept' = swept \/ \E p \in Policies : run_retention(p)
      BY DEF NextArtifacts, BeginSave, InsertArtifact, AbandonSave, DeleteArtifact, Tick,
             StartReading, ReadPage
    <3>3. swept' = swept => RetentionKeeps'
      BY DEF RetentionKeeps
    <3>. QED  BY <3>1, <3>2, <3>3, RetentionLeaves
  <2>. QED  BY <2>1, <2>2, ArtifactsStep DEF NextArchive
<1>. QED  BY <1>1, <1>2, PTL DEF SpecArchive

------------------------------------------------------------------------------
(***************************************************************************)
(* Following a listing.  Every table is listed in a strict order of the    *)
(* rows it can have, and where a cursor stands its rows are told apart.    *)
(***************************************************************************)
LEMMA IdsOrder ==
  ASSUME NEW S, \A r \in S : r.id \in Nat
  PROVE  /\ Strict(Pairs(S, ById), S)
         /\ \A rows \in SUBSET S : (\A a, b \in rows : a.id = b.id => a = b)
              => Comparable(Pairs(S, ById), rows)
         /\ \A part \in SUBSET S : \A a, b \in part :
              <<a, b>> \in Pairs(part, ById) <=> <<a, b>> \in Pairs(S, ById)
         /\ \A a, b \in S : <<a, b>> \in Pairs(S, ById) <=> ById(a, b)
<1>. DEFINE R == Pairs(S, ById)
<1>1. \A part \in SUBSET S : \A a, b \in part : <<a, b>> \in Pairs(part, ById) <=> ById(a, b)
  BY DEF Pairs
<1>2. \A a, b \in S : <<a, b>> \in R <=> ById(a, b)
  BY <1>1
<1>. HIDE DEF R
<1>3. Strict(R, S)
  <2>1. \A a \in S : ~ById(a, a)
    BY DEF ById
  <2>2. \A a, b, c \in S : ById(a, b) /\ ById(b, c) => ById(a, c)
    BY DEF ById
  <2>. QED  BY <1>2, <2>1, <2>2 DEF Strict
<1>4. ASSUME NEW rows \in SUBSET S, \A a, b \in rows : a.id = b.id => a = b
      PROVE  Comparable(R, rows)
  <2>1. \A a, b \in rows : a = b \/ ById(a, b) \/ ById(b, a)
    BY <1>4 DEF ById
  <2>. QED  BY <1>2, <2>1 DEF Comparable
<1>. QED  BY <1>1, <1>2, <1>3, <1>4 DEF R

LEMMA NewestOrder ==
  ASSUME NEW S, \A r \in S : r.id \in Nat /\ r.at \in Nat
  PROVE  /\ Strict(Pairs(S, NewestFirst), S)
         /\ \A rows \in SUBSET S : (\A a, b \in rows : a.id = b.id => a = b)
              => Comparable(Pairs(S, NewestFirst), rows)
         /\ \A part \in SUBSET S : \A a, b \in part :
              <<a, b>> \in Pairs(part, NewestFirst) <=> <<a, b>> \in Pairs(S, NewestFirst)
         /\ \A a, b \in S : <<a, b>> \in Pairs(S, NewestFirst) <=> NewestFirst(a, b)
<1>. DEFINE R == Pairs(S, NewestFirst)
<1>0. \A r \in S : Rank(r.at) \in Int
  BY RankOrder
<1>1. \A part \in SUBSET S : \A a, b \in part :
        <<a, b>> \in Pairs(part, NewestFirst) <=> NewestFirst(a, b)
  BY DEF Pairs
<1>2. \A a, b \in S : <<a, b>> \in R <=> NewestFirst(a, b)
  BY <1>1
<1>. HIDE DEF R
<1>3. Strict(R, S)
  <2>1. \A a \in S : ~NewestFirst(a, a)
    BY <1>0 DEF NewestFirst
  <2>2. \A a, b, c \in S : NewestFirst(a, b) /\ NewestFirst(b, c) => NewestFirst(a, c)
    BY <1>0 DEF NewestFirst
  <2>. QED  BY <1>2, <2>1, <2>2 DEF Strict
<1>4. ASSUME NEW rows \in SUBSET S, \A a, b \in rows : a.id = b.id => a = b
      PROVE  Comparable(R, rows)
  <2>1. \A a, b \in rows : a = b \/ NewestFirst(a, b) \/ NewestFirst(b, a)
    BY <1>0, <1>4 DEF NewestFirst
  <2>. QED  BY <1>2, <2>1 DEF Comparable
<1>. QED  BY <1>1, <1>2, <1>3, <1>4 DEF R

Precedence(t) == IF t = "checkpoints" THEN Pairs(Stored(t), NewestFirst)
                                      ELSE Pairs(Stored(t), ById)

(* Whether a row is one that a query asks for. *)
Meets(q, r) ==
  CASE q.table = "plans"      -> /\ q.group = None \/ r.group = q.group
                                 /\ Bounded(q, r)
                                 /\ q.tag = None \/ r.tag = q.tag
    [] q.table = "executions" -> /\ q.group = None \/ q.group = ""
                                 /\ q.tag = None \/ r.tag = q.tag
                                 /\ Bounded(q, r)
    [] OTHER                  -> r.group = q.group

LEMMA WantedRows ==
  ASSUME NEW q \in Queries
  PROVE  /\ Wanted(q) = {r \in db[q.table] : Meets(q, r)}
         /\ Wanted(q)' = {r \in db'[q.table] : Meets(q, r)}
<1>1. q.table \in Tables
  BY RepositoryAssumption
<1>2. CASE q.table = "plans"
  BY <1>2 DEF Wanted, Meets, PlansWhere, Bounded
<1>3. CASE q.table = "executions"
  BY <1>3 DEF Wanted, Meets, ExecutionsWhere, Bounded
<1>4. CASE q.table \notin {"plans", "executions"}
  BY <1>4 DEF Wanted, Meets, GroupWhere
<1>. QED  BY <1>1, <1>2, <1>3, <1>4

(* The rows of a table that a query can show have ids of their own.        *)
LEMMA IdsApart ==
  ASSUME RepositoryInv, NEW t \in Tables, NEW rows \in SUBSET db[t],
         t = "metadata" => \A a, b \in rows : a.group = b.group
  PROVE  /\ rows \subseteq Stored(t) /\ IsFiniteSet(rows)
         /\ \A r \in Stored(t) : r.id \in Nat /\ r.at \in Nat
         /\ \A a, b \in rows : a.id = b.id => a = b
<1>1. SoundRows(t, db[t])
  BY DEF RepositoryInv
<1>2. rows \subseteq Stored(t) /\ IsFiniteSet(rows)
  BY <1>1, FS_Subset DEF SoundRows
<1>3. \A a, b \in rows : a.id = b.id => a = b
  BY <1>1 DEF SoundRows, OneRowPerKey, Key
<1>4. \A r \in Stored(t) : r.id \in Nat /\ r.at \in Nat
  BY DEF Stored
<1>. QED  BY <1>2, <1>3, <1>4

(* Every table is listed so that a listing goes on as it should. *)
GoesOn(q, got, cursor, page) ==
  /\ Reached(Stored(q.table), Precedence(q.table), got \o page.items, page.token,
             page.token = None)
  /\ page.items = <<>> => page.token = None
  /\ \A wanted \in SUBSET Wanted(q) :
       /\ Covered(Precedence(q.table), wanted, got, cursor, FALSE)
       /\ q.table = "plans" /\ q.tag # None => page.items # <<>>
       => Covered(Precedence(q.table), wanted, got \o page.items, page.token,
                  page.token = None)

LEMMA ByIdGoesOn ==
  ASSUME RepositoryInv, NEW q \in Queries, q.table # "checkpoints",
         NEW rows \in SUBSET db[q.table],
         q.table = "metadata" => \A a, b \in rows : a.group = b.group,
         NEW shown, Wanted(q) \subseteq rows \cap shown,
         q.table # "plans" \/ q.tag = None => rows \subseteq shown,
         NEW got, NEW cursor,
         Reached(Stored(q.table), Precedence(q.table), got, cursor, FALSE)
  PROVE  GoesOn(q, got, cursor, ListById(rows, cursor, q.size, shown))
<1>. DEFINE S    == Stored(q.table)
            R    == Precedence(q.table)
            rest == After(rows, cursor)
            page == ListById(rows, cursor, q.size, shown)
<1>1. q.table \in Tables /\ q.size \in Nat /\ None \notin S
  BY RepositoryAssumption
<1>2. /\ rows \in SUBSET S /\ IsFiniteSet(rows)
      /\ \A r \in S : r.id \in Nat /\ r.at \in Nat
      /\ \A a, b \in rows : a.id = b.id => a = b
  BY <1>1, IdsApart
<1>3. R = Pairs(S, ById)
  BY DEF Precedence
<1>. HIDE DEF S, R
<1>4. /\ Strict(R, S) /\ Comparable(R, rows)
      /\ \A part \in SUBSET S : \A a, b \in part :
           <<a, b>> \in Pairs(part, ById) <=> <<a, b>> \in R
      /\ \A a, b \in S : <<a, b>> \in R <=> ById(a, b)
  BY <1>2, <1>3, IdsOrder
<1>5. Reached(S, R, got, cursor, FALSE) /\ (cursor # None => cursor \in S)
  BY DEF S, R, Reached
<1>6. rest = {r \in rows : cursor = None \/ <<cursor, r>> \in R} /\ rest \in SUBSET S
  BY <1>2, <1>4, <1>5 DEF After
<1>7. page = PageOf(rest, Pairs(rest, ById), q.size, shown)
  BY DEF ListById
<1>8. \A a, b \in rest : <<a, b>> \in Pairs(rest, ById) <=> <<a, b>> \in R
  BY <1>4, <1>6
<1>. DEFINE order == Pairs(rest, ById)
<1>. HIDE DEF page, rest, order
<1>9. Further(S, R, rows, rest, shown, got, cursor, page)
  <2>1. /\ page = PageOf(rest, order, q.size, shown)
        /\ \A a, b \in rest : <<a, b>> \in order <=> <<a, b>> \in R
    BY <1>7, <1>8 DEF order
  <2>2. /\ None \notin S /\ Strict(R, S) /\ rows \in SUBSET S /\ IsFiniteSet(rows)
        /\ Comparable(R, rows) /\ Reached(S, R, got, cursor, FALSE) /\ q.size \in Nat
    BY <1>1, <1>2, <1>4, <1>5
  <2>. QED  BY <1>6, <2>1, <2>2, ListingGoesOn
<1>10. ASSUME NEW wanted \in SUBSET Wanted(q), Covered(R, wanted, got, cursor, FALSE),
              q.table = "plans" /\ q.tag # None => page.items # <<>>
       PROVE  Covered(R, wanted, got \o page.items, page.token, page.token = None)
  BY <1>6, <1>9, <1>10 DEF Further
<1>. QED  BY <1>9, <1>10 DEF GoesOn, Further, S, R, page

LEMMA NewestGoesOn ==
  ASSUME RepositoryInv, NEW q \in Queries, q.table = "checkpoints", NEW got, NEW cursor,
         Reached(Stored(q.table), Precedence(q.table), got, cursor, FALSE)
  PROVE  GoesOn(q, got, cursor, ListNewest(GroupWhere(q), cursor, q.size))
<1>. DEFINE S    == Stored(q.table)
            R    == Precedence(q.table)
            rows == GroupWhere(q)
            rest == AfterNewest(rows, cursor)
            page == ListNewest(rows, cursor, q.size)
<1>1. q.table \in Tables /\ q.size \in Nat /\ None \notin S
  BY RepositoryAssumption
<1>2. /\ rows \in SUBSET S /\ IsFiniteSet(rows) /\ Wanted(q) = rows
      /\ \A r \in S : r.id \in Nat /\ r.at \in Nat
      /\ \A a, b \in rows : a.id = b.id => a = b
  <2>1. rows \in SUBSET db[q.table] /\ Wanted(q) = rows
    BY DEF GroupWhere, Wanted
  <2>. HIDE DEF rows
  <2>. QED  BY <1>1, <2>1, IdsApart
<1>3. R = Pairs(S, NewestFirst)
  BY DEF Precedence
<1>. HIDE DEF S, R, rows
<1>4. /\ Strict(R, S) /\ Comparable(R, rows)
      /\ \A part \in SUBSET S : \A a, b \in part :
           <<a, b>> \in Pairs(part, NewestFirst) <=> <<a, b>> \in R
      /\ \A a, b \in S : <<a, b>> \in R <=> NewestFirst(a, b)
  BY <1>2, <1>3, NewestOrder
<1>5. Reached(S, R, got, cursor, FALSE) /\ (cursor # None => cursor \in S)
  BY DEF S, R, Reached
<1>6. rest = {r \in rows : cursor = None \/ <<cursor, r>> \in R} /\ rest \in SUBSET S
  BY <1>2, <1>4, <1>5 DEF AfterNewest
<1>7. page = PageOf(rest, Pairs(rest, NewestFirst), q.size, rest)
  BY DEF ListNewest
<1>8. \A a, b \in rest : <<a, b>> \in Pairs(rest, NewestFirst) <=> <<a, b>> \in R
  BY <1>4, <1>6
<1>. DEFINE order == Pairs(rest, NewestFirst)
<1>. HIDE DEF page, rest, order
<1>9. /\ page = PageOf(rest, order, q.size, rest)
      /\ \A a, b \in rest : <<a, b>> \in order <=> <<a, b>> \in R
  BY <1>7, <1>8 DEF order
<1>10. /\ None \notin S /\ Strict(R, S) /\ rows \in SUBSET S /\ IsFiniteSet(rows)
       /\ Comparable(R, rows) /\ Reached(S, R, got, cursor, FALSE) /\ q.size \in Nat
  BY <1>1, <1>2, <1>4, <1>5
<1>11. Further(S, R, rows, rest, rest, got, cursor, page)
  BY <1>6, <1>9, <1>10, ListingGoesOn
<1>. QED  BY <1>2, <1>11 DEF GoesOn, Further, S, R, page, rows

LEMMA ShowsGoesOn ==
  ASSUME RepositoryInv, NEW q \in Queries, NEW got, NEW cursor,
         Reached(Stored(q.table), Precedence(q.table), got, cursor, FALSE)
  PROVE  GoesOn(q, got, cursor, Shows(q, cursor))
<1>1. CASE q.table = "plans"
  <2>1. Shows(q, cursor) = list_plans(q, cursor)
    BY <1>1 DEF Shows
  <2>. DEFINE rows  == PlansWhere(q)
              shown == {r \in rows : q.tag = None \/ r.tag = q.tag}
  <2>2. rows \subseteq db[q.table] /\ Wanted(q) = shown /\ (q.tag = None => shown = rows)
    BY <1>1 DEF PlansWhere, Wanted
  <2>3. list_plans(q, cursor) = ListById(rows, cursor, q.size, shown) /\ shown \subseteq rows
    BY DEF list_plans
  <2>. HIDE DEF rows, shown
  <2>. QED  BY <1>1, <2>1, <2>2, <2>3, ByIdGoesOn
<1>2. CASE q.table = "executions"
  <2>1. Shows(q, cursor) = list_executions(q, cursor)
    BY <1>2 DEF Shows
  <2>. DEFINE rows == ExecutionsWhere(q)
  <2>2. rows \subseteq db[q.table] /\ Wanted(q) = rows
    BY <1>2 DEF ExecutionsWhere, Wanted
  <2>3. list_executions(q, cursor) = ListById(rows, cursor, q.size, rows)
    BY DEF list_executions
  <2>. HIDE DEF rows
  <2>. QED  BY <1>2, <2>1, <2>2, <2>3, ByIdGoesOn
<1>3. CASE q.table = "metadata"
  <2>1. Shows(q, cursor) = list_scope(q, cursor)
    BY <1>3 DEF Shows
  <2>. DEFINE rows == GroupWhere(q)
  <2>2. /\ rows \subseteq db[q.table] /\ Wanted(q) = rows
        /\ \A a, b \in rows : a.group = b.group
    BY <1>3 DEF GroupWhere, Wanted
  <2>3. list_scope(q, cursor) = ListById(rows, cursor, q.size, rows)
    BY DEF list_scope
  <2>. HIDE DEF rows
  <2>. QED  BY <1>3, <2>1, <2>2, <2>3, ByIdGoesOn
<1>4. CASE q.table = "checkpoints"
  <2>1. Shows(q, cursor) = ListNewest(GroupWhere(q), cursor, q.size)
    BY <1>4 DEF Shows, list_checkpoints
  <2>. QED  BY <1>4, <2>1, NewestGoesOn
<1>. QED  BY <1>1, <1>2, <1>3, <1>4, RepositoryAssumption DEF Tables

(* The listing that somebody follows.  Labels that leave nothing of a page *)
(* end it early.                                                           *)
CutShort == walk.done /\ walk.q.table = "plans" /\ walk.q.tag # None /\ walk.last = <<>>

WalkInv ==
  walk # None =>
    LET t == walk.q.table IN
    /\ walk = [q |-> walk.q, got |-> walk.got, cursor |-> walk.cursor, last |-> walk.last,
               done |-> walk.done]
    /\ walk.q \in Queries /\ walk.done \in BOOLEAN
    /\ due \subseteq Wanted(walk.q)
    /\ Reached(Stored(t), Precedence(t), walk.got, walk.cursor, walk.done)
    /\ CutShort \/ Covered(Precedence(t), due, walk.got, walk.cursor, walk.done)

(* Nothing is due that is not there, whoever writes.                       *)
LEMMA MutationInv ==
  ASSUME WalkInv, NEW t \in Tables, Mutation(t), IF walk = None THEN UNCHANGED due ELSE Watch
  PROVE  WalkInv'
<1>1. walk' = walk
  BY DEF Mutation, SavePlan, InsertPlan, save_execution, save_checkpoint, upsert_metadata,
     SaveRow, delete_checkpoint, prune_checkpoints, set_attr, Saving, Quiet
<1>. SUFFICES ASSUME walk # None PROVE WalkInv'
  BY <1>1 DEF WalkInv
<1>. DEFINE q == walk.q
<1>2. q \in Queries /\ due \subseteq Wanted(q)
  BY DEF WalkInv
<1>3. due' = due \cap db'[q.table]
  BY DEF Watch
<1>4. due' \subseteq Wanted(q)'
  <2>1. Wanted(q)' = {r \in db'[q.table] : Meets(q, r)}
    BY <1>1, <1>2, WantedRows
  <2>. QED  BY <1>2, <1>3, <2>1, WantedRows
<1>5. \A R : Covered(R, due, walk.got, walk.cursor, walk.done)
             => Covered(R, due', walk.got, walk.cursor, walk.done)
  BY <1>3 DEF Covered
<1>. QED  BY <1>1, <1>4, <1>5 DEF WalkInv, CutShort

(* In the beginning everything is due, and comes after no cursor. *)
LEMMA StartWalkInv ==
  ASSUME NEW q \in Queries, StartWalk(q)
  PROVE  WalkInv'
<1>1. /\ walk' = [q |-> q, got |-> <<>>, cursor |-> None, last |-> <<>>, done |-> FALSE]
      /\ due' = Wanted(q) /\ UNCHANGED db
  BY DEF StartWalk
<1>2. Wanted(q)' = Wanted(q)
  BY <1>1, WantedRows
<1>3. Reached(Stored(q.table), Precedence(q.table), <<>>, None, FALSE)
  BY DEF Reached
<1>4. Covered(Precedence(q.table), due', <<>>, None, FALSE)
  BY DEF Covered
<1>. QED  BY <1>1, <1>2, <1>3, <1>4 DEF WalkInv

(* A page shows what is due up to its token. *)
LEMMA NextPageInv ==
  ASSUME RepositoryInv, WalkInv, NextPage
  PROVE  WalkInv'
<1>0. walk # None /\ walk.q \in Queries /\ walk.done = FALSE
  BY DEF NextPage, WalkInv
<1>. PICK q \in Queries : q = walk.q
  BY <1>0
<1>. DEFINE t    == q.table
            page == Shows(q, walk.cursor)
            got  == walk.got \o page.items
            done == page.token = None
<1>. SUFFICES ASSUME ~Unreadable(q, page) PROVE WalkInv'
  BY DEF NextPage, WalkInv
<1>1. /\ UNCHANGED <<db, due>>
      /\ walk' = [walk EXCEPT !.got = got, !.last = page.items, !.cursor = page.token,
                              !.done = done]
  BY DEF NextPage
<1>2. /\ walk = [q |-> q, got |-> walk.got, cursor |-> walk.cursor, last |-> walk.last,
                 done |-> walk.done]
      /\ due \subseteq Wanted(q)
      /\ Reached(Stored(t), Precedence(t), walk.got, walk.cursor, FALSE)
      /\ Covered(Precedence(t), due, walk.got, walk.cursor, FALSE)
  BY <1>0 DEF WalkInv, CutShort
<1>3. GoesOn(q, walk.got, walk.cursor, page)
  BY <1>2, ShowsGoesOn
<1>4. Wanted(q)' = Wanted(q)
  BY <1>1, WantedRows
<1>5. /\ Reached(Stored(t), Precedence(t), got, page.token, done)
      /\ page.items = <<>> => done
      /\ (q.table = "plans" /\ q.tag # None => page.items # <<>>)
           => Covered(Precedence(t), due, got, page.token, done)
  BY <1>2, <1>3 DEF GoesOn
<1>6. done \in BOOLEAN
  OBVIOUS
<1>. HIDE DEF page, got, done
<1>7. walk' = [q |-> q, got |-> got, cursor |-> page.token, last |-> page.items, done |-> done]
  BY <1>1, <1>2
<1>. QED  BY <1>1, <1>2, <1>4, <1>5, <1>6, <1>7 DEF WalkInv, CutShort

(* And the one of artifacts.  What it has to show had an id when it began. *)
ReadingInv ==
  reading # None =>
    /\ reading = [ctx |-> reading.ctx, size |-> reading.size, got |-> reading.got,
                  cursor |-> reading.cursor, due |-> reading.due, done |-> reading.done]
    /\ reading.size \in Nat /\ reading.done \in BOOLEAN
    /\ \A r \in reading.due : r.ctx = reading.ctx /\ \E m \in minted : m.id = r.id
    /\ Reached(Row, Pairs(Row, ById), reading.got, reading.cursor, reading.done)
    /\ Covered(Pairs(Row, ById), reading.due \cap artifacts, reading.got, reading.cursor,
               reading.done)

(* Rows that are taken away are not due, and no new one is. *)
LEMMA ReadingStays ==
  ASSUME ReadingInv, UNCHANGED reading, minted \subseteq minted',
         \A r \in artifacts' \ artifacts : \A m \in minted : m.id # r.id
  PROVE  ReadingInv'
<1>. SUFFICES ASSUME reading # None PROVE ReadingInv'
  BY DEF ReadingInv
<1>1. reading.due \cap artifacts' \subseteq reading.due \cap artifacts
  BY DEF ReadingInv
<1>2. Covered(Pairs(Row, ById), reading.due \cap artifacts', reading.got, reading.cursor,
              reading.done)
  BY <1>1 DEF ReadingInv, Covered
<1>. QED  BY <1>2 DEF ReadingInv

LEMMA StartReadingInv ==
  ASSUME ArtifactsInv, NEW x \in Contexts, NEW size \in PageSizes, StartReading(x, size)
  PROVE  ReadingInv'
<1>. DEFINE rows == InContext(artifacts, x)
<1>1. /\ reading' = [ctx |-> x, size |-> size, got |-> <<>>, cursor |-> None,
                     due |-> rows, done |-> FALSE]
      /\ UNCHANGED <<artifacts, minted>>
  BY DEF StartReading
<1>2. size \in Nat /\ \A r \in rows : r.ctx = x /\ \E m \in minted : m.id = r.id
  BY ArtifactsAssumption DEF ArtifactsInv, InContext
<1>3. Reached(Row, Pairs(Row, ById), <<>>, None, FALSE)
  BY DEF Reached
<1>4. Covered(Pairs(Row, ById), rows \cap artifacts', <<>>, None, FALSE)
  BY DEF Covered
<1>. HIDE DEF rows
<1>. QED  BY <1>1, <1>2, <1>3, <1>4 DEF ReadingInv

LEMMA PageRead ==
  ASSUME NEW r, NEW s, NEW got, NEW cursor, NEW done,
         r = [ctx |-> r.ctx, size |-> r.size, got |-> r.got, cursor |-> r.cursor,
              due |-> r.due, done |-> r.done],
         s = [r EXCEPT !.got = got, !.cursor = cursor, !.done = done]
  PROVE  s = [ctx |-> r.ctx, size |-> r.size, got |-> got, cursor |-> cursor, due |-> r.due,
              done |-> done]
OBVIOUS

LEMMA ReadPageInv ==
  ASSUME ArtifactsInv, ReadingInv, ReadPage
  PROVE  ReadingInv'
<1>. DEFINE x    == reading.ctx
            page == list_artifacts(x, reading.size, reading.cursor)
            got  == reading.got \o page.items
            done == page.token = None
            R    == Pairs(Row, ById)
            rows == InContext(artifacts, x)
            rest == {r \in artifacts :
                       r.ctx = x /\ (reading.cursor = None \/ ById(reading.cursor, r))}
            order == Pairs(rest, ById)
<1>0. reading # None /\ reading.done = FALSE /\ UNCHANGED <<artifacts, minted>>
  BY DEF ReadPage, ReadingInv
<1>1. reading' = [reading EXCEPT !.got = got, !.cursor = page.token, !.done = done]
  BY DEF ReadPage
<1>2. /\ reading.size \in Nat
      /\ \A r \in reading.due : r.ctx = x /\ \E m \in minted : m.id = r.id
      /\ Reached(Row, R, reading.got, reading.cursor, FALSE)
      /\ Covered(R, reading.due \cap artifacts, reading.got, reading.cursor, FALSE)
  BY <1>0 DEF ReadingInv
<1>3. /\ rows \in SUBSET Row /\ IsFiniteSet(rows) /\ None \notin Row
      /\ \A r \in Row : r.id \in Nat
      /\ \A a, b \in rows : a.id = b.id => a = b
  <2>1. rows \subseteq artifacts
    BY DEF InContext
  <2>. HIDE DEF rows
  <2>2. rows \in SUBSET Row /\ IsFiniteSet(rows) /\ \A a, b \in rows : a.id = b.id => a = b
    BY <2>1, FS_Subset DEF ArtifactsInv, OneRowPerId
  <2>. QED  BY <2>2, ArtifactsAssumption DEF Row, Names
<1>4. /\ Strict(R, Row) /\ Comparable(R, rows)
      /\ \A part \in SUBSET Row : \A a, b \in part :
           <<a, b>> \in Pairs(part, ById) <=> <<a, b>> \in R
      /\ \A a, b \in Row : <<a, b>> \in R <=> ById(a, b)
  <2>. HIDE DEF rows
  <2>. QED  BY <1>3, IdsOrder
<1>. HIDE DEF R
<1>5. /\ rest = {r \in rows : reading.cursor = None \/ <<reading.cursor, r>> \in R}
      /\ rest \in SUBSET Row
  <2>1. reading.cursor # None => reading.cursor \in Row
    BY <1>2 DEF Reached
  <2>2. rest = {r \in rows : reading.cursor = None \/ ById(reading.cursor, r)}
    BY DEF InContext
  <2>. HIDE DEF rest, rows
  <2>. QED  BY <1>3, <1>4, <2>1, <2>2
<1>6. page = PageOf(rest, order, reading.size, rest)
  BY DEF list_artifacts
<1>7. \A a, b \in rest : <<a, b>> \in order <=> <<a, b>> \in R
  <2>. HIDE DEF rest
  <2>. QED  BY <1>4, <1>5
<1>. HIDE DEF page, rest, order, x
<1>8. Further(Row, R, rows, rest, rest, reading.got, reading.cursor, page)
  <2>. HIDE DEF rows
  <2>. QED  BY <1>2, <1>3, <1>4, <1>5, <1>6, <1>7, ListingGoesOn
<1>9. reading.due \cap artifacts \subseteq rows
  BY <1>2 DEF InContext
<1>10. /\ Reached(Row, R, got, page.token, done)
       /\ Covered(R, reading.due \cap artifacts, got, page.token, done)
  <2>. HIDE DEF rows
  <2>. QED  BY <1>2, <1>8, <1>9 DEF Further
<1>11. done \in BOOLEAN
  OBVIOUS
<1>. HIDE DEF got, done
<1>12. reading = [ctx |-> reading.ctx, size |-> reading.size, got |-> reading.got,
                  cursor |-> reading.cursor, due |-> reading.due, done |-> reading.done]
  BY <1>0 DEF ReadingInv
<1>13. reading' = [ctx |-> reading.ctx, size |-> reading.size, got |-> got, cursor |-> page.token,
                   due |-> reading.due, done |-> done]
  BY <1>1, <1>12, PageRead
<1>. QED  BY <1>0, <1>2, <1>10, <1>11, <1>13 DEF ReadingInv, R, x

(* A row that is saved while a listing is followed has an id of its own.   *)
LEMMA ReadingStep ==
  ASSUME ArtifactsInv, ReadingInv, NextArtifacts
  PROVE  ReadingInv'
<1>1. ASSUME NEW c \in Savers, InsertArtifact(c)
      PROVE  ReadingInv'
  <2>1. PICK i \in ArtifactIds, made, at \in Nat :
          /\ \A m \in minted : m.id # i
          /\ artifacts' = artifacts \cup {[saver[c].row EXCEPT !.id = i, !.at = at]}
          /\ minted' = minted \cup {[id |-> i, at |-> made]}
    BY <1>1, Inserted
  <2>2. saver[c].row \in [id : {0}, ctx : Contexts, name : Names, size : Nat, at : {0}]
    <3>1. saver[c].row \in Uploads
      BY <1>1 DEF ArtifactsInv, InsertArtifact
    <3>. QED  BY <3>1, ArtifactsAssumption DEF Names
  <2>3. \A r \in artifacts' \ artifacts : r.id = i
    BY <2>1, <2>2
  <2>4. UNCHANGED reading
    BY <1>1 DEF InsertArtifact
  <2>. QED  BY <2>1, <2>3, <2>4, ReadingStays
<1>2. ASSUME NEW c \in Savers, NEW r \in Uploads, NEW mode, BeginSave(c, r, mode)
      PROVE  ReadingInv'
  BY <1>2, ReadingStays DEF BeginSave
<1>3. ASSUME NEW c \in Savers, AbandonSave(c)
      PROVE  ReadingInv'
  BY <1>3, ReadingStays DEF AbandonSave
<1>4. ASSUME NEW i, DeleteArtifact(i)
      PROVE  ReadingInv'
  BY <1>4, ReadingStays DEF DeleteArtifact
<1>5. CASE Tick
  BY <1>5, ReadingStays DEF Tick
<1>6. ASSUME NEW p, run_retention(p)
      PROVE  ReadingInv'
  <2>1. artifacts' \subseteq artifacts /\ UNCHANGED <<reading, minted>>
    BY <1>6, RetentionTakes DEF run_retention
  <2>. QED  BY <2>1, ReadingStays
<1>. QED  BY <1>1, <1>2, <1>3, <1>4, <1>5, <1>6, StartReadingInv, ReadPageInv DEF NextArtifacts

(* Whoever follows the tokens to the end has seen every row that was there *)
(* all the time, once, whatever others saved and deleted in between.       *)
THEOREM ListingsAreComplete == SpecArchive => []WalksComplete
<1>. DEFINE Inv == RepositoryInv /\ ArtifactsInv /\ WalkInv /\ ReadingInv
<1>1. InitArchive => Inv
  BY InitRepositoryInv, InitArtifactsInv
     DEF InitArchive, InitRepository, InitArtifacts, WalkInv, ReadingInv
<1>2. Inv /\ [NextArchive]_<<repo, store, journals>> => Inv'
  <2>. SUFFICES ASSUME Inv, [NextArchive]_<<repo, store, journals>> PROVE Inv'
    OBVIOUS
  <2>1. UNCHANGED repo => RepositoryInv' /\ WalkInv'
    BY DEF repo, RepositoryInv, WalkInv, CutShort, Wanted, PlansWhere, ExecutionsWhere, GroupWhere
  <2>2. UNCHANGED store => ArtifactsInv' /\ ReadingInv'
    BY DEF store, ArtifactsInv, ReadingInv
  <2>3. ASSUME NEW t \in Tables, NextRepository(t)
        PROVE  WalkInv'
    BY <2>3, MutationInv, StartWalkInv, NextPageInv DEF NextRepository
  <2>. QED  BY <2>1, <2>2, <2>3, RepositoryStep, ArtifactsStep, ReadingStep DEF NextArchive
<1>3. Inv => WalksComplete
  <2>. SUFFICES ASSUME Inv PROVE WalksComplete
    OBVIOUS
  <2>1. ASSUME walk # None, walk.done, ~CutShort
        PROVE  Once(due, walk.got)
    <3>. DEFINE S == Stored(walk.q.table)
                R == Precedence(walk.q.table)
    <3>1. /\ walk.done = TRUE /\ Reached(S, R, walk.got, walk.cursor, TRUE)
          /\ Covered(R, due, walk.got, walk.cursor, TRUE)
      BY <2>1 DEF WalkInv
    <3>2. Strict(R, S)
      <4>1. \A r \in S : r.id \in Nat /\ r.at \in Nat
        BY DEF Stored
      <4>. QED  BY <4>1, IdsOrder, NewestOrder DEF Precedence
    <3>. QED  BY <3>1, <3>2, ListingDone
  <2>2. ASSUME reading # None, reading.done
        PROVE  Once(reading.due \cap artifacts, reading.got)
    <3>1. /\ Reached(Row, Pairs(Row, ById), reading.got, reading.cursor, TRUE)
          /\ Covered(Pairs(Row, ById), reading.due \cap artifacts, reading.got,
                     reading.cursor, TRUE)
      BY <2>2 DEF ReadingInv
    <3>2. Strict(Pairs(Row, ById), Row)
      <4>1. \A r \in Row : r.id \in Nat
        BY ArtifactsAssumption DEF Row
      <4>. QED  BY <4>1, IdsOrder
    <3>. QED  BY <3>1, <3>2, ListingDone
  <2>. QED  BY <2>1, <2>2 DEF WalksComplete, CutShort
<1>. QED  BY <1>1, <1>2, <1>3, PTL DEF SpecArchive

------------------------------------------------------------------------------
(***************************************************************************)
(* The journal.  An event is stored before it is published: while it is    *)
(* under way it is the event of the writer, and after that it is on the    *)
(* channel of its execution, in the order of the sequence.  So a row of    *)
(* the table that a follower has not seen is one of the two.               *)
(***************************************************************************)
Queues == {<<"record", "publish", "write", "publish">>, <<"publish", "write", "publish">>,
           <<"write", "publish">>, <<"publish">>, <<>>}

(* What is left to do of an event: it is stored before it is published. *)
LEMMA QueueGoesOn ==
  ASSUME NEW q \in Queues, q # <<>>
  PROVE  /\ Tail(q) \in Queues
         /\ Head(q) # "publish" => Tail(q) # <<>>
         /\ Len(Tail(q)) > 2 => Len(q) > 2
         /\ Head(q) = "publish" /\ Tail(q) # <<>> => Len(q) > 2
<1>1. CASE q = <<"record", "publish", "write", "publish">>
  BY <1>1 DEF Queues
<1>2. CASE q = <<"publish", "write", "publish">>
  BY <1>2 DEF Queues
<1>3. CASE q = <<"write", "publish">>
  BY <1>3 DEF Queues
<1>4. CASE q = <<"publish">>
  BY <1>4 DEF Queues
<1>. QED  BY <1>1, <1>2, <1>3, <1>4 DEF Queues

(* What Append gives. *)
LEMMA Appended ==
  ASSUME NEW S, NEW s \in Seq(S), NEW x \in S
  PROVE  /\ Append(s, x) \in Seq(S) /\ Len(Append(s, x)) = Len(s) + 1 /\ Len(s) \in Nat
         /\ \A i \in 1..Len(s) : Append(s, x)[i] = s[i]
         /\ Append(s, x)[Len(s) + 1] = x
OBVIOUS

(* A replay shows every row it was given. *)
LEMMA OrderedShows ==
  ASSUME NEW rows, IsFiniteSet(rows), \A r \in rows : r.seq \in Nat,
         \A a, b \in rows : a.seq = b.seq => a = b
  PROVE  rows \subseteq ToSet(Ordered(rows))
<1>. DEFINE order == Pairs(rows, Earlier)
            s     == InTurn(rows, order)
<1>1. Strict(order, rows) /\ Comparable(order, rows)
  BY DEF Pairs, Earlier, Strict, Comparable
<1>. HIDE DEF order
<1>2. s \in Seq(rows) /\ \A r \in rows : \E i \in 1..Len(s) : s[i] = r
  BY <1>1, InTurnShows
<1>3. Ordered(rows) = s
  BY DEF Ordered, order
<1>. HIDE DEF s
<1>. QED  BY <1>2, <1>3 DEF ToSet

Kinds == {"ExecutionStarted", "ExecutionResumed", "ExecutionCompleted",
          "StepStarted", "StepCompleted", "StepFailed", "StepSkipped"}
Entries == [exec : Executions, seq : Nat, kind : Kinds, step : Steps \cup {None}, run : Nat]

\* What may come after a on a channel: the first event of a run comes twice.
Follows(a, b) == a.run = b.run => a.seq < b.seq \/ (a = b /\ a.seq = 1)

Writers == [exec : Executions \cup {None}, seq : Nat, open : Steps \cup {None},
            event : Entries \cup {None}, queue : Queues]

JournalsTyped ==
  /\ table \in SUBSET Entries /\ IsFiniteSet(table)
  /\ sent \in [Executions -> Seq(Entries)]
  /\ runs \in [Executions -> Nat]
  /\ writer \in Writers

OneRowPerSequence == \A a, b \in table : a.exec = b.exec /\ a.seq = b.seq => a = b

\* What the run that writes is about to store and to publish.
WriterSays ==
  writer.queue # <<>> =>
    /\ writer.exec \in Executions /\ writer.event \in Entries
    /\ writer.event.exec = writer.exec /\ writer.event.seq = writer.seq
    /\ writer.event.run = runs[writer.exec]
    /\ Len(writer.queue) > 2 => writer.seq = 1

\* What is on a channel is in order, and nothing there is of a later run or
\* comes after what its run writes now.
SentSays ==
  \A e \in Executions : \A i \in 1..Len(sent[e]) :
    LET r == sent[e][i]
    IN  /\ r.run <= runs[e]
        /\ \A j \in 1..Len(sent[e]) : i < j => Follows(r, sent[e][j])
        /\ writer.exec = e /\ r.run = runs[e] =>
             IF writer.queue # <<>> THEN Follows(r, writer.event) ELSE r.seq <= writer.seq

\* What a follower has got it got from the channel, in order; a row that it has
\* not seen is further down the channel, or about to be published.
Reaches(f, r) ==
  \/ r \in Seen(f)
  \/ \E j \in 1..Len(sent[f.exec]) : f.at < j /\ sent[f.exec][j] = r
  \/ Publishing(f.exec) /\ r = writer.event

FollowerSays ==
  follower # None =>
    /\ follower = [exec |-> follower.exec, at |-> follower.at, got |-> follower.got,
                   lost |-> follower.lost, history |-> follower.history]
    /\ follower.exec \in Executions /\ follower.got \in Seq(Entries) /\ follower.lost \in Nat
    /\ follower.at \in 0..Len(sent[follower.exec])
    /\ \A i \in 1..Len(follower.got) - 1 : Follows(follower.got[i], follower.got[i + 1])
    /\ follower.got # <<>> =>
         \E i \in 1..follower.at : sent[follower.exec][i] = follower.got[Len(follower.got)]
    /\ follower.history # None /\ follower.lost = 0 =>
         \A r \in Of(table, follower.exec) : Reaches(follower, r)

JournalsInv == JournalsTyped /\ OneRowPerSequence /\ WriterSays /\ SentSays /\ FollowerSays

(* Nothing is stored or sent in the beginning. *)
LEMMA InitJournalsInv == InitJournals => JournalsInv
BY FS_EmptySet DEF InitJournals, JournalsInv, JournalsTyped, OneRowPerSequence, WriterSays,
   SentSays, FollowerSays, NoRun, Queues, Writers

(* What is on a channel is an event. *)
LEMMA SentEntries ==
  ASSUME JournalsTyped, NEW e \in Executions, NEW i \in 1..Len(sent[e])
  PROVE  /\ sent[e][i] \in Entries /\ sent[e] \in Seq(Entries) /\ Len(sent[e]) \in Nat
         /\ sent[e][i].run \in Nat /\ sent[e][i].seq \in Nat
<1>1. sent[e] \in Seq(Entries)
  BY DEF JournalsTyped
<1>2. sent[e][i] \in Entries /\ Len(sent[e]) \in Nat
  BY <1>1
<1>. QED  BY <1>1, <1>2 DEF Entries

(* A run starts with an event of its own number, after all earlier ones. *)
LEMMA StartRunInv ==
  ASSUME JournalsInv, NEW e \in Executions, StartRun(e)
  PROVE  JournalsInv'
<1>. DEFINE kind  == IF runs[e] = 0 THEN "ExecutionStarted" ELSE "ExecutionResumed"
            first == [exec |-> e, seq |-> 1, kind |-> kind, step |-> None, run |-> runs[e] + 1]
            w     == [exec |-> e, seq |-> 1, open |-> None, event |-> first,
                      queue |-> <<"record", "publish", "write", "publish">>]
<1>1. /\ UNCHANGED <<table, sent, follower>> /\ writer.exec = None
      /\ runs' = [runs EXCEPT ![e] = @ + 1] /\ writer' = w
  BY DEF StartRun, Event
<1>2. first \in Entries /\ kind \in Kinds
  BY DEF Entries, Kinds, JournalsInv, JournalsTyped
<1>3. w \in Writers
  BY <1>2 DEF Queues, Writers
<1>4. JournalsTyped' /\ OneRowPerSequence'
  BY <1>1, <1>3 DEF JournalsInv, JournalsTyped, OneRowPerSequence
<1>5. /\ w.exec = e /\ w.seq = 1 /\ w.event = first /\ first.exec = e /\ first.seq = 1
      /\ first.run = runs[e] + 1 /\ w.queue # <<>>
  OBVIOUS
<1>6. \A o \in Executions : runs[o] \in Nat /\ runs'[o] = IF o = e THEN runs[o] + 1 ELSE runs[o]
  BY <1>1 DEF JournalsInv, JournalsTyped
<1>. HIDE DEF first, w
<1>7. WriterSays'
  BY <1>1, <1>2, <1>5, <1>6 DEF WriterSays
<1>8. SentSays'
  <2>1. \A o \in Executions : \A i \in 1..Len(sent[o]) : sent[o][i].run \in Nat
    BY SentEntries DEF JournalsInv
  <2>. QED  BY <1>1, <1>5, <1>6, <2>1 DEF SentSays, JournalsInv, Follows
<1>9. FollowerSays'
  <2>1. writer.exec \notin Executions /\ writer.queue = <<>>
    BY <1>1, JournalsAssumption DEF JournalsInv, WriterSays
  <2>. QED  BY <1>1, <2>1 DEF FollowerSays, JournalsInv, Reaches, Seen, Of, Publishing
<1>. QED  BY <1>4, <1>7, <1>8, <1>9 DEF JournalsInv

(* The next event comes after all that its run has published. *)
LEMMA WriteEventInv ==
  ASSUME JournalsInv, NEW kind \in Kinds, NEW s \in Steps \cup {None}, WriteEvent(kind, s)
  PROVE  JournalsInv'
<1>. DEFINE ev == Event(writer.exec, writer.seq + 1, kind, s)
<1>1. /\ UNCHANGED <<table, sent, follower, runs>> /\ writer.exec # None /\ writer.queue = <<>>
      /\ writer' = [writer EXCEPT !.seq = @ + 1, !.open = IF kind = "StepStarted" THEN s ELSE None,
                                  !.event = ev, !.queue = <<"write", "publish">>]
  BY DEF WriteEvent
<1>2. writer.exec \in Executions /\ writer.seq \in Nat /\ runs[writer.exec] \in Nat
  BY <1>1 DEF JournalsInv, JournalsTyped, Writers
<1>3. ev \in Entries /\ ev.exec = writer.exec /\ ev.seq = writer.seq + 1 /\ ev.run = runs[writer.exec]
  BY <1>2 DEF Entries, Event
<1>. HIDE DEF ev
<1>4. /\ writer'.exec = writer.exec /\ writer'.seq = writer.seq + 1 /\ writer'.event = ev
      /\ writer'.queue = <<"write", "publish">>
      /\ writer' \in Writers
  <2>. DEFINE q == <<"write", "publish">>
              o == IF kind = "StepStarted" THEN s ELSE None
  <2>1. q \in Queues /\ o \in Steps \cup {None}
    BY DEF Queues
  <2>2. writer' = [writer EXCEPT !.seq = @ + 1, !.open = o, !.event = ev, !.queue = q]
    BY <1>1
  <2>. HIDE DEF q, o
  <2>3. /\ writer'.exec = writer.exec /\ writer'.seq = writer.seq + 1 /\ writer'.event = ev
        /\ writer'.queue = q
        /\ writer' \in Writers
    <3>1. writer \in Writers
      BY DEF JournalsInv, JournalsTyped
    <3>2. /\ writer'.exec = writer.exec /\ writer'.seq = writer.seq + 1 /\ writer'.event = ev
          /\ writer'.queue = q /\ writer.seq + 1 \in Nat
      BY <2>2, <3>1 DEF Writers
    <3>3. writer' \in Writers
      BY <1>3, <2>1, <2>2, <3>1, <3>2 DEF Writers
    <3>. QED  BY <3>2, <3>3
  <2>. QED  BY <2>3 DEF q
<1>5. JournalsTyped' /\ OneRowPerSequence'
  BY <1>1, <1>4 DEF JournalsInv, JournalsTyped, OneRowPerSequence
<1>6. writer'.queue # <<>> /\ ~(Len(writer'.queue) > 2)
  BY <1>4
<1>7. WriterSays'
  BY <1>1, <1>2, <1>3, <1>4, <1>6 DEF WriterSays
<1>8. SentSays'
  <2>1. \A o \in Executions : \A i \in 1..Len(sent[o]) : sent[o][i].seq \in Nat
    BY SentEntries DEF JournalsInv
  <2>. QED  BY <1>1, <1>2, <1>3, <1>4, <1>6, <2>1 DEF SentSays, JournalsInv, Follows
<1>9. FollowerSays'
  BY <1>1 DEF FollowerSays, JournalsInv, Reaches, Seen, Of, Publishing
<1>. QED  BY <1>5, <1>7, <1>8, <1>9 DEF JournalsInv

(* A row that is stored is the event that is about to be published. *)
LEMMA StoreInv ==
  ASSUME JournalsInv, Store
  PROVE  JournalsInv'
<1>1. /\ UNCHANGED <<sent, follower, runs>> /\ writer.queue # <<>> /\ Head(writer.queue) # "publish"
      /\ table' = append(table, writer.event)
      /\ writer' = [writer EXCEPT !.queue = Tail(@)]
  BY DEF Store
<1>2. /\ Tail(writer.queue) \in Queues /\ Tail(writer.queue) # <<>>
      /\ Len(Tail(writer.queue)) > 2 => Len(writer.queue) > 2
  BY <1>1, QueueGoesOn DEF JournalsInv, JournalsTyped, Writers
<1>3. /\ writer'.exec = writer.exec /\ writer'.seq = writer.seq /\ writer'.event = writer.event
      /\ writer'.queue = Tail(writer.queue)
      /\ writer' \in Writers
  BY <1>1, <1>2 DEF JournalsInv, JournalsTyped, Writers
<1>4. writer.exec \in Executions /\ writer.event \in Entries /\ writer.event.exec = writer.exec
  BY <1>1 DEF JournalsInv, WriterSays
<1>5. /\ table' \subseteq table \cup {writer.event} /\ IsFiniteSet(table') /\ OneRowPerSequence'
      /\ table' \in SUBSET Entries
  <2>1. CASE \E o \in Of(table, writer.event.exec) : o.seq = writer.event.seq
    <3>1. table' = table
      BY <1>1, <2>1 DEF append
    <3>. QED  BY <3>1 DEF JournalsInv, JournalsTyped, OneRowPerSequence
  <2>2. CASE ~\E o \in Of(table, writer.event.exec) : o.seq = writer.event.seq
    <3>1. table' = table \cup {writer.event}
      BY <1>1, <2>2 DEF append
    <3>2. IsFiniteSet(table')
      BY <3>1, FS_AddElement DEF JournalsInv, JournalsTyped
    <3>. QED  BY <1>4, <2>2, <3>1, <3>2 DEF JournalsInv, JournalsTyped, OneRowPerSequence, Of
  <2>. QED  BY <2>1, <2>2
<1>6. JournalsTyped'
  BY <1>1, <1>3, <1>5 DEF JournalsInv, JournalsTyped
<1>7. WriterSays'
  BY <1>1, <1>2, <1>3 DEF WriterSays, JournalsInv
<1>8. SentSays'
  BY <1>1, <1>2, <1>3 DEF SentSays, JournalsInv
<1>9. FollowerSays'
  <2>1. \A e : Publishing(e)' <=> Publishing(e)
    BY <1>1, <1>2, <1>3 DEF Publishing
  <2>2. \A e : \A r \in Of(table', e) : r \in Of(table, e) \/ (Publishing(e) /\ r = writer.event)
    BY <1>1, <1>4, <1>5 DEF Of, Publishing
  <2>. QED  BY <1>1, <1>3, <2>1, <2>2 DEF FollowerSays, JournalsInv, Reaches
<1>. QED  BY <1>5, <1>6, <1>7, <1>8, <1>9 DEF JournalsInv

(* Publishing puts one event at the end of one channel. *)
LEMMA SentAppended ==
  ASSUME JournalsInv, Publish, writer.exec \in Executions, writer.event \in Entries
  PROVE  /\ sent' \in [Executions -> Seq(Entries)]
         /\ \A e \in Executions :
              /\ Len(sent[e]) \in Nat /\ Len(sent'[e]) \in Nat
              /\ Len(sent'[e]) = IF e = writer.exec THEN Len(sent[e]) + 1 ELSE Len(sent[e])
              /\ \A i \in 1..Len(sent[e]) : sent'[e][i] = sent[e][i]
              /\ e = writer.exec => sent'[e][Len(sent[e]) + 1] = writer.event
<1>. DEFINE x == writer.exec
            s == Append(sent[x], writer.event)
<1>1. sent' = [sent EXCEPT ![x] = s] /\ sent \in [Executions -> Seq(Entries)]
  BY DEF Publish, JournalsInv, JournalsTyped
<1>2. /\ s \in Seq(Entries) /\ Len(s) = Len(sent[x]) + 1 /\ s[Len(sent[x]) + 1] = writer.event
      /\ \A i \in 1..Len(sent[x]) : s[i] = sent[x][i]
  BY <1>1, Appended
<1>3. \A e \in Executions : sent[e] \in Seq(Entries) /\ Len(sent[e]) \in Nat
  BY <1>1
<1>. HIDE DEF s
<1>. QED  BY <1>1, <1>2, <1>3

(* What publishing changes. *)
LEMMA PublishFacts ==
  ASSUME JournalsInv, Publish
  PROVE  /\ UNCHANGED <<table, runs, follower>> /\ writer.queue # <<>> /\ writer.exec \in Executions
         /\ writer.event \in Entries /\ writer'.queue = Tail(writer.queue)
         /\ writer' \in Writers
         /\ writer'.queue # <<>> => writer'.exec = writer.exec /\ writer'.event = writer.event
         /\ \/ writer' = NoRun
            \/ writer'.exec = writer.exec /\ writer'.seq = writer.seq /\ writer'.event = writer.event
         /\ sent' \in [Executions -> Seq(Entries)]
         /\ \A e \in Executions :
              /\ Len(sent[e]) \in Nat /\ Len(sent'[e]) \in Nat
              /\ Len(sent'[e]) = IF e = writer.exec THEN Len(sent[e]) + 1 ELSE Len(sent[e])
              /\ \A i \in 1..Len(sent[e]) : sent'[e][i] = sent[e][i]
              /\ e = writer.exec => sent'[e][Len(sent[e]) + 1] = writer.event
<1>1. writer.queue # <<>> /\ Head(writer.queue) = "publish" /\ UNCHANGED <<table, runs, follower>>
  BY DEF Publish
<1>2. writer.exec \in Executions /\ writer.event \in Entries
  BY <1>1 DEF JournalsInv, WriterSays
<1>3. writer \in Writers /\ writer.queue \in Queues
  BY DEF JournalsInv, JournalsTyped, Writers
<1>4. Tail(writer.queue) \in Queues
  BY <1>1, <1>3, QueueGoesOn
<1>5. CASE Tail(writer.queue) = <<>> /\ writer.event.kind = "ExecutionCompleted"
  <2>1. writer' = NoRun
    BY <1>5 DEF Publish
  <2>2. writer' \in Writers /\ writer'.queue = <<>>
    BY <2>1 DEF NoRun, Writers, Queues
  <2>. QED  BY <1>5, <2>1, <2>2, <1>1, <1>2, SentAppended
<1>6. CASE ~(Tail(writer.queue) = <<>> /\ writer.event.kind = "ExecutionCompleted")
  <2>1. writer' = [writer EXCEPT !.queue = Tail(writer.queue)]
    BY <1>6 DEF Publish
  <2>2. /\ writer' \in Writers /\ writer'.queue = Tail(writer.queue)
        /\ writer'.exec = writer.exec /\ writer'.seq = writer.seq /\ writer'.event = writer.event
    BY <1>3, <1>4, <2>1 DEF Writers
  <2>. QED  BY <2>2, <1>1, <1>2, SentAppended
<1>. QED  BY <1>5, <1>6

(* What is published comes after what was, and before it nobody has it. *)
LEMMA PublishInv ==
  ASSUME JournalsInv, Publish
  PROVE  JournalsInv'
<1>. DEFINE x == writer.exec
            ev == writer.event
<1>1. JournalsTyped' /\ OneRowPerSequence'
  BY PublishFacts DEF JournalsInv, JournalsTyped, OneRowPerSequence
<1>2. /\ x \in Executions /\ ev.exec = x /\ ev.seq = writer.seq /\ ev.run = runs[x]
      /\ Len(writer.queue) > 2 => writer.seq = 1
      /\ runs[x] \in Nat /\ writer.seq \in Nat /\ ev \in Entries
  BY PublishFacts DEF JournalsInv, WriterSays, JournalsTyped, Writers
<1>3. /\ Len(Tail(writer.queue)) > 2 => Len(writer.queue) > 2
      /\ Tail(writer.queue) # <<>> => Len(writer.queue) > 2
  <2>1. writer.queue \in Queues /\ writer.queue # <<>> /\ Head(writer.queue) = "publish"
    BY DEF JournalsInv, JournalsTyped, Writers, Publish
  <2>. QED  BY <2>1, QueueGoesOn
<1>4. WriterSays'
  <2>. SUFFICES ASSUME writer'.queue # <<>> PROVE WriterSays'
    BY DEF WriterSays
  <2>1. writer'.exec = x /\ writer'.event = ev /\ writer'.seq = writer.seq /\ runs' = runs
        /\ writer'.queue = Tail(writer.queue)
    BY PublishFacts DEF NoRun
  <2>. QED  BY <1>2, <1>3, <2>1 DEF WriterSays
<1>5. SentSays'
  <2>. SUFFICES ASSUME NEW e \in Executions, NEW i \in 1..Len(sent'[e])
       PROVE  /\ sent'[e][i].run <= runs'[e]
              /\ \A j \in 1..Len(sent'[e]) : i < j => Follows(sent'[e][i], sent'[e][j])
              /\ writer'.exec = e /\ sent'[e][i].run = runs'[e] =>
                   IF writer'.queue # <<>> THEN Follows(sent'[e][i], writer'.event)
                   ELSE sent'[e][i].seq <= writer'.seq
    BY DEF SentSays
  <2>0. runs' = runs /\ Len(sent[e]) \in Nat
    BY PublishFacts
  <2>1. ASSUME e # x
        PROVE  /\ sent'[e][i].run <= runs'[e]
               /\ \A j \in 1..Len(sent'[e]) : i < j => Follows(sent'[e][i], sent'[e][j])
               /\ writer'.exec # e
    <3>1. Len(sent'[e]) = Len(sent[e]) /\ \A j \in 1..Len(sent[e]) : sent'[e][j] = sent[e][j]
      BY <2>1, PublishFacts
    <3>2. writer'.exec # e
      BY <2>1, PublishFacts, JournalsAssumption DEF NoRun
    <3>. QED  BY <2>0, <3>1, <3>2 DEF SentSays, JournalsInv
  <2>2. ASSUME e = x
        PROVE  /\ sent'[e][i].run <= runs'[e]
               /\ \A j \in 1..Len(sent'[e]) : i < j => Follows(sent'[e][i], sent'[e][j])
               /\ writer'.exec = e /\ sent'[e][i].run = runs'[e] =>
                    IF writer'.queue # <<>> THEN Follows(sent'[e][i], writer'.event)
                    ELSE sent'[e][i].seq <= writer'.seq
    <3>. DEFINE n == Len(sent[e])
    <3>1. /\ n \in Nat /\ Len(sent'[e]) = n + 1 /\ sent'[e][n + 1] = ev
          /\ \A j \in 1..n : sent'[e][j] = sent[e][j]
      BY <2>2, PublishFacts
    <3>. HIDE DEF n
    <3>2. \A j \in 1..n : /\ sent[e][j].run \in Nat /\ sent[e][j].seq \in Nat
                          /\ sent[e][j].run <= runs[e]
                          /\ \A k \in 1..n : j < k => Follows(sent[e][j], sent[e][k])
                          /\ Follows(sent[e][j], ev)
      <4>1. \A j \in 1..n : sent[e][j].run = runs[e] => Follows(sent[e][j], ev)
        BY <2>2, PublishFacts DEF n, SentSays, JournalsInv
      <4>2. \A j \in 1..n : sent[e][j].run # runs[e] => Follows(sent[e][j], ev)
        BY <1>2, <2>2 DEF Follows
      <4>. QED  BY <4>1, <4>2, SentEntries DEF n, SentSays, JournalsInv
    <3>3. CASE i = n + 1
      <4>1. sent'[e][i] = ev /\ \A j \in 1..n + 1 : ~(i < j)
        BY <3>1, <3>3
      <4>2. writer'.exec = e /\ writer'.queue # <<>> => Follows(ev, writer'.event)
        BY <1>2, <1>3, <2>2, PublishFacts DEF Follows, NoRun
      <4>3. writer'.exec = e => ev.seq <= writer'.seq
        BY <1>2, <2>2, PublishFacts, JournalsAssumption DEF NoRun
      <4>. QED  BY <1>2, <2>0, <2>2, <3>1, <4>1, <4>2, <4>3
    <3>4. CASE i \in 1..n
      <4>1. sent'[e][i] = sent[e][i] /\ sent'[e][i].run <= runs'[e]
        BY <2>0, <3>1, <3>2, <3>4
      <4>2. \A j \in 1..Len(sent'[e]) : i < j => Follows(sent'[e][i], sent'[e][j])
        <5>. SUFFICES ASSUME NEW j \in 1..n + 1, i < j PROVE Follows(sent'[e][i], sent'[e][j])
          BY <3>1
        <5>1. CASE j = n + 1
          BY <3>1, <3>2, <3>4, <4>1, <5>1
        <5>2. CASE j \in 1..n
          BY <3>1, <3>2, <3>4, <4>1, <5>2
        <5>. QED  BY <3>1, <5>1, <5>2
      <4>3. writer'.exec = e => writer'.event = ev /\ writer'.seq = writer.seq
        BY <2>2, PublishFacts, JournalsAssumption DEF NoRun
      <4>4. sent[e][i].run = runs[e] => sent[e][i].seq <= writer.seq
        BY <1>2, <2>2, <3>2, <3>4 DEF Follows
      <4>. QED  BY <2>0, <3>2, <3>4, <4>1, <4>2, <4>3, <4>4
    <3>. QED  BY <3>1, <3>3, <3>4
  <2>. QED  BY <2>1, <2>2
<1>6. FollowerSays'
  <2>. DEFINE f == follower
              e == f.exec
  <2>. SUFFICES ASSUME follower # None PROVE FollowerSays'
    BY PublishFacts DEF FollowerSays
  <2>1. /\ f' = f /\ e \in Executions /\ table' = table /\ Len(sent[e]) \in Nat /\ f.at \in Nat
        /\ f.at <= Len(sent[e]) /\ Len(sent[e]) <= Len(sent'[e])
        /\ \A i \in 1..Len(sent[e]) : i \in 1..Len(sent'[e]) /\ sent'[e][i] = sent[e][i]
    <3>1. e \in Executions /\ f.at \in 0..Len(sent[e])
      BY DEF FollowerSays, JournalsInv
    <3>2. f' = f /\ table' = table
      BY PublishFacts
    <3>3. /\ Len(sent[e]) \in Nat /\ Len(sent'[e]) \in Nat /\ Len(sent[e]) <= Len(sent'[e])
          /\ \A i \in 1..Len(sent[e]) : sent'[e][i] = sent[e][i]
      BY <3>1, PublishFacts
    <3>. HIDE DEF e, f
    <3>. QED  BY <3>1, <3>2, <3>3
  <2>2. ASSUME f.history # None, f.lost = 0, NEW r \in Of(table, e)
        PROVE  Reaches(f, r)'
    <3>1. Reaches(f, r)
      BY <2>2 DEF FollowerSays, JournalsInv
    <3>2. CASE r \in Seen(f)
      BY <2>1, <3>2 DEF Reaches, Seen
    <3>3. CASE \E j \in 1..Len(sent[e]) : f.at < j /\ sent[e][j] = r
      BY <2>1, <3>3 DEF Reaches
    <3>4. CASE Publishing(e) /\ r = writer.event
      <4>0. e = writer.exec
        BY <3>4 DEF Publishing
      <4>1. Len(sent[e]) + 1 \in 1..Len(sent'[e]) /\ sent'[e][Len(sent[e]) + 1] = r
        <5>1. Len(sent'[e]) = Len(sent[e]) + 1 /\ sent'[e][Len(sent[e]) + 1] = r
          BY <2>1, <3>4, <4>0, PublishFacts
        <5>. QED  BY <2>1, <5>1
      <4>2. f.at < Len(sent[e]) + 1
        BY <2>1
      <4>. QED  BY <2>1, <4>1, <4>2 DEF Reaches
    <3>. QED  BY <3>1, <3>2, <3>3, <3>4 DEF Reaches
  <2>3. f.got # <<>> => \E i \in 1..f.at : sent'[e][i] = f.got[Len(f.got)]
    <3>1. f.got # <<>> => \E i \in 1..f.at : sent[e][i] = f.got[Len(f.got)]
      BY DEF FollowerSays, JournalsInv
    <3>. QED  BY <2>1, <3>1
  <2>4. f.at \in 0..Len(sent'[e])
    BY <2>1, PublishFacts
  <2>. QED  BY <2>1, <2>2, <2>3, <2>4 DEF FollowerSays, JournalsInv
<1>. QED  BY <1>1, <1>4, <1>5, <1>6 DEF JournalsInv

(* With the process its channels and followers are gone. *)
LEMMA CrashInv ==
  ASSUME JournalsInv, Crash
  PROVE  JournalsInv'
<1>1. /\ UNCHANGED <<table, runs>> /\ writer' = NoRun
      /\ sent' = [e \in Executions |-> <<>>] /\ follower' = None
  BY DEF Crash
<1>2. writer' \in Writers /\ writer'.queue = <<>>
  BY <1>1 DEF NoRun, Writers, Queues
<1>. QED  BY <1>1, <1>2 DEF JournalsInv, JournalsTyped, OneRowPerSequence, WriterSays, SentSays,
          FollowerSays

(* Rows are dropped on request. *)
LEMMA TableCut ==
  ASSUME JournalsInv, table' \subseteq table, UNCHANGED <<sent, writer, runs, follower>>
  PROVE  JournalsInv'
<1>1. IsFiniteSet(table')
  BY FS_Subset DEF JournalsInv, JournalsTyped
<1>2. \A e : Of(table', e) \subseteq Of(table, e)
  BY DEF Of
<1>3. FollowerSays'
  BY <1>2 DEF JournalsInv, FollowerSays, Reaches, Seen, Publishing
<1>. QED  BY <1>1, <1>3 DEF JournalsInv, JournalsTyped, OneRowPerSequence, WriterSays, SentSays

(* Only the follower moves. *)
LEMMA OnlyFollower ==
  ASSUME JournalsInv, FollowerSays', UNCHANGED <<table, sent, writer, runs>>
  PROVE  JournalsInv'
BY DEF JournalsInv, JournalsTyped, OneRowPerSequence, WriterSays, SentSays

(* A receiver starts at the end of the channel. *)
LEMMA SubscribeInv ==
  ASSUME JournalsInv, NEW e \in Executions, Subscribe(e)
  PROVE  JournalsInv'
<1>1. /\ follower' = [exec |-> e, at |-> Len(sent[e]), got |-> <<>>, lost |-> 0,
                      history |-> None]
      /\ UNCHANGED <<table, sent, writer, runs>>
  BY DEF Subscribe
<1>2. Len(sent[e]) \in Nat
  BY DEF JournalsInv, JournalsTyped
<1>3. FollowerSays'
  BY <1>1, <1>2 DEF FollowerSays
<1>. QED  BY <1>1, <1>3, OnlyFollower

(* The history shows every row of the table. *)
LEMMA ReplayInv ==
  ASSUME JournalsInv, Replay
  PROVE  JournalsInv'
<1>. DEFINE f == follower
            h == replay(f.exec, -1)
<1>1. f # None /\ f' = [f EXCEPT !.history = h] /\ UNCHANGED <<table, sent, writer, runs>>
  BY DEF Replay
<1>2. /\ f.exec \in Executions
      /\ f = [exec |-> f.exec, at |-> f.at, got |-> f.got, lost |-> f.lost, history |-> f.history]
  BY <1>1 DEF JournalsInv, FollowerSays
<1>3. Of(table, f.exec) \subseteq ToSet(h)
  <2>. DEFINE rows == {r \in Of(table, f.exec) : r.seq > -1}
  <2>1. Of(table, f.exec) \subseteq table /\ \A r \in table : r.seq \in Nat
    BY DEF Of, JournalsInv, JournalsTyped, Entries
  <2>2. rows = Of(table, f.exec)
    BY <2>1
  <2>3. h = Ordered(rows)
    BY DEF replay
  <2>4. /\ IsFiniteSet(rows) /\ \A r \in rows : r.seq \in Nat
        /\ \A a, b \in rows : a.seq = b.seq => a = b
    <3>1. IsFiniteSet(rows)
      BY <2>1, <2>2, FS_Subset DEF JournalsInv, JournalsTyped
    <3>2. \A a, b \in rows : a.seq = b.seq => a = b
      BY <2>1, <2>2 DEF JournalsInv, OneRowPerSequence, Of
    <3>. QED  BY <2>1, <2>2, <3>1, <3>2
  <2>. HIDE DEF rows, h
  <2>. QED  BY <2>2, <2>3, <2>4, OrderedShows
<1>. HIDE DEF h, f
<1>4. /\ f'.exec = f.exec /\ f'.at = f.at /\ f'.got = f.got /\ f'.lost = f.lost /\ f'.history = h
      /\ f' = [exec |-> f.exec, at |-> f.at, got |-> f.got, lost |-> f.lost, history |-> h]
  BY <1>1, <1>2
<1>5. FollowerSays'
  BY <1>1, <1>3, <1>4 DEF FollowerSays, JournalsInv, Reaches, Seen, f
<1>. QED  BY <1>1, <1>5, OnlyFollower

(* A receiver gets the next event, or learns that it has lost some. *)
LEMMA ReceiveInv ==
  ASSUME JournalsInv, Receive
  PROVE  JournalsInv'
<1>. DEFINE f      == follower
            ch     == sent[f.exec]
            behind == Len(ch) - f.at
<1>1. f # None /\ behind > 0 /\ UNCHANGED <<table, sent, writer, runs>>
  BY DEF Receive
<1>2. /\ f.exec \in Executions /\ f.got \in Seq(Entries) /\ f.lost \in Nat /\ f.at \in 0..Len(ch)
      /\ f = [exec |-> f.exec, at |-> f.at, got |-> f.got, lost |-> f.lost, history |-> f.history]
  BY <1>1 DEF JournalsInv, FollowerSays
<1>3. ch \in Seq(Entries) /\ Len(ch) \in Nat /\ f.at \in Nat /\ Len(f.got) \in Nat
  BY <1>2 DEF JournalsInv, JournalsTyped
<1>4. ASSUME behind > Capacity
      PROVE  FollowerSays'
  <2>. DEFINE at   == Len(ch) - Capacity
              lost == f.lost + behind - Capacity
  <2>1. f' = [f EXCEPT !.at = at, !.lost = lost]
    BY <1>4 DEF Receive
  <2>2. at \in f.at..Len(ch) /\ lost \in Nat /\ lost # 0
    <3>. DEFINE n == Len(ch)
                a == f.at
                b == f.lost
    <3>1. n \in Nat /\ a \in Nat /\ b \in Nat /\ n - a > Capacity
      BY <1>2, <1>3, <1>4
    <3>. HIDE DEF n, a, b
    <3>2. n - Capacity \in a..n /\ b + (n - a) - Capacity \in Nat /\ b + (n - a) - Capacity # 0
      BY <3>1, JournalsAssumption
    <3>. QED  BY <3>2 DEF n, a, b
  <2>. HIDE DEF at, lost, f
  <2>3. /\ f'.exec = f.exec /\ f'.at = at /\ f'.got = f.got /\ f'.lost = lost
        /\ f' = [exec |-> f.exec, at |-> at, got |-> f.got, lost |-> lost, history |-> f.history]
    BY <1>2, <2>1
  <2>4. f.got # <<>> => \E i \in 1..at : ch[i] = f.got[Len(f.got)]
    <3>1. f.got # <<>> => \E i \in 1..f.at : ch[i] = f.got[Len(f.got)]
      BY <1>1 DEF JournalsInv, FollowerSays, f
    <3>. QED  BY <1>3, <2>2, <3>1
  <2>5. at \in 0..Len(ch)
    BY <1>3, <2>2
  <2>6. \A i \in 1..Len(f.got) - 1 : Follows(f.got[i], f.got[i + 1])
    BY <1>1 DEF JournalsInv, FollowerSays, f
  <2>. QED  BY <1>1, <1>2, <2>2, <2>3, <2>4, <2>5, <2>6 DEF FollowerSays, f
<1>5. ASSUME ~(behind > Capacity)
      PROVE  FollowerSays'
  <2>. DEFINE n   == f.at + 1
              got == Append(f.got, ch[n])
  <2>1. f' = [f EXCEPT !.at = n, !.got = got]
    BY <1>5 DEF Receive
  <2>2. n \in 1..Len(ch) /\ ch[n] \in Entries
    BY <1>1, <1>2, <1>3
  <2>3. /\ got \in Seq(Entries) /\ Len(got) = Len(f.got) + 1 /\ got[Len(f.got) + 1] = ch[n]
        /\ \A i \in 1..Len(f.got) : got[i] = f.got[i]
    BY <1>2, <2>2, Appended
  <2>. HIDE DEF got, f
  <2>4. /\ f'.exec = f.exec /\ f'.at = n /\ f'.got = got /\ f'.lost = f.lost
        /\ f'.history = f.history
        /\ f' = [exec |-> f.exec, at |-> n, got |-> got, lost |-> f.lost, history |-> f.history]
    BY <1>2, <2>1
  <2>5. \A i \in 1..Len(got) - 1 : Follows(got[i], got[i + 1])
    <3>. SUFFICES ASSUME NEW i \in 1..Len(got) - 1 PROVE Follows(got[i], got[i + 1])
      OBVIOUS
    <3>1. CASE i < Len(f.got)
      <4>1. got[i] = f.got[i] /\ got[i + 1] = f.got[i + 1] /\ i \in 1..Len(f.got) - 1
        BY <1>3, <2>3, <3>1
      <4>. QED  BY <1>1, <4>1 DEF JournalsInv, FollowerSays, f
    <3>2. CASE i = Len(f.got)
      <4>1. f.got # <<>> /\ got[i] = f.got[Len(f.got)] /\ got[i + 1] = ch[n]
        BY <1>2, <1>3, <2>3, <3>2
      <4>2. PICK k \in 1..f.at : ch[k] = f.got[Len(f.got)]
        BY <1>1, <4>1 DEF JournalsInv, FollowerSays, f
      <4>3. k \in 1..Len(ch) /\ k < n
        BY <1>2, <1>3
      <4>4. Follows(ch[k], ch[n])
        BY <1>2, <2>2, <4>3 DEF JournalsInv, SentSays
      <4>. QED  BY <4>1, <4>2, <4>4
    <3>. QED  BY <1>3, <2>3, <3>1, <3>2
  <2>6. got # <<>> /\ \E i \in 1..n : ch[i] = got[Len(got)]
    BY <1>3, <2>2, <2>3
  <2>7. ToSet(f.got) \cup {ch[n]} \subseteq ToSet(got)
    <3>1. DOMAIN got = 1..Len(got) /\ DOMAIN f.got = 1..Len(f.got)
      BY <1>2, <2>3
    <3>2. ch[n] \in ToSet(got)
      <4>1. Len(got) \in DOMAIN got /\ got[Len(got)] = ch[n]
        BY <1>3, <2>3, <3>1
      <4>. QED  BY <4>1 DEF ToSet
    <3>3. \A i \in 1..Len(f.got) : got[i] = f.got[i] /\ i \in 1..Len(got)
      BY <1>3, <2>3
    <3>4. ToSet(f.got) \subseteq ToSet(got)
      BY <3>1, <3>3 DEF ToSet
    <3>. QED  BY <3>2, <3>4
  <2>8. ASSUME f.history # None, f.lost = 0, NEW r \in Of(table, f.exec)
        PROVE  Reaches(f, r)'
    <3>1. Reaches(f, r)
      BY <1>1, <2>8 DEF JournalsInv, FollowerSays, f
    <3>2. CASE r \in Seen(f)
      BY <2>4, <2>7, <3>2 DEF Reaches, Seen
    <3>3. CASE \E j \in 1..Len(ch) : f.at < j /\ ch[j] = r
      <4>1. PICK j \in 1..Len(ch) : f.at < j /\ ch[j] = r
        BY <3>3
      <4>2. CASE j = n
        BY <2>4, <2>7, <4>1, <4>2 DEF Reaches, Seen
      <4>3. CASE j # n
        <5>1. n < j
          BY <1>3, <4>1, <4>3
        <5>. QED  BY <1>1, <2>4, <4>1, <5>1 DEF Reaches
      <4>. QED  BY <4>2, <4>3
    <3>4. CASE Publishing(f.exec) /\ r = writer.event
      BY <1>1, <2>4, <3>4 DEF Reaches, Publishing
    <3>. QED  BY <3>1, <3>2, <3>3, <3>4 DEF Reaches
  <2>9. n \in 0..Len(ch)
    BY <1>3, <2>2
  <2>. QED  BY <1>1, <1>2, <2>3, <2>4, <2>5, <2>6, <2>8, <2>9 DEF FollowerSays, f
<1>. QED  BY <1>1, <1>4, <1>5, OnlyFollower

(* Every step keeps channels, table and follower together. *)
LEMMA JournalsStep ==
  ASSUME JournalsInv, NextJournals
  PROVE  JournalsInv'
<1>1. ASSUME NEW e, NEW n, truncate_before(e, n)
      PROVE  JournalsInv'
  BY <1>1, TableCut DEF truncate_before
<1>2. ASSUME NEW e, delete_all(e)
      PROVE  JournalsInv'
  BY <1>2, TableCut DEF delete_all
<1>3. ASSUME NEW s \in Steps, NEW kind \in {"StepStarted", "StepCompleted", "StepFailed", "StepSkipped"},
             WriteEvent(kind, s)
      PROVE  JournalsInv'
  BY <1>3, WriteEventInv DEF Kinds
<1>4. CASE WriteEvent("ExecutionCompleted", None)
  BY <1>4, WriteEventInv DEF Kinds
<1>. QED  BY <1>1, <1>2, <1>3, <1>4, StartRunInv, StoreInv, PublishInv, CrashInv, SubscribeInv,
          ReplayInv, ReceiveInv DEF NextJournals

(* Which is what a follower is promised. *)
LEMMA JournalsInvSays ==
  ASSUME JournalsInv
  PROVE  NothingMissed
<1>. SUFFICES ASSUME follower # None PROVE NothingMissed
  BY DEF NothingMissed
<1>1. \A i \in 1..Len(follower.got) - 1 : Follows(follower.got[i], follower.got[i + 1])
  BY DEF JournalsInv, FollowerSays
<1>2. ASSUME follower.history # None, follower.lost = 0,
             follower.at = Len(sent[follower.exec]), ~Publishing(follower.exec)
      PROVE  Of(table, follower.exec) \subseteq Seen(follower)
  <2>1. Len(sent[follower.exec]) \in Nat
    BY DEF JournalsInv, JournalsTyped, FollowerSays
  <2>. QED  BY <1>2, <2>1 DEF JournalsInv, FollowerSays, Reaches
<1>. QED  BY <1>1, <1>2 DEF NothingMissed, Follows

(* Who follows an execution misses no event, if it subscribed before it    *)
(* read the history and was not told of a loss.                            *)
THEOREM FollowersMissNothing == SpecArchive => []NothingMissed
<1>1. InitArchive => JournalsInv
  BY InitJournalsInv DEF InitArchive
<1>2. JournalsInv /\ [NextArchive]_<<repo, store, journals>> => JournalsInv'
  <2>. SUFFICES ASSUME JournalsInv, [NextArchive]_<<repo, store, journals>> PROVE JournalsInv'
    OBVIOUS
  <2>1. UNCHANGED journals => JournalsInv'
    BY DEF journals, JournalsInv, JournalsTyped, OneRowPerSequence, WriterSays, SentSays,
       FollowerSays, Reaches, Seen, Publishing
  <2>. QED  BY <2>1, JournalsStep DEF NextArchive
<1>. QED  BY <1>1, <1>2, JournalsInvSays, PTL DEF SpecArchive

(***************************************************************************)
(* What a state manager reads back.                                        *)
(***************************************************************************)
StepKinds == {"StepStarted", "StepCompleted", "StepFailed", "StepSkipped"}

\* An event is about a step if its kind says so.
Worded(r) == r.step = None <=> r.kind \notin StepKinds

Knows(c, f, k, n, b) ==
  [completed |-> c, failed |-> f, skipped |-> k, in_flight |-> n, clean |-> b]

\* What the events of a sequence at these places say.
Named(q, T, kind) == {q[i].step : i \in {j \in T : q[j].kind = kind}}
LastSaid(q, T) == {i \in T : /\ q[i].kind = "StepStarted"
                             /\ \A j \in T : q[j].step = q[i].step => j <= i}
Known(q, T) ==
  Knows(Named(q, T, "StepCompleted"), Named(q, T, "StepFailed"), Named(q, T, "StepSkipped"),
        {q[i].step : i \in LastSaid(q, T)}, Named(q, T, "ExecutionCompleted") # {})

(* What one more event changes. *)
LEMMA ReadsGives ==
  ASSUME NEW c, NEW f, NEW k, NEW n, NEW b, NEW r
  PROVE  Reads(Knows(c, f, k, n, b), r) =
           Knows(IF r.kind = "StepCompleted" THEN c \cup {r.step} ELSE c,
                 IF r.kind = "StepFailed" THEN f \cup {r.step} ELSE f,
                 IF r.kind = "StepSkipped" THEN k \cup {r.step} ELSE k,
                 IF r.kind = "StepStarted" THEN n \cup {r.step}
                 ELSE IF r.kind \in StepKinds THEN n \ {r.step} ELSE n,
                 IF r.kind = "ExecutionCompleted" THEN TRUE ELSE b)
<1>. DEFINE known == Knows(c, f, k, n, b)
<1>1. CASE r.kind = "StepStarted"
  BY <1>1 DEF Reads, StepKinds, Knows
<1>2. CASE r.kind = "StepCompleted"
  BY <1>2 DEF Reads, StepKinds, Knows
<1>3. CASE r.kind = "StepFailed"
  BY <1>3 DEF Reads, StepKinds, Knows
<1>4. CASE r.kind = "StepSkipped"
  BY <1>4 DEF Reads, StepKinds, Knows
<1>5. CASE r.kind = "ExecutionCompleted"
  BY <1>5 DEF Reads, StepKinds, Knows
<1>6. CASE r.kind \notin StepKinds \cup {"ExecutionCompleted"}
  <2>1. Reads(known, r) = known
    BY <1>6 DEF Reads, StepKinds, Knows
  <2>. QED  BY <1>6, <2>1 DEF StepKinds, Knows
<1>. QED  BY <1>1, <1>2, <1>3, <1>4, <1>5, <1>6 DEF StepKinds

(* The events up to one say what those before it say, and what it says. *)
LEMMA OneMore ==
  ASSUME NEW q, NEW T \in SUBSET Nat, NEW x \in T, \A y \in T : y <= x,
         \A i \in T : Worded(q[i])
  PROVE  Known(q, T) = Reads(Known(q, T \ {x}), q[x])
<1>. DEFINE U == T \ {x}
            r == q[x]
<1>1. T = U \cup {x} /\ x \notin U /\ \A j \in U : j < x
  OBVIOUS
<1>2. ASSUME NEW kind
      PROVE  Named(q, T, kind) = IF r.kind = kind THEN Named(q, U, kind) \cup {r.step}
                                 ELSE Named(q, U, kind)
  <2>. HIDE DEF U
  <2>. QED  BY <1>1 DEF Named
<1>3. {q[i].step : i \in LastSaid(q, T)} =
        IF r.kind = "StepStarted" THEN {q[i].step : i \in LastSaid(q, U)} \cup {r.step}
        ELSE IF r.kind \in StepKinds THEN {q[i].step : i \in LastSaid(q, U)} \ {r.step}
        ELSE {q[i].step : i \in LastSaid(q, U)}
  <2>. DEFINE A == LastSaid(q, T)
              B == LastSaid(q, U)
  <2>1. x \in A <=> r.kind = "StepStarted"
    BY DEF LastSaid
  <2>2. \A i \in U : i \in A <=> i \in B /\ q[i].step # r.step
    <3>. SUFFICES ASSUME NEW i \in U
                  PROVE  i \in A <=> i \in B /\ q[i].step # r.step
      OBVIOUS
    <3>1. i \in Nat /\ x \in Nat /\ i < x
      BY <1>1
    <3>2. ~(x <= i)
      BY <3>1
    <3>. HIDE DEF U
    <3>3. i \in A <=> /\ q[i].kind = "StepStarted"
                     /\ \A j \in T : q[j].step = q[i].step => j <= i
      BY <1>1 DEF LastSaid
    <3>4. i \in B <=> /\ q[i].kind = "StepStarted"
                     /\ \A j \in U : q[j].step = q[i].step => j <= i
      BY DEF LastSaid
    <3>. HIDE DEF A, B
    <3>. QED  BY <1>1, <3>2, <3>3, <3>4, Zenon
  <2>3. A \subseteq U \cup {x} /\ B \subseteq U
    BY DEF LastSaid
  <2>4. \A i \in B : q[i].step # None
    BY DEF LastSaid, Worded, StepKinds
  <2>5. r.kind \notin StepKinds => r.step = None
    BY DEF Worded
  <2>6. "StepStarted" \in StepKinds
    BY DEF StepKinds
  <2>. HIDE DEF A, B, U, r, StepKinds
  <2>7. CASE r.kind = "StepStarted"
    <3>1. {q[i].step : i \in A} = {q[i].step : i \in B} \cup {q[x].step}
      BY <1>1, <2>1, <2>2, <2>3, <2>7 DEF r
    <3>. QED  BY <2>7, <3>1 DEF A, B, r
  <2>8. CASE r.kind # "StepStarted" /\ r.kind \in StepKinds
    <3>1. {q[i].step : i \in A} = {q[i].step : i \in B} \ {q[x].step}
      BY <2>1, <2>2, <2>3, <2>8 DEF r
    <3>. QED  BY <2>8, <3>1 DEF A, B, r
  <2>9. CASE r.kind \notin StepKinds
    <3>1. A = B
      BY <2>1, <2>2, <2>3, <2>4, <2>5, <2>6, <2>9
    <3>. QED  BY <2>6, <2>9, <3>1 DEF A, B, r
  <2>. QED  BY <2>7, <2>8, <2>9
<1>4. (Named(q, T, "ExecutionCompleted") # {}) =
        IF r.kind = "ExecutionCompleted" THEN TRUE ELSE Named(q, U, "ExecutionCompleted") # {}
  BY <1>2
<1>. HIDE DEF U, r
<1>. DEFINE c == Named(q, U, "StepCompleted")
            f == Named(q, U, "StepFailed")
            k == Named(q, U, "StepSkipped")
            n == {q[i].step : i \in LastSaid(q, U)}
            b == Named(q, U, "ExecutionCompleted") # {}
<1>. HIDE DEF c, f, k, n, b
<1>5. Reads(Knows(c, f, k, n, b), r) =
        Knows(IF r.kind = "StepCompleted" THEN c \cup {r.step} ELSE c,
              IF r.kind = "StepFailed" THEN f \cup {r.step} ELSE f,
              IF r.kind = "StepSkipped" THEN k \cup {r.step} ELSE k,
              IF r.kind = "StepStarted" THEN n \cup {r.step}
              ELSE IF r.kind \in StepKinds THEN n \ {r.step} ELSE n,
              IF r.kind = "ExecutionCompleted" THEN TRUE ELSE b)
  BY ReadsGives
<1>. QED  BY <1>2, <1>3, <1>4, <1>5 DEF Known, U, r, c, f, k, n, b

Folded(h, q) ==
  h = [T \in SUBSET DOMAIN q |-> IF T = {} THEN Nothing ELSE Reads(h[T \ {Max(T)}], q[Max(T)])]

LEMMA FoldedUnfolds ==
  ASSUME NEW h, NEW q, Folded(h, q), NEW T, T \subseteq DOMAIN q
  PROVE  h[T] = IF T = {} THEN Nothing ELSE Reads(h[T \ {Max(T)}], q[Max(T)])
BY DEF Folded

(* A fold of the events is what all of them say. *)
LEMMA FoldIsKnown ==
  ASSUME NEW q \in Seq(Entries), \A i \in DOMAIN q : Worded(q[i])
  PROVE  FoldLeft(Reads, Nothing, q) = Known(q, DOMAIN q)
<1>. DEFINE D == DOMAIN q
            g == [T \in SUBSET D |-> Known(q, T)]
<1>1. FoldLeft(Reads, Nothing, q) = (CHOOSE h : Folded(h, q))[D]
  BY DEF FoldLeft, MapThenFoldSet, Folded
<1>2. D = 1..Len(q) /\ Len(q) \in Nat /\ IsFiniteSet(D) /\ D \in SUBSET Nat
  BY FS_Interval
<1>. HIDE DEF D
<1>3. ASSUME NEW T, T \subseteq D, T # {}
      PROVE  Max(T) \in T /\ T \ {Max(T)} \subseteq D
             /\ Known(q, T) = Reads(Known(q, T \ {Max(T)}), q[Max(T)])
  <2>1. IsFiniteSet(T) /\ T \in SUBSET Int /\ T \in SUBSET Nat
    <3>1. IsFiniteSet(T)
      BY <1>2, <1>3, FS_Subset
    <3>. QED  BY <1>2, <1>3, <3>1
  <2>2. Max(T) \in T /\ \A y \in T : y <= Max(T)
    BY <1>3, <2>1, GreatestOf
  <2>3. \A i \in T : Worded(q[i])
    BY <1>3 DEF D
  <2>. QED  BY <1>3, <2>1, <2>2, <2>3, OneMore
<1>4. Known(q, {}) = Nothing
  BY DEF Known, Knows, Named, LastSaid, Nothing
<1>5. Folded(g, q)
  <2>1. \A T \in SUBSET D :
          Known(q, T) = IF T = {} THEN Nothing ELSE Reads(g[T \ {Max(T)}], q[Max(T)])
    BY <1>3, <1>4
  <2>. QED  BY <2>1 DEF Folded, D
<1>6. ASSUME NEW h, Folded(h, q) PROVE h[D] = Known(q, D)
  <2>. DEFINE Bad == {T \in SUBSET D : h[T] # Known(q, T)}
              T == Smallest(Bad)
  <2>. SUFFICES ASSUME Bad # {} PROVE FALSE
    OBVIOUS
  <2>1. T \in Bad /\ \A U \in Bad : U \subseteq T => U = T
    <3>1. Bad \subseteq SUBSET D
      OBVIOUS
    <3>. HIDE DEF Bad
    <3>. QED  BY <1>2, <3>1, SmallestPart
  <2>. HIDE DEF T
  <2>2. T \subseteq D /\ h[T] = IF T = {} THEN Nothing ELSE Reads(h[T \ {Max(T)}], q[Max(T)])
    <3>1. T \subseteq DOMAIN q
      BY <2>1 DEF D
    <3>. QED  BY <1>6, <3>1, FoldedUnfolds DEF D
  <2>3. T # {}
    BY <1>4, <2>1, <2>2
  <2>4. h[T \ {Max(T)}] = Known(q, T \ {Max(T)})
    BY <1>3, <2>1, <2>2, <2>3
  <2>. QED  BY <1>3, <2>1, <2>2, <2>3, <2>4
<1>. QED  BY <1>1, <1>5, <1>6 DEF D

\* What is written in the table of an execution.
Written(e, kind) == {r.step : r \in {x \in Of(table, e) : x.kind = kind}}
Begun(e) == {r \in Of(table, e) : /\ r.kind = "StepStarted"
                                  /\ \A o \in Of(table, e) : o.step = r.step => o.seq <= r.seq}

(* recover reads every row, and the rows in their order. *)
LEMMA RecoverIs ==
  ASSUME JournalsInv, \A r \in table : Worded(r), NEW e \in Executions
  PROVE  recover(e) = Knows(Written(e, "StepCompleted"), Written(e, "StepFailed"),
                            Written(e, "StepSkipped"), {r.step : r \in Begun(e)},
                            Written(e, "ExecutionCompleted") # {})
<1>. DEFINE rows  == Of(table, e)
            order == Pairs(rows, Earlier)
            q     == InTurn(rows, order)
<1>1. /\ rows \subseteq table /\ rows \subseteq Entries /\ \A r \in rows : r.seq \in Nat
      /\ \A a, b \in rows : a.seq = b.seq => a = b
  BY DEF JournalsInv, JournalsTyped, OneRowPerSequence, Of, Entries
<1>2. IsFiniteSet(rows)
  BY <1>1, FS_Subset DEF JournalsInv, JournalsTyped
<1>3. recover(e) = FoldLeft(Reads, Nothing, q)
  <2>1. {r \in rows : r.seq > -1} = rows
    BY <1>1
  <2>. QED  BY <2>1 DEF recover, replay, Ordered
<1>. HIDE DEF rows
<1>4. Strict(order, rows) /\ Comparable(order, rows)
  BY <1>1 DEF Pairs, Earlier, Strict, Comparable
<1>5. \A a, b \in rows : <<a, b>> \in order => a.seq < b.seq
  BY DEF Pairs, Earlier
<1>. HIDE DEF order
<1>6. /\ q \in Seq(rows) /\ Len(q) \in Nat
      /\ \A r \in rows : \E i \in 1..Len(q) : q[i] = r
      /\ \A i, j \in 1..Len(q) : i < j => <<q[i], q[j]>> \in order
  BY <1>2, <1>4, InTurnShows
<1>. HIDE DEF q
<1>7. DOMAIN q = 1..Len(q) /\ \A i \in DOMAIN q : q[i] \in rows /\ Worded(q[i])
  BY <1>1, <1>6
<1>8. \A i, j \in DOMAIN q : j <= i <=> q[j].seq <= q[i].seq
  <2>1. \A i, j \in DOMAIN q : i < j => q[i].seq < q[j].seq
    BY <1>5, <1>6, <1>7
  <2>2. \A i \in DOMAIN q : i \in Nat /\ q[i].seq \in Nat
    BY <1>1, <1>7
  <2>. QED  BY <2>1, <2>2
<1>9. recover(e) = Known(q, DOMAIN q)
  <2>1. q \in Seq(Entries)
    BY <1>1, <1>6
  <2>. QED  BY <1>3, <1>7, <2>1, FoldIsKnown
<1>10. ASSUME NEW kind PROVE Named(q, DOMAIN q, kind) = Written(e, kind)
  <2>1. \A i \in DOMAIN q : q[i].kind = kind => q[i].step \in Written(e, kind)
    BY <1>7 DEF Written, rows
  <2>2. \A r \in rows : r.kind = kind => r.step \in Named(q, DOMAIN q, kind)
    BY <1>6, <1>7 DEF Named
  <2>. QED  BY <2>1, <2>2 DEF Named, Written, rows
<1>11. {q[i].step : i \in LastSaid(q, DOMAIN q)} = {r.step : r \in Begun(e)}
  <2>1. ASSUME NEW i \in DOMAIN q PROVE i \in LastSaid(q, DOMAIN q) <=> q[i] \in Begun(e)
    <3>1. (\A j \in DOMAIN q : q[j].step = q[i].step => j <= i) <=>
            (\A o \in rows : o.step = q[i].step => o.seq <= q[i].seq)
      BY <1>6, <1>7, <1>8
    <3>. QED  BY <1>7, <3>1 DEF LastSaid, Begun, rows
  <2>2. \A r \in Begun(e) : \E i \in DOMAIN q : q[i] = r
    BY <1>6, <1>7 DEF Begun, rows
  <2>3. LastSaid(q, DOMAIN q) \subseteq DOMAIN q
    BY DEF LastSaid
  <2>. QED  BY <2>1, <2>2, <2>3
<1>. QED  BY <1>9, <1>10, <1>11 DEF Known

\* Of the rows t has those of s, in their order.
Remains(s, rows, t) ==
  /\ \A r : r \in ToSet(t) <=> r \in ToSet(s) /\ r \in rows
  /\ \A i, j \in DOMAIN t : i < j =>
       \E k, l \in DOMAIN s : k < l /\ s[k] = t[i] /\ s[l] = t[j]

(* What is left of a sequence is in its order. *)
LEMMA ThoseRemain ==
  ASSUME NEW S, NEW s \in Seq(S), NEW rows
  PROVE  Those(s, rows) \in Seq(S) /\ Remains(s, rows, Those(s, rows))
<1>. DEFINE places == {i \in DOMAIN s : s[i] \in rows}
            order  == Pairs(places, Sooner)
            p      == InTurn(places, order)
            t      == Those(s, rows)
<1>1. DOMAIN s = 1..Len(s) /\ Len(s) \in Nat /\ \A i \in DOMAIN s : s[i] \in S
  OBVIOUS
<1>2. IsFiniteSet(places) /\ places \subseteq DOMAIN s /\ \A i \in places : i \in Nat
  <2>1. IsFiniteSet(1..Len(s))
    BY <1>1, FS_Interval
  <2>. QED  BY <1>1, <2>1, FS_Subset
<1>3. \A i \in DOMAIN s : i \in places <=> s[i] \in rows
  OBVIOUS
<1>4. t = [i \in DOMAIN p |-> s[p[i]]]
  BY DEF Those
<1>. HIDE DEF places, t
<1>5. Strict(order, places) /\ Comparable(order, places)
  BY <1>2 DEF Pairs, Sooner, Strict, Comparable
<1>6. \A a, b \in places : <<a, b>> \in order => a < b
  BY DEF Pairs, Sooner
<1>. HIDE DEF order
<1>7. /\ p \in Seq(places) /\ Len(p) \in Nat
      /\ \A a \in places : \E i \in 1..Len(p) : p[i] = a
      /\ \A i, j \in 1..Len(p) : i < j => <<p[i], p[j]>> \in order
  BY <1>2, <1>5, InTurnShows
<1>. HIDE DEF p
<1>8. DOMAIN p = 1..Len(p) /\ \A i \in DOMAIN p : p[i] \in places
  BY <1>7
<1>9. DOMAIN t = 1..Len(p) /\ \A i \in DOMAIN t : t[i] = s[p[i]] /\ p[i] \in DOMAIN s
  BY <1>2, <1>4, <1>8
<1>10. t \in Seq(S)
  <2>. DEFINE n == Len(p)
  <2>1. t \in [1..n -> S] /\ n \in Nat
    BY <1>1, <1>4, <1>7, <1>8, <1>9
  <2>. HIDE DEF n
  <2>. QED  BY <2>1
<1>11. ASSUME NEW r PROVE r \in ToSet(t) <=> r \in ToSet(s) /\ r \in rows
  <2>1. ASSUME r \in ToSet(t) PROVE r \in ToSet(s) /\ r \in rows
    <3>1. PICK i \in DOMAIN t : t[i] = r
      BY <2>1 DEF ToSet
    <3>2. p[i] \in DOMAIN s /\ p[i] \in places /\ s[p[i]] = r
      BY <1>8, <1>9, <3>1
    <3>. QED  BY <1>3, <3>2 DEF ToSet
  <2>2. ASSUME r \in ToSet(s), r \in rows PROVE r \in ToSet(t)
    <3>1. PICK a \in DOMAIN s : s[a] = r
      BY <2>2 DEF ToSet
    <3>2. PICK i \in 1..Len(p) : p[i] = a
      BY <1>3, <1>7, <2>2, <3>1
    <3>. QED  BY <1>9, <3>1, <3>2 DEF ToSet
  <2>. QED  BY <2>1, <2>2
<1>12. ASSUME NEW i \in DOMAIN t, NEW j \in DOMAIN t, i < j
       PROVE  \E k, l \in DOMAIN s : k < l /\ s[k] = t[i] /\ s[l] = t[j]
  <2>1. /\ p[i] \in DOMAIN s /\ s[p[i]] = t[i] /\ p[i] \in places
        /\ p[j] \in DOMAIN s /\ s[p[j]] = t[j] /\ p[j] \in places
    BY <1>8, <1>9
  <2>2. <<p[i], p[j]>> \in order
    BY <1>7, <1>9, <1>12
  <2>. QED  BY <1>6, <2>1, <2>2
<1>. QED  BY <1>10, <1>11, <1>12 DEF Remains, t

\* What is stored and logged tells events of steps from others, and the first
\* event of a run, stored ahead of the log, is about no step.
LogTyped ==
  /\ log \in Seq(Entries)
  /\ \A r \in table \cup ToSet(log) : Worded(r)
  /\ writer.queue # <<>> => /\ Worded(writer.event)
                            /\ Len(writer.queue) > 2 => writer.event.step = None
  /\ writer.exec \in Executions => runs[writer.exec] > 0

\* The event of the writer is still to be logged.
Owed == Len(writer.queue) > 1

\* What is stored of a step is logged; of an execution that ran once what is
\* logged is stored, in the order of the sequence, which the run continues.
Mine(e) == Of(ToSet(log), e)
LogSays(e) ==
  /\ KeptWhole(e) => \A r \in Of(table, e) : r.step # None => r \in Mine(e)
  /\ runs[e] = 0 => Of(table, e) = {} /\ Mine(e) = {}
Continues(e) ==
  /\ \A r \in Of(table, e) : \/ r.seq < writer.seq
                              \/ IF writer.queue # <<>> THEN r = writer.event
                                                       ELSE r.seq = writer.seq
  /\ \A r \in Mine(e) : IF Owed THEN r.seq < writer.seq ELSE r.seq <= writer.seq
OnceSays(e) ==
  runs[e] <= 1 =>
    /\ KeptWhole(e) => Mine(e) \subseteq table
    /\ \A i, j \in DOMAIN log :
         log[i].exec = e /\ log[j].exec = e /\ i < j => log[i].seq < log[j].seq
    /\ writer.exec = e => Continues(e)
LogInv == /\ JournalsInv /\ LogTyped
          /\ \A e \in Executions : LogSays(e) /\ OnceSays(e)

(* Which is what a state manager relies on. *)
LEMMA LogInvSays ==
  ASSUME LogInv
  PROVE  RecoversWhatEnded
<1>. SUFFICES ASSUME NEW e \in Executions
     PROVE  LET known == recover(e) IN
       /\ \A s \in Asked : is_step_completed(e, s) <=> Likened[s] \cap known.completed # {}
       /\ KeptWhole(e) =>
            /\ known.completed \subseteq Ends("StepCompleted", e)
            /\ known.failed \subseteq Ends("StepFailed", e)
            /\ known.skipped \subseteq Ends("StepSkipped", e)
            /\ runs[e] <= 1 =>
                 /\ known.completed = Ends("StepCompleted", e)
                 /\ known.failed = Ends("StepFailed", e)
                 /\ known.skipped = Ends("StepSkipped", e)
                 /\ known.in_flight = {s \in Steps : Runs(e, s)}
  BY DEF RecoversWhatEnded
<1>. DEFINE known == recover(e)
<1>1. /\ known.completed = Written(e, "StepCompleted")
      /\ known.failed = Written(e, "StepFailed")
      /\ known.skipped = Written(e, "StepSkipped")
      /\ known.in_flight = {r.step : r \in Begun(e)}
  <2>. DEFINE b == Written(e, "ExecutionCompleted") # {}
  <2>1. known = Knows(Written(e, "StepCompleted"), Written(e, "StepFailed"),
                      Written(e, "StepSkipped"), {r.step : r \in Begun(e)}, b)
    BY RecoverIs DEF LogInv, LogTyped
  <2>. HIDE DEF b, known
  <2>. QED  BY <2>1 DEF Knows
<1>. HIDE DEF known
<1>2. \A s \in Asked : is_step_completed(e, s) <=> Likened[s] \cap known.completed # {}
  BY <1>1 DEF is_step_completed, Written
<1>3. \A r \in Of(table, e) : /\ r \in table /\ r.exec = e /\ r \in Entries
                              /\ r.kind \in StepKinds => r.step # None
  BY DEF LogInv, LogTyped, Worded, Of, JournalsInv, JournalsTyped
<1>4. \A kind \in StepKinds : KeptWhole(e) => Written(e, kind) \subseteq Ends(kind, e)
  BY <1>3 DEF Written, Ends, LogInv, LogSays, Mine, Of
<1>5. \A kind : KeptWhole(e) /\ runs[e] <= 1 => Ends(kind, e) \subseteq Written(e, kind)
  BY DEF Written, Ends, LogInv, OnceSays, Mine, Of
<1>6. ASSUME KeptWhole(e), runs[e] <= 1
      PROVE  known.in_flight = {s \in Steps : Runs(e, s)}
  <2>1. \A r \in Of(table, e) : r.step # None => r \in Mine(e)
    BY <1>6 DEF LogInv, LogSays
  <2>2. /\ Mine(e) \subseteq table
        /\ \A i, j \in DOMAIN log :
             log[i].exec = e /\ log[j].exec = e /\ i < j => log[i].seq < log[j].seq
    BY <1>6 DEF LogInv, OnceSays
  <2>3. \A i \in DOMAIN log : i \in Nat /\ log[i] \in Entries /\ log[i].seq \in Nat
                              /\ log[i] \in ToSet(log) /\ Worded(log[i])
    <3>1. log \in Seq(Entries) /\ \A r \in ToSet(log) : Worded(r)
      BY DEF LogInv, LogTyped
    <3>2. \A i \in DOMAIN log : i \in Nat /\ log[i] \in Entries /\ log[i] \in ToSet(log)
      BY <3>1 DEF ToSet
    <3>. QED  BY <3>1, <3>2 DEF Entries
  <2>4. \A i, j \in DOMAIN log :
          log[i].exec = e /\ log[j].exec = e => (j <= i <=> log[j].seq <= log[i].seq)
    BY <2>2, <2>3
  <2>5. \A r \in Mine(e) : \E i \in DOMAIN log : log[i] = r /\ r.exec = e
    BY DEF Mine, Of, ToSet
  <2>6. \A i \in DOMAIN log : log[i].exec = e => log[i] \in Of(table, e)
    BY <2>2, <2>3 DEF Mine, Of
  <2>7. ASSUME NEW r \in Begun(e) PROVE r.step \in Steps /\ Runs(e, r.step)
    <3>1. r \in Of(table, e) /\ r.kind = "StepStarted" /\ r.step # None /\ r.step \in Steps \cup {None}
      BY <1>3, <2>7 DEF Begun, StepKinds, Entries
    <3>2. PICK i \in DOMAIN log : log[i] = r /\ r.exec = e
      BY <2>1, <2>5, <3>1
    <3>3. \A j \in DOMAIN log : log[j].exec = e /\ log[j].step = r.step => j <= i
      BY <2>4, <2>6, <2>7, <3>2 DEF Begun
    <3>. QED  BY <3>1, <3>2, <3>3 DEF Runs
  <2>8. ASSUME NEW s \in Steps, Runs(e, s) PROVE \E r \in Begun(e) : r.step = s
    <3>1. PICK i \in DOMAIN log :
            /\ log[i].exec = e /\ log[i].step = s /\ log[i].kind = "StepStarted"
            /\ \A j \in DOMAIN log : log[j].exec = e /\ log[j].step = s => j <= i
      BY <2>8 DEF Runs
    <3>2. s # None
      BY <2>3, <3>1 DEF Worded, StepKinds
    <3>3. log[i] \in Of(table, e)
      BY <2>6, <3>1
    <3>4. \A o \in Of(table, e) : o.step = s => o.seq <= log[i].seq
      BY <2>1, <2>4, <2>5, <3>1, <3>2
    <3>. QED  BY <3>1, <3>3, <3>4 DEF Begun
  <2>. QED  BY <1>1, <2>7, <2>8
<1>7. /\ "StepCompleted" \in StepKinds /\ "StepFailed" \in StepKinds /\ "StepSkipped" \in StepKinds
  BY DEF StepKinds
<1>. QED  BY <1>1, <1>2, <1>4, <1>5, <1>6, <1>7 DEF known

(* Nothing is logged in the beginning. *)
LEMMA InitLogInv == InitJournals => LogInv
<1>. SUFFICES ASSUME InitJournals PROVE LogInv
  OBVIOUS
<1>1. table = {} /\ log = <<>> /\ writer.queue = <<>> /\ writer.exec = None
  BY DEF InitJournals, NoRun
<1>2. log \in Seq(Entries) /\ ToSet(log) = {} /\ DOMAIN log = {}
  BY <1>1 DEF ToSet
<1>. QED  BY <1>1, <1>2, InitJournalsInv, JournalsAssumption
          DEF LogInv, LogTyped, LogSays, OnceSays, Continues, Mine, Of

(* Only the writer moves. *)
LEMMA WriterMoves ==
  ASSUME LogInv, JournalsInv', UNCHANGED <<table, log, runs, cut>>,
         writer'.queue # <<>> => /\ Worded(writer'.event)
                                 /\ Len(writer'.queue) > 2 => writer'.event.step = None,
         writer'.exec \in Executions => runs[writer'.exec] > 0,
         \A e \in Executions : runs[e] <= 1 /\ writer'.exec = e => Continues(e)'
  PROVE  LogInv'
<1>1. LogTyped'
  BY DEF LogInv, LogTyped
<1>2. \A e \in Executions : LogSays(e)' /\ OnceSays(e)'
  BY DEF LogInv, LogSays, OnceSays, KeptWhole, Mine
<1>. QED  BY <1>1, <1>2 DEF LogInv

(* An execution that starts its first run has nothing stored or logged. *)
LEMMA StartRunLog ==
  ASSUME LogInv, NEW e \in Executions, StartRun(e)
  PROVE  LogInv'
<1>. DEFINE kind  == IF runs[e] = 0 THEN "ExecutionStarted" ELSE "ExecutionResumed"
            first == [exec |-> e, seq |-> 1, kind |-> kind, step |-> None, run |-> runs[e] + 1]
            w     == [exec |-> e, seq |-> 1, open |-> None, event |-> first,
                      queue |-> <<"record", "publish", "write", "publish">>]
<1>1. /\ UNCHANGED <<table, log, cut>> /\ writer' = w
      /\ runs' = [runs EXCEPT ![e] = @ + 1]
  BY DEF StartRun, Event
<1>2. /\ w.exec = e /\ w.event = first /\ first.step = None /\ first.kind \notin StepKinds
      /\ w.queue # <<>>
  BY DEF StepKinds
<1>3. \A o \in Executions : runs[o] \in Nat /\ runs'[o] = IF o = e THEN runs[o] + 1 ELSE runs[o]
  BY <1>1 DEF LogInv, JournalsInv, JournalsTyped
<1>. HIDE DEF first, w
<1>4. JournalsInv'
  BY StartRunInv DEF LogInv
<1>5. LogTyped'
  BY <1>1, <1>2, <1>3 DEF LogInv, LogTyped, Worded
<1>6. ASSUME NEW o \in Executions PROVE LogSays(o)' /\ OnceSays(o)'
  <2>1. LogSays(o)'
    BY <1>1, <1>3 DEF LogInv, LogSays, KeptWhole, Mine
  <2>2. CASE o = e
    <3>1. runs'[o] <= 1 => runs[o] = 0 /\ Of(table, o) = {} /\ Mine(o) = {}
      BY <1>3, <2>2 DEF LogInv, LogSays
    <3>2. Mine(o) = {} => \A i \in DOMAIN log : log[i].exec # o
      BY DEF Mine, Of, ToSet
    <3>. QED  BY <1>1, <2>1, <3>1, <3>2 DEF OnceSays, Continues, Mine
  <2>3. CASE o # e
    BY <1>1, <1>2, <1>3, <2>1, <2>3 DEF LogInv, OnceSays, KeptWhole, Mine
  <2>. QED  BY <2>1, <2>2, <2>3
<1>. QED  BY <1>4, <1>5, <1>6 DEF LogInv

(* The next event continues the sequence. *)
LEMMA WriteEventLog ==
  ASSUME LogInv, NEW kind \in StepKinds \cup {"ExecutionCompleted"}, NEW s \in Steps \cup {None},
         WriteEvent(kind, s)
  PROVE  LogInv'
<1>. DEFINE ev == Event(writer.exec, writer.seq + 1, kind, s)
<1>1. /\ UNCHANGED <<table, log, runs, cut>> /\ writer.exec # None /\ writer.queue = <<>>
      /\ writer' = [writer EXCEPT !.seq = @ + 1, !.open = IF kind = "StepStarted" THEN s ELSE None,
                                  !.event = ev, !.queue = <<"write", "publish">>]
      /\ IF kind = "ExecutionCompleted" THEN s = None ELSE s # None /\ NextKind(kind, s)
  BY DEF WriteEvent
<1>2. writer.exec \in Executions /\ writer.seq \in Nat /\ writer \in Writers
  BY <1>1 DEF LogInv, JournalsInv, JournalsTyped, Writers
<1>3. /\ writer'.exec = writer.exec /\ writer'.seq = writer.seq + 1 /\ writer'.event = ev
      /\ writer'.queue = <<"write", "publish">>
  BY <1>1, <1>2 DEF Writers
<1>4. ev.step = s /\ ev.kind = kind
  BY DEF Event
<1>. HIDE DEF ev
<1>5. /\ writer'.queue # <<>> /\ ~(Len(writer'.queue) > 2) /\ Owed' /\ ~Owed
  BY <1>1, <1>3 DEF Owed
<1>6. Worded(writer'.event)
  <2>1. CASE kind = "ExecutionCompleted"
    BY <1>1, <1>3, <1>4, <2>1 DEF Worded, StepKinds
  <2>2. CASE kind # "ExecutionCompleted"
    <3>1. s # None /\ kind \in StepKinds
      BY <1>1, <2>2
    <3>. QED  BY <1>3, <1>4, <3>1 DEF Worded
  <2>. QED  BY <2>1, <2>2
<1>7. ASSUME NEW e \in Executions, runs[e] <= 1, writer'.exec = e PROVE Continues(e)'
  <2>1. Continues(e)
    BY <1>3, <1>7 DEF LogInv, OnceSays
  <2>2. \A r \in Of(table, e) \cup Mine(e) : r.seq \in Nat
    <3>1. log \in Seq(Entries) /\ table \subseteq Entries
      BY DEF LogInv, LogTyped, JournalsInv, JournalsTyped
    <3>2. ToSet(log) \subseteq Entries
      BY <3>1 DEF ToSet
    <3>. QED  BY <3>1, <3>2 DEF Of, Mine, Entries
  <2>3. \A r \in Of(table, e) \cup Mine(e) : r.seq <= writer.seq
    BY <1>1, <1>5, <2>1, <2>2, <1>2 DEF Continues
  <2>4. \A r \in Of(table, e) \cup Mine(e) : r.seq < writer'.seq
    BY <1>2, <1>3, <2>2, <2>3
  <2>. QED  BY <1>1, <2>4, <1>5 DEF Continues, Mine
<1>8. JournalsInv'
  BY WriteEventInv DEF LogInv, Kinds, StepKinds
<1>9. writer'.exec \in Executions => runs[writer'.exec] > 0
  BY <1>3 DEF LogInv, LogTyped
<1>. QED  BY <1>1, <1>5, <1>6, <1>7, <1>8, <1>9, WriterMoves

(* Publishing stores and logs nothing. *)
LEMMA PublishLog ==
  ASSUME LogInv, Publish
  PROVE  LogInv'
<1>1. UNCHANGED <<table, log, runs, cut>> /\ Head(writer.queue) = "publish"
  BY DEF Publish
<1>2. /\ writer.queue # <<>> /\ writer.queue \in Queues /\ writer'.queue = Tail(writer.queue)
      /\ writer'.queue # <<>> => writer'.exec = writer.exec /\ writer'.event = writer.event
      /\ \/ writer' = NoRun
         \/ writer'.exec = writer.exec /\ writer'.seq = writer.seq /\ writer'.event = writer.event
      /\ writer.exec \in Executions
  BY PublishFacts DEF LogInv, JournalsInv, JournalsTyped, Writers
<1>3. /\ Len(Tail(writer.queue)) > 2 => Len(writer.queue) > 2
      /\ Len(Tail(writer.queue)) > 1 <=> Len(writer.queue) > 1
  <2>1. CASE writer.queue = <<"publish", "write", "publish">>
    BY <2>1
  <2>2. CASE writer.queue = <<"publish">>
    BY <2>2
  <2>. QED  BY <1>1, <1>2, <2>1, <2>2 DEF Queues
<1>4. JournalsInv'
  BY PublishInv DEF LogInv
<1>5. writer'.queue # <<>> => /\ Worded(writer'.event)
                              /\ Len(writer'.queue) > 2 => writer'.event.step = None
  BY <1>2, <1>3 DEF LogInv, LogTyped
<1>6. writer' = NoRun => writer'.exec \notin Executions
  BY JournalsAssumption DEF NoRun
<1>7. writer'.exec \in Executions => runs[writer'.exec] > 0
  BY <1>2, <1>6 DEF LogInv, LogTyped
<1>8. ASSUME NEW e \in Executions, runs[e] <= 1, writer'.exec = e PROVE Continues(e)'
  <2>1. writer.exec = e /\ writer'.seq = writer.seq /\ writer'.event = writer.event
    BY <1>2, <1>6, <1>8
  <2>2. Continues(e) /\ Owed' = Owed
    BY <1>2, <1>3, <1>8, <2>1 DEF LogInv, OnceSays, Owed
  <2>3. writer.event.seq = writer.seq
    BY <1>2 DEF LogInv, JournalsInv, WriterSays
  <2>. QED  BY <1>1, <1>2, <2>1, <2>2, <2>3 DEF Continues, Mine
<1>. QED  BY <1>1, <1>4, <1>5, <1>7, <1>8, WriterMoves

(* Nor does a crash. *)
LEMMA CrashLog ==
  ASSUME LogInv, Crash
  PROVE  LogInv'
<1>1. UNCHANGED <<table, log, runs, cut>> /\ writer' = NoRun
  BY DEF Crash
<1>2. writer'.queue = <<>> /\ writer'.exec \notin Executions
  BY <1>1, JournalsAssumption DEF NoRun
<1>3. JournalsInv'
  BY CrashInv DEF LogInv
<1>. QED  BY <1>1, <1>2, <1>3, WriterMoves

(* Of the first event the queue stores once ahead of the log. *)
LEMMA QueueStores ==
  ASSUME NEW q \in Queues, q # <<>>, Head(q) # "publish"
  PROVE  /\ Len(q) > 1
         /\ Head(q) = "write" => Tail(q) = <<"publish">>
         /\ Head(q) # "write" => Len(q) > 2 /\ Len(Tail(q)) > 2
         /\ Tail(q) \in Queues /\ Tail(q) # <<>>
<1>1. CASE q = <<"record", "publish", "write", "publish">>
  BY <1>1 DEF Queues
<1>2. CASE q = <<"write", "publish">>
  BY <1>2 DEF Queues
<1>. QED  BY <1>1, <1>2 DEF Queues

(* A row is stored before it is logged, or with it. *)
LEMMA StoreLog ==
  ASSUME LogInv, Store
  PROVE  LogInv'
<1>0. writer.queue # <<>> /\ writer.exec \in Executions
  BY DEF Store, LogInv, JournalsInv, WriterSays
<1>. PICK x, ev : x \in Executions /\ x = writer.exec /\ ev = writer.event
  BY <1>0
<1>1. /\ UNCHANGED <<runs, cut>> /\ writer.queue # <<>> /\ Head(writer.queue) # "publish"
      /\ table' = append(table, ev)
      /\ log' = IF Head(writer.queue) = "write" THEN Append(log, ev) ELSE log
      /\ writer' = [writer EXCEPT !.queue = Tail(@)]
  BY DEF Store
<1>2. /\ x \in Executions /\ ev \in Entries /\ ev.exec = x /\ ev.seq = writer.seq /\ Worded(ev)
      /\ Len(writer.queue) > 2 => ev.step = None
      /\ writer \in Writers /\ writer.queue \in Queues /\ writer.seq \in Nat
  BY <1>1 DEF LogInv, LogTyped, JournalsInv, WriterSays, JournalsTyped, Writers
<1>3. /\ Owed
      /\ Head(writer.queue) = "write" => Tail(writer.queue) = <<"publish">>
      /\ Head(writer.queue) # "write" => Len(writer.queue) > 2 /\ Len(Tail(writer.queue)) > 2
      /\ Tail(writer.queue) \in Queues /\ Tail(writer.queue) # <<>>
  BY <1>1, <1>2, QueueStores DEF Owed
<1>4. /\ writer'.exec = x /\ writer'.seq = writer.seq /\ writer'.event = ev
      /\ writer'.queue = Tail(writer.queue)
  BY <1>1, <1>2, <1>3 DEF Writers
<1>5. /\ log' \in Seq(Entries) /\ table' \subseteq table \cup {ev} /\ table \subseteq table'
      /\ ToSet(log) \subseteq ToSet(log')
      /\ ToSet(log') \subseteq ToSet(log) \cup {ev}
      /\ Head(writer.queue) = "write" => ev \in ToSet(log')
      /\ \A i \in DOMAIN log' : i \in DOMAIN log \/ (i = Len(log) + 1 /\ log'[i] = ev)
      /\ \A i \in DOMAIN log : log'[i] = log[i] /\ i < Len(log) + 1 /\ i \in Nat
  <2>0. log \in Seq(Entries)
    BY DEF LogInv, LogTyped
  <2>1. table' \subseteq table \cup {ev} /\ table \subseteq table'
    BY <1>1 DEF append
  <2>2. CASE Head(writer.queue) = "write"
    <3>1. log' = Append(log, ev)
      BY <1>1, <2>2
    <3>2. /\ log' \in Seq(Entries) /\ Len(log') = Len(log) + 1 /\ Len(log) \in Nat
          /\ \A i \in 1..Len(log) : log'[i] = log[i]
          /\ log'[Len(log) + 1] = ev
      BY <1>2, <2>0, <3>1, Appended
    <3>3. DOMAIN log = 1..Len(log) /\ DOMAIN log' = 1..Len(log) + 1
      BY <2>0, <3>2
    <3>4. \A i \in DOMAIN log' : i \in DOMAIN log \/ (i = Len(log) + 1 /\ log'[i] = ev)
      BY <3>2, <3>3
    <3>5. \A i \in DOMAIN log : log'[i] = log[i] /\ i < Len(log) + 1 /\ i \in Nat /\ i \in DOMAIN log'
      BY <3>2, <3>3
    <3>6. Len(log) + 1 \in DOMAIN log'
      BY <3>2, <3>3
    <3>. QED  BY <2>1, <3>2, <3>4, <3>5, <3>6 DEF ToSet
  <2>3. CASE Head(writer.queue) # "write"
    <3>1. log' = log
      BY <1>1, <2>3
    <3>2. \A i \in DOMAIN log : i < Len(log) + 1 /\ i \in Nat
      BY <2>0
    <3>. QED  BY <2>0, <2>1, <2>3, <3>1, <3>2
  <2>. QED  BY <2>2, <2>3
<1>6. JournalsInv'
  BY StoreInv DEF LogInv
<1>7. LogTyped'
  BY <1>1, <1>2, <1>3, <1>4, <1>5 DEF LogInv, LogTyped
<1>8. ASSUME NEW o \in Executions, o # x PROVE LogSays(o)' /\ OnceSays(o)'
  <2>1. Of(table', o) = Of(table, o) /\ Mine(o)' = Mine(o)
    BY <1>2, <1>5, <1>8 DEF Of, Mine
  <2>2. \A i \in DOMAIN log' : log'[i].exec = o => i \in DOMAIN log /\ log'[i] = log[i]
    BY <1>2, <1>5, <1>8
  <2>3. LogSays(o)'
    BY <1>1, <2>1 DEF LogInv, LogSays, KeptWhole
  <2>4. OnceSays(o)'
    <3>. SUFFICES ASSUME runs[o] <= 1 PROVE OnceSays(o)'
      BY <1>1 DEF OnceSays
    <3>1. KeptWhole(o)' => Mine(o)' \subseteq table'
      BY <1>1, <1>5, <2>1 DEF LogInv, OnceSays, KeptWhole
    <3>2. \A i, j \in DOMAIN log' : log'[i].exec = o /\ log'[j].exec = o /\ i < j
                                      => log'[i].seq < log'[j].seq
      BY <2>2 DEF LogInv, OnceSays
    <3>. QED  BY <1>4, <1>8, <3>1, <3>2 DEF OnceSays
  <2>. QED  BY <2>3, <2>4
<1>9. ASSUME runs[x] <= 1
      PROVE  /\ \A r \in Of(table, x) : r.seq < writer.seq \/ r = ev
             /\ \A r \in Mine(x) : r.seq < writer.seq
  BY <1>1, <1>2, <1>3, <1>9 DEF LogInv, OnceSays, Continues
<1>10. LogSays(x)'
  <2>1. runs'[x] # 0
    BY <1>1, <1>2 DEF LogInv, LogTyped
  <2>2. ASSUME KeptWhole(x), NEW r \in Of(table', x), r.step # None PROVE r \in Mine(x)'
    <3>1. CASE r \in table
      BY <1>5, <2>2, <3>1 DEF LogInv, LogSays, Of, Mine
    <3>2. CASE r = ev
      BY <1>2, <1>3, <1>5, <2>2, <3>2 DEF Of, Mine
    <3>. QED  BY <1>5, <2>2, <3>1, <3>2 DEF Of
  <2>. QED  BY <1>1, <2>1, <2>2 DEF LogSays, KeptWhole
<1>11. OnceSays(x)'
  <2>. SUFFICES ASSUME runs[x] <= 1 PROVE OnceSays(x)'
    BY <1>1 DEF OnceSays
  <2>1. ev \in table'
    <3>1. CASE \E o \in Of(table, x) : o.seq = ev.seq
      BY <1>2, <1>5, <1>9, <3>1 DEF Of
    <3>2. CASE ~\E o \in Of(table, x) : o.seq = ev.seq
      BY <1>1, <1>2, <3>2 DEF append
    <3>. QED  BY <3>1, <3>2
  <2>2. KeptWhole(x)' => Mine(x)' \subseteq table'
    BY <1>1, <1>5, <2>1 DEF LogInv, OnceSays, KeptWhole, Mine, Of
  <2>3. ASSUME NEW i \in DOMAIN log', NEW j \in DOMAIN log', log'[i].exec = x, log'[j].exec = x, i < j
        PROVE  log'[i].seq < log'[j].seq
    <3>1. i \in DOMAIN log /\ log'[i] = log[i]
      <4>1. ~(i = Len(log) + 1)
        BY <1>5, <2>3 DEF LogInv, LogTyped
      <4>. QED  BY <1>5, <4>1
    <3>2. CASE j \in DOMAIN log
      <4>1. log'[j] = log[j]
        BY <1>5, <3>2
      <4>2. \A k, l \in DOMAIN log :
              log[k].exec = x /\ log[l].exec = x /\ k < l => log[k].seq < log[l].seq
        BY DEF LogInv, OnceSays
      <4>. QED  BY <2>3, <3>1, <3>2, <4>1, <4>2
    <3>3. CASE log'[j] = ev
      <4>1. log[i] \in Mine(x)
        BY <2>3, <3>1 DEF Mine, Of, ToSet
      <4>. QED  BY <1>2, <1>9, <3>1, <3>3, <4>1
    <3>. QED  BY <1>5, <3>2, <3>3
  <2>4. Continues(x)'
    <3>1. \A r \in Of(table', x) : r.seq < writer.seq \/ r = ev
      BY <1>5, <1>9 DEF Of
    <3>2. \A r \in Mine(x)' : r \in Mine(x) \/ (r = ev /\ Head(writer.queue) = "write")
      BY <1>1, <1>5 DEF Mine, Of
    <3>3. Owed' => Head(writer.queue) # "write"
      BY <1>3, <1>4 DEF Owed
    <3>4. \A r \in Mine(x)' : IF Owed' THEN r.seq < writer.seq ELSE r.seq <= writer.seq
      <4>1. \A r \in Mine(x) : r.seq \in Nat
        <5>1. \A r \in ToSet(log) : r \in Entries
          BY DEF ToSet, LogInv, LogTyped
        <5>. QED  BY <5>1 DEF Mine, Of, Entries
      <4>. QED  BY <1>2, <1>9, <3>2, <3>3, <4>1
    <3>. QED  BY <1>3, <1>4, <3>1, <3>4 DEF Continues
  <2>. QED  BY <2>2, <2>3, <2>4 DEF OnceSays
<1>12. \A o \in Executions : LogSays(o)' /\ OnceSays(o)'
  BY <1>8, <1>10, <1>11
<1>. QED  BY <1>6, <1>7, <1>12 DEF LogInv

(* What is dropped from the table is dropped from the log. *)
LEMMA CutLog ==
  ASSUME LogInv, NEW e, NEW gone, \A r \in gone : r.exec = e,
         table' = table \ gone, log' = Those(log, ToSet(log) \ gone),
         cut' = cut \cup {e}, UNCHANGED <<sent, writer, runs, follower>>
  PROVE  LogInv'
<1>1. log \in Seq(Entries)
  BY DEF LogInv, LogTyped
<1>2. log' \in Seq(Entries) /\ Remains(log, ToSet(log) \ gone, log')
  BY <1>1, ThoseRemain
<1>3. table' \subseteq table /\ ToSet(log') = ToSet(log) \ gone
  BY <1>2 DEF Remains
<1>4. JournalsInv'
  BY <1>3, TableCut DEF LogInv
<1>5. LogTyped'
  BY <1>2, <1>3 DEF LogInv, LogTyped
<1>6. ASSUME NEW o \in Executions PROVE LogSays(o)' /\ OnceSays(o)'
  <2>1. /\ Of(table', o) = Of(table, o) \ gone /\ Mine(o)' = Mine(o) \ gone
    BY <1>3 DEF Of, Mine
  <2>2. KeptWhole(o)' => KeptWhole(o)
    BY DEF KeptWhole
  <2>3. LogSays(o)'
    BY <2>1, <2>2 DEF LogInv, LogSays
  <2>4. OnceSays(o)'
    <3>. SUFFICES ASSUME runs[o] <= 1 PROVE OnceSays(o)'
      BY DEF OnceSays
    <3>1. KeptWhole(o)' => Mine(o)' \subseteq table'
      BY <2>1, <2>2 DEF LogInv, OnceSays
    <3>2. \A i, j \in DOMAIN log' : log'[i].exec = o /\ log'[j].exec = o /\ i < j
                                      => log'[i].seq < log'[j].seq
      <4>1. \A k, l \in DOMAIN log :
              log[k].exec = o /\ log[l].exec = o /\ k < l => log[k].seq < log[l].seq
        BY DEF LogInv, OnceSays
      <4>2. ASSUME NEW i \in DOMAIN log', NEW j \in DOMAIN log', log'[i].exec = o, log'[j].exec = o,
                   i < j
            PROVE  log'[i].seq < log'[j].seq
        <5>1. PICK k, l \in DOMAIN log : k < l /\ log[k] = log'[i] /\ log[l] = log'[j]
          BY <1>2, <4>2 DEF Remains
        <5>. QED  BY <4>1, <4>2, <5>1
      <4>. QED  BY <4>2
    <3>3. writer'.exec = o => Continues(o)'
      BY <2>1 DEF LogInv, OnceSays, Continues, Owed
    <3>. QED  BY <3>1, <3>2, <3>3 DEF OnceSays
  <2>. QED  BY <2>3, <2>4
<1>. QED  BY <1>4, <1>5, <1>6 DEF LogInv

(* What changes neither table nor log nor writer. *)
LEMMA LogStays ==
  ASSUME LogInv, JournalsInv', UNCHANGED <<table, log, writer, runs, cut>>
  PROVE  LogInv'
BY DEF LogInv, LogTyped, LogSays, OnceSays, Continues, Mine, Owed, KeptWhole

LEMMA LogStep ==
  ASSUME LogInv, NextJournals
  PROVE  LogInv'
<1>1. ASSUME NEW e, NEW n, truncate_before(e, n) PROVE LogInv'
  <2>. DEFINE gone == {r \in table \cup ToSet(log) : ~(r.exec # e \/ r.seq >= n)}
  <2>1. /\ {r \in table : r.exec # e \/ r.seq >= n} = table \ gone
        /\ {r \in ToSet(log) : r.exec # e \/ r.seq >= n} = ToSet(log) \ gone
        /\ \A r \in gone : r.exec = e
    OBVIOUS
  <2>2. /\ table' = table \ gone /\ log' = Those(log, ToSet(log) \ gone)
        /\ cut' = cut \cup {e} /\ UNCHANGED <<sent, writer, runs, follower>>
    BY <1>1, <2>1 DEF truncate_before
  <2>. HIDE DEF gone
  <2>. QED  BY <2>1, <2>2, CutLog
<1>2. ASSUME NEW e, delete_all(e) PROVE LogInv'
  <2>. DEFINE gone == {r \in table \cup ToSet(log) : r.exec = e}
  <2>1. /\ {r \in table : r.exec # e} = table \ gone
        /\ {r \in ToSet(log) : r.exec # e} = ToSet(log) \ gone
        /\ \A r \in gone : r.exec = e
    OBVIOUS
  <2>2. /\ table' = table \ gone /\ log' = Those(log, ToSet(log) \ gone)
        /\ cut' = cut \cup {e} /\ UNCHANGED <<sent, writer, runs, follower>>
    BY <1>2, <2>1 DEF delete_all
  <2>. HIDE DEF gone
  <2>. QED  BY <2>1, <2>2, CutLog
<1>3. ASSUME NEW s \in Steps, NEW kind \in {"StepStarted", "StepCompleted", "StepFailed", "StepSkipped"},
             WriteEvent(kind, s)
      PROVE  LogInv'
  BY <1>3, WriteEventLog DEF StepKinds
<1>4. CASE WriteEvent("ExecutionCompleted", None)
  BY <1>4, WriteEventLog
<1>5. ASSUME NEW e \in Executions, Subscribe(e) PROVE LogInv'
  <2>1. JournalsInv'
    BY <1>5, SubscribeInv DEF LogInv
  <2>. QED  BY <1>5, <2>1, LogStays DEF Subscribe
<1>6. CASE Replay
  <2>1. JournalsInv'
    BY <1>6, ReplayInv DEF LogInv
  <2>. QED  BY <1>6, <2>1, LogStays DEF Replay
<1>7. CASE Receive
  <2>1. JournalsInv'
    BY <1>7, ReceiveInv DEF LogInv
  <2>. QED  BY <1>7, <2>1, LogStays DEF Receive
<1>. QED  BY <1>1, <1>2, <1>3, <1>4, <1>5, <1>6, <1>7, StartRunLog, StoreLog, PublishLog, CrashLog
          DEF NextJournals

(* What a state manager reads back happened, and of an execution that ran  *)
(* once it reads every end.                                                *)
THEOREM WhatEndedIsRecovered == SpecArchive => []RecoversWhatEnded
<1>1. InitArchive => LogInv
  BY InitLogInv DEF InitArchive
<1>2. LogInv /\ [NextArchive]_<<repo, store, journals>> => LogInv'
  <2>. SUFFICES ASSUME LogInv, [NextArchive]_<<repo, store, journals>> PROVE LogInv'
    OBVIOUS
  <2>1. ASSUME UNCHANGED journals PROVE LogInv'
    <3>1. UNCHANGED <<table, log, sent, writer, runs, follower, cut>>
      BY <2>1 DEF journals
    <3>2. JournalsInv'
      BY <3>1 DEF LogInv, JournalsInv, JournalsTyped, OneRowPerSequence, WriterSays, SentSays,
         FollowerSays, Reaches, Seen, Publishing
    <3>. QED  BY <3>1, <3>2, LogStays
  <2>. QED  BY <2>1, LogStep DEF NextArchive
<1>. QED  BY <1>1, <1>2, LogInvSays, PTL DEF SpecArchive

------------------------------------------------------------------------------
(***************************************************************************)
(* Lists that have room for all.  Sequences of the same rows in one strict *)
(* order are one, whichever way they were put in it.                       *)
(***************************************************************************)
(* Two sequences of the same rows, each in order, are one. *)
LEMMA SortedOnce ==
  ASSUME NEW S, NEW R, Strict(R, S), NEW s \in Seq(S), NEW t \in Seq(S), ToSet(s) = ToSet(t),
         \A i, j \in 1..Len(s) : i < j => <<s[i], s[j]>> \in R,
         \A i, j \in 1..Len(t) : i < j => <<t[i], t[j]>> \in R
  PROVE  s = t
<1>1. /\ Len(s) \in Nat /\ DOMAIN s = 1..Len(s) /\ Len(t) \in Nat /\ DOMAIN t = 1..Len(t)
      /\ \A i \in 1..Len(s) : s[i] \in S
      /\ \A i \in 1..Len(t) : t[i] \in S
  OBVIOUS
<1>2. /\ \A i \in 1..Len(s) : \E j \in 1..Len(t) : t[j] = s[i]
      /\ \A i \in 1..Len(t) : \E j \in 1..Len(s) : s[j] = t[i]
  BY <1>1 DEF ToSet
<1>3. \A i \in 1..Len(s) : i \in 1..Len(t) => s[i] = t[i]
  <2>. DEFINE D == {i \in 1..Len(s) : i \in 1..Len(t) /\ s[i] # t[i]}
              m == Min(D)
  <2>. SUFFICES ASSUME D # {} PROVE FALSE
    OBVIOUS
  <2>1. m \in D /\ \A y \in D : m <= y
    <3>1. D \in SUBSET Nat
      BY <1>1
    <3>. HIDE DEF D
    <3>. QED  BY <3>1, LeastOf
  <2>. HIDE DEF m
  <2>2. m \in 1..Len(s) /\ m \in 1..Len(t) /\ s[m] # t[m]
    BY <2>1
  <2>3. \A i \in 1..Len(s) : i < m => i \in 1..Len(t) /\ s[i] = t[i]
    <3>. SUFFICES ASSUME NEW i \in 1..Len(s), i < m PROVE i \in 1..Len(t) /\ s[i] = t[i]
      OBVIOUS
    <3>1. i \in 1..Len(t) /\ ~(m <= i)
      BY <1>1, <2>2
    <3>. QED  BY <2>1, <3>1
  <2>4. PICK j \in 1..Len(t) : t[j] = s[m]
    BY <1>2, <2>2
  <2>5. PICK k \in 1..Len(s) : s[k] = t[m]
    BY <1>2, <2>2
  <2>6. m < j
    <3>1. CASE j < m
      <4>1. j \in 1..Len(s) /\ s[j] = s[m]
        BY <1>1, <2>2, <2>3, <2>4, <3>1
      <4>. QED  BY <1>1, <2>2, <3>1, <4>1 DEF Strict
    <3>2. j # m
      BY <2>2, <2>4
    <3>. QED  BY <1>1, <2>2, <3>1, <3>2
  <2>7. m < k
    <3>1. CASE k < m
      <4>1. k \in 1..Len(t) /\ t[k] = t[m]
        BY <1>1, <2>2, <2>3, <2>5, <3>1
      <4>. QED  BY <1>1, <2>2, <3>1, <4>1 DEF Strict
    <3>2. k # m
      BY <2>2, <2>5
    <3>. QED  BY <1>1, <2>2, <3>1, <3>2
  <2>8. <<t[m], s[m]>> \in R /\ <<s[m], t[m]>> \in R
    BY <2>2, <2>4, <2>5, <2>6, <2>7
  <2>. QED  BY <1>1, <2>2, <2>8 DEF Strict
<1>4. Len(s) = Len(t)
  <2>1. CASE Len(s) < Len(t)
    <3>1. Len(s) + 1 \in 1..Len(t)
      BY <1>1, <2>1
    <3>2. PICK k \in 1..Len(s) : s[k] = t[Len(s) + 1]
      BY <1>2, <3>1
    <3>3. k \in 1..Len(t) /\ k < Len(s) + 1 /\ t[k] = t[Len(s) + 1]
      BY <1>1, <1>3, <2>1, <3>2
    <3>. QED  BY <1>1, <3>1, <3>3 DEF Strict
  <2>2. CASE Len(t) < Len(s)
    <3>1. Len(t) + 1 \in 1..Len(s)
      BY <1>1, <2>2
    <3>2. PICK k \in 1..Len(t) : t[k] = s[Len(t) + 1]
      BY <1>2, <3>1
    <3>3. k \in 1..Len(s) /\ k < Len(t) + 1 /\ s[k] = s[Len(t) + 1]
      BY <1>1, <1>3, <2>2, <3>2
    <3>. QED  BY <1>1, <3>1, <3>3 DEF Strict
  <2>3. Len(s) \in Nat /\ Len(t) \in Nat
    BY <1>1
  <2>. QED  BY <2>1, <2>2, <2>3
<1>. QED  BY <1>1, <1>3, <1>4

(* What a part of a sequence has. *)
LEMMA SubSeqHas ==
  ASSUME NEW S, NEW s \in Seq(S), NEW a \in Nat \ {0}, NEW b \in Nat, a <= b + 1, b <= Len(s)
  PROVE  ToSet(SubSeq(s, a, b)) = {s[i] : i \in a..b}
<1>. DEFINE p == SubSeq(s, a, b)
            n == b - a + 1
<1>1. n \in Nat /\ Len(s) \in Nat
  OBVIOUS
<1>2. p = [i \in 1..n |-> s[i + a - 1]]
  OBVIOUS
<1>3. ToSet(p) = {s[i + a - 1] : i \in 1..n}
  <2>. HIDE DEF n
  <2>. QED  BY <1>2 DEF ToSet
<1>4. \A i \in 1..n : i + a - 1 \in a..b
  BY <1>1
<1>5. \A i \in a..b : i - a + 1 \in 1..n /\ (i - a + 1) + a - 1 = i
  BY <1>1
<1>. HIDE DEF n, p
<1>. QED  BY <1>3, <1>4, <1>5 DEF p

(* A page that has room for all has all. *)
LEMMA WholePage ==
  ASSUME NEW rows, IsFiniteSet(rows), NEW order, Strict(order, rows), Comparable(order, rows),
         Cardinality(rows) <= MaxPageSize, NEW shown
  PROVE  ToSet(PageOf(rows, order, MaxPageSize, shown).items) = rows \cap shown
<1>. DEFINE n     == clamped(MaxPageSize)
            read  == Foremost(rows, order, n + 1)
            items == Foremost(read \cap shown, order, n)
            s     == InTurn(items, order)
<1>0. PageOf(rows, order, MaxPageSize, shown).items = s
  BY DEF PageOf
<1>1. n = MaxPageSize /\ n \in Nat /\ n > 0
  BY PageSizeAssumption DEF clamped
<1>. HIDE DEF n
<1>2. ASSUME NEW part \in SUBSET rows, NEW m \in Nat, m >= n
      PROVE  Foremost(part, order, m) = part
  <2>1. IsFiniteSet(part) /\ Cardinality(part) <= Cardinality(rows)
    BY FS_Subset
  <2>2. Strict(order, part) /\ Comparable(order, part)
    BY PartOrdered
  <2>3. /\ Cardinality(part) \in Nat
        /\ \A r \in part : Place(r, part, order) \in 0..Cardinality(part) - 1
    BY <2>1, <2>2, Places
  <2>4. Cardinality(rows) \in Nat
    BY FS_CardinalityType
  <2>5. \A r \in part : Place(r, part, order) < m
    BY <1>1, <1>2, <2>1, <2>3, <2>4
  <2>. QED  BY <2>5 DEF Foremost, Place
<1>3. read = rows
  BY <1>1, <1>2
<1>4. items = rows \cap shown
  <2>1. Foremost(rows \cap shown, order, n) = rows \cap shown
    BY <1>1, <1>2
  <2>. QED  BY <1>3, <2>1
<1>. HIDE DEF items
<1>5. IsFiniteSet(items) /\ Strict(order, items) /\ Comparable(order, items)
  BY <1>4, FS_Subset, PartOrdered
<1>6. s \in Seq(items) /\ \A r \in items : \E i \in 1..Len(s) : s[i] = r
  BY <1>5, InTurnShows
<1>. HIDE DEF s
<1>7. DOMAIN s = 1..Len(s) /\ \A i \in 1..Len(s) : s[i] \in items
  BY <1>6
<1>. QED  BY <1>0, <1>4, <1>6, <1>7 DEF ToSet

LEMMA WholeTerminal ==
  ASSUME NEW rows, IsFiniteSet(rows), NEW order, Strict(order, rows), Comparable(order, rows),
         Cardinality(rows) <= MaxPageSize
  PROVE  ToSet(Terminal(InTurn(rows, order), MaxPageSize).items) = rows
<1>. DEFINE s == InTurn(rows, order)
<1>1. clamped(MaxPageSize) = MaxPageSize /\ MaxPageSize \in Nat
  BY PageSizeAssumption DEF clamped
<1>2. /\ s \in Seq(rows) /\ Len(s) = Cardinality(rows) /\ Len(s) \in Nat
      /\ \A r \in rows : \E i \in 1..Len(s) : s[i] = r
  BY InTurnShows
<1>. HIDE DEF s
<1>3. Terminal(s, MaxPageSize).items = SubSeq(s, 1, Len(s))
  <2>1. Terminal(s, MaxPageSize).items = First(s, MaxPageSize)
    BY <1>1 DEF Terminal
  <2>2. (IF MaxPageSize < Len(s) THEN MaxPageSize ELSE Len(s)) = Len(s)
    BY <1>1, <1>2
  <2>. QED  BY <2>1, <2>2 DEF First
<1>4. ToSet(SubSeq(s, 1, Len(s))) = {s[i] : i \in 1..Len(s)}
  BY <1>2, SubSeqHas
<1>5. \A i \in 1..Len(s) : s[i] \in rows
  BY <1>2
<1>. QED  BY <1>2, <1>3, <1>4, <1>5 DEF s

(* Texts tell instants apart. *)
LEMMA RankApart ==
  ASSUME NEW a \in Nat, NEW b \in Nat, Rank(a) = Rank(b)
  PROVE  a = b
<1>. DEFINE n == Base + 1
            F(t) == t % (Base * Base)
            High(t) == IF F(t) = 0 THEN Base ELSE F(t) \div Base
            Low(t) == IF F(t) % Base = 0 THEN Base ELSE F(t) % Base
<1>0. Base \in Nat \ {0, 1} /\ n \in Nat \ {0} /\ n * n \in Nat \ {0} /\ Base * Base \in Nat \ {0}
  BY BaseAssumption
<1>1. ASSUME NEW t \in Nat
      PROVE  /\ F(t) \in 0..Base * Base - 1 /\ Second(t) \in Int
             /\ t = (Base * Base) * Second(t) + F(t)
             /\ F(t) \div Base \in 0..Base - 1 /\ F(t) % Base \in 0..Base - 1
             /\ F(t) = Base * (F(t) \div Base) + (F(t) % Base)
             /\ High(t) \in 0..Base /\ Low(t) \in 0..Base
             /\ Rank(t) = (n * n) * Second(t) + (High(t) * n + Low(t))
  <2>1. F(t) \in 0..Base * Base - 1 /\ Second(t) \in Int /\ t = (Base * Base) * Second(t) + F(t)
    <3>. DEFINE w == Base * Base
    <3>. HIDE DEF w
    <3>1. w \in Nat \ {0}
      BY <1>0 DEF w
    <3>2. t \div w \in Int /\ t % w \in 0..w-1 /\ t = w * (t \div w) + (t % w)
      BY <3>1, Quotient
    <3>. QED  BY <3>2 DEF w, Second
  <2>. DEFINE f == F(t)
  <2>. HIDE DEF F
  <2>2. f \in Nat /\ f <= Base * Base - 1
    BY <1>0, <2>1
  <2>. HIDE DEF f
  <2>3. f \div Base \in Int /\ f % Base \in 0..Base - 1 /\ f = Base * (f \div Base) + (f % Base)
    BY <1>0, <2>2, Quotient
  <2>4. f \div Base \in 0..Base - 1
    <3>. DEFINE q == f \div Base
    <3>1. q \in Int /\ Base * q \in Int /\ Base * q <= f /\ f < Base * q + Base
      BY <1>0, <2>2, <2>3
    <3>. HIDE DEF q
    <3>2. ~(q < 0)
      <4>. SUFFICES ASSUME q < 0 PROVE FALSE
        OBVIOUS
      <4>1. Base * q + Base <= Base * 0
        BY <1>0, <3>1, Multiples
      <4>. QED  BY <1>0, <2>2, <3>1, <4>1
    <3>3. ~(Base - 1 < q)
      <4>. SUFFICES ASSUME Base - 1 < q PROVE FALSE
        OBVIOUS
      <4>1. Base * (Base - 1) + Base <= Base * q
        BY <1>0, <3>1, Multiples
      <4>2. Base * (Base - 1) + Base = Base * Base
        BY <1>0
      <4>. QED  BY <1>0, <2>2, <3>1, <4>1, <4>2
    <3>. QED  BY <1>0, <3>1, <3>2, <3>3 DEF q
  <2>5. High(t) \in 0..Base /\ Low(t) \in 0..Base
    BY <1>0, <2>3, <2>4 DEF f
  <2>6. Rank(t) = (Second(t) * n + High(t)) * n + Low(t)
    BY DEF Rank, F
  <2>. HIDE DEF High, Low, n
  <2>7. Rank(t) = (n * n) * Second(t) + (High(t) * n + Low(t))
    BY <1>0, <2>1, <2>5, <2>6, Digits
  <2>. QED  BY <2>1, <2>3, <2>4, <2>5, <2>7 DEF f, n
<1>2. Second(a) = Second(b)
  <2>1. Second(a) \in Int /\ Second(b) \in Int /\ Rank(a) \in Int
    BY <1>1, RankOrder
  <2>2. ~(Second(a) < Second(b)) /\ ~(Second(b) < Second(a))
    BY <2>1, RankOrder
  <2>. QED  BY <2>1, <2>2
<1>3. High(a) * n + Low(a) = High(b) * n + Low(b)
  <2>. DEFINE x == High(a) * n + Low(a)
              y == High(b) * n + Low(b)
              z == (n * n) * Second(a)
  <2>1. x \in Int /\ y \in Int /\ z \in Int
    <3>1. /\ High(a) \in 0..Base /\ Low(a) \in 0..Base /\ Second(a) \in Int
          /\ High(b) \in 0..Base /\ Low(b) \in 0..Base
      BY <1>1
    <3>. HIDE DEF High, Low, n
    <3>2. High(a) * n \in Int /\ High(b) * n \in Int /\ (n * n) * Second(a) \in Int
      BY <1>0, <3>1
    <3>. QED  BY <1>0, <3>1, <3>2
  <2>2. z + x = z + y
    <3>. HIDE DEF High, Low, n
    <3>. QED  BY <1>1, <1>2
  <2>. HIDE DEF x, y, z
  <2>3. x = y
    BY <2>1, <2>2
  <2>. QED  BY <2>3 DEF x, y
<1>4. High(a) = High(b) /\ Low(a) = Low(b)
  <2>0. High(a) \in 0..Base /\ Low(a) \in 0..Base /\ High(b) \in 0..Base /\ Low(b) \in 0..Base
    BY <1>1
  <2>. DEFINE h == High(a)
              k == High(b)
              l == Low(a)
              m == Low(b)
  <2>1. h \in Int /\ k \in Int /\ l \in 0..n - 1 /\ m \in 0..n - 1 /\ n * h + l = n * k + m
    <3>1. l \in 0..n - 1 /\ m \in 0..n - 1 /\ h \in Int /\ k \in Int
      <4>. HIDE DEF High, Low
      <4>. QED  BY <1>0, <2>0
    <3>. HIDE DEF h, k, l, m
    <3>2. h * n + l = k * n + m
      BY <1>3 DEF h, k, l, m
    <3>3. h * n = n * h /\ k * n = n * k
      BY <1>0, <3>1
    <3>. QED  BY <3>1, <3>2, <3>3
  <2>. HIDE DEF h, k, l, m, n
  <2>2. n * h \in Int /\ n * k \in Int
    BY <1>0, <2>1
  <2>3. ~(h < k)
    <3>. SUFFICES ASSUME h < k PROVE FALSE
      OBVIOUS
    <3>1. n * h + n <= n * k
      BY <1>0, <2>1, Multiples
    <3>. QED  BY <1>0, <2>1, <2>2, <3>1
  <2>4. ~(k < h)
    <3>. SUFFICES ASSUME k < h PROVE FALSE
      OBVIOUS
    <3>1. n * k + n <= n * h
      BY <1>0, <2>1, Multiples
    <3>. QED  BY <1>0, <2>1, <2>2, <3>1
  <2>5. h = k
    BY <2>1, <2>3, <2>4
  <2>6. l = m
    BY <1>0, <2>1, <2>2, <2>5
  <2>. QED  BY <2>5, <2>6 DEF h, k, l, m
<1>5. F(a) = F(b)
  <2>. DEFINE f == F(a)
              g == F(b)
  <2>1. /\ f \in Nat /\ f \div Base \in 0..Base - 1 /\ f % Base \in 0..Base - 1
        /\ g \in Nat /\ g \div Base \in 0..Base - 1 /\ g % Base \in 0..Base - 1
        /\ f = Base * (f \div Base) + (f % Base) /\ g = Base * (g \div Base) + (g % Base)
    <3>1. f \in 0..Base * Base - 1 /\ g \in 0..Base * Base - 1
      BY <1>1
    <3>. QED  BY <1>0, <1>1, <3>1
  <2>2. /\ (IF f = 0 THEN Base ELSE f \div Base) = (IF g = 0 THEN Base ELSE g \div Base)
        /\ (IF f % Base = 0 THEN Base ELSE f % Base) = (IF g % Base = 0 THEN Base ELSE g % Base)
    BY <1>4
  <2>. DEFINE k == f \div Base
              l == f % Base
              m == g \div Base
              o == g % Base
  <2>. HIDE DEF f, g, k, l, m, o
  <2>3. k \in 0..Base - 1 /\ m \in 0..Base - 1 /\ l \in 0..Base - 1 /\ o \in 0..Base - 1
        /\ f = Base * k + l /\ g = Base * m + o
        /\ (IF f = 0 THEN Base ELSE k) = (IF g = 0 THEN Base ELSE m)
        /\ (IF l = 0 THEN Base ELSE l) = (IF o = 0 THEN Base ELSE o)
    BY <2>1, <2>2 DEF k, l, m, o
  <2>4. l = o /\ (f = 0 <=> g = 0)
    BY <1>0, <2>3
  <2>5. f = g
    BY <2>3, <2>4
  <2>. QED  BY <2>5 DEF f, g
<1>. HIDE DEF F
<1>. QED  BY <1>1, <1>2, <1>5

------------------------------------------------------------------------------
(***************************************************************************)
(* The in-memory stores.  Where texts and instants give the rows of an     *)
(* execution one order, both keep and drop the same checkpoints; and two   *)
(* pages that have room for all rows have the same.                        *)
(***************************************************************************)
(* An order that two ways of comparing give. *)
LEMMA OneOrder ==
  ASSUME NEW rows, \A r \in rows : r.id \in Nat /\ r.at \in Nat, InOrder(rows)
  PROVE  /\ \A a, b \in rows : MockFirst(a, b) <=> NewestFirst(a, b)
         /\ \A a, b \in rows : MockNewer(a, b) <=> NewestFirst(a, b)
<1>1. \A r \in rows : Rank(r.at) \in Int
  BY RankOrder
<1>2. ASSUME NEW a \in rows, NEW b \in rows
      PROVE  (MockFirst(a, b) <=> NewestFirst(a, b)) /\ (MockNewer(a, b) <=> NewestFirst(a, b))
  <2>1. CASE a = b
    BY <1>1, <2>1 DEF MockFirst, MockNewer, NewestFirst
  <2>2. CASE a # b
    <3>1. /\ a.at # b.at /\ (a.at < b.at <=> Rank(a.at) < Rank(b.at))
          /\ (b.at < a.at <=> Rank(b.at) < Rank(a.at))
      BY <2>2 DEF InOrder
    <3>2. a.at \in Nat /\ b.at \in Nat /\ Rank(a.at) \in Int /\ Rank(b.at) \in Int
      BY <1>1
    <3>. QED  BY <3>1, <3>2 DEF MockFirst, MockNewer, NewestFirst
  <2>. QED  BY <2>1, <2>2
<1>. QED  BY <1>2

(* The row that is before all others is the best. *)
LEMMA BestIs ==
  ASSUME NEW rows, \A r \in rows : r.id \in Nat /\ r.at \in Nat, NEW r \in rows,
         \A o \in rows : o = r \/ NewestFirst(r, o)
  PROVE  /\ Best(rows, NewestFirst) = r
         /\ InOrder(rows) => Best(rows, MockNewer) = r
<1>1. \A o \in rows : Rank(o.at) \in Int
  BY RankOrder
<1>2. ASSUME NEW a \in rows, \A o \in rows : o = a \/ NewestFirst(a, o)
      PROVE  a = r
  <2>1. a = r \/ (NewestFirst(a, r) /\ NewestFirst(r, a))
    BY <1>2
  <2>. QED  BY <1>1, <2>1 DEF NewestFirst
<1>3. Best(rows, NewestFirst) = CHOOSE a \in rows : \A o \in rows : o = a \/ NewestFirst(a, o)
  BY DEF Best
<1>4. Best(rows, MockNewer) = CHOOSE a \in rows : \A o \in rows : o = a \/ MockNewer(a, o)
  BY DEF Best
<1>5. Best(rows, NewestFirst) = r
  BY <1>2, <1>3
<1>6. ASSUME InOrder(rows) PROVE Best(rows, MockNewer) = r
  <2>1. \A a, b \in rows : MockNewer(a, b) <=> NewestFirst(a, b)
    BY <1>6, OneOrder
  <2>. QED  BY <1>2, <1>4, <2>1
<1>. QED  BY <1>5, <1>6

(* Of rows in turn the first are kept, as many as are asked for. *)
LEMMA PruneKeeps ==
  ASSUME NEW rows, IsFiniteSet(rows), NEW order, Strict(order, rows), Comparable(order, rows),
         NEW keep \in Nat
  PROVE  LET left == rows \ Oldest(InTurn(rows, order), keep)
         IN  /\ Cardinality(left) <= keep
             /\ Oldest(InTurn(rows, order), keep) \subseteq rows
             /\ keep > 0 => \A r \in rows : (\A o \in rows : o = r \/ <<r, o>> \in order) => r \in left
<1>. DEFINE s    == InTurn(rows, order)
            from == IF keep < Len(s) THEN keep + 1 ELSE Len(s) + 1
            gone == Oldest(s, keep)
            left == rows \ gone
<1>1. /\ s \in Seq(rows) /\ Len(s) \in Nat
      /\ \A r \in rows : \E i \in 1..Len(s) : s[i] = r
      /\ \A i, j \in 1..Len(s) : i < j => <<s[i], s[j]>> \in order
      /\ \A i \in 1..Len(s) : s[i] \in rows
  <2>1. s \in Seq(rows) /\ Len(s) \in Nat
        /\ (\A r \in rows : \E i \in 1..Len(s) : s[i] = r)
        /\ \A i, j \in 1..Len(s) : i < j => <<s[i], s[j]>> \in order
    BY InTurnShows
  <2>. HIDE DEF s
  <2>2. \A i \in 1..Len(s) : s[i] \in rows
    BY <2>1
  <2>. QED  BY <2>1, <2>2
<1>. HIDE DEF s
<1>2. gone = {s[i] : i \in from..Len(s)}
  <2>1. from \in Nat \ {0} /\ from <= Len(s) + 1 /\ Len(s) <= Len(s)
    BY <1>1
  <2>2. gone = ToSet(SubSeq(s, from, Len(s)))
    BY DEF Oldest
  <2>. HIDE DEF from
  <2>3. s \in Seq(rows) /\ Len(s) \in Nat
    BY <1>1
  <2>4. ToSet(SubSeq(s, from, Len(s))) = {s[i] : i \in from..Len(s)}
    BY <2>1, <2>3, SubSeqHas
  <2>. QED  BY <2>2, <2>4
<1>21. gone \subseteq rows
  <2>1. from \in Nat \ {0}
    BY <1>1
  <2>2. \A i \in from..Len(s) : i \in 1..Len(s)
    BY <1>1, <2>1
  <2>. QED  BY <1>1, <1>2, <2>2
<1>. HIDE DEF gone
<1>3. left \subseteq {s[i] : i \in 1..keep}
  <2>. SUFFICES ASSUME NEW r \in left PROVE \E i \in 1..keep : s[i] = r
    OBVIOUS
  <2>1. PICK i \in 1..Len(s) : s[i] = r
    BY <1>1
  <2>2. i \notin from..Len(s)
    BY <1>2, <2>1
  <2>3. Len(s) \in Nat
    BY <1>1
  <2>4. i \in 1..keep
    BY <2>2, <2>3
  <2>. QED  BY <2>1, <2>4
<1>4. Cardinality(left) <= keep
  <2>1. IsFiniteSet(1..keep) /\ Cardinality(1..keep) = keep
    BY FS_Interval
  <2>. DEFINE T == 1..keep
              image == {s[i] : i \in T}
              f == [i \in T |-> s[i]]
  <2>2. IsFiniteSet(image) /\ Cardinality(image) <= Cardinality(T)
    <3>1. f \in Surjection(T, image)
      <4>. HIDE DEF T
      <4>. QED  BY DEF Surjection
    <3>. HIDE DEF T, image, f
    <3>2. IsFiniteSet(T)
      BY <2>1 DEF T
    <3>. QED  BY <3>1, <3>2, FS_Surjection
  <2>3. left \subseteq image
    BY <1>3 DEF T
  <2>. HIDE DEF image, left, T
  <2>4. IsFiniteSet(left) /\ Cardinality(left) <= Cardinality(image)
    BY <2>2, <2>3, FS_Subset
  <2>5. Cardinality(left) \in Nat /\ Cardinality(image) \in Nat /\ Cardinality(T) = keep
    BY <2>1, <2>2, <2>4, FS_CardinalityType DEF T
  <2>. QED  BY <2>2, <2>4, <2>5
<1>5. ASSUME keep > 0, NEW r \in rows, \A o \in rows : o = r \/ <<r, o>> \in order
      PROVE  r \in left
  <2>. SUFFICES ASSUME r \in gone PROVE FALSE
    OBVIOUS
  <2>1. PICK i \in from..Len(s) : s[i] = r
    BY <1>2
  <2>2. i > 1 /\ i \in 1..Len(s) /\ 1 \in 1..Len(s)
    BY <1>1, <1>5, <2>1
  <2>3. <<s[1], r>> \in order /\ s[1] \in rows
    BY <1>1, <2>1, <2>2
  <2>4. s[1] = r \/ <<r, s[1]>> \in order
    BY <1>5, <2>3
  <2>. QED  BY <2>3, <2>4 DEF Strict
<1>. QED  BY <1>4, <1>5, <1>21 DEF s, gone

(* Checkpoints of an execution, in one order, are pruned alike. *)
LEMMA PrunedAlike ==
  ASSUME RepositoryInv, NEW e, NEW rows, rows = {r \in db["checkpoints"] : r.group = e},
         rows # {}, InOrder(rows)
  PROVE  /\ latest(rows, e) = mock_latest(rows, e)
         /\ \A keep \in 0..2 : /\ prune(rows, e, keep) = mock_prune(rows, e, keep)
                               /\ Cardinality(prune(rows, e, keep)) <= keep
                               /\ keep > 0 => latest(rows, e) \in prune(rows, e, keep)
<1>1. /\ IsFiniteSet(rows) /\ {r \in rows : r.group = e} = rows
      /\ \A r \in rows : r.id \in Nat /\ r.at \in Nat
      /\ \A a, b \in rows : a.id = b.id => a = b
  <2>1. rows \in SUBSET db["checkpoints"] /\ "checkpoints" \in Tables /\ "checkpoints" # "metadata"
    BY DEF Tables
  <2>2. /\ rows \subseteq Stored("checkpoints") /\ IsFiniteSet(rows)
        /\ \A r \in Stored("checkpoints") : r.id \in Nat /\ r.at \in Nat
        /\ \A a, b \in rows : a.id = b.id => a = b
    BY <2>1, IdsApart
  <2>. QED  BY <2>2
<1>. DEFINE order == Pairs(rows, NewestFirst)
<1>2. Strict(order, rows) /\ Comparable(order, rows)
      /\ \A a, b \in rows : <<a, b>> \in order <=> NewestFirst(a, b)
  BY <1>1, NewestOrder
<1>3. Pairs(rows, MockFirst) = order
  BY <1>1, OneOrder DEF Pairs
<1>4. ASSUME NEW keep
      PROVE  /\ prune(rows, e, keep) = rows \ Oldest(InTurn(rows, order), keep)
             /\ mock_prune(rows, e, keep) = prune(rows, e, keep)
  BY <1>1, <1>3 DEF prune, mock_prune, SqlNewest, Newest
<1>. HIDE DEF order
<1>5. PICK r \in rows : \A o \in rows : o = r \/ <<r, o>> \in order
  <2>1. rows \subseteq rows
    OBVIOUS
  <2>. QED  BY <1>1, <1>2, <2>1, FirstAndLast
<1>6. latest(rows, e) = r /\ mock_latest(rows, e) = r
  <2>1. \A o \in rows : o = r \/ NewestFirst(r, o)
    BY <1>2, <1>5
  <2>2. Best(rows, NewestFirst) = r /\ Best(rows, MockNewer) = r
    BY <1>1, <2>1, BestIs
  <2>. QED  BY <1>1, <2>2 DEF latest, mock_latest
<1>7. ASSUME NEW keep \in 0..2
      PROVE  /\ Cardinality(prune(rows, e, keep)) <= keep
             /\ keep > 0 => r \in prune(rows, e, keep)
  <2>. DEFINE left == rows \ Oldest(InTurn(rows, order), keep)
  <2>1. keep \in Nat
    OBVIOUS
  <2>2. /\ Cardinality(left) <= keep
        /\ keep > 0 => \A x \in rows : (\A o \in rows : o = x \/ <<x, o>> \in order) => x \in left
    BY <1>1, <1>2, <2>1, PruneKeeps
  <2>3. prune(rows, e, keep) = left
    BY <1>4
  <2>. HIDE DEF left
  <2>. QED  BY <1>5, <2>2, <2>3
<1>. QED  BY <1>4, <1>6, <1>7

(* Rows with ids of their own are in one order as MockFirst gives it. *)
LEMMA MockOrder ==
  ASSUME NEW rows, \A r \in rows : r.id \in Nat /\ r.at \in Nat,
         \A a, b \in rows : a.id = b.id => a = b
  PROVE  Strict(Pairs(rows, MockFirst), rows) /\ Comparable(Pairs(rows, MockFirst), rows)
<1>. DEFINE R == Pairs(rows, MockFirst)
<1>1. \A a, b \in rows : <<a, b>> \in R <=> MockFirst(a, b)
  BY DEF Pairs
<1>. HIDE DEF R
<1>2. \A a \in rows : ~MockFirst(a, a)
  BY DEF MockFirst
<1>3. \A a, b, c \in rows : MockFirst(a, b) /\ MockFirst(b, c) => MockFirst(a, c)
  BY DEF MockFirst
<1>4. \A a, b \in rows : a = b \/ MockFirst(a, b) \/ MockFirst(b, a)
  BY DEF MockFirst
<1>. QED  BY <1>1, <1>2, <1>3, <1>4 DEF R, Strict, Comparable

(***************************************************************************)
(* What the two repositories hold.  Only plans that were refused tell the  *)
(* plans apart, and only executions that were pruned in two orders the     *)
(* checkpoints; sqlite has rows of metadata that nobody put.               *)
(***************************************************************************)
Checkpoints(rows, e) == {r \in rows : r.group = e}

PlansHeld == /\ mem["plans"] \ db["plans"] \subseteq refused
             /\ \A r \in db["plans"] \ mem["plans"] : \E p \in refused : p.id = r.id
CheckpointsHeld ==
  /\ SoundRows("checkpoints", mem["checkpoints"])
  /\ \A e : e \notin crossed =>
       Checkpoints(mem["checkpoints"], e) = Checkpoints(db["checkpoints"], e)
ExecutionsHeld == mem["executions"] = db["executions"]
MetadataHeld == mem["metadata"] = {r \in db["metadata"] : r.tag # Blank}

HeldInv == /\ RepositoryInv /\ DOMAIN mem = Tables
           /\ PlansHeld /\ CheckpointsHeld /\ ExecutionsHeld /\ MetadataHeld

(* A call is about one table. *)
Turned(f, g, t, rows) == /\ DOMAIN g = Tables
                         /\ \A x \in Tables : g[x] = IF x = t THEN rows ELSE f[x]

LEMMA ExceptTurns ==
  ASSUME NEW f, DOMAIN f = Tables, NEW t
  PROVE  /\ Turned(f, f, t, f[t])
         /\ \A rows : Turned(f, [f EXCEPT ![t] = rows], t, rows)
BY DEF Turned

LEMMA HeldElsewhere ==
  ASSUME HeldInv, RepositoryInv', NEW t \in Tables, NEW these, NEW those,
         Turned(db, db', t, these), Turned(mem, mem', t, those),
         t # "plans" => UNCHANGED refused, t # "checkpoints" => UNCHANGED crossed
  PROVE  /\ db'[t] = these /\ mem'[t] = those
         /\ /\ t = "plans" => PlansHeld'
            /\ t = "checkpoints" => CheckpointsHeld'
            /\ t = "executions" => ExecutionsHeld'
            /\ t = "metadata" => MetadataHeld'
            => HeldInv'
<1>2. /\ DOMAIN mem' = Tables /\ db'[t] = these /\ mem'[t] = those
      /\ \A x \in Tables : x # t => db'[x] = db[x] /\ mem'[x] = mem[x]
  BY DEF Turned
<1>3. /\ t # "plans" => PlansHeld'
      /\ t # "checkpoints" => CheckpointsHeld'
      /\ t # "executions" => ExecutionsHeld'
      /\ t # "metadata" => MetadataHeld'
  BY <1>2 DEF HeldInv, PlansHeld, CheckpointsHeld, ExecutionsHeld, MetadataHeld, Tables, SoundRows,
     OneRowPerKey, Key, Checkpoints, Stored
<1>. QED  BY <1>2, <1>3 DEF HeldInv, Tables

LEMMA HeldStays ==
  ASSUME HeldInv, RepositoryInv', UNCHANGED <<db, mem, refused, crossed>>
  PROVE  HeldInv'
BY DEF HeldInv, PlansHeld, CheckpointsHeld, ExecutionsHeld, MetadataHeld, Checkpoints, SoundRows,
   OneRowPerKey, Key, Stored

(* save_plan, refused or not: the plan in memory takes the place of one    *)
(* with its id. *)
LEMMA HeldPlans ==
  ASSUME HeldInv, RepositoryInv', NEW p, NEW plans, NEW no \in BOOLEAN,
         Turned(db, db', "plans", plans), mock_save_plan(p), Refuse(p, no), UNCHANGED crossed,
         no => plans = db["plans"],
         ~no => /\ plans = db["plans"] \cup {p}
                /\ \A r \in db["plans"] : r.id = p.id => r = p
  PROVE  HeldInv'
<1>. DEFINE those == Upsert("plans", mem["plans"], p)
<1>0. "plans" \in Tables
  BY DEF Tables
<1>1. Turned(mem, mem', "plans", those)
  BY ExceptTurns DEF mock_save_plan, HeldInv
<1>2. those = {x \in mem["plans"] : x.id # p.id} \cup {p}
  BY DEF Upsert, Key
<1>3. refused \subseteq refused' /\ (no => p \in refused')
  BY DEF Refuse
<1>4. mem["plans"] \ db["plans"] \subseteq refused
      /\ \A r \in db["plans"] \ mem["plans"] : \E x \in refused : x.id = r.id
  BY DEF HeldInv, PlansHeld
<1>. HIDE DEF those
<1>5. db'["plans"] = plans /\ mem'["plans"] = those
      /\ (PlansHeld' => HeldInv')
  BY <1>0, <1>1, HeldElsewhere
<1>6. those \ plans \subseteq refused'
  BY <1>2, <1>3, <1>4
<1>7. ASSUME NEW r \in plans \ those PROVE \E x \in refused' : x.id = r.id
  <2>1. r \in db["plans"] /\ r # p
    BY <1>2, <1>7
  <2>2. CASE r \in mem["plans"]
    <3>1. r.id = p.id
      BY <1>2, <1>7, <2>2
    <3>. QED  BY <1>3, <2>1, <3>1
  <2>3. CASE r \notin mem["plans"]
    BY <1>3, <1>4, <2>1, <2>3
  <2>. QED  BY <2>2, <2>3
<1>. QED  BY <1>5, <1>6, <1>7 DEF PlansHeld

(* A checkpoint that is saved or deleted in both. *)
LEMMA HeldCheckpoints ==
  ASSUME HeldInv, RepositoryInv', NEW these, NEW those, UNCHANGED <<refused, crossed>>,
         Turned(db, db', "checkpoints", these), Turned(mem, mem', "checkpoints", those),
         SoundRows("checkpoints", those),
         \A e : Checkpoints(mem["checkpoints"], e) = Checkpoints(db["checkpoints"], e)
               => Checkpoints(those, e) = Checkpoints(these, e)
  PROVE  HeldInv'
<1>0. "checkpoints" \in Tables
  BY DEF Tables
<1>1. /\ db'["checkpoints"] = these /\ mem'["checkpoints"] = those
      /\ CheckpointsHeld' => HeldInv'
  BY <1>0, HeldElsewhere
<1>2. SoundRows("checkpoints", mem["checkpoints"])'
  BY <1>1 DEF SoundRows, Stored, OneRowPerKey, Key
<1>. QED  BY <1>1, <1>2 DEF HeldInv, CheckpointsHeld, Checkpoints

(* Pruning is about one execution, and takes the same rows of it where     *)
(* there is one order. *)
LEMMA PruneTakes ==
  ASSUME NEW rows, SoundRows("checkpoints", rows), NEW e, NEW keep \in 0..2
  PROVE  /\ prune(rows, e, keep) \subseteq rows
         /\ rows \ prune(rows, e, keep) \subseteq Checkpoints(rows, e)
         /\ mock_prune(rows, e, keep) \subseteq rows
         /\ rows \ mock_prune(rows, e, keep) \subseteq Checkpoints(rows, e)
<1>. DEFINE mine == {r \in rows : r.group = e}
<1>1. /\ IsFiniteSet(mine) /\ \A r \in mine : r.id \in Nat /\ r.at \in Nat
      /\ \A a, b \in mine : a.id = b.id => a = b
  <2>1. IsFiniteSet(mine)
    BY FS_Subset DEF SoundRows
  <2>. QED  BY <2>1 DEF SoundRows, Stored, OneRowPerKey, Key
<1>. HIDE DEF mine
<1>2. Strict(Pairs(mine, NewestFirst), mine) /\ Comparable(Pairs(mine, NewestFirst), mine)
  BY <1>1, NewestOrder
<1>3. Strict(Pairs(mine, MockFirst), mine) /\ Comparable(Pairs(mine, MockFirst), mine)
  BY <1>1, MockOrder
<1>4. keep \in Nat
  OBVIOUS
<1>5. Oldest(InTurn(mine, Pairs(mine, NewestFirst)), keep) \subseteq mine
  BY <1>1, <1>2, <1>4, PruneKeeps
<1>6. Oldest(InTurn(mine, Pairs(mine, MockFirst)), keep) \subseteq mine
  BY <1>1, <1>3, <1>4, PruneKeeps
<1>7. prune(rows, e, keep) = rows \ Oldest(InTurn(mine, Pairs(mine, NewestFirst)), keep)
  BY DEF prune, SqlNewest, mine
<1>8. mock_prune(rows, e, keep) = rows \ Oldest(InTurn(mine, Pairs(mine, MockFirst)), keep)
  BY DEF mock_prune, Newest, mine
<1>. QED  BY <1>5, <1>6, <1>7, <1>8 DEF mine, Checkpoints

LEMMA PrunesSame ==
  ASSUME NEW rows, NEW others, NEW e, NEW keep, SoundRows("checkpoints", rows),
         Checkpoints(rows, e) = Checkpoints(others, e), InOrder(Checkpoints(rows, e))
  PROVE  Checkpoints(prune(rows, e, keep), e) = Checkpoints(mock_prune(others, e, keep), e)
<1>. DEFINE mine == Checkpoints(rows, e)
            gone == Oldest(InTurn(mine, Pairs(mine, NewestFirst)), keep)
<1>1. \A r \in mine : r.id \in Nat /\ r.at \in Nat
  BY DEF SoundRows, Stored, Checkpoints
<1>2. \A a, b \in mine : MockFirst(a, b) <=> NewestFirst(a, b)
  <2>. HIDE DEF mine
  <2>. QED  BY <1>1, OneOrder DEF mine
<1>3. Pairs(mine, MockFirst) = Pairs(mine, NewestFirst)
  <2>. HIDE DEF mine
  <2>. QED  BY <1>2 DEF Pairs
<1>4. prune(rows, e, keep) = rows \ gone
  BY DEF prune, SqlNewest, Checkpoints
<1>5. mock_prune(others, e, keep) = others \ gone
  <2>1. mock_prune(others, e, keep) = others \ Oldest(Newest(Checkpoints(others, e)), keep)
    BY DEF mock_prune, Checkpoints
  <2>2. Newest(Checkpoints(others, e)) = InTurn(mine, Pairs(mine, NewestFirst))
    BY <1>3 DEF Newest
  <2>. QED  BY <2>1, <2>2
<1>. HIDE DEF gone
<1>. QED  BY <1>4, <1>5 DEF Checkpoints

LEMMA HeldPruned ==
  ASSUME HeldInv, RepositoryInv', NEW e, NEW keep \in 0..2, prune_checkpoints(e, keep)
  PROVE  HeldInv'
<1>. DEFINE D == db["checkpoints"]
            M == mem["checkpoints"]
<1>0. "checkpoints" \in Tables
  BY DEF Tables
<1>1. /\ Turned(db, db', "checkpoints", prune(D, e, keep))
      /\ Turned(mem, mem', "checkpoints", mock_prune(M, e, keep))
      /\ crossed' = IF InOrder(Checkpoints(D, e)) THEN crossed ELSE crossed \cup {e}
      /\ UNCHANGED refused
  BY ExceptTurns DEF prune_checkpoints, Checkpoints, HeldInv, RepositoryInv
<1>2. /\ SoundRows("checkpoints", M) /\ SoundRows("checkpoints", D)
      /\ \A x : x \notin crossed => Checkpoints(M, x) = Checkpoints(D, x)
  BY <1>0 DEF HeldInv, CheckpointsHeld, RepositoryInv
<1>. HIDE DEF D, M
<1>3. prune(D, e, keep) \subseteq D /\ D \ prune(D, e, keep) \subseteq Checkpoints(D, e)
  BY <1>2, PruneTakes
<1>4. mock_prune(M, e, keep) \subseteq M /\ M \ mock_prune(M, e, keep) \subseteq Checkpoints(M, e)
  BY <1>2, PruneTakes
<1>5. /\ db'["checkpoints"] = prune(D, e, keep) /\ mem'["checkpoints"] = mock_prune(M, e, keep)
      /\ CheckpointsHeld' => HeldInv'
  BY <1>0, <1>1, HeldElsewhere
<1>6. SoundRows("checkpoints", mem'["checkpoints"])
  BY <1>2, <1>4, <1>5, PartKeepsKeys
<1>7. SoundRows("checkpoints", mem["checkpoints"])'
  BY <1>6 DEF SoundRows, Stored, OneRowPerKey, Key
<1>8. ASSUME NEW x, x \notin crossed'
      PROVE  Checkpoints(mem'["checkpoints"], x) = Checkpoints(db'["checkpoints"], x)
  <2>1. Checkpoints(M, x) = Checkpoints(D, x)
    BY <1>1, <1>2, <1>8
  <2>2. CASE x # e
    BY <1>3, <1>4, <1>5, <2>1, <2>2 DEF Checkpoints
  <2>3. CASE x = e
    <3>1. InOrder(Checkpoints(D, e))
      BY <1>1, <1>8, <2>3
    <3>. QED  BY <1>2, <1>5, <2>1, <2>3, <3>1, PrunesSame
  <2>. QED  BY <2>2, <2>3
<1>9. CheckpointsHeld'
  BY <1>7, <1>8 DEF CheckpointsHeld, Checkpoints
<1>. QED  BY <1>5, <1>9

(* Every call leaves the two repositories as they are to be. *)
LEMMA HeldStep ==
  ASSUME HeldInv, NEW t \in Tables, NextRepository(t)
  PROVE  HeldInv'
<1>0. RepositoryInv /\ RepositoryInv' /\ DOMAIN db = Tables /\ DOMAIN mem = Tables
  BY RepositoryStep DEF HeldInv, RepositoryInv
<1>1. ASSUME NEW r \in Rows["executions"], SaveRow("executions", r) PROVE HeldInv'
  <2>0. "executions" \in Tables
    BY DEF Tables
  <2>1. /\ Turned(db, db', "executions", Upsert("executions", db["executions"], r))
        /\ Turned(mem, mem', "executions", Upsert("executions", mem["executions"], r))
        /\ UNCHANGED <<refused, crossed>>
    BY <1>0, <1>1, ExceptTurns DEF SaveRow, Put
  <2>2. /\ db'["executions"] = Upsert("executions", db["executions"], r)
        /\ mem'["executions"] = Upsert("executions", mem["executions"], r)
        /\ ExecutionsHeld' => HeldInv'
    BY <1>0, <2>0, <2>1, HeldElsewhere
  <2>3. ExecutionsHeld'
    BY <2>2 DEF HeldInv, ExecutionsHeld
  <2>. QED  BY <2>2, <2>3
<1>2. ASSUME NEW r \in Rows["metadata"], SaveRow("metadata", r) PROVE HeldInv'
  <2>0. "metadata" \in Tables
    BY DEF Tables
  <2>1. /\ Turned(db, db', "metadata", Upsert("metadata", db["metadata"], r))
        /\ Turned(mem, mem', "metadata", Upsert("metadata", mem["metadata"], r))
        /\ UNCHANGED <<refused, crossed>>
    BY <1>0, <1>2, ExceptTurns DEF SaveRow, Put
  <2>2. /\ db'["metadata"] = Upsert("metadata", db["metadata"], r)
        /\ mem'["metadata"] = Upsert("metadata", mem["metadata"], r)
        /\ MetadataHeld' => HeldInv'
    BY <1>0, <2>0, <2>1, HeldElsewhere
  <2>3. r.tag # Blank
    BY RepositoryAssumption
  <2>4. MetadataHeld'
    BY <2>2, <2>3 DEF HeldInv, MetadataHeld, Upsert
  <2>. QED  BY <2>2, <2>4
<1>3. ASSUME NEW scope, NEW i, set_attr(scope, i) PROVE HeldInv'
  <2>0. "metadata" \in Tables
    BY DEF Tables
  <2>. DEFINE new  == [id |-> i, at |-> Undated, tag |-> Blank, group |-> scope]
              rows == IF ByKey("metadata", db["metadata"], <<scope, i>>) = {}
                      THEN db["metadata"] \cup {new} ELSE db["metadata"]
  <2>1. /\ Turned(db, db', "metadata", rows)
        /\ Turned(mem, mem', "metadata", mem["metadata"])
        /\ UNCHANGED <<refused, crossed>>
    <3>1. db' = [db EXCEPT !["metadata"] = rows] /\ mem' = mem /\ UNCHANGED <<refused, crossed>>
      BY <1>3 DEF set_attr
    <3>. QED  BY <1>0, <3>1, ExceptTurns
  <2>2. {r \in rows : r.tag # Blank} = {r \in db["metadata"] : r.tag # Blank}
    <3>1. new.tag = Blank
      OBVIOUS
    <3>. HIDE DEF new
    <3>. QED  BY <3>1
  <2>. HIDE DEF rows
  <2>3. db'["metadata"] = rows /\ mem'["metadata"] = mem["metadata"] /\ (MetadataHeld' => HeldInv')
    BY <1>0, <2>0, <2>1, HeldElsewhere
  <2>. QED  BY <2>2, <2>3 DEF HeldInv, MetadataHeld
<1>4. ASSUME NEW r \in Rows["checkpoints"], SaveRow("checkpoints", r) PROVE HeldInv'
  <2>1. /\ Turned(db, db', "checkpoints", Upsert("checkpoints", db["checkpoints"], r))
        /\ Turned(mem, mem', "checkpoints", Upsert("checkpoints", mem["checkpoints"], r))
        /\ UNCHANGED <<refused, crossed>>
    BY <1>0, <1>4, ExceptTurns DEF SaveRow, Put
  <2>2. r \in Stored("checkpoints") /\ "checkpoints" \in Tables \ {"plans"}
    BY RepositoryAssumption DEF Tables
  <2>3. SoundRows("checkpoints", Upsert("checkpoints", mem["checkpoints"], r))
    BY <2>2, UpsertKeepsKeys DEF HeldInv, CheckpointsHeld
  <2>4. ASSUME NEW e, Checkpoints(mem["checkpoints"], e) = Checkpoints(db["checkpoints"], e)
        PROVE  Checkpoints(Upsert("checkpoints", mem["checkpoints"], r), e)
                 = Checkpoints(Upsert("checkpoints", db["checkpoints"], r), e)
    BY <2>4 DEF Checkpoints, Upsert
  <2>. QED  BY <1>0, <2>1, <2>3, <2>4, HeldCheckpoints
<1>5. ASSUME NEW i, delete_checkpoint(i) PROVE HeldInv'
  <2>. DEFINE Left(rows) == {r \in rows : r.id # i}
  <2>1. /\ Turned(db, db', "checkpoints", Left(db["checkpoints"]))
        /\ Turned(mem, mem', "checkpoints", Left(mem["checkpoints"]))
        /\ UNCHANGED <<refused, crossed>>
    BY <1>0, <1>5, ExceptTurns DEF delete_checkpoint
  <2>2. SoundRows("checkpoints", Left(mem["checkpoints"]))
    BY PartKeepsKeys DEF HeldInv, CheckpointsHeld
  <2>3. ASSUME NEW e, Checkpoints(mem["checkpoints"], e) = Checkpoints(db["checkpoints"], e)
        PROVE  Checkpoints(Left(mem["checkpoints"]), e) = Checkpoints(Left(db["checkpoints"]), e)
    BY <2>3 DEF Checkpoints
  <2>. HIDE DEF Left
  <2>. QED  BY <1>0, <2>1, <2>2, <2>3, HeldCheckpoints
<1>6. ASSUME NEW e \in Groups, NEW keep \in 0..2, prune_checkpoints(e, keep) PROVE HeldInv'
  BY <1>0, <1>6, HeldPruned
<1>7. ASSUME NEW c \in Clients, NEW p \in Rows["plans"], SavePlan(c, p) PROVE HeldInv'
  <2>. DEFINE found == ByKey("plans", db["plans"], <<p.id>>)
  <2>1. CASE found = {}
    <3>1. UNCHANGED <<db, mem, refused, crossed>>
      BY <1>7, <2>1 DEF SavePlan
    <3>. QED  BY <1>0, <3>1, HeldStays
  <2>2. CASE found # {}
    <3>1. /\ db' = db /\ mock_save_plan(p) /\ Refuse(p, found # {p}) /\ UNCHANGED crossed
      BY <1>7, <2>2 DEF SavePlan
    <3>2. Turned(db, db', "plans", db["plans"])
      BY <1>0, <3>1, ExceptTurns
    <3>3. found = {p} => /\ db["plans"] = db["plans"] \cup {p}
                         /\ \A r \in db["plans"] : r.id = p.id => r = p
      BY DEF ByKey, Key
    <3>4. (found # {p}) \in BOOLEAN
      OBVIOUS
    <3>. HIDE DEF found
    <3>. QED  BY <1>0, <3>1, <3>2, <3>3, <3>4, HeldPlans
  <2>. QED  BY <2>1, <2>2
<1>8. ASSUME NEW c \in Clients, InsertPlan(c) PROVE HeldInv'
  <2>. DEFINE p     == call[c]
              taken == \E r \in db["plans"] : r.id = p.id \/ r.group = p.group
              plans == IF taken THEN db["plans"] ELSE db["plans"] \cup {p}
  <2>1. /\ db' = (IF taken THEN db ELSE [db EXCEPT !["plans"] = db["plans"] \cup {p}])
        /\ mock_save_plan(p) /\ Refuse(p, taken) /\ UNCHANGED crossed
    BY <1>8 DEF InsertPlan
  <2>2. Turned(db, db', "plans", plans)
    BY <1>0, <2>1, ExceptTurns
  <2>3. ~taken => \A r \in db["plans"] : r.id = p.id => r = p
    OBVIOUS
  <2>4. /\ taken \in BOOLEAN
        /\ taken => plans = db["plans"]
        /\ ~taken => plans = db["plans"] \cup {p}
    OBVIOUS
  <2>. HIDE DEF taken, plans, p
  <2>. QED  BY <1>0, <2>1, <2>2, <2>3, <2>4, HeldPlans
<1>9. ASSUME NextPage \/ \E q \in Queries : StartWalk(q) PROVE HeldInv'
  BY <1>0, <1>9, HeldStays DEF NextPage, StartWalk
<1>10. ASSUME Mutation(t) PROVE HeldInv'
  BY <1>1, <1>2, <1>3, <1>4, <1>5, <1>6, <1>7, <1>8, <1>10
     DEF Mutation, save_execution, save_checkpoint, upsert_metadata
<1>. QED  BY <1>9, <1>10 DEF NextRepository

(* What parses is read back. *)
LEMMA MetaRead ==
  ASSUME HeldInv, NEW r \in mem["metadata"]
  PROVE  fetch_metadata(r.group, r.id) = r.tag
<1>. DEFINE found == ByKey("metadata", db["metadata"], <<r.group, r.id>>)
<1>1. r \in db["metadata"] /\ r.tag # Blank
  BY DEF HeldInv, MetadataHeld
<1>2. found = {r}
  <2>1. \A a, b \in db["metadata"] : a # b => Key("metadata", a) # Key("metadata", b)
    BY DEF HeldInv, RepositoryInv, SoundRows, OneRowPerKey, Tables
  <2>2. Key("metadata", r) = <<r.group, r.id>>
    BY DEF Key
  <2>. QED  BY <1>1, <2>1, <2>2 DEF ByKey
<1>3. fetch_metadata(r.group, r.id) = IF found = {} THEN None
        ELSE IF \E x \in found : x.tag = Blank THEN "unreadable" ELSE (CHOOSE x \in found : TRUE).tag
  BY DEF fetch_metadata
<1>. HIDE DEF found
<1>4. (CHOOSE x \in found : TRUE) = r
  BY <1>2
<1>. QED  BY <1>1, <1>2, <1>3, <1>4

(* Bounds clear of the rows select the same as texts and as instants. *)
LEMMA BoundsAlike ==
  ASSUME NEW rows, \A r \in rows : r.at \in Nat, NEW q, q.after \in Nat \cup {None},
         q.before \in Nat \cup {None}, ClearOf(q.after, rows), ClearOf(q.before, rows), NEW r \in rows
  PROVE  Bounded(q, r) <=> MockBounded(q, r)
<1>1. ASSUME NEW t \in Nat, ClearOf(t, rows), t # None
      PROVE  (Rank(r.at) >= Rank(t) <=> r.at > t) /\ (Rank(r.at) <= Rank(t) <=> r.at < t)
  <2>1. r.at # t /\ (r.at < t <=> Rank(r.at) < Rank(t))
    BY <1>1 DEF ClearOf
  <2>2. r.at \in Nat /\ Rank(r.at) \in Int /\ Rank(t) \in Int
    BY RankOrder
  <2>3. Rank(r.at) # Rank(t)
    BY <2>1, <2>2, RankApart
  <2>. QED  BY <2>1, <2>2, <2>3
<1>2. q.after = None \/ (Rank(r.at) >= Rank(q.after) <=> r.at > q.after)
  BY <1>1
<1>3. q.before = None \/ (Rank(r.at) <= Rank(q.before) <=> r.at < q.before)
  BY <1>1
<1>. QED  BY <1>2, <1>3 DEF Bounded, MockBounded

(* A page by ids and one of the newest, both with room for all. *)
LEMMA RoomForAll ==
  ASSUME NEW rows, IsFiniteSet(rows), \A r \in rows : r.id \in Nat /\ r.at \in Nat,
         \A a, b \in rows : a.id = b.id => a = b, Cardinality(rows) <= MaxPageSize
  PROVE  /\ \A shown : ToSet(ListById(rows, None, MaxPageSize, shown).items) = rows \cap shown
         /\ ToSet(ListNewest(rows, None, MaxPageSize).items) = rows
         /\ \A part \in SUBSET rows :
              /\ ToSet(Terminal(Newest(part), MaxPageSize).items) = part
              /\ ToSet(Terminal(InTurn(part, Pairs(part, ById)), MaxPageSize).items) = part
<1>1. After(rows, None) = rows /\ AfterNewest(rows, None) = rows
  BY DEF After, AfterNewest
<1>2. Strict(Pairs(rows, ById), rows) /\ Comparable(Pairs(rows, ById), rows)
  BY IdsOrder
<1>3. Strict(Pairs(rows, NewestFirst), rows) /\ Comparable(Pairs(rows, NewestFirst), rows)
  BY NewestOrder
<1>4. ASSUME NEW shown PROVE ToSet(ListById(rows, None, MaxPageSize, shown).items) = rows \cap shown
  <2>1. ListById(rows, None, MaxPageSize, shown) = PageOf(rows, Pairs(rows, ById), MaxPageSize, shown)
    BY <1>1 DEF ListById
  <2>2. ToSet(PageOf(rows, Pairs(rows, ById), MaxPageSize, shown).items) = rows \cap shown
    BY <1>2, WholePage
  <2>. QED  BY <2>1, <2>2
<1>5. ToSet(ListNewest(rows, None, MaxPageSize).items) = rows
  <2>1. ListNewest(rows, None, MaxPageSize) = PageOf(rows, Pairs(rows, NewestFirst), MaxPageSize, rows)
    BY <1>1 DEF ListNewest
  <2>2. ToSet(PageOf(rows, Pairs(rows, NewestFirst), MaxPageSize, rows).items) = rows \cap rows
    BY <1>3, WholePage
  <2>. QED  BY <2>1, <2>2
<1>6. ASSUME NEW part \in SUBSET rows
      PROVE  /\ ToSet(Terminal(Newest(part), MaxPageSize).items) = part
             /\ ToSet(Terminal(InTurn(part, Pairs(part, ById)), MaxPageSize).items) = part
  <2>1. IsFiniteSet(part) /\ Cardinality(part) <= Cardinality(rows)
    BY FS_Subset
  <2>2. Cardinality(part) <= MaxPageSize
    <3>1. Cardinality(part) \in Nat /\ Cardinality(rows) \in Nat /\ MaxPageSize \in Nat
      BY <2>1, FS_CardinalityType, PageSizeAssumption
    <3>. QED  BY <2>1, <3>1
  <2>3. /\ \A r \in part : r.id \in Nat /\ r.at \in Nat
        /\ \A a, b \in part : a.id = b.id => a = b
    OBVIOUS
  <2>4. Strict(Pairs(part, MockFirst), part) /\ Comparable(Pairs(part, MockFirst), part)
    BY <2>3, MockOrder
  <2>5. Strict(Pairs(part, ById), part) /\ Comparable(Pairs(part, ById), part)
    BY <2>3, IdsOrder
  <2>6. ToSet(Terminal(InTurn(part, Pairs(part, MockFirst)), MaxPageSize).items) = part
    BY <2>1, <2>2, <2>4, WholeTerminal
  <2>7. ToSet(Terminal(InTurn(part, Pairs(part, ById)), MaxPageSize).items) = part
    BY <2>1, <2>2, <2>5, WholeTerminal
  <2>. QED  BY <2>6, <2>7 DEF Newest
<1>. QED  BY <1>4, <1>5, <1>6

(* A query that both can answer has one answer. *)
LEMMA ShownAlike ==
  ASSUME HeldInv, NEW q \in Queries, Common(q), Alike(q),
         Cardinality(db[q.table]) <= MaxPageSize
  PROVE  LET whole == [q EXCEPT !.size = MaxPageSize]
         IN  ToSet(Shows(whole, None).items) = ToSet(MockShows(whole).items)
<1>. DEFINE w    == [q EXCEPT !.size = MaxPageSize]
            all  == db[q.table]
<1>0. RepositoryInv
  BY DEF HeldInv
<1>1. /\ q.table \in Tables /\ w.table = q.table /\ w.group = q.group /\ w.tag = q.tag
      /\ w.after = q.after /\ w.before = q.before /\ w.size = MaxPageSize
      /\ q.after \in Nat \cup {None} /\ q.before \in Nat \cup {None}
  BY RepositoryAssumption
<1>. HIDE DEF w
<1>2. /\ SoundRows(q.table, all) /\ IsFiniteSet(all) /\ \A r \in all : r.id \in Nat /\ r.at \in Nat
      /\ all \subseteq Stored(q.table)
  BY <1>0, <1>1 DEF RepositoryInv, SoundRows, Stored
<1>3. \A r \in all : Bounded(w, r) <=> MockBounded(w, r)
  <2>1. ClearOf(q.after, all) /\ ClearOf(q.before, all)
    BY DEF Common
  <2>2. ASSUME NEW r \in all PROVE Bounded(q, r) <=> MockBounded(q, r)
    BY <1>1, <1>2, <2>1, BoundsAlike
  <2>. QED  BY <1>1, <2>2 DEF Bounded, MockBounded
<1>4. ASSUME NEW rows \in SUBSET all, q.table = "metadata" => \A a, b \in rows : a.group = b.group
      PROVE  /\ \A shown : ToSet(ListById(rows, None, MaxPageSize, shown).items) = rows \cap shown
             /\ ToSet(ListNewest(rows, None, MaxPageSize).items) = rows
             /\ \A part \in SUBSET rows :
                  /\ ToSet(Terminal(Newest(part), MaxPageSize).items) = part
                  /\ ToSet(Terminal(InTurn(part, Pairs(part, ById)), MaxPageSize).items) = part
  <2>1. IsFiniteSet(rows) /\ Cardinality(rows) <= Cardinality(all)
    BY <1>2, FS_Subset
  <2>2. Cardinality(rows) <= MaxPageSize
    <3>1. Cardinality(rows) \in Nat /\ Cardinality(all) \in Nat /\ MaxPageSize \in Nat
      BY <1>2, <2>1, FS_CardinalityType, PageSizeAssumption
    <3>. QED  BY <2>1, <3>1
  <2>3. \A a, b \in rows : a.id = b.id => a = b
    BY <1>0, <1>1, <1>4, IdsApart
  <2>4. \A r \in rows : r.id \in Nat /\ r.at \in Nat
    BY <1>2
  <2>. QED  BY <2>1, <2>2, <2>3, <2>4, RoomForAll
<1>5. CASE q.table = "plans"
  <2>. DEFINE shown == {r \in PlansWhere(w) : w.tag = None \/ r.tag = w.tag}
              mock == {r \in mem["plans"] : /\ w.group = None \/ r.group = w.group
                                            /\ w.tag = None \/ r.tag = w.tag
                                            /\ MockBounded(w, r)}
  <2>1. /\ Shows(w, None) = ListById(PlansWhere(w), None, MaxPageSize, shown)
        /\ MockShows(w) = Terminal(Newest(mock), MaxPageSize)
    BY <1>1, <1>5 DEF Shows, MockShows, list_plans, mock_list_plans
  <2>2. PlansWhere(w) \in SUBSET all /\ shown \subseteq PlansWhere(w) /\ mock = shown
    <3>1. mem["plans"] = db["plans"]
      BY <1>5 DEF Alike, HeldInv, PlansHeld
    <3>. QED  BY <1>3, <1>5, <3>1 DEF PlansWhere
  <2>. HIDE DEF shown, mock
  <2>3. /\ ToSet(ListById(PlansWhere(w), None, MaxPageSize, shown).items) = PlansWhere(w) \cap shown
        /\ ToSet(Terminal(Newest(shown), MaxPageSize).items) = shown
    BY <1>4, <1>5, <2>2
  <2>. QED  BY <2>1, <2>2, <2>3 DEF w
<1>6. CASE q.table = "executions"
  <2>. DEFINE rows == ExecutionsWhere(w)
              mock == {r \in mem["executions"] : /\ w.group = None \/ lookup_plan_fp = w.group
                                                 /\ w.tag = None \/ r.tag = w.tag
                                                 /\ MockBounded(w, r)}
  <2>1. /\ Shows(w, None) = ListById(rows, None, MaxPageSize, rows)
        /\ MockShows(w) = Terminal(Newest(mock), MaxPageSize)
    BY <1>1, <1>6 DEF Shows, MockShows, list_executions, mock_list_executions
  <2>2. w.group = None
    BY <1>1, <1>6 DEF Common
  <2>3. rows \in SUBSET all /\ mock = rows
    BY <1>3, <1>6, <2>2 DEF ExecutionsWhere, HeldInv, ExecutionsHeld
  <2>. HIDE DEF rows, mock
  <2>4. /\ ToSet(ListById(rows, None, MaxPageSize, rows).items) = rows \cap rows
        /\ ToSet(Terminal(Newest(rows), MaxPageSize).items) = rows
    BY <1>4, <1>6, <2>3
  <2>. QED  BY <2>1, <2>3, <2>4 DEF w
<1>7. CASE q.table = "checkpoints"
  <2>. DEFINE rows == GroupWhere(w)
  <2>1. /\ Shows(w, None) = ListNewest(rows, None, MaxPageSize)
        /\ MockShows(w) = Terminal(Newest({r \in mem["checkpoints"] : r.group = w.group}), MaxPageSize)
    BY <1>1, <1>7 DEF Shows, MockShows, list_checkpoints, mock_list_checkpoints
  <2>2. rows \in SUBSET all /\ {r \in mem["checkpoints"] : r.group = w.group} = rows
    BY <1>1, <1>7 DEF GroupWhere, Alike, HeldInv, CheckpointsHeld, Checkpoints
  <2>. HIDE DEF rows
  <2>3. /\ ToSet(ListNewest(rows, None, MaxPageSize).items) = rows
        /\ ToSet(Terminal(Newest(rows), MaxPageSize).items) = rows
    BY <1>4, <1>7, <2>2
  <2>. QED  BY <2>1, <2>2, <2>3 DEF w
<1>8. CASE q.table = "metadata"
  <2>. DEFINE rows == GroupWhere(w)
  <2>1. rows \in SUBSET all /\ {r \in mem["metadata"] : r.group = w.group} = rows
        /\ \A a, b \in rows : a.group = b.group
    <3>1. \A r \in {x \in db["metadata"] : x.group = q.group} : r.tag # Blank
      BY <1>8 DEF Alike, GroupWhere
    <3>. QED  BY <1>1, <1>8, <3>1 DEF GroupWhere, HeldInv, MetadataHeld
  <2>2. /\ Shows(w, None) = ListById(rows, None, MaxPageSize, rows)
        /\ MockShows(w) = Terminal(InTurn(rows, Pairs(rows, ById)), MaxPageSize)
    BY <1>1, <1>8, <2>1 DEF Shows, MockShows, list_scope, mock_list_scope
  <2>. HIDE DEF rows
  <2>3. /\ \A shown : ToSet(ListById(rows, None, MaxPageSize, shown).items) = rows \cap shown
        /\ \A part \in SUBSET rows :
             ToSet(Terminal(InTurn(part, Pairs(part, ById)), MaxPageSize).items) = part
    BY <1>4, <2>1
  <2>4. rows \in SUBSET rows
    OBVIOUS
  <2>5. /\ ToSet(ListById(rows, None, MaxPageSize, rows).items) = rows
        /\ ToSet(Terminal(InTurn(rows, Pairs(rows, ById)), MaxPageSize).items) = rows
    BY <2>3, <2>4
  <2>. QED  BY <2>2, <2>5 DEF w
<1>. QED  BY <1>1, <1>5, <1>6, <1>7, <1>8 DEF Tables

LEMMA HeldInvSays ==
  ASSUME HeldInv
  PROVE  RepositoriesAgree
<1>1. RepositoryInv
  BY DEF HeldInv
<1>2. ASSUME NEW e, e \notin crossed, NEW rows, rows = {r \in db["checkpoints"] : r.group = e}
      PROVE  /\ rows = {r \in mem["checkpoints"] : r.group = e}
             /\ rows # {} /\ InOrder(rows) =>
                   /\ latest(rows, e) = mock_latest(rows, e)
                   /\ \A keep \in 0..2 : /\ prune(rows, e, keep) = mock_prune(rows, e, keep)
                                         /\ Cardinality(prune(rows, e, keep)) <= keep
                                         /\ keep > 0 => latest(rows, e) \in prune(rows, e, keep)
  <2>1. rows = {r \in mem["checkpoints"] : r.group = e}
    BY <1>2 DEF HeldInv, CheckpointsHeld, Checkpoints
  <2>. SUFFICES ASSUME rows # {}, InOrder(rows)
                PROVE  /\ latest(rows, e) = mock_latest(rows, e)
                       /\ \A keep \in 0..2 : /\ prune(rows, e, keep) = mock_prune(rows, e, keep)
                                             /\ Cardinality(prune(rows, e, keep)) <= keep
                                             /\ keep > 0 => latest(rows, e) \in prune(rows, e, keep)
    BY <2>1
  <2>. QED  BY <1>1, <1>2, PrunedAlike
<1>3. \A r \in mem["metadata"] : fetch_metadata(r.group, r.id) = r.tag
  BY MetaRead
<1>4. ASSUME NEW q \in Queries, Common(q), Alike(q), Cardinality(db[q.table]) <= MaxPageSize
      PROVE  LET whole == [q EXCEPT !.size = MaxPageSize]
             IN  ToSet(Shows(whole, None).items) = ToSet(MockShows(whole).items)
  BY <1>4, ShownAlike
<1>5. /\ mem["plans"] \ db["plans"] \subseteq refused
      /\ \A r \in db["plans"] \ mem["plans"] : \E p \in refused : p.id = r.id
      /\ mem["executions"] = db["executions"]
      /\ mem["metadata"] = {r \in db["metadata"] : r.tag # Blank}
  BY DEF HeldInv, PlansHeld, ExecutionsHeld, MetadataHeld
<1>6. \A e \in {r.group : r \in Rows["checkpoints"]} \ crossed :
       LET rows == {r \in db["checkpoints"] : r.group = e}
       IN  /\ rows = {r \in mem["checkpoints"] : r.group = e}
           /\ rows # {} /\ InOrder(rows) =>
                /\ latest(rows, e) = mock_latest(rows, e)
                /\ \A keep \in 0..2 : /\ prune(rows, e, keep) = mock_prune(rows, e, keep)
                                      /\ Cardinality(prune(rows, e, keep)) <= keep
                                      /\ keep > 0 => latest(rows, e) \in prune(rows, e, keep)
  BY <1>2
<1>. QED  BY <1>3, <1>4, <1>5, <1>6 DEF RepositoriesAgree

------------------------------------------------------------------------------
(***************************************************************************)
(* Artifacts.  While nobody was interrupted and no two saved under one key *)
(* at once, the two stores differ in nothing but the keys that somebody is *)
(* replacing, whose rows the table has lost already; nor has it a row for  *)
(* what is to be created.                                                  *)
(***************************************************************************)
Saves(c) == saver[c] # None
SavedKey(c) == KeyOf(saver[c].row)

ApartInv ==
  /\ ArtifactsInv
  /\ shelf \in SUBSET Row /\ IsFiniteSet(shelf) /\ OneRowPerId(shelf)
  /\ \A a \in shelf : \E m \in minted : m.id = a.id
  /\ \A c \in Savers : Saves(c) => saver[c].mode \in SaveModes
  /\ ~apart =>
       /\ \A c, d \in Savers : Saves(c) /\ Saves(d) /\ c # d => SavedKey(c) # SavedKey(d)
       /\ \A c \in Savers : Saves(c) /\ saver[c].mode # "Version" => Same(artifacts, saver[c].row) = {}
       /\ \A r \in artifacts \cup shelf : KeyOf(r) \notin Replacing => (r \in artifacts <=> r \in shelf)

LEMMA ReplacingHas ==
  \A k : k \in Replacing <=> \E c \in Savers : Saves(c) /\ saver[c].mode = "Replace" /\ SavedKey(c) = k
BY DEF Replacing, Saves, SavedKey

LEMMA ReplacingHasNext ==
  \A k : k \in Replacing' <=>
    \E c \in Savers : saver'[c] # None /\ saver'[c].mode = "Replace" /\ KeyOf(saver'[c].row) = k
BY DEF Replacing, KeyOf

LEMMA BeginSaveApart ==
  ASSUME ApartInv, NEW c \in Savers, NEW r \in Uploads, NEW mode \in SaveModes, BeginSave(c, r, mode)
  PROVE  ApartInv'
<1>1. /\ ArtifactsInv' /\ UNCHANGED <<shelf, minted>> /\ artifacts' \subseteq artifacts
      /\ DOMAIN saver = Savers
  <2>1. ArtifactsInv'
    BY BeginSaveInv DEF ApartInv
  <2>. QED  BY <2>1 DEF BeginSave, ApartInv, ArtifactsInv
<1>2. CASE mode = "CreateNew" /\ Same(artifacts, r) # {}
  <2>1. UNCHANGED <<saver, apart, artifacts, shelf, minted>>
    BY <1>2 DEF BeginSave
  <2>2. Replacing' = Replacing
    BY <2>1 DEF Replacing, KeyOf
  <2>. QED  BY <1>1, <2>1, <2>2 DEF ApartInv, OneRowPerId, Row, Saves, SavedKey, KeyOf, Same
<1>3. CASE ~(mode = "CreateNew" /\ Same(artifacts, r) # {})
  <2>1. /\ saver' = [saver EXCEPT ![c] = [row |-> r, mode |-> mode, since |-> now]]
        /\ apart' = (apart \/ \E o \in Savers : saver[o] # None /\ KeyOf(saver[o].row) = KeyOf(r))
        /\ artifacts' = IF mode = "Replace" THEN artifacts \ Same(artifacts, r) ELSE artifacts
        /\ saver[c] = None
    BY <1>3 DEF BeginSave
  <2>2. saver'[c] = [row |-> r, mode |-> mode, since |-> now] /\ \A o \in Savers : o # c => saver'[o] = saver[o]
    BY <1>1, <2>1
  <2>3. \A o \in Savers : saver'[o] # None => saver'[o].mode \in SaveModes
    BY <2>2 DEF ApartInv, Saves
  <2>. SUFFICES ASSUME ~apart'
                PROVE  /\ \A o, d \in Savers : saver'[o] # None /\ saver'[d] # None /\ o # d
                            => KeyOf(saver'[o].row) # KeyOf(saver'[d].row)
                       /\ \A o \in Savers : saver'[o] # None /\ saver'[o].mode # "Version"
                            => Same(artifacts', saver'[o].row) = {}
                       /\ \A x \in artifacts' \cup shelf' : KeyOf(x) \notin Replacing'
                            => (x \in artifacts' <=> x \in shelf')
    BY <1>1, <2>3 DEF ApartInv, OneRowPerId, Row, Saves, SavedKey, KeyOf, Same
  <2>4. ~apart /\ \A o \in Savers : saver[o] # None => KeyOf(saver[o].row) # KeyOf(r)
    BY <2>1
  <2>5. /\ \A o, d \in Savers : saver[o] # None /\ saver[d] # None /\ o # d
             => KeyOf(saver[o].row) # KeyOf(saver[d].row)
        /\ \A o \in Savers : saver[o] # None /\ saver[o].mode # "Version"
             => Same(artifacts, saver[o].row) = {}
        /\ \A x \in artifacts \cup shelf : KeyOf(x) \notin Replacing => (x \in artifacts <=> x \in shelf)
    BY <2>4 DEF ApartInv, Saves, SavedKey
  <2>6. \A o, d \in Savers : saver'[o] # None /\ saver'[d] # None /\ o # d
          => KeyOf(saver'[o].row) # KeyOf(saver'[d].row)
    <3>1. \A o \in Savers : o # c /\ saver'[o] # None => KeyOf(saver'[o].row) # KeyOf(r)
      BY <2>2, <2>4
    <3>2. saver'[c].row = r
      BY <2>2
    <3>. QED  BY <2>2, <2>5, <3>1, <3>2
  <2>7. ASSUME NEW o \in Savers, saver'[o] # None, saver'[o].mode # "Version"
        PROVE  Same(artifacts', saver'[o].row) = {}
    <3>1. CASE o = c
      <4>1. saver'[o].row = r /\ saver'[o].mode = mode /\ mode \in {"CreateNew", "Replace"}
        BY <2>2, <2>7, <3>1 DEF SaveModes
      <4>. QED  BY <1>3, <2>1, <4>1 DEF Same
    <3>2. CASE o # c
      BY <1>1, <2>2, <2>5, <2>7, <3>2 DEF Same
    <3>. QED  BY <3>1, <3>2
  <2>8. ASSUME NEW x \in artifacts' \cup shelf', KeyOf(x) \notin Replacing'
        PROVE  x \in artifacts' <=> x \in shelf'
    <3>1. KeyOf(x) \notin Replacing
      <4>1. ~\E o \in Savers : saver'[o] # None /\ saver'[o].mode = "Replace"
                                /\ KeyOf(saver'[o].row) = KeyOf(x)
        BY <2>8, ReplacingHasNext
      <4>2. \A o \in Savers : saver[o] # None => saver'[o] = saver[o]
        BY <2>1, <2>2
      <4>. QED  BY <4>1, <4>2, ReplacingHas DEF Saves, SavedKey
    <3>2. mode = "Replace" => KeyOf(x) # KeyOf(r)
      <4>1. ~\E o \in Savers : saver'[o] # None /\ saver'[o].mode = "Replace"
                                /\ KeyOf(saver'[o].row) = KeyOf(x)
        BY <2>8, ReplacingHasNext
      <4>2. [row |-> r, mode |-> mode, since |-> now] # None
        BY ArtifactsAssumption DEF ApartInv, ArtifactsInv
      <4>3. saver'[c] # None /\ saver'[c].mode = mode /\ saver'[c].row = r
        BY <2>2, <4>2
      <4>. QED  BY <4>1, <4>3
    <3>3. x \in artifacts <=> x \in artifacts'
      BY <2>1, <3>2 DEF Same
    <3>. QED  BY <1>1, <2>5, <2>8, <3>1, <3>3
  <2>. QED  BY <2>6, <2>7, <2>8
<1>. QED  BY <1>2, <1>3

(* A row is inserted into both, over what a replacement took away. *)
LEMMA InsertArtifactApart ==
  ASSUME ApartInv, NEW c \in Savers, InsertArtifact(c)
  PROVE  ApartInv'
<1>. DEFINE s == saver[c]
<1>0. /\ ArtifactsInv /\ ArtifactsInv' /\ DOMAIN saver = Savers
      /\ shelf \in SUBSET Row /\ IsFiniteSet(shelf) /\ OneRowPerId(shelf)
      /\ \A a \in shelf : \E m \in minted : m.id = a.id
      /\ s # None /\ s.mode \in SaveModes /\ s.row \in Uploads
  BY InsertArtifactInv DEF ApartInv, ArtifactsInv, InsertArtifact, Saves
<1>1. PICK i \in ArtifactIds, made, at \in Nat :
        /\ \A m \in minted : m.id # i
        /\ artifacts' = artifacts \cup {[s.row EXCEPT !.id = i, !.at = at]}
        /\ shelf' = mock_save([s.row EXCEPT !.id = i, !.at = at], s.mode)
        /\ minted' = minted \cup {[id |-> i, at |-> made]}
  BY <1>0, Inserted
<1>. DEFINE row == [s.row EXCEPT !.id = i, !.at = at]
<1>2. row \in Row /\ row.id = i /\ KeyOf(row) = KeyOf(s.row)
  <2>1. s.row \in [id : {0}, ctx : Contexts, name : Names, size : Nat, at : {0}]
    BY <1>0, ArtifactsAssumption DEF Names
  <2>2. i \in ArtifactIds /\ at \in Nat
    BY <1>1
  <2>. HIDE DEF s
  <2>. QED  BY <2>1, <2>2 DEF Row, KeyOf
<1>3. \A m \in minted : m.id # i
  BY <1>1
<1>4. /\ artifacts' = artifacts \cup {row} /\ shelf' = mock_save(row, s.mode)
      /\ minted' = minted \cup {[id |-> i, at |-> made]}
      /\ saver' = [saver EXCEPT ![c] = None] /\ apart' = apart
  BY <1>1 DEF InsertArtifact
<1>. HIDE DEF row
<1>5. /\ shelf' \subseteq shelf \cup {row}
      /\ s.mode = "Replace" => shelf' = (shelf \ Same(shelf, row)) \cup {row}
      /\ s.mode = "Version" => shelf' = shelf \cup {row}
      /\ s.mode = "CreateNew" => shelf' = IF Same(shelf, row) # {} THEN shelf ELSE shelf \cup {row}
  BY <1>0, <1>4 DEF mock_save, SaveModes, Same
<1>6. shelf' \in SUBSET Row /\ IsFiniteSet(shelf')
  <2>1. IsFiniteSet(shelf \cup {row})
    BY <1>0, FS_AddElement
  <2>. QED  BY <1>0, <1>2, <1>5, <2>1, FS_Subset
<1>7. OneRowPerId(shelf') /\ \A a \in shelf' : \E m \in minted' : m.id = a.id
  <2>1. \A a \in shelf : a.id # i
    BY <1>0, <1>3
  <2>2. \E m \in minted' : m.id = i
    <3>1. [id |-> i, at |-> made] \in minted'
      BY <1>4
    <3>. QED  BY <3>1
  <2>3. \A a \in shelf : \E m \in minted' : m.id = a.id
    BY <1>0, <1>4
  <2>. QED  BY <1>0, <1>2, <1>5, <2>1, <2>2, <2>3 DEF OneRowPerId
<1>8. /\ saver'[c] = None /\ \A o \in Savers : o # c => saver'[o] = saver[o]
      /\ \A o \in Savers : saver'[o] # None => saver'[o].mode \in SaveModes
  BY <1>0, <1>4 DEF ApartInv, Saves
<1>. SUFFICES ASSUME ~apart
              PROVE  /\ \A o, d \in Savers : saver'[o] # None /\ saver'[d] # None /\ o # d
                          => KeyOf(saver'[o].row) # KeyOf(saver'[d].row)
                     /\ \A o \in Savers : saver'[o] # None /\ saver'[o].mode # "Version"
                          => Same(artifacts', saver'[o].row) = {}
                     /\ \A x \in artifacts' \cup shelf' : KeyOf(x) \notin Replacing'
                          => (x \in artifacts' <=> x \in shelf')
  BY <1>0, <1>4, <1>6, <1>7, <1>8 DEF ApartInv, OneRowPerId, Row, Saves, SavedKey, KeyOf, Same
<1>9. /\ \A o, d \in Savers : saver[o] # None /\ saver[d] # None /\ o # d
           => KeyOf(saver[o].row) # KeyOf(saver[d].row)
      /\ \A o \in Savers : saver[o] # None /\ saver[o].mode # "Version"
           => Same(artifacts, saver[o].row) = {}
      /\ \A x \in artifacts \cup shelf : KeyOf(x) \notin Replacing => (x \in artifacts <=> x \in shelf)
  BY DEF ApartInv, Saves, SavedKey
<1>10. \A o, d \in Savers : saver'[o] # None /\ saver'[d] # None /\ o # d
         => KeyOf(saver'[o].row) # KeyOf(saver'[d].row)
  BY <1>8, <1>9
<1>11. ASSUME NEW o \in Savers, saver'[o] # None, saver'[o].mode # "Version"
       PROVE  Same(artifacts', saver'[o].row) = {}
  <2>1. o # c /\ saver'[o] = saver[o]
    BY <1>8, <1>11
  <2>2. KeyOf(row) # KeyOf(saver[o].row)
    BY <1>0, <1>2, <1>9, <1>11, <2>1
  <2>3. Same(artifacts, saver[o].row) = {}
    BY <1>9, <1>11, <2>1
  <2>. QED  BY <1>4, <2>1, <2>2, <2>3 DEF Same
<1>12. ASSUME NEW x \in artifacts' \cup shelf', KeyOf(x) \notin Replacing'
       PROVE  x \in artifacts' <=> x \in shelf'
  <2>1. KeyOf(x) \notin Replacing \/ (s.mode = "Replace" /\ KeyOf(x) = KeyOf(row))
    <3>. SUFFICES ASSUME KeyOf(x) \in Replacing PROVE s.mode = "Replace" /\ KeyOf(x) = KeyOf(row)
      OBVIOUS
    <3>1. PICK o \in Savers : saver[o] # None /\ saver[o].mode = "Replace" /\ KeyOf(saver[o].row) = KeyOf(x)
      BY ReplacingHas DEF Saves, SavedKey
    <3>2. ~(saver'[o] # None /\ saver'[o].mode = "Replace" /\ KeyOf(saver'[o].row) = KeyOf(x))
      BY <1>12, ReplacingHasNext
    <3>3. o = c
      BY <1>8, <3>1, <3>2
    <3>. QED  BY <1>2, <3>1, <3>3
  <2>2. CASE x = row
    <3>1. row \in shelf'
      <4>1. CASE s.mode = "CreateNew"
        <5>1. Same(shelf, row) = {}
          <6>. SUFFICES ASSUME NEW y \in shelf, KeyOf(y) = KeyOf(row) PROVE FALSE
            BY DEF Same
          <6>1. KeyOf(y) \notin Replacing
            <7>. SUFFICES ASSUME KeyOf(y) \in Replacing PROVE FALSE
              OBVIOUS
            <7>1. PICK o \in Savers : saver[o] # None /\ saver[o].mode = "Replace" /\ KeyOf(saver[o].row) = KeyOf(y)
              BY ReplacingHas DEF Saves, SavedKey
            <7>2. o = c
              BY <1>0, <1>2, <1>9, <7>1
            <7>. QED  BY <4>1, <7>1, <7>2
          <6>2. y \in artifacts
            BY <1>9, <6>1
          <6>3. Same(artifacts, s.row) = {}
            BY <1>0, <1>9, <4>1
          <6>. QED  BY <1>2, <6>2, <6>3 DEF Same
        <5>. QED  BY <1>5, <4>1, <5>1
      <4>. QED  BY <1>0, <1>5, <4>1 DEF SaveModes
    <3>. QED  BY <1>4, <2>2, <3>1
  <2>3. CASE x # row /\ s.mode = "Replace" /\ KeyOf(x) = KeyOf(row)
    <3>1. x \notin artifacts
      <4>1. Same(artifacts, s.row) = {}
        BY <1>0, <1>9, <2>3
      <4>. QED  BY <1>2, <2>3, <4>1 DEF Same
    <3>2. x \notin shelf'
      BY <1>5, <2>3 DEF Same
    <3>. QED  BY <1>4, <2>3, <3>1, <3>2
  <2>4. CASE x # row /\ KeyOf(x) \notin Replacing /\ ~(s.mode = "Replace" /\ KeyOf(x) = KeyOf(row))
    <3>1. x \in artifacts \cup shelf
      BY <1>4, <1>5, <1>12, <2>4
    <3>2. x \in artifacts' <=> x \in artifacts
      BY <1>4, <2>4
    <3>3. x \in shelf' <=> x \in shelf
      BY <1>0, <1>5, <2>4 DEF SaveModes, Same
    <3>. QED  BY <1>9, <2>4, <3>1, <3>2, <3>3
  <2>. QED  BY <2>1, <2>2, <2>3, <2>4
<1>. QED  BY <1>10, <1>11, <1>12

(* What leaves the saves alone and takes the same rows from both. *)
LEMMA TakenFromBoth ==
  ASSUME ApartInv, ArtifactsInv', UNCHANGED <<saver, minted, apart>>,
         NEW gone, artifacts' = artifacts \ gone, shelf' = shelf \ gone
  PROVE  ApartInv'
<1>1. Replacing' = Replacing
  BY DEF Replacing, KeyOf
<1>2. IsFiniteSet(shelf') /\ shelf' \subseteq shelf
  BY FS_Subset DEF ApartInv
<1>. QED  BY <1>1, <1>2 DEF ApartInv, OneRowPerId, Row, Saves, SavedKey, KeyOf, Same

(* What leaves the shelf alone where the stores are known to differ. *)
LEMMA SetApart ==
  ASSUME ApartInv, ArtifactsInv', apart', UNCHANGED <<shelf, minted>>,
         \A c \in Savers : saver'[c] # None => saver'[c] = saver[c]
  PROVE  ApartInv'
BY DEF ApartInv, OneRowPerId, Row, Saves

LEMMA ApartStep ==
  ASSUME ApartInv, NextArtifacts
  PROVE  ApartInv'
<1>0. ArtifactsInv /\ ArtifactsInv' /\ DOMAIN saver = Savers
  BY ArtifactsStep DEF ApartInv, ArtifactsInv
<1>1. ASSUME NEW i, DeleteArtifact(i)
      PROVE  ApartInv'
  <2>. DEFINE gone == {r \in artifacts \cup shelf : r.id = i}
  <2>1. artifacts' = artifacts \ gone /\ shelf' = shelf \ gone /\ UNCHANGED <<saver, minted, apart>>
    BY <1>1 DEF DeleteArtifact
  <2>. HIDE DEF gone
  <2>. QED  BY <1>0, <2>1, TakenFromBoth
<1>2. ASSUME UNCHANGED <<saver, minted, apart, artifacts, shelf>>
      PROVE  ApartInv'
  <2>1. artifacts' = artifacts \ {} /\ shelf' = shelf \ {}
    BY <1>2
  <2>. QED  BY <1>0, <1>2, <2>1, TakenFromBoth
<1>3. CASE Tick \/ ReadPage \/ \E x \in Contexts, size \in PageSizes : StartReading(x, size)
  BY <1>2, <1>3 DEF Tick, ReadPage, StartReading
<1>4. ASSUME NEW p, run_retention(p)
      PROVE  ApartInv'
  BY <1>0, <1>4, SetApart DEF run_retention
<1>5. ASSUME NEW c \in Savers, AbandonSave(c)
      PROVE  ApartInv'
  <2>1. apart' /\ UNCHANGED <<shelf, minted>> /\ saver' = [saver EXCEPT ![c] = None]
    BY <1>5 DEF AbandonSave
  <2>2. \A o \in Savers : saver'[o] # None => saver'[o] = saver[o]
    BY <1>0, <2>1
  <2>. QED  BY <1>0, <2>1, <2>2, SetApart
<1>. QED  BY <1>1, <1>3, <1>4, <1>5, BeginSaveApart, InsertArtifactApart DEF NextArtifacts

LEMMA InitApartInv == InitArtifacts => ApartInv
BY InitArtifactsInv, FS_EmptySet DEF InitArtifacts, ApartInv, OneRowPerId, Saves

(* Then both give the same rows, in lists that have room for all. *)
LEMMA ApartInvSays ==
  ASSUME ApartInv
  PROVE  ArtifactsAgree
<1>. SUFFICES ASSUME ~apart
              PROVE  /\ Unless(artifacts, Replacing) = Unless(shelf, Replacing)
                     /\ Replacing = {} =>
                          /\ \A i \in ArtifactIds : get(artifacts, i) = get(shelf, i)
                          /\ \A x \in Contexts :
                               Cardinality(InContext(shelf, x)) <= MaxPageSize =>
                                 /\ ToSet(stream(x)) = InContext(shelf, x)
                                 /\ ToSet(mock_list_artifacts(x, MaxPageSize).items) = ToSet(stream(x))
  BY DEF ArtifactsAgree
<1>1. \A x \in artifacts \cup shelf : KeyOf(x) \notin Replacing => (x \in artifacts <=> x \in shelf)
  BY DEF ApartInv
<1>2. Unless(artifacts, Replacing) = Unless(shelf, Replacing)
  BY <1>1 DEF Unless
<1>3. ASSUME Replacing = {}
      PROVE  artifacts = shelf
  BY <1>1, <1>3
<1>4. ASSUME artifacts = shelf, NEW x \in Contexts, Cardinality(InContext(shelf, x)) <= MaxPageSize
      PROVE  /\ ToSet(stream(x)) = InContext(shelf, x)
             /\ ToSet(mock_list_artifacts(x, MaxPageSize).items) = InContext(shelf, x)
  <2>. DEFINE rows == InContext(shelf, x)
              R    == Pairs(rows, OldestFirst)
  <2>1. /\ rows \subseteq artifacts /\ rows \subseteq Row
        /\ \A r \in rows : r.id \in Nat /\ r.at \in Nat
        /\ \A a, b \in rows : a.id = b.id => a = b
    <3>1. artifacts \subseteq Row /\ OneRowPerId(artifacts)
      BY DEF ApartInv, ArtifactsInv
    <3>. QED  BY <1>4, <3>1, ArtifactsAssumption DEF InContext, OneRowPerId, Row
  <2>2. IsFiniteSet(rows)
    <3>. HIDE DEF rows
    <3>. QED  BY <2>1, FS_Subset DEF ApartInv, ArtifactsInv
  <2>3. /\ stream(x) = PageOf(rows, Pairs(rows, ById), MaxPageSize, rows).items
        /\ mock_list_artifacts(x, MaxPageSize) = Terminal(InTurn(rows, R), MaxPageSize)
    <3>1. {r \in artifacts : r.ctx = x /\ (None = None \/ ById(None, r))} = rows
      BY <1>4 DEF InContext
    <3>. QED  BY <3>1 DEF stream, list_artifacts, mock_list_artifacts, InContext
  <2>. HIDE DEF rows
  <2>4. Strict(Pairs(rows, ById), rows) /\ Comparable(Pairs(rows, ById), rows)
    BY <2>1, IdsOrder
  <2>5. Strict(R, rows) /\ Comparable(R, rows)
    <3>1. \A a, b \in rows : <<a, b>> \in R <=> OldestFirst(a, b)
      BY DEF Pairs
    <3>. HIDE DEF R
    <3>2. \A a \in rows : ~OldestFirst(a, a)
      BY <2>1 DEF OldestFirst
    <3>3. \A a, b, d \in rows : OldestFirst(a, b) /\ OldestFirst(b, d) => OldestFirst(a, d)
      BY <2>1 DEF OldestFirst
    <3>4. \A a, b \in rows : a = b \/ OldestFirst(a, b) \/ OldestFirst(b, a)
      BY <2>1 DEF OldestFirst
    <3>. QED  BY <3>1, <3>2, <3>3, <3>4 DEF Strict, Comparable
  <2>6. Cardinality(rows) <= MaxPageSize
    BY <1>4 DEF rows
  <2>. HIDE DEF R
  <2>7. ToSet(PageOf(rows, Pairs(rows, ById), MaxPageSize, rows).items) = rows \cap rows
    BY <2>2, <2>4, <2>6, WholePage
  <2>8. ToSet(Terminal(InTurn(rows, R), MaxPageSize).items) = rows
    BY <2>2, <2>5, <2>6, WholeTerminal
  <2>. QED  BY <2>3, <2>7, <2>8 DEF rows
<1>5. ASSUME artifacts = shelf PROVE \A i \in ArtifactIds : get(artifacts, i) = get(shelf, i)
  BY <1>5
<1>. QED  BY <1>2, <1>3, <1>4, <1>5

------------------------------------------------------------------------------
(***************************************************************************)
(* The journal.  Of an execution that ran once both journals have the same *)
(* events, but for the first, which is stored ahead of the log; and both   *)
(* have them in the order of the sequence.                                 *)
(***************************************************************************)
AlikeInv ==
  /\ LogInv
  /\ \A e \in Executions : runs[e] <= 1 =>
       \A r \in table \cup ToSet(log) : r.seq > 1 => (r \in Of(table, e) <=> r \in Mine(e))

LEMMA InitAlikeInv == InitJournals => AlikeInv
<1>. SUFFICES ASSUME InitJournals PROVE AlikeInv
  OBVIOUS
<1>1. table = {} /\ log = <<>>
  BY DEF InitJournals
<1>2. ToSet(log) = {}
  BY <1>1 DEF ToSet
<1>. QED  BY <1>1, <1>2, InitLogInv DEF AlikeInv

(* Nothing is stored or logged. *)
LEMMA AlikeStays ==
  ASSUME AlikeInv, LogInv', UNCHANGED <<table, log>>,
         \A e \in Executions : runs'[e] <= 1 => runs[e] <= 1
  PROVE  AlikeInv'
BY DEF AlikeInv, Mine, Of

(* What is logged is stored. *)
LEMMA StoreAlike ==
  ASSUME AlikeInv, Store
  PROVE  AlikeInv'
<1>0. LogInv /\ LogInv'
  BY StoreLog DEF AlikeInv
<1>1. /\ UNCHANGED <<runs, cut>> /\ writer.queue # <<>> /\ Head(writer.queue) # "publish"
      /\ table' = append(table, writer.event)
      /\ log' = IF Head(writer.queue) = "write" THEN Append(log, writer.event) ELSE log
  BY DEF Store
<1>. PICK x, ev : x = writer.exec /\ ev = writer.event
  OBVIOUS
<1>2. /\ x \in Executions /\ ev.exec = x /\ ev.seq = writer.seq /\ ev \in Entries
      /\ writer.queue \in Queues
      /\ Len(writer.queue) > 2 => writer.seq = 1
  BY <1>0, <1>1 DEF LogInv, JournalsInv, WriterSays, JournalsTyped, Writers
<1>3. Head(writer.queue) # "write" => ev.seq = 1
  BY <1>1, <1>2, QueueStores
<1>4. table \subseteq table' /\ table' \subseteq table \cup {ev}
      /\ (ev \in table' \/ \E o \in Of(table, x) : o.seq = ev.seq)
  BY <1>1, <1>2 DEF append
<1>5. /\ Head(writer.queue) = "write" => ToSet(log') = ToSet(log) \cup {ev}
      /\ Head(writer.queue) # "write" => ToSet(log') = ToSet(log)
  <2>1. log \in Seq(Entries)
    BY <1>0 DEF LogInv, LogTyped
  <2>2. ASSUME log' = Append(log, ev) PROVE ToSet(log') = ToSet(log) \cup {ev}
    <3>1. /\ log' \in Seq(Entries) /\ Len(log') = Len(log) + 1 /\ Len(log) \in Nat
          /\ \A i \in 1..Len(log) : log'[i] = log[i]
          /\ log'[Len(log) + 1] = ev
      BY <1>2, <2>1, <2>2, Appended
    <3>2. DOMAIN log = 1..Len(log) /\ DOMAIN log' = 1..Len(log) + 1
      BY <2>1, <3>1
    <3>3. \A i \in DOMAIN log' : i \in DOMAIN log \/ i = Len(log) + 1
      BY <3>1, <3>2
    <3>4. \A i \in DOMAIN log : log'[i] = log[i] /\ i \in DOMAIN log'
      BY <3>1, <3>2
    <3>5. Len(log) + 1 \in DOMAIN log'
      BY <3>1, <3>2
    <3>. QED  BY <3>1, <3>3, <3>4, <3>5 DEF ToSet
  <2>. QED  BY <1>1, <2>2
<1>6. ASSUME NEW e \in Executions, runs'[e] <= 1, NEW r \in table' \cup ToSet(log)', r.seq > 1
      PROVE  r \in Of(table', e) <=> r \in Mine(e)'
  <2>1. runs[e] <= 1
    BY <1>1, <1>6
  <2>2. CASE r = ev
    <3>1. Head(writer.queue) = "write" /\ r \in ToSet(log')
      BY <1>3, <1>5, <1>6, <2>2
    <3>2. ASSUME e = x PROVE r \in table'
      <4>1. Continues(x)
        BY <1>0, <2>1, <3>2 DEF LogInv, OnceSays
      <4>2. \A o \in Of(table, x) : o.seq < writer.seq \/ o = ev
        BY <1>1, <4>1 DEF Continues
      <4>3. \A o \in Of(table, x) : o.seq = ev.seq => o = ev
        BY <1>2, <4>2 DEF Entries
      <4>. QED  BY <1>4, <2>2, <4>3 DEF Of
    <3>. QED  BY <1>2, <2>2, <3>1, <3>2 DEF Of, Mine
  <2>3. CASE r # ev
    <3>1. r \in table \cup ToSet(log) /\ (r \in table' <=> r \in table) /\ (r \in ToSet(log') <=> r \in ToSet(log))
      BY <1>4, <1>5, <1>6, <2>3
    <3>2. r \in Of(table, e) <=> r \in Mine(e)
      BY <1>6, <2>1, <3>1 DEF AlikeInv
    <3>. QED  BY <3>1, <3>2 DEF Of, Mine
  <2>. QED  BY <2>2, <2>3
<1>. QED  BY <1>0, <1>6 DEF AlikeInv

(* What is dropped is dropped from both. *)
LEMMA CutAlike ==
  ASSUME AlikeInv, LogInv', NEW gone, table' = table \ gone,
         log' = Those(log, ToSet(log) \ gone), UNCHANGED runs
  PROVE  AlikeInv'
<1>1. log \in Seq(Entries)
  BY DEF AlikeInv, LogInv, LogTyped
<1>2. Remains(log, ToSet(log) \ gone, log')
  BY <1>1, ThoseRemain
<1>3. ToSet(log') = ToSet(log) \ gone
  BY <1>2 DEF Remains
<1>. QED  BY <1>3 DEF AlikeInv, Of, Mine

LEMMA AlikeStep ==
  ASSUME AlikeInv, NextJournals
  PROVE  AlikeInv'
<1>0. LogInv /\ LogInv' /\ runs \in [Executions -> Nat]
  BY LogStep DEF AlikeInv, LogInv, JournalsInv, JournalsTyped
<1>1. ASSUME NEW e, NEW n, truncate_before(e, n) PROVE AlikeInv'
  <2>. DEFINE gone == {r \in table \cup ToSet(log) : ~(r.exec # e \/ r.seq >= n)}
  <2>1. /\ {r \in table : r.exec # e \/ r.seq >= n} = table \ gone
        /\ {r \in ToSet(log) : r.exec # e \/ r.seq >= n} = ToSet(log) \ gone
    OBVIOUS
  <2>2. table' = table \ gone /\ log' = Those(log, ToSet(log) \ gone) /\ UNCHANGED runs
    BY <1>1, <2>1 DEF truncate_before
  <2>. HIDE DEF gone
  <2>. QED  BY <1>0, <2>2, CutAlike
<1>2. ASSUME NEW e, delete_all(e) PROVE AlikeInv'
  <2>. DEFINE gone == {r \in table \cup ToSet(log) : r.exec = e}
  <2>1. /\ {r \in table : r.exec # e} = table \ gone
        /\ {r \in ToSet(log) : r.exec # e} = ToSet(log) \ gone
    OBVIOUS
  <2>2. table' = table \ gone /\ log' = Those(log, ToSet(log) \ gone) /\ UNCHANGED runs
    BY <1>2, <2>1 DEF delete_all
  <2>. HIDE DEF gone
  <2>. QED  BY <1>0, <2>2, CutAlike
<1>3. ASSUME NEW e \in Executions, StartRun(e) PROVE AlikeInv'
  <2>1. UNCHANGED <<table, log>> /\ runs' = [runs EXCEPT ![e] = @ + 1]
    BY <1>3 DEF StartRun
  <2>2. \A o \in Executions : runs'[o] <= 1 => runs[o] <= 1
    BY <1>0, <2>1
  <2>. QED  BY <1>0, <2>1, <2>2, AlikeStays
<1>4. ASSUME UNCHANGED <<table, log, runs>> PROVE AlikeInv'
  BY <1>0, <1>4, AlikeStays
<1>5. ASSUME NEW kind, NEW s, WriteEvent(kind, s) PROVE AlikeInv'
  BY <1>4, <1>5 DEF WriteEvent
<1>6. CASE Publish \/ Crash \/ (\E e \in Executions : Subscribe(e)) \/ Replay \/ Receive
  BY <1>4, <1>6 DEF Publish, Crash, Subscribe, Replay, Receive
<1>. QED  BY <1>1, <1>2, <1>3, <1>5, <1>6, StoreAlike DEF NextJournals

(* Rows in the order of the sequence. *)
LEMMA OrderedIs ==
  ASSUME NEW rows, rows \subseteq Entries, IsFiniteSet(rows), \A a, b \in rows : a.seq = b.seq => a = b
  PROVE  LET s == Ordered(rows)
         IN  /\ s \in Seq(Entries) /\ ToSet(s) = rows
             /\ \A i, j \in 1..Len(s) : i < j => s[i].seq < s[j].seq
<1>. DEFINE order == Pairs(rows, Earlier)
            s     == InTurn(rows, order)
<1>0. \A r \in rows : r.seq \in Nat
  BY DEF Entries
<1>1. Strict(order, rows) /\ Comparable(order, rows)
  BY <1>0 DEF Pairs, Earlier, Strict, Comparable
<1>2. \A a, b \in rows : <<a, b>> \in order => a.seq < b.seq
  BY DEF Pairs, Earlier
<1>. HIDE DEF order
<1>3. /\ s \in Seq(rows) /\ Len(s) \in Nat /\ \A r \in rows : \E i \in 1..Len(s) : s[i] = r
      /\ \A i, j \in 1..Len(s) : i < j => <<s[i], s[j]>> \in order
  BY <1>1, InTurnShows
<1>4. Ordered(rows) = s
  BY DEF Ordered, order
<1>. HIDE DEF s
<1>5. DOMAIN s = 1..Len(s) /\ \A i \in 1..Len(s) : s[i] \in rows
  BY <1>3
<1>6. s \in Seq(Entries)
  <2>1. s \in [1..Len(s) -> Entries]
    BY <1>3, <1>5
  <2>. QED  BY <1>3, <2>1
<1>7. ToSet(s) = rows
  BY <1>3, <1>5 DEF ToSet
<1>8. \A i, j \in 1..Len(s) : i < j => s[i].seq < s[j].seq
  BY <1>2, <1>3, <1>5
<1>. QED  BY <1>4, <1>6, <1>7, <1>8

(* What the log has of an execution that ran once is in that order, too. *)
LEMMA ThoseAre ==
  ASSUME LogInv, NEW e \in Executions, runs[e] <= 1, NEW rows, rows \subseteq Mine(e)
  PROVE  LET s == Those(log, rows)
         IN  /\ s \in Seq(Entries) /\ ToSet(s) = rows
             /\ \A i, j \in 1..Len(s) : i < j => s[i].seq < s[j].seq
<1>. DEFINE s == Those(log, rows)
<1>1. log \in Seq(Entries)
  BY DEF LogInv, LogTyped
<1>2. s \in Seq(Entries) /\ Remains(log, rows, s)
  BY <1>1, ThoseRemain
<1>. HIDE DEF s
<1>3. ToSet(s) = rows
  BY <1>2 DEF Remains, Mine, Of
<1>4. DOMAIN s = 1..Len(s)
  BY <1>2
<1>5. ASSUME NEW i \in 1..Len(s), NEW j \in 1..Len(s), i < j PROVE s[i].seq < s[j].seq
  <2>1. PICK k, l \in DOMAIN log : k < l /\ log[k] = s[i] /\ log[l] = s[j]
    BY <1>2, <1>4, <1>5 DEF Remains
  <2>2. s[i] \in Mine(e) /\ s[j] \in Mine(e)
    <3>1. s[i] \in ToSet(s) /\ s[j] \in ToSet(s)
      BY <1>4 DEF ToSet
    <3>. QED  BY <1>3, <3>1
  <2>3. log[k].exec = e /\ log[l].exec = e
    BY <2>1, <2>2 DEF Mine, Of
  <2>4. \A a, b \in DOMAIN log :
          log[a].exec = e /\ log[b].exec = e /\ a < b => log[a].seq < log[b].seq
    BY DEF LogInv, OnceSays
  <2>. QED  BY <2>1, <2>3, <2>4
<1>. QED  BY <1>2, <1>3, <1>5 DEF s

(* Two of the same rows are one. *)
LEMMA InSequence ==
  ASSUME NEW s \in Seq(Entries), NEW t \in Seq(Entries), ToSet(s) = ToSet(t),
         \A i, j \in 1..Len(s) : i < j => s[i].seq < s[j].seq,
         \A i, j \in 1..Len(t) : i < j => t[i].seq < t[j].seq
  PROVE  s = t
<1>. DEFINE R == Pairs(Entries, Earlier)
<1>1. \A a, b \in Entries : <<a, b>> \in R <=> a.seq < b.seq
  BY DEF Pairs, Earlier
<1>. HIDE DEF R
<1>2. \A r \in Entries : r.seq \in Nat
  BY DEF Entries
<1>3. Strict(R, Entries)
  BY <1>1, <1>2 DEF Strict
<1>4. /\ \A i \in 1..Len(s) : s[i] \in Entries
      /\ \A i \in 1..Len(t) : t[i] \in Entries
  OBVIOUS
<1>5. /\ \A i, j \in 1..Len(s) : i < j => <<s[i], s[j]>> \in R
      /\ \A i, j \in 1..Len(t) : i < j => <<t[i], t[j]>> \in R
  BY <1>1, <1>4
<1>. QED  BY <1>3, <1>5, SortedOnce

\* What is the highest sequence of those at places T of an ordered sequence.
Climbs(h, q) ==
  h = [T \in SUBSET DOMAIN q |-> IF T = {} THEN 0 ELSE Higher(h[T \ {Max(T)}], q[Max(T)])]

LEMMA ClimbsUnfolds ==
  ASSUME NEW h, NEW q, Climbs(h, q), NEW T, T \subseteq DOMAIN q
  PROVE  h[T] = IF T = {} THEN 0 ELSE Higher(h[T \ {Max(T)}], q[Max(T)])
BY DEF Climbs

LEMMA HighestIsLast ==
  ASSUME NEW q \in Seq(Entries), \A i, j \in 1..Len(q) : i < j => q[i].seq < q[j].seq
  PROVE  FoldLeft(Higher, 0, q) = IF q = <<>> THEN 0 ELSE q[Len(q)].seq
<1>. DEFINE D == DOMAIN q
            Peak(T) == IF T = {} THEN 0 ELSE q[Max(T)].seq
            g == [T \in SUBSET D |-> Peak(T)]
<1>1. FoldLeft(Higher, 0, q) = (CHOOSE h : Climbs(h, q))[D]
  BY DEF FoldLeft, MapThenFoldSet, Climbs
<1>2. D = 1..Len(q) /\ Len(q) \in Nat /\ IsFiniteSet(D) /\ D \in SUBSET Nat
      /\ \A i \in D : q[i].seq \in Nat
  <2>1. D = 1..Len(q) /\ Len(q) \in Nat /\ \A i \in D : q[i] \in Entries
    OBVIOUS
  <2>2. IsFiniteSet(1..Len(q))
    BY <2>1, FS_Interval
  <2>3. D \subseteq Nat
    BY <2>1
  <2>. HIDE DEF D
  <2>4. \A i \in D : q[i].seq \in Nat
    BY <2>1 DEF Entries
  <2>. QED  BY <2>1, <2>2, <2>3, <2>4
<1>. HIDE DEF D
<1>3. ASSUME NEW T, T \subseteq D, T # {}
      PROVE  Max(T) \in T /\ \A y \in T : y <= Max(T)
  <2>1. IsFiniteSet(T) /\ T \in SUBSET Int
    <3>1. IsFiniteSet(T)
      BY <1>2, <1>3, FS_Subset
    <3>. QED  BY <1>2, <1>3, <3>1
  <2>. QED  BY <1>3, <2>1, GreatestOf
<1>4. ASSUME NEW T, T \subseteq D, T # {}
      PROVE  /\ Max(T) \in T /\ T \ {Max(T)} \subseteq D
             /\ Peak(T) = Higher(Peak(T \ {Max(T)}), q[Max(T)])
  <2>. DEFINE m == Max(T)
              U == T \ {m}
  <2>1. m \in T /\ \A y \in T : y <= m
    BY <1>3, <1>4
  <2>2. m \in D /\ q[m].seq \in Nat
    BY <1>2, <1>4, <2>1
  <2>3. Peak(T) = q[m].seq
    BY <1>4
  <2>4. Peak(U) \in Nat /\ Peak(U) <= q[m].seq
    <3>1. CASE U = {}
      BY <2>2, <3>1
    <3>2. CASE U # {}
      <4>. DEFINE k == Max(U)
      <4>. HIDE DEF m
      <4>1. U \subseteq D
        BY <1>4
      <4>. HIDE DEF U
      <4>2. k \in U
        BY <1>3, <3>2, <4>1
      <4>3. k \in D /\ k \in T /\ k # m
        BY <4>1, <4>2 DEF U
      <4>. HIDE DEF k
      <4>4. k < m
        BY <1>2, <2>1, <2>2, <4>3
      <4>5. q[k].seq < q[m].seq /\ q[k].seq \in Nat
        BY <1>2, <2>2, <4>3, <4>4
      <4>. QED  BY <2>2, <3>2, <4>5 DEF k
    <3>. QED  BY <3>1, <3>2
  <2>. HIDE DEF Peak, U, m
  <2>5. Higher(Peak(U), q[m]) = q[m].seq
    BY <2>2, <2>4 DEF Higher
  <2>. QED  BY <1>4, <2>1, <2>3, <2>5 DEF U, m
<1>5. Peak({}) = 0
  OBVIOUS
<1>. HIDE DEF Peak
<1>6. Climbs(g, q)
  <2>1. \A T \in SUBSET D :
          Peak(T) = IF T = {} THEN 0 ELSE Higher(g[T \ {Max(T)}], q[Max(T)])
    BY <1>4, <1>5
  <2>. QED  BY <2>1 DEF Climbs, D
<1>7. ASSUME NEW h, Climbs(h, q) PROVE h[D] = Peak(D)
  <2>. DEFINE Bad == {T \in SUBSET D : h[T] # Peak(T)}
              T == Smallest(Bad)
  <2>. SUFFICES ASSUME Bad # {} PROVE FALSE
    OBVIOUS
  <2>1. T \in Bad /\ \A U \in Bad : U \subseteq T => U = T
    <3>1. Bad \subseteq SUBSET D
      OBVIOUS
    <3>. HIDE DEF Bad
    <3>. QED  BY <1>2, <3>1, SmallestPart
  <2>. HIDE DEF T
  <2>2. T \subseteq D /\ h[T] = IF T = {} THEN 0 ELSE Higher(h[T \ {Max(T)}], q[Max(T)])
    <3>1. T \subseteq DOMAIN q
      BY <2>1 DEF D
    <3>2. h[T] = IF T = {} THEN 0 ELSE Higher(h[T \ {Max(T)}], q[Max(T)])
      <4>. HIDE DEF Bad
      <4>. QED  BY <1>7, <3>1, ClimbsUnfolds
    <3>. QED  BY <2>1, <3>2
  <2>3. T # {}
    BY <1>5, <2>1, <2>2
  <2>4. h[T \ {Max(T)}] = Peak(T \ {Max(T)})
    BY <1>4, <2>1, <2>2, <2>3
  <2>. QED  BY <1>4, <2>1, <2>2, <2>3, <2>4
<1>8. FoldLeft(Higher, 0, q) = Peak(D)
  BY <1>1, <1>6, <1>7
<1>9. CASE q = <<>>
  <2>1. D = {}
    BY <1>9 DEF D
  <2>. QED  BY <1>5, <1>8, <1>9, <2>1
<1>10. CASE q # <<>>
  <2>1. Len(q) \in D /\ D # {}
    BY <1>2, <1>10
  <2>2. Max(D) \in D /\ \A y \in D : y <= Max(D)
    BY <1>3, <2>1
  <2>3. Max(D) = Len(q)
    <3>. DEFINE m == Max(D)
    <3>. HIDE DEF m
    <3>1. m \in 1..Len(q) /\ Len(q) <= m
      BY <1>2, <2>1, <2>2 DEF m
    <3>. QED  BY <1>2, <3>1 DEF m
  <2>. QED  BY <1>8, <1>10, <2>1, <2>3 DEF Peak
<1>. QED  BY <1>9, <1>10

(* Rows of the journal of an execution, and of its log. *)
LEMMA JournalRows ==
  ASSUME LogInv, NEW e \in Executions
  PROVE  /\ Of(table, e) \subseteq Entries /\ IsFiniteSet(Of(table, e))
         /\ \A a, b \in Of(table, e) : a.seq = b.seq => a = b
         /\ Mine(e) \subseteq Entries
         /\ \A r \in Of(table, e) \cup Mine(e) : r.seq \in Nat
         /\ Mine(e) \subseteq ToSet(log) /\ Of(table, e) \subseteq table
<1>1. /\ Of(table, e) \subseteq table /\ table \subseteq Entries /\ IsFiniteSet(table)
      /\ \A a, b \in Of(table, e) : a.seq = b.seq => a = b
  BY DEF LogInv, JournalsInv, JournalsTyped, OneRowPerSequence, Of
<1>2. IsFiniteSet(Of(table, e))
  <2>. DEFINE rows == Of(table, e)
  <2>. HIDE DEF rows
  <2>1. rows \subseteq table
    BY <1>1 DEF rows
  <2>. QED  BY <1>1, <2>1, FS_Subset DEF rows
<1>3. Mine(e) \subseteq ToSet(log) /\ ToSet(log) \subseteq Entries
  BY DEF Mine, Of, ToSet, LogInv, LogTyped
<1>. QED  BY <1>1, <1>2, <1>3 DEF Entries

(* Past the first event both replay the same. *)
LEMMA ReplayedAlike ==
  ASSUME AlikeInv, NEW e \in Executions, runs[e] <= 1, NEW n \in Nat, n > 0
  PROVE  replay(e, n) = mock_replay(e, n)
<1>. DEFINE rows == {r \in Of(table, e) : r.seq > n}
<1>0. LogInv
  BY DEF AlikeInv
<1>1. /\ rows \subseteq Entries /\ IsFiniteSet(rows) /\ \A a, b \in rows : a.seq = b.seq => a = b
      /\ rows \subseteq Of(table, e)
  <2>1. rows \subseteq Of(table, e)
    OBVIOUS
  <2>2. Of(table, e) \subseteq Entries /\ IsFiniteSet(Of(table, e))
        /\ \A a, b \in Of(table, e) : a.seq = b.seq => a = b
    BY <1>0, JournalRows
  <2>. HIDE DEF rows
  <2>. QED  BY <2>1, <2>2, FS_Subset
<1>2. {r \in Mine(e) : r.seq > n} = rows
  <2>1. \A r \in Of(table, e) \cup Mine(e) : r.seq \in Nat /\ r \in table \cup ToSet(log)
    BY <1>0, JournalRows
  <2>2. \A r \in table \cup ToSet(log) : r.seq > 1 => (r \in Of(table, e) <=> r \in Mine(e))
    BY DEF AlikeInv
  <2>3. \A r \in Of(table, e) \cup Mine(e) : r.seq > n => (r \in Of(table, e) <=> r \in Mine(e))
    BY <2>1, <2>2
  <2>. QED  BY <2>3
<1>3. rows \subseteq Mine(e)
  BY <1>2
<1>4. replay(e, n) = Ordered(rows) /\ mock_replay(e, n) = Those(log, rows)
  <2>1. (IF n < 0 THEN 0 ELSE n) = n
    OBVIOUS
  <2>. QED  BY <1>2, <2>1 DEF replay, mock_replay, Mine
<1>. HIDE DEF rows
<1>5. /\ Ordered(rows) \in Seq(Entries) /\ ToSet(Ordered(rows)) = rows
      /\ \A i, j \in 1..Len(Ordered(rows)) : i < j => Ordered(rows)[i].seq < Ordered(rows)[j].seq
  BY <1>1, OrderedIs
<1>6. /\ Those(log, rows) \in Seq(Entries) /\ ToSet(Those(log, rows)) = rows
      /\ \A i, j \in 1..Len(Those(log, rows)) :
           i < j => Those(log, rows)[i].seq < Those(log, rows)[j].seq
  BY <1>0, <1>3, ThoseAre
<1>. QED  BY <1>4, <1>5, <1>6, InSequence

(* The last of rows in order has the highest sequence. *)
LEMMA LastIsHighest ==
  ASSUME NEW s \in Seq(Entries), NEW rows, ToSet(s) = rows, rows # {},
         \A i, j \in 1..Len(s) : i < j => s[i].seq < s[j].seq
  PROVE  /\ s # <<>> /\ Last(s) = s[Len(s)] /\ Last(s) \in rows
         /\ \A r \in rows : r.seq <= Last(s).seq
<1>1. DOMAIN s = 1..Len(s) /\ Len(s) \in Nat /\ \A i \in 1..Len(s) : s[i] \in Entries
  OBVIOUS
<1>2. \A r \in rows : \E i \in 1..Len(s) : s[i] = r
  BY <1>1 DEF ToSet
<1>3. Len(s) \in 1..Len(s) /\ s # <<>>
  BY <1>1, <1>2
<1>4. s[Len(s)] \in rows
  BY <1>1, <1>3 DEF ToSet
<1>5. ASSUME NEW r \in rows PROVE r.seq <= s[Len(s)].seq
  <2>1. PICK i \in 1..Len(s) : s[i] = r
    BY <1>2
  <2>2. r.seq \in Nat /\ s[Len(s)].seq \in Nat
    BY <1>1, <1>3, <2>1 DEF Entries
  <2>3. i = Len(s) \/ i < Len(s)
    <3>1. Len(s) \in Nat
      OBVIOUS
    <3>. QED  BY <3>1
  <2>. QED  BY <1>3, <2>1, <2>2, <2>3
<1>. QED  BY <1>3, <1>4, <1>5 DEF Last

(* And both have the same last event, if it is not the first. *)
LEMMA LatestAlike ==
  ASSUME AlikeInv, NEW e \in Executions, runs[e] <= 1, latest_sequence(e) > 1
  PROVE  /\ latest_sequence(e) = mock_latest_sequence(e)
         /\ latest_event(e) = mock_latest_event(e)
<1>. DEFINE rows == Of(table, e)
            mine == {r \in Mine(e) : r.seq > 0}
            s    == Ordered(rows)
            t    == Those(log, mine)
<1>0. LogInv
  BY DEF AlikeInv
<1>1. /\ rows \subseteq Entries /\ IsFiniteSet(rows) /\ \A a, b \in rows : a.seq = b.seq => a = b
      /\ Mine(e) \subseteq Entries
      /\ \A r \in rows \cup Mine(e) : r.seq \in Nat
      /\ \A r \in rows \cup Mine(e) : r \in table \cup ToSet(log)
  BY <1>0, JournalRows
<1>2. rows # {}
  BY DEF latest_sequence
<1>3. /\ {r \in rows : r.seq > -1} = rows
      /\ mock_replay(e, 0) = t
  BY <1>1 DEF mock_replay, Mine
<1>. HIDE DEF rows
<1>4. mine \subseteq Mine(e)
  OBVIOUS
<1>. HIDE DEF mine
<1>5. s \in Seq(Entries) /\ ToSet(s) = rows /\ \A i, j \in 1..Len(s) : i < j => s[i].seq < s[j].seq
  BY <1>1, OrderedIs
<1>6. t \in Seq(Entries) /\ ToSet(t) = mine /\ \A i, j \in 1..Len(t) : i < j => t[i].seq < t[j].seq
  BY <1>0, <1>4, ThoseAre
<1>7. latest_event(e) = Last(s)
  BY <1>2, <1>3 DEF latest_event, replay, rows
<1>8. mock_latest_event(e) = IF t = <<>> THEN None ELSE Last(t)
  BY <1>3 DEF mock_latest_event
<1>9. mock_latest_sequence(e) = FoldLeft(Higher, 0, t)
  BY <1>3 DEF mock_latest_sequence
<1>. HIDE DEF s, t
<1>10. /\ s # <<>> /\ Last(s) \in rows /\ \A r \in rows : r.seq <= Last(s).seq
  BY <1>2, <1>5, LastIsHighest
<1>11. latest_sequence(e) = Last(s).seq
  <2>. DEFINE n == Last(s).seq
              seqs == {r.seq : r \in rows}
  <2>1. n \in seqs /\ \A r \in rows : r.seq <= n
    BY <1>10
  <2>2. \A m \in seqs : (\A r \in rows : r.seq <= m) => m = n
    <3>. SUFFICES ASSUME NEW m \in seqs, \A r \in rows : r.seq <= m PROVE m = n
      OBVIOUS
    <3>1. n <= m /\ m <= n /\ n \in Nat /\ m \in Nat
      BY <1>1, <1>10
    <3>. HIDE DEF n, seqs
    <3>. QED  BY <3>1
  <2>3. latest_sequence(e) = CHOOSE m \in seqs : \A r \in rows : r.seq <= m
    BY <1>2 DEF latest_sequence, rows
  <2>. HIDE DEF n, seqs
  <2>. QED  BY <2>1, <2>2, <2>3 DEF n
<1>12. Last(s).seq > 1
  BY <1>11
<1>13. \A r \in rows \cup Mine(e) : r.seq > 1 => (r \in rows <=> r \in Mine(e))
  BY <1>1 DEF AlikeInv, rows
<1>14. Last(s) \in mine
  BY <1>1, <1>10, <1>12, <1>13 DEF mine
<1>15. /\ t # <<>> /\ Last(t) = t[Len(t)] /\ Last(t) \in mine
       /\ \A r \in mine : r.seq <= Last(t).seq
  BY <1>6, <1>14, LastIsHighest
<1>16. Last(t) = Last(s)
  <2>1. Last(s).seq <= Last(t).seq /\ Last(t) \in Mine(e) /\ Last(t).seq \in Nat /\ Last(s).seq \in Nat
    BY <1>1, <1>4, <1>10, <1>14, <1>15
  <2>2. Last(t) \in rows
    BY <1>12, <1>13, <2>1
  <2>3. Last(t).seq <= Last(s).seq
    BY <1>10, <2>2
  <2>. QED  BY <1>1, <1>10, <2>1, <2>2, <2>3
<1>17. FoldLeft(Higher, 0, t) = t[Len(t)].seq
  BY <1>6, <1>15, HighestIsLast
<1>. QED  BY <1>7, <1>8, <1>9, <1>11, <1>15, <1>16, <1>17

LEMMA AlikeInvSays ==
  ASSUME AlikeInv
  PROVE  JournalsAgree
<1>0. LogInv /\ MaxEvents \in Nat
  BY JournalsAssumption DEF AlikeInv
<1>1. ASSUME NEW e \in Executions, runs[e] <= 1, NEW n \in 1..MaxEvents
      PROVE  replay(e, n) = mock_replay(e, n)
  BY <1>0, <1>1, ReplayedAlike
<1>2. ASSUME \A e \in Executions : runs[e] <= 1, NEW n \in 1..MaxEvents
      PROVE  since(n) = ToSet(mock_since(n))
  <2>. DEFINE rows == {r \in ToSet(log) : r.seq > n}
  <2>1. mock_since(n) = Those(log, rows)
    <3>1. (IF n < 0 THEN 0 ELSE n) = n
      BY <1>0
    <3>. QED  BY <3>1 DEF mock_since
  <2>. HIDE DEF rows
  <2>2. log \in Seq(Entries)
    BY <1>0 DEF LogInv, LogTyped
  <2>3. Remains(log, rows, Those(log, rows))
    BY <2>2, ThoseRemain
  <2>4. ToSet(Those(log, rows)) = rows
    BY <2>3 DEF Remains, rows
  <2>5. \A r \in table \cup ToSet(log) : r.exec \in Executions /\ r.seq \in Nat
    <3>1. table \subseteq Entries /\ ToSet(log) \subseteq Entries
      BY <1>0, <2>2 DEF LogInv, JournalsInv, JournalsTyped, ToSet
    <3>. QED  BY <3>1 DEF Entries
  <2>6. \A r \in table \cup ToSet(log) : r.seq > 1 => (r \in table <=> r \in ToSet(log))
    <3>. SUFFICES ASSUME NEW r \in table \cup ToSet(log), r.seq > 1
                  PROVE  r \in table <=> r \in ToSet(log)
      OBVIOUS
    <3>1. r \in Of(table, r.exec) <=> r \in Mine(r.exec)
      BY <1>2, <2>5 DEF AlikeInv
    <3>. QED  BY <3>1 DEF Of, Mine
  <2>7. \A r \in table \cup ToSet(log) : r.seq > n => r.seq > 1
    BY <1>0, <2>5
  <2>. QED  BY <2>1, <2>4, <2>6, <2>7 DEF since, rows
<1>. QED  BY <1>1, <1>2, LatestAlike DEF JournalsAgree

(* The sqlite and the in-memory stores answer alike, where nothing tells   *)
(* them apart that they do not promise (the stores of paramodel-store-     *)
(* sqlite and of paramodel-persistence).                                   *)
THEOREM BackendsAlwaysAgree == SpecArchive => []BackendsAgree
<1>. DEFINE Inv == HeldInv /\ ApartInv /\ AlikeInv
<1>1. InitArchive => Inv
  <2>1. InitRepository => HeldInv
    <3>1. SoundRows("checkpoints", {})
      BY FS_EmptySet DEF SoundRows, OneRowPerKey
    <3>. QED  BY <3>1, InitRepositoryInv DEF InitRepository, HeldInv, Tables, PlansHeld, CheckpointsHeld,
              ExecutionsHeld, MetadataHeld, Checkpoints
  <2>. QED  BY <2>1, InitApartInv, InitAlikeInv DEF InitArchive
<1>2. Inv /\ [NextArchive]_<<repo, store, journals>> => Inv'
  <2>. SUFFICES ASSUME Inv, [NextArchive]_<<repo, store, journals>> PROVE Inv'
    OBVIOUS
  <2>1. ASSUME UNCHANGED repo PROVE HeldInv'
    <3>1. RepositoryInv'
      BY <2>1 DEF repo, RepositoryInv, HeldInv
    <3>. QED  BY <2>1, <3>1, HeldStays DEF repo
  <2>2. ASSUME UNCHANGED store PROVE ApartInv'
    <3>1. ArtifactsInv'
      BY <2>2 DEF store, ArtifactsInv, ApartInv
    <3>2. UNCHANGED <<saver, minted, apart>> /\ artifacts' = artifacts \ {} /\ shelf' = shelf \ {}
      BY <2>2 DEF store
    <3>. QED  BY <3>1, <3>2, TakenFromBoth
  <2>3. ASSUME UNCHANGED journals PROVE AlikeInv'
    <3>1. UNCHANGED <<table, log, sent, writer, runs, follower, cut>>
      BY <2>3 DEF journals
    <3>2. JournalsInv'
      BY <3>1 DEF AlikeInv, LogInv, JournalsInv, JournalsTyped, OneRowPerSequence, WriterSays, SentSays,
         FollowerSays, Reaches, Seen, Publishing
    <3>3. LogInv'
      BY <3>1, <3>2, LogStays DEF AlikeInv
    <3>. QED  BY <3>1, <3>3, AlikeStays
  <2>. QED  BY <2>1, <2>2, <2>3, HeldStep, ApartStep, AlikeStep DEF NextArchive
<1>3. Inv => BackendsAgree
  BY HeldInvSays, ApartInvSays, AlikeInvSays DEF BackendsAgree
<1>. QED  BY <1>1, <1>2, <1>3, PTL DEF SpecArchive

==============================================================================
