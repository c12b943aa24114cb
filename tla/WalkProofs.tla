----------------------------- MODULE WalkProofs ------------------------------
(***************************************************************************)
(* What the walk over an execution graph answers, and what is read off the *)
(* order it gives, for every list of steps.                                *)
(***************************************************************************)
EXTENDS WalkProperties, SumProofs, SequenceTheorems

(***************************************************************************)
(* Lists of steps.                                                         *)
(***************************************************************************)
GraphOK == graph \in Seq([id : Nat, deps : Seq(Nat)])
Sound   == GraphOK /\ ~Duplicate /\ ~Dangling

LEMMA Listing ==
  ASSUME GraphOK
  PROVE  /\ Len(graph) \in Nat /\ DOMAIN graph = 1..Len(graph)
         /\ \A i \in DOMAIN graph : graph[i].id \in Nat /\ graph[i].deps \in Seq(Nat)
         /\ Ids \subseteq Nat /\ IsFiniteSet(Ids)
         /\ \A n \in Ids : /\ at(n) \in DOMAIN graph /\ graph[at(n)].id = n
                           /\ depends_on(n) \in Seq(Nat)
<1>1. /\ Len(graph) \in Nat /\ DOMAIN graph = 1..Len(graph)
      /\ \A i \in DOMAIN graph : graph[i].id \in Nat /\ graph[i].deps \in Seq(Nat)
  <2>. DEFINE Steps == [id : Nat, deps : Seq(Nat)]
  <2>1. graph \in Seq(Steps)
    BY DEF GraphOK
  <2>2. \A r \in Steps : r.id \in Nat /\ r.deps \in Seq(Nat)
    OBVIOUS
  <2>. HIDE DEF Steps
  <2>. QED  BY <2>1, <2>2
<1>2. Ids \subseteq Nat
  BY <1>1 DEF Ids
<1>3. IsFiniteSet(Ids)
  <2>1. IsFiniteSet(1..Len(graph))
    BY <1>1, FS_Interval
  <2>2. [i \in DOMAIN graph |-> graph[i].id] \in Surjection(1..Len(graph), Ids)
    BY <1>1 DEF Surjection, Ids
  <2>. QED  BY <2>1, <2>2, FS_Surjection
<1>4. ASSUME NEW n \in Ids
      PROVE  at(n) \in DOMAIN graph /\ graph[at(n)].id = n /\ depends_on(n) \in Seq(Nat)
  <2>. DEFINE D == {i \in DOMAIN graph : graph[i].id = n}
  <2>1. D \in SUBSET Nat /\ D # {}
    BY <1>1 DEF Ids
  <2>2. PICK i \in D : \A j \in D : i <= j
    <3>. HIDE DEF D
    <3>. QED  BY <2>1, LeastOf
  <2>3. i \in DOMAIN graph /\ graph[i].id = n /\ \A j \in 1..(i - 1) : graph[j].id # n
    BY <1>1, <2>2
  <2>4. at(n) \in DOMAIN graph /\ graph[at(n)].id = n
    BY <2>3 DEF at
  <2>. QED  BY <1>1, <2>4 DEF depends_on, step
<1>. QED  BY <1>1, <1>2, <1>3, <1>4

LEMMA SoundListing ==
  ASSUME Sound
  PROVE  /\ \A i \in DOMAIN graph : at(graph[i].id) = i
         /\ \A m, n \in Ids : at(m) = at(n) => m = n
         /\ Cardinality(Ids) = Len(graph)
         /\ \A n \in Ids : dependencies(n) = ToSet(depends_on(n)) /\ dependencies(n) \subseteq Ids
         /\ \A n \in Ids : dependents(n) \subseteq Ids
         /\ \A m, n \in Ids : m \in dependents(n) <=> n \in dependencies(m)
<1>1. \A i \in DOMAIN graph : at(graph[i].id) = i
  BY Listing DEF Sound, Duplicate, Ids
<1>2. \A m, n \in Ids : at(m) = at(n) => m = n
  BY Listing DEF Sound
<1>3. Cardinality(Ids) = Len(graph)
  <2>. DEFINE f == [i \in 1..Len(graph) |-> graph[i].id]
  <2>0. DOMAIN graph = 1..Len(graph) /\ f \in [1..Len(graph) -> Ids]
    BY Listing DEF Sound, Ids
  <2>1. f \in Bijection(1..Len(graph), Ids)
    <3>1. \A i, j \in 1..Len(graph) : f[i] = f[j] => i = j
      BY <2>0 DEF Sound, Duplicate
    <3>2. \A n \in Ids : \E i \in 1..Len(graph) : f[i] = n
      BY <2>0 DEF Ids
    <3>. HIDE DEF f
    <3>3. f \in Injection(1..Len(graph), Ids)
      BY <2>0, <3>1 DEF Injection, IsInjective
    <3>. QED  BY <2>0, <3>2, <3>3 DEF Bijection, Surjection
  <2>. HIDE DEF f
  <2>2. ExistsBijection(1..Len(graph), Ids)
    BY <2>1 DEF ExistsBijection
  <2>. QED  BY <2>2, Listing, FS_CountingElements DEF Sound
<1>4. \A n \in Ids : ToSet(depends_on(n)) \subseteq Ids
  BY Listing DEF Sound, Dangling, depends_on, step, ToSet
<1>5. \A n \in Ids : dependencies(n) = ToSet(depends_on(n)) /\ dependencies(n) \subseteq Ids
  BY <1>4 DEF dependencies
<1>6. \A n \in Ids : dependents(n) \subseteq Ids
  BY DEF dependents, Ids
<1>7. ASSUME NEW m \in Ids, NEW n \in Ids PROVE m \in dependents(n) <=> n \in dependencies(m)
  <2>1. m \in dependents(n) <=> \E i \in DOMAIN graph : m = graph[i].id /\ n \in ToSet(graph[i].deps)
    BY DEF dependents
  <2>2. \A i \in DOMAIN graph : m = graph[i].id <=> i = at(m)
    BY <1>1, Listing DEF Sound
  <2>3. at(m) \in DOMAIN graph
    BY Listing DEF Sound
  <2>. QED  BY <2>1, <2>2, <2>3, <1>5 DEF depends_on, step
<1>. QED  BY <1>1, <1>2, <1>3, <1>5, <1>6, <1>7

(* Whatever the ranks, the members are put in line, each of them once. *)
LEMMA Lining ==
  ASSUME NEW S, IsFiniteSet(S), NEW rank, \A x \in S : rank[x] \in Nat,
         \A x, y \in S : rank[x] = rank[y] => x = y
  PROVE  /\ Lined(S, rank) \in Seq(S) /\ IsInjective(Lined(S, rank))
         /\ ToSet(Lined(S, rank)) = S
<1>. DEFINE Line(s, T) == /\ s \in [1..Cardinality(T) -> T]
                          /\ \A i, j \in DOMAIN s : i < j => rank[s[i]] < rank[s[j]]
            Bad == {T \in SUBSET S : ~\E s : Line(s, T)}
<1>1. Bad = {}
  <2>. SUFFICES ASSUME Bad # {} PROVE FALSE
    OBVIOUS
  <2>. DEFINE T == Smallest(Bad)
  <2>1. T \in Bad /\ \A U \in Bad : U \subseteq T => U = T
    <3>1. Bad \subseteq SUBSET S
      OBVIOUS
    <3>. HIDE DEF Bad
    <3>. QED  BY <3>1, SmallestPart
  <2>. HIDE DEF T
  <2>2. T # {}
    <3>. SUFFICES ASSUME T = {} PROVE FALSE
      OBVIOUS
    <3>1. Cardinality({}) = 0
      BY FS_EmptySet
    <3>2. Line(<<>>, {})
      BY <3>1
    <3>. QED  BY <2>1, <3>2
  <2>3. PICK x \in T : \A y \in T : rank[y] <= rank[x]
    <3>. DEFINE f == [y \in T |-> rank[y]]
                R == {rank[y] : y \in T}
    <3>0. IsFiniteSet(T)
      BY <2>1, FS_Subset
    <3>1. f \in Surjection(T, R)
      BY DEF Surjection
    <3>2. IsFiniteSet(R)
      BY <3>0, <3>1, FS_Surjection
    <3>3. R \in SUBSET Int /\ R # {}
      BY <2>1, <2>2
    <3>. HIDE DEF R
    <3>4. PICK m \in R : \A r \in R : r <= m
      BY <3>2, <3>3, GreatestOf
    <3>. QED  BY <3>4 DEF R
  <2>. DEFINE U == T \ {x}
  <2>4. IsFiniteSet(U) /\ Cardinality(T) = Cardinality(U) + 1 /\ Cardinality(U) \in Nat
    <3>1. IsFiniteSet(T)
      BY <2>1, FS_Subset
    <3>2. IsFiniteSet(U) /\ Cardinality(U) = Cardinality(T) - 1
      BY <3>1, FS_RemoveElement
    <3>3. Cardinality(U) \in Nat /\ Cardinality(T) \in Nat
      BY <3>1, <3>2, FS_CardinalityType
    <3>. HIDE DEF U
    <3>. QED  BY <3>2, <3>3
  <2>5. PICK s : Line(s, U)
    <3>1. U \subseteq T /\ U # T /\ U \subseteq S
      BY <2>1
    <3>. HIDE DEF U, Line
    <3>. QED  BY <2>1, <3>1
  <2>. DEFINE k == Cardinality(U)
              t == [i \in 1..(k + 1) |-> IF i = k + 1 THEN x ELSE s[i]]
  <2>6. \A i \in 1..k : s[i] \in T /\ s[i] # x
    BY <2>5
  <2>7. \A y \in T : y # x => rank[y] < rank[x]
    BY <2>1, <2>3
  <2>8. Line(t, T)
    <3>1. t \in [1..Cardinality(T) -> T]
      <4>. HIDE DEF U
      <4>1. \A i \in 1..(k + 1) : (IF i = k + 1 THEN x ELSE s[i]) \in T
        BY <2>4, <2>6
      <4>. QED  BY <2>4, <4>1
    <3>. HIDE DEF U
    <3>2. ASSUME NEW i \in DOMAIN t, NEW j \in DOMAIN t, i < j PROVE rank[t[i]] < rank[t[j]]
      <4>1. i \in 1..k /\ t[i] = s[i] /\ s[i] \in T /\ s[i] # x
        BY <2>4, <2>6, <3>2
      <4>2. CASE j = k + 1
        BY <2>4, <2>7, <4>1, <4>2
      <4>3. CASE j # k + 1
        <5>1. j \in 1..k /\ t[j] = s[j]
          BY <2>4, <4>3
        <5>. QED  BY <2>5, <3>2, <4>1, <5>1
      <4>. QED  BY <4>2, <4>3
    <3>. QED  BY <3>1, <3>2
  <2>. HIDE DEF t, U, Line
  <2>. QED  BY <2>1, <2>8
<1>2. Line(Lined(S, rank), S)
  <2>1. \E s \in [1..Cardinality(S) -> S] : \A i, j \in DOMAIN s : i < j => rank[s[i]] < rank[s[j]]
    BY <1>1
  <2>. QED  BY <2>1 DEF Lined
<1>. DEFINE l == Lined(S, rank)
<1>3. Cardinality(S) \in Nat /\ IsFiniteSet(1..Cardinality(S)) /\ Cardinality(1..Cardinality(S)) = Cardinality(S)
  BY FS_CardinalityType, FS_Interval
<1>4. DOMAIN l = 1..Cardinality(S) /\ l \in [1..Cardinality(S) -> S]
  BY <1>2
<1>. HIDE DEF l
<1>5. l \in Seq(S)
  BY <1>3, <1>4, IsASeq
<1>6. IsInjective(l)
  <2>1. \A i, j \in DOMAIN l : i < j => rank[l[i]] < rank[l[j]]
    BY <1>2 DEF l
  <2>2. \A i, j \in DOMAIN l : i # j => l[i] # l[j]
    BY <1>3, <1>4, <2>1
  <2>. QED  BY <2>2 DEF IsInjective
<1>7. ToSet(l) = S
  <2>1. l \in Injection(1..Cardinality(S), S)
    BY <1>4, <1>6 DEF IsInjective, Injection
  <2>2. l \in Surjection(1..Cardinality(S), S)
    BY <1>3, <2>1, FS_Injection
  <2>. QED  BY <1>4, <2>2 DEF Surjection, ToSet
<1>. QED  BY <1>5, <1>6, <1>7 DEF l

------------------------------------------------------------------------------
(***************************************************************************)
(* What a step still waits for when some are out: of a step that names one *)
(* twice it is never nothing.                                              *)
(***************************************************************************)
Left(n, done) ==
  IF form = "steps" THEN Len(depends_on(n)) - Cardinality(dependencies(n) \cap done)
  ELSE Cardinality({i \in DOMAIN depends_on(n) : depends_on(n)[i] \notin done})

By(n, k) == IF form = "steps" THEN 1 ELSE Times(n, k)

(* A list has as many places as members, or more if it names one twice. *)
LEMMA NamesAtMost ==
  ASSUME NEW s \in Seq(Nat)
  PROVE  /\ IsFiniteSet(ToSet(s)) /\ Cardinality(ToSet(s)) \in Nat /\ Cardinality(ToSet(s)) <= Len(s)
         /\ IsFiniteSet(DOMAIN s) /\ Cardinality(DOMAIN s) = Len(s) /\ Len(s) \in Nat
         /\ IsInjective(s) => Cardinality(ToSet(s)) = Len(s)
<1>1. DOMAIN s = 1..Len(s) /\ Len(s) \in Nat /\ s \in [1..Len(s) -> ToSet(s)]
  BY DEF ToSet
<1>2. IsFiniteSet(DOMAIN s) /\ Cardinality(DOMAIN s) = Len(s)
  BY <1>1, FS_Interval
<1>3. s \in Surjection(1..Len(s), ToSet(s))
  BY <1>1 DEF Surjection, ToSet
<1>4. /\ IsFiniteSet(ToSet(s)) /\ Cardinality(ToSet(s)) <= Len(s)
      /\ Cardinality(ToSet(s)) = Len(s) <=> s \in Injection(1..Len(s), ToSet(s))
  BY <1>1, <1>2, <1>3, FS_Surjection
<1>5. IsInjective(s) => s \in Injection(1..Len(s), ToSet(s))
  BY <1>1 DEF Injection
<1>. QED  BY <1>1, <1>2, <1>4, <1>5, FS_CardinalityType

LEMMA LeftSays ==
  ASSUME Sound, NEW n \in Ids, NEW done
  PROVE  /\ Left(n, done) \in Nat
         /\ Left(n, done) = 0 => dependencies(n) \subseteq done
         /\ dependencies(n) \subseteq done /\ (form # "steps" \/ IsInjective(depends_on(n)))
              => Left(n, done) = 0
         /\ Left(n, {}) = Len(depends_on(n))
<1>. DEFINE s == depends_on(n)
            D == dependencies(n)
            P == {i \in DOMAIN s : s[i] \notin done}
<1>1. s \in Seq(Nat) /\ D = ToSet(s)
  BY Listing, SoundListing DEF Sound
<1>2. /\ IsFiniteSet(D) /\ Cardinality(D) \in Nat /\ Cardinality(D) <= Len(s) /\ Len(s) \in Nat
      /\ IsFiniteSet(DOMAIN s) /\ Cardinality(DOMAIN s) = Len(s)
      /\ IsInjective(s) => Cardinality(D) = Len(s)
  <2>. HIDE DEF s, D
  <2>. QED  BY <1>1, NamesAtMost
<1>3. \A i \in DOMAIN s : s[i] \in D
  BY <1>1 DEF ToSet
<1>4. \A d \in D : \E i \in DOMAIN s : s[i] = d
  BY <1>1 DEF ToSet
<1>5. Left(n, done) = IF form = "steps" THEN Len(s) - Cardinality(D \cap done) ELSE Cardinality(P)
  BY DEF Left
<1>6. Left(n, {}) = IF form = "steps" THEN Len(s) - Cardinality(D \cap {}) ELSE Cardinality(DOMAIN s)
  <2>1. {i \in DOMAIN s : s[i] \notin {}} = DOMAIN s
    OBVIOUS
  <2>. QED  BY <2>1 DEF Left
<1>. HIDE DEF s, D
<1>7. /\ Cardinality(D \cap done) \in Nat /\ Cardinality(D \cap done) <= Cardinality(D)
      /\ Cardinality(D \cap done) = Cardinality(D) => D \subseteq done
  <2>1. D \cap done \in SUBSET D
    OBVIOUS
  <2>2. /\ IsFiniteSet(D \cap done) /\ Cardinality(D \cap done) <= Cardinality(D)
        /\ Cardinality(D) = Cardinality(D \cap done) => D = D \cap done
    BY <1>2, <2>1, FS_Subset
  <2>. QED  BY <2>2, FS_CardinalityType
<1>8. D \subseteq done => D \cap done = D
  OBVIOUS
<1>9. /\ IsFiniteSet(P) /\ Cardinality(P) \in Nat /\ (Cardinality(P) = 0 <=> P = {})
      /\ P = {} <=> D \subseteq done
  <2>1. P \in SUBSET DOMAIN s
    OBVIOUS
  <2>2. IsFiniteSet(P)
    BY <1>2, <2>1, FS_Subset
  <2>3. P = {} <=> D \subseteq done
    BY <1>3, <1>4
  <2>. HIDE DEF P
  <2>. QED  BY <2>2, <2>3, FS_CardinalityType, FS_EmptySet
<1>. HIDE DEF P
<1>10. Cardinality({}) = 0 /\ D \cap {} = {}
  BY FS_EmptySet
<1>11. CASE form = "steps"
  <2>1. Left(n, done) = Len(s) - Cardinality(D \cap done) /\ Left(n, {}) = Len(s) - 0
    BY <1>5, <1>6, <1>10, <1>11
  <2>2. Left(n, done) \in Nat /\ Left(n, {}) = Len(s)
    BY <1>2, <1>7, <2>1
  <2>3. Left(n, done) = 0 => D \subseteq done
    BY <1>2, <1>7, <2>1
  <2>4. D \subseteq done /\ IsInjective(s) => Left(n, done) = 0
    <3>. SUFFICES ASSUME D \subseteq done, IsInjective(s) PROVE Left(n, done) = 0
      OBVIOUS
    <3>1. Cardinality(D \cap done) = Len(s)
      BY <1>2, <1>8
    <3>. QED  BY <1>2, <2>1, <3>1
  <2>. QED  BY <1>11, <2>2, <2>3, <2>4 DEF s, D
<1>12. CASE form # "steps"
  <2>1. Left(n, done) = Cardinality(P) /\ Left(n, {}) = Cardinality(DOMAIN s)
    BY <1>5, <1>6, <1>12
  <2>. QED  BY <1>2, <1>9, <1>12, <2>1 DEF s, D
<1>. QED  BY <1>11, <1>12

LEMMA LeftAfter ==
  ASSUME Sound, NEW n \in Ids, NEW done, NEW k, k \notin done
  PROVE  /\ k \notin dependencies(n) => Left(n, done \cup {k}) = Left(n, done)
         /\ k \in dependencies(n) =>
              /\ Left(n, done \cup {k}) = Left(n, done) - By(n, k)
              /\ By(n, k) \in Nat /\ 0 < By(n, k) /\ By(n, k) <= Left(n, done)
<1>. DEFINE s == depends_on(n)
            D == dependencies(n)
            P == {i \in DOMAIN s : s[i] \notin done}
            Q == {i \in DOMAIN s : s[i] = k}
            more == done \cup {k}
<1>1. s \in Seq(Nat) /\ D = ToSet(s)
  BY Listing, SoundListing DEF Sound
<1>2. IsFiniteSet(D) /\ IsFiniteSet(DOMAIN s)
  <2>. HIDE DEF s, D
  <2>. QED  BY <1>1, NamesAtMost
<1>3. /\ Left(n, done) \in Nat
      /\ Left(n, more) \in Nat
  BY LeftSays
<1>4. CASE form = "steps"
  <2>1. /\ Left(n, done) = Len(s) - Cardinality(D \cap done)
        /\ Left(n, more) = Len(s) - Cardinality(D \cap more)
        /\ By(n, k) = 1
    BY <1>4 DEF Left, By
  <2>2. IsFiniteSet(D \cap done) /\ Cardinality(D \cap done) \in Nat /\ Len(s) \in Nat
    <3>. HIDE DEF s, D
    <3>1. D \cap done \in SUBSET D
      OBVIOUS
    <3>. QED  BY <1>1, <1>2, <3>1, FS_Subset, FS_CardinalityType
  <2>3. k \notin D => D \cap more = D \cap done
    OBVIOUS
  <2>4. k \in D => Cardinality(D \cap more) = Cardinality(D \cap done) + 1
    <3>. SUFFICES ASSUME k \in D PROVE Cardinality(D \cap more) = Cardinality(D \cap done) + 1
      OBVIOUS
    <3>1. D \cap more = (D \cap done) \cup {k} /\ k \notin D \cap done
      OBVIOUS
    <3>. HIDE DEF D, more
    <3>. QED  BY <2>2, <3>1, FS_AddElement
  <2>. HIDE DEF s, more
  <2>5. CASE k \notin D
    BY <2>1, <2>3, <2>5 DEF more
  <2>6. CASE k \in D
    <3>. HIDE DEF D
    <3>1. k \in dependencies(n)
      BY <2>6 DEF D
    <3>2. Left(n, more) = Left(n, done) - 1 /\ 1 <= Left(n, done)
      BY <1>3, <2>1, <2>2, <2>4, <2>6
    <3>. QED  BY <2>1, <3>1, <3>2 DEF more
  <2>. QED  BY <2>5, <2>6
<1>5. CASE form # "steps"
  <2>1. Left(n, done) = Cardinality(P) /\ By(n, k) = Cardinality(Q)
    BY <1>5 DEF Left, By, Times
  <2>2. Left(n, more) = Cardinality(P \ Q)
    <3>1. P \ Q = {i \in DOMAIN s : s[i] \notin more}
      OBVIOUS
    <3>2. Left(n, more) = Cardinality({i \in DOMAIN s : s[i] \notin more})
      BY <1>5 DEF Left
    <3>. QED  BY <3>1, <3>2
  <2>3. Q \subseteq P /\ P \cap Q = Q /\ (Q = {} <=> k \notin D)
    BY <1>1 DEF ToSet
  <2>4. IsFiniteSet(P) /\ IsFiniteSet(Q)
    <3>1. P \in SUBSET DOMAIN s /\ Q \in SUBSET DOMAIN s
      OBVIOUS
    <3>. HIDE DEF P, Q, s
    <3>. QED  BY <1>2, <3>1, FS_Subset
  <2>. HIDE DEF P, Q, D, more
  <2>5. Cardinality(P \ Q) = Cardinality(P) - Cardinality(Q)
    BY <2>3, <2>4, FS_Difference
  <2>6. /\ Cardinality(P) \in Nat /\ Cardinality(Q) \in Nat /\ (Cardinality(Q) = 0 <=> Q = {})
        /\ Cardinality(Q) <= Cardinality(P)
    BY <2>3, <2>4, FS_CardinalityType, FS_EmptySet, FS_Subset
  <2>7. k \notin D => Left(n, more) = Left(n, done)
    BY <2>1, <2>2, <2>3, <2>5, <2>6
  <2>8. k \in D => /\ Left(n, more) = Left(n, done) - By(n, k)
                   /\ By(n, k) \in Nat /\ 0 < By(n, k) /\ By(n, k) <= Left(n, done)
    BY <2>1, <2>2, <2>3, <2>5, <2>6
  <2>. QED  BY <2>7, <2>8 DEF D, more
<1>. QED  BY <1>4, <1>5

------------------------------------------------------------------------------
(***************************************************************************)
(* The walk.  What is out or ready is what waits for nothing that is not   *)
(* out, each of them once; and what is out came after all it depends on.   *)
(***************************************************************************)
Walked == verdict \in {"walking", "ok", "cycle"}

Counts ==
  /\ Sound
  /\ out \in Seq(Ids) /\ ready \in Seq(Ids)
  /\ IsInjective(out) /\ IsInjective(ready) /\ ToSet(out) \cap ToSet(ready) = {}
  /\ indegree = [n \in Ids |-> Left(n, ToSet(out))]
  /\ \A n \in Ids : indegree[n] = 0 <=> n \in ToSet(out) \cup ToSet(ready)
  /\ \A i \in DOMAIN out : \A d \in dependencies(out[i]) : \E j \in 1..(i - 1) : out[j] = d

WalkInv ==
  /\ GraphOK /\ form \in {"steps", "instances"}
  /\ verdict \in {"unread", "duplicate", "dangling", "walking", "ok", "cycle"}
  /\ verdict = "unread" => out = <<>>
  /\ verdict = "duplicate" => Duplicate
  /\ verdict = "dangling" => Dangling
  /\ Walked => Counts
  /\ verdict \in {"ok", "cycle"} => ready = <<>> /\ (verdict = "ok" <=> Len(out) = Len(graph))

LEMMA GraphStays ==
  ASSUME UNCHANGED <<graph, form>>
  PROVE  /\ GraphOK' <=> GraphOK
         /\ Duplicate' <=> Duplicate
         /\ Dangling' <=> Dangling
         /\ Sound' <=> Sound
         /\ Ids' = Ids
         /\ \A n : dependencies(n)' = dependencies(n)
         /\ \A n, done : Left(n, done)' = Left(n, done)
<1>1. Ids' = Ids /\ \A n : at(n)' = at(n)
  BY DEF Ids, at
<1>2. \A n : depends_on(n)' = depends_on(n)
  BY <1>1 DEF depends_on, step
<1>3. \A n : dependencies(n)' = dependencies(n)
  BY <1>1, <1>2 DEF dependencies
<1>4. /\ GraphOK' <=> GraphOK
      /\ Duplicate' <=> Duplicate
      /\ Dangling' <=> Dangling
  BY <1>1 DEF GraphOK, Duplicate, Dangling
<1>5. \A n, done : Left(n, done)' = Left(n, done)
  BY <1>2, <1>3 DEF Left
<1>. QED  BY <1>1, <1>3, <1>4, <1>5 DEF Sound

LEMMA CountsHold ==
  ASSUME UNCHANGED <<graph, form>>, Sound,
         out' \in Seq(Ids), ready' \in Seq(Ids), IsInjective(out'), IsInjective(ready'),
         ToSet(out') \cap ToSet(ready') = {},
         indegree' = [n \in Ids |-> Left(n, ToSet(out'))],
         \A n \in Ids : indegree'[n] = 0 <=> n \in ToSet(out') \cup ToSet(ready'),
         \A i \in DOMAIN out' : \A d \in dependencies(out'[i]) : \E j \in 1..(i - 1) : out'[j] = d
  PROVE  Counts'
<1>1. Sound' /\ Ids' = Ids
  BY GraphStays
<1>2. indegree' = [n \in Ids |-> Left(n, ToSet(out))']
  <2>1. \A n \in Ids : Left(n, ToSet(out))' = Left(n, ToSet(out'))
    BY GraphStays
  <2>. QED  BY <2>1
<1>3. \A i \in DOMAIN out' : \A d \in dependencies(out[i])' : \E j \in 1..(i - 1) : out'[j] = d
  <2>1. \A i \in DOMAIN out' : dependencies(out[i])' = dependencies(out'[i])
    BY GraphStays
  <2>. QED  BY <2>1
<1>. QED  BY <1>1, <1>2, <1>3 DEF Counts, ToSet, IsInjective

LEMMA InitWalkInv == InitGraph => WalkInv
BY GraphWalksAssumption DEF InitGraph, WalkInv, GraphOK, Walked

LEMMA BeginWalkInv == WalkInv /\ BeginWalk => WalkInv'
<1>. SUFFICES ASSUME WalkInv, BeginWalk PROVE WalkInv'
  OBVIOUS
<1>. DEFINE count == [id \in Ids |-> Len(depends_on(id))]
            free  == {id \in Ids : count[id] = 0}
<1>1. /\ verdict = "unread" /\ out = <<>> /\ GraphOK
      /\ graph' = graph /\ form' = form /\ out' = <<>>
  BY DEF WalkInv, BeginWalk
<1>2. /\ Ids' = Ids /\ (GraphOK' <=> GraphOK) /\ (Sound' <=> Sound)
      /\ (Duplicate' <=> Duplicate) /\ (Dangling' <=> Dangling)
  BY <1>1, GraphStays
<1>3. CASE Duplicate \/ Dangling
  BY <1>1, <1>2, <1>3 DEF WalkInv, BeginWalk, Walked
<1>4. CASE ~Duplicate /\ ~Dangling
  <2>1. Sound /\ verdict' = "walking" /\ indegree' = count /\ ready' = Lined(free, ByName)
    BY <1>1, <1>4 DEF BeginWalk, Sound
  <2>2. /\ ready' \in Seq(free) /\ IsInjective(ready') /\ ToSet(ready') = free
    <3>1. IsFiniteSet(free) /\ \A x \in free : x \in Ids /\ ByName[x] = x /\ x \in Nat
      <4>1. free \in SUBSET Ids /\ IsFiniteSet(Ids) /\ Ids \subseteq Nat
        BY <1>1, Listing
      <4>. HIDE DEF free
      <4>. QED  BY <4>1, FS_Subset DEF ByName
    <3>. HIDE DEF free
    <3>. QED  BY <2>1, <3>1, Lining
  <2>3. ToSet(<<>>) = {} /\ IsInjective(<<>>) /\ <<>> \in Seq(Ids)
    BY DEF ToSet, IsInjective
  <2>4. \A n \in Ids : Left(n, {}) = count[n]
    BY <2>1, LeftSays
  <2>6. indegree' = [n \in Ids |-> Left(n, {})]
    BY <2>1, <2>4
  <2>7. ready' \in Seq(Ids)
    <3>1. free \subseteq Ids
      OBVIOUS
    <3>. HIDE DEF free
    <3>. QED  BY <2>2, <3>1, SeqMonotonic
  <2>. HIDE DEF count
  <2>8. \A n \in Ids : indegree'[n] = 0 <=> n \in ToSet(<<>>) \cup ToSet(ready')
    BY <2>1, <2>2, <2>3
  <2>9. Counts'
    <3>1. \A i \in DOMAIN out' : \A d \in dependencies(out'[i]) : \E j \in 1..(i - 1) : out'[j] = d
      BY <1>1
    <3>2. ToSet(out') = {} /\ out' \in Seq(Ids) /\ IsInjective(out')
      BY <1>1, <2>3
    <3>. QED  BY <1>1, <2>1, <2>2, <2>6, <2>7, <2>8, <3>1, <3>2, CountsHold
  <2>. QED  BY <1>1, <1>2, <2>1, <2>9 DEF WalkInv, Walked
<1>. QED  BY <1>3, <1>4

LEMMA WalkStepInv == WalkInv /\ WalkStep => WalkInv'
<1>. SUFFICES ASSUME WalkInv, WalkStep PROVE WalkInv'
  OBVIOUS
<1>. DEFINE k == Last(ready)
            F == {n \in dependents(k) : Lowered(k)[n] = 0}
            line == Lined(F, AsListed)
            rest == Front(ready)
            done == ToSet(out)
<1>1. /\ verdict = "walking" /\ verdict' = "walking" /\ ready # <<>> /\ Counts /\ Sound
      /\ graph' = graph /\ form' = form /\ out' = Append(out, k)
      /\ indegree' = Lowered(k) /\ ready' = rest \o line
  BY DEF WalkInv, WalkStep, Walked, Counts
<1>2. /\ Ids' = Ids /\ (GraphOK' <=> GraphOK) /\ (Sound' <=> Sound)
      /\ (Duplicate' <=> Duplicate) /\ (Dangling' <=> Dangling)
  BY <1>1, GraphStays
<1>3. /\ k \in Ids /\ k \in ToSet(ready) /\ k \notin done
      /\ rest \in Seq(Ids) /\ IsInjective(rest) /\ ToSet(rest) = ToSet(ready) \ {k}
  <2>1. ready \in Seq(Ids) /\ Len(ready) \in Nat /\ Len(ready) # 0 /\ k = ready[Len(ready)]
    BY <1>1 DEF Counts, Last
  <2>2. k \in Ids /\ k \in ToSet(ready)
    BY <2>1 DEF ToSet
  <2>3. rest \in Seq(Ids) /\ Len(rest) = Len(ready) - 1 /\ \A i \in 1..(Len(ready) - 1) : rest[i] = ready[i]
    <3>1. \A i \in 1..(Len(ready) - 1) : ready[i] \in Ids
      BY <2>1
    <3>. DEFINE front == SubSeq(ready, 1, Len(ready) - 1)
    <3>2. /\ front \in Seq(Ids)
          /\ Len(front) = IF 1 <= Len(ready) - 1 THEN Len(ready) - 1 - 1 + 1 ELSE 0
          /\ \A i \in 1..(Len(ready) - 1 - 1 + 1) : front[i] = ready[1 + i - 1]
      BY <2>1, <3>1, SubSeqProperties
    <3>3. rest = front
      BY DEF Front
    <3>. HIDE DEF front, rest
    <3>. QED  BY <2>1, <3>2, <3>3
  <2>4. \A i, j \in 1..Len(ready) : ready[i] = ready[j] => i = j
    BY <1>1, <2>1 DEF Counts, IsInjective
  <2>5. IsInjective(rest)
    BY <2>1, <2>3, <2>4 DEF IsInjective
  <2>6. ToSet(rest) = ToSet(ready) \ {k}
    BY <2>1, <2>3, <2>4 DEF ToSet
  <2>7. k \notin done
    BY <1>1, <2>2 DEF Counts
  <2>. QED  BY <2>2, <2>3, <2>5, <2>6, <2>7
<1>4. Len(out) \in Nat /\ out \in Seq(Ids) /\ DOMAIN out = 1..Len(out) /\ IsInjective(out)
  BY <1>1 DEF Counts
<1>5. ToSet(out') = done \cup {k} /\ IsInjective(out') /\ out' \in Seq(Ids)
  <2>. HIDE DEF k
  <2>1. /\ out' \in Seq(Ids) /\ DOMAIN out' = 1..(Len(out) + 1) /\ out'[Len(out) + 1] = k
        /\ \A i \in 1..Len(out) : out'[i] = out[i]
    BY <1>1, <1>3, <1>4
  <2>2. ToSet(out') = done \cup {k}
    BY <1>4, <2>1 DEF ToSet
  <2>3. IsInjective(out')
    BY <1>3, <1>4, <2>1 DEF ToSet, IsInjective
  <2>. QED  BY <2>1, <2>2, <2>3
<1>. HIDE DEF k
<1>6. ASSUME NEW n \in Ids
      PROVE  /\ Lowered(k)[n] = Left(n, done \cup {k})
             /\ n \notin dependents(k) => Lowered(k)[n] = indegree[n]
             /\ n \in dependents(k) => indegree[n] # 0
  <2>1. indegree[n] = Left(n, done) /\ Left(n, done) \in Nat
    BY <1>1, LeftSays DEF Counts
  <2>2. n \in dependents(k) <=> k \in dependencies(n)
    BY <1>1, <1>3, SoundListing
  <2>3. Lowered(k)[n] = IF n \notin dependents(k) THEN indegree[n]
                        ELSE IF By(n, k) > indegree[n] THEN 0 ELSE indegree[n] - By(n, k)
    BY DEF Lowered, By
  <2>4. /\ k \notin dependencies(n) => Left(n, done \cup {k}) = Left(n, done)
        /\ k \in dependencies(n) =>
             /\ Left(n, done \cup {k}) = Left(n, done) - By(n, k)
             /\ By(n, k) \in Nat /\ 0 < By(n, k) /\ By(n, k) <= Left(n, done)
    BY <1>1, <1>3, LeftAfter
  <2>. QED  BY <2>1, <2>2, <2>3, <2>4
<1>7. F \subseteq Ids /\ IsFiniteSet(F)
  BY <1>1, <1>3, Listing, SoundListing, FS_Subset DEF Sound
<1>8. line \in Seq(F) /\ IsInjective(line) /\ ToSet(line) = F
  <2>1. \A x \in F : AsListed[x] = at(x) /\ at(x) \in Nat
    BY <1>1, <1>7, Listing DEF AsListed, Sound
  <2>2. \A x, y \in F : AsListed[x] = AsListed[y] => x = y
    BY <1>1, <1>7, <2>1, SoundListing
  <2>. HIDE DEF F
  <2>. QED  BY <1>7, <2>1, <2>2, Lining
<1>9. \A n \in F : n \notin done \cup ToSet(ready)
  BY <1>1, <1>6, <1>7 DEF Counts
<1>. HIDE DEF F, line, rest
<1>10. ready' \in Seq(Ids) /\ IsInjective(ready') /\ ToSet(ready') = ToSet(rest) \cup F
  <2>1. line \in Seq(Ids) /\ Len(line) \in Nat /\ Len(rest) \in Nat
    BY <1>3, <1>7, <1>8
  <2>2. ready' \in Seq(Ids) /\ DOMAIN ready' = 1..(Len(rest) + Len(line))
    BY <1>1, <1>3, <2>1
  <2>3. \A i \in DOMAIN ready' : \/ i \in DOMAIN rest /\ ready'[i] = rest[i]
                                 \/ /\ i - Len(rest) \in DOMAIN line /\ i \notin DOMAIN rest
                                    /\ ready'[i] = line[i - Len(rest)]
    BY <1>1, <1>3, <2>1
  <2>4. /\ \A i \in DOMAIN rest : i \in DOMAIN ready' /\ ready'[i] = rest[i]
        /\ \A i \in DOMAIN line : Len(rest) + i \in DOMAIN ready' /\ ready'[Len(rest) + i] = line[i]
    BY <1>1, <1>3, <2>1
  <2>5. ToSet(ready') = ToSet(rest) \cup ToSet(line)
    BY <2>3, <2>4 DEF ToSet
  <2>6. \A i \in DOMAIN rest, j \in DOMAIN line : rest[i] # line[j]
    BY <1>3, <1>8, <1>9 DEF ToSet
  <2>7. IsInjective(ready')
    <3>. SUFFICES ASSUME NEW i \in DOMAIN ready', NEW j \in DOMAIN ready', ready'[i] = ready'[j]
                  PROVE  i = j
      BY DEF IsInjective
    <3>0. i \in Nat /\ j \in Nat
      BY <2>1, <2>2
    <3>1. CASE i \in DOMAIN rest /\ j \in DOMAIN rest
      BY <1>3, <2>3, <3>1 DEF IsInjective
    <3>2. CASE i \in DOMAIN rest /\ j \notin DOMAIN rest
      BY <2>3, <2>6, <3>2
    <3>3. CASE i \notin DOMAIN rest /\ j \in DOMAIN rest
      BY <2>3, <2>6, <3>3
    <3>4. CASE i \notin DOMAIN rest /\ j \notin DOMAIN rest
      <4>1. i - Len(rest) = j - Len(rest)
        BY <1>8, <2>3, <3>4 DEF IsInjective
      <4>. QED  BY <2>1, <3>0, <4>1
    <3>. QED  BY <3>1, <3>2, <3>3, <3>4
  <2>. QED  BY <1>8, <2>2, <2>5, <2>7
<1>11. ToSet(out') \cap ToSet(ready') = {}
  BY <1>1, <1>3, <1>5, <1>9, <1>10 DEF Counts
<1>12. indegree' = [n \in Ids |-> Left(n, ToSet(out'))]
  <2>1. indegree' = [n \in Ids |-> Lowered(k)[n]]
    BY <1>1 DEF Lowered
  <2>. QED  BY <1>5, <1>6, <2>1
<1>13. ASSUME NEW n \in Ids PROVE indegree'[n] = 0 <=> n \in ToSet(out') \cup ToSet(ready')
  <2>1. ToSet(out') \cup ToSet(ready') = (done \cup ToSet(ready)) \cup F
    BY <1>3, <1>5, <1>10
  <2>2. indegree[n] = 0 <=> n \in done \cup ToSet(ready)
    BY <1>1 DEF Counts
  <2>3. n \in F <=> n \in dependents(k) /\ indegree'[n] = 0
    BY <1>1 DEF F
  <2>4. indegree'[n] = Lowered(k)[n]
    BY <1>1
  <2>. QED  BY <1>6, <2>1, <2>2, <2>3, <2>4
<1>14. ASSUME NEW i \in DOMAIN out', NEW d \in dependencies(out'[i])
       PROVE  \E j \in 1..(i - 1) : out'[j] = d
  <2>1. /\ DOMAIN out' = 1..(Len(out) + 1) /\ out'[Len(out) + 1] = k
        /\ \A j \in 1..Len(out) : out'[j] = out[j]
    BY <1>1, <1>3, <1>4
  <2>2. CASE i \in 1..Len(out)
    <3>1. out'[i] = out[i]
      BY <2>1, <2>2
    <3>2. d \in dependencies(out[i])
      BY <1>14, <3>1
    <3>3. PICK j \in 1..(i - 1) : out[j] = d
      BY <1>1, <1>4, <2>2, <3>2 DEF Counts
    <3>4. j \in 1..Len(out)
      BY <1>4, <2>2, <3>3
    <3>. QED  BY <2>1, <3>3, <3>4
  <2>3. CASE i = Len(out) + 1
    <3>1. d \in dependencies(k)
      BY <1>14, <2>1, <2>3
    <3>2. indegree[k] = 0 /\ indegree[k] = Left(k, done)
      BY <1>1, <1>3 DEF Counts
    <3>3. d \in done
      BY <1>1, <1>3, <3>1, <3>2, LeftSays
    <3>4. PICK j \in DOMAIN out : out[j] = d
      BY <3>3 DEF ToSet
    <3>5. j \in 1..Len(out) /\ j \in 1..(i - 1)
      BY <1>4, <2>3, <3>4
    <3>. QED  BY <2>1, <3>4, <3>5
  <2>. QED  BY <1>4, <2>1, <2>2, <2>3
<1>15. Counts'
  BY <1>1, <1>5, <1>10, <1>11, <1>12, <1>13, <1>14, CountsHold
<1>. QED  BY <1>1, <1>2, <1>15 DEF WalkInv, Walked

LEMMA EndWalkInv == WalkInv /\ EndWalk => WalkInv'
<1>. SUFFICES ASSUME WalkInv, EndWalk PROVE WalkInv'
  OBVIOUS
<1>1. /\ verdict = "walking" /\ ready = <<>> /\ UNCHANGED <<graph, form, indegree, ready, out>>
      /\ verdict' = IF Len(out) # Len(graph) THEN "cycle" ELSE "ok"
      /\ GraphOK /\ Counts /\ form \in {"steps", "instances"}
  BY DEF EndWalk, WalkInv, Walked
<1>2. Counts' /\ GraphOK'
  BY <1>1, CountsHold, GraphStays DEF Counts
<1>. QED  BY <1>1, <1>2 DEF WalkInv

LEMMA AlwaysWalkInv == SpecWalk => []WalkInv
<1>1. ASSUME WalkInv, UNCHANGED walk_vars PROVE WalkInv'
  <2>1. UNCHANGED <<graph, form, verdict, indegree, ready, out>>
    BY <1>1 DEF walk_vars
  <2>2. Counts => Counts'
    BY <2>1, CountsHold DEF Counts
  <2>. QED  BY <1>1, <2>1, <2>2, GraphStays DEF WalkInv, Walked
<1>2. WalkInv /\ [NextGraph]_walk_vars => WalkInv'
  BY <1>1, BeginWalkInv, WalkStepInv, EndWalkInv DEF NextGraph
<1>. QED  BY InitWalkInv, <1>2, PTL DEF SpecWalk

------------------------------------------------------------------------------
(***************************************************************************)
(* Verdicts.  A walk that stops short leaves steps each of which waits for *)
(* another of them, unless one names a step twice; one that gets through   *)
(* has everything behind what it depends on.                               *)
(***************************************************************************)
Ordered ==
  /\ Sound
  /\ Len(out) \in Nat /\ Len(out) = Len(graph) /\ out \in [1..Len(out) -> Ids]
  /\ \A n \in Ids : \E i \in 1..Len(out) : out[i] = n
  /\ \A i, j \in 1..Len(out) : out[i] = out[j] => i = j
  /\ \A i, j \in 1..Len(out) : out[i] \in dependencies(out[j]) => i < j

LEMMA OnesUpTo ==
  ASSUME NEW N \in Nat
  PROVE  IsFiniteSet(1..N) /\ Cardinality(1..N) = N
BY FS_Interval

LEMMA OkIsOrdered ==
  ASSUME WalkInv, verdict = "ok"
  PROVE  Ordered
<1>1. /\ Counts /\ Sound /\ Len(out) = Len(graph) /\ out \in Seq(Ids) /\ Len(out) \in Nat
      /\ DOMAIN out = 1..Len(out)
  BY DEF WalkInv, Walked, Counts
<1>2. \A i, j \in 1..Len(out) : out[i] = out[j] => i = j
  BY <1>1 DEF Counts, IsInjective
<1>3. \A n \in Ids : \E i \in 1..Len(out) : out[i] = n
  <2>1. out \in Injection(1..Len(out), Ids)
    BY <1>1, <1>2 DEF Injection, IsInjective
  <2>2. Cardinality(1..Len(out)) = Cardinality(Ids) /\ IsFiniteSet(Ids)
    <3>1. Cardinality(1..Len(out)) = Len(out)
      BY <1>1, OnesUpTo
    <3>. QED  BY <1>1, <3>1, Listing, SoundListing DEF Sound
  <2>3. out \in Surjection(1..Len(out), Ids)
    BY <2>1, <2>2, FS_Injection
  <2>. QED  BY <2>3 DEF Surjection
<1>4. ASSUME NEW i \in 1..Len(out), NEW j \in 1..Len(out), out[i] \in dependencies(out[j])
      PROVE  i < j
  <2>1. PICK k \in 1..(j - 1) : out[k] = out[i]
    BY <1>1, <1>4 DEF Counts
  <2>2. k \in 1..Len(out)
    BY <1>1
  <2>. QED  BY <1>1, <1>2, <2>1, <2>2
<1>. QED  BY <1>1, <1>2, <1>3, <1>4 DEF Ordered

LEMMA OrderedPlaces ==
  ASSUME Ordered
  PROVE  /\ InOrder
         /\ \A n \in Ids : Place(n) \in 1..Len(out) /\ out[Place(n)] = n
<1>1. DOMAIN out = 1..Len(out)
  BY DEF Ordered
<1>2. ASSUME NEW n \in Ids PROVE Place(n) \in 1..Len(out) /\ out[Place(n)] = n
  <2>1. \E i \in DOMAIN out : out[i] = n
    BY <1>1 DEF Ordered
  <2>. QED  BY <1>1, <2>1 DEF Place
<1>3. Len(out) = Cardinality(Ids)
  BY SoundListing DEF Ordered
<1>4. ToSet(out) = Ids
  BY <1>1 DEF Ordered, ToSet
<1>5. ASSUME NEW n \in Ids, NEW d \in dependencies(n) PROVE Place(d) < Place(n)
  <2>1. d \in Ids
    BY <1>5, SoundListing DEF Ordered
  <2>. QED  BY <1>2, <1>5, <2>1 DEF Ordered
<1>. QED  BY <1>2, <1>3, <1>4, <1>5 DEF InOrder

LEMMA OrderedHasNoCircle ==
  ASSUME Ordered
  PROVE  ~HasCircle
<1>. SUFFICES ASSUME NEW S \in SUBSET Ids, S # {}, \A n \in S : dependencies(n) \cap S # {}
              PROVE  FALSE
  BY DEF HasCircle
<1>. DEFINE P == {Place(n) : n \in S}
<1>1. P \in SUBSET Nat /\ P # {}
  BY OrderedPlaces DEF Ordered
<1>. HIDE DEF P
<1>2. PICK m \in P : \A p \in P : m <= p
  BY <1>1, LeastOf
<1>3. PICK n \in S : m = Place(n)
  BY <1>2 DEF P
<1>4. PICK d \in S : d \in dependencies(n)
  OBVIOUS
<1>5. Place(d) \in P /\ Place(d) < Place(n)
  BY <1>4, OrderedPlaces DEF InOrder, P
<1>6. Place(d) \in Nat /\ Place(n) \in Nat /\ Place(n) <= Place(d)
  BY <1>1, <1>2, <1>3, <1>5
<1>. QED  BY <1>5, <1>6

LEMMA CycleIsCircle ==
  ASSUME WalkInv, verdict = "cycle"
  PROVE  HasCircle \/ (form = "steps" /\ Repeats)
<1>1. /\ Counts /\ Sound /\ Len(out) # Len(graph) /\ out \in Seq(Ids) /\ ready = <<>>
      /\ ToSet(ready) = {} /\ Len(out) \in Nat /\ DOMAIN out = 1..Len(out)
  BY DEF WalkInv, Walked, Counts, ToSet
<1>. DEFINE S == Ids \ ToSet(out)
<1>2. S # {}
  <2>. SUFFICES ASSUME Ids \subseteq ToSet(out) PROVE FALSE
    OBVIOUS
  <2>1. ToSet(out) = Ids
    BY <1>1 DEF ToSet
  <2>2. out \in Bijection(1..Len(out), Ids)
    BY <1>1, <2>1 DEF Counts, IsInjective, Bijection, Injection, Surjection, ToSet
  <2>3. ExistsBijection(1..Len(out), Ids)
    BY <2>2 DEF ExistsBijection
  <2>4. Cardinality(Ids) = Len(out)
    BY <1>1, <2>3, FS_CountingElements
  <2>. QED  BY <1>1, <2>4, SoundListing
<1>3. CASE \A n \in S : dependencies(n) \cap S # {}
  <2>1. S \in SUBSET Ids
    OBVIOUS
  <2>. QED  BY <1>2, <1>3, <2>1 DEF HasCircle
<1>4. CASE \E n \in S : dependencies(n) \cap S = {}
  <2>1. PICK n \in S : dependencies(n) \cap S = {}
    BY <1>4
  <2>2. dependencies(n) \subseteq ToSet(out)
    BY <1>1, <2>1, SoundListing
  <2>3. Left(n, ToSet(out)) # 0
    BY <1>1, <2>1 DEF Counts
  <2>4. form = "steps" /\ ~IsInjective(depends_on(n))
    BY <1>1, <2>2, <2>3, LeftSays
  <2>5. at(n) \in DOMAIN graph
    BY <1>1, Listing DEF Sound
  <2>. QED  BY <2>4, <2>5 DEF Repeats, depends_on, step
<1>. QED  BY <1>3, <1>4

------------------------------------------------------------------------------
(***************************************************************************)
(* Loops whose turns are numbered: next[<<k, v>>] is what the k-th turn    *)
(* makes of v.                                                             *)
(***************************************************************************)
Iterates(h, next, base, N) ==
  h = [k \in 0..N |-> IF k = 0 THEN base ELSE next[<<k, h[k - 1]>>]]

LEMMA IterationExists ==
  ASSUME NEW N \in Nat, NEW V, NEW base \in V, NEW next \in [(1..N) \X V -> V]
  PROVE  \E h \in [0..N -> V] : Iterates(h, next, base, N)
<1>. DEFINE Has(h, m) == h \in [0..m -> V] /\ Iterates(h, next, base, m)
            Bad == {m \in 0..N : ~\E h : Has(h, m)}
<1>. SUFFICES ASSUME Bad # {} PROVE FALSE
  OBVIOUS
<1>1. PICK m \in Bad : \A k \in Bad : m <= k
  <2>1. Bad \in SUBSET Nat
    OBVIOUS
  <2>. HIDE DEF Bad
  <2>. QED  BY <2>1, LeastOf
<1>2. m # 0
  <2>. DEFINE h == [k \in 0..0 |-> base]
  <2>1. Has(h, 0)
    BY DEF Iterates
  <2>. QED  BY <1>1, <2>1
<1>3. m \in 1..N /\ m - 1 \in 0..N /\ m - 1 \notin Bad
  BY <1>1, <1>2
<1>4. PICK h : Has(h, m - 1)
  BY <1>3
<1>. HIDE DEF Bad
<1>. DEFINE v == next[<<m, h[m - 1]>>]
            g == [k \in 0..m |-> IF k = m THEN v ELSE h[k]]
<1>5. \A k \in 0..(m - 1) : h[k] \in V /\ h[k] = IF k = 0 THEN base ELSE next[<<k, h[k - 1]>>]
  BY <1>4 DEF Iterates
<1>6. v \in V
  <2>1. m - 1 \in 0..(m - 1)
    BY <1>3
  <2>2. <<m, h[m - 1]>> \in (1..N) \X V
    BY <1>3, <1>5, <2>1
  <2>. QED  BY <2>2
<1>. HIDE DEF v
<1>7. g \in [0..m -> V]
  <2>1. \A k \in 0..m : k # m => k \in 0..(m - 1)
    BY <1>3
  <2>. QED  BY <1>5, <1>6, <2>1
<1>8. ASSUME NEW k \in 0..m PROVE g[k] = IF k = 0 THEN base ELSE next[<<k, g[k - 1]>>]
  <2>1. CASE k = m
    <3>1. k # 0 /\ g[k] = v /\ k - 1 \in 0..m /\ k - 1 # m
      BY <1>3, <2>1
    <3>2. g[k - 1] = h[m - 1]
      BY <2>1, <3>1
    <3>. QED  BY <2>1, <3>1, <3>2 DEF v
  <2>2. CASE k # m
    <3>1. k \in 0..(m - 1) /\ g[k] = h[k]
      BY <1>3, <2>2
    <3>2. CASE k = 0
      BY <1>5, <3>1, <3>2
    <3>3. CASE k # 0
      <4>1. k - 1 \in 0..m /\ k - 1 # m
        BY <1>3, <3>1, <3>3
      <4>2. g[k - 1] = h[k - 1]
        BY <4>1
      <4>. QED  BY <1>5, <3>1, <3>3, <4>2
    <3>. QED  BY <3>2, <3>3
  <2>. QED  BY <2>1, <2>2
<1>9. g = [k \in 0..m |-> g[k]]
  OBVIOUS
<1>. HIDE DEF g
<1>10. Iterates(g, next, base, m)
  BY <1>8, <1>9 DEF Iterates
<1>. QED  BY <1>1, <1>7, <1>10 DEF Bad

------------------------------------------------------------------------------
(***************************************************************************)
(* Depths.  The loop over the order leaves each step one behind the        *)
(* deepest that it depends on: when a step has its turn, all that it       *)
(* depends on have had theirs, so that what is taken from it is final.     *)
(***************************************************************************)
DepthRun(d) ==
  d = [i \in 0..Len(out) |->
        IF i = 0 THEN [n \in Ids |-> 0]
        ELSE [n \in Ids |-> IF /\ out[i] \in dependencies(n)
                              /\ d[i - 1][out[i]] + 1 > d[i - 1][n]
                            THEN d[i - 1][out[i]] + 1 ELSE d[i - 1][n]]]

ChainRun(c) ==
  c = [i \in 0..Len(out) |->
        IF i = 0 THEN [n \in Ids |-> [len |-> 1, prev |-> <<>>]]
        ELSE [n \in Ids |-> IF /\ out[i] \in dependencies(n)
                              /\ c[i - 1][out[i]].len + 1 > c[i - 1][n].len
                            THEN [len |-> c[i - 1][out[i]].len + 1, prev |-> <<out[i]>>]
                            ELSE c[i - 1][n]]]

LEMMA DepthIsRun ==
  ASSUME Ordered
  PROVE  \E d : DepthRun(d) /\ depth = d[Len(out)]
<1>. DEFINE V == [Ids -> Nat]
            base == [n \in Ids |-> 0]
            Turn(k, v) == [n \in Ids |-> IF out[k] \in dependencies(n) /\ v[out[k]] + 1 > v[n]
                                         THEN v[out[k]] + 1 ELSE v[n]]
            next == [p \in (1..Len(out)) \X V |-> Turn(p[1], p[2])]
<1>1. Len(out) \in Nat /\ \A i \in 1..Len(out) : out[i] \in Ids
  BY DEF Ordered
<1>2. ASSUME NEW k \in 1..Len(out), NEW v \in V PROVE Turn(k, v) \in V
  BY <1>1
<1>3. base \in V
  OBVIOUS
<1>4. next \in [(1..Len(out)) \X V -> V]
  <2>. HIDE DEF Turn, V
  <2>. QED  BY <1>2
<1>. HIDE DEF next
<1>5. PICK h \in [0..Len(out) -> V] : Iterates(h, next, base, Len(out))
  <2>. HIDE DEF V, base
  <2>. QED  BY <1>1, <1>3, <1>4, IterationExists
<1>6. DepthRun(h)
  <2>1. ASSUME NEW i \in 0..Len(out)
        PROVE  h[i] = IF i = 0 THEN base ELSE Turn(i, h[i - 1])
    <3>1. h[i] = IF i = 0 THEN base ELSE next[<<i, h[i - 1]>>]
      BY <1>5 DEF Iterates
    <3>2. CASE i = 0
      BY <3>1, <3>2
    <3>3. CASE i # 0
      <4>1. i \in 1..Len(out) /\ i - 1 \in 0..Len(out)
        BY <1>1, <3>3
      <4>2. h[i - 1] \in V
        BY <1>5, <4>1
      <4>. HIDE DEF Turn, V
      <4>3. next[<<i, h[i - 1]>>] = Turn(i, h[i - 1])
        BY <4>1, <4>2 DEF next
      <4>. QED  BY <3>1, <3>3, <4>3
    <3>. QED  BY <3>2, <3>3
  <2>2. h = [i \in 0..Len(out) |-> h[i]]
    BY <1>5
  <2>3. h = [i \in 0..Len(out) |-> IF i = 0 THEN base ELSE Turn(i, h[i - 1])]
    <3>. HIDE DEF base, Turn
    <3>. QED  BY <2>1, <2>2
  <2>. QED  BY <2>3 DEF DepthRun
<1>7. depth = (CHOOSE d : DepthRun(d))[Len(out)]
  BY DEF depth, DepthRun
<1>. QED  BY <1>6, <1>7

LEMMA ChainsIsRun ==
  ASSUME Ordered
  PROVE  \E c : ChainRun(c) /\ Chains = c[Len(out)]
<1>. DEFINE R == [len : Nat, prev : Seq(Ids)]
            V == [Ids -> R]
            base == [n \in Ids |-> [len |-> 1, prev |-> <<>>]]
            Turn(k, v) == [n \in Ids |-> IF out[k] \in dependencies(n) /\ v[out[k]].len + 1 > v[n].len
                                         THEN [len |-> v[out[k]].len + 1, prev |-> <<out[k]>>]
                                         ELSE v[n]]
            next == [p \in (1..Len(out)) \X V |-> Turn(p[1], p[2])]
<1>1. Len(out) \in Nat /\ \A i \in 1..Len(out) : out[i] \in Ids
  BY DEF Ordered
<1>2. ASSUME NEW k \in 1..Len(out), NEW v \in V PROVE Turn(k, v) \in V
  <2>1. v[out[k]].len + 1 \in Nat /\ <<out[k]>> \in Seq(Ids)
    BY <1>1
  <2>2. [len |-> v[out[k]].len + 1, prev |-> <<out[k]>>] \in R
    BY <2>1
  <2>. HIDE DEF R
  <2>. QED  BY <2>2
<1>3. base \in V
  <2>1. [len |-> 1, prev |-> <<>>] \in R
    OBVIOUS
  <2>. HIDE DEF R
  <2>. QED  BY <2>1
<1>4. next \in [(1..Len(out)) \X V -> V]
  <2>. HIDE DEF Turn, V
  <2>. QED  BY <1>2
<1>. HIDE DEF next
<1>5. PICK h \in [0..Len(out) -> V] : Iterates(h, next, base, Len(out))
  <2>. HIDE DEF V, base
  <2>. QED  BY <1>1, <1>3, <1>4, IterationExists
<1>6. ChainRun(h)
  <2>1. ASSUME NEW i \in 0..Len(out)
        PROVE  h[i] = IF i = 0 THEN base ELSE Turn(i, h[i - 1])
    <3>1. h[i] = IF i = 0 THEN base ELSE next[<<i, h[i - 1]>>]
      BY <1>5 DEF Iterates
    <3>2. CASE i = 0
      BY <3>1, <3>2
    <3>3. CASE i # 0
      <4>1. i \in 1..Len(out) /\ i - 1 \in 0..Len(out)
        BY <1>1, <3>3
      <4>2. h[i - 1] \in V
        BY <1>5, <4>1
      <4>. HIDE DEF Turn, V
      <4>3. next[<<i, h[i - 1]>>] = Turn(i, h[i - 1])
        BY <4>1, <4>2 DEF next
      <4>. QED  BY <3>1, <3>3, <4>3
    <3>. QED  BY <3>2, <3>3
  <2>2. h = [i \in 0..Len(out) |-> h[i]]
    BY <1>5
  <2>3. h = [i \in 0..Len(out) |-> IF i = 0 THEN base ELSE Turn(i, h[i - 1])]
    <3>. HIDE DEF base, Turn
    <3>. QED  BY <2>1, <2>2
  <2>. QED  BY <2>3 DEF ChainRun
<1>7. Chains = (CHOOSE c : ChainRun(c))[Len(out)]
  BY DEF Chains, ChainRun
<1>. QED  BY <1>6, <1>7

(* Each step is one behind the deepest that it depends on. *)
Layered(D) ==
  /\ D \in [Ids -> Nat]
  /\ \A n \in Ids : \A s \in dependencies(n) : D[s] + 1 <= D[n]
  /\ \A n \in Ids : D[n] > 0 => \E s \in dependencies(n) : D[s] + 1 = D[n]

LEMMA DepthIsLayered ==
  ASSUME Ordered
  PROVE  Layered(depth)
<1>1. PICK d : DepthRun(d) /\ depth = d[Len(out)]
  BY DepthIsRun
<1>2. /\ Len(out) \in Nat /\ \A i \in 1..Len(out) : out[i] \in Ids
      /\ \A i, j \in 1..Len(out) : out[i] \in dependencies(out[j]) => i < j
  BY DEF Ordered
<1>3. \A i \in 0..Len(out) :
        d[i] = IF i = 0 THEN [n \in Ids |-> 0]
               ELSE [n \in Ids |-> IF /\ out[i] \in dependencies(n)
                                     /\ d[i - 1][out[i]] + 1 > d[i - 1][n]
                                   THEN d[i - 1][out[i]] + 1 ELSE d[i - 1][n]]
  BY <1>1 DEF DepthRun
<1>. DEFINE Upto(i) ==
       /\ d[i] \in [Ids -> Nat]
       /\ \A n \in Ids : \A j \in 1..i : out[j] \in dependencies(n) => d[i][out[j]] + 1 <= d[i][n]
       /\ \A n \in Ids : d[i][n] > 0 =>
            \E j \in 1..i : out[j] \in dependencies(n) /\ d[i][out[j]] + 1 = d[i][n]
<1>4. Upto(0)
  <2>0. 0 \in 0..Len(out)
    BY <1>2
  <2>1. d[0] = [n \in Ids |-> 0]
    BY <1>3, <2>0
  <2>. QED  BY <2>1
<1>5. ASSUME NEW i \in 1..Len(out), Upto(i - 1) PROVE Upto(i)
  <2>. DEFINE o == d[i - 1]
              x == out[i]
  <2>1. /\ i \in 0..Len(out) /\ i # 0 /\ x \in Ids /\ i - 1 \in Nat
        /\ \A j \in 1..i : j \in 1..Len(out) /\ (j # i => j \in 1..(i - 1))
        /\ \A j \in 1..(i - 1) : j \in 1..i
    BY <1>2
  <2>2. d[i] = [n \in Ids |-> IF x \in dependencies(n) /\ o[x] + 1 > o[n] THEN o[x] + 1 ELSE o[n]]
    BY <1>3, <2>1
  <2>3. /\ o \in [Ids -> Nat]
        /\ \A n \in Ids : \A j \in 1..(i - 1) : out[j] \in dependencies(n) => o[out[j]] + 1 <= o[n]
        /\ \A n \in Ids : o[n] > 0 =>
             \E j \in 1..(i - 1) : out[j] \in dependencies(n) /\ o[out[j]] + 1 = o[n]
    BY <1>5
  <2>. HIDE DEF o
  <2>4. \A j \in 1..i : x \notin dependencies(out[j])
    BY <1>2, <2>1
  <2>. HIDE DEF x
  <2>5. \A j \in 1..i : out[j] \in Ids /\ d[i][out[j]] = o[out[j]] /\ o[out[j]] \in Nat
    BY <1>2, <2>1, <2>2, <2>3, <2>4
  <2>6. d[i] \in [Ids -> Nat]
    BY <2>1, <2>2, <2>3
  <2>7. ASSUME NEW n \in Ids
        PROVE  /\ d[i][n] \in Nat /\ o[n] \in Nat /\ o[x] \in Nat
               /\ d[i][n] = IF x \in dependencies(n) /\ o[x] + 1 > o[n] THEN o[x] + 1 ELSE o[n]
    BY <2>1, <2>2, <2>3, <2>6
  <2>8. ASSUME NEW n \in Ids, NEW j \in 1..i, out[j] \in dependencies(n)
        PROVE  d[i][out[j]] + 1 <= d[i][n]
    <3>1. CASE j = i
      <4>1. x \in dependencies(n) /\ d[i][out[j]] = o[x]
        BY <2>5, <2>8, <3>1 DEF x
      <4>. QED  BY <2>7, <4>1
    <3>2. CASE j # i
      <4>1. o[out[j]] + 1 <= o[n]
        BY <2>1, <2>3, <2>8, <3>2
      <4>. QED  BY <2>5, <2>7, <4>1
    <3>. QED  BY <3>1, <3>2
  <2>9. ASSUME NEW n \in Ids, d[i][n] > 0
        PROVE  \E j \in 1..i : out[j] \in dependencies(n) /\ d[i][out[j]] + 1 = d[i][n]
    <3>1. CASE x \in dependencies(n) /\ o[x] + 1 > o[n]
      <4>1. i \in 1..i /\ d[i][out[i]] = o[x] /\ out[i] = x
        BY <2>1, <2>5 DEF x
      <4>2. d[i][n] = o[x] + 1
        BY <2>7, <3>1
      <4>. QED  BY <3>1, <4>1, <4>2
    <3>2. CASE ~(x \in dependencies(n) /\ o[x] + 1 > o[n])
      <4>1. d[i][n] = o[n]
        BY <2>7, <3>2
      <4>2. PICK j \in 1..(i - 1) : out[j] \in dependencies(n) /\ o[out[j]] + 1 = o[n]
        BY <2>3, <2>9, <4>1
      <4>. QED  BY <2>1, <2>5, <4>1, <4>2
    <3>. QED  BY <3>1, <3>2
  <2>. QED  BY <2>6, <2>8, <2>9
<1>. HIDE DEF Upto
<1>6. Upto(Len(out))
  <2>. DEFINE Bad == {i \in 0..Len(out) : ~Upto(i)}
  <2>. SUFFICES ASSUME Bad # {} PROVE FALSE
    BY <1>2
  <2>1. PICK i \in Bad : \A j \in Bad : i <= j
    <3>1. Bad \in SUBSET Nat
      OBVIOUS
    <3>. HIDE DEF Bad
    <3>. QED  BY <3>1, LeastOf
  <2>2. i \in 1..Len(out) /\ i - 1 \in 0..Len(out)
    BY <1>2, <1>4, <2>1
  <2>3. Upto(i - 1)
    BY <2>1, <2>2
  <2>. QED  BY <1>5, <2>1, <2>2, <2>3
<1>7. \A n \in Ids : \A s \in dependencies(n) : \E j \in 1..Len(out) : out[j] = s
  BY SoundListing DEF Ordered
<1>. QED  BY <1>1, <1>6, <1>7 DEF Layered, Upto

------------------------------------------------------------------------------
(***************************************************************************)
(* Chains.  The lengths are the depths and one, and the step before is one *)
(* of those that the depth was taken from.                                 *)
(***************************************************************************)
Linked(C) ==
  \A n \in Ids : /\ C[n].len = depth[n] + 1
                 /\ depth[n] > 0 => /\ Head(C[n].prev) \in dependencies(n)
                                    /\ depth[Head(C[n].prev)] + 1 = depth[n]

LEMMA ChainsAreLinked ==
  ASSUME Ordered
  PROVE  Linked(Chains)
<1>1. PICK d : DepthRun(d) /\ depth = d[Len(out)]
  BY DepthIsRun
<1>2. PICK c : ChainRun(c) /\ Chains = c[Len(out)]
  BY ChainsIsRun
<1>3. /\ Len(out) \in Nat /\ \A i \in 1..Len(out) : out[i] \in Ids
      /\ \A i, j \in 1..Len(out) : out[i] \in dependencies(out[j]) => i < j
  BY DEF Ordered
<1>4. \A i \in 0..Len(out) :
        d[i] = IF i = 0 THEN [n \in Ids |-> 0]
               ELSE [n \in Ids |-> IF /\ out[i] \in dependencies(n)
                                     /\ d[i - 1][out[i]] + 1 > d[i - 1][n]
                                   THEN d[i - 1][out[i]] + 1 ELSE d[i - 1][n]]
  BY <1>1 DEF DepthRun
<1>5. \A i \in 0..Len(out) :
        c[i] = IF i = 0 THEN [n \in Ids |-> [len |-> 1, prev |-> <<>>]]
               ELSE [n \in Ids |-> IF /\ out[i] \in dependencies(n)
                                     /\ c[i - 1][out[i]].len + 1 > c[i - 1][n].len
                                   THEN [len |-> c[i - 1][out[i]].len + 1, prev |-> <<out[i]>>]
                                   ELSE c[i - 1][n]]
  BY <1>2 DEF ChainRun
<1>. DEFINE Upto(i) ==
       \A n \in Ids :
         /\ d[i][n] \in Nat /\ c[i][n].len = d[i][n] + 1
         /\ d[i][n] > 0 => \E j \in 1..i : /\ Head(c[i][n].prev) = out[j]
                                           /\ out[j] \in dependencies(n)
                                           /\ d[i][out[j]] + 1 = d[i][n]
<1>6. Upto(0)
  <2>0. 0 \in 0..Len(out)
    BY <1>3
  <2>1. d[0] = [n \in Ids |-> 0]
    BY <1>4, <2>0
  <2>2. c[0] = [n \in Ids |-> [len |-> 1, prev |-> <<>>]]
    BY <1>5, <2>0
  <2>. QED  BY <2>1, <2>2
<1>7. ASSUME NEW i \in 1..Len(out), Upto(i - 1) PROVE Upto(i)
  <2>. DEFINE o == d[i - 1]
              e == c[i - 1]
              x == out[i]
              link == [len |-> e[x].len + 1, prev |-> <<x>>]
  <2>1. /\ i \in 0..Len(out) /\ i # 0 /\ x \in Ids /\ i - 1 \in Nat
        /\ \A j \in 1..i : j \in 1..Len(out) /\ (j # i => j \in 1..(i - 1))
        /\ \A j \in 1..(i - 1) : j \in 1..i
    BY <1>3
  <2>2. d[i] = [n \in Ids |-> IF x \in dependencies(n) /\ o[x] + 1 > o[n] THEN o[x] + 1 ELSE o[n]]
    BY <1>4, <2>1
  <2>3. c[i] = [n \in Ids |-> IF x \in dependencies(n) /\ e[x].len + 1 > e[n].len THEN link ELSE e[n]]
    BY <1>5, <2>1
  <2>4. /\ \A n \in Ids : o[n] \in Nat /\ e[n].len = o[n] + 1
        /\ \A n \in Ids : o[n] > 0 => \E j \in 1..(i - 1) : /\ Head(e[n].prev) = out[j]
                                                           /\ out[j] \in dependencies(n)
                                                           /\ o[out[j]] + 1 = o[n]
    BY <1>7
  <2>5. link.len = e[x].len + 1 /\ Head(link.prev) = x
    OBVIOUS
  <2>. HIDE DEF o, e, link
  <2>6. \A j \in 1..i : x \notin dependencies(out[j])
    BY <1>3, <2>1
  <2>. HIDE DEF x
  <2>7. \A j \in 1..i : out[j] \in Ids /\ d[i][out[j]] = o[out[j]]
    BY <1>3, <2>1, <2>2, <2>6
  <2>8. ASSUME NEW n \in Ids
        PROVE  /\ d[i][n] \in Nat /\ c[i][n].len = d[i][n] + 1
               /\ d[i][n] > 0 => \E j \in 1..i : /\ Head(c[i][n].prev) = out[j]
                                                 /\ out[j] \in dependencies(n)
                                                 /\ d[i][out[j]] + 1 = d[i][n]
    <3>0. o[n] \in Nat /\ o[x] \in Nat /\ e[n].len = o[n] + 1 /\ e[x].len = o[x] + 1
      BY <2>1, <2>4
    <3>1. CASE x \in dependencies(n) /\ o[x] + 1 > o[n]
      <4>1. e[x].len + 1 > e[n].len
        BY <3>0, <3>1
      <4>2. d[i][n] = o[x] + 1 /\ c[i][n] = link
        BY <2>2, <2>3, <3>1, <4>1
      <4>3. i \in 1..i /\ out[i] = x /\ d[i][out[i]] = o[x]
        BY <2>1, <2>7 DEF x
      <4>. QED  BY <2>5, <3>0, <3>1, <4>2, <4>3
    <3>2. CASE ~(x \in dependencies(n) /\ o[x] + 1 > o[n])
      <4>1. ~(x \in dependencies(n) /\ e[x].len + 1 > e[n].len)
        BY <3>0, <3>2
      <4>2. d[i][n] = o[n] /\ c[i][n] = e[n]
        BY <2>2, <2>3, <3>2, <4>1
      <4>3. o[n] > 0 => \E j \in 1..i : /\ Head(c[i][n].prev) = out[j]
                                        /\ out[j] \in dependencies(n)
                                        /\ d[i][out[j]] + 1 = d[i][n]
        BY <2>1, <2>4, <2>7, <4>2
      <4>. QED  BY <3>0, <4>2, <4>3
    <3>. QED  BY <3>1, <3>2
  <2>. QED  BY <2>8
<1>. HIDE DEF Upto
<1>8. Upto(Len(out))
  <2>. DEFINE Bad == {i \in 0..Len(out) : ~Upto(i)}
  <2>. SUFFICES ASSUME Bad # {} PROVE FALSE
    BY <1>3
  <2>1. PICK i \in Bad : \A j \in Bad : i <= j
    <3>1. Bad \in SUBSET Nat
      OBVIOUS
    <3>. HIDE DEF Bad
    <3>. QED  BY <3>1, LeastOf
  <2>2. i \in 1..Len(out) /\ i - 1 \in 0..Len(out)
    BY <1>3, <1>6, <2>1
  <2>3. Upto(i - 1)
    BY <2>1, <2>2
  <2>. QED  BY <1>7, <2>1, <2>2, <2>3
<1>. QED  BY <1>1, <1>2, <1>8 DEF Linked, Upto

(* The step that a critical path ends at: of the deepest, the last by name. *)
LEMMA DeepestStep ==
  ASSUME Ordered, Ids # {}
  PROVE  /\ Longest(Chains) \in Ids
         /\ \A n \in Ids : depth[n] <= depth[Longest(Chains)]
         /\ Max({depth[n] : n \in Ids}) = depth[Longest(Chains)]
<1>. DEFINE c == Chains
            A == {depth[n] : n \in Ids}
            m == Max(A)
            B == {n \in Ids : depth[n] = m}
            Greatest(t) == \A n \in Ids : c[n].len < c[t].len \/ (c[n].len = c[t].len /\ n <= t)
<1>1. /\ \A n \in Ids : depth[n] \in Nat /\ c[n].len = depth[n] + 1
      /\ IsFiniteSet(Ids) /\ Ids \subseteq Nat
  BY DepthIsLayered, ChainsAreLinked, Listing DEF Layered, Linked, Ordered, Sound
<1>. HIDE DEF c
<1>2. A \in SUBSET Int /\ IsFiniteSet(A) /\ A # {}
  <2>. DEFINE f == [n \in Ids |-> depth[n]]
  <2>1. f \in Surjection(Ids, A)
    BY DEF Surjection
  <2>. HIDE DEF f
  <2>2. IsFiniteSet(A)
    <3>. HIDE DEF A
    <3>. QED  BY <1>1, <2>1, FS_Surjection
  <2>. QED  BY <1>1, <2>2
<1>3. m \in A /\ \A y \in A : y <= m
  <2>. HIDE DEF A
  <2>. QED  BY <1>2, GreatestOf
<1>4. B \in SUBSET Int /\ IsFiniteSet(B) /\ B # {}
  <2>1. B \in SUBSET Ids /\ B # {}
    BY <1>3
  <2>2. Ids \subseteq Nat /\ IsFiniteSet(Ids)
    BY <1>1
  <2>. HIDE DEF B
  <2>3. IsFiniteSet(B)
    BY <2>1, <2>2, FS_Subset
  <2>. QED  BY <2>1, <2>2, <2>3
<1>5. PICK t \in B : \A y \in B : y <= t
  <2>. HIDE DEF B
  <2>. QED  BY <1>4, GreatestOf
<1>6. t \in Ids /\ Greatest(t)
  <2>1. t \in Ids /\ depth[t] = m /\ m \in Nat
    BY <1>1, <1>5
  <2>. HIDE DEF m
  <2>2. ASSUME NEW n \in Ids PROVE c[n].len < c[t].len \/ (c[n].len = c[t].len /\ n <= t)
    <3>0. /\ depth[n] \in Nat /\ c[n].len = depth[n] + 1
          /\ depth[t] \in Nat /\ c[t].len = depth[t] + 1
      BY <1>1, <2>1
    <3>1. depth[n] <= m
      BY <1>3
    <3>2. CASE depth[n] = m
      <4>1. n <= t
        BY <1>5, <3>2
      <4>. QED  BY <2>1, <3>0, <3>2, <4>1
    <3>3. CASE depth[n] # m
      <4>1. depth[n] + 1 < depth[t] + 1
        BY <2>1, <3>0, <3>1, <3>3
      <4>. QED  BY <3>0, <4>1
    <3>. QED  BY <3>2, <3>3
  <2>. QED  BY <2>1, <2>2
<1>7. Longest(c) \in Ids /\ Greatest(Longest(c))
  BY <1>6 DEF Longest
<1>. DEFINE l == Longest(c)
<1>8. ASSUME NEW n \in Ids PROVE depth[n] <= depth[l]
  <2>1. /\ depth[n] \in Nat /\ c[n].len = depth[n] + 1
        /\ depth[l] \in Nat /\ c[l].len = depth[l] + 1
    BY <1>1, <1>7
  <2>2. c[n].len <= c[l].len
    BY <1>7, <2>1
  <2>. QED  BY <2>1, <2>2
<1>9. m = depth[l]
  <2>1. PICK n \in Ids : m = depth[n]
    BY <1>3
  <2>2. depth[l] <= m /\ m <= depth[l]
    BY <1>3, <1>7, <1>8, <2>1
  <2>3. depth[l] \in Nat /\ m \in Nat
    BY <1>1, <1>7, <2>1
  <2>. HIDE DEF m, l
  <2>. QED  BY <2>2, <2>3
<1>. QED  BY <1>7, <1>8, <1>9 DEF c

(* Back along prev from the end of a chain of N + 1 steps. *)
LEMMA BackAlong ==
  ASSUME Ordered, NEW C, Linked(C), NEW N \in Nat, NEW t \in Ids, depth[t] = N, NEW h,
         h[0] = t,
         \A k \in 1..N : (h[k - 1] \in Ids /\ depth[h[k - 1]] = N - (k - 1))
                           => h[k] = Head(C[h[k - 1]].prev)
  PROVE  /\ \A k \in 0..N : h[k] \in Ids /\ depth[h[k]] = N - k
         /\ \A k \in 1..N : h[k] \in dependencies(h[k - 1])
<1>1. /\ \A n \in Ids : depth[n] \in Nat
      /\ \A n \in Ids : dependencies(n) \subseteq Ids
  BY DepthIsLayered, SoundListing DEF Layered, Ordered
<1>2. ASSUME NEW k \in 1..N, h[k - 1] \in Ids /\ depth[h[k - 1]] = N - (k - 1)
      PROVE  h[k] \in Ids /\ depth[h[k]] = N - k /\ h[k] \in dependencies(h[k - 1])
  <2>1. h[k] = Head(C[h[k - 1]].prev) /\ depth[h[k - 1]] > 0
    BY <1>2
  <2>2. h[k] \in dependencies(h[k - 1]) /\ depth[h[k]] + 1 = depth[h[k - 1]]
    BY <1>2, <2>1 DEF Linked
  <2>3. h[k] \in Ids /\ depth[h[k]] \in Nat
    BY <1>1, <1>2, <2>2
  <2>. QED  BY <1>2, <2>2, <2>3
<1>. DEFINE At(k) == h[k] \in Ids /\ depth[h[k]] = N - k
            Bad == {k \in 0..N : ~At(k)}
<1>3. Bad = {}
  <2>. SUFFICES ASSUME Bad # {} PROVE FALSE
    OBVIOUS
  <2>1. PICK k \in Bad : \A j \in Bad : k <= j
    <3>1. Bad \in SUBSET Nat
      OBVIOUS
    <3>. HIDE DEF Bad
    <3>. QED  BY <3>1, LeastOf
  <2>2. At(0)
    OBVIOUS
  <2>3. k \in 1..N /\ k - 1 \in 0..N
    BY <2>1, <2>2
  <2>4. At(k - 1)
    BY <2>1, <2>3
  <2>. QED  BY <1>2, <2>1, <2>3, <2>4
<1>4. \A k \in 0..N : At(k)
  BY <1>3
<1>. HIDE DEF Bad
<1>5. ASSUME NEW k \in 1..N PROVE h[k] \in dependencies(h[k - 1])
  <2>1. At(k - 1)
    BY <1>4
  <2>. QED  BY <1>2, <2>1
<1>. QED  BY <1>4, <1>5

LEMMA PathIsSound ==
  ASSUME Ordered
  PROVE  PathIsChain /\ Len(parallel_waves) <= Len(graph)
<1>. DEFINE long == IF Ids = {} THEN 0 ELSE Chains[Longest(Chains)].len
            BackRun(b) == b = [i \in 1..long |-> IF i = 1 THEN Longest(Chains)
                                                 ELSE Head(Chains[b[i - 1]].prev)]
            back == CHOOSE b : BackRun(b)
            path == [i \in 1..long |-> back[long + 1 - i]]
            most == IF Ids = {} THEN 0 ELSE Max({depth[n] : n \in Ids}) + 1
<1>1. critical_path = path /\ parallel_waves = [k \in 1..most |-> {n \in Ids : depth[n] = k - 1}]
  BY DEF critical_path, parallel_waves
<1>2. /\ long = most /\ long \in Nat /\ (Ids = {} => long = 0)
      /\ Ids # {} => long = Chains[Longest(Chains)].len
  <2>1. CASE Ids = {}
    BY <2>1
  <2>2. CASE Ids # {}
    <3>1. Longest(Chains) \in Ids /\ Max({depth[n] : n \in Ids}) = depth[Longest(Chains)]
      BY <2>2, DeepestStep
    <3>2. depth[Longest(Chains)] \in Nat
      BY <3>1, DepthIsLayered DEF Layered
    <3>3. Chains[Longest(Chains)].len = depth[Longest(Chains)] + 1
      BY <3>1, ChainsAreLinked DEF Linked
    <3>. QED  BY <2>2, <3>1, <3>2, <3>3
  <2>. QED  BY <2>1, <2>2
<1>. HIDE DEF most, long
<1>3. Len(parallel_waves) = long /\ Len(critical_path) = long /\ DOMAIN path = 1..long
  BY <1>1, <1>2
<1>4. CASE long = 0
  BY <1>3, <1>4, SoundListing DEF PathIsChain, Ordered
<1>5. CASE long # 0
  <2>. DEFINE N == long - 1
              t == Longest(Chains)
  <2>1. Ids # {} /\ N \in Nat
    <3>1. Ids # {}
      BY <1>2, <1>5
    <3>. QED  BY <1>2, <1>5, <3>1
  <2>2. t \in Ids /\ depth[t] = N
    <3>1. t \in Ids /\ Chains[t].len = depth[t] + 1 /\ depth[t] \in Nat
      BY <2>1, DeepestStep, ChainsAreLinked, DepthIsLayered DEF Linked, Layered
    <3>2. long = Chains[t].len
      BY <1>2, <2>1
    <3>. HIDE DEF t
    <3>. QED  BY <3>1, <3>2
  <2>3. BackRun(back)
    <3>. DEFINE next == [p \in (1..N) \X Ids |-> IF depth[p[2]] > 0 THEN Head(Chains[p[2]].prev) ELSE p[2]]
    <3>1. next \in [(1..N) \X Ids -> Ids]
      <4>1. \A v \in Ids : (IF depth[v] > 0 THEN Head(Chains[v].prev) ELSE v) \in Ids
        BY ChainsAreLinked, SoundListing DEF Linked, Ordered
      <4>. QED  BY <4>1
    <3>2. PICK h : h \in [0..N -> Ids] /\ Iterates(h, next, t, N)
      <4>. HIDE DEF next, N, t
      <4>. QED  BY <2>1, <2>2, <3>1, IterationExists
    <3>3. \A k \in 0..N : h[k] = IF k = 0 THEN t ELSE next[<<k, h[k - 1]>>]
      BY <3>2 DEF Iterates
    <3>4. h[0] = t
      <4>1. 0 \in 0..N
        BY <2>1
      <4>. QED  BY <3>3, <4>1
    <3>5. ASSUME NEW k \in 1..N, h[k - 1] \in Ids /\ depth[h[k - 1]] = N - (k - 1)
          PROVE  h[k] = Head(Chains[h[k - 1]].prev)
      <4>1. k \in 0..N /\ k # 0 /\ depth[h[k - 1]] > 0
        BY <2>1, <3>5
      <4>2. h[k] = next[<<k, h[k - 1]>>]
        BY <3>3, <4>1
      <4>. HIDE DEF N
      <4>. QED  BY <3>5, <4>1, <4>2
    <3>. HIDE DEF next, N, t
    <3>6. \A k \in 0..N : h[k] \in Ids /\ depth[h[k]] = N - k
      <4>1. \A k \in 1..N : (h[k - 1] \in Ids /\ depth[h[k - 1]] = N - (k - 1))
                             => h[k] = Head(Chains[h[k - 1]].prev)
        BY <3>5
      <4>2. Linked(Chains)
        BY ChainsAreLinked
      <4>. QED  BY <2>1, <2>2, <3>4, <4>1, <4>2, BackAlong
    <3>. DEFINE b == [i \in 1..long |-> h[i - 1]]
    <3>7. ASSUME NEW i \in 1..long
          PROVE  h[i - 1] = IF i = 1 THEN t ELSE Head(Chains[b[i - 1]].prev)
      <4>1. CASE i = 1
        BY <3>4, <4>1
      <4>2. CASE i # 1
        <5>0. i \in Nat /\ i > 1 /\ i <= long
          BY <1>2, <3>7, <4>2
        <5>1. /\ i - 1 \in 1..N /\ i - 1 \in 1..long /\ (i - 1) - 1 \in 0..N
          BY <1>2, <5>0 DEF N
        <5>2. h[(i - 1) - 1] \in Ids /\ depth[h[(i - 1) - 1]] = N - ((i - 1) - 1)
          BY <3>6, <5>1
        <5>3. h[i - 1] = Head(Chains[h[(i - 1) - 1]].prev)
          BY <3>5, <5>1, <5>2
        <5>. QED  BY <4>2, <5>1, <5>3
      <4>. QED  BY <4>1, <4>2
    <3>8. BackRun(b)
      BY <3>7 DEF t
    <3>. HIDE DEF b
    <3>. QED  BY <3>8
  <2>. DEFINE g == [k \in 0..N |-> back[k + 1]]
  <2>. HIDE DEF back
  <2>4. \A i \in 1..long : back[i] = IF i = 1 THEN t ELSE Head(Chains[back[i - 1]].prev)
    BY <2>3
  <2>5. g[0] = t /\ \A k \in 1..N : g[k] = Head(Chains[g[k - 1]].prev)
    <3>1. 0 \in 0..N /\ 1 \in 1..long /\ 0 + 1 = 1
      BY <1>2, <2>1
    <3>2. g[0] = t
      BY <2>4, <3>1
    <3>3. ASSUME NEW k \in 1..N PROVE g[k] = Head(Chains[g[k - 1]].prev)
      <4>1. /\ k + 1 \in 1..long /\ k + 1 # 1 /\ k \in 0..N /\ k - 1 \in 0..N
            /\ (k + 1) - 1 = k /\ (k - 1) + 1 = k
        BY <1>2, <2>1
      <4>2. g[k] = back[k + 1] /\ g[k - 1] = back[k]
        BY <4>1
      <4>. HIDE DEF long, g, N, t
      <4>. QED  BY <2>4, <4>1, <4>2
    <3>. QED  BY <3>2, <3>3
  <2>. HIDE DEF N, t, g
  <2>6. /\ \A k \in 0..N : g[k] \in Ids /\ depth[g[k]] = N - k
        /\ \A k \in 1..N : g[k] \in dependencies(g[k - 1])
    <3>1. \A k \in 1..N : (g[k - 1] \in Ids /\ depth[g[k - 1]] = N - (k - 1))
                           => g[k] = Head(Chains[g[k - 1]].prev)
      BY <2>5
    <3>2. Linked(Chains)
      BY ChainsAreLinked
    <3>. QED  BY <2>1, <2>2, <2>5, <3>1, <3>2, BackAlong
  <2>. HIDE DEF long
  <2>7. ASSUME NEW i \in 1..long
        PROVE  path[i] = g[long - i] /\ long - i \in 0..N /\ path[i] \in Ids /\ depth[path[i]] = N - (long - i)
    <3>1. long - i \in 0..N /\ (long - i) + 1 = long + 1 - i
      BY <1>2 DEF N
    <3>2. path[i] = back[long + 1 - i] /\ g[long - i] = back[(long - i) + 1]
      BY <3>1 DEF g
    <3>3. path[i] = g[long - i]
      BY <3>1, <3>2
    <3>. QED  BY <2>6, <3>1, <3>3
  <2>8. ASSUME NEW i \in 2..long PROVE path[i - 1] \in dependencies(path[i])
    <3>1. i \in 1..long /\ i - 1 \in 1..long /\ long - (i - 1) \in 1..N /\ (long - (i - 1)) - 1 = long - i
      BY <1>2 DEF N
    <3>2. path[i] = g[long - i] /\ path[i - 1] = g[long - (i - 1)]
      BY <2>7, <3>1
    <3>. QED  BY <2>6, <3>1, <3>2
  <2>9. long <= Len(graph)
    <3>1. path \in [1..long -> Ids]
      BY <2>7
    <3>2. \A i, j \in 1..long : path[i] = path[j] => i = j
      <4>. SUFFICES ASSUME NEW i \in 1..long, NEW j \in 1..long, path[i] = path[j] PROVE i = j
        OBVIOUS
      <4>1. N - (long - i) = N - (long - j)
        BY <2>7
      <4>. QED  BY <1>2, <2>1, <4>1
    <3>3. path \in Injection(1..long, Ids)
      BY <3>1, <3>2 DEF Injection, IsInjective
    <3>4. Cardinality(1..long) = long /\ IsFiniteSet(Ids) /\ Cardinality(Ids) = Len(graph)
      BY <1>2, OnesUpTo, Listing, SoundListing DEF Ordered, Sound
    <3>. HIDE DEF path
    <3>. QED  BY <3>3, <3>4, FS_Injection
  <2>. HIDE DEF path
  <2>. QED  BY <1>1, <1>3, <2>8, <2>9 DEF PathIsChain
<1>. QED  BY <1>4, <1>5

(* Behind a chain of k are the steps at depth k or deeper. *)
LEMMA BehindIsDeep ==
  ASSUME Ordered, NEW k \in Nat
  PROVE  Behind[k] = {n \in Ids : depth[n] >= k}
<1>. DEFINE Follows(S) == {n \in Ids : dependencies(n) \cap S # {}}
            Run(f) == f = [j \in Nat |-> IF j = 0 THEN Ids ELSE Follows(f[j - 1])]
            Deep(j) == {n \in Ids : depth[n] >= j}
            w == [j \in Nat |-> Deep(j)]
<1>1. /\ \A n \in Ids : depth[n] \in Nat /\ dependencies(n) \subseteq Ids
      /\ \A n \in Ids : \A s \in dependencies(n) : depth[s] + 1 <= depth[n]
      /\ \A n \in Ids : depth[n] > 0 => \E s \in dependencies(n) : depth[s] + 1 = depth[n]
  BY DepthIsLayered, SoundListing DEF Layered, Ordered
<1>2. Deep(0) = Ids
  BY <1>1
<1>3. ASSUME NEW j \in Nat, j # 0 PROVE Follows(Deep(j - 1)) = Deep(j)
  <2>1. ASSUME NEW n \in Follows(Deep(j - 1)) PROVE n \in Deep(j)
    <3>1. PICK s \in dependencies(n) : s \in Ids /\ depth[s] >= j - 1
      OBVIOUS
    <3>2. n \in Ids /\ depth[s] + 1 <= depth[n] /\ depth[s] \in Nat /\ depth[n] \in Nat
      BY <1>1, <3>1
    <3>3. depth[n] >= j
      BY <1>3, <3>1, <3>2
    <3>. QED  BY <3>2, <3>3
  <2>2. ASSUME NEW n \in Deep(j) PROVE n \in Follows(Deep(j - 1))
    <3>1. n \in Ids /\ depth[n] >= j /\ depth[n] \in Nat /\ depth[n] > 0
      BY <1>1, <1>3
    <3>2. PICK s \in dependencies(n) : depth[s] + 1 = depth[n]
      BY <1>1, <3>1
    <3>3. s \in Ids /\ depth[s] \in Nat
      BY <1>1, <3>1, <3>2
    <3>4. depth[s] >= j - 1
      BY <1>3, <3>1, <3>2, <3>3
    <3>. QED  BY <3>1, <3>2, <3>3, <3>4
  <2>. QED  BY <2>1, <2>2
<1>4. Run(w)
  <2>1. \A j \in Nat : Deep(j) = IF j = 0 THEN Ids ELSE Follows(w[j - 1])
    <3>1. \A j \in Nat : j # 0 => w[j - 1] = Deep(j - 1)
      OBVIOUS
    <3>. HIDE DEF Deep, Follows, w
    <3>. QED  BY <1>2, <1>3, <3>1
  <2>. HIDE DEF Deep, Follows
  <2>. QED  BY <2>1
<1>5. Behind = CHOOSE f : Run(f)
  BY DEF Behind
<1>6. Run(Behind)
  <2>. HIDE DEF Run, w
  <2>. QED  BY <1>4, <1>5
<1>7. \A j \in Nat : Behind[j] = IF j = 0 THEN Ids ELSE Follows(Behind[j - 1])
  <2>. HIDE DEF Follows
  <2>. QED  BY <1>6
<1>. HIDE DEF Run, Follows, w, Deep
<1>. DEFINE Bad == {j \in Nat : Behind[j] # Deep(j)}
<1>8. Bad = {}
  <2>. SUFFICES ASSUME Bad # {} PROVE FALSE
    OBVIOUS
  <2>1. PICK j \in Bad : \A i \in Bad : j <= i
    <3>1. Bad \in SUBSET Nat
      OBVIOUS
    <3>. HIDE DEF Bad
    <3>. QED  BY <3>1, LeastOf
  <2>2. j # 0
    BY <1>2, <1>7, <2>1
  <2>3. j - 1 \in Nat /\ Behind[j - 1] = Deep(j - 1)
    BY <2>1, <2>2
  <2>. QED  BY <1>3, <1>7, <2>1, <2>2, <2>3
<1>. QED  BY <1>8 DEF Deep

LEMMA WavesAreSound ==
  ASSUME Ordered
  PROVE  /\ WavesAreDepths
         /\ Len(parallel_waves) \in Nat /\ DOMAIN parallel_waves = 1..Len(parallel_waves)
         /\ Ids # {} => Len(parallel_waves) >= 1
         /\ \A k \in DOMAIN parallel_waves : parallel_waves[k] = {n \in Ids : depth[n] = k - 1}
         /\ \A n \in Ids : depth[n] \in Nat /\ depth[n] < Len(parallel_waves)
<1>. DEFINE most == IF Ids = {} THEN 0 ELSE Max({depth[n] : n \in Ids}) + 1
            Wave(k) == {n \in Ids : depth[n] = k - 1}
<1>1. parallel_waves = [k \in 1..most |-> Wave(k)]
  BY DEF parallel_waves
<1>2. \A n \in Ids : depth[n] \in Nat
  BY DepthIsLayered DEF Layered
<1>3. most \in Nat /\ (Ids # {} => most >= 1) /\ \A n \in Ids : depth[n] < most
  <2>1. CASE Ids = {}
    BY <2>1
  <2>2. CASE Ids # {}
    <3>. DEFINE l == Longest(Chains)
    <3>1. l \in Ids /\ (\A n \in Ids : depth[n] <= depth[l]) /\ most = depth[l] + 1
      BY <2>2, DeepestStep
    <3>. HIDE DEF most, l
    <3>. QED  BY <1>2, <3>1
  <2>. QED  BY <2>1, <2>2
<1>. HIDE DEF most
<1>4. Len(parallel_waves) = most /\ DOMAIN parallel_waves = 1..most
  BY <1>1, <1>3
<1>5. \A k \in 1..most : parallel_waves[k] = Wave(k)
  BY <1>1
<1>6. ASSUME NEW k \in 1..most PROVE Wave(k) = Behind[k - 1] \ Behind[k]
  <2>1. Behind[k - 1] = {n \in Ids : depth[n] >= k - 1} /\ Behind[k] = {n \in Ids : depth[n] >= k}
    <3>1. k \in Nat /\ k - 1 \in Nat
      BY <1>3
    <3>. QED  BY <3>1, BehindIsDeep
  <2>2. \A n \in Ids : depth[n] = k - 1 <=> depth[n] >= k - 1 /\ ~(depth[n] >= k)
    BY <1>2
  <2>. QED  BY <2>1, <2>2
<1>7. WavesAreDepths
  BY <1>4, <1>5, <1>6 DEF WavesAreDepths
<1>. QED  BY <1>2, <1>3, <1>4, <1>5, <1>7

------------------------------------------------------------------------------
(***************************************************************************)
(* Neighbours, round by round: whoever is met from here going one way      *)
(* meets this step in the same round going the other.                      *)
(***************************************************************************)
Rounds(r, id, near) ==
  r = [k \in 0..Len(graph) |->
         IF k = 0 THEN {id} ELSE r[k - 1] \cup UNION {near[n] : n \in r[k - 1]}]

LEMMA RoundsExist ==
  ASSUME GraphOK, NEW near \in [Ids -> SUBSET Ids], NEW id \in Ids
  PROVE  \E r : /\ r \in [0..Len(graph) -> SUBSET Ids] /\ Rounds(r, id, near)
                /\ transitive(id, near) = r[Len(graph)] \ {id}
<1>. DEFINE V == SUBSET Ids
            Met(v) == v \cup UNION {near[n] : n \in v}
            next == [p \in (1..Len(graph)) \X V |-> Met(p[2])]
            Run(r) == r \in [0..Len(graph) -> V] /\ Rounds(r, id, near)
<1>1. Len(graph) \in Nat
  BY Listing
<1>2. \A v \in V : Met(v) \in V
  OBVIOUS
<1>3. next \in [(1..Len(graph)) \X V -> V] /\ {id} \in V
  <2>1. {id} \in V
    OBVIOUS
  <2>. HIDE DEF V, Met
  <2>. QED  BY <1>2, <2>1
<1>. HIDE DEF next
<1>4. PICK h : h \in [0..Len(graph) -> V] /\ Iterates(h, next, {id}, Len(graph))
  <2>. HIDE DEF V
  <2>. QED  BY <1>1, <1>3, IterationExists
<1>5. Rounds(h, id, near)
  <2>1. ASSUME NEW k \in 0..Len(graph) PROVE h[k] = IF k = 0 THEN {id} ELSE Met(h[k - 1])
    <3>1. h[k] = IF k = 0 THEN {id} ELSE next[<<k, h[k - 1]>>]
      BY <1>4 DEF Iterates
    <3>2. CASE k = 0
      BY <3>1, <3>2
    <3>3. CASE k # 0
      <4>1. k \in 1..Len(graph) /\ k - 1 \in 0..Len(graph)
        BY <1>1, <3>3
      <4>2. h[k - 1] \in V
        BY <1>4, <4>1
      <4>. HIDE DEF V, Met
      <4>3. next[<<k, h[k - 1]>>] = Met(h[k - 1])
        BY <4>1, <4>2 DEF next
      <4>. QED  BY <3>1, <3>3, <4>3
    <3>. QED  BY <3>2, <3>3
  <2>2. h = [k \in 0..Len(graph) |-> h[k]]
    BY <1>4
  <2>3. h = [k \in 0..Len(graph) |-> IF k = 0 THEN {id} ELSE Met(h[k - 1])]
    <3>. HIDE DEF Met
    <3>. QED  BY <2>1, <2>2
  <2>. QED  BY <2>3 DEF Rounds
<1>. DEFINE r == CHOOSE q : Rounds(q, id, near)
<1>6. transitive(id, near) = r[Len(graph)] \ {id}
  BY DEF transitive, Rounds
<1>7. Rounds(r, id, near)
  BY <1>5
<1>. HIDE DEF r
<1>8. \A k \in 0..Len(graph) : r[k] = IF k = 0 THEN {id} ELSE Met(r[k - 1])
  BY <1>7 DEF Rounds
<1>. HIDE DEF Met
<1>9. \A k \in 0..Len(graph) : r[k] \in V
  <2>. DEFINE Bad == {k \in 0..Len(graph) : r[k] \notin V}
  <2>. SUFFICES ASSUME Bad # {} PROVE FALSE
    BY <1>1
  <2>1. PICK k \in Bad : \A j \in Bad : k <= j
    <3>1. Bad \in SUBSET Nat
      OBVIOUS
    <3>. HIDE DEF Bad
    <3>. QED  BY <3>1, LeastOf
  <2>2. k # 0
    BY <1>3, <1>8, <2>1
  <2>3. k - 1 \in 0..Len(graph) /\ k - 1 \notin Bad
    BY <1>1, <2>1, <2>2
  <2>. QED  BY <1>2, <1>8, <2>1, <2>2, <2>3
<1>10. r \in [0..Len(graph) -> V]
  <2>1. r = [k \in 0..Len(graph) |-> r[k]]
    BY <1>7 DEF Rounds
  <2>. QED  BY <1>9, <2>1
<1>. QED  BY <1>6, <1>7, <1>10

(* From every member of S, N rounds to what is near. *)
AllRounds(q, S, near, N) ==
  \A x \in S : /\ q[x][0] = {x} /\ \A k \in 0..N : q[x][k] \subseteq S
               /\ \A k \in 1..N : q[x][k] = q[x][k - 1] \cup UNION {near[n] : n \in q[x][k - 1]}

(* Round by round from b is a first step, and from there round by round. *)
StepFirst(q, S, near, N) ==
  \A b \in S : \A k \in 1..N : \A a :
    a \in q[b][k] <=> a \in q[b][k - 1] \/ \E x \in near[b] : a \in q[x][k - 1]

LEMMA FirstStep ==
  ASSUME NEW N \in Nat, NEW near, NEW S, \A x \in S : near[x] \subseteq S, NEW q,
         AllRounds(q, S, near, N)
  PROVE  StepFirst(q, S, near, N)
<1>0. /\ \A x \in S : q[x][0] = {x}
      /\ \A x \in S : \A i \in 1..N : q[x][i] = q[x][i - 1] \cup UNION {near[n] : n \in q[x][i - 1]}
  BY DEF AllRounds
<1>. DEFINE Says(i) == \A x \in S : q[x][i] = q[x][i - 1] \cup UNION {q[y][i - 1] : y \in near[x]}
            Bad == {i \in 1..N : ~Says(i)}
<1>. SUFFICES ASSUME Bad # {} PROVE FALSE
  <2>1. \A k \in 1..N : Says(k)
    OBVIOUS
  <2>. HIDE DEF Bad
  <2>2. ASSUME NEW b \in S, NEW k \in 1..N, NEW a
        PROVE  a \in q[b][k] <=> a \in q[b][k - 1] \/ \E x \in near[b] : a \in q[x][k - 1]
    <3>1. q[b][k] = q[b][k - 1] \cup UNION {q[y][k - 1] : y \in near[b]}
      BY <2>1
    <3>. QED  BY <3>1
  <2>. QED  BY <2>2 DEF StepFirst
<1>1. PICK k \in Bad : \A j \in Bad : k <= j
  <2>1. Bad \in SUBSET Nat
    OBVIOUS
  <2>. HIDE DEF Bad
  <2>. QED  BY <2>1, LeastOf
<1>2. k \in 1..N /\ ~Says(k)
  BY <1>1
<1>3. k # 1
  <2>. SUFFICES ASSUME k = 1 PROVE Says(1)
    BY <1>2
  <2>1. ASSUME NEW b \in S PROVE q[b][1] = q[b][0] \cup UNION {q[x][0] : x \in near[b]}
    <3>1. q[b][1] = q[b][0] \cup UNION {near[n] : n \in q[b][0]}
      BY <1>0, <1>2
    <3>2. UNION {near[n] : n \in q[b][0]} = near[b]
      BY <1>0, <2>1
    <3>3. UNION {q[x][0] : x \in near[b]} = near[b]
      <4>1. \A x \in near[b] : q[x][0] = {x}
        BY <1>0, <2>1
      <4>. QED  BY <4>1
    <3>. QED  BY <3>1, <3>2, <3>3
  <2>. QED  BY <2>1
<1>. DEFINE j == k - 1
<1>4. j \in 1..N /\ j \in Nat /\ j - 1 \in Nat /\ k = j + 1 /\ Says(j)
  BY <1>1, <1>2, <1>3
<1>. HIDE DEF j, Bad
<1>5. ASSUME NEW b \in S PROVE q[b][k] = q[b][j] \cup UNION {q[x][j] : x \in near[b]}
  <2>1. q[b][k] = q[b][j] \cup UNION {near[n] : n \in q[b][j]}
    BY <1>0, <1>2, <1>4, <1>5 DEF j
  <2>2. q[b][j] = q[b][j - 1] \cup UNION {q[x][j - 1] : x \in near[b]}
    BY <1>4, <1>5
  <2>3. q[b][j] = q[b][j - 1] \cup UNION {near[n] : n \in q[b][j - 1]}
    BY <1>0, <1>4, <1>5
  <2>4. \A x \in near[b] : q[x][j] = q[x][j - 1] \cup UNION {near[n] : n \in q[x][j - 1]}
    BY <1>0, <1>4, <1>5
  <2>5. ASSUME NEW y \in q[b][k] PROVE y \in q[b][j] \cup UNION {q[x][j] : x \in near[b]}
    <3>1. CASE y \in q[b][j]
      BY <3>1
    <3>2. CASE y \notin q[b][j]
      <4>1. PICK n \in q[b][j] : y \in near[n]
        BY <2>1, <2>5, <3>2
      <4>2. n \notin q[b][j - 1]
        BY <2>3, <3>2, <4>1
      <4>3. PICK x \in near[b] : n \in q[x][j - 1]
        BY <2>2, <4>1, <4>2
      <4>4. y \in q[x][j]
        BY <2>4, <4>1, <4>3
      <4>. QED  BY <4>3, <4>4
    <3>. QED  BY <3>1, <3>2
  <2>6. ASSUME NEW x \in near[b], NEW y \in q[x][j] PROVE y \in q[b][k]
    <3>1. CASE y \in q[x][j - 1]
      BY <2>1, <2>2, <2>6, <3>1
    <3>2. CASE y \notin q[x][j - 1]
      <4>1. PICK n \in q[x][j - 1] : y \in near[n]
        BY <2>4, <2>6, <3>2
      <4>2. n \in q[b][j]
        BY <2>2, <2>6, <4>1
      <4>. QED  BY <2>1, <4>1, <4>2
    <3>. QED  BY <3>1, <3>2
  <2>. QED  BY <2>1, <2>5, <2>6
<1>. QED  BY <1>2, <1>4, <1>5 DEF j

LEMMA RoundsMirror ==
  ASSUME NEW N \in Nat, NEW S, NEW near, NEW far,
         \A x \in S : near[x] \subseteq S /\ far[x] \subseteq S,
         \A x, y \in S : x \in near[y] <=> y \in far[x],
         NEW p, AllRounds(p, S, near, N), NEW q, AllRounds(q, S, far, N)
  PROVE  \A a, b \in S : b \in p[a][N] <=> a \in q[b][N]
<1>0. /\ \A x \in S : p[x][0] = {x} /\ q[x][0] = {x} /\ \A k \in 0..N : p[x][k] \subseteq S
      /\ \A x \in S : \A k \in 1..N : p[x][k] = p[x][k - 1] \cup UNION {near[n] : n \in p[x][k - 1]}
  BY DEF AllRounds
<1>. DEFINE Says(k) == \A a, b \in S : b \in p[a][k] <=> a \in q[b][k]
            Bad == {k \in 0..N : ~Says(k)}
<1>. SUFFICES ASSUME Bad # {} PROVE FALSE
  <2>1. N \in 0..N
    OBVIOUS
  <2>. QED  BY <2>1
<1>1. PICK k \in Bad : \A j \in Bad : k <= j
  <2>1. Bad \in SUBSET Nat
    OBVIOUS
  <2>. HIDE DEF Bad
  <2>. QED  BY <2>1, LeastOf
<1>2. k \in 0..N /\ ~Says(k)
  BY <1>1
<1>3. Says(0)
  BY <1>0
<1>. DEFINE j == k - 1
<1>4. k \in 1..N /\ j \in 0..N /\ Says(j)
  BY <1>1, <1>2, <1>3
<1>5. \A b \in S : \A a : a \in q[b][k] <=> a \in q[b][j] \/ \E x \in far[b] : a \in q[x][j]
  <2>1. \A b \in S : \A i \in 1..N : \A a :
          a \in q[b][i] <=> a \in q[b][i - 1] \/ \E x \in far[b] : a \in q[x][i - 1]
    <3>1. \A x \in S : far[x] \subseteq S
      OBVIOUS
    <3>2. StepFirst(q, S, far, N)
      BY <3>1, FirstStep
    <3>. QED  BY <3>2 DEF StepFirst
  <2>. QED  BY <1>4, <2>1
<1>6. \A a \in S : p[a][k] = p[a][j] \cup UNION {near[n] : n \in p[a][j]}
  BY <1>0, <1>4
<1>. HIDE DEF j, Bad
<1>7. ASSUME NEW a \in S, NEW b \in S PROVE b \in p[a][k] <=> a \in q[b][k]
  <2>1. b \in p[a][j] <=> a \in q[b][j]
    BY <1>4
  <2>2. ASSUME NEW n \in p[a][j], b \in near[n] PROVE a \in q[b][k]
    <3>1. n \in S
      BY <1>0, <1>4, <1>7
    <3>2. n \in far[b] /\ a \in q[n][j]
      BY <1>4, <2>2, <3>1
    <3>. QED  BY <1>5, <3>2
  <2>3. ASSUME NEW x \in far[b], a \in q[x][j] PROVE b \in p[a][k]
    <3>1. x \in S
      BY <1>7
    <3>2. b \in near[x] /\ x \in p[a][j]
      BY <1>4, <2>3, <3>1
    <3>. QED  BY <1>6, <3>2
  <2>4. b \in p[a][k] <=> b \in p[a][j] \/ \E n \in p[a][j] : b \in near[n]
    BY <1>6
  <2>5. a \in q[b][k] <=> a \in q[b][j] \/ \E x \in far[b] : a \in q[x][j]
    BY <1>5
  <2>. QED  BY <2>1, <2>2, <2>3, <2>4, <2>5
<1>. QED  BY <1>2, <1>7

LEMMA NeighboursAreSound ==
  ASSUME Sound
  PROVE  NeighboursMirror
<1>. DEFINE near == [n \in Ids |-> dependencies(n)]
            far  == [n \in Ids |-> dependents(n)]
            N == Len(graph)
<1>1. /\ GraphOK /\ N \in Nat
      /\ \A n \in Ids : dependencies(n) \subseteq Ids /\ dependents(n) \subseteq Ids
      /\ \A m, n \in Ids : m \in dependents(n) <=> n \in dependencies(m)
      /\ Ids # {} => N # 0
  <2>1. Ids # {} => N # 0
    BY Listing DEF Sound, Ids
  <2>. QED  BY <2>1, Listing, SoundListing DEF Sound
<1>2. near \in [Ids -> SUBSET Ids] /\ far \in [Ids -> SUBSET Ids]
  BY <1>1
<1>3. \A id \in Ids : /\ transitive_dependencies(id) = transitive(id, near)
                      /\ transitive_dependents(id) = transitive(id, far)
  <2>1. ASSUME NEW id \in Ids PROVE Ids \cup {id} = Ids
    OBVIOUS
  <2>. QED  BY <2>1 DEF transitive_dependencies, transitive_dependents
<1>. DEFINE Runs(id, f, r) == /\ r \in [0..N -> SUBSET Ids] /\ Rounds(r, id, f)
                              /\ transitive(id, f) = r[N] \ {id}
            p == [id \in Ids |-> CHOOSE r : Runs(id, near, r)]
            q == [id \in Ids |-> CHOOSE r : Runs(id, far, r)]
<1>. HIDE DEF near, far, N
<1>4. \A id \in Ids : Runs(id, near, p[id]) /\ Runs(id, far, q[id])
  <2>1. ASSUME NEW id \in Ids PROVE (\E r : Runs(id, near, r)) /\ (\E r : Runs(id, far, r))
    BY <1>1, <1>2, RoundsExist DEF N
  <2>. HIDE DEF Runs
  <2>. QED  BY <2>1
<1>. HIDE DEF p, q
<1>5. ASSUME NEW s, NEW f, \A id \in Ids : Runs(id, f, s[id]) PROVE AllRounds(s, Ids, f, N)
  <2>. SUFFICES ASSUME NEW id \in Ids
                PROVE  /\ s[id][0] = {id} /\ \A k \in 0..N : s[id][k] \subseteq Ids
                       /\ \A k \in 1..N : s[id][k] = s[id][k - 1] \cup UNION {f[n] : n \in s[id][k - 1]}
    BY DEF AllRounds
  <2>. DEFINE r == s[id]
  <2>1. \A k \in 0..N : r[k] = IF k = 0 THEN {id} ELSE r[k - 1] \cup UNION {f[n] : n \in r[k - 1]}
    BY <1>5 DEF Rounds, N
  <2>2. 0 \in 0..N /\ \A k \in 1..N : k \in 0..N /\ k # 0
    BY <1>1
  <2>. QED  BY <1>5, <2>1, <2>2
<1>. HIDE DEF Runs
<1>6. AllRounds(p, Ids, near, N) /\ AllRounds(q, Ids, far, N)
  BY <1>4, <1>5
<1>8. \A a, b \in Ids : b \in p[a][N] <=> a \in q[b][N]
  <2>1. /\ \A x \in Ids : near[x] \subseteq Ids /\ far[x] \subseteq Ids
        /\ \A x, y \in Ids : x \in near[y] <=> y \in far[x]
    BY <1>1 DEF near, far
  <2>. QED  BY <1>1, <1>6, <2>1, RoundsMirror
<1>9. \A id \in Ids : /\ transitive_dependencies(id) = p[id][N] \ {id}
                      /\ transitive_dependents(id) = q[id][N] \ {id}
  BY <1>3, <1>4 DEF Runs
<1>10. ASSUME NEW n \in Ids, NEW o \in Ids
       PROVE  (n \in transitive_dependencies(o)) = (o \in transitive_dependents(n))
  BY <1>8, <1>9
<1>11. ASSUME NEW n \in Ids PROVE dependencies(n) \subseteq transitive_dependencies(n) \cup {n}
  <2>. DEFINE Bad == {k \in 1..N : ~(dependencies(n) \subseteq p[n][k])}
  <2>1. Bad = {}
    <3>. SUFFICES ASSUME Bad # {} PROVE FALSE
      OBVIOUS
    <3>1. PICK k \in Bad : \A j \in Bad : k <= j
      <4>1. Bad \in SUBSET Nat
        OBVIOUS
      <4>. HIDE DEF Bad
      <4>. QED  BY <4>1, LeastOf
    <3>2. p[n][k] = p[n][k - 1] \cup UNION {near[m] : m \in p[n][k - 1]}
      BY <1>6, <3>1 DEF AllRounds
    <3>3. CASE k = 1
      <4>1. n \in p[n][k - 1] /\ near[n] = dependencies(n)
        BY <1>6, <3>3 DEF near, AllRounds
      <4>. QED  BY <3>1, <3>2, <4>1
    <3>4. CASE k # 1
      <4>1. k - 1 \in 1..N /\ k - 1 \notin Bad
        BY <1>1, <3>1, <3>4
      <4>. QED  BY <3>1, <3>2, <4>1
    <3>. QED  BY <3>3, <3>4
  <2>2. N \in 1..N
    BY <1>1
  <2>. QED  BY <1>9, <2>1, <2>2
<1>. QED  BY <1>10, <1>11 DEF NeighboursMirror

------------------------------------------------------------------------------
(***************************************************************************)
(* Statistics.  No wave is wider than the widest, and no step names more   *)
(* than the one that names most.                                           *)
(***************************************************************************)
LEMMA MostOf ==
  ASSUME NEW S \in SUBSET Int, IsFiniteSet(S)
  PROVE  Most(S) \in S \cup {0} /\ Most(S) \in Nat /\ \A x \in S : x <= Most(S)
<1>. DEFINE T == S \cup {0}
<1>1. T \in SUBSET Int /\ T # {} /\ IsFiniteSet(T) /\ 0 \in T
  BY FS_AddElement
<1>. HIDE DEF T
<1>2. Max(T) \in T /\ \A y \in T : y <= Max(T)
  BY <1>1, GreatestOf
<1>3. Max(T) \in Int /\ 0 <= Max(T)
  BY <1>1, <1>2
<1>. QED  BY <1>2, <1>3 DEF Most, T

(* As many summands as members, none above the bound. *)
LEMMA TotalBound ==
  ASSUME NEW S, IsFiniteSet(S), NEW w, NEW b \in Nat, \A x \in S : w[x] \in Nat /\ w[x] <= b
  PROVE  Total(w, S) \in Nat /\ Total(w, S) <= Cardinality(S) * b
<1>. DEFINE Fits(T) == Total(w, T) \in Nat /\ Total(w, T) <= Cardinality(T) * b
            Bad == {T \in SUBSET S : ~Fits(T)}
<1>. SUFFICES ASSUME Bad # {} PROVE FALSE
  OBVIOUS
<1>. DEFINE T == Smallest(Bad)
<1>1. T \in Bad /\ \A U \in Bad : U \subseteq T => U = T
  <2>1. Bad \subseteq SUBSET S
    OBVIOUS
  <2>. HIDE DEF Bad
  <2>. QED  BY <2>1, SmallestPart
<1>. HIDE DEF T
<1>2. T \subseteq S /\ IsFiniteSet(T) /\ ~Fits(T)
  BY <1>1, FS_Subset
<1>3. T # {}
  <2>. SUFFICES ASSUME T = {} PROVE Fits({})
    BY <1>2
  <2>1. Cardinality({}) = 0 /\ IsFiniteSet({})
    BY FS_EmptySet
  <2>2. Total(w, {}) = 0
    BY <2>1, TotalUnfolds
  <2>3. 0 * b = 0
    OBVIOUS
  <2>. QED  BY <2>1, <2>2, <2>3
<1>4. PICK x \in T : TRUE
  BY <1>3
<1>. DEFINE U == T \ {x}
<1>5. Fits(U)
  <2>1. U \subseteq T /\ U # T /\ U \in SUBSET S
    BY <1>2, <1>4
  <2>. HIDE DEF U, Fits
  <2>. QED  BY <1>1, <2>1
<1>6. Total(w, T) = w[x] + Total(w, U)
  BY <1>2, <1>4, TotalWithout
<1>7. Cardinality(T) = Cardinality(U) + 1 /\ Cardinality(U) \in Nat
  <2>1. IsFiniteSet(U) /\ Cardinality(U) = Cardinality(T) - 1
    BY <1>2, <1>4, FS_RemoveElement
  <2>2. Cardinality(U) \in Nat /\ Cardinality(T) \in Nat
    BY <1>2, <2>1, FS_CardinalityType
  <2>. HIDE DEF U
  <2>. QED  BY <2>1, <2>2
<1>8. w[x] \in Nat /\ w[x] <= b
  BY <1>2, <1>4
<1>. HIDE DEF U, Bad
<1>9. (Cardinality(U) + 1) * b = Cardinality(U) * b + b
  BY <1>7
<1>10. Cardinality(U) * b \in Nat
  BY <1>7
<1>11. Total(w, T) \in Nat /\ Total(w, T) <= Cardinality(U) * b + b
  BY <1>5, <1>6, <1>8, <1>10
<1>. QED  BY <1>2, <1>7, <1>9, <1>11

LEMMA EdgesBounded ==
  ASSUME Sound
  PROVE  statistics.edge_count <= Len(graph) * statistics.max_fan_in
<1>. DEFINE w == [i \in DOMAIN graph |-> Len(graph[i].deps)]
            F == {Len(depends_on(n)) : n \in Ids}
            b == Most(F)
<1>1. statistics.edge_count = SumFunction(w) /\ statistics.max_fan_in = b
  BY DEF statistics
<1>2. SumFunction(w) = Total(w, DOMAIN w)
  BY DEF SumFunction, SumFunctionOnSet, FoldFunctionOnSet, MapThenFoldSet, Total, Recurs, Picked
<1>3. F \in SUBSET Nat /\ IsFiniteSet(F)
  <2>1. \A n \in Ids : Len(depends_on(n)) \in Nat
    BY Listing DEF Sound
  <2>2. [n \in Ids |-> Len(depends_on(n))] \in Surjection(Ids, F)
    BY DEF Surjection
  <2>. QED  BY <2>1, <2>2, Listing, FS_Surjection DEF Sound
<1>4. b \in Nat /\ \A x \in F : x <= b
  <2>. HIDE DEF F
  <2>1. F \in SUBSET Int
    BY <1>3
  <2>. QED  BY <1>3, <2>1, MostOf
<1>5. DOMAIN w = 1..Len(graph) /\ Len(graph) \in Nat
  BY Listing DEF Sound
<1>6. \A i \in 1..Len(graph) : w[i] \in Nat /\ w[i] <= b
  <2>. SUFFICES ASSUME NEW i \in 1..Len(graph) PROVE w[i] \in Nat /\ w[i] <= b
    OBVIOUS
  <2>. DEFINE n == graph[i].id
  <2>1. n \in Ids /\ at(n) = i /\ graph[i].deps \in Seq(Nat)
    BY <1>5, Listing, SoundListing DEF Sound, Ids
  <2>2. w[i] = Len(depends_on(n)) /\ w[i] \in Nat
    BY <1>5, <2>1 DEF depends_on, step
  <2>3. w[i] \in F
    BY <2>1, <2>2
  <2>. QED  BY <1>4, <2>2, <2>3
<1>7. IsFiniteSet(1..Len(graph)) /\ Cardinality(1..Len(graph)) = Len(graph)
  BY <1>5, OnesUpTo
<1>. HIDE DEF w, b
<1>. QED  BY <1>1, <1>2, <1>4, <1>5, <1>6, <1>7, TotalBound

LEMMA WavesCover ==
  ASSUME Ordered
  PROVE  statistics.maximum_parallelism * Len(parallel_waves) >= Len(graph)
<1>. DEFINE W == Len(parallel_waves)
            A == {Cardinality(parallel_waves[k]) : k \in DOMAIN parallel_waves}
            P == Most(A)
            Upto(j) == {n \in Ids : depth[n] < j}
            Wave(j) == {n \in Ids : depth[n] = j}
            Fits(j) == Cardinality(Upto(j)) <= P * j
            Bad == {j \in 0..W : ~Fits(j)}
<1>1. statistics.maximum_parallelism = P
  BY DEF statistics
<1>2. /\ W \in Nat /\ DOMAIN parallel_waves = 1..W
      /\ \A k \in 1..W : parallel_waves[k] = Wave(k - 1)
      /\ \A n \in Ids : depth[n] \in Nat /\ depth[n] < W
  BY WavesAreSound
<1>3. IsFiniteSet(Ids) /\ Cardinality(Ids) = Len(graph) /\ Len(graph) \in Nat
  BY Listing, SoundListing DEF Ordered, Sound
<1>. HIDE DEF W
<1>4. \A j : /\ IsFiniteSet(Upto(j)) /\ Cardinality(Upto(j)) \in Nat
             /\ IsFiniteSet(Wave(j)) /\ Cardinality(Wave(j)) \in Nat
  <2>1. \A j : Upto(j) \in SUBSET Ids /\ Wave(j) \in SUBSET Ids
    OBVIOUS
  <2>. HIDE DEF Upto, Wave
  <2>. QED  BY <1>3, <2>1, FS_Subset, FS_CardinalityType
<1>5. P \in Nat /\ \A j \in 0..(W - 1) : Cardinality(Wave(j)) <= P
  <2>. DEFINE f == [k \in 1..W |-> Cardinality(Wave(k - 1))]
  <2>. HIDE DEF Wave
  <2>1. A = {Cardinality(Wave(k - 1)) : k \in 1..W}
    BY <1>2
  <2>2. A \in SUBSET Int
    <3>1. \A k \in 1..W : Cardinality(Wave(k - 1)) \in Nat
      BY <1>4
    <3>. QED  BY <2>1, <3>1
  <2>3. IsFiniteSet(1..W)
    BY <1>2, OnesUpTo
  <2>4. f \in Surjection(1..W, A)
    BY <2>1 DEF Surjection
  <2>. HIDE DEF f, A
  <2>5. IsFiniteSet(A)
    BY <2>3, <2>4, FS_Surjection
  <2>6. Most(A) \in Nat /\ \A x \in A : x <= Most(A)
    BY <2>2, <2>5, MostOf
  <2>7. ASSUME NEW j \in 0..(W - 1) PROVE Cardinality(Wave(j)) \in A
    <3>1. j + 1 \in 1..W /\ (j + 1) - 1 = j
      BY <1>2
    <3>. QED  BY <2>1, <3>1
  <2>. QED  BY <2>6, <2>7
<1>. HIDE DEF P, A
<1>6. Fits(0)
  <2>1. Upto(0) = {}
    BY <1>2
  <2>. QED  BY <1>5, <2>1, FS_EmptySet
<1>7. ASSUME NEW j \in 0..(W - 1), Fits(j) PROVE Fits(j + 1)
  <2>1. Upto(j + 1) = Upto(j) \cup Wave(j) /\ Upto(j) \cap Wave(j) = {}
    <3>1. \A n \in Ids : (depth[n] < j + 1 <=> depth[n] < j \/ depth[n] = j) /\ ~(depth[n] < j /\ depth[n] = j)
      BY <1>2
    <3>. QED  BY <3>1
  <2>. HIDE DEF Upto, Wave
  <2>2. Cardinality(Upto(j + 1)) = Cardinality(Upto(j)) + Cardinality(Wave(j))
    <3>1. Cardinality({}) = 0
      BY FS_EmptySet
    <3>2. IsFiniteSet(Upto(j)) /\ IsFiniteSet(Wave(j)) /\ Cardinality(Upto(j)) \in Nat /\ Cardinality(Wave(j)) \in Nat
      BY <1>4
    <3>3. Cardinality(Upto(j) \cup Wave(j)) = Cardinality(Upto(j)) + Cardinality(Wave(j)) - Cardinality(Upto(j) \cap Wave(j))
      BY <3>2, FS_Union
    <3>4. Cardinality(Upto(j) \cap Wave(j)) = 0 /\ Cardinality(Upto(j + 1)) = Cardinality(Upto(j) \cup Wave(j))
      BY <2>1, <3>1
    <3>. HIDE DEF Fits, Bad
    <3>. QED  BY <3>2, <3>3, <3>4
  <2>3. P * (j + 1) = P * j + P /\ P * j \in Nat
    BY <1>2, <1>5
  <2>4. Cardinality(Wave(j)) <= P /\ Cardinality(Wave(j)) \in Nat /\ Cardinality(Upto(j)) \in Nat
    BY <1>4, <1>5
  <2>. QED  BY <1>5, <1>7, <2>2, <2>3, <2>4
<1>. HIDE DEF Fits
<1>8. Bad = {}
  <2>. SUFFICES ASSUME Bad # {} PROVE FALSE
    OBVIOUS
  <2>1. PICK j \in Bad : \A i \in Bad : j <= i
    <3>1. Bad \in SUBSET Nat
      OBVIOUS
    <3>. HIDE DEF Bad
    <3>. QED  BY <3>1, LeastOf
  <2>2. j # 0
    BY <1>6, <2>1
  <2>3. j - 1 \in 0..(W - 1) /\ j - 1 \in 0..W /\ (j - 1) + 1 = j
    BY <1>2, <2>1, <2>2
  <2>4. Fits(j - 1)
    BY <2>1, <2>3
  <2>. QED  BY <1>7, <2>1, <2>3, <2>4
<1>9. Fits(W)
  <2>1. W \in 0..W
    BY <1>2
  <2>. QED  BY <1>8, <2>1
<1>10. Upto(W) = Ids
  BY <1>2
<1>11. Len(graph) <= P * W
  BY <1>3, <1>9, <1>10 DEF Fits
<1>12. P * W \in Nat
  BY <1>2, <1>5
<1>. QED  BY <1>1, <1>3, <1>11, <1>12 DEF W

LEMMA DeepestBounded ==
  ASSUME Ordered, graph # <<>>
  PROVE  statistics.max_depth + 1 <= Len(graph)
<1>. DEFINE W == Len(parallel_waves)
<1>1. statistics.max_depth = Most({W - 1})
  BY DEF statistics
<1>2. W \in Nat /\ W <= Len(graph) /\ Len(graph) \in Nat
  BY WavesAreSound, PathIsSound, Listing DEF Ordered, Sound
<1>3. W >= 1
  <2>1. Len(graph) # 0
    BY Listing DEF Ordered, Sound, GraphOK
  <2>2. Ids # {}
    <3>1. 1 \in DOMAIN graph
      BY <1>2, <2>1, Listing DEF Ordered, Sound
    <3>. QED  BY <3>1 DEF Ids
  <2>. QED  BY <2>2, WavesAreSound
<1>. HIDE DEF W
<1>4. {W - 1} \in SUBSET Int /\ IsFiniteSet({W - 1})
  <2>1. W - 1 \in Int
    BY <1>2
  <2>. QED  BY <2>1, FS_Singleton
<1>5. Most({W - 1}) \in {W - 1} \cup {0}
  BY <1>4, MostOf
<1>. QED  BY <1>1, <1>2, <1>3, <1>5

------------------------------------------------------------------------------
(* Whatever list of steps it is given, the walk refuses the ones it should *)
(* and, but for a step that names one twice, no other; and what is read    *)
(* off the order it gives is so: waves, critical path, neighbours and      *)
(* statistics (execution_graph.rs, element_instance_graph.rs).             *)
THEOREM WalksAlwaysSound == SpecWalk => []WalksSound
<1>1. WalkInv => WalksSound
  <2>. SUFFICES ASSUME WalkInv PROVE WalksSound
    OBVIOUS
  <2>1. ASSUME verdict = "ok"
        PROVE  /\ ~Duplicate /\ ~Dangling /\ ~HasCircle
               /\ InOrder /\ WavesAreDepths /\ PathIsChain /\ NeighboursMirror
               /\ graph # <<>> => statistics.max_depth + 1 <= Len(graph)
               /\ statistics.edge_count <= Len(graph) * statistics.max_fan_in
               /\ statistics.maximum_parallelism * Len(parallel_waves) >= Len(graph)
    <3>1. Ordered /\ Sound
      BY <2>1, OkIsOrdered DEF Ordered
    <3>. QED  BY <3>1, OrderedHasNoCircle, OrderedPlaces, WavesAreSound, PathIsSound,
                 NeighboursAreSound, DeepestBounded, EdgesBounded, WavesCover DEF Sound
  <2>2. verdict = "cycle" => HasCircle \/ (form = "steps" /\ Repeats)
    BY CycleIsCircle
  <2>. QED  BY <2>1, <2>2 DEF WalkInv, WalksSound
<1>. QED  BY <1>1, AlwaysWalkInv, PTL

==============================================================================
