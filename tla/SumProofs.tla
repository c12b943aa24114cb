------------------------------ MODULE SumProofs ------------------------------
(***************************************************************************)
(* Least and greatest numbers and sums over finite sets, as the community  *)
(* modules define them: what the proofs about the components rest on.      *)
(***************************************************************************)
EXTENDS Integers, FiniteSetsExt, FiniteSetTheorems, WellFoundedInduction, TLAPS

Smallest(parts) == CHOOSE T \in parts : \A U \in parts : U \subseteq T => U = T

(* Of the parts of a finite set that have a property one is smallest. *)
LEMMA SmallestPart ==
  ASSUME NEW S, NEW Bad, IsFiniteSet(S), Bad \subseteq SUBSET S, Bad # {}
  PROVE  Smallest(Bad) \in Bad /\ \A U \in Bad : U \subseteq Smallest(Bad) => U = Smallest(Bad)
<1>1. Bad \subseteq FiniteSubsetsOf(S)
  BY FS_FiniteSubsetsOfFinite
<1>2. PICK T \in Bad : \A U \in Bad : ~(<<U, T>> \in StrictSubsetOrdering(S))
  BY <1>1, FS_StrictSubsetOrderingWellFounded, WFMin
<1>. QED  BY <1>1, <1>2 DEF StrictSubsetOrdering, FiniteSubsetsOf, Smallest

(* A finite set of integers that is not empty has a greatest member. *)
LEMMA GreatestOf ==
  ASSUME NEW S \in SUBSET Int, IsFiniteSet(S), S # {}
  PROVE  Max(S) \in S /\ \A y \in S : y <= Max(S)
<1>. DEFINE Bad == {T \in SUBSET S : T # {} /\ ~\E x \in T : \A y \in T : y <= x}
<1>1. Bad = {}
  <2>. SUFFICES ASSUME Bad # {} PROVE FALSE
    OBVIOUS
  <2>0. Smallest(Bad) \in Bad /\ \A U \in Bad : U \subseteq Smallest(Bad) => U = Smallest(Bad)
    <3>1. Bad \subseteq SUBSET S
      OBVIOUS
    <3>. HIDE DEF Bad
    <3>. QED  BY <3>1, SmallestPart
  <2>1. PICK T \in Bad : \A U \in Bad : U \subseteq T => U = T
    <3>. HIDE DEF Bad
    <3>. QED  BY <2>0
  <2>2. PICK x \in T : TRUE
    OBVIOUS
  <2>3. T \ {x} \notin Bad
    BY <2>1
  <2>4. CASE T \ {x} = {}
    BY <2>4
  <2>5. CASE T \ {x} # {}
    <3>1. PICK z \in T \ {x} : \A y \in T \ {x} : y <= z
      BY <2>3, <2>5
    <3>2. x \in Int /\ z \in Int /\ T \subseteq Int
      OBVIOUS
    <3>3. CASE x <= z
      BY <3>1, <3>2, <3>3
    <3>4. CASE z < x
      BY <3>1, <3>2, <3>4
    <3>. QED  BY <3>2, <3>3, <3>4
  <2>. QED  BY <2>4, <2>5
<1>2. \E x \in S : \A y \in S : y <= x
  BY <1>1
<1>. QED  BY <1>2 DEF Max

(* Every set of naturals that is not empty has a least member. *)
LEMMA LeastOf ==
  ASSUME NEW S \in SUBSET Nat, S # {}
  PROVE  Min(S) \in S /\ \A y \in S : Min(S) <= y
<1>. PICK n \in S : TRUE
  OBVIOUS
<1>. DEFINE Below == {k \in 0..n : \A y \in S : k <= y}
<1>1. Below \in SUBSET Int /\ IsFiniteSet(Below) /\ 0 \in Below
  <2>1. Below \subseteq 0..n /\ IsFiniteSet(0..n)
    BY FS_Interval
  <2>. QED  BY <2>1, FS_Subset
<1>. HIDE DEF Below
<1>2. Max(Below) \in Below /\ \A k \in Below : k <= Max(Below)
  BY <1>1, GreatestOf
<1>3. Max(Below) \in S
  <2>. DEFINE m == Max(Below)
  <2>. HIDE DEF m
  <2>. SUFFICES ASSUME m \notin S PROVE FALSE
    BY DEF m
  <2>1. m \in 0..n /\ \A y \in S : m <= y
    BY <1>2 DEF m, Below
  <2>2. m + 1 \in 0..n /\ \A y \in S : m + 1 <= y
    BY <2>1
  <2>3. m + 1 \in Below
    BY <2>2 DEF Below
  <2>. QED  BY <2>1, <2>3, <1>2 DEF m
<1>4. \E x \in S : \A y \in S : x <= y
  BY <1>2, <1>3 DEF Below
<1>. QED  BY <1>4 DEF Min

------------------------------------------------------------------------------
(***************************************************************************)
(* Sums over finite sets.  MapThenSumSet takes the members one by one, in  *)
(* an order that is not known; Total is what it adds up, for weights w.    *)
(***************************************************************************)
Picked(T) == CHOOSE x \in T : TRUE

Recurs(g, w, S) ==
  g = [T \in SUBSET S |-> IF T = {} THEN 0 ELSE w[Picked(T)] + g[T \ {Picked(T)}]]

Total(w, S) == (CHOOSE g : Recurs(g, w, S))[S]

LEMMA RecursUnfolds ==
  ASSUME NEW g, NEW w, NEW S, Recurs(g, w, S), NEW T, T \subseteq S
  PROVE  g[T] = IF T = {} THEN 0 ELSE w[Picked(T)] + g[T \ {Picked(T)}]
BY DEF Recurs

LEMMA PickedIn ==
  ASSUME NEW T, T # {}
  PROVE  Picked(T) \in T
BY DEF Picked

LEMMA RecursAgrees ==
  ASSUME NEW S, NEW R, NEW Z, IsFiniteSet(Z), Z \subseteq S, Z \subseteq R,
         NEW w, NEW v, \A x \in Z : w[x] = v[x],
         NEW g, NEW h, Recurs(g, w, S), Recurs(h, v, R)
  PROVE  g[Z] = h[Z]
<1>. DEFINE Bad == {T \in SUBSET Z : g[T] # h[T]}
<1>. SUFFICES ASSUME Bad # {} PROVE FALSE
  OBVIOUS
<1>. DEFINE T == Smallest(Bad)
<1>1. T \in Bad /\ \A U \in Bad : U \subseteq T => U = T
  <2>1. Bad \subseteq SUBSET Z
    OBVIOUS
  <2>. HIDE DEF Bad
  <2>. QED  BY <2>1, SmallestPart
<1>. HIDE DEF T
<1>2. g[{}] = 0 /\ h[{}] = 0
  BY RecursUnfolds
<1>3. T # {}
  BY <1>1, <1>2
<1>4. Picked(T) \in T
  BY <1>3, PickedIn
<1>5. g[T \ {Picked(T)}] = h[T \ {Picked(T)}]
  BY <1>1, <1>4
<1>6. /\ g[T] = w[Picked(T)] + g[T \ {Picked(T)}]
      /\ h[T] = v[Picked(T)] + h[T \ {Picked(T)}]
  BY <1>1, <1>3, RecursUnfolds
<1>. QED  BY <1>1, <1>4, <1>5, <1>6

LEMMA RecursExists ==
  ASSUME NEW S, IsFiniteSet(S), NEW w, \A x \in S : w[x] \in Nat
  PROVE  \E g \in [SUBSET S -> Nat] : Recurs(g, w, S)
<1>. DEFINE Bad == {T \in SUBSET S : ~\E g \in [SUBSET T -> Nat] : Recurs(g, w, T)}
<1>. SUFFICES ASSUME Bad # {} PROVE FALSE
  OBVIOUS
<1>. DEFINE T == Smallest(Bad)
<1>1. T \in Bad /\ \A U \in Bad : U \subseteq T => U = T
  <2>1. Bad \subseteq SUBSET S
    OBVIOUS
  <2>. HIDE DEF Bad
  <2>. QED  BY <2>1, SmallestPart
<1>. HIDE DEF T
<1>2. T # {}
  <2>. SUFFICES ASSUME T = {} PROVE FALSE
    OBVIOUS
  <2>. DEFINE g == [U \in SUBSET {} |-> 0]
  <2>1. g \in [SUBSET T -> Nat] /\ Recurs(g, w, T)
    BY DEF Recurs
  <2>. QED  BY <1>1, <2>1
<1>. DEFINE G(U) == CHOOSE g \in [SUBSET U -> Nat] : Recurs(g, w, U)
<1>3. ASSUME NEW U, U \subseteq T, U # T
      PROVE  G(U) \in [SUBSET U -> Nat] /\ Recurs(G(U), w, U)
  <2>1. U \notin Bad /\ U \subseteq S
    BY <1>1, <1>3
  <2>. QED  BY <2>1
<1>. DEFINE c == Picked(T)
<1>4. c \in T /\ w[c] \in Nat /\ T \ {c} # T
  BY <1>1, <1>2, PickedIn
<1>. DEFINE V(U) == IF U = T THEN w[c] + G(T \ {c})[T \ {c}] ELSE G(U)[U]
<1>. DEFINE g == [U \in SUBSET T |-> V(U)]
<1>5. \A U \in SUBSET T : U # T => G(U)[U] \in Nat
  BY <1>3
<1>. HIDE DEF G, c
<1>6. g \in [SUBSET T -> Nat]
  BY <1>4, <1>5
<1>7. ASSUME NEW U, U \subseteq T
      PROVE  V(U) = IF U = {} THEN 0 ELSE w[Picked(U)] + V(U \ {Picked(U)})
  <2>1. CASE U = T
    BY <1>2, <1>4, <2>1 DEF c
  <2>2. CASE U = {}
    BY <1>2, <1>3, <2>2, RecursUnfolds
  <2>3. CASE U # T /\ U # {}
    <3>. DEFINE R == U \ {Picked(U)}
    <3>1. Picked(U) \in U /\ R \subseteq U /\ R # T /\ R \subseteq T /\ R \subseteq S
      BY <1>1, <1>7, <2>3, PickedIn
    <3>2. G(U)[U] = w[Picked(U)] + G(U)[R]
      <4>1. Recurs(G(U), w, U)
        BY <1>3, <1>7, <2>3
      <4>. QED  BY <4>1, <2>3, RecursUnfolds
    <3>3. IsFiniteSet(R)
      BY <3>1, FS_Subset
    <3>4. Recurs(G(U), w, U) /\ Recurs(G(R), w, R)
      BY <1>3, <1>7, <2>3, <3>1
    <3>. HIDE DEF R
    <3>5. G(U)[R] = G(R)[R]
      BY <3>1, <3>3, <3>4, RecursAgrees
    <3>. QED  BY <2>3, <3>1, <3>2, <3>5 DEF R
  <2>. QED  BY <2>1, <2>2, <2>3
<1>8. Recurs(g, w, T)
  <2>1. g = [U \in SUBSET T |-> IF U = {} THEN 0 ELSE w[Picked(U)] + g[U \ {Picked(U)}]]
    <3>1. ASSUME NEW U \in SUBSET T
          PROVE  g[U] = IF U = {} THEN 0 ELSE w[Picked(U)] + g[U \ {Picked(U)}]
      <4>1. g[U] = V(U) /\ g[U \ {Picked(U)}] = V(U \ {Picked(U)})
        OBVIOUS
      <4>. HIDE DEF g, V
      <4>. QED  BY <4>1, <1>7
    <3>2. g = [U \in SUBSET T |-> g[U]]
      OBVIOUS
    <3>. HIDE DEF g, V
    <3>. QED  BY <3>1, <3>2
  <2>. HIDE DEF g
  <2>. QED  BY <2>1 DEF Recurs
<1>. HIDE DEF g
<1>. QED  BY <1>1, <1>6, <1>8

LEMMA RecursIsTotal ==
  ASSUME NEW S, IsFiniteSet(S), NEW w, \A x \in S : w[x] \in Nat, NEW g, NEW v, NEW R, S \subseteq R,
         \A x \in S : w[x] = v[x], Recurs(g, v, R)
  PROVE  g[S] = Total(w, S) /\ Total(w, S) \in Nat
<1>. DEFINE h == CHOOSE h : Recurs(h, w, S)
<1>1. PICK k \in [SUBSET S -> Nat] : Recurs(k, w, S)
  BY RecursExists
<1>2. Recurs(h, w, S)
  BY <1>1
<1>3. Total(w, S) = h[S]
  BY DEF Total
<1>. HIDE DEF h
<1>4. h[S] = k[S] /\ g[S] = h[S]
  BY <1>1, <1>2, RecursAgrees
<1>. QED  BY <1>1, <1>3, <1>4

LEMMA TotalUnfolds ==
  ASSUME NEW S, IsFiniteSet(S), NEW w, \A x \in S : w[x] \in Nat
  PROVE  /\ Total(w, S) \in Nat
         /\ S = {} => Total(w, S) = 0
         /\ S # {} => Total(w, S) = w[Picked(S)] + Total(w, S \ {Picked(S)})
<1>1. PICK g \in [SUBSET S -> Nat] : Recurs(g, w, S)
  BY RecursExists
<1>2. g[S] = Total(w, S) /\ Total(w, S) \in Nat
  BY <1>1, RecursIsTotal
<1>3. IsFiniteSet(S \ {Picked(S)})
  BY FS_Subset
<1>4. g[S \ {Picked(S)}] = Total(w, S \ {Picked(S)})
  <2>. DEFINE R == S \ {Picked(S)}
  <2>1. R \subseteq S /\ \A x \in R : w[x] \in Nat
    OBVIOUS
  <2>. HIDE DEF R
  <2>2. IsFiniteSet(R)
    BY <1>3 DEF R
  <2>3. g[R] = Total(w, R)
    BY <1>1, <2>1, <2>2, RecursIsTotal
  <2>. QED  BY <2>3 DEF R
<1>. QED  BY <1>1, <1>2, <1>4, RecursUnfolds

LEMMA TotalWithout ==
  ASSUME NEW S, IsFiniteSet(S), NEW w, \A y \in S : w[y] \in Nat, NEW x \in S
  PROVE  Total(w, S) = w[x] + Total(w, S \ {x})
<1>. DEFINE Bad == {T \in SUBSET S : \E y \in T : Total(w, T) # w[y] + Total(w, T \ {y})}
<1>. SUFFICES ASSUME Bad # {} PROVE FALSE
  OBVIOUS
<1>. DEFINE T == Smallest(Bad)
<1>1. T \in Bad /\ \A U \in Bad : U \subseteq T => U = T
  <2>1. Bad \subseteq SUBSET S
    OBVIOUS
  <2>. HIDE DEF Bad
  <2>. QED  BY <2>1, SmallestPart
<1>. HIDE DEF T
<1>2. PICK y \in T : Total(w, T) # w[y] + Total(w, T \ {y})
  BY <1>1
<1>. DEFINE c == Picked(T)
<1>3. IsFiniteSet(T) /\ T \subseteq S /\ c \in T
  BY <1>1, <1>2, FS_Subset, PickedIn
<1>4. Total(w, T) = w[c] + Total(w, T \ {c})
  BY <1>3, TotalUnfolds
<1>. HIDE DEF c
<1>5. c # y
  BY <1>2, <1>4
<1>6. Total(w, T \ {c}) = w[y] + Total(w, (T \ {c}) \ {y})
  <2>1. T \ {c} \notin Bad /\ y \in T \ {c}
    BY <1>1, <1>3, <1>5
  <2>. QED  BY <1>3, <2>1
<1>7. Total(w, T \ {y}) = w[c] + Total(w, (T \ {y}) \ {c})
  <2>1. T \ {y} \notin Bad /\ c \in T \ {y}
    BY <1>1, <1>3, <1>5
  <2>. QED  BY <1>3, <2>1
<1>8. (T \ {y}) \ {c} = (T \ {c}) \ {y}
  OBVIOUS
<1>9. Total(w, (T \ {c}) \ {y}) \in Nat /\ w[c] \in Nat /\ w[y] \in Nat
  <2>1. IsFiniteSet((T \ {c}) \ {y})
    BY <1>3, FS_Subset
  <2>2. \A z \in (T \ {c}) \ {y} : w[z] \in Nat
    BY <1>3
  <2>. QED  BY <1>3, <2>1, <2>2, TotalUnfolds
<1>10. Total(w, T) = w[c] + (w[y] + Total(w, (T \ {c}) \ {y}))
  BY <1>4, <1>6
<1>11. Total(w, T \ {y}) = w[c] + Total(w, (T \ {c}) \ {y})
  BY <1>7, <1>8
<1>. HIDE DEF Bad
<1>. QED  BY <1>2, <1>9, <1>10, <1>11

LEMMA TotalOfPart ==
  ASSUME NEW S, IsFiniteSet(S), NEW w, \A y \in S : w[y] \in Nat, NEW P, P \subseteq S
  PROVE  Total(w, P) <= Total(w, S)
<1>. DEFINE Bad == {T \in SUBSET S : P \subseteq T /\ ~(Total(w, P) <= Total(w, T))}
<1>. SUFFICES ASSUME Bad # {} PROVE FALSE
  OBVIOUS
<1>. DEFINE T == Smallest(Bad)
<1>1. T \in Bad /\ \A U \in Bad : U \subseteq T => U = T
  <2>1. Bad \subseteq SUBSET S
    OBVIOUS
  <2>. HIDE DEF Bad
  <2>. QED  BY <2>1, SmallestPart
<1>. HIDE DEF T
<1>2. IsFiniteSet(T) /\ T \subseteq S /\ IsFiniteSet(P)
  BY <1>1, FS_Subset
<1>3. Total(w, T) \in Nat /\ Total(w, P) \in Nat
  BY <1>2, TotalUnfolds
<1>4. PICK x \in T : x \notin P
  <2>1. T # P
    BY <1>1, <1>3
  <2>. QED  BY <1>1, <2>1
<1>5. Total(w, P) <= Total(w, T \ {x})
  BY <1>1, <1>4
<1>6. Total(w, T) = w[x] + Total(w, T \ {x}) /\ w[x] \in Nat
  BY <1>2, TotalWithout
<1>7. Total(w, T \ {x}) \in Nat
  <2>1. IsFiniteSet(T \ {x})
    BY <1>2, FS_Subset
  <2>2. \A y \in T \ {x} : w[y] \in Nat
    BY <1>2
  <2>. QED  BY <2>1, <2>2, TotalUnfolds
<1>. QED  BY <1>1, <1>3, <1>5, <1>6, <1>7

------------------------------------------------------------------------------
(***************************************************************************)
(* Folds over finite sets: step[<<x, v>>] is what becomes of v with x, and *)
(* pick[T] the member of T that is taken last.                             *)
(***************************************************************************)
Folds(g, step, pick, base, S) ==
  g = [T \in SUBSET S |-> IF T = {} THEN base ELSE step[<<pick[T], g[T \ {pick[T]}]>>]]

Picks(pick, S) == \A T \in SUBSET S : T # {} => pick[T] \in T

LEMMA FoldUnfolds ==
  ASSUME NEW g, NEW step, NEW pick, NEW base, NEW S, Folds(g, step, pick, base, S),
         NEW T, T \subseteq S
  PROVE  g[T] = IF T = {} THEN base ELSE step[<<pick[T], g[T \ {pick[T]}]>>]
BY DEF Folds

LEMMA FoldOfNone ==
  ASSUME NEW g, NEW step, NEW pick, NEW base, NEW S, Folds(g, step, pick, base, S)
  PROVE  g[{}] = base
<1>1. {} \subseteq S
  OBVIOUS
<1>. QED  BY <1>1, FoldUnfolds

LEMMA FoldsAgree ==
  ASSUME NEW S, NEW R, NEW Z, IsFiniteSet(Z), Z \subseteq S, Z \subseteq R,
         NEW step, NEW pick, NEW base, Picks(pick, Z),
         NEW g, NEW h, Folds(g, step, pick, base, S), Folds(h, step, pick, base, R)
  PROVE  g[Z] = h[Z]
<1>. DEFINE Bad == {T \in SUBSET Z : g[T] # h[T]}
<1>. SUFFICES ASSUME Bad # {} PROVE FALSE
  OBVIOUS
<1>. DEFINE T == Smallest(Bad)
<1>1. T \in Bad /\ \A U \in Bad : U \subseteq T => U = T
  <2>1. Bad \subseteq SUBSET Z
    OBVIOUS
  <2>. HIDE DEF Bad
  <2>. QED  BY <2>1, SmallestPart
<1>. HIDE DEF T
<1>2. g[{}] = base /\ h[{}] = base
  BY FoldOfNone
<1>3. T # {}
  BY <1>1, <1>2
<1>4. pick[T] \in T
  BY <1>1, <1>3 DEF Picks
<1>5. g[T \ {pick[T]}] = h[T \ {pick[T]}]
  BY <1>1, <1>4
<1>6. /\ g[T] = step[<<pick[T], g[T \ {pick[T]}]>>]
      /\ h[T] = step[<<pick[T], h[T \ {pick[T]}]>>]
  <2>1. T \subseteq S /\ T \subseteq R
    BY <1>1
  <2>. HIDE DEF Bad
  <2>. QED  BY <2>1, <1>3, FoldUnfolds
<1>. QED  BY <1>1, <1>5, <1>6

LEMMA FoldExists ==
  ASSUME NEW S, IsFiniteSet(S), NEW V, NEW step \in [S \X V -> V], NEW base \in V,
         NEW pick, Picks(pick, S)
  PROVE  \E g \in [SUBSET S -> V] : Folds(g, step, pick, base, S)
<1>. DEFINE Has(g, T) == g \in [SUBSET T -> V] /\ Folds(g, step, pick, base, T)
<1>. DEFINE Bad == {T \in SUBSET S : ~\E g : Has(g, T)}
<1>. SUFFICES ASSUME Bad # {} PROVE FALSE
  OBVIOUS
<1>. DEFINE T == Smallest(Bad)
<1>1. T \in Bad /\ \A U \in Bad : U \subseteq T => U = T
  <2>1. Bad \subseteq SUBSET S
    OBVIOUS
  <2>. HIDE DEF Bad
  <2>. QED  BY <2>1, SmallestPart
<1>. HIDE DEF T
<1>2. T # {}
  <2>. SUFFICES ASSUME T = {} PROVE FALSE
    OBVIOUS
  <2>. DEFINE g == [U \in SUBSET {} |-> base]
  <2>1. Has(g, T)
    BY DEF Folds
  <2>. QED  BY <1>1, <2>1
<1>. DEFINE G(U) == CHOOSE g : Has(g, U)
<1>3. ASSUME NEW U, U \subseteq T, U # T
      PROVE  G(U) \in [SUBSET U -> V] /\ Folds(G(U), step, pick, base, U)
  <2>1. U \notin Bad /\ U \subseteq S
    BY <1>1, <1>3
  <2>2. \E g : Has(g, U)
    BY <2>1
  <2>3. Has(G(U), U)
    <3>. HIDE DEF Has
    <3>. QED  BY <2>2
  <2>. QED  BY <2>3
<1>. DEFINE c == pick[T]
<1>4. c \in T /\ T \ {c} # T /\ c \in S
  BY <1>1, <1>2 DEF Picks
<1>. HIDE DEF G, c
<1>. DEFINE W(U) == IF U = T THEN step[<<c, G(T \ {c})[T \ {c}]>>] ELSE G(U)[U]
<1>. DEFINE g == [U \in SUBSET T |-> W(U)]
<1>5. \A U \in SUBSET T : U # T => G(U)[U] \in V
  BY <1>3
<1>6. g \in [SUBSET T -> V]
  BY <1>4, <1>5
<1>7. ASSUME NEW U, U \subseteq T
      PROVE  W(U) = IF U = {} THEN base ELSE step[<<pick[U], W(U \ {pick[U]})>>]
  <2>1. CASE U = T
    BY <1>2, <1>4, <2>1 DEF c
  <2>2. CASE U = {}
    <3>1. Folds(G({}), step, pick, base, {}) /\ T # {}
      BY <1>2, <1>3
    <3>2. G({})[{}] = base
      BY <3>1, FoldOfNone
    <3>. QED  BY <2>2, <3>1, <3>2
  <2>3. CASE U # T /\ U # {}
    <3>. DEFINE R == U \ {pick[U]}
    <3>1. pick[U] \in U /\ R \subseteq U /\ R # T /\ R \subseteq T /\ R \subseteq S
      BY <1>1, <1>7, <2>3 DEF Picks
    <3>2. G(U)[U] = step[<<pick[U], G(U)[R]>>]
      <4>1. Folds(G(U), step, pick, base, U)
        BY <1>3, <1>7, <2>3
      <4>. QED  BY <4>1, <2>3, FoldUnfolds
    <3>3. IsFiniteSet(R) /\ Picks(pick, R)
      BY <3>1, FS_Subset DEF Picks
    <3>4. Folds(G(U), step, pick, base, U) /\ Folds(G(R), step, pick, base, R)
      BY <1>3, <1>7, <2>3, <3>1
    <3>. HIDE DEF R
    <3>5. G(U)[R] = G(R)[R]
      BY <3>1, <3>3, <3>4, FoldsAgree
    <3>. QED  BY <2>3, <3>1, <3>2, <3>5 DEF R
  <2>. QED  BY <2>1, <2>2, <2>3
<1>8. Folds(g, step, pick, base, T)
  <2>1. g = [U \in SUBSET T |-> IF U = {} THEN base ELSE step[<<pick[U], g[U \ {pick[U]}]>>]]
    <3>1. ASSUME NEW U \in SUBSET T
          PROVE  g[U] = IF U = {} THEN base ELSE step[<<pick[U], g[U \ {pick[U]}]>>]
      <4>1. g[U] = W(U) /\ g[U \ {pick[U]}] = W(U \ {pick[U]})
        OBVIOUS
      <4>. HIDE DEF g, W
      <4>. QED  BY <4>1, <1>7
    <3>2. g = [U \in SUBSET T |-> g[U]]
      OBVIOUS
    <3>. HIDE DEF g, W
    <3>. QED  BY <3>1, <3>2
  <2>. HIDE DEF g
  <2>. QED  BY <2>1 DEF Folds
<1>. HIDE DEF g
<1>. QED  BY <1>1, <1>6, <1>8
==============================================================================
