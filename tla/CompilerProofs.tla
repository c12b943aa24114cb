----------------------------- MODULE CompilerProofs ---------------------------
(***************************************************************************)
(* Proofs about the compiler: the mixed radix numbers are all combinations *)
(* of values, levels settle in as many passes as there are elements, what  *)
(* Upstream computes and why the reduction loses none of it, by an         *)
(* invariant that says which activations there are after each pass, what a *)
(* trial finds up, and, by one that says what every step waits for after   *)
(* each pass and by an order that all of it respects, that plans that can  *)
(* be met compile, and to graphs that enforce what was asked for.          *)
(***************************************************************************)
EXTENDS CompilerProperties, SumProofs

------------------------------------------------------------------------------
(***************************************************************************)
(* Trials as numbers: products of sizes, strides and digits.               *)
(***************************************************************************)
LEMMA ProductIn ==
  ASSUME NEW a \in Nat, NEW b \in Nat
  PROVE  a * b \in Nat
OBVIOUS
LEMMA Positive ==
  ASSUME NEW a \in Nat \ {0}, NEW b \in Nat \ {0}
  PROVE  a * b \in Nat \ {0} /\ a <= a * b /\ b <= a * b
OBVIOUS

Axes == Seq([element : Elements, size : Nat \ {0}])

(* The greatest of the first numbers. *)
LEMMA GreatestOfFirst ==
  ASSUME NEW i \in Int, NEW j \in Int, i <= j
  PROVE  Max(i..j) = j /\ (i..j) \ {j} = i..(j - 1)
<1>. DEFINE S == i..j
<1>1. S \in SUBSET Int /\ IsFiniteSet(S) /\ j \in S /\ \A x \in S : x <= j
  BY FS_Interval
<1>. HIDE DEF S
<1>2. Max(S) \in S /\ \A y \in S : y <= Max(S)
  BY <1>1, GreatestOf
<1>3. PICK m \in S : m = Max(S)
  BY <1>2
<1>4. m \in Int /\ m <= j /\ j <= m
  BY <1>1, <1>2, <1>3
<1>5. m = j
  BY <1>4
<1>. QED  BY <1>3, <1>5 DEF S

LEMMA AxesTyped ==
  ASSUME NEW axes \in Axes
  PROVE  /\ Len(axes) \in Nat /\ DOMAIN axes = 1..Len(axes)
         /\ \A i \in DOMAIN axes : /\ axes[i] \in [element : Elements, size : Nat \ {0}]
                                  /\ axes[i].element \in Elements /\ axes[i].size \in Nat \ {0}
<1>. DEFINE R == [element : Elements, size : Nat \ {0}]
<1>1. \A r \in R : r.element \in Elements /\ r.size \in Nat \ {0}
  OBVIOUS
<1>2. axes \in Seq(R)
  BY DEF Axes
<1>. HIDE DEF R
<1>3. Len(axes) \in Nat /\ DOMAIN axes = 1..Len(axes) /\ \A i \in DOMAIN axes : axes[i] \in R
  BY <1>2
<1>. QED  BY <1>1, <1>3 DEF R

(* trial_count multiplies the sizes one by one. *)
Times(v, axis) == v * axis.size

Multiplies(h, q) ==
  h = [T \in SUBSET DOMAIN q |-> IF T = {} THEN 1 ELSE Times(h[T \ {Max(T)}], q[Max(T)])]

LEMMA MultipliesUnfolds ==
  ASSUME NEW h, NEW q, Multiplies(h, q), NEW T \in SUBSET DOMAIN q, T # {}
  PROVE  h[T] = Times(h[T \ {Max(T)}], q[Max(T)])
BY DEF Multiplies

LEMMA MultipliesNone ==
  ASSUME NEW h, NEW q, Multiplies(h, q)
  PROVE  h[{}] = 1
<1>1. {} \subseteq DOMAIN q
  OBVIOUS
<1>. QED  BY <1>1 DEF Multiplies

Grows(h, q, i, j) == h[i..j] = Times(h[i..(j - 1)], q[j])

LEMMA MultipliesOne ==
  ASSUME NEW h, NEW q, Multiplies(h, q), NEW i \in Int, NEW j \in Int, i <= j, i..j \subseteq DOMAIN q
  PROVE  Grows(h, q, i, j)
<1>1. i..j # {}
  OBVIOUS
<1>2. Max(i..j) = j /\ (i..j) \ {j} = i..(j - 1)
  BY GreatestOfFirst
<1>. DEFINE T == i..j
<1>3. T \in SUBSET DOMAIN q /\ T # {} /\ Max(T) = j /\ T \ {j} = i..(j - 1)
  BY <1>1, <1>2
<1>. HIDE DEF T
<1>4. h[T] = Times(h[T \ {Max(T)}], q[Max(T)])
  BY <1>3 DEF Multiplies
<1>. QED  BY <1>3, <1>4 DEF T, Grows

LEMMA MultipliesExists ==
  ASSUME NEW q \in Axes
  PROVE  \E h \in [SUBSET DOMAIN q -> Nat \ {0}] : Multiplies(h, q)
<1>. DEFINE D == DOMAIN q
            V == Nat \ {0}
            step == [x \in D \X V |-> Times(x[2], q[x[1]])]
            pick == [T \in SUBSET D |-> Max(T)]
<1>1. IsFiniteSet(D) /\ D \subseteq Int
  <2>1. D = 1..Len(q) /\ Len(q) \in Nat
    BY AxesTyped
  <2>. QED  BY <2>1, FS_Interval
<1>2. \A i \in D : q[i].size \in V
  BY AxesTyped
<1>3. ASSUME NEW T \in SUBSET D, T # {} PROVE Max(T) \in T
  <2>1. T \in SUBSET Int /\ IsFiniteSet(T)
    BY <1>1, FS_Subset
  <2>. QED  BY <1>3, <2>1, GreatestOf
<1>4. step \in [D \X V -> V]
  <2>1. ASSUME NEW x \in D \X V PROVE Times(x[2], q[x[1]]) \in V
    BY <1>2, Positive DEF Times
  <2>. QED  BY <2>1
<1>5. Picks(pick, D)
  BY <1>3 DEF Picks
<1>6. 1 \in V
  OBVIOUS
<1>7. \E g \in [SUBSET D -> V] : Folds(g, step, pick, 1, D)
  <2>. HIDE DEF D, V, step, pick
  <2>. QED  BY <1>1, <1>4, <1>5, <1>6, FoldExists
<1>8. PICK g \in [SUBSET D -> V] : Folds(g, step, pick, 1, D)
  BY <1>7
<1>9. \A T \in SUBSET D :
        (IF T = {} THEN 1 ELSE step[<<pick[T], g[T \ {pick[T]}]>>])
        = IF T = {} THEN 1 ELSE Times(g[T \ {Max(T)}], q[Max(T)])
  <2>1. ASSUME NEW T \in SUBSET D, T # {}
        PROVE  step[<<pick[T], g[T \ {pick[T]}]>>] = Times(g[T \ {Max(T)}], q[Max(T)])
    <3>1. pick[T] = Max(T) /\ Max(T) \in D /\ T \ {Max(T)} \in SUBSET D
      BY <1>3, <2>1
    <3>2. <<Max(T), g[T \ {Max(T)}]>> \in D \X V
      BY <3>1, <1>8
    <3>. QED  BY <3>1, <3>2
  <2>. QED  BY <2>1
<1>10. g = [T \in SUBSET D |-> IF T = {} THEN 1 ELSE Times(g[T \ {Max(T)}], q[Max(T)])]
  <2>1. g = [T \in SUBSET D |-> IF T = {} THEN 1 ELSE step[<<pick[T], g[T \ {pick[T]}]>>]]
    BY <1>8 DEF Folds
  <2>. HIDE DEF D, step, pick
  <2>. QED  BY <2>1, <1>9
<1>. QED  BY <1>8, <1>10 DEF Multiplies

LEMMA TrialCountMultiplies ==
  ASSUME NEW q \in Axes
  PROVE  \E h : Multiplies(h, q) /\ trial_count(q) = h[1..Len(q)]
<1>1. trial_count(q) = (CHOOSE h : Multiplies(h, q))[DOMAIN q]
  BY DEF trial_count, FoldLeft, MapThenFoldSet, Multiplies, Times
<1>2. \E h : Multiplies(h, q)
  BY MultipliesExists
<1>3. DOMAIN q = 1..Len(q)
  BY AxesTyped
<1>. QED  BY <1>1, <1>2, <1>3

(* What is multiplied for a part of the axes is what the parts of one      *)
(* table say.                                                              *)
LEMMA TrialCountOfRest ==
  ASSUME NEW axes \in Axes, NEW g, Multiplies(g, axes), NEW i \in 0..Len(axes)
  PROVE  trial_count(SubSeq(axes, i + 1, Len(axes))) = g[(i + 1)..Len(axes)]
<1>. DEFINE n == Len(axes)
            q == SubSeq(axes, i + 1, n)
            m == n - i
<1>1. n \in Nat /\ DOMAIN axes = 1..n /\ m \in Nat /\ i \in Nat
  BY AxesTyped
<1>2. q \in Axes /\ Len(q) = m /\ DOMAIN q = 1..m /\ \A k \in 1..m : q[k] = axes[i + k]
  <2>. DEFINE R == [element : Elements, size : Nat \ {0}]
  <2>1. axes \in Seq(R)
    BY DEF Axes
  <2>. HIDE DEF R
  <2>2. /\ q \in Seq(R) /\ Len(q) = IF i + 1 <= n THEN n - (i + 1) + 1 ELSE 0
        /\ \A k \in 1..(n - (i + 1) + 1) : q[k] = axes[(i + 1) + k - 1]
    BY <1>1, <2>1
  <2>3. Len(q) = m /\ \A k \in 1..m : q[k] = axes[i + k]
    <3>1. n - (i + 1) + 1 = m
      BY <1>1
    <3>2. Len(q) = m
      <4>1. n \in Nat /\ i \in 0..n /\ m = n - i
        BY <1>1
      <4>2. Len(q) = IF i + 1 <= n THEN n - (i + 1) + 1 ELSE 0
        BY <2>2
      <4>. HIDE DEF q, n, m
      <4>3. CASE i + 1 <= n
        BY <3>1, <4>2, <4>3
      <4>4. CASE ~(i + 1 <= n)
        BY <4>1, <4>2, <4>4
      <4>. QED  BY <4>3, <4>4
    <3>3. ASSUME NEW k \in 1..m PROVE q[k] = axes[i + k]
      <4>1. (i + 1) + k - 1 = i + k
        BY <1>1
      <4>2. q[k] = axes[(i + 1) + k - 1]
        BY <2>2, <3>1
      <4>. QED  BY <4>1, <4>2
    <3>. HIDE DEF q
    <3>. QED  BY <3>2, <3>3
  <2>. QED  BY <2>2, <2>3 DEF R, Axes
<1>3. PICK h : Multiplies(h, q) /\ trial_count(q) = h[1..m]
  BY <1>2, TrialCountMultiplies
<1>. DEFINE Bad == {k \in 0..m : h[1..k] # g[(i + 1)..(i + k)]}
<1>4. Bad = {}
  <2>. SUFFICES ASSUME Bad # {} PROVE FALSE
    OBVIOUS
  <2>. DEFINE k == Min(Bad)
  <2>1. k \in Bad /\ \A l \in Bad : k <= l
    <3>1. Bad \in SUBSET Nat
      BY <1>1
    <3>. HIDE DEF Bad
    <3>. QED  BY <3>1, LeastOf
  <2>. HIDE DEF k
  <2>2. k # 0
    <3>1. 1..0 = {} /\ (i + 1)..(i + 0) = {}
      BY <1>1
    <3>2. h[{}] = 1 /\ g[{}] = 1
      BY <1>3, MultipliesNone
    <3>. QED  BY <2>1, <3>1, <3>2
  <2>3. k \in 1..m /\ k - 1 \in 0..m /\ h[1..(k - 1)] = g[(i + 1)..(i + (k - 1))]
    <3>1. k - 1 \notin Bad /\ k \in 1..m /\ k - 1 \in 0..m
      BY <2>1, <2>2
    <3>. QED  BY <3>1
  <2>4. h[1..k] = Times(h[1..(k - 1)], q[k])
    <3>1. 1 \in Int /\ k \in Int /\ 1 <= k /\ 1..k \subseteq DOMAIN q
      <4>1. k \in Int /\ 1 <= k /\ 1..k \subseteq 1..m /\ DOMAIN q = 1..m
        <5>. HIDE DEF q, m
        <5>. QED  BY <1>1, <1>2, <2>3
      <4>. QED  BY <4>1
    <3>. HIDE DEF q, m
    <3>2. Grows(h, q, 1, k)
      BY <1>3, <3>1, MultipliesOne
    <3>. QED  BY <3>2 DEF Grows
  <2>5. g[(i + 1)..(i + k)] = Times(g[(i + 1)..(i + (k - 1))], axes[i + k])
    <3>1. (i + k) - 1 = i + (k - 1)
      BY <1>1, <2>3
    <3>2. /\ i + 1 \in Int /\ i + k \in Int /\ i + 1 <= i + k
          /\ (i + 1)..(i + k) \subseteq DOMAIN axes
      <4>1. k \in Int /\ 1 <= k /\ i + k <= n
        BY <1>1, <2>3
      <4>2. (i + 1)..(i + k) \subseteq 1..n
        BY <1>1, <4>1
      <4>. QED  BY <1>1, <4>1, <4>2
    <3>3. g[(i + 1)..(i + k)] = Times(g[(i + 1)..((i + k) - 1)], axes[i + k])
      <4>. DEFINE a == i + 1
                  b == i + k
      <4>. HIDE DEF a, b
      <4>1. a \in Int /\ b \in Int /\ a <= b /\ a..b \subseteq DOMAIN axes
        BY <3>2 DEF a, b
      <4>2. Grows(g, axes, a, b)
        BY <4>1, MultipliesOne
      <4>. QED  BY <4>2 DEF a, b, Grows
    <3>. QED  BY <3>1, <3>3
  <2>6. q[k] = axes[i + k]
    BY <1>2, <2>3
  <2>. QED  BY <2>1, <2>3, <2>4, <2>5, <2>6
<1>5. h[1..m] = g[(i + 1)..(i + m)]
  <2>1. m \in 0..m /\ m \notin Bad
    BY <1>1, <1>4
  <2>. QED  BY <2>1
<1>6. i + m = n
  BY <1>1
<1>. QED  BY <1>3, <1>5, <1>6

(* The strides of the digits. *)
IsStrides(P, axes) ==
  /\ P \in [0..Len(axes) -> Nat \ {0}]
  /\ P[Len(axes)] = 1
  /\ \A i \in 1..Len(axes) : P[i - 1] = axes[i].size * P[i]

LEMMA StridesAre ==
  ASSUME NEW axes \in Axes
  PROVE  \E P : /\ IsStrides(P, axes)
                /\ trial_count(axes) = P[0]
                /\ \A i \in 1..Len(axes) : strides(axes)[i] = P[i]
<1>. DEFINE n == Len(axes)
<1>1. n \in Nat /\ DOMAIN axes = 1..n /\ \A i \in 1..n : axes[i].size \in Nat \ {0}
  BY AxesTyped
<1>2. PICK g \in [SUBSET DOMAIN axes -> Nat \ {0}] : Multiplies(g, axes)
  BY MultipliesExists
<1>. DEFINE P == [i \in 0..n |-> g[(i + 1)..n]]
<1>3. P \in [0..n -> Nat \ {0}]
  <2>1. \A i \in 0..n : (i + 1)..n \in SUBSET DOMAIN axes
    BY <1>1
  <2>. QED  BY <1>2, <2>1
<1>4. P[n] = 1
  <2>1. (n + 1)..n = {} /\ n \in 0..n
    BY <1>1
  <2>2. g[{}] = 1
    BY <1>2, MultipliesNone
  <2>. QED  BY <2>1, <2>2
<1>5. \A i \in 0..n : trial_count(SubSeq(axes, i + 1, n)) = P[i]
  BY <1>2, TrialCountOfRest
<1>6. trial_count(axes) = P[0]
  <2>1. SubSeq(axes, 0 + 1, n) = axes /\ 0 \in 0..n
    BY <1>1 DEF Axes
  <2>. QED  BY <1>5, <2>1
<1>7. \A i \in 1..n : strides(axes)[i] = P[i]
  BY <1>1, <1>5 DEF strides
<1>8. ASSUME NEW i \in 1..n PROVE P[i - 1] = axes[i].size * P[i]
  <2>. DEFINE s == axes[i].size
              Bad == {j \in i..n : g[i..j] # s * g[(i + 1)..j]}
  <2>0. i \in Nat \ {0} /\ s \in Nat \ {0}
    BY <1>1
  <2>. HIDE DEF s
  <2>1. Bad = {}
    <3>. SUFFICES ASSUME Bad # {} PROVE FALSE
      OBVIOUS
    <3>. DEFINE j == Min(Bad)
    <3>1. j \in Bad /\ \A l \in Bad : j <= l
      <4>1. Bad \in SUBSET Nat
        BY <1>1, <2>0
      <4>. HIDE DEF Bad
      <4>. QED  BY <4>1, LeastOf
    <3>. HIDE DEF j
    <3>2. j \in i..n /\ j \in Nat /\ i..j \subseteq DOMAIN axes /\ i..j # {}
      <4>1. j \in i..n
        BY <3>1
      <4>2. n \in Nat /\ DOMAIN axes = 1..n
        BY <1>1
      <4>. HIDE DEF n, Bad, P
      <4>3. j \in Int /\ i <= j /\ j <= n /\ j \in Nat /\ 1 <= i
        BY <2>0, <4>1, <4>2
      <4>4. i..j \subseteq 1..n /\ j \in i..j
        BY <2>0, <4>2, <4>3
      <4>. QED  BY <4>1, <4>2, <4>3, <4>4
    <3>3. g[i..j] = Times(g[i..(j - 1)], axes[j])
      <4>1. i \in Int /\ j \in Int /\ i <= j /\ i..j \subseteq DOMAIN axes
        BY <2>0, <3>2
      <4>2. Grows(g, axes, i, j)
        BY <1>2, <4>1, MultipliesOne
      <4>. QED  BY <4>2 DEF Grows
    <3>4. CASE j = i
      <4>1. i..(j - 1) = {} /\ (i + 1)..j = {}
        BY <2>0, <3>4
      <4>2. g[{}] = 1
        BY <1>2, MultipliesNone
      <4>3. g[i..j] = s * 1 /\ g[(i + 1)..j] = 1
        BY <2>0, <3>3, <3>4, <4>1, <4>2 DEF s, Times
      <4>. QED  BY <3>1, <4>3
    <3>5. CASE j # i
      <4>1. j - 1 \in i..n /\ j - 1 \notin Bad
        BY <2>0, <3>1, <3>2, <3>5
      <4>2. g[i..(j - 1)] = s * g[(i + 1)..(j - 1)]
        BY <4>1
      <4>3. g[(i + 1)..j] = Times(g[(i + 1)..(j - 1)], axes[j])
        <5>. DEFINE a == i + 1
        <5>1. a \in Int /\ j \in Int /\ a <= j /\ a..j \subseteq DOMAIN axes
          BY <1>1, <2>0, <3>2, <3>5
        <5>. HIDE DEF a
        <5>2. Grows(g, axes, a, j)
          BY <1>2, <5>1, MultipliesOne
        <5>. QED  BY <5>2 DEF a, Grows
      <4>4. g[(i + 1)..(j - 1)] \in Nat /\ axes[j].size \in Nat
        <5>1. (i + 1)..(j - 1) \in SUBSET DOMAIN axes
          BY <1>1, <2>0, <3>2
        <5>2. j \in 1..n
          BY <2>0, <3>2
        <5>3. axes[j].size \in Nat
          BY <1>1, <5>2
        <5>4. g[(i + 1)..(j - 1)] \in Nat
          BY <1>2, <5>1
        <5>. QED  BY <5>3, <5>4
      <4>. DEFINE a == g[(i + 1)..(j - 1)]
                  b == axes[j].size
      <4>5. (s * a) * b = s * (a * b)
        <5>1. a \in Nat /\ b \in Nat
          BY <4>4
        <5>. HIDE DEF a, b
        <5>. QED  BY <2>0, <5>1
      <4>. QED  BY <3>1, <3>3, <4>2, <4>3, <4>5 DEF Times
    <3>. QED  BY <3>4, <3>5
  <2>2. n \in i..n /\ n \notin Bad
    BY <1>1, <2>0, <2>1
  <2>3. g[i..n] = s * g[(i + 1)..n]
    BY <2>2
  <2>4. i - 1 \in 0..n /\ i \in 0..n /\ (i - 1) + 1 = i
    BY <1>1, <2>0
  <2>5. P[i - 1] = g[i..n] /\ P[i] = g[(i + 1)..n]
    BY <2>4
  <2>. QED  BY <2>3, <2>5 DEF s
<1>9. IsStrides(P, axes)
  BY <1>3, <1>4, <1>8 DEF IsStrides
<1>. QED  BY <1>6, <1>7, <1>9

LEMMA Divides ==
  ASSUME NEW a \in Nat, NEW b \in Nat \ {0}
  PROVE  a \div b \in Nat /\ a % b \in 0..(b - 1) /\ a = (a \div b) * b + (a % b)
OBVIOUS
LEMMA DividesOnly ==
  ASSUME NEW q \in Nat, NEW b \in Nat \ {0}, NEW r \in 0..(b - 1)
  PROVE  (q * b + r) \div b = q /\ (q * b + r) % b = r
<1>. DEFINE a == q * b + r
<1>1. a \in Nat BY ProductIn
<1>2. a \div b \in Nat /\ a % b \in 0..(b - 1) /\ a = (a \div b) * b + (a % b) BY <1>1, Divides
<1>. DEFINE p == a \div b
            s == a % b
<1>3. q * b + r = p * b + s BY <1>2
<1>4. p \in Nat /\ s \in 0..(b-1) BY <1>2
<1>. HIDE DEF p, s, a
<1>5. CASE p < q
  <2>1. PICK k \in Nat : q = p + k + 1 BY <1>4, <1>5
  <2>2. q * b = p * b + k * b + b BY <2>1, <1>4
  <2>3. k * b \in Nat BY <2>1, ProductIn
  <2>. QED BY <2>2, <2>3, <1>3, <1>4
<1>6. CASE q < p
  <2>1. PICK k \in Nat : p = q + k + 1 BY <1>4, <1>6
  <2>2. p * b = q * b + k * b + b BY <2>1, <1>4
  <2>3. k * b \in Nat BY <2>1, ProductIn
  <2>. QED BY <2>2, <2>3, <1>3, <1>4
<1>7. CASE p = q BY <1>3, <1>4, <1>7 DEF p, s, a
<1>. QED BY <1>4, <1>5, <1>6, <1>7

LEMMA ProductsAssociate ==
  ASSUME NEW a \in Nat, NEW b \in Nat, NEW c \in Nat
  PROVE  (a * b) * c = a * (b * c) /\ a * b = b * a
OBVIOUS

LEMMA SumsDistribute ==
  ASSUME NEW a \in Nat, NEW b \in Nat, NEW c \in Nat
  PROVE  (a + b) * c = a * c + b * c
OBVIOUS

LEMMA ProductsGrow ==
  ASSUME NEW a \in Nat, NEW b \in Nat, NEW c \in Nat, a <= b
  PROVE  a * c <= b * c
<1>1. PICK k \in Nat : b = a + k
  OBVIOUS
<1>2. b * c = a * c + k * c /\ k * c \in Nat /\ a * c \in Nat
  BY <1>1, SumsDistribute, ProductIn
<1>. QED  BY <1>2

(* A digit, and what is left of it, in the next greater unit. *)
LEMMA NextDigit ==
  ASSUME NEW t \in Nat, NEW p \in Nat \ {0}, NEW s \in Nat \ {0}
  PROVE  t \div p = (t \div (s * p)) * s + ((t \div p) % s)
<1>. DEFINE q == t \div p
            r == t % p
            a == q \div s
            b == q % s
<1>1. q \in Nat /\ r \in 0..(p - 1) /\ t = q * p + r
  BY Divides
<1>2. a \in Nat /\ b \in 0..(s - 1) /\ q = a * s + b
  BY <1>1, Divides
<1>. HIDE DEF q, r, a, b
<1>3. t = a * (s * p) + (b * p + r)
  <2>1. q * p = (a * s) * p + b * p
    BY <1>2, ProductIn, SumsDistribute
  <2>2. (a * s) * p = a * (s * p)
    BY <1>2, ProductsAssociate
  <2>3. b * p \in Nat /\ a * (s * p) \in Nat /\ s * p \in Nat
    BY <1>2, ProductIn
  <2>. QED  BY <1>1, <2>1, <2>2, <2>3
<1>4. b * p + r \in 0..(s * p - 1) /\ s * p \in Nat \ {0}
  <2>1. (b + 1) * p <= s * p /\ (b + 1) * p = b * p + 1 * p
    BY <1>2, ProductsGrow, SumsDistribute
  <2>2. b * p \in Nat /\ s * p \in Nat \ {0} /\ 1 * p = p
    BY <1>2, ProductIn, Positive
  <2>. QED  BY <1>1, <2>1, <2>2
<1>5. t \div (s * p) = a
  <2>. DEFINE z == s * p
              y == b * p + r
  <2>1. z \in Nat \ {0} /\ y \in 0..(z - 1) /\ t = a * z + y
    BY <1>3, <1>4
  <2>. HIDE DEF z, y
  <2>2. t \div z = a
    BY <1>2, <2>1, DividesOnly
  <2>. QED  BY <2>2 DEF z
<1>. QED  BY <1>2, <1>5 DEF q, a, b

Unseen(u, c, p, s, m) == ((u + c * (m * (s * p))) \div p) % s = (u \div p) % s

(* Multiples of a unit that a greater digit is made of are not seen.       *)
LEMMA LowerDigit ==
  ASSUME NEW u \in Nat, NEW c \in Nat, NEW p \in Nat \ {0}, NEW s \in Nat \ {0}, NEW m \in Nat
  PROVE  Unseen(u, c, p, s, m)
<1>. DEFINE q == u \div p
            r == u % p
            a == q \div s
            b == q % s
            k == c * m
<1>1. q \in Nat /\ r \in 0..(p - 1) /\ u = q * p + r
  BY Divides
<1>2. a \in Nat /\ b \in 0..(s - 1) /\ q = a * s + b
  BY <1>1, Divides
<1>3. k \in Nat /\ s * p \in Nat
  BY ProductIn
<1>4. c * (m * (s * p)) = (k * s) * p
  <2>1. c * (m * (s * p)) = k * (s * p)
    BY <1>3, ProductsAssociate
  <2>. HIDE DEF k
  <2>2. k * (s * p) = (k * s) * p
    BY <1>3, ProductsAssociate
  <2>. QED  BY <2>1, <2>2
<1>. HIDE DEF q, r, a, b, k
<1>5. k * s \in Nat /\ a * s \in Nat
  BY <1>2, <1>3, ProductIn
<1>6. u + c * (m * (s * p)) = (q + k * s) * p + r
  <2>1. (q + k * s) * p = q * p + (k * s) * p
    BY <1>1, <1>5, SumsDistribute
  <2>2. q * p \in Nat /\ (k * s) * p \in Nat
    BY <1>1, <1>5, ProductIn
  <2>. QED  BY <1>1, <1>4, <2>1, <2>2
<1>7. (u + c * (m * (s * p))) \div p = q + k * s
  <2>. DEFINE v == q + k * s
  <2>1. v \in Nat
    BY <1>1, <1>5
  <2>. HIDE DEF v
  <2>2. (v * p + r) \div p = v
    BY <1>1, <2>1, DividesOnly
  <2>. QED  BY <1>6, <2>2 DEF v
<1>8. q + k * s = (a + k) * s + b
  <2>1. (a + k) * s = a * s + k * s
    BY <1>2, <1>3, SumsDistribute
  <2>. QED  BY <1>2, <1>5, <2>1
<1>9. (q + k * s) % s = b
  <2>1. a + k \in Nat
    BY <1>2, <1>3
  <2>2. ((a + k) * s + b) % s = b
    BY <1>2, <2>1, DividesOnly
  <2>. QED  BY <1>8, <2>2
<1>. QED  BY <1>7, <1>9 DEF q, b, Unseen

LEMMA StrideTyped ==
  ASSUME NEW axes \in Axes, NEW P, IsStrides(P, axes)
  PROVE  /\ Len(axes) \in Nat /\ DOMAIN axes = 1..Len(axes)
         /\ \A i \in 0..Len(axes) : P[i] \in Nat \ {0}
         /\ \A i \in 1..Len(axes) : /\ axes[i].size \in Nat \ {0}
                                   /\ P[i] \in Nat \ {0} /\ P[i - 1] \in Nat \ {0}
                                   /\ P[i - 1] = axes[i].size * P[i]
<1>1. Len(axes) \in Nat /\ DOMAIN axes = 1..Len(axes) /\ \A i \in DOMAIN axes : axes[i].size \in Nat \ {0}
  BY AxesTyped
<1>2. \A i \in 1..Len(axes) : i \in 0..Len(axes) /\ i - 1 \in 0..Len(axes)
  BY <1>1
<1>. QED  BY <1>1, <1>2 DEF IsStrides

(* A stride is a multiple of the units of the digits below it. *)
Multiple(a, b) == \E m \in Nat \ {0} : a = m * b

LEMMA StrideIsMultiple ==
  ASSUME NEW axes \in Axes, NEW P, IsStrides(P, axes), NEW i \in 1..Len(axes), NEW k \in 0..(i - 1)
  PROVE  Multiple(P[k], axes[i].size * P[i])
<1>. DEFINE Bad == {j \in 0..(i - 1) : ~\E m \in Nat \ {0} : P[j] = m * (axes[i].size * P[i])}
<1>. SUFFICES ASSUME Bad # {} PROVE FALSE
  BY DEF Multiple
<1>. DEFINE j == Max(Bad)
<1>0. Len(axes) \in Nat /\ i \in Nat \ {0} /\ i <= Len(axes)
  BY StrideTyped
<1>1. j \in Bad /\ \A l \in Bad : l <= j
  <2>1. Bad \in SUBSET Int /\ IsFiniteSet(Bad)
    <3>1. Bad \subseteq 0..(i - 1) /\ IsFiniteSet(0..(i - 1))
      BY <1>0, FS_Interval
    <3>. QED  BY <3>1, FS_Subset
  <2>. HIDE DEF Bad
  <2>. QED  BY <2>1, GreatestOf
<1>. HIDE DEF j
<1>2. j # i - 1
  <2>1. P[i - 1] = axes[i].size * P[i] /\ P[i - 1] \in Nat \ {0}
    BY StrideTyped
  <2>2. P[i - 1] = 1 * (axes[i].size * P[i])
    <3>. DEFINE a == axes[i].size * P[i]
    <3>1. a \in Nat /\ P[i - 1] = a
      BY <2>1
    <3>. HIDE DEF a
    <3>2. P[i - 1] = 1 * a
      BY <3>1
    <3>. QED  BY <3>2 DEF a
  <2>. QED  BY <1>1, <2>2
<1>3. j + 1 \in 0..(i - 1) /\ j + 1 \in 1..Len(axes) /\ j + 1 \notin Bad /\ j \in Nat
  BY <1>0, <1>1, <1>2
<1>4. PICK m \in Nat \ {0} : P[j + 1] = m * (axes[i].size * P[i])
  BY <1>3
<1>. DEFINE l == j + 1
            s == axes[l].size
            u == axes[i].size * P[i]
<1>5. P[l - 1] = s * P[l] /\ s \in Nat \ {0} /\ u \in Nat
  <2>1. l \in 1..Len(axes)
    BY <1>3
  <2>2. axes[i].size \in Nat /\ P[i] \in Nat
    BY StrideTyped
  <2>. HIDE DEF l
  <2>. QED  BY <2>1, <2>2, StrideTyped, ProductIn
<1>6. l - 1 = j /\ P[l] = m * u
  BY <1>3, <1>4
<1>. HIDE DEF l, s, u
<1>7. P[j] = (s * m) * u
  <2>1. P[j] = s * (m * u)
    BY <1>5, <1>6
  <2>. QED  BY <1>5, <2>1, ProductsAssociate
<1>8. s * m \in Nat \ {0}
  BY <1>5, Positive
<1>. QED  BY <1>1, <1>7, <1>8 DEF u

Digit(P, axes, t, i) == (t \div P[i]) % axes[i].size

(* The digits of a number are below the sizes. *)
LEMMA DigitIsSmall ==
  ASSUME NEW axes \in Axes, NEW P, IsStrides(P, axes), NEW t \in Nat, NEW i \in 1..Len(axes)
  PROVE  Digit(P, axes, t, i) \in 0..(axes[i].size - 1)
<1>1. P[i] \in Nat \ {0} /\ axes[i].size \in Nat \ {0}
  BY StrideTyped
<1>2. t \div P[i] \in Nat
  BY <1>1, Divides
<1>. QED  BY <1>1, <1>2, Divides DEF Digit

(* Two trials that agree in all digits are one. *)
LEMMA DigitsTell ==
  ASSUME NEW axes \in Axes, NEW P, IsStrides(P, axes),
         NEW t \in 0..(P[0] - 1), NEW u \in 0..(P[0] - 1),
         \A i \in 1..Len(axes) : Digit(P, axes, t, i) = Digit(P, axes, u, i)
  PROVE  t = u
<1>. DEFINE n == Len(axes)
            Bad == {i \in 0..n : t \div P[i] # u \div P[i]}
<1>1. n \in Nat /\ P[0] \in Nat \ {0} /\ t \in Nat /\ u \in Nat
  BY StrideTyped
<1>2. Bad = {}
  <2>. SUFFICES ASSUME Bad # {} PROVE FALSE
    OBVIOUS
  <2>. DEFINE i == Min(Bad)
  <2>1. i \in Bad /\ \A l \in Bad : i <= l
    <3>1. Bad \in SUBSET Nat
      OBVIOUS
    <3>. HIDE DEF Bad
    <3>. QED  BY <3>1, LeastOf
  <2>. HIDE DEF i
  <2>2. i # 0
    <3>1. t = 0 * P[0] + t /\ u = 0 * P[0] + u
      BY <1>1
    <3>2. t \div P[0] = 0 /\ u \div P[0] = 0
      BY <1>1, <3>1, DividesOnly
    <3>. QED  BY <2>1, <3>2
  <2>3. i \in 1..n /\ i - 1 \in 0..n /\ i - 1 \notin Bad
    BY <1>1, <2>1, <2>2
  <2>4. t \div P[i - 1] = u \div P[i - 1]
    BY <2>3
  <2>5. P[i] \in Nat \ {0} /\ axes[i].size \in Nat \ {0} /\ P[i - 1] = axes[i].size * P[i]
    BY <2>3, StrideTyped
  <2>6. /\ t \div P[i] = (t \div P[i - 1]) * axes[i].size + Digit(P, axes, t, i)
        /\ u \div P[i] = (u \div P[i - 1]) * axes[i].size + Digit(P, axes, u, i)
    <3>. DEFINE p == P[i]
                s == axes[i].size
    <3>1. p \in Nat \ {0} /\ s \in Nat \ {0}
      BY <2>5
    <3>. HIDE DEF p, s
    <3>2. /\ t \div p = (t \div (s * p)) * s + ((t \div p) % s)
          /\ u \div p = (u \div (s * p)) * s + ((u \div p) % s)
      BY <1>1, <3>1, NextDigit
    <3>. QED  BY <2>5, <3>2 DEF p, s, Digit
  <2>. QED  BY <2>1, <2>3, <2>4, <2>6
<1>3. t \div P[n] = t /\ u \div P[n] = u
  <2>1. P[n] = 1
    BY DEF IsStrides
  <2>. QED  BY <1>1, <2>1
<1>4. n \in 0..n /\ n \notin Bad
  BY <1>1, <1>2
<1>. QED  BY <1>3, <1>4

(* Any digits below the sizes are those of a trial. *)
LEMMA DigitsOccur ==
  ASSUME NEW axes \in Axes, NEW P, IsStrides(P, axes), NEW c,
         \A i \in 1..Len(axes) : c[i] \in 0..(axes[i].size - 1)
  PROVE  \E t \in 0..(P[0] - 1) : \A i \in 1..Len(axes) : Digit(P, axes, t, i) = c[i]
<1>. DEFINE n == Len(axes)
            Has(k) == \E t \in 0..(P[k] - 1) : \A i \in (k + 1)..n : Digit(P, axes, t, i) = c[i]
            Bad == {k \in 0..n : ~Has(k)}
<1>1. n \in Nat /\ \A k \in 0..n : P[k] \in Nat \ {0}
  BY StrideTyped
<1>2. Bad = {}
  <2>. SUFFICES ASSUME Bad # {} PROVE FALSE
    OBVIOUS
  <2>. DEFINE k == Max(Bad)
  <2>1. k \in Bad /\ \A l \in Bad : l <= k
    <3>1. Bad \in SUBSET Int /\ IsFiniteSet(Bad)
      <4>1. Bad \subseteq 0..n /\ IsFiniteSet(0..n)
        BY <1>1, FS_Interval
      <4>. QED  BY <4>1, FS_Subset
    <3>. HIDE DEF Bad
    <3>. QED  BY <3>1, GreatestOf
  <2>. HIDE DEF k
  <2>2. k # n
    <3>1. P[n] = 1 /\ (n + 1)..n = {}
      BY <1>1 DEF IsStrides
    <3>2. Has(n)
      BY <3>1
    <3>. QED  BY <2>1, <3>2
  <2>. DEFINE j == k + 1
  <2>3. k \in Nat /\ j \in Nat /\ j \in 1..n /\ j \in 0..n /\ j \notin Bad /\ j - 1 = k
    <3>1. k \in 0..n
      BY <2>1
    <3>2. k \in Nat /\ j \in Nat /\ j \in 1..n /\ j \in 0..n /\ j - 1 = k /\ ~(j <= k)
      BY <1>1, <2>2, <3>1
    <3>. HIDE DEF Bad, j
    <3>. QED  BY <2>1, <3>2
  <2>. HIDE DEF j, Has
  <2>4. Has(j)
    BY <2>3
  <2>5. PICK u \in 0..(P[j] - 1) : \A i \in (j + 1)..n : Digit(P, axes, u, i) = c[i]
    BY <2>4 DEF Has
  <2>. DEFINE s == axes[j].size
              p == P[j]
              v == c[j] * p + u
  <2>6. /\ s \in Nat \ {0} /\ p \in Nat \ {0} /\ P[k] = s * p
        /\ c[j] \in 0..(s - 1) /\ c[j] \in Nat /\ u \in 0..(p - 1) /\ u \in Nat
    <3>1. s \in Nat \ {0} /\ p \in Nat \ {0} /\ P[j - 1] = s * p
      BY <2>3, StrideTyped
    <3>2. c[j] \in 0..(s - 1)
      BY <2>3
    <3>. QED  BY <2>3, <2>5, <3>1, <3>2
  <2>. HIDE DEF s, p
  <2>7. v \in 0..(P[k] - 1) /\ v \in Nat
    <3>. DEFINE d == c[j]
    <3>1. d \in 0..(s - 1) /\ d \in Nat /\ v = d * p + u
      BY <2>6
    <3>. HIDE DEF d, v
    <3>2. (d + 1) * p <= s * p /\ (d + 1) * p = d * p + 1 * p
      BY <2>6, <3>1, ProductsGrow, SumsDistribute
    <3>3. d * p \in Nat /\ s * p \in Nat /\ 1 * p = p
      BY <2>6, <3>1, ProductIn
    <3>. DEFINE x == d * p
                z == s * p
    <3>4. x \in Nat /\ z \in Nat /\ x + p <= z /\ v = x + u /\ P[k] = z
      BY <2>6, <3>1, <3>2, <3>3
    <3>. HIDE DEF x, z
    <3>. QED  BY <2>6, <3>4
  <2>8. Digit(P, axes, v, j) = c[j]
    <3>. DEFINE d == c[j]
    <3>1. d \in 0..(s - 1) /\ d \in Nat /\ v = d * p + u
      BY <2>6
    <3>2. v \div p = d
      <4>. HIDE DEF d, v
      <4>1. (d * p + u) \div p = d
        BY <2>6, <3>1, DividesOnly
      <4>. QED  BY <3>1, <4>1
    <3>3. d % s = d
      <4>. HIDE DEF d, v
      <4>1. (0 * s + d) % s = d
        BY <2>6, <3>1, DividesOnly
      <4>2. 0 * s + d = d
        BY <2>6, <3>1
      <4>. QED  BY <4>1, <4>2
    <3>. QED  BY <3>2, <3>3 DEF Digit, p, s
  <2>9. ASSUME NEW i \in (j + 1)..n PROVE Digit(P, axes, v, i) = c[i]
    <3>1. i \in 1..n /\ j \in 0..(i - 1)
      BY <1>1, <2>3, <2>9
    <3>. DEFINE w == axes[i].size
                q == P[i]
    <3>2. w \in Nat \ {0} /\ q \in Nat \ {0}
      BY <3>1, StrideTyped
    <3>3. PICK m \in Nat \ {0} : p = m * (w * q)
      <4>1. Multiple(P[j], axes[i].size * P[i])
        BY <3>1, StrideIsMultiple
      <4>. QED  BY <4>1 DEF p, Multiple
    <3>. DEFINE d == c[j]
    <3>4. d \in Nat /\ v = u + d * (m * (w * q))
      <4>1. d \in Nat /\ v = d * p + u
        BY <2>6
      <4>. HIDE DEF d, v, w, q
      <4>2. d * p \in Nat /\ d * p = d * (m * (w * q))
        BY <2>6, <3>3, <4>1, ProductIn
      <4>. QED  BY <2>6, <4>1, <4>2
    <3>. HIDE DEF d, v, w, q
    <3>5. Unseen(u, d, q, w, m)
      <4>1. u \in Nat /\ d \in Nat /\ q \in Nat \ {0} /\ w \in Nat \ {0} /\ m \in Nat
        BY <2>6, <3>2, <3>3, <3>4
      <4>. HIDE DEF p
      <4>. QED  BY <4>1, LowerDigit
    <3>6. (v \div q) % w = (u \div q) % w
      BY <3>4, <3>5 DEF Unseen
    <3>. QED  BY <2>5, <3>6 DEF Digit, w, q
  <2>10. Has(k)
    <3>1. \A i \in (k + 1)..n : i = j \/ i \in (j + 1)..n
      BY <1>1, <2>3 DEF j
    <3>. HIDE DEF v
    <3>. QED  BY <2>7, <2>8, <2>9, <3>1 DEF Has
  <2>. QED  BY <2>1, <2>10
<1>3. Has(0)
  <2>1. 0 \in 0..n /\ 0 \notin Bad
    BY <1>1, <1>2
  <2>. QED  BY <2>1
<1>4. PICK t \in 0..(P[0] - 1) : \A i \in (0 + 1)..n : Digit(P, axes, t, i) = c[i]
  BY <1>3
<1>5. 0 + 1 = 1
  OBVIOUS
<1>. QED  BY <1>4, <1>5

(* The trials are all combinations of values, each of them once. *)
LEMMA TrialsAreCombinations ==
  ASSUME NEW axes \in Axes
  PROVE  LET n == trial_count(axes)
             trials == 0..(n - 1)
             combinations == {offsets(axes, t) : t \in trials}
         IN /\ n \in Nat \ {0}
            /\ \A t, u \in trials : offsets(axes, t) = offsets(axes, u) => t = u
            /\ Cardinality(combinations) = Cardinality(trials)
            /\ combinations = {c \in [DOMAIN axes -> 0..n] : \A i \in DOMAIN axes : c[i] < axes[i].size}
<1>1. PICK P : /\ IsStrides(P, axes) /\ trial_count(axes) = P[0]
               /\ \A i \in 1..Len(axes) : strides(axes)[i] = P[i]
  BY StridesAre
<1>2. /\ Len(axes) \in Nat /\ DOMAIN axes = 1..Len(axes) /\ P[0] \in Nat \ {0}
      /\ \A i \in 1..Len(axes) : /\ axes[i].size \in Nat \ {0} /\ P[i] \in Nat \ {0}
                                /\ P[i - 1] = axes[i].size * P[i]
  <2>1. 0 \in 0..Len(axes)
    BY <1>1, StrideTyped
  <2>. QED  BY <1>1, <2>1, StrideTyped
<1>. DEFINE n == P[0]
            trials == 0..(n - 1)
            combinations == {offsets(axes, t) : t \in trials}
            All == {c \in [DOMAIN axes -> 0..n] : \A i \in DOMAIN axes : c[i] < axes[i].size}
<1>3. \A t : offsets(axes, t) = [i \in DOMAIN axes |-> Digit(P, axes, t, i)]
  <2>1. \A t : \A i \in DOMAIN axes : (t \div strides(axes)[i]) % axes[i].size = Digit(P, axes, t, i)
    BY <1>1, <1>2 DEF Digit
  <2>. QED  BY <2>1 DEF offsets
<1>4. ASSUME NEW t \in trials, NEW u \in trials, offsets(axes, t) = offsets(axes, u)
      PROVE  t = u
  <2>1. \A i \in DOMAIN axes : Digit(P, axes, t, i) = Digit(P, axes, u, i)
    BY <1>3, <1>4
  <2>2. t \in 0..(P[0] - 1) /\ u \in 0..(P[0] - 1)
    OBVIOUS
  <2>3. \A i \in 1..Len(axes) : Digit(P, axes, t, i) = Digit(P, axes, u, i)
    BY <1>2, <2>1
  <2>. HIDE DEF trials, n
  <2>. QED  BY <1>1, <2>2, <2>3, DigitsTell
<1>5. ASSUME NEW i \in 1..Len(axes) PROVE axes[i].size <= n
  <2>1. i \in Nat /\ 0 \in 0..(i - 1)
    BY <1>2
  <2>2. PICK m \in Nat \ {0} : P[0] = m * (axes[i].size * P[i])
    <3>1. Multiple(P[0], axes[i].size * P[i])
      BY <1>1, <2>1, StrideIsMultiple
    <3>. QED  BY <3>1 DEF Multiple
  <2>. DEFINE s == axes[i].size
              p == P[i]
  <2>3. s \in Nat \ {0} /\ p \in Nat \ {0} /\ P[0] = m * (s * p)
    BY <1>2, <2>2
  <2>. HIDE DEF s, p
  <2>. DEFINE a == s * p
  <2>4. a \in Nat \ {0} /\ s <= a
    BY <2>3, Positive
  <2>5. P[0] = m * a
    BY <2>3
  <2>. HIDE DEF a
  <2>6. a <= m * a /\ m * a \in Nat
    BY <2>4, Positive
  <2>. QED  BY <2>3, <2>4, <2>5, <2>6 DEF s
<1>6. ASSUME NEW t \in trials PROVE offsets(axes, t) \in All
  <2>1. \A i \in 1..Len(axes) : Digit(P, axes, t, i) \in 0..(axes[i].size - 1)
    <3>1. t \in Nat
      BY <1>2
    <3>. QED  BY <1>1, <3>1, DigitIsSmall
  <2>2. \A i \in 1..Len(axes) : Digit(P, axes, t, i) \in 0..n /\ Digit(P, axes, t, i) < axes[i].size
    BY <1>2, <1>5, <2>1
  <2>. QED  BY <1>2, <1>3, <2>2
<1>7. ASSUME NEW c \in All PROVE c \in combinations
  <2>1. \A i \in 1..Len(axes) : c[i] \in 0..(axes[i].size - 1)
    BY <1>2
  <2>2. PICK t \in trials : \A i \in 1..Len(axes) : Digit(P, axes, t, i) = c[i]
    BY <1>1, <2>1, DigitsOccur
  <2>3. c = [i \in DOMAIN axes |-> c[i]]
    OBVIOUS
  <2>4. offsets(axes, t) = c
    BY <1>2, <1>3, <2>2, <2>3
  <2>. QED  BY <2>4
<1>8. combinations = All
  BY <1>6, <1>7
<1>9. Cardinality(combinations) = Cardinality(trials)
  <2>. DEFINE f == [t \in trials |-> offsets(axes, t)]
  <2>1. f \in Bijection(trials, combinations)
    <3>. HIDE DEF trials
    <3>0. \A t \in trials : f[t] = offsets(axes, t) /\ offsets(axes, t) \in combinations
      OBVIOUS
    <3>1. f \in [trials -> combinations] /\ \A c \in combinations : \E t \in trials : f[t] = c
      <4>1. \A c \in combinations : \E t \in trials : offsets(axes, t) = c
        OBVIOUS
      <4>. HIDE DEF trials, combinations
      <4>. QED  BY <3>0, <4>1
    <3>2. \A t, u \in trials : f[t] = f[u] => t = u
      <4>. HIDE DEF trials, combinations, f
      <4>. QED  BY <1>4, <3>0
    <3>. HIDE DEF f, trials, combinations
    <3>. QED  BY <3>1, <3>2 DEF Bijection, Injection, Surjection, IsInjective
  <2>2. IsFiniteSet(trials)
    <3>1. n \in Nat
      BY <1>2
    <3>. HIDE DEF n
    <3>2. n - 1 \in Int
      BY <3>1
    <3>. QED  BY <3>2, FS_Interval
  <2>. HIDE DEF f, trials, combinations
  <2>. QED  BY <2>1, <2>2, FS_Bijection DEF ExistsBijection
<1>. QED  BY <1>1, <1>2, <1>4, <1>8, <1>9

------------------------------------------------------------------------------
(***************************************************************************)
(* What Upstream computes.                                                 *)
(***************************************************************************)
Transitive(R) == \A s, k, d : <<s, k>> \in R /\ <<k, d>> \in R => <<s, d>> \in R

Closes(h, edges, S) ==
  h = [T \in SUBSET S |-> IF T = {} THEN edges ELSE Through(Picked(T), h[T \ {Picked(T)}])]

LEMMA ThroughAdds ==
  ASSUME NEW A, NEW B, NEW paths, paths \subseteq A \X B, NEW k
  PROVE  /\ Through(k, paths) \subseteq A \X B
         /\ \A s, d : <<s, d>> \in Through(k, paths) <=>
              <<s, d>> \in paths \/ (<<s, k>> \in paths /\ <<k, d>> \in paths)
<1>. DEFINE In == {e[1] : e \in {e \in paths : e[2] = k}}
            Out == {e[2] : e \in {e \in paths : e[1] = k}}
<1>1. Through(k, paths) = paths \cup (In \X Out)
  BY DEF Through
<1>2. \A e \in paths : e = <<e[1], e[2]>> /\ e[1] \in A /\ e[2] \in B
  OBVIOUS
<1>3. \A s : s \in In <=> <<s, k>> \in paths
  <2>1. ASSUME NEW s, s \in In PROVE <<s, k>> \in paths
    <3>1. PICK e \in paths : e[2] = k /\ s = e[1]
      BY <2>1
    <3>. QED  BY <1>2, <3>1
  <2>2. ASSUME NEW s, <<s, k>> \in paths PROVE s \in In
    <3>1. <<s, k>>[1] = s /\ <<s, k>>[2] = k
      OBVIOUS
    <3>. QED  BY <2>2, <3>1
  <2>. QED  BY <2>1, <2>2
<1>4. \A d : d \in Out <=> <<k, d>> \in paths
  <2>1. ASSUME NEW d, d \in Out PROVE <<k, d>> \in paths
    <3>1. PICK e \in paths : e[1] = k /\ d = e[2]
      BY <2>1
    <3>. QED  BY <1>2, <3>1
  <2>2. ASSUME NEW d, <<k, d>> \in paths PROVE d \in Out
    <3>1. <<k, d>>[1] = k /\ <<k, d>>[2] = d
      OBVIOUS
    <3>. QED  BY <2>2, <3>1
  <2>. QED  BY <2>1, <2>2
<1>5. \A s, d : <<s, d>> \in In \X Out <=> s \in In /\ d \in Out
  OBVIOUS
<1>6. \A s \in In : s \in A
  BY <1>2
<1>7. \A d \in Out : d \in B
  BY <1>2
<1>8. In \X Out \subseteq A \X B
  <2>. HIDE DEF In, Out
  <2>. QED  BY <1>6, <1>7
<1>. HIDE DEF In, Out
<1>. QED  BY <1>1, <1>3, <1>4, <1>5, <1>8

LEMMA ClosesUnfolds ==
  ASSUME NEW h, NEW edges, NEW S, Closes(h, edges, S), NEW T, T \subseteq S
  PROVE  h[T] = IF T = {} THEN edges ELSE Through(Picked(T), h[T \ {Picked(T)}])
BY DEF Closes

LEMMA ClosesExists ==
  ASSUME NEW S, IsFiniteSet(S), NEW A, NEW B, NEW edges, edges \subseteq A \X B
  PROVE  \E h : Closes(h, edges, S)
<1>. DEFINE V == SUBSET (A \X B)
            step == [x \in S \X V |-> Through(x[1], x[2])]
            pick == [T \in SUBSET S |-> Picked(T)]
<1>1. step \in [S \X V -> V]
  <2>1. ASSUME NEW x \in S \X V PROVE Through(x[1], x[2]) \in V
    BY ThroughAdds
  <2>. QED  BY <2>1
<1>2. Picks(pick, S)
  BY PickedIn DEF Picks
<1>3. edges \in V
  OBVIOUS
<1>4. \E h \in [SUBSET S -> V] : Folds(h, step, pick, edges, S)
  <2>. HIDE DEF V, step, pick
  <2>. QED  BY <1>1, <1>2, <1>3, FoldExists
<1>5. PICK h \in [SUBSET S -> V] : Folds(h, step, pick, edges, S)
  BY <1>4
<1>6. ASSUME NEW T \in SUBSET S, T # {}
      PROVE  step[<<pick[T], h[T \ {pick[T]}]>>] = Through(Picked(T), h[T \ {Picked(T)}])
  <2>1. pick[T] = Picked(T) /\ Picked(T) \in S /\ T \ {Picked(T)} \in SUBSET S
    BY <1>6, PickedIn
  <2>2. <<Picked(T), h[T \ {Picked(T)}]>> \in S \X V
    BY <2>1, <1>5
  <2>. QED  BY <2>1, <2>2
<1>7. Closes(h, edges, S)
  <2>1. h = [T \in SUBSET S |-> IF T = {} THEN edges ELSE step[<<pick[T], h[T \ {pick[T]}]>>]]
    BY <1>5 DEF Folds
  <2>. HIDE DEF step, pick, V
  <2>. QED  BY <2>1, <1>6 DEF Closes
<1>. QED  BY <1>7

(* With the inner steps of T closed over, paths lead on through all of T.  *)
Leads(paths, edges, T) ==
  /\ edges \subseteq paths
  /\ \A R : edges \subseteq R /\ Transitive(R) => paths \subseteq R
  /\ \A s, d : \A k \in T : <<s, k>> \in paths /\ <<k, d>> \in paths => <<s, d>> \in paths

LEMMA ClosedOver ==
  ASSUME NEW S, IsFiniteSet(S), NEW A, NEW B, NEW edges, edges \subseteq A \X B,
         NEW h, Closes(h, edges, S), NEW Z, Z \subseteq S
  PROVE  h[Z] \subseteq A \X B /\ Leads(h[Z], edges, Z)
<1>. DEFINE Good(T) == h[T] \subseteq A \X B /\ Leads(h[T], edges, T)
            Bad == {T \in SUBSET S : ~Good(T)}
<1>. SUFFICES ASSUME Bad # {} PROVE FALSE
  OBVIOUS
<1>. DEFINE T == Smallest(Bad)
<1>1. T \in Bad /\ \A U \in Bad : U \subseteq T => U = T
  <2>1. Bad \subseteq SUBSET S
    OBVIOUS
  <2>. HIDE DEF Bad
  <2>. QED  BY <2>1, SmallestPart
<1>. HIDE DEF T
<1>2. CASE T = {}
  <2>1. h[T] = edges
    BY <1>2, ClosesUnfolds
  <2>. QED  BY <1>1, <1>2, <2>1 DEF Leads
<1>3. CASE T # {}
  <2>. DEFINE k == Picked(T)
              U == T \ {k}
              old == h[U]
              new == h[T]
  <2>1. k \in T /\ U \subseteq T /\ U # T /\ U \subseteq S /\ T \subseteq S
    BY <1>1, <1>3, PickedIn
  <2>2. new = Through(k, old)
    BY <1>3, <2>1, ClosesUnfolds
  <2>3. old \subseteq A \X B /\ Leads(old, edges, U)
    BY <1>1, <2>1
  <2>. HIDE DEF k
  <2>. HIDE DEF old, new
  <2>4. /\ new \subseteq A \X B
        /\ \A s, d : <<s, d>> \in new <=>
             <<s, d>> \in old \/ (<<s, k>> \in old /\ <<k, d>> \in old)
    BY <2>2, <2>3, ThroughAdds
  <2>5. \A e \in A \X B : e = <<e[1], e[2]>>
    OBVIOUS
  <2>6. old \subseteq new
    <3>1. ASSUME NEW e \in old PROVE e \in new
      <4>1. e = <<e[1], e[2]>>
        BY <2>3, <2>5
      <4>. DEFINE a == e[1]
                  b == e[2]
      <4>2. e = <<a, b>> /\ <<a, b>> \in old
        BY <3>1, <4>1
      <4>. HIDE DEF a, b
      <4>. QED  BY <2>4, <4>2
    <3>. QED  BY <3>1
  <2>7. ASSUME NEW R, edges \subseteq R, Transitive(R) PROVE new \subseteq R
    <3>1. old \subseteq R
      BY <2>3, <2>7 DEF Leads
    <3>2. ASSUME NEW s, NEW d, <<s, d>> \in new PROVE <<s, d>> \in R
      BY <2>4, <2>7, <3>1, <3>2 DEF Transitive
    <3>. QED  BY <2>4, <2>5, <3>2
  <2>8. ASSUME NEW s, NEW d, NEW j \in T, <<s, j>> \in new, <<j, d>> \in new
        PROVE  <<s, d>> \in new
    <3>1. CASE j = k
      BY <2>4, <2>8, <3>1
    <3>2. CASE j \in U
      <4>1. \A a, b : <<a, j>> \in old /\ <<j, b>> \in old => <<a, b>> \in old
        BY <2>3, <3>2 DEF Leads
      <4>. QED  BY <2>4, <2>8, <4>1
    <3>. QED  BY <3>1, <3>2
  <2>9. Leads(new, edges, T)
    BY <2>3, <2>6, <2>7, <2>8 DEF Leads
  <2>. QED  BY <1>1, <2>4, <2>9 DEF new
<1>. QED  BY <1>2, <1>3

(* f has what g has, and all that follows. *)
ClosedFor(f, g) ==
  /\ DOMAIN f = DOMAIN g
  /\ \A s \in DOMAIN g : g[s] \subseteq f[s]
  /\ \A s \in DOMAIN g : \A k \in f[s] \cap DOMAIN g : f[k] \subseteq f[s]

LEMMA EdgesAre ==
  ASSUME NEW g
  PROVE  /\ \A s, d : <<s, d>> \in Edges(g) <=> s \in DOMAIN g /\ d \in g[s]
         /\ Edges(g) \subseteq (DOMAIN g) \X UNION {g[s] : s \in DOMAIN g}
<1>1. ASSUME NEW s, NEW d, <<s, d>> \in Edges(g) PROVE s \in DOMAIN g /\ d \in g[s]
  <2>1. PICK r \in DOMAIN g : <<s, d>> \in {<<r, x>> : x \in g[r]}
    BY <1>1 DEF Edges
  <2>. QED  BY <2>1
<1>2. ASSUME NEW s \in DOMAIN g, NEW d \in g[s] PROVE <<s, d>> \in Edges(g)
  <2>1. <<s, d>> \in {<<s, x>> : x \in g[s]}
    OBVIOUS
  <2>. QED  BY <2>1 DEF Edges
<1>3. ASSUME NEW e \in Edges(g) PROVE e \in (DOMAIN g) \X UNION {g[s] : s \in DOMAIN g}
  <2>1. PICK r \in DOMAIN g : e \in {<<r, x>> : x \in g[r]}
    BY <1>3 DEF Edges
  <2>. QED  BY <2>1
<1>. QED  BY <1>1, <1>2, <1>3

(* Upstream is the least closed table. *)
LEMMA UpstreamIsClosure ==
  ASSUME NEW g, IsFiniteSet(DOMAIN g)
  PROVE  /\ Upstream(g) = [s \in DOMAIN g |-> Upstream(g)[s]]
         /\ ClosedFor(Upstream(g), g)
         /\ \A f : ClosedFor(f, g) => \A s \in DOMAIN g : Upstream(g)[s] \subseteq f[s]
<1>. DEFINE S == DOMAIN g
            A == S
            B == UNION {g[s] : s \in S}
            edges == Edges(g)
            paths == FoldSet(Through, edges, S)
            up == Upstream(g)
<1>1. paths = (CHOOSE h : Closes(h, edges, S))[S]
  BY DEF FoldSet, MapThenFoldSet, Closes, Picked
<1>2. edges \subseteq A \X B
  BY EdgesAre
<1>3. paths \subseteq A \X B /\ Leads(paths, edges, S)
  <2>1. \E h : Closes(h, edges, S)
    <3>. HIDE DEF A, B, edges, S
    <3>1. IsFiniteSet(S)
      BY DEF S
    <3>. QED  BY <1>2, <3>1, ClosesExists
  <2>2. PICK h : Closes(h, edges, S) /\ paths = h[S]
    BY <1>1, <2>1
  <2>3. h[S] \subseteq A \X B /\ Leads(h[S], edges, S)
    <3>. HIDE DEF A, B, edges, paths, S
    <3>1. IsFiniteSet(S) /\ S \subseteq S
      BY DEF S
    <3>. QED  BY <1>2, <2>2, <3>1, ClosedOver
  <2>. QED  BY <2>2, <2>3
<1>4. up = [s \in S |-> {e[2] : e \in {e \in paths : e[1] = s}}]
  BY DEF Upstream
<1>. HIDE DEF paths
<1>5. \A s \in S : \A d : d \in up[s] <=> <<s, d>> \in paths
  <2>1. ASSUME NEW s \in S, NEW d, d \in up[s] PROVE <<s, d>> \in paths
    <3>1. PICK e \in paths : e[1] = s /\ d = e[2]
      BY <1>4, <2>1
    <3>2. e = <<e[1], e[2]>>
      BY <1>3, <3>1
    <3>. QED  BY <3>1, <3>2
  <2>2. ASSUME NEW s \in S, NEW d, <<s, d>> \in paths PROVE d \in up[s]
    <3>1. <<s, d>>[1] = s /\ <<s, d>>[2] = d
      OBVIOUS
    <3>. QED  BY <1>4, <2>2, <3>1
  <2>. QED  BY <2>1, <2>2
<1>6. DOMAIN up = S /\ up = [s \in S |-> up[s]]
  BY <1>4
<1>. HIDE DEF up
<1>7. ASSUME NEW s \in S PROVE g[s] \subseteq up[s]
  <2>1. ASSUME NEW d \in g[s] PROVE <<s, d>> \in paths
    <3>1. <<s, d>> \in edges
      BY EdgesAre
    <3>. QED  BY <1>3, <3>1 DEF Leads
  <2>. QED  BY <1>5, <2>1
<1>8. ASSUME NEW s \in S, NEW k \in up[s] \cap S PROVE up[k] \subseteq up[s]
  <2>1. ASSUME NEW d \in up[k] PROVE d \in up[s]
    <3>1. <<s, k>> \in paths /\ <<k, d>> \in paths /\ k \in S
      BY <1>5
    <3>2. <<s, d>> \in paths
      BY <1>3, <3>1 DEF Leads
    <3>. QED  BY <1>5, <3>2
  <2>. QED  BY <2>1
<1>9. ASSUME NEW f, ClosedFor(f, g), NEW s \in S PROVE up[s] \subseteq f[s]
  <2>. DEFINE R == {e \in A \X B : e[2] \in f[e[1]]}
  <2>1. \A a, b : <<a, b>> \in R <=> a \in A /\ b \in B /\ b \in f[a]
    <3>1. \A a, b : <<a, b>>[1] = a /\ <<a, b>>[2] = b
      OBVIOUS
    <3>2. \A a, b : <<a, b>> \in A \X B <=> a \in A /\ b \in B
      OBVIOUS
    <3>. HIDE DEF A, B
    <3>. QED  BY <3>1, <3>2
  <2>2. edges \subseteq R
    <3>1. ASSUME NEW e \in edges PROVE e \in R
      <4>1. e \in A \X B /\ e = <<e[1], e[2]>>
        BY <1>2, <3>1
      <4>2. e[1] \in S /\ e[2] \in g[e[1]]
        BY <4>1, EdgesAre
      <4>. QED  BY <1>9, <4>1, <4>2 DEF ClosedFor
    <3>. QED  BY <3>1
  <2>3. Transitive(R)
    <3>. HIDE DEF R, B
    <3>. QED  BY <1>9, <2>1 DEF Transitive, ClosedFor
  <2>4. paths \subseteq R
    <3>. HIDE DEF R
    <3>. QED  BY <1>3, <2>2, <2>3 DEF Leads
  <2>5. ASSUME NEW d \in up[s] PROVE d \in f[s]
    <3>1. <<s, d>> \in R
      BY <1>5, <2>4
    <3>. HIDE DEF R
    <3>. QED  BY <2>1, <3>1
  <2>. QED  BY <2>5
<1>. QED  BY <1>6, <1>7, <1>8, <1>9 DEF ClosedFor, up

(* What a step waits for is what it names, or what that waits for. *)
LEMMA FirstHop ==
  ASSUME NEW g, IsFiniteSet(DOMAIN g), NEW s \in DOMAIN g, NEW d \in Upstream(g)[s]
  PROVE  d \in g[s] \/ \E k \in g[s] \cap DOMAIN g : d \in Upstream(g)[k]
<1>. DEFINE up == Upstream(g)
            S == DOMAIN g
            f == [r \in S |-> g[r] \cup UNION {up[k] : k \in g[r] \cap S}]
<1>1. ClosedFor(up, g) /\ \A h : ClosedFor(h, g) => \A r \in S : up[r] \subseteq h[r]
  BY UpstreamIsClosure
<1>. HIDE DEF up
<1>2. \A r \in S : g[r] \subseteq f[r] /\ \A k \in g[r] \cap S : up[k] \subseteq f[r]
  OBVIOUS
<1>3. \A r \in S : f[r] \subseteq up[r]
  BY <1>1 DEF ClosedFor
<1>4. ASSUME NEW r \in S, NEW k \in f[r] \cap S PROVE f[k] \subseteq f[r]
  <2>1. CASE k \in g[r]
    BY <1>2, <1>3, <2>1
  <2>2. ASSUME NEW z \in g[r] \cap S, k \in up[z] PROVE f[k] \subseteq f[r]
    BY <1>1, <1>2, <1>3, <2>2 DEF ClosedFor
  <2>. QED  BY <2>1, <2>2
<1>5. ClosedFor(f, g)
  BY <1>2, <1>4 DEF ClosedFor
<1>6. d \in f[s]
  <2>. HIDE DEF f
  <2>. QED  BY <1>1, <1>5 DEF up
<1>. QED  BY <1>6 DEF up

LEMMA RemovedEdges ==
  ASSUME NEW g, NEW edges
  PROVE  /\ DOMAIN remove_dependencies(g, edges) = DOMAIN g
         /\ \A s \in DOMAIN g : \A d :
              d \in remove_dependencies(g, edges)[s] <=> d \in g[s] /\ ~\E e \in edges : e[1] = s /\ e[2] = d
BY DEF remove_dependencies

(* Without circles an edge that is redundant is not missed. *)
LEMMA ReductionKeepsOrder ==
  ASSUME NEW g, IsFiniteSet(DOMAIN g), Circleless(g)
  PROVE  Upstream(remove_dependencies(g, Redundant(g))) = Upstream(g)
<1>. DEFINE S == DOMAIN g
            up == Upstream(g)
            less == remove_dependencies(g, Redundant(g))
            now == Upstream(less)
<1>1. /\ ClosedFor(up, g) /\ \A h : ClosedFor(h, g) => \A r \in S : up[r] \subseteq h[r]
      /\ up = [s \in S |-> up[s]]
  BY UpstreamIsClosure
<1>2. DOMAIN less = S /\ \A s \in S : less[s] \subseteq g[s]
  BY RemovedEdges
<1>3. /\ ClosedFor(now, less) /\ \A h : ClosedFor(h, less) => \A r \in S : now[r] \subseteq h[r]
      /\ now = [s \in S |-> now[s]]
  <2>1. IsFiniteSet(DOMAIN less)
    BY <1>2
  <2>. HIDE DEF less
  <2>. QED  BY <1>2, <2>1, UpstreamIsClosure
<1>4. \A s \in S : s \notin up[s]
  BY DEF Circleless
<1>5. ASSUME NEW s \in S, NEW d \in g[s], d \notin less[s]
      PROVE  \E y \in up[s] \cap S : d \in g[y]
  <2>1. PICK e \in Redundant(g) : e[1] = s /\ e[2] = d
    BY <1>5, RemovedEdges
  <2>. QED  BY <2>1 DEF Redundant
<1>6. \A s \in S : now[s] \subseteq up[s]
  <2>1. ClosedFor(up, less)
    <3>. HIDE DEF less, up
    <3>. QED  BY <1>1, <1>2 DEF ClosedFor
  <2>. HIDE DEF less, up, now
  <2>. QED  BY <1>3, <2>1
<1>7. \A s \in S : \A d \in up[s] : d \in g[s] \/ \E k \in g[s] \cap S : d \in up[k]
  BY FirstHop
<1>. HIDE DEF up, less, now
<1>. DEFINE Between(s, d) == {z \in up[s] \cap S : d \in up[z]}
            Bad == {T \in SUBSET S : \E s \in S : \E d \in up[s] : d \notin now[s] /\ T = Between(s, d)}
<1>8. Bad = {}
  <2>. SUFFICES ASSUME Bad # {} PROVE FALSE
    OBVIOUS
  <2>. DEFINE T == Smallest(Bad)
  <2>1. T \in Bad /\ \A U \in Bad : U \subseteq T => U = T
    <3>1. Bad \subseteq SUBSET S
      OBVIOUS
    <3>. HIDE DEF Bad
    <3>. QED  BY <3>1, SmallestPart
  <2>. HIDE DEF T
  <2>2. PICK s \in S : \E d \in up[s] : d \notin now[s] /\ T = Between(s, d)
    BY <2>1
  <2>3. PICK d \in up[s] : d \notin now[s] /\ T = Between(s, d)
    BY <2>2
  <2>4. ASSUME NEW z \in T PROVE FALSE
    <3>1. z \in up[s] /\ z \in S /\ d \in up[z]
      BY <2>3, <2>4
    <3>2. Between(s, z) \subseteq T /\ Between(z, d) \subseteq T
      BY <1>1, <2>3, <3>1 DEF ClosedFor
    <3>3. z \notin Between(s, z) /\ z \notin Between(z, d)
      BY <1>4, <3>1
    <3>4. Between(s, z) \notin Bad /\ Between(z, d) \notin Bad
      <4>. HIDE DEF Bad, Between
      <4>. QED  BY <2>1, <2>4, <3>2, <3>3
    <3>5. z \in now[s]
      BY <3>1, <3>4
    <3>6. d \in now[z]
      BY <3>1, <3>4
    <3>. QED  BY <1>2, <1>3, <2>3, <3>1, <3>5, <3>6 DEF ClosedFor
  <2>5. d \in g[s]
    <3>1. \A k \in g[s] \cap S : k \in up[s]
      BY <1>1 DEF ClosedFor
    <3>. QED  BY <1>7, <2>3, <2>4, <3>1
  <2>6. d \notin less[s]
    BY <1>2, <1>3, <2>3 DEF ClosedFor
  <2>7. PICK y \in up[s] \cap S : d \in g[y]
    BY <1>5, <2>5, <2>6
  <2>8. y \in T
    BY <1>1, <2>3, <2>7 DEF ClosedFor
  <2>. QED  BY <2>4, <2>8
<1>9. \A s \in S : up[s] \subseteq now[s]
  <2>1. ASSUME NEW s \in S, NEW d \in up[s], d \notin now[s] PROVE FALSE
    <3>1. Between(s, d) \in Bad
      BY <2>1
    <3>. QED  BY <1>8, <3>1
  <2>. QED  BY <2>1
<1>10. now = up
  BY <1>1, <1>3, <1>6, <1>9
<1>. QED  BY <1>10 DEF now, less, up

------------------------------------------------------------------------------
(***************************************************************************)
(* Binding levels: passes over the elements until nothing changes.         *)
(***************************************************************************)

(* A state that is made anew over and over again. *)
Iterates(g, base, step) == g = [n \in Nat |-> IF n = 0 THEN base ELSE step[g[n - 1]]]

LEMMA IterationExists ==
  ASSUME NEW V, NEW base \in V, NEW step \in [V -> V]
  PROVE  \E g \in [Nat -> V] : Iterates(g, base, step)
<1>. DEFINE Has(h, n) == /\ h \in [0..n -> V] /\ h[0] = base
                         /\ \A i \in 1..n : h[i] = step[h[i - 1]]
<1>1. ASSUME NEW n \in Nat PROVE \E h : Has(h, n)
  <2>. DEFINE Bad == {k \in Nat : ~\E h : Has(h, k)}
  <2>. SUFFICES ASSUME Bad # {} PROVE FALSE
    BY <1>1
  <2>. DEFINE k == Min(Bad)
  <2>1. k \in Bad /\ \A l \in Bad : k <= l
    <3>1. Bad \in SUBSET Nat
      OBVIOUS
    <3>. HIDE DEF Bad
    <3>. QED  BY <3>1, LeastOf
  <2>. HIDE DEF k
  <2>2. k # 0
    <3>. DEFINE h == [i \in 0..0 |-> base]
    <3>1. h \in [0..0 -> V] /\ h[0] = base /\ 1..0 = {}
      OBVIOUS
    <3>2. Has(h, 0)
      <4>. HIDE DEF h
      <4>. QED  BY <3>1
    <3>. HIDE DEF h, Has
    <3>. QED  BY <2>1, <3>2
  <2>3. k \in Nat /\ k - 1 \in Nat /\ k - 1 \notin Bad
    <3>1. k \in Nat
      BY <2>1
    <3>2. k - 1 \in Nat /\ ~(k <= k - 1)
      BY <2>2, <3>1
    <3>. HIDE DEF Bad
    <3>. QED  BY <2>1, <3>1, <3>2
  <2>4. PICK h : Has(h, k - 1)
    BY <2>3
  <2>. DEFINE w == step[h[k - 1]]
              j == [i \in 0..k |-> IF i = k THEN w ELSE h[i]]
  <2>5. h[k - 1] \in V /\ w \in V
    <3>1. k - 1 \in 0..(k - 1)
      BY <2>3
    <3>. QED  BY <2>4, <3>1
  <2>6. \A i \in 0..k : i # k => i \in 0..(k - 1)
    BY <2>3
  <2>7. j \in [0..k -> V]
    <3>. HIDE DEF w
    <3>. QED  BY <2>4, <2>5, <2>6
  <2>8. j[0] = base
    BY <2>2, <2>3, <2>4
  <2>9. ASSUME NEW i \in 1..k PROVE j[i] = step[j[i - 1]]
    <3>1. i \in 0..k /\ i - 1 \in 0..k /\ i - 1 # k /\ (i # k => i \in 1..(k - 1))
      BY <2>3
    <3>2. j[i - 1] = h[i - 1]
      BY <3>1
    <3>3. CASE i = k
      BY <3>1, <3>2, <3>3
    <3>4. CASE i # k
      BY <2>4, <3>1, <3>2, <3>4
    <3>. QED  BY <3>3, <3>4
  <2>10. Has(j, k)
    <3>. HIDE DEF j
    <3>. QED  BY <2>7, <2>8, <2>9
  <2>. QED  BY <2>1, <2>10
<1>2. ASSUME NEW n \in Nat, NEW m \in Nat, NEW h, NEW j, Has(h, n), Has(j, m),
             NEW i \in Nat, i <= n, i <= m
      PROVE  h[i] = j[i]
  <2>. DEFINE Bad == {k \in 0..i : h[k] # j[k]}
  <2>. SUFFICES ASSUME Bad # {} PROVE FALSE
    BY <1>2
  <2>. DEFINE k == Min(Bad)
  <2>1. k \in Bad /\ \A l \in Bad : k <= l
    <3>1. Bad \in SUBSET Nat
      OBVIOUS
    <3>. HIDE DEF Bad
    <3>. QED  BY <3>1, LeastOf
  <2>. HIDE DEF k
  <2>2. k # 0
    BY <1>2, <2>1
  <2>3. k \in 1..n /\ k \in 1..m /\ k - 1 \in 0..i /\ k - 1 \notin Bad
    BY <1>2, <2>1, <2>2
  <2>. QED  BY <1>2, <2>1, <2>3
<1>. DEFINE H(n) == CHOOSE h : Has(h, n)
            g == [n \in Nat |-> H(n)[n]]
<1>3. \A n \in Nat : Has(H(n), n)
  <2>. HIDE DEF Has
  <2>. QED  BY <1>1
<1>. HIDE DEF H
<1>4. g \in [Nat -> V]
  <2>1. \A n \in Nat : n \in 0..n
    OBVIOUS
  <2>. QED  BY <1>3, <2>1
<1>5. ASSUME NEW n \in Nat PROVE g[n] = IF n = 0 THEN base ELSE step[g[n - 1]]
  <2>1. CASE n = 0
    BY <1>3, <2>1
  <2>2. CASE n # 0
    <3>1. n \in 1..n /\ n - 1 \in Nat /\ n - 1 <= n /\ n - 1 <= n - 1
      BY <2>2
    <3>2. H(n)[n] = step[H(n)[n - 1]]
      BY <1>3, <3>1
    <3>3. H(n)[n - 1] = H(n - 1)[n - 1]
      <4>. DEFINE m == n - 1
      <4>1. m \in Nat /\ m <= n /\ m <= m /\ Has(H(n), n) /\ Has(H(m), m)
        BY <1>3, <3>1
      <4>. HIDE DEF m, Has
      <4>2. H(n)[m] = H(m)[m]
        BY <1>2, <4>1
      <4>. QED  BY <4>2 DEF m
    <3>. QED  BY <2>2, <3>1, <3>2, <3>3
  <2>. QED  BY <2>1, <2>2
<1>6. Iterates(g, base, step)
  <2>1. g = [n \in Nat |-> g[n]]
    OBVIOUS
  <2>. HIDE DEF g
  <2>. QED  BY <1>5, <2>1 DEF Iterates
<1>. HIDE DEF g
<1>. QED  BY <1>4, <1>6

Holding == {"Shared", "Exclusive", "Linear"}

Spread(p, before) ==
  [e \in Elements |-> Max({before[e]} \cup {before[d] : d \in Targets(p, e, Holding)})]

(* No dependency of p leads outside. *)
Supported(p) == \A e \in Elements : Targets(p, e, Relationships) \subseteq Elements

LEMMA TargetsOfFewer ==
  ASSUME NEW p, NEW e, NEW kinds, kinds \subseteq Relationships
  PROVE  Targets(p, e, kinds) \subseteq Targets(p, e, Relationships)
BY DEF Targets

LEMMA SpreadIs ==
  ASSUME NEW p, Supported(p), NEW n \in Nat, NEW before \in [Elements -> 0..n]
  PROVE  /\ Spread(p, before) \in [Elements -> 0..n]
         /\ \A e \in Elements :
              /\ before[e] <= Spread(p, before)[e]
              /\ \A d \in Targets(p, e, Holding) : before[d] <= Spread(p, before)[e]
              /\ \A v \in Nat : v <= Spread(p, before)[e] <=>
                   v <= before[e] \/ \E d \in Targets(p, e, Holding) : v <= before[d]
<1>. SUFFICES ASSUME NEW e \in Elements
              PROVE  LET m == Max({before[e]} \cup {before[d] : d \in Targets(p, e, Holding)})
                     IN /\ m \in 0..n /\ before[e] <= m
                        /\ \A d \in Targets(p, e, Holding) : before[d] <= m
                        /\ \A v \in Nat : v <= m <=>
                             v <= before[e] \/ \E d \in Targets(p, e, Holding) : v <= before[d]
  BY DEF Spread
<1>. DEFINE M == {before[e]} \cup {before[d] : d \in Targets(p, e, Holding)}
<1>1. Targets(p, e, Holding) \subseteq Elements
  <2>1. Holding \subseteq Relationships
    BY DEF Holding, Relationships
  <2>2. Targets(p, e, Holding) \subseteq Targets(p, e, Relationships)
    BY <2>1, TargetsOfFewer
  <2>. QED  BY <2>2 DEF Supported
<1>2. M \subseteq 0..n
  BY <1>1
<1>3. M \in SUBSET Int /\ IsFiniteSet(M) /\ M # {}
  <2>1. IsFiniteSet(0..n)
    BY FS_Interval
  <2>2. IsFiniteSet(M)
    <3>. HIDE DEF M
    <3>. QED  BY <1>2, <2>1, FS_Subset
  <2>. QED  BY <1>2, <2>2
<1>4. Max(M) \in M /\ \A y \in M : y <= Max(M)
  <2>. HIDE DEF M
  <2>. QED  BY <1>3, GreatestOf
<1>5. PICK m \in M : m = Max(M)
  BY <1>4
<1>6. m \in 0..n /\ \A y \in M : y <= m
  BY <1>2, <1>4, <1>5
<1>7. before[e] \in M /\ before[e] \in 0..n
  OBVIOUS
<1>8. \A d \in Targets(p, e, Holding) : before[d] \in M /\ before[d] \in 0..n
  BY <1>1
<1>9. m = before[e] \/ \E d \in Targets(p, e, Holding) : m = before[d]
  OBVIOUS
<1>10. ASSUME NEW v \in Nat
       PROVE  v <= m <=> v <= before[e] \/ \E d \in Targets(p, e, Holding) : v <= before[d]
  <2>. HIDE DEF M
  <2>1. ASSUME v <= m PROVE v <= before[e] \/ \E d \in Targets(p, e, Holding) : v <= before[d]
    BY <1>9, <2>1
  <2>2. ASSUME v <= before[e] PROVE v <= m
    <3>1. before[e] <= m
      BY <1>6, <1>7
    <3>. QED  BY <1>6, <1>7, <2>2, <3>1
  <2>3. ASSUME NEW d \in Targets(p, e, Holding), v <= before[d] PROVE v <= m
    <3>1. before[d] <= m /\ before[d] \in 0..n
      BY <1>6, <1>8
    <3>. QED  BY <1>6, <2>3, <3>1
  <2>. QED  BY <2>1, <2>2, <2>3
<1>. HIDE DEF M
<1>11. before[e] <= m /\ \A d \in Targets(p, e, Holding) : before[d] <= m
  BY <1>6, <1>7, <1>8
<1>. QED  BY <1>5, <1>6, <1>10, <1>11 DEF M

Owned(p) == [e \in Elements |-> own_level(p, e)]

Passes(h, p) == h = [n \in Nat |-> IF n = 0 THEN Owned(p) ELSE Spread(p, h[n - 1])]

LEMMA OwnedIs ==
  ASSUME NEW p, NEW n \in Nat, DOMAIN p.axes = 1..n
  PROVE  Owned(p) \in [Elements -> 0..n]
<1>1. ASSUME NEW e \in Elements PROVE own_level(p, e) \in 0..n
  <2>. DEFINE S == {i \in DOMAIN p.axes : p.axes[i].element <= e}
  <2>1. S \subseteq 1..n /\ IsFiniteSet(1..n) /\ Cardinality(1..n) = n
    BY FS_Interval
  <2>. HIDE DEF S
  <2>2. IsFiniteSet(S) /\ Cardinality(S) <= n
    BY <2>1, FS_Subset
  <2>3. Cardinality(S) \in Nat
    BY <2>2, FS_CardinalityType
  <2>. QED  BY <2>2, <2>3 DEF own_level, S
<1>. QED  BY <1>1 DEF Owned

LEMMA PassesExists ==
  ASSUME NEW p, Supported(p), NEW n \in Nat, DOMAIN p.axes = 1..n
  PROVE  \E h : Passes(h, p)
<1>. DEFINE V == [Elements -> 0..n]
            step == [b \in V |-> Spread(p, b)]
            base == Owned(p)
<1>1. step \in [V -> V]
  BY SpreadIs
<1>2. base \in V
  BY OwnedIs
<1>3. \E g \in [Nat -> V] : Iterates(g, base, step)
  <2>. HIDE DEF V, step, base
  <2>. QED  BY <1>1, <1>2, IterationExists
<1>4. PICK g \in [Nat -> V] : Iterates(g, base, step)
  BY <1>3
<1>5. ASSUME NEW k \in Nat, k # 0 PROVE step[g[k - 1]] = Spread(p, g[k - 1])
  <2>1. k - 1 \in Nat
    BY <1>5
  <2>2. g[k - 1] \in V
    BY <1>4, <2>1
  <2>. QED  BY <2>2
<1>6. Passes(g, p)
  <2>1. g = [k \in Nat |-> IF k = 0 THEN base ELSE step[g[k - 1]]]
    BY <1>4 DEF Iterates
  <2>. HIDE DEF step, V
  <2>. QED  BY <1>5, <2>1 DEF Passes
<1>. QED  BY <1>6

LEMMA PassUnfolds ==
  ASSUME NEW p, NEW h, Passes(h, p), NEW k \in Nat
  PROVE  h[0] = Owned(p) /\ h[k + 1] = Spread(p, h[k])
<1>1. k + 1 \in Nat /\ k + 1 # 0 /\ (k + 1) - 1 = k /\ 0 \in Nat
  OBVIOUS
<1>. QED  BY <1>1 DEF Passes

LEMMA PassesTyped ==
  ASSUME NEW p, Supported(p), NEW n \in Nat, DOMAIN p.axes = 1..n,
         NEW h, Passes(h, p), NEW k \in Nat
  PROVE  h[k] \in [Elements -> 0..n] /\ \A e \in Elements : own_level(p, e) <= h[k][e]
<1>. DEFINE Good(l) == h[l] \in [Elements -> 0..n] /\ \A e \in Elements : own_level(p, e) <= h[l][e]
            Bad == {l \in Nat : ~Good(l)}
<1>. SUFFICES ASSUME Bad # {} PROVE FALSE
  OBVIOUS
<1>. DEFINE m == Min(Bad)
<1>1. m \in Bad /\ \A l \in Bad : m <= l
  <2>1. Bad \in SUBSET Nat
    OBVIOUS
  <2>. HIDE DEF Bad
  <2>. QED  BY <2>1, LeastOf
<1>. HIDE DEF m
<1>2. m # 0
  <2>1. h[0] = Owned(p) /\ Owned(p) \in [Elements -> 0..n]
    BY PassUnfolds, OwnedIs
  <2>2. Good(0)
    BY <2>1 DEF Owned
  <2>. QED  BY <1>1, <2>2
<1>3. m \in Nat
  BY <1>1
<1>. DEFINE l == m - 1
<1>4. l \in Nat /\ l + 1 = m /\ l \notin Bad
  <2>1. l \in Nat /\ l + 1 = m /\ ~(m <= l)
    BY <1>2, <1>3
  <2>. HIDE DEF l, Bad
  <2>. QED  BY <1>1, <2>1
<1>5. Good(l)
  BY <1>4
<1>. HIDE DEF l
<1>. DEFINE b == h[l]
<1>6. h[m] = Spread(p, b)
  <2>1. l \in Nat
    BY <1>4
  <2>. HIDE DEF Bad, Good, b
  <2>2. h[l + 1] = Spread(p, h[l])
    BY <2>1, PassUnfolds
  <2>. QED  BY <1>4, <2>2 DEF b
<1>7. b \in [Elements -> 0..n]
  BY <1>5
<1>. HIDE DEF b
<1>8. /\ Spread(p, b) \in [Elements -> 0..n]
      /\ \A e \in Elements : b[e] <= Spread(p, b)[e]
  BY <1>7, SpreadIs
<1>9. ASSUME NEW e \in Elements PROVE own_level(p, e) <= h[m][e]
  <2>1. own_level(p, e) <= b[e] /\ b[e] <= h[m][e]
    BY <1>5, <1>6, <1>8 DEF b
  <2>2. own_level(p, e) \in Int /\ b[e] \in Int /\ h[m][e] \in Int
    <3>1. own_level(p, e) = Owned(p)[e]
      BY DEF Owned
    <3>. QED  BY <1>6, <1>7, <1>8, <3>1, OwnedIs
  <2>. QED  BY <2>1, <2>2
<1>10. Good(m)
  BY <1>6, <1>8, <1>9
<1>. QED  BY <1>1, <1>10

(* As many passes as there are elements, and one, are enough: one that     *)
(* still raised a level would be the last of too many that each took in    *)
(* another element.                                                        *)
LEMMA LevelsSettle ==
  ASSUME NEW p, Supported(p), NEW n \in Nat, DOMAIN p.axes = 1..n
  PROVE  /\ effective_levels(p) \in [Elements -> 0..n]
         /\ \A e \in Elements : own_level(p, e) <= effective_levels(p)[e]
         /\ \A e \in Elements : \A d \in Targets(p, e, Holding) :
              d \in Elements /\ effective_levels(p)[d] <= effective_levels(p)[e]
<1>. DEFINE K == Cardinality(Elements)
<1>1. K \in Nat /\ IsFiniteSet(Elements)
  BY ElementsAssumption, FS_CardinalityType
<1>2. effective_levels(p) = (CHOOSE h : Passes(h, p))[K + 1]
  BY DEF effective_levels, Passes, Owned, Spread, Holding
<1>3. PICK h : Passes(h, p) /\ effective_levels(p) = h[K + 1]
  BY <1>2, PassesExists
<1>4. \A k \in Nat : h[k] \in [Elements -> 0..n] /\ \A e \in Elements : own_level(p, e) <= h[k][e]
  BY <1>3, PassesTyped
<1>5. \A e \in Elements : Targets(p, e, Holding) \subseteq Elements
  <2>1. Holding \subseteq Relationships
    BY DEF Holding, Relationships
  <2>2. \A e : Targets(p, e, Holding) \subseteq Targets(p, e, Relationships)
    BY <2>1, TargetsOfFewer
  <2>. QED  BY <2>2 DEF Supported
<1>6. ASSUME NEW e \in Elements, NEW d \in Targets(p, e, Holding), ~(h[K + 1][d] <= h[K + 1][e])
      PROVE  FALSE
  <2>. DEFINE v == h[K + 1][d]
              A(k) == {x \in Elements : v <= h[k][x]}
  <2>0. v \in Nat /\ v \in 0..n /\ K + 1 \in Nat
    BY <1>1, <1>4, <1>5
  <2>. HIDE DEF v, K
  <2>1. ASSUME NEW k \in Nat
        PROVE  /\ A(k) \subseteq A(k + 1)
               /\ A(k + 1) = {x \in Elements : x \in A(k) \/ \E y \in Targets(p, x, Holding) : y \in A(k)}
    <3>1. h[k + 1] = Spread(p, h[k]) /\ h[k] \in [Elements -> 0..n]
      BY <1>3, <1>4, PassUnfolds
    <3>2. \A x \in Elements :
            v <= h[k + 1][x] <=> v <= h[k][x] \/ \E y \in Targets(p, x, Holding) : v <= h[k][y]
      BY <2>0, <3>1, SpreadIs
    <3>. QED  BY <1>5, <3>2
  <2>2. e \in A(K + 2) /\ e \notin A(K + 1)
    <3>1. h[K + 1][d] \in Int /\ h[K + 1][e] \in Int
      BY <1>4, <1>5, <2>0
    <3>2. d \in A(K + 1) /\ e \notin A(K + 1)
      BY <1>5, <1>6, <3>1 DEF v
    <3>3. (K + 1) + 1 = K + 2
      BY <1>1
    <3>4. e \in A((K + 1) + 1)
      <4>. HIDE DEF A
      <4>. QED  BY <2>0, <2>1, <3>2
    <3>. QED  BY <3>2, <3>3, <3>4
  <2>. HIDE DEF A
  <2>3. ASSUME NEW k \in 0..(K + 1) PROVE A(k) # A(k + 1)
    <3>. DEFINE Bad == {l \in 0..(K + 1) : A(l) = A(l + 1)}
    <3>. SUFFICES ASSUME Bad # {} PROVE FALSE
      BY <2>3
    <3>. DEFINE m == Max(Bad)
    <3>1. m \in Bad /\ \A l \in Bad : l <= m
      <4>1. Bad \subseteq 0..(K + 1) /\ Bad \in SUBSET Int /\ K + 1 \in Int
        BY <2>0
      <4>2. IsFiniteSet(0..(K + 1))
        BY <4>1, FS_Interval
      <4>3. IsFiniteSet(Bad)
        <5>. HIDE DEF Bad
        <5>. QED  BY <4>1, <4>2, FS_Subset
      <4>. HIDE DEF Bad
      <4>. QED  BY <4>1, <4>3, GreatestOf
    <3>. HIDE DEF m
    <3>2. m \in 0..(K + 1) /\ A(m) = A(m + 1) /\ m \in Nat /\ m + 1 \in Nat
      BY <1>1, <3>1
    <3>3. A(m + 1) = A((m + 1) + 1)
      BY <2>1, <3>2
    <3>4. m + 1 \notin Bad
      <4>1. ~(m + 1 <= m)
        BY <3>2
      <4>. HIDE DEF Bad
      <4>. QED  BY <3>1, <4>1
    <3>5. m = K + 1
      BY <1>1, <3>2, <3>3, <3>4
    <3>6. (K + 1) + 1 = K + 2
      BY <1>1
    <3>. QED  BY <2>2, <3>2, <3>5, <3>6
  <2>4. ASSUME NEW k \in Nat PROVE IsFiniteSet(A(k)) /\ Cardinality(A(k)) \in Nat /\ Cardinality(A(k)) <= K
    <3>1. A(k) \subseteq Elements
      BY DEF A
    <3>. QED  BY <1>1, <3>1, FS_Subset, FS_CardinalityType DEF K
  <2>. DEFINE Few == {k \in 0..(K + 2) : Cardinality(A(k)) < k}
  <2>5. Few = {}
    <3>. SUFFICES ASSUME Few # {} PROVE FALSE
      OBVIOUS
    <3>. DEFINE k == Min(Few)
    <3>1. k \in Few /\ \A l \in Few : k <= l
      <4>1. Few \in SUBSET Nat
        OBVIOUS
      <4>. HIDE DEF Few
      <4>. QED  BY <4>1, LeastOf
    <3>. HIDE DEF k
    <3>2. k \in 0..(K + 2) /\ Cardinality(A(k)) < k
      BY <3>1
    <3>. DEFINE l == k - 1
    <3>3. l \in 0..(K + 1) /\ l + 1 = k /\ l \in Nat /\ k \in Nat /\ ~(k <= l)
      BY <1>1, <2>4, <3>2
    <3>. HIDE DEF l
    <3>4. l \notin Few
      <4>. HIDE DEF Few
      <4>. QED  BY <3>1, <3>3
    <3>5. Cardinality(A(l)) >= l
      BY <1>1, <2>4, <3>3, <3>4
    <3>6. A(l) # A(k) /\ A(l) \subseteq A(k)
      BY <2>1, <2>3, <3>3
    <3>7. Cardinality(A(l)) <= Cardinality(A(k)) /\ Cardinality(A(l)) # Cardinality(A(k))
      BY <2>4, <3>3, <3>6, FS_Subset
    <3>. DEFINE a == Cardinality(A(l))
                b == Cardinality(A(k))
    <3>8. a \in Nat /\ b \in Nat /\ a >= l /\ a <= b /\ a # b /\ b < k
      BY <2>4, <3>2, <3>3, <3>5, <3>7
    <3>. HIDE DEF a, b
    <3>. QED  BY <3>3, <3>8
  <2>6. K + 2 \in 0..(K + 2) /\ K + 2 \in Nat
    BY <1>1
  <2>7. Cardinality(A(K + 2)) \in Nat /\ Cardinality(A(K + 2)) <= K /\ ~(Cardinality(A(K + 2)) < K + 2)
    BY <2>4, <2>5, <2>6
  <2>. QED  BY <1>1, <2>7
<1>7. K + 1 \in Nat
  BY <1>1
<1>. QED  BY <1>3, <1>4, <1>5, <1>6, <1>7

------------------------------------------------------------------------------
(***************************************************************************)
(* Which activations there are.                                            *)
(***************************************************************************)
Kinds == {"activate", "deactivate", "trial_start", "trial_end", "start", "end", "ready"}

AllSteps == [kind : Kinds, element : {0} \cup Elements, owner : {0} \cup Elements, trial : Trials]

ToExpand   == {"new", "refused"}
ToCoalesce == {"rule2", "dedicated", "exclusive", "lifeline", "coalesce"}
Coalesced  == {"notify", "reroute", "gates", "sentinels", "reduce", "validate", "compiled", "broken"}

(* What the plan says of the levels. *)
Levelled ==
  /\ Supported(plan)
  /\ level = effective_levels(plan)
  /\ trial_elements = identify_trial_elements(plan, level)

Kept(e, u) == e \in NonTrialElements => GroupFirst(e, u) = u

(* Before the groups are made every element is brought up in every trial,  *)
(* afterwards where a group begins.                                        *)
Activated ==
  \A e \in Elements, u \in Trials :
    Activate(e, u) \in DOMAIN depends_on <=> (stage \in Coalesced => Kept(e, u))

Shape ==
  /\ plan \in Plans
  /\ stage \in ToExpand \cup ToCoalesce \cup Coalesced
  /\ stage \notin ToExpand => Levelled /\ DOMAIN depends_on \subseteq AllSteps /\ Activated

LEMMA PlanTyped ==
  ASSUME plan \in Plans
  PROVE  /\ plan.axes \in Axes
         /\ \A e \in Elements : plan.dependencies[e] \in Seq([target : Nat, relationship : Relationships])
         /\ trial_count(plan.axes) \in Nat \ {0}
         /\ Trials = 0..(trial_count(plan.axes) - 1) /\ 0 \in Trials /\ Trials \subseteq Nat
<1>1. plan.axes \in Axes /\ \A e \in Elements :
        plan.dependencies[e] \in Seq([target : Nat, relationship : Relationships])
  BY CompilerAssumption DEF TestPlanOf, Axes
<1>2. trial_count(plan.axes) \in Nat \ {0}
  BY <1>1, TrialsAreCombinations
<1>. DEFINE n == trial_count(plan.axes)
<1>3. Trials = 0..(n - 1)
  BY DEF Trials
<1>. HIDE DEF n
<1>4. n \in Nat \ {0}
  BY <1>2 DEF n
<1>5. 0 \in Trials /\ Trials \subseteq Nat
  BY <1>3, <1>4
<1>. QED  BY <1>1, <1>2, <1>3, <1>5 DEF n

LEMMA NoneIsNoElement == 0 \notin Elements
BY ElementsAssumption, FS_CardinalityType

LEMMA StepsTyped ==
  ASSUME NEW k \in Kinds, NEW e \in {0} \cup Elements, NEW o \in {0} \cup Elements, NEW t \in Trials
  PROVE  /\ Step(k, e, o, t) \in AllSteps
         /\ Step(k, e, o, t).kind = k /\ Step(k, e, o, t).element = e
         /\ Step(k, e, o, t).owner = o /\ Step(k, e, o, t).trial = t
BY DEF AllSteps, Step

LEMMA JoinedDomain ==
  ASSUME NEW f, NEW g
  PROVE  DOMAIN Joined(f, g) = DOMAIN f \cup DOMAIN g
BY DEF Joined

LEMMA AddedDomain ==
  ASSUME NEW g, NEW edges
  PROVE  DOMAIN add_dependencies(g, edges) = DOMAIN g
BY DEF add_dependencies

(* A pass that leaves the analysis alone and adds no activation. *)
LEMMA PassKeepsShape ==
  ASSUME Shape, Analysed, stage \notin ToExpand,
         stage' \in ToExpand \cup ToCoalesce \cup Coalesced,
         stage' \in Coalesced <=> stage \in Coalesced,
         DOMAIN depends_on' \subseteq AllSteps,
         \A e \in Elements, u \in Trials :
           Activate(e, u) \in DOMAIN depends_on' <=> Activate(e, u) \in DOMAIN depends_on
  PROVE  Shape'
BY DEF Shape, Analysed, Levelled, Activated, Kept, GroupFirst, NonTrialElements, AllSteps, Trials,
       Activate, Step, ToExpand, ToCoalesce, Coalesced

LEMMA ActivationsAre ==
  ASSUME plan \in Plans, NEW e \in Elements, NEW t \in Trials
  PROVE  /\ Activate(e, t) \in AllSteps /\ Deactivate(e, t) \in AllSteps
         /\ TrialStart(t) \in AllSteps /\ TrialEnd(t) \in AllSteps
         /\ Start \in AllSteps /\ End \in AllSteps
         /\ \A s \in AllSteps : s.kind = "activate" /\ s.owner = 0 => s = Activate(s.element, s.trial)
BY PlanTyped DEF AllSteps, Activate, Deactivate, TrialStart, TrialEnd, Start, End, Step, Kinds

LEMMA InitShaped == Init => Shape
BY DEF Init, Shape, ToExpand

LEMMA RefuseShaped == ASSUME Shape, Refuse PROVE Shape'
BY DEF Shape, Refuse, Pass, Analysed, ToExpand

LEMMA ExpandShaped == ASSUME Shape, Expand PROVE Shape'
<1>. DEFINE up == [s \in {Activate(e, t) : e \in Elements, t \in Trials} |->
                     {Start} \cup {Activate(y, s.trial) : y \in Deps(s.element, {"Shared"})}]
            down == [s \in {Deactivate(e, t) : e \in Elements, t \in Trials} |->
                       {Activate(s.element, s.trial)}]
<1>1. /\ stage = "new" /\ stage' = "rule2" /\ plan' = plan /\ plan \in Plans
      /\ level' = effective_levels(plan) /\ trial_elements' = identify_trial_elements(plan, level')
  BY DEF Shape, Expand, Pass
<1>2. depends_on' = Joined(up, down)
  BY DEF Expand
<1>3. Supported(plan)
  BY DEF Expand, Unsupported, Deps, Supported
<1>4. DOMAIN depends_on' = DOMAIN up \cup DOMAIN down
  <2>. HIDE DEF up, down
  <2>. QED  BY <1>2, JoinedDomain
<1>5. DOMAIN depends_on' \subseteq AllSteps
  BY <1>1, <1>4, ActivationsAre
<1>6. Trials' = Trials /\ AllSteps' = AllSteps
  BY <1>1 DEF Trials, AllSteps
<1>7. \A e \in Elements, t \in Trials : Activate(e, t) \in DOMAIN depends_on'
  BY <1>4
<1>8. Activated'
  BY <1>1, <1>6, <1>7 DEF Activated, Coalesced, Activate, Step
<1>9. Levelled'
  BY <1>1, <1>3 DEF Levelled
<1>. QED  BY <1>1, <1>5, <1>6, <1>8, <1>9 DEF Shape, ToCoalesce

(* Stages are told apart. *)
LEMMA StagesApart ==
  /\ \A s \in ToCoalesce : s \notin ToExpand /\ s \notin Coalesced
  /\ \A s \in Coalesced : s \notin ToExpand
BY DEF ToExpand, ToCoalesce, Coalesced

LEMMA Rule2Shaped == ASSUME Shape, apply_rule2_edges PROVE Shape'
<1>1. DOMAIN depends_on' = DOMAIN depends_on
  BY AddedDomain DEF apply_rule2_edges
<1>2. Analysed /\ stage = "rule2" /\ stage' = "dedicated"
  BY DEF apply_rule2_edges, Pass
<1>. QED  BY <1>1, <1>2, PassKeepsShape DEF Shape, ToExpand, ToCoalesce, Coalesced

LEMMA DedicatedShaped == ASSUME Shape, apply_dedicated_materialisation PROVE Shape'
<1>. DEFINE Of == {o \in Elements \X Elements \X Trials : o[2] \in Deps(o[1], {"Dedicated"})}
            ups == {Dedicated(Activate(o[2], o[3]), o[1]) : o \in Of}
            downs == {Dedicated(Deactivate(o[2], o[3]), o[1]) : o \in Of}
            edges == {<<Activate(o[1], o[3]), Dedicated(Activate(o[2], o[3]), o[1])>> : o \in Of}
            up == [s \in ups |-> {Start}]
            down == [s \in downs |-> {Deactivate(s.owner, s.trial)}]
<1>1. Analysed /\ stage = "dedicated" /\ stage' = "exclusive"
  BY DEF apply_dedicated_materialisation, Pass
<1>2. depends_on' = Joined(add_dependencies(depends_on, edges), Joined(up, down))
  BY DEF apply_dedicated_materialisation
<1>3. DOMAIN depends_on' = DOMAIN depends_on \cup ups \cup downs
  <2>1. DOMAIN up = ups /\ DOMAIN down = downs
    OBVIOUS
  <2>. HIDE DEF ups, downs, up, down, edges
  <2>2. DOMAIN Joined(up, down) = ups \cup downs
    BY <2>1, JoinedDomain
  <2>. DEFINE old == add_dependencies(depends_on, edges)
              new == Joined(up, down)
  <2>3. DOMAIN old = DOMAIN depends_on /\ DOMAIN new = ups \cup downs
    BY <2>2, AddedDomain
  <2>4. depends_on' = Joined(old, new)
    BY <1>2
  <2>. HIDE DEF old, new, Of
  <2>5. DOMAIN Joined(old, new) = DOMAIN old \cup DOMAIN new
    BY JoinedDomain
  <2>. QED  BY <2>3, <2>4, <2>5
<1>4. \A s \in ups \cup downs : s \in AllSteps /\ s.owner # 0
  BY NoneIsNoElement DEF Dedicated, Activate, Deactivate, Step, AllSteps, Kinds
<1>5. \A e, u : Activate(e, u).owner = 0
  BY DEF Activate, Step
<1>6. DOMAIN depends_on' \subseteq AllSteps
  <2>. HIDE DEF ups, downs
  <2>. QED  BY <1>1, <1>3, <1>4 DEF Shape, ToExpand
<1>7. \A e, u : Activate(e, u) \in DOMAIN depends_on' <=> Activate(e, u) \in DOMAIN depends_on
  <2>. HIDE DEF ups, downs
  <2>. QED  BY <1>3, <1>4, <1>5
<1>. QED  BY <1>1, <1>6, <1>7, PassKeepsShape DEF ToExpand, ToCoalesce, Coalesced

LEMMA ExclusiveShaped == ASSUME Shape, apply_exclusive_serialisation PROVE Shape'
<1>1. DOMAIN depends_on' = DOMAIN depends_on
  BY AddedDomain DEF apply_exclusive_serialisation
<1>2. Analysed /\ stage = "exclusive" /\ stage' \in {"refused", "lifeline"}
  BY DEF apply_exclusive_serialisation, Pass
<1>. QED  BY <1>1, <1>2, PassKeepsShape DEF Shape, ToExpand, ToCoalesce, Coalesced

LEMMA LifelineShaped == ASSUME Shape, apply_lifeline_collapse PROVE Shape'
<1>1. DOMAIN depends_on' = {s \in DOMAIN depends_on : Collapsed(s) = s}
  BY DEF apply_lifeline_collapse
<1>2. Analysed /\ stage = "lifeline" /\ stage' = "coalesce"
  BY DEF apply_lifeline_collapse, Pass
<1>3. \A e, u : Collapsed(Activate(e, u)) = Activate(e, u)
  BY DEF Collapsed, Activate, Step
<1>. QED  BY <1>1, <1>2, <1>3, PassKeepsShape DEF Shape, ToExpand, ToCoalesce, Coalesced

(* What becomes of an activation. *)
LEMMA CurrentActivation ==
  ASSUME plan \in Plans, NEW e \in Elements, NEW u
  PROVE  current(Activate(e, u)) =
           IF e \in NonTrialElements THEN Activate(e, GroupFirst(e, u)) ELSE Activate(e, u)
BY DEF current, Activate, Step

LEMMA CoalescingShaped == ASSUME Shape, apply_coalescing PROVE Shape'
<1>1. /\ plan' = plan /\ level' = level /\ trial_elements' = trial_elements
      /\ stage = "coalesce" /\ stage' = "notify"
      /\ plan \in Plans /\ Levelled /\ DOMAIN depends_on \subseteq AllSteps /\ Activated
  BY DEF apply_coalescing, Pass, Analysed, Shape, ToExpand
<1>2. DOMAIN depends_on' = {s \in DOMAIN depends_on : current(s) = s}
  BY DEF apply_coalescing
<1>3. \A e \in Elements, u \in Trials : Activate(e, u) \in DOMAIN depends_on
  BY <1>1 DEF Activated, Coalesced
<1>4. ASSUME NEW e \in Elements, NEW u \in Trials
      PROVE  Activate(e, u) \in DOMAIN depends_on' <=> Kept(e, u)
  <2>1. Activate(e, u) \in DOMAIN depends_on' <=> current(Activate(e, u)) = Activate(e, u)
    BY <1>2, <1>3
  <2>2. \A v : Activate(e, v) = Activate(e, u) <=> v = u
    BY DEF Activate, Step
  <2>3. current(Activate(e, u)) =
          IF e \in NonTrialElements THEN Activate(e, GroupFirst(e, u)) ELSE Activate(e, u)
    BY <1>1, CurrentActivation
  <2>. QED  BY <2>1, <2>2, <2>3 DEF Kept
<1>5. \A e, u : Kept(e, u)' <=> Kept(e, u)
  BY <1>1 DEF Kept, NonTrialElements, GroupFirst
<1>6. Trials' = Trials /\ AllSteps' = AllSteps /\ \A e, u : Activate(e, u)' = Activate(e, u)
  BY <1>1 DEF Trials, AllSteps, Activate, Step
<1>7. Activated'
  <2>1. stage' \in Coalesced
    BY <1>1 DEF Coalesced
  <2>. QED  BY <1>4, <1>5, <1>6, <2>1 DEF Activated
<1>8. Levelled'
  BY <1>1 DEF Levelled
<1>. QED  BY <1>1, <1>2, <1>6, <1>7, <1>8 DEF Shape, Coalesced

LEMMA NotificationsShaped == ASSUME Shape, apply_trial_notifications PROVE Shape'
<1>. DEFINE begin == [s \in {TrialStart(t) : t \in Trials} |->
                        {current(Activate(e, s.trial)) : e \in NonTrialElements}
                          \cap DOMAIN depends_on]
            finish == [s \in {TrialEnd(t) : t \in Trials} |->
                         {Deactivate(e, s.trial) : e \in trial_elements} \cap DOMAIN depends_on]
            edges == {<<Activate(e, t), TrialStart(t)>> : e \in trial_elements, t \in Trials}
                       \cup HoldEdges
            new == {TrialStart(t) : t \in Trials} \cup {TrialEnd(t) : t \in Trials}
<1>1. Analysed /\ stage = "notify" /\ stage' = "reroute"
  BY DEF apply_trial_notifications, Pass
<1>2. depends_on' = depends_on
        \/ depends_on' = Joined(add_dependencies(depends_on, edges), Joined(begin, finish))
  BY DEF apply_trial_notifications
<1>3. DOMAIN depends_on' = DOMAIN depends_on \/ DOMAIN depends_on' = DOMAIN depends_on \cup new
  <2>1. DOMAIN begin \cup DOMAIN finish = new
    OBVIOUS
  <2>. DEFINE old == add_dependencies(depends_on, edges)
              more == Joined(begin, finish)
  <2>. HIDE DEF begin, finish, edges, new
  <2>2. DOMAIN old = DOMAIN depends_on /\ DOMAIN more = new
    BY <2>1, AddedDomain, JoinedDomain
  <2>3. depends_on' = depends_on \/ depends_on' = Joined(old, more)
    BY <1>2
  <2>. HIDE DEF old, more
  <2>. QED  BY <2>2, <2>3, JoinedDomain
<1>4. new \subseteq AllSteps /\ \A s \in new : s.kind # "activate"
  BY DEF AllSteps, Kinds, TrialStart, TrialEnd, Step
<1>5. DOMAIN depends_on \subseteq AllSteps
  BY <1>1 DEF Shape, ToExpand
<1>6. \A e, u : Activate(e, u).kind = "activate"
  BY DEF Activate, Step
<1>. HIDE DEF new
<1>7. DOMAIN depends_on' \subseteq AllSteps
  BY <1>3, <1>4, <1>5
<1>8. \A e, u : Activate(e, u) \in DOMAIN depends_on' <=> Activate(e, u) \in DOMAIN depends_on
  BY <1>3, <1>4, <1>6
<1>. QED  BY <1>1, <1>7, <1>8, PassKeepsShape DEF ToExpand, ToCoalesce, Coalesced

LEMMA ReroutingShaped == ASSUME Shape, apply_exclusive_rerouting PROVE Shape'
<1>1. DOMAIN depends_on' = DOMAIN depends_on
  BY AddedDomain, RemovedEdges DEF apply_exclusive_rerouting
<1>2. Analysed /\ stage = "reroute" /\ stage' = "gates"
  BY DEF apply_exclusive_rerouting, Pass
<1>. QED  BY <1>1, <1>2, PassKeepsShape DEF Shape, ToExpand, ToCoalesce, Coalesced

LEMMA GatesShaped == ASSUME Shape, apply_readiness_gates PROVE Shape'
<1>. DEFINE new == {Readiness(a) : a \in Gated}
            behind == [s \in DOMAIN depends_on |-> {BehindGate(s, d) : d \in depends_on[s]}]
            gates == [s \in new |-> {[s EXCEPT !.kind = "activate"]}]
<1>1. Analysed /\ stage = "gates" /\ stage' = "sentinels"
  BY DEF apply_readiness_gates, Pass
<1>2. depends_on' = Joined(behind, gates)
  BY DEF apply_readiness_gates
<1>3. DOMAIN depends_on' = DOMAIN depends_on \cup new
  <2>1. DOMAIN behind = DOMAIN depends_on /\ DOMAIN gates = new
    OBVIOUS
  <2>. HIDE DEF behind, gates, new
  <2>. QED  BY <1>2, <2>1, JoinedDomain
<1>4. DOMAIN depends_on \subseteq AllSteps
  BY <1>1 DEF Shape, ToExpand
<1>5. new \subseteq AllSteps /\ \A s \in new : s.kind # "activate"
  BY <1>4 DEF AllSteps, Kinds, Gated, Readiness
<1>6. \A e, u : Activate(e, u).kind = "activate"
  BY DEF Activate, Step
<1>. HIDE DEF new
<1>7. DOMAIN depends_on' \subseteq AllSteps
  BY <1>3, <1>4, <1>5
<1>8. \A e, u : Activate(e, u) \in DOMAIN depends_on' <=> Activate(e, u) \in DOMAIN depends_on
  BY <1>3, <1>5, <1>6
<1>. QED  BY <1>1, <1>7, <1>8, PassKeepsShape DEF ToExpand, ToCoalesce, Coalesced

LEMMA SentinelsShaped == ASSUME Shape, AddSentinels PROVE Shape'
<1>. DEFINE awaited == UNION {depends_on[s] : s \in DOMAIN depends_on}
            ends == [s \in {Start, End} |-> IF s = Start THEN {} ELSE DOMAIN depends_on \ awaited]
<1>1. Analysed /\ stage = "sentinels" /\ stage' = "reduce"
  BY DEF AddSentinels, Pass
<1>2. depends_on' = Joined(depends_on, ends)
  BY DEF AddSentinels
<1>3. DOMAIN depends_on' = DOMAIN depends_on \cup {Start, End}
  <2>1. DOMAIN ends = {Start, End}
    OBVIOUS
  <2>. HIDE DEF ends
  <2>. QED  BY <1>2, <2>1, JoinedDomain
<1>4. DOMAIN depends_on \subseteq AllSteps /\ plan \in Plans
  BY <1>1 DEF Shape, ToExpand
<1>5. Start \in AllSteps /\ End \in AllSteps /\ Start.kind # "activate" /\ End.kind # "activate"
  BY <1>4, PlanTyped DEF AllSteps, Kinds, Start, End, Step
<1>6. \A e, u : Activate(e, u).kind = "activate"
  BY DEF Activate, Step
<1>8. \A e, u : Activate(e, u) \in DOMAIN depends_on' <=> Activate(e, u) \in DOMAIN depends_on
  BY <1>3, <1>5, <1>6
<1>. QED  BY <1>1, <1>3, <1>4, <1>5, <1>8, PassKeepsShape DEF ToExpand, ToCoalesce, Coalesced

LEMMA ReductionShaped == ASSUME Shape, apply_transitive_reduction PROVE Shape'
<1>1. DOMAIN depends_on' = DOMAIN depends_on
  BY RemovedEdges DEF apply_transitive_reduction
<1>2. Analysed /\ stage = "reduce" /\ stage' = "validate"
  BY DEF apply_transitive_reduction, Pass
<1>. QED  BY <1>1, <1>2, PassKeepsShape DEF Shape, ToExpand, ToCoalesce, Coalesced

LEMMA ValidateShaped == ASSUME Shape, Validate PROVE Shape'
<1>1. Analysed /\ stage = "validate" /\ stage' \in {"compiled", "broken"} /\ depends_on' = depends_on
  BY DEF Validate, Pass
<1>. QED  BY <1>1, PassKeepsShape DEF Shape, ToExpand, ToCoalesce, Coalesced

LEMMA StutterShaped == ASSUME Shape, UNCHANGED vars PROVE Shape'
BY DEF Shape, vars, Levelled, Activated, Kept, GroupFirst, NonTrialElements, AllSteps, Trials,
       Activate, Step

(* Every pass keeps the shape. *)
LEMMA AlwaysShaped == Spec => []Shape
<1>1. ASSUME Shape, [Next]_vars PROVE Shape'
  BY <1>1, RefuseShaped, ExpandShaped, Rule2Shaped, DedicatedShaped, ExclusiveShaped,
     LifelineShaped, CoalescingShaped, NotificationsShaped, ReroutingShaped, GatesShaped,
     SentinelsShaped, ReductionShaped, ValidateShaped, StutterShaped DEF Next
<1>. QED  BY <1>1, InitShaped, PTL DEF Spec

(* The numbers from 0 to trial_count - 1, taken apart by strides and sizes   *)
(* (enumerator.rs), are all combinations of axis values, each of them once.*)
THEOREM EveryTrialOnce == Spec => []EveryCombinationOnce
<1>1. Shape => EveryCombinationOnce
  BY PlanTyped, TrialsAreCombinations DEF Shape, EveryCombinationOnce, Trials
<1>. QED  BY <1>1, AlwaysShaped, PTL

LEMMA StepsAreFinite ==
  ASSUME plan \in Plans
  PROVE  IsFiniteSet(AllSteps)
<1>. DEFINE E == {0} \cup Elements
            T == E \X Trials
            O == E \X T
            S == Kinds \X O
            f == [x \in S |-> [kind |-> x[1], element |-> x[2][1], owner |-> x[2][2][1], trial |-> x[2][2][2]]]
<1>1. IsFiniteSet(E)
  BY ElementsAssumption, FS_AddElement
<1>2. IsFiniteSet(Trials)
  BY PlanTyped, FS_Interval
<1>3. IsFiniteSet(Kinds)
  <2>. DEFINE A == {"activate", "deactivate"}
              B == {"trial_start", "trial_end"}
              C == {"start", "end"}
              R == {"ready"}
  <2>1. IsFiniteSet(A) /\ IsFiniteSet(B) /\ IsFiniteSet(C) /\ IsFiniteSet(R)
    <3>1. \A x, y : IsFiniteSet({x, y})
      <4>1. ASSUME NEW x, NEW y PROVE IsFiniteSet({x, y})
        <5>1. IsFiniteSet({x}) /\ {x, y} = {x} \cup {y}
          BY FS_Singleton
        <5>. QED  BY <5>1, FS_AddElement
      <4>. QED  BY <4>1
    <3>. QED  BY <3>1, FS_Singleton
  <2>2. Kinds = (A \cup B) \cup (C \cup R)
    BY DEF Kinds
  <2>. HIDE DEF A, B, C, R
  <2>3. IsFiniteSet(A \cup B) /\ IsFiniteSet(C \cup R)
    BY <2>1, FS_Union
  <2>. QED  BY <2>2, <2>3, FS_Union
<1>. HIDE DEF E
<1>4. IsFiniteSet(T)
  BY <1>1, <1>2, FS_Product
<1>5. IsFiniteSet(O)
  <2>. HIDE DEF T
  <2>. QED  BY <1>1, <1>4, FS_Product
<1>6. IsFiniteSet(S)
  <2>. HIDE DEF O
  <2>. QED  BY <1>3, <1>5, FS_Product
<1>7. f \in Surjection(S, AllSteps)
  <2>1. \A x \in S : f[x] \in AllSteps
    BY DEF AllSteps, E
  <2>2. ASSUME NEW s \in AllSteps PROVE \E x \in S : f[x] = s
    <3>1. <<s.kind, <<s.element, <<s.owner, s.trial>>>>>> \in S
      BY DEF AllSteps, E
    <3>. QED  BY <3>1 DEF AllSteps
  <2>. HIDE DEF S
  <2>. QED  BY <2>1, <2>2 DEF Surjection
<1>. HIDE DEF f, S
<1>. QED  BY <1>6, <1>7, FS_Surjection

(* apply_transitive_reduction leaves every step all it waits for, directly *)
(* or not, in a graph in which no step waits for itself.                   *)
THEOREM OrderAlwaysSurvives == Spec => OrderSurvives
<1>1. ASSUME Shape, [Next]_vars, stage = "reduce", Circleless(depends_on)
      PROVE  Upstream(depends_on') = Upstream(depends_on)
  <2>1. IsFiniteSet(DOMAIN depends_on)
    <3>1. DOMAIN depends_on \subseteq AllSteps /\ plan \in Plans
      BY <1>1 DEF Shape, ToExpand
    <3>. QED  BY <3>1, StepsAreFinite, FS_Subset
  <2>2. CASE UNCHANGED vars
    BY <2>2 DEF vars
  <2>3. CASE Next
    <3>1. apply_transitive_reduction
      BY <1>1, <2>3 DEF Next, Pass, Refuse, Expand, apply_rule2_edges, apply_dedicated_materialisation,
         apply_exclusive_serialisation, apply_lifeline_collapse, apply_coalescing,
         apply_trial_notifications, apply_exclusive_rerouting, apply_readiness_gates,
         AddSentinels, Validate
    <3>2. depends_on' = remove_dependencies(depends_on, Redundant(depends_on))
      BY <3>1 DEF apply_transitive_reduction
    <3>. QED  BY <1>1, <2>1, <3>2, ReductionKeepsOrder
  <2>. QED  BY <1>1, <2>2, <2>3
<1>. QED  BY <1>1, AlwaysShaped, PTL DEF Spec, OrderSurvives

------------------------------------------------------------------------------
(***************************************************************************)
(* Groups of trials.                                                       *)
(***************************************************************************)
Twice(t, p, s) == (t \div p) \div s = t \div (s * p)

LEMMA DivideTwice ==
  ASSUME NEW t \in Nat, NEW p \in Nat \ {0}, NEW s \in Nat \ {0}
  PROVE  Twice(t, p, s)
<1>. DEFINE q == t \div p
            a == t \div (s * p)
            r == q % s
<1>1. q \in Nat /\ r \in 0..(s - 1)
  BY Divides
<1>2. a \in Nat
  BY Positive, Divides
<1>3. q = a * s + r
  BY NextDigit
<1>. HIDE DEF q, a, r
<1>4. q \div s = a
  BY <1>1, <1>2, <1>3, DividesOnly
<1>. QED  BY <1>4 DEF q, a, Twice

LEMMA GroupsBegin ==
  ASSUME NEW t \in Nat, NEW s \in Nat \ {0}
  PROVE  LET u == (t \div s) * s
         IN /\ u \in Nat /\ u <= t /\ u \div s = t \div s /\ (u \div s) * s = u
            /\ \A v \in Nat : v <= t /\ (v \div s) * s = v => v <= u
<1>. DEFINE q == t \div s
            r == t % s
            u == q * s
<1>1. q \in Nat /\ r \in 0..(s - 1) /\ t = u + r
  BY Divides
<1>. HIDE DEF q, r
<1>2. u \in Nat
  BY <1>1, ProductIn
<1>3. u \div s = q
  <2>1. (q * s + 0) \div s = q
    BY <1>1, DividesOnly
  <2>2. q * s + 0 = u
    BY <1>2
  <2>. QED  BY <2>1, <2>2
<1>4. ASSUME NEW v \in Nat, v <= t, (v \div s) * s = v PROVE v <= u
  <2>. DEFINE k == v \div s
  <2>1. k \in Nat /\ v = k * s
    BY <1>4, Divides
  <2>. HIDE DEF k
  <2>2. CASE k <= q
    BY <1>1, <2>1, <2>2, ProductsGrow
  <2>3. CASE q + 1 <= k
    <3>1. (q + 1) * s <= k * s
      BY <1>1, <2>1, <2>3, ProductsGrow
    <3>2. (q + 1) * s = q * s + 1 * s
      BY <1>1, SumsDistribute
    <3>3. 1 * s = s
      OBVIOUS
    <3>. DEFINE z == k * s
    <3>4. z = v /\ u + s <= z
      BY <2>1, <3>1, <3>2, <3>3
    <3>. HIDE DEF z, u
    <3>. QED  BY <1>1, <1>2, <1>4, <3>4
  <2>. QED  BY <1>1, <2>1, <2>2, <2>3
<1>5. u <= t
  <2>. HIDE DEF u
  <2>. QED  BY <1>1, <1>2
<1>. QED  BY <1>1, <1>2, <1>3, <1>4, <1>5 DEF q

Alike(u, t, s) == u \div s = t \div s

(* Trials of one group are of one larger group. *)
LEMMA GroupsNest ==
  ASSUME NEW t \in Nat, NEW u \in Nat, NEW s \in Nat \ {0}, NEW m \in Nat \ {0}, u \div s = t \div s
  PROVE  Alike(u, t, m * s)
<1>1. Twice(t, s, m) /\ Twice(u, s, m)
  BY DivideTwice
<1>. QED  BY <1>1 DEF Twice, Alike

LEMMA GroupsSized ==
  ASSUME NEW axes \in Axes, NEW P, IsStrides(P, axes), trial_count(axes) = P[0],
         \A i \in 1..Len(axes) : strides(axes)[i] = P[i], NEW k \in 0..Len(axes)
  PROVE  group_size_at(axes, k) = P[k] /\ P[k] \in Nat \ {0}
<1>1. Len(axes) \in Nat /\ P[k] \in Nat \ {0}
  BY StrideTyped
<1>2. CASE k = 0
  BY <1>2, <1>1 DEF group_size_at
<1>3. CASE k # 0 /\ k >= Len(axes)
  BY <1>1, <1>3 DEF group_size_at, IsStrides
<1>4. CASE k # 0 /\ ~(k >= Len(axes))
  BY <1>1, <1>4 DEF group_size_at
<1>. QED  BY <1>1, <1>2, <1>3, <1>4

LEMMA StridesNest ==
  ASSUME NEW axes \in Axes, NEW P, IsStrides(P, axes), NEW k \in 0..Len(axes), NEW l \in 0..Len(axes), k <= l
  PROVE  Multiple(P[k], P[l])
<1>1. Len(axes) \in Nat /\ P[k] \in Nat \ {0} /\ P[l] \in Nat \ {0}
  BY StrideTyped
<1>2. CASE k = l
  <2>1. P[k] = 1 * P[l]
    BY <1>1, <1>2
  <2>. QED  BY <2>1 DEF Multiple
<1>3. CASE k # l
  <2>1. l \in 1..Len(axes) /\ k \in 0..(l - 1)
    BY <1>1, <1>3
  <2>2. PICK m \in Nat \ {0} : P[k] = m * (axes[l].size * P[l])
    <3>1. Multiple(P[k], axes[l].size * P[l])
      BY <2>1, StrideIsMultiple
    <3>. QED  BY <3>1 DEF Multiple
  <2>3. axes[l].size \in Nat \ {0}
    BY <2>1, StrideTyped
  <2>. DEFINE a == axes[l].size
              b == P[l]
  <2>4. (m * a) * b = m * (a * b) /\ m * a \in Nat \ {0}
    BY <1>1, <2>3, ProductsAssociate, Positive
  <2>. QED  BY <2>2, <2>4 DEF Multiple
<1>. QED  BY <1>2, <1>3

(* Settled: what the compiled plan says. *)
LEMMA GroupsAre ==
  ASSUME plan \in Plans, Levelled
  PROVE  \E P : /\ IsStrides(P, plan.axes) /\ trial_count(plan.axes) = P[0]
                /\ \A i \in 1..Len(plan.axes) : strides(plan.axes)[i] = P[i]
                /\ Len(plan.axes) \in Nat /\ DOMAIN plan.axes = 1..Len(plan.axes)
                /\ level \in [Elements -> 0..Len(plan.axes)]
                /\ \A e \in Elements : /\ P[level[e]] \in Nat \ {0}
                                       /\ own_level(plan, e) \in Int /\ own_level(plan, e) <= level[e]
                                       /\ \A t : GroupFirst(e, t) = (t \div P[level[e]]) * P[level[e]]
                /\ \A x \in Elements : \A y \in Deps(x, Holding) : y \in Elements /\ level[y] <= level[x]
<1>1. plan.axes \in Axes
  BY PlanTyped
<1>2. PICK P : /\ IsStrides(P, plan.axes) /\ trial_count(plan.axes) = P[0]
               /\ \A i \in 1..Len(plan.axes) : strides(plan.axes)[i] = P[i]
  BY <1>1, StridesAre
<1>3. Len(plan.axes) \in Nat /\ DOMAIN plan.axes = 1..Len(plan.axes)
  BY <1>1, AxesTyped
<1>. DEFINE n == Len(plan.axes)
<1>4. /\ level \in [Elements -> 0..n]
      /\ \A e \in Elements : own_level(plan, e) <= level[e]
      /\ \A e \in Elements : \A d \in Targets(plan, e, Holding) : d \in Elements /\ level[d] <= level[e]
  BY <1>3, LevelsSettle DEF Levelled
<1>5. ASSUME NEW e \in Elements
      PROVE  group_size_at(plan.axes, level[e]) = P[level[e]] /\ P[level[e]] \in Nat \ {0}
  BY <1>1, <1>2, <1>4, GroupsSized
<1>6. \A e \in Elements : \A t : GroupFirst(e, t) = (t \div P[level[e]]) * P[level[e]]
  BY <1>5 DEF GroupFirst
<1>7. \A e \in Elements : own_level(plan, e) \in Int
  <2>1. Owned(plan) \in [Elements -> 0..n] /\ \A e \in Elements : own_level(plan, e) = Owned(plan)[e]
    BY <1>3, OwnedIs DEF Owned
  <2>. QED  BY <1>3, <2>1
<1>. QED  BY <1>2, <1>3, <1>4, <1>5, <1>6, <1>7 DEF Deps

(* The instance that a trial finds up is that of the first of its group. *)
LEMMA UpIs ==
  ASSUME Shape, stage \in Coalesced, NEW e \in Elements, NEW t \in Trials
  PROVE  /\ Up(e, t) = Activate(e, IF e \in NonTrialElements THEN GroupFirst(e, t) ELSE t)
         /\ Up(e, t).trial = IF e \in NonTrialElements THEN GroupFirst(e, t) ELSE t
         /\ Up(e, t).trial \in Trials /\ Up(e, t).trial \in Nat
<1>1. plan \in Plans /\ Levelled /\ Activated
  BY StagesApart DEF Shape
<1>2. PICK P : /\ \A x \in Elements : /\ P[level[x]] \in Nat \ {0}
                                      /\ \A u : GroupFirst(x, u) = (u \div P[level[x]]) * P[level[x]]
  BY <1>1, GroupsAre
<1>3. t \in Nat /\ \A u \in 0..t : u \in Trials /\ u \in Nat
  <2>. DEFINE n == trial_count(plan.axes)
  <2>1. Trials = 0..(n - 1) /\ n \in Nat
    BY <1>1, PlanTyped
  <2>. HIDE DEF n
  <2>. QED  BY <2>1
<1>. DEFINE S == {u \in 0..t : Activate(e, u) \in DOMAIN depends_on}
            w == IF e \in NonTrialElements THEN GroupFirst(e, t) ELSE t
<1>4. S = {u \in 0..t : Kept(e, u)}
  BY <1>1, <1>3 DEF Activated
<1>5. w \in S /\ \A u \in S : u <= w
  <2>1. CASE e \in NonTrialElements
    <3>. DEFINE s == P[level[e]]
    <3>1. s \in Nat \ {0} /\ \A u : GroupFirst(e, u) = (u \div s) * s
      BY <1>2
    <3>. HIDE DEF s
    <3>2. /\ w \in Nat /\ w <= t /\ GroupFirst(e, w) = w
          /\ \A v \in Nat : v <= t /\ GroupFirst(e, v) = v => v <= w
      <4>. DEFINE b == (t \div s) * s
      <4>1. w = b
        BY <2>1, <3>1
      <4>2. /\ b \in Nat /\ b <= t /\ (b \div s) * s = b
            /\ \A v \in Nat : v <= t /\ (v \div s) * s = v => v <= b
        BY <1>3, <3>1, GroupsBegin
      <4>. HIDE DEF b, w
      <4>. QED  BY <3>1, <4>1, <4>2
    <3>. HIDE DEF w
    <3>. QED  BY <1>3, <1>4, <2>1, <3>2 DEF Kept
  <2>2. CASE e \notin NonTrialElements
    BY <1>3, <1>4, <2>2 DEF Kept
  <2>. QED  BY <2>1, <2>2
<1>6. Max(S) = w
  <2>1. S \in SUBSET Int /\ IsFiniteSet(S)
    <3>1. S \subseteq 0..t /\ 0..t \subseteq Int /\ IsFiniteSet(0..t)
      BY <1>3, FS_Interval
    <3>. HIDE DEF S
    <3>2. IsFiniteSet(S)
      BY <3>1, FS_Subset
    <3>. QED  BY <3>1, <3>2
  <2>. HIDE DEF S, w
  <2>2. Max(S) \in S /\ \A u \in S : u <= Max(S)
    BY <1>5, <2>1, GreatestOf
  <2>3. PICK k \in S : k = Max(S)
    BY <2>2
  <2>4. k \in Int /\ w \in Int /\ w <= k /\ k <= w
    BY <1>5, <2>1, <2>2, <2>3
  <2>. QED  BY <2>3, <2>4
<1>7. Up(e, t) = Activate(e, w)
  BY <1>6 DEF Up
<1>8. w \in Trials /\ w \in Nat
  BY <1>3, <1>5
<1>. QED  BY <1>7, <1>8 DEF Activate, Step

LEMMA ShapeKeepsShared == ASSUME Shape PROVE SharedStays
<1>. SUFFICES ASSUME stage = "compiled", NEW x \in Elements, NEW t \in Trials,
                     NEW y \in Deps(x, {"Shared", "Exclusive"}), y \in NonTrialElements
              PROVE  Up(y, Up(x, t).trial) = Up(y, t)
  BY DEF SharedStays
<1>1. plan \in Plans /\ Levelled /\ stage \in Coalesced
  BY StagesApart DEF Shape, Coalesced
<1>2. PICK P : /\ IsStrides(P, plan.axes)
               /\ Len(plan.axes) \in Nat /\ level \in [Elements -> 0..Len(plan.axes)]
               /\ \A e \in Elements : /\ P[level[e]] \in Nat \ {0}
                                      /\ \A u : GroupFirst(e, u) = (u \div P[level[e]]) * P[level[e]]
               /\ \A e \in Elements : \A d \in Deps(e, Holding) : d \in Elements /\ level[d] <= level[e]
  BY <1>1, GroupsAre
<1>3. y \in Elements /\ level[y] <= level[x]
  <2>1. y \in Deps(x, Holding)
    BY DEF Deps, Targets, Holding
  <2>. QED  BY <1>2, <2>1
<1>4. PICK u \in Trials : u = Up(x, t).trial
  BY <1>1, UpIs
<1>5. Up(y, u) = Activate(y, GroupFirst(y, u)) /\ Up(y, t) = Activate(y, GroupFirst(y, t))
  BY <1>1, <1>3, UpIs
<1>6. GroupFirst(y, u) = GroupFirst(y, t)
  <2>1. CASE x \notin NonTrialElements
    BY <1>1, <1>4, <2>1, UpIs
  <2>2. CASE x \in NonTrialElements
    <3>1. u = GroupFirst(x, t)
      BY <1>1, <1>4, <2>2, UpIs
    <3>2. PICK m \in Nat \ {0} : P[level[y]] = m * P[level[x]]
      <4>1. plan.axes \in Axes /\ level[x] \in 0..Len(plan.axes) /\ level[y] \in 0..Len(plan.axes)
        BY <1>1, <1>2, <1>3, PlanTyped
      <4>2. PICK k \in 0..Len(plan.axes), l \in 0..Len(plan.axes) : k = level[y] /\ l = level[x]
        BY <4>1
      <4>3. k <= l
        BY <1>3, <4>2
      <4>4. Multiple(P[k], P[l])
        BY <1>2, <4>1, <4>3, StridesNest
      <4>. QED  BY <4>2, <4>4 DEF Multiple
    <3>. DEFINE s == P[level[x]]
    <3>3. s \in Nat \ {0} /\ u = (t \div s) * s /\ t \in Nat /\ u \in Nat
      BY <1>1, <1>2, <3>1, PlanTyped
    <3>. HIDE DEF s
    <3>4. u \div s = t \div s
      BY <3>3, GroupsBegin
    <3>5. Alike(u, t, m * s)
      BY <3>3, <3>4, GroupsNest
    <3>6. Alike(u, t, P[level[y]])
      BY <3>2, <3>5 DEF s
    <3>. QED  BY <1>2, <1>3, <3>6 DEF Alike
  <2>. QED  BY <2>1, <2>2
<1>. QED  BY <1>4, <1>5, <1>6

(* The axes of every plan are listed in the order of their elements. *)
AxesInOrder ==
  \A p \in Plans : \A i, j \in DOMAIN p.axes : i <= j => p.axes[i].element <= p.axes[j].element

LEMMA FirstNumbers ==
  ASSUME NEW n \in Nat
  PROVE  IsFiniteSet(1..n) /\ Cardinality(1..n) = n
BY FS_Interval

(* An element whose axis is the i-th one has at least level i. *)
LEMMA LevelsReach ==
  ASSUME AxesInOrder, plan \in Plans, NEW i \in DOMAIN plan.axes
  PROVE  i <= own_level(plan, plan.axes[i].element)
<1>. DEFINE e == plan.axes[i].element
            S == {j \in DOMAIN plan.axes : plan.axes[j].element <= e}
<1>1. plan.axes \in Axes /\ Len(plan.axes) \in Nat /\ DOMAIN plan.axes = 1..Len(plan.axes)
  BY PlanTyped, AxesTyped
<1>2. 1..i \subseteq S /\ S \subseteq 1..Len(plan.axes) /\ i \in Nat
  BY <1>1 DEF AxesInOrder
<1>. HIDE DEF S
<1>3. IsFiniteSet(1..Len(plan.axes)) /\ IsFiniteSet(1..i) /\ Cardinality(1..i) = i
  BY <1>1, <1>2, FirstNumbers
<1>4. IsFiniteSet(S)
  BY <1>2, <1>3, FS_Subset
<1>5. Cardinality(1..i) <= Cardinality(S)
  BY <1>2, <1>4, FS_Subset
<1>. QED  BY <1>3, <1>5 DEF own_level, S

LEMMA ShapeReactivates == ASSUME AxesInOrder, Shape PROVE ReactivatedOnChange
<1>. SUFFICES ASSUME stage = "compiled", NEW x \in Elements, NEW t \in Trials,
                     NEW i \in DOMAIN plan.axes, plan.axes[i].element = x
              PROVE  offsets(plan.axes, t)[i] = offsets(plan.axes, Up(x, t).trial)[i]
  BY DEF ReactivatedOnChange
<1>1. plan \in Plans /\ Levelled /\ stage \in Coalesced
  BY StagesApart DEF Shape, Coalesced
<1>2. PICK P : /\ IsStrides(P, plan.axes) /\ \A j \in 1..Len(plan.axes) : strides(plan.axes)[j] = P[j]
               /\ Len(plan.axes) \in Nat /\ DOMAIN plan.axes = 1..Len(plan.axes)
               /\ level \in [Elements -> 0..Len(plan.axes)]
               /\ \A e \in Elements : /\ P[level[e]] \in Nat \ {0}
                                      /\ own_level(plan, e) \in Int /\ own_level(plan, e) <= level[e]
                                      /\ \A u : GroupFirst(e, u) = (u \div P[level[e]]) * P[level[e]]
  BY <1>1, GroupsAre
<1>3. PICK u \in Trials : u = Up(x, t).trial
  BY <1>1, UpIs
<1>4. \A v : offsets(plan.axes, v)[i] = (v \div P[i]) % plan.axes[i].size
  BY <1>2 DEF offsets
<1>5. CASE x \notin NonTrialElements
  <2>1. u = t
    BY <1>1, <1>3, <1>5, UpIs
  <2>. QED  BY <1>3, <2>1
<1>6. CASE x \in NonTrialElements
  <2>1. u = GroupFirst(x, t)
    BY <1>1, <1>3, <1>6, UpIs
  <2>2. plan.axes \in Axes /\ i \in 0..Len(plan.axes) /\ level[x] \in 0..Len(plan.axes)
    BY <1>1, <1>2, PlanTyped
  <2>3. PICK l \in 0..Len(plan.axes) : l = level[x]
    BY <2>2
  <2>4. i <= l
    <3>1. i <= own_level(plan, x) /\ own_level(plan, x) <= l
      BY <1>1, <1>2, <2>3, LevelsReach
    <3>2. PICK o : o = own_level(plan, x)
      OBVIOUS
    <3>3. o \in Int
      BY <1>2, <3>2
    <3>. QED  BY <1>2, <3>1, <3>2, <3>3
  <2>5. PICK m \in Nat \ {0} : P[i] = m * P[l]
    <3>1. Multiple(P[i], P[l])
      BY <1>2, <2>2, <2>4, StridesNest
    <3>. QED  BY <3>1 DEF Multiple
  <2>. DEFINE s == P[l]
  <2>6. s \in Nat \ {0} /\ u = (t \div s) * s /\ t \in Nat /\ u \in Nat
    BY <1>1, <1>2, <2>1, <2>3, PlanTyped
  <2>. HIDE DEF s
  <2>7. u \div s = t \div s
    BY <2>6, GroupsBegin
  <2>8. Alike(u, t, m * s)
    BY <2>6, <2>7, GroupsNest
  <2>9. Alike(u, t, P[i])
    BY <2>5, <2>8 DEF s
  <2>. QED  BY <1>3, <1>4, <2>9 DEF Alike
<1>. QED  BY <1>5, <1>6

(* What an element shares has at most its level (effective_levels), so the *)
(* trials of one instance of the element are trials of one instance of it. *)
THEOREM SharedAlwaysStays == Spec => []SharedStays
BY AlwaysShaped, ShapeKeepsShared, PTL

(* With axes in the order of the elements, which own_level (binding.rs)    *)
(* takes for granted, an element is also brought up again wherever its own *)
(* values change.                                                          *)
THEOREM InstancesAlwaysSound == ASSUME AxesInOrder PROVE Spec => []InstancesSound
<1>1. Shape => InstancesSound
  BY ShapeKeepsShared, ShapeReactivates DEF InstancesSound
<1>. QED  BY <1>1, AlwaysShaped, PTL

------------------------------------------------------------------------------
(***************************************************************************)
(* What the passes ask for, before anything is collapsed or coalesced.     *)
(***************************************************************************)
Owners == {o \in Elements \X Elements \X Trials : o[2] \in Deps(o[1], {"Dedicated"})}

PlainSteps == {Activate(e, t) : e \in Elements, t \in Trials} \cup {Deactivate(e, t) : e \in Elements, t \in Trials}

OwnedUps   == {Dedicated(Activate(o[2], o[3]), o[1]) : o \in Owners}
OwnedDowns == {Dedicated(Deactivate(o[2], o[3]), o[1]) : o \in Owners}

BuiltSteps == PlainSteps \cup OwnedUps \cup OwnedDowns

UpAfterUp(kinds) ==
  UNION {{<<Activate(x, t), Activate(y, t)>> : y \in Deps(x, kinds)} : x \in Elements, t \in Trials}

DownAfterDown(kinds) ==
  UNION {{<<Deactivate(y, t), Deactivate(x, t)>> : y \in Deps(x, kinds)} : x \in Elements, t \in Trials}

FirstEdges ==
  {<<Activate(x, t), Start>> : x \in Elements, t \in Trials}
  \cup {<<Deactivate(x, t), Activate(x, t)>> : x \in Elements, t \in Trials}
  \cup UpAfterUp({"Shared"})

RuleEdges == FirstEdges \cup SharedEdges \cup LinearEdges \cup LifelineEdges

OwnEdges ==
  RuleEdges
  \cup {<<Activate(o[1], o[3]), Dedicated(Activate(o[2], o[3]), o[1])>> : o \in Owners}
  \cup {<<s, Start>> : s \in OwnedUps}
  \cup {<<s, Deactivate(s.owner, s.trial)>> : s \in OwnedDowns}

AskedEdges ==
  OwnEdges \cup UpAfterUp({"Exclusive"}) \cup DownAfterDown({"Exclusive"}) \cup SerialEdges

(* The steps and the edges of a graph are these. *)
Consists(g, steps, edges) ==
  /\ DOMAIN g = steps
  /\ edges \subseteq steps \X AllSteps
  /\ \A s \in steps : \A d : d \in g[s] <=> <<s, d>> \in edges

Built ==
  /\ stage = "rule2" => Consists(depends_on, PlainSteps, FirstEdges)
  /\ stage = "dedicated" => Consists(depends_on, PlainSteps, RuleEdges)
  /\ stage = "exclusive" => Consists(depends_on, BuiltSteps, OwnEdges)
  /\ stage = "lifeline" => Consists(depends_on, BuiltSteps, AskedEdges)

LEMMA AddedEdges ==
  ASSUME NEW g, NEW steps, NEW edges, Consists(g, steps, edges),
         NEW more, more \subseteq steps \X AllSteps
  PROVE  Consists(add_dependencies(g, more), steps, edges \cup more)
<1>. DEFINE h == add_dependencies(g, more)
<1>1. DOMAIN h = steps
  BY AddedDomain DEF Consists
<1>2. ASSUME NEW s \in steps, NEW d PROVE d \in h[s] <=> <<s, d>> \in edges \cup more
  <2>1. h[s] = g[s] \cup {e[2] : e \in {e \in more : e[1] = s}}
    BY DEF add_dependencies, Consists
  <2>2. d \in g[s] <=> <<s, d>> \in edges
    BY DEF Consists
  <2>3. <<s, d>> \in more => d \in {e[2] : e \in {e \in more : e[1] = s}}
    <3>1. <<s, d>>[1] = s /\ <<s, d>>[2] = d
      OBVIOUS
    <3>. QED  BY <3>1
  <2>4. ASSUME NEW e \in more, e[1] = s, d = e[2] PROVE <<s, d>> \in more
    <3>1. e = <<e[1], e[2]>>
      OBVIOUS
    <3>. QED  BY <2>4, <3>1
  <2>. QED  BY <2>1, <2>2, <2>3, <2>4
<1>. QED  BY <1>1, <1>2 DEF Consists

LEMMA JoinedEdges ==
  ASSUME NEW f, NEW g, NEW some, NEW these, Consists(f, some, these),
         NEW others, NEW those, Consists(g, others, those), some \cap others = {}
  PROVE  Consists(Joined(f, g), some \cup others, these \cup those)
<1>. DEFINE h == Joined(f, g)
<1>1. DOMAIN h = some \cup others /\ \A s \in some \cup others : h[s] = IF s \in some THEN f[s] ELSE g[s]
  BY DEF Joined, Consists
<1>2. ASSUME NEW s \in some \cup others, NEW d PROVE d \in h[s] <=> <<s, d>> \in these \cup those
  <2>1. <<s, d>> \in these => s \in some
    BY DEF Consists
  <2>2. <<s, d>> \in those => s \in others
    BY DEF Consists
  <2>. QED  BY <1>1, <2>1, <2>2 DEF Consists
<1>3. these \cup those \subseteq (some \cup others) \X AllSteps
  BY DEF Consists
<1>4. Consists(h, some \cup others, these \cup those)
  <2>. HIDE DEF h
  <2>. QED  BY <1>1, <1>2, <1>3 DEF Consists
<1>. QED  BY <1>4

(* Whoever has targets among the elements has steps and edges among all.   *)
LEMMA BuiltTyped ==
  ASSUME plan \in Plans, Supported(plan)
  PROVE  /\ PlainSteps \subseteq AllSteps /\ OwnedUps \subseteq AllSteps /\ OwnedDowns \subseteq AllSteps
         /\ Start \in AllSteps
         /\ \A kinds \in SUBSET Relationships : \A x \in Elements : Deps(x, kinds) \subseteq Elements
         /\ \A s \in PlainSteps : s.owner = 0
         /\ \A s \in OwnedUps : s.owner # 0 /\ s.kind = "activate"
         /\ \A s \in OwnedDowns : s.owner # 0 /\ s.kind = "deactivate"
         /\ \A s \in OwnedDowns : Deactivate(s.owner, s.trial) \in AllSteps
<1>1. Start \in AllSteps
  BY PlanTyped DEF AllSteps, Start, Step, Kinds
<1>2. PlainSteps \subseteq AllSteps /\ \A s \in PlainSteps : s.owner = 0
  BY DEF PlainSteps, AllSteps, Activate, Deactivate, Step, Kinds
<1>3. /\ OwnedUps \subseteq AllSteps /\ OwnedDowns \subseteq AllSteps
      /\ \A s \in OwnedUps : s.owner # 0 /\ s.kind = "activate"
      /\ \A s \in OwnedDowns : s.owner # 0 /\ s.kind = "deactivate" /\ s.owner \in Elements /\ s.trial \in Trials
  BY NoneIsNoElement DEF OwnedUps, OwnedDowns, Owners, Dedicated, AllSteps, Activate, Deactivate, Step, Kinds
<1>4. \A s \in OwnedDowns : Deactivate(s.owner, s.trial) \in AllSteps
  BY <1>3 DEF AllSteps, Deactivate, Step, Kinds
<1>5. \A kinds \in SUBSET Relationships : \A x \in Elements : Deps(x, kinds) \subseteq Elements
  BY TargetsOfFewer DEF Supported, Deps
<1>. QED  BY <1>1, <1>2, <1>3, <1>4, <1>5

LEMMA EdgesTyped ==
  ASSUME plan \in Plans, Supported(plan)
  PROVE  /\ FirstEdges \subseteq PlainSteps \X AllSteps
         /\ SharedEdges \cup LinearEdges \cup LifelineEdges \subseteq PlainSteps \X AllSteps
         /\ \A kinds \in SUBSET Relationships :
              /\ UpAfterUp(kinds) \subseteq PlainSteps \X AllSteps
              /\ DownAfterDown(kinds) \subseteq PlainSteps \X AllSteps
         /\ {<<Activate(o[1], o[3]), Dedicated(Activate(o[2], o[3]), o[1])>> : o \in Owners}
              \subseteq PlainSteps \X AllSteps
         /\ SerialEdges \subseteq PlainSteps \X AllSteps
<1>1. \A e \in Elements, t \in Trials :
        Activate(e, t) \in PlainSteps /\ Deactivate(e, t) \in PlainSteps
  BY DEF PlainSteps
<1>2. PlainSteps \subseteq AllSteps /\ OwnedUps \subseteq AllSteps /\ Start \in AllSteps
  BY BuiltTyped
<1>3. \A kinds \in SUBSET Relationships : \A x \in Elements : Deps(x, kinds) \subseteq Elements
  BY BuiltTyped
<1>4. ASSUME NEW kinds \in SUBSET Relationships
      PROVE  UpAfterUp(kinds) \subseteq PlainSteps \X AllSteps /\ DownAfterDown(kinds) \subseteq PlainSteps \X AllSteps
  BY <1>1, <1>2, <1>3 DEF UpAfterUp, DownAfterDown
<1>5. /\ {"Shared"} \in SUBSET Relationships /\ {"Linear"} \in SUBSET Relationships
      /\ {"Lifeline"} \in SUBSET Relationships
  BY DEF Relationships
<1>6. FirstEdges \subseteq PlainSteps \X AllSteps
  BY <1>1, <1>2, <1>4, <1>5 DEF FirstEdges
<1>7. SharedEdges \subseteq PlainSteps \X AllSteps /\ LifelineEdges \subseteq PlainSteps \X AllSteps
  <2>1. SharedEdges = DownAfterDown({"Shared"}) /\ LifelineEdges = UpAfterUp({"Lifeline"})
    BY DEF SharedEdges, LifelineEdges, UpAfterUp, DownAfterDown
  <2>. QED  BY <1>4, <1>5, <2>1
<1>8. LinearEdges \subseteq PlainSteps \X AllSteps
  BY <1>1, <1>2, <1>3, <1>5 DEF LinearEdges
<1>9. {<<Activate(o[1], o[3]), Dedicated(Activate(o[2], o[3]), o[1])>> : o \in Owners}
              \subseteq PlainSteps \X AllSteps
  BY <1>1, <1>2 DEF Owners, OwnedUps
<1>10. SerialEdges \subseteq PlainSteps \X AllSteps
  <2>1. \A t \in Later : t \in Trials /\ t - 1 \in Trials
    <3>. DEFINE n == trial_count(plan.axes)
    <3>1. n \in Nat /\ Trials = 0..(n - 1)
      BY PlanTyped
    <3>. HIDE DEF n
    <3>. QED  BY <3>1 DEF Later
  <2>. QED  BY <1>1, <1>2, <2>1 DEF SerialEdges
<1>. QED  BY <1>4, <1>6, <1>7, <1>8, <1>9, <1>10

(* Nothing of this depends on the graph. *)
LEMMA AskedStays ==
  ASSUME Analysed
  PROVE  /\ PlainSteps' = PlainSteps /\ BuiltSteps' = BuiltSteps /\ AllSteps' = AllSteps
         /\ OwnedUps' = OwnedUps /\ OwnedDowns' = OwnedDowns
         /\ FirstEdges' = FirstEdges /\ RuleEdges' = RuleEdges /\ OwnEdges' = OwnEdges
         /\ AskedEdges' = AskedEdges
BY DEF Analysed, PlainSteps, BuiltSteps, AllSteps, Trials, OwnedUps, OwnedDowns, Owners, Deps, FirstEdges,
       RuleEdges, OwnEdges, AskedEdges, SharedEdges, LinearEdges, LifelineEdges, SerialEdges,
       UpAfterUp, DownAfterDown, Activate, Deactivate, Dedicated, Step, Start, Later

LEMMA UpEdge ==
  ASSUME NEW x \in Elements, NEW t \in Trials, NEW kinds, NEW d
  PROVE  <<Activate(x, t), d>> \in UpAfterUp(kinds) <=> \E y \in Deps(x, kinds) : d = Activate(y, t)
<1>1. \A z, u : Activate(z, u) = Activate(x, t) => z = x /\ u = t
  BY DEF Activate, Step
<1>2. ASSUME NEW y \in Deps(x, kinds), d = Activate(y, t)
      PROVE  <<Activate(x, t), d>> \in UpAfterUp(kinds)
  <2>. DEFINE Of(z, u) == {<<Activate(z, u), Activate(k, u)>> : k \in Deps(z, kinds)}
  <2>1. <<Activate(x, t), d>> \in Of(x, t)
    BY <1>2
  <2>2. UpAfterUp(kinds) = UNION {Of(z, u) : z \in Elements, u \in Trials}
    BY DEF UpAfterUp
  <2>. HIDE DEF Of
  <2>. QED  BY <2>1, <2>2
<1>3. ASSUME <<Activate(x, t), d>> \in UpAfterUp(kinds)
      PROVE  \E y \in Deps(x, kinds) : d = Activate(y, t)
  <2>1. PICK z \in Elements, u \in Trials :
          <<Activate(x, t), d>> \in {<<Activate(z, u), Activate(y, u)>> : y \in Deps(z, kinds)}
    BY <1>3 DEF UpAfterUp
  <2>2. PICK y \in Deps(z, kinds) : <<Activate(x, t), d>> = <<Activate(z, u), Activate(y, u)>>
    BY <2>1
  <2>3. Activate(x, t) = Activate(z, u) /\ d = Activate(y, u)
    BY <2>2
  <2>4. z = x /\ u = t
    BY <1>1, <2>3
  <2>. QED  BY <2>3, <2>4
<1>. QED  BY <1>2, <1>3

LEMMA BuiltByExpand == ASSUME Shape, Expand PROVE Built'
<1>. DEFINE up == [s \in {Activate(e, t) : e \in Elements, t \in Trials} |->
                     {Start} \cup {Activate(y, s.trial) : y \in Deps(s.element, {"Shared"})}]
            down == [s \in {Deactivate(e, t) : e \in Elements, t \in Trials} |->
                       {Activate(s.element, s.trial)}]
            Ups == {Activate(e, t) : e \in Elements, t \in Trials}
            Downs == {Deactivate(e, t) : e \in Elements, t \in Trials}
            ups == {<<Activate(x, t), Start>> : x \in Elements, t \in Trials} \cup UpAfterUp({"Shared"})
            downs == {<<Deactivate(x, t), Activate(x, t)>> : x \in Elements, t \in Trials}
<1>1. stage' = "rule2" /\ plan' = plan /\ plan \in Plans /\ Supported(plan)
  BY DEF Shape, Expand, Pass, Unsupported, Deps, Supported
<1>2. depends_on' = Joined(up, down)
  BY DEF Expand
<1>3. FirstEdges = ups \cup downs /\ PlainSteps = Ups \cup Downs /\ Ups \cap Downs = {}
  <2>1. Ups \cap Downs = {}
    BY DEF Activate, Deactivate, Step
  <2>. QED  BY <2>1 DEF FirstEdges, PlainSteps
<1>4. FirstEdges \subseteq PlainSteps \X AllSteps
  BY <1>1, EdgesTyped
<1>5. Consists(up, Ups, ups)
  <2>1. ups \subseteq Ups \X AllSteps
    <3>1. \A e \in ups : e[1] \in Ups
      BY DEF UpAfterUp
    <3>2. ups \subseteq PlainSteps \X AllSteps
      BY <1>3, <1>4
    <3>. HIDE DEF ups, Ups
    <3>. QED  BY <3>1, <3>2
  <2>2. ASSUME NEW x \in Elements, NEW t \in Trials, NEW d
        PROVE  d \in up[Activate(x, t)] <=> <<Activate(x, t), d>> \in ups
    <3>1. Activate(x, t).element = x /\ Activate(x, t).trial = t
      BY DEF Activate, Step
    <3>2. up[Activate(x, t)] = {Start} \cup {Activate(y, t) : y \in Deps(x, {"Shared"})}
      BY <3>1
    <3>3. \A z, u : Activate(z, u) = Activate(x, t) => z = x /\ u = t
      BY DEF Activate, Step
    <3>4. <<Activate(x, t), d>> \in UpAfterUp({"Shared"}) <=> \E y \in Deps(x, {"Shared"}) : d = Activate(y, t)
      BY UpEdge
    <3>5. <<Activate(x, t), d>> \in {<<Activate(z, u), Start>> : z \in Elements, u \in Trials} <=> d = Start
      BY <3>3
    <3>6. <<Activate(x, t), d>> \in ups <=> d = Start \/ \E y \in Deps(x, {"Shared"}) : d = Activate(y, t)
      BY <3>4, <3>5
    <3>. HIDE DEF ups, up
    <3>. QED  BY <3>2, <3>6
  <2>. HIDE DEF ups, up
  <2>3. \A s \in Ups : \A d : d \in up[s] <=> <<s, d>> \in ups
    BY <2>2
  <2>4. DOMAIN up = Ups
    BY DEF up
  <2>. HIDE DEF Ups
  <2>. QED  BY <2>1, <2>3, <2>4 DEF Consists
<1>6. Consists(down, Downs, downs)
  <2>1. downs \subseteq Downs \X AllSteps
    <3>1. \A e \in downs : e[1] \in Downs
      OBVIOUS
    <3>2. downs \subseteq PlainSteps \X AllSteps
      BY <1>3, <1>4
    <3>. HIDE DEF downs, Downs
    <3>. QED  BY <3>1, <3>2
  <2>2. ASSUME NEW x \in Elements, NEW t \in Trials, NEW d
        PROVE  d \in down[Deactivate(x, t)] <=> <<Deactivate(x, t), d>> \in downs
    <3>1. Deactivate(x, t).element = x /\ Deactivate(x, t).trial = t
      BY DEF Deactivate, Step
    <3>2. down[Deactivate(x, t)] = {Activate(x, t)}
      BY <3>1
    <3>3. \A z, u : Deactivate(z, u) = Deactivate(x, t) => z = x /\ u = t
      BY DEF Deactivate, Step
    <3>. QED  BY <3>2, <3>3
  <2>. HIDE DEF downs, down
  <2>3. \A s \in Downs : \A d : d \in down[s] <=> <<s, d>> \in downs
    BY <2>2
  <2>4. DOMAIN down = Downs
    BY DEF down
  <2>. HIDE DEF Downs
  <2>. QED  BY <2>1, <2>3, <2>4 DEF Consists
<1>7. Consists(Joined(up, down), PlainSteps, FirstEdges)
  <2>. HIDE DEF up, down, Ups, Downs, ups, downs
  <2>. QED  BY <1>3, <1>5, <1>6, JoinedEdges
<1>8. PlainSteps' = PlainSteps /\ FirstEdges' = FirstEdges /\ AllSteps' = AllSteps
  BY <1>1 DEF PlainSteps, FirstEdges, AllSteps, Trials, UpAfterUp, Deps, Activate, Deactivate, Step, Start
<1>. HIDE DEF up, down
<1>. QED  BY <1>1, <1>2, <1>7, <1>8 DEF Built, Consists

LEMMA BuiltByRule2 == ASSUME Shape, Built, apply_rule2_edges PROVE Built'
<1>1. stage = "rule2" /\ stage' = "dedicated" /\ Analysed
  BY DEF apply_rule2_edges, Pass
<1>2. plan \in Plans /\ Supported(plan) /\ Consists(depends_on, PlainSteps, FirstEdges)
  BY <1>1 DEF Shape, Built, ToExpand, Levelled
<1>3. depends_on' = add_dependencies(depends_on, SharedEdges \cup LinearEdges \cup LifelineEdges)
  BY DEF apply_rule2_edges
<1>4. Consists(depends_on', PlainSteps, FirstEdges \cup (SharedEdges \cup LinearEdges \cup LifelineEdges))
  BY <1>2, <1>3, EdgesTyped, AddedEdges
<1>5. FirstEdges \cup (SharedEdges \cup LinearEdges \cup LifelineEdges) = RuleEdges
  BY DEF RuleEdges
<1>. QED  BY <1>1, <1>4, <1>5, AskedStays DEF Built, Consists

LEMMA BuiltByDedicated == ASSUME Shape, Built, apply_dedicated_materialisation PROVE Built'
<1>. DEFINE ups   == [s \in OwnedUps |-> {Start}]
            downs == [s \in OwnedDowns |-> {Deactivate(s.owner, s.trial)}]
            more  == {<<Activate(o[1], o[3]), Dedicated(Activate(o[2], o[3]), o[1])>> : o \in Owners}
            fromUps   == {<<s, Start>> : s \in OwnedUps}
            fromDowns == {<<s, Deactivate(s.owner, s.trial)>> : s \in OwnedDowns}
            owning == add_dependencies(depends_on, more)
<1>1. stage = "dedicated" /\ stage' = "exclusive" /\ Analysed
  BY DEF apply_dedicated_materialisation, Pass
<1>2. plan \in Plans /\ Supported(plan) /\ Consists(depends_on, PlainSteps, RuleEdges)
  BY <1>1 DEF Shape, Built, ToExpand, Levelled
<1>3. depends_on' = Joined(owning, Joined(ups, downs))
  BY DEF apply_dedicated_materialisation, Owners, OwnedUps, OwnedDowns
<1>4. Consists(owning, PlainSteps, RuleEdges \cup more)
  <2>1. more \subseteq PlainSteps \X AllSteps
    BY <1>2, EdgesTyped
  <2>. HIDE DEF more
  <2>. QED  BY <1>2, <2>1, AddedEdges
<1>5. Consists(ups, OwnedUps, fromUps)
  BY <1>2, BuiltTyped DEF Consists
<1>6. Consists(downs, OwnedDowns, fromDowns)
  BY <1>2, BuiltTyped DEF Consists
<1>7. OwnedUps \cap OwnedDowns = {} /\ PlainSteps \cap (OwnedUps \cup OwnedDowns) = {}
  BY <1>2, BuiltTyped
<1>8. Consists(Joined(ups, downs), OwnedUps \cup OwnedDowns, fromUps \cup fromDowns)
  <2>. HIDE DEF ups, downs, fromUps, fromDowns
  <2>. QED  BY <1>5, <1>6, <1>7, JoinedEdges
<1>9. Consists(Joined(owning, Joined(ups, downs)), PlainSteps \cup (OwnedUps \cup OwnedDowns),
               (RuleEdges \cup more) \cup (fromUps \cup fromDowns))
  <2>. DEFINE all == Joined(ups, downs)  these == fromUps \cup fromDowns  those == RuleEdges \cup more
              some == OwnedUps \cup OwnedDowns
  <2>1. Consists(owning, PlainSteps, those) /\ Consists(all, some, these) /\ PlainSteps \cap some = {}
    BY <1>4, <1>7, <1>8
  <2>. HIDE DEF owning, all, these, those, some
  <2>2. Consists(Joined(owning, all), PlainSteps \cup some, those \cup these)
    BY <2>1, JoinedEdges
  <2>. QED  BY <2>2 DEF all, these, those, some
<1>10. PlainSteps \cup (OwnedUps \cup OwnedDowns) = BuiltSteps
       /\ (RuleEdges \cup more) \cup (fromUps \cup fromDowns) = OwnEdges
  BY DEF BuiltSteps, OwnEdges
<1>11. Consists(depends_on', BuiltSteps, OwnEdges)
  BY <1>3, <1>9, <1>10
<1>. QED  BY <1>1, <1>11, AskedStays DEF Built, Consists

LEMMA BuiltByExclusive == ASSUME Shape, Built, apply_exclusive_serialisation PROVE Built'
<1>. DEFINE both == UNION {{<<Activate(x, t), Activate(y, t)>> : y \in Deps(x, {"Exclusive"})} \cup
                           {<<Deactivate(y, t), Deactivate(x, t)>> : y \in Deps(x, {"Exclusive"})} :
                             x \in Elements, t \in Trials}
            more == UpAfterUp({"Exclusive"}) \cup DownAfterDown({"Exclusive"}) \cup SerialEdges
<1>1. stage = "exclusive" /\ stage' \in {"refused", "lifeline"} /\ Analysed
  BY DEF apply_exclusive_serialisation, Pass
<1>2. plan \in Plans /\ Supported(plan) /\ Consists(depends_on, BuiltSteps, OwnEdges)
  BY <1>1 DEF Shape, Built, ToExpand, Levelled
<1>3. depends_on' = add_dependencies(depends_on, SerialEdges \cup both)
  BY DEF apply_exclusive_serialisation
<1>4. both = UpAfterUp({"Exclusive"}) \cup DownAfterDown({"Exclusive"})
  <2>. DEFINE Us(x, t) == {<<Activate(x, t), Activate(y, t)>> : y \in Deps(x, {"Exclusive"})}
              Ds(x, t) == {<<Deactivate(y, t), Deactivate(x, t)>> : y \in Deps(x, {"Exclusive"})}
  <2>1. both = UNION {Us(x, t) \cup Ds(x, t) : x \in Elements, t \in Trials}
    OBVIOUS
  <2>2. UpAfterUp({"Exclusive"}) = UNION {Us(x, t) : x \in Elements, t \in Trials}
    BY DEF UpAfterUp
  <2>3. DownAfterDown({"Exclusive"}) = UNION {Ds(x, t) : x \in Elements, t \in Trials}
    BY DEF DownAfterDown
  <2>. HIDE DEF Us, Ds, both
  <2>4. \A f : f \in both <=> \E x \in Elements, t \in Trials : f \in Us(x, t) \cup Ds(x, t)
    <3>. DEFINE Of(x, t) == Us(x, t) \cup Ds(x, t)
    <3>1. both = UNION {Of(x, t) : x \in Elements, t \in Trials}
      BY <2>1
    <3>. HIDE DEF Of
    <3>2. \A f : f \in both <=> \E x \in Elements, t \in Trials : f \in Of(x, t)
      BY <3>1
    <3>. QED  BY <3>2 DEF Of
  <2>5. \A f : f \in UpAfterUp({"Exclusive"}) <=> \E x \in Elements, t \in Trials : f \in Us(x, t)
    BY <2>2
  <2>6. \A f : f \in DownAfterDown({"Exclusive"}) <=> \E x \in Elements, t \in Trials : f \in Ds(x, t)
    BY <2>3
  <2>. QED  BY <2>4, <2>5, <2>6
<1>5. more \subseteq BuiltSteps \X AllSteps
  <2>1. {"Exclusive"} \in SUBSET Relationships
    BY DEF Relationships
  <2>2. more \subseteq PlainSteps \X AllSteps
    BY <1>2, <2>1, EdgesTyped
  <2>. HIDE DEF more
  <2>. QED  BY <2>2 DEF BuiltSteps
<1>6. Consists(depends_on', BuiltSteps, OwnEdges \cup more)
  <2>1. SerialEdges \cup both = more
    <3>. HIDE DEF both
    <3>. QED  BY <1>4
  <2>. HIDE DEF both
  <2>2. depends_on' = add_dependencies(depends_on, more)
    BY <1>3, <2>1
  <2>. HIDE DEF more
  <2>. QED  BY <1>2, <1>5, <2>2, AddedEdges
<1>7. OwnEdges \cup more = AskedEdges
  BY DEF AskedEdges
<1>. QED  BY <1>1, <1>6, <1>7, AskedStays DEF Built, Consists

------------------------------------------------------------------------------
(***************************************************************************)
(* Where lifelines lead.                                                   *)
(***************************************************************************)
Hops(h, e) == h = [n \in Nat |-> IF n = 0 THEN e ELSE LifelineTarget(h[n - 1])]

LEMMA NextOnLifeline ==
  ASSUME plan \in Plans, Supported(plan), NEW e \in Elements
  PROVE  LifelineTarget(e) \in Elements
<1>. DEFINE declared == plan.dependencies[e]
            S == {i \in DOMAIN declared : declared[i].relationship = "Lifeline"}
<1>. S = Lifelines(e)
  BY DEF Lifelines
<1>1. CASE S = {}
  BY <1>1 DEF LifelineTarget
<1>2. CASE S # {}
  <2>1. declared \in Seq([target : Nat, relationship : Relationships])
    BY PlanTyped
  <2>2. DOMAIN declared \subseteq Nat
    <3>. HIDE DEF declared
    <3>. QED  BY <2>1
  <2>3. S \in SUBSET Nat
    BY <2>2
  <2>4. Min(S) \in S
    <3>. HIDE DEF S
    <3>. QED  BY <1>2, <2>3, LeastOf
  <2>5. PICK i \in S : i = Min(S)
    BY <2>4
  <2>6. declared[i] \in ToSet(declared) /\ declared[i].relationship \in Relationships
    BY <2>5 DEF ToSet, Relationships
  <2>7. declared[i].target \in Targets(plan, e, Relationships)
    BY <2>6 DEF Targets
  <2>8. LifelineTarget(e) = declared[i].target
    BY <1>2, <2>5 DEF LifelineTarget
  <2>. QED  BY <2>7, <2>8 DEF Supported
<1>. QED  BY <1>1, <1>2

LEMMA HopsExist ==
  ASSUME plan \in Plans, Supported(plan), NEW e \in Elements
  PROVE  \E h : Hops(h, e)
<1>. DEFINE step == [x \in Elements |-> LifelineTarget(x)]
<1>1. step \in [Elements -> Elements]
  BY NextOnLifeline
<1>2. PICK g \in [Nat -> Elements] : Iterates(g, e, step)
  <2>. HIDE DEF step
  <2>. QED  BY <1>1, IterationExists
<1>3. ASSUME NEW k \in Nat, k # 0 PROVE step[g[k - 1]] = LifelineTarget(g[k - 1])
  <2>1. k - 1 \in Nat
    BY <1>3
  <2>2. g[k - 1] \in Elements
    BY <1>2, <2>1
  <2>. QED  BY <2>2
<1>4. g = [k \in Nat |-> IF k = 0 THEN e ELSE step[g[k - 1]]]
  BY <1>2 DEF Iterates
<1>. HIDE DEF step
<1>. QED  BY <1>3, <1>4 DEF Hops

(* What lifelines do not lead out of holds all hops. *)
LEMMA HopsStay ==
  ASSUME NEW h, NEW e, Hops(h, e), NEW Z, e \in Z, \A x \in Z : LifelineTarget(x) \in Z
  PROVE  \A n \in Nat : h[n] \in Z
<1>. DEFINE Bad == {n \in Nat : h[n] \notin Z}
<1>. SUFFICES ASSUME Bad # {} PROVE FALSE
  OBVIOUS
<1>. DEFINE m == Min(Bad)
<1>1. m \in Bad /\ \A l \in Bad : m <= l
  <2>1. Bad \in SUBSET Nat
    OBVIOUS
  <2>. HIDE DEF Bad
  <2>. QED  BY <2>1, LeastOf
<1>. HIDE DEF m
<1>2. h[0] = e /\ m \in Nat
  BY <1>1 DEF Hops
<1>3. m # 0
  BY <1>1, <1>2
<1>4. m - 1 \in Nat /\ ~(m <= m - 1)
  BY <1>2, <1>3
<1>5. h[m - 1] \in Z
  BY <1>1, <1>4
<1>6. h[m] = LifelineTarget(h[m - 1])
  BY <1>2, <1>3 DEF Hops
<1>. QED  BY <1>1, <1>5, <1>6

LEMMA RootIs ==
  ASSUME plan \in Plans, Supported(plan), NEW e \in Elements
  PROVE  /\ lifeline_root_of(e) \in Elements
         /\ lifeline_root_of(lifeline_root_of(e)) = lifeline_root_of(e)
<1>. DEFINE hop(x) == CHOOSE h : Hops(h, x)
            c == Cardinality(Elements)
            last(x) == hop(x)[c]
<1>1. \A x \in Elements : Hops(hop(x), x)
  BY HopsExist
<1>2. \A x : lifeline_root_of(x) = IF Lifelines(last(x)) = {} THEN last(x) ELSE x
  BY DEF lifeline_root_of, Hops
<1>3. c \in Nat
  BY ElementsAssumption, FS_CardinalityType
<1>. HIDE DEF hop, c
<1>4. last(e) \in Elements
  <2>1. \A n \in Nat : hop(e)[n] \in Elements
    BY <1>1, NextOnLifeline, HopsStay
  <2>. QED  BY <1>3, <2>1
<1>. DEFINE r == last(e)
<1>5. CASE Lifelines(r) = {}
  <2>. LifelineTarget(r) = r
    <3>. HIDE DEF r
    <3>. QED  BY <1>5 DEF LifelineTarget
  <2>1. \A n \in Nat : hop(r)[n] \in {r}
    <3>1. Hops(hop(r), r)
      BY <1>1, <1>4
    <3>. HIDE DEF r
    <3>. QED  BY <1>5, <3>1, HopsStay
  <2>2. last(r) = r
    BY <1>3, <2>1
  <2>3. lifeline_root_of(e) = r /\ lifeline_root_of(r) = r
    <3>. HIDE DEF last
    <3>. QED  BY <1>2, <1>5, <2>2
  <2>. QED  BY <1>4, <2>3
<1>6. CASE Lifelines(r) # {}
  <2>1. lifeline_root_of(e) = e
    BY <1>2, <1>6
  <2>. QED  BY <2>1
<1>. QED  BY <1>5, <1>6

------------------------------------------------------------------------------
(***************************************************************************)
(* The trials that an instance is there for.                               *)
(***************************************************************************)
Begins(e, t) == IF e \in NonTrialElements THEN GroupFirst(e, t) ELSE t
Ends(e, t)   == IF e \in NonTrialElements THEN GroupLast(e, t) ELSE t

FirstIn(t, s) == (t \div s) * s
LastIn(t, s)  == (t \div s) * s + s - 1

LEMMA GroupsEnd ==
  ASSUME NEW t \in Nat, NEW s \in Nat \ {0}
  PROVE  /\ FirstIn(t, s) \in Nat /\ LastIn(t, s) \in Nat
         /\ FirstIn(t, s) <= t /\ t <= LastIn(t, s)
         /\ FirstIn(FirstIn(t, s), s) = FirstIn(t, s)
         /\ FirstIn(LastIn(t, s), s) = FirstIn(t, s)
         /\ LastIn(LastIn(t, s), s) = LastIn(t, s)
         /\ \A m \in Nat : t < m * s => LastIn(t, s) < m * s
<1>. DEFINE q == t \div s
            r == t % s
            u == q * s
            w == u + (s - 1)
<1>1. q \in Nat /\ r \in 0..(s - 1) /\ t = u + r
  BY Divides
<1>. HIDE DEF q, r
<1>2. u \in Nat
  BY <1>1, ProductIn
<1>3. (u + 0) \div s = q /\ (u + (s - 1)) \div s = q
  BY <1>1, DividesOnly
<1>4. u + 0 = u
  BY <1>2
<1>5. FirstIn(t, s) = u /\ LastIn(t, s) = w
  <2>1. FirstIn(t, s) = q * s /\ LastIn(t, s) = q * s + s - 1
    BY DEF FirstIn, LastIn, q
  <2>2. u + s - 1 = w
    <3>. HIDE DEF u
    <3>. QED  BY <1>2
  <2>. QED  BY <2>1, <2>2
<1>6. FirstIn(u, s) = u /\ FirstIn(w, s) = u /\ LastIn(w, s) = w
  <2>1. u \div s = q /\ w \div s = q
    BY <1>3, <1>4
  <2>2. FirstIn(u, s) = q * s /\ FirstIn(w, s) = q * s /\ LastIn(w, s) = q * s + s - 1
    <3>. HIDE DEF u, w
    <3>. QED  BY <2>1 DEF FirstIn, LastIn
  <2>3. u + s - 1 = w
    <3>. HIDE DEF u
    <3>. QED  BY <1>2
  <2>. QED  BY <2>2, <2>3
<1>7. u <= t /\ t <= w /\ w \in Nat
  <2>. HIDE DEF u
  <2>. QED  BY <1>1, <1>2
<1>8. ASSUME NEW m \in Nat, t < m * s PROVE w < m * s
  <2>. DEFINE z == m * s
  <2>1. z \in Nat
    BY ProductIn
  <2>2. CASE m <= q
    <3>1. z <= u
      BY <1>1, <2>2, ProductsGrow
    <3>2. t < z
      BY <1>8
    <3>. HIDE DEF z, u
    <3>. QED  BY <1>2, <1>7, <2>1, <3>1, <3>2
  <2>3. CASE q + 1 <= m
    <3>1. (q + 1) * s <= z
      BY <1>1, <2>3, ProductsGrow
    <3>2. (q + 1) * s = u + 1 * s
      BY <1>1, SumsDistribute
    <3>3. 1 * s = s
      OBVIOUS
    <3>4. u + s <= z
      BY <3>1, <3>2, <3>3
    <3>5. w < z
      <4>. HIDE DEF z, u
      <4>. QED  BY <1>2, <2>1, <3>4
    <3>. QED  BY <3>5
  <2>. QED  BY <1>1, <2>2, <2>3
<1>. HIDE DEF u, w
<1>. QED  BY <1>2, <1>5, <1>6, <1>7, <1>8

(* A group of a larger size holds whole groups. *)
LEMMA GroupsWithin ==
  ASSUME NEW t \in Nat, NEW s \in Nat \ {0}, NEW m \in Nat \ {0}, NEW l, l = m * s
  PROVE  FirstIn(t, l) <= FirstIn(t, s) /\ LastIn(t, s) <= LastIn(t, l)
<1>. DEFINE a == t \div l
            b == a * m
            u == FirstIn(t, l)
<1>1. l \in Nat \ {0}
  BY Positive
<1>2. a \in Nat /\ t % l \in 0..(l - 1) /\ t = a * l + (t % l)
  BY <1>1, Divides
<1>3. u = a * l /\ LastIn(t, l) = a * l + l - 1
  BY DEF FirstIn, LastIn
<1>. HIDE DEF a
<1>4. b \in Nat /\ b * s = a * l
  BY <1>2, ProductIn, ProductsAssociate
<1>5. u \in Nat /\ u <= t /\ LastIn(t, l) \in Nat /\ FirstIn(t, s) \in Nat /\ LastIn(t, s) \in Nat
  BY <1>1, GroupsEnd
<1>6. (u \div s) * s = u
  <2>1. (b * s + 0) \div s = b
    <3>. HIDE DEF b
    <3>. QED  BY <1>4, DividesOnly
  <2>2. b * s = u
    BY <1>3, <1>4
  <2>3. u + 0 = u
    <3>. HIDE DEF u
    <3>. QED  BY <1>5
  <2>4. u \div s = b
    <3>. HIDE DEF u, b
    <3>. QED  BY <2>1, <2>2, <2>3
  <2>. HIDE DEF u, b
  <2>. QED  BY <2>2, <2>4
<1>7. u <= FirstIn(t, s)
  <2>. HIDE DEF u
  <2>. QED  BY <1>5, <1>6, GroupsBegin DEF FirstIn
<1>8. LastIn(t, s) <= LastIn(t, l)
  <2>. DEFINE z == (a + 1) * l
              y == a * l
              k == (a + 1) * m
  <2>1. z = y + 1 * l /\ 1 * l = l
    BY <1>1, <1>2, SumsDistribute
  <2>2. y \in Nat
    BY <1>1, <1>2, ProductIn
  <2>3. z = y + l /\ t = y + (t % l) /\ LastIn(t, l) = y + l - 1
    BY <1>2, <1>3, <2>1
  <2>4. k \in Nat /\ k * s = z
    BY <1>2, ProductIn, ProductsAssociate
  <2>. HIDE DEF y, z, k
  <2>5. t < z
    BY <1>1, <1>2, <2>2, <2>3
  <2>6. LastIn(t, s) < z
    <3>1. t < k * s
      BY <2>4, <2>5
    <3>2. LastIn(t, s) < k * s
      BY <2>4, <3>1, GroupsEnd
    <3>. QED  BY <2>4, <3>2
  <2>. QED  BY <1>1, <1>5, <2>2, <2>3, <2>6
<1>. QED  BY <1>7, <1>8

LEMMA GroupIs ==
  ASSUME plan \in Plans, Levelled, NEW e \in Elements, NEW s, s = group_size_at(plan.axes, level[e])
  PROVE  /\ s \in Nat \ {0}
         /\ \A u \in Trials : /\ GroupFirst(e, u) = FirstIn(u, s) /\ FirstIn(u, s) \in Trials
                              /\ GroupLast(e, u) = LastIn(u, s) /\ LastIn(u, s) \in Trials
         /\ level[e] = 0 => s = trial_count(plan.axes)
<1>1. PICK P : /\ IsStrides(P, plan.axes) /\ trial_count(plan.axes) = P[0]
               /\ \A i \in 1..Len(plan.axes) : strides(plan.axes)[i] = P[i]
               /\ level \in [Elements -> 0..Len(plan.axes)] /\ Len(plan.axes) \in Nat
               /\ P[level[e]] \in Nat \ {0}
               /\ \A u : GroupFirst(e, u) = (u \div P[level[e]]) * P[level[e]]
  BY GroupsAre
<1>. DEFINE n == P[0]
<1>2. plan.axes \in Axes /\ n \in Nat \ {0} /\ Trials = 0..(n - 1)
  BY <1>1, PlanTyped
<1>3. P[level[e]] = s
  BY <1>1, <1>2, GroupsSized
<1>4. PICK m \in Nat \ {0} : n = m * s
  <2>1. PICK l \in 0..Len(plan.axes) : l = level[e]
    BY <1>1
  <2>2. 0 \in 0..Len(plan.axes) /\ 0 <= l
    BY <1>1
  <2>3. Multiple(P[0], P[l])
    BY <1>1, <1>2, <2>2, StridesNest
  <2>. QED  BY <1>3, <2>1, <2>3 DEF Multiple
<1>5. s \in Nat \ {0} /\ \A u : GroupFirst(e, u) = FirstIn(u, s)
  BY <1>1, <1>3 DEF FirstIn
<1>6. Max(Trials) = n - 1
  <2>. HIDE DEF n
  <2>1. 0 \in Int /\ n - 1 \in Int /\ 0 <= n - 1
    BY <1>2
  <2>2. Max(0..(n - 1)) = n - 1
    BY <2>1, GreatestOfFirst
  <2>. QED  BY <1>2, <2>2
<1>10. level[e] = 0 => s = trial_count(plan.axes)
  BY <1>1, <1>3
<1>. HIDE DEF n
<1>7. ASSUME NEW u \in Trials
      PROVE  GroupLast(e, u) = LastIn(u, s) /\ LastIn(u, s) \in Trials /\ FirstIn(u, s) \in Trials
  <2>1. u \in Nat /\ u < n
    BY <1>2
  <2>2. LastIn(u, s) < n /\ LastIn(u, s) \in Nat
    BY <1>4, <1>5, <2>1, GroupsEnd
  <2>. DEFINE a == LastIn(u, s)
              b == n - 1
              k == Min({a, b})
  <2>3. a \in Nat /\ b \in Nat /\ a <= b
    <3>. HIDE DEF a
    <3>1. a \in Nat /\ a < n
      BY <2>2 DEF a
    <3>. QED  BY <1>2, <3>1
  <2>4. k = a
    <3>. DEFINE Both == {a, b}
    <3>1. Both \in SUBSET Nat /\ Both # {}
      BY <2>3
    <3>2. Min(Both) \in Both /\ \A y \in Both : Min(Both) <= y
      <4>. HIDE DEF Both
      <4>. QED  BY <3>1, LeastOf
    <3>. HIDE DEF a, b
    <3>3. k \in {a, b} /\ k <= a /\ k <= b
      BY <3>2
    <3>. HIDE DEF k
    <3>. QED  BY <2>3, <3>3
  <2>5. GroupLast(e, u) = k
    <3>1. GroupFirst(e, u) + s - 1 = a
      BY <1>5 DEF FirstIn, LastIn
    <3>. HIDE DEF a
    <3>. QED  BY <1>6, <3>1 DEF GroupLast
  <2>6. /\ FirstIn(u, s) \in Nat /\ FirstIn(u, s) <= u /\ u <= LastIn(u, s)
    BY <1>5, <2>1, GroupsEnd
  <2>7. FirstIn(u, s) \in Trials
    <3>. DEFINE v == FirstIn(u, s)
    <3>1. v \in Nat /\ v <= u
      BY <2>6
    <3>. HIDE DEF v
    <3>2. v \in Trials
      BY <1>2, <2>1, <3>1
    <3>. QED  BY <3>2 DEF v
  <2>. QED  BY <1>2, <2>1, <2>2, <2>4, <2>5, <2>7
<1>. QED  BY <1>5, <1>7, <1>10

LEMMA GroupBounds ==
  ASSUME plan \in Plans, Levelled, NEW e \in Elements, NEW t \in Trials
  PROVE  /\ Begins(e, t) \in Trials /\ Ends(e, t) \in Trials
         /\ Begins(e, t) <= t /\ t <= Ends(e, t)
         /\ Begins(e, Begins(e, t)) = Begins(e, t) /\ Begins(e, Ends(e, t)) = Begins(e, t)
         /\ Ends(e, Ends(e, t)) = Ends(e, t)
         /\ ~Lasting(e) => Begins(e, t) = t /\ Ends(e, t) = t
         /\ e \in NonTrialElements /\ level[e] = 0 => Begins(e, t) = 0
<1>. DEFINE s == group_size_at(plan.axes, level[e])
            n == trial_count(plan.axes)
<1>2. n \in Nat \ {0} /\ Trials = 0..(n - 1) /\ t \in Nat /\ t < n
  BY PlanTyped
<1>5. s \in Nat \ {0} /\ (level[e] = 0 => s = n)
  BY GroupIs
<1>7. \A u \in Trials : /\ GroupFirst(e, u) = FirstIn(u, s) /\ FirstIn(u, s) \in Trials
                        /\ GroupLast(e, u) = LastIn(u, s) /\ LastIn(u, s) \in Trials
  BY GroupIs
<1>3. ~Lasting(e) /\ e \in NonTrialElements => s = 1
  <2>1. ~Lasting(e) /\ e \in NonTrialElements => ~(s > 1)
    BY DEF Lasting
  <2>. HIDE DEF s
  <2>. QED  BY <1>5, <2>1
<1>. HIDE DEF s, n
<1>8. CASE e \in NonTrialElements
  <2>1. Begins(e, t) = FirstIn(t, s) /\ Ends(e, t) = LastIn(t, s)
    BY <1>7, <1>8 DEF Begins, Ends
  <2>3. /\ FirstIn(FirstIn(t, s), s) = FirstIn(t, s) /\ FirstIn(LastIn(t, s), s) = FirstIn(t, s)
        /\ LastIn(LastIn(t, s), s) = LastIn(t, s)
    BY <1>2, <1>5, GroupsEnd
  <2>7. FirstIn(t, s) <= t /\ t <= LastIn(t, s)
    BY <1>2, <1>5, GroupsEnd
  <2>4. Begins(e, FirstIn(t, s)) = FirstIn(t, s) /\ Begins(e, LastIn(t, s)) = FirstIn(t, s)
        /\ Ends(e, LastIn(t, s)) = LastIn(t, s)
    BY <1>7, <1>8, <2>3 DEF Begins, Ends
  <2>5. ASSUME ~Lasting(e) PROVE FirstIn(t, s) = t /\ LastIn(t, s) = t
    <3>1. s = 1
      BY <1>3, <1>8, <2>5
    <3>2. t \div 1 = t /\ t * 1 = t
      BY <1>2
    <3>. QED  BY <1>2, <3>1, <3>2 DEF FirstIn, LastIn
  <2>6. ASSUME level[e] = 0 PROVE FirstIn(t, s) = 0
    <3>1. s = n
      BY <1>5, <2>6
    <3>2. t \div n = 0
      <4>. DEFINE z == 0 * n
      <4>1. z = 0 /\ t \in 0..(n - 1)
        BY <1>2
      <4>2. (0 * n + t) \div n = 0
        BY <1>2, <4>1, DividesOnly
      <4>. QED  BY <1>2, <4>1, <4>2
    <3>. QED  BY <1>2, <3>1, <3>2 DEF FirstIn
  <2>. QED  BY <1>7, <2>1, <2>4, <2>5, <2>6, <2>7
<1>9. CASE e \notin NonTrialElements
  BY <1>2, <1>9 DEF Begins, Ends
<1>. QED  BY <1>8, <1>9

(* What covers another begins no later and ends no earlier. *)
LEMMA CoversBoth ==
  ASSUME plan \in Plans, Levelled, NEW x \in Elements, NEW y \in Elements, Covers(y, x), NEW t \in Trials
  PROVE  Begins(y, t) <= Begins(x, t) /\ Ends(x, t) <= Ends(y, t)
<1>1. CASE ~Lasting(x)
  <2>1. Begins(x, t) = t /\ Ends(x, t) = t
    BY <1>1, GroupBounds
  <2>2. Begins(y, t) <= t /\ t <= Ends(y, t)
    BY GroupBounds
  <2>. QED  BY <2>1, <2>2
<1>2. CASE Lasting(x)
  <2>1. x \in NonTrialElements /\ y \in NonTrialElements /\ level[y] <= level[x]
    BY <1>2 DEF Covers, Lasting
  <2>2. PICK P : /\ IsStrides(P, plan.axes) /\ trial_count(plan.axes) = P[0]
                 /\ \A i \in 1..Len(plan.axes) : strides(plan.axes)[i] = P[i]
                 /\ level \in [Elements -> 0..Len(plan.axes)] /\ Len(plan.axes) \in Nat
                 /\ \A e \in Elements : /\ P[level[e]] \in Nat \ {0}
                                        /\ \A u : GroupFirst(e, u) = (u \div P[level[e]]) * P[level[e]]
    BY GroupsAre
  <2>3. plan.axes \in Axes /\ t \in Nat
    BY PlanTyped
  <2>. DEFINE s == P[level[x]]
              l == P[level[y]]
  <2>4. s \in Nat \ {0} /\ l \in Nat \ {0}
    BY <2>2
  <2>5. PICK m \in Nat \ {0} : l = m * s
    <3>1. PICK j \in 0..Len(plan.axes), k \in 0..Len(plan.axes) : j = level[y] /\ k = level[x]
      BY <2>2
    <3>2. Multiple(P[j], P[k])
      BY <2>1, <2>2, <2>3, <3>1, StridesNest
    <3>. QED  BY <3>1, <3>2 DEF Multiple
  <2>7. s = group_size_at(plan.axes, level[x]) /\ l = group_size_at(plan.axes, level[y])
    BY <2>2, <2>3, GroupsSized
  <2>6. /\ GroupFirst(x, t) = FirstIn(t, s) /\ GroupLast(x, t) = LastIn(t, s)
        /\ GroupFirst(y, t) = FirstIn(t, l) /\ GroupLast(y, t) = LastIn(t, l)
    <3>. HIDE DEF s, l
    <3>. QED  BY <2>7, GroupIs
  <2>. HIDE DEF s, l
  <2>8. FirstIn(t, l) <= FirstIn(t, s) /\ LastIn(t, s) <= LastIn(t, l)
    BY <2>3, <2>4, <2>5, GroupsWithin
  <2>. QED  BY <2>1, <2>6, <2>8 DEF Begins, Ends
<1>. QED  BY <1>1, <1>2

------------------------------------------------------------------------------
(***************************************************************************)
(* What comes before what within one trial.                                *)
(***************************************************************************)
UpPhase(e)   == <<"up", e>>
DownPhase(e) == <<"down", e>>
BeginPhase   == <<"begin", 0>>
EndPhase     == <<"end", 0>>

Phases == ({"up", "down"} \X Elements) \cup {BeginPhase, EndPhase}

Earlier(p) == Upstream(OneTrial)[p]

LEMMA TrialElementsAre ==
  ASSUME Levelled
  PROVE  trial_elements \subseteq Elements
BY DEF Levelled, identify_trial_elements

LEMMA PhasesAre ==
  /\ \A e \in Elements : UpPhase(e) \in Phases /\ DownPhase(e) \in Phases
  /\ BeginPhase \in Phases /\ EndPhase \in Phases
  /\ IsFiniteSet(Phases)
<1>1. IsFiniteSet({"up", "down"})
  <2>1. {"up", "down"} = {"up"} \cup {"down"} /\ IsFiniteSet({"up"})
    BY FS_Singleton
  <2>. QED  BY <2>1, FS_AddElement
<1>. DEFINE S == {"up", "down"} \X Elements
<1>2. IsFiniteSet(S)
  BY <1>1, ElementsAssumption, FS_Product
<1>3. IsFiniteSet((S \cup {BeginPhase}) \cup {EndPhase})
  <2>. HIDE DEF S
  <2>. QED  BY <1>2, FS_AddElement
<1>4. (S \cup {BeginPhase}) \cup {EndPhase} = Phases
  BY DEF Phases
<1>. QED  BY <1>3, <1>4 DEF Phases, UpPhase, DownPhase

(* What OneTrial asks for directly is asked for. *)
LEMMA TrialAsks ==
  ASSUME plan \in Plans, Levelled
  PROVE  /\ DOMAIN OneTrial = Phases
         /\ \A x \in Elements : \A y \in Deps(x, {"Shared", "Exclusive", "Lifeline"}) :
              UpPhase(y) \in OneTrial[UpPhase(x)]
         /\ \A x \in Elements : \A y \in Deps(x, {"Shared", "Exclusive"}) \ OnLifeline :
              y \in Elements => DownPhase(lifeline_root_of(x)) \in OneTrial[DownPhase(y)]
         /\ \A x \in Elements : \A y \in Deps(x, {"Linear"}) :
              level[x] = level[y] => DownPhase(lifeline_root_of(y)) \in OneTrial[UpPhase(x)]
         /\ \A x \in Elements \ OnLifeline : UpPhase(x) \in OneTrial[DownPhase(x)]
         /\ \A x \in NonTrialElements : UpPhase(x) \in OneTrial[BeginPhase]
         /\ \A x \in trial_elements : BeginPhase \in OneTrial[UpPhase(x)]
         /\ \A x \in trial_elements \ OnLifeline : DownPhase(x) \in OneTrial[EndPhase]
         /\ \A x \in NonTrialElements \ OnLifeline : EndPhase \in OneTrial[DownPhase(x)]
<1>. DEFINE down(e) == DownPhase(lifeline_root_of(e))
            own     == Elements \ OnLifeline
            ups(x)   == {<<UpPhase(x), UpPhase(y)>> : y \in Deps(x, {"Shared", "Exclusive", "Lifeline"})}
            downs(x) == {<<down(y), down(x)>> : y \in Deps(x, {"Shared", "Exclusive"}) \ OnLifeline}
            after(x) == {<<UpPhase(x), down(y)>> : y \in {y \in Deps(x, {"Linear"}) : level[x] = level[y]}}
            asked(x) == ups(x) \cup downs(x) \cup after(x)
            others == {<<down(x), UpPhase(x)>> : x \in own}
                      \cup {<<BeginPhase, UpPhase(x)>> : x \in NonTrialElements}
                      \cup {<<UpPhase(x), BeginPhase>> : x \in trial_elements}
                      \cup {<<EndPhase, down(x)>> : x \in own \cap trial_elements}
                      \cup {<<down(x), EndPhase>> : x \in own \cap NonTrialElements}
            edges == others \cup UNION {asked(x) : x \in Elements}
            none == [p \in Phases |-> {}]
<1>1. OneTrial = add_dependencies(none, edges)
  BY DEF OneTrial, UpPhase, DownPhase, BeginPhase, EndPhase, Phases
<1>2. ASSUME NEW s \in Phases, NEW d, <<s, d>> \in edges PROVE d \in OneTrial[s]
  <2>. HIDE DEF edges
  <2>1. <<s, d>>[1] = s /\ <<s, d>>[2] = d
    OBVIOUS
  <2>2. d \in {e[2] : e \in {e \in edges : e[1] = s}}
    BY <1>2, <2>1
  <2>3. s \in DOMAIN none
    OBVIOUS
  <2>. HIDE DEF none
  <2>. QED  BY <1>1, <2>2, <2>3 DEF add_dependencies
<1>3. DOMAIN OneTrial = Phases
  BY <1>1 DEF add_dependencies
<1>4. \A x \in own : lifeline_root_of(x) = x
  BY DEF OnLifeline
<1>5. trial_elements \subseteq Elements /\ NonTrialElements \subseteq Elements
  BY TrialElementsAre DEF NonTrialElements
<1>6. \A x \in Elements : \A f \in asked(x) : f \in edges
  <2>. HIDE DEF asked, others
  <2>. QED  OBVIOUS
<1>7. \A f \in others : f \in edges
  <2>. HIDE DEF asked, others
  <2>. QED  OBVIOUS
<1>. HIDE DEF edges, none
<1>8. ASSUME NEW x \in Elements, NEW y \in Deps(x, {"Shared", "Exclusive", "Lifeline"})
      PROVE  UpPhase(y) \in OneTrial[UpPhase(x)]
  <2>1. <<UpPhase(x), UpPhase(y)>> \in asked(x)
    OBVIOUS
  <2>. HIDE DEF asked
  <2>. QED  BY <1>2, <1>6, <2>1, PhasesAre
<1>9. ASSUME NEW x \in Elements, NEW y \in Deps(x, {"Shared", "Exclusive"}) \ OnLifeline, y \in Elements
      PROVE  down(x) \in OneTrial[DownPhase(y)]
  <2>1. <<down(y), down(x)>> \in asked(x) /\ down(y) = DownPhase(y)
    BY <1>4, <1>9
  <2>. HIDE DEF asked, down
  <2>. QED  BY <1>2, <1>6, <1>9, <2>1, PhasesAre
<1>10. ASSUME NEW x \in Elements, NEW y \in Deps(x, {"Linear"}), level[x] = level[y]
       PROVE  down(y) \in OneTrial[UpPhase(x)]
  <2>1. <<UpPhase(x), down(y)>> \in asked(x)
    BY <1>10
  <2>. HIDE DEF asked, down
  <2>. QED  BY <1>2, <1>6, <2>1, PhasesAre
<1>11. ASSUME NEW x \in own PROVE UpPhase(x) \in OneTrial[DownPhase(x)]
  <2>1. <<DownPhase(x), UpPhase(x)>> \in others
    BY <1>4
  <2>. HIDE DEF others
  <2>. QED  BY <1>2, <1>7, <2>1, PhasesAre
<1>12. ASSUME NEW x \in NonTrialElements PROVE UpPhase(x) \in OneTrial[BeginPhase]
  <2>1. <<BeginPhase, UpPhase(x)>> \in others
    OBVIOUS
  <2>. HIDE DEF others
  <2>. QED  BY <1>2, <1>7, <2>1, PhasesAre
<1>13. ASSUME NEW x \in trial_elements PROVE BeginPhase \in OneTrial[UpPhase(x)]
  <2>1. <<UpPhase(x), BeginPhase>> \in others
    OBVIOUS
  <2>. HIDE DEF others
  <2>. QED  BY <1>2, <1>5, <1>7, <2>1, PhasesAre
<1>14. ASSUME NEW x \in trial_elements \ OnLifeline PROVE DownPhase(x) \in OneTrial[EndPhase]
  <2>1. <<EndPhase, DownPhase(x)>> \in others
    BY <1>4, <1>5
  <2>. HIDE DEF others
  <2>. QED  BY <1>2, <1>7, <2>1, PhasesAre
<1>15. ASSUME NEW x \in NonTrialElements \ OnLifeline PROVE EndPhase \in OneTrial[DownPhase(x)]
  <2>1. <<DownPhase(x), EndPhase>> \in others
    BY <1>4, <1>5
  <2>. HIDE DEF others
  <2>. QED  BY <1>2, <1>5, <1>7, <2>1, PhasesAre
<1>. HIDE DEF asked, others
<1>. QED  BY <1>3, <1>8, <1>9, <1>10, <1>11, <1>12, <1>13, <1>14, <1>15

(* Earlier is a strict order when nothing turns in circles. *)
LEMMA EarlierIsOrder ==
  ASSUME plan \in Plans, Levelled, Circleless(OneTrial)
  PROVE  /\ \A p \in Phases : OneTrial[p] \subseteq Earlier(p) /\ p \notin Earlier(p)
         /\ \A p \in Phases, q \in Phases : q \in Earlier(p) => Earlier(q) \subseteq Earlier(p)
<1>1. DOMAIN OneTrial = Phases /\ IsFiniteSet(Phases)
  BY TrialAsks, PhasesAre
<1>2. ClosedFor(Upstream(OneTrial), OneTrial)
  BY <1>1, UpstreamIsClosure
<1>. QED  BY <1>1, <1>2 DEF ClosedFor, Earlier, Circleless

------------------------------------------------------------------------------
(***************************************************************************)
(* An order of all steps: dedicated instances come first and go last; of   *)
(* the rest, with trials one after the other, those of an earlier trial    *)
(* come first, and then what comes earlier in every trial.                 *)
(***************************************************************************)
Serial == \E x \in Elements : Deps(x, {"Exclusive"}) # {}

RealSteps == {s \in AllSteps : s.kind \in {"activate", "deactivate", "ready"} => s.element \in Elements}

Layer(s) ==
  IF s.owner # 0
  THEN IF s.kind = "deactivate" THEN 4 ELSE IF s.kind = "ready" THEN 2 ELSE 1
  ELSE IF s.kind = "start" THEN 0 ELSE IF s.kind = "end" THEN 5 ELSE 3

Phase(s) ==
  IF s.kind \in {"activate", "ready"} THEN UpPhase(s.element)
  ELSE IF s.kind = "deactivate" THEN DownPhase(s.element)
  ELSE IF s.kind = "trial_start" THEN BeginPhase ELSE EndPhase

Turn(s) == IF Serial THEN s.trial ELSE 0

(* s is later than d. *)
Later3(s, d) ==
  \/ Turn(d) < Turn(s)
  \/ /\ Turn(d) = Turn(s)
     /\ \/ Phase(d) \in Earlier(Phase(s))
        \/ Phase(d) = Phase(s) /\ d.kind # "ready" /\ s.kind = "ready"

Follows(s, d) ==
  \/ Layer(d) < Layer(s)
  \/ Layer(d) = 3 /\ Layer(s) = 3 /\ Later3(s, d)

LEMMA FollowsIsOrder ==
  ASSUME plan \in Plans, Levelled, Circleless(OneTrial)
  PROVE  /\ \A s \in RealSteps : ~Follows(s, s)
         /\ \A s, k, d \in RealSteps : Follows(s, k) /\ Follows(k, d) => Follows(s, d)
<1>1. \A s \in RealSteps : Layer(s) \in Nat /\ Turn(s) \in Nat
  BY PlanTyped DEF Layer, Turn, RealSteps, AllSteps
<1>2. \A s \in RealSteps : Phase(s) \in Phases
  BY PhasesAre DEF Phase, RealSteps
<1>3. \A s \in RealSteps : ~Later3(s, s)
  BY <1>1, <1>2, EarlierIsOrder DEF Later3
<1>4. ASSUME NEW s \in RealSteps, NEW k \in RealSteps, NEW d \in RealSteps, Later3(s, k), Later3(k, d)
      PROVE  Later3(s, d)
  <2>. DEFINE same(a, b) == \/ Phase(b) \in Earlier(Phase(a))
                            \/ Phase(b) = Phase(a) /\ b.kind # "ready" /\ a.kind = "ready"
  <2>1. same(s, k) /\ same(k, d) => same(s, d)
    BY <1>2, EarlierIsOrder
  <2>2. \A a, b : Later3(a, b) <=> Turn(b) < Turn(a) \/ (Turn(b) = Turn(a) /\ same(a, b))
    BY DEF Later3
  <2>. HIDE DEF same
  <2>. QED  BY <1>1, <1>4, <2>1, <2>2
<1>5. \A s \in RealSteps : ~Follows(s, s)
  BY <1>1, <1>3 DEF Follows
<1>6. ASSUME NEW s \in RealSteps, NEW k \in RealSteps, NEW d \in RealSteps, Follows(s, k), Follows(k, d)
      PROVE  Follows(s, d)
  <2>1. Layer(s) \in Nat /\ Layer(k) \in Nat /\ Layer(d) \in Nat
    BY <1>1
  <2>. QED  BY <1>4, <1>6, <2>1 DEF Follows
<1>. QED  BY <1>5, <1>6

(* A graph whose steps only wait for what they follow has no circles. *)
LEMMA FollowingIsCircleless ==
  ASSUME plan \in Plans, Levelled, Circleless(OneTrial),
         NEW g, DOMAIN g \subseteq RealSteps,
         \A s \in DOMAIN g : \A d \in g[s] : d \in RealSteps /\ Follows(s, d)
  PROVE  Circleless(g)
<1>. DEFINE f == [s \in DOMAIN g |-> {d \in RealSteps : Follows(s, d)}]
<1>1. IsFiniteSet(DOMAIN g)
  <2>1. IsFiniteSet(AllSteps) /\ DOMAIN g \subseteq AllSteps
    BY StepsAreFinite DEF RealSteps
  <2>. QED  BY <2>1, FS_Subset
<1>2. ClosedFor(f, g)
  <2>1. \A s \in DOMAIN g : g[s] \subseteq f[s]
    OBVIOUS
  <2>2. ASSUME NEW s \in DOMAIN g, NEW k \in f[s] \cap DOMAIN g, NEW d \in f[k] PROVE d \in f[s]
    <3>1. s \in RealSteps /\ k \in RealSteps /\ d \in RealSteps /\ Follows(s, k) /\ Follows(k, d)
      OBVIOUS
    <3>2. Follows(s, d)
      BY <3>1, FollowsIsOrder
    <3>. QED  BY <3>1, <3>2
  <2>3. DOMAIN f = DOMAIN g
    OBVIOUS
  <2>. HIDE DEF f
  <2>. QED  BY <2>1, <2>2, <2>3 DEF ClosedFor
<1>3. \A s \in DOMAIN g : s \notin f[s]
  BY FollowsIsOrder
<1>. HIDE DEF f
<1>. QED  BY <1>1, <1>2, <1>3, UpstreamIsClosure DEF Circleless

------------------------------------------------------------------------------
(***************************************************************************)
(* The graph before and after collapse and coalescing.                     *)
(***************************************************************************)
Asked(f, x, t) ==
  \/ f = <<Activate(x, t), Start>>
  \/ f = <<Deactivate(x, t), Activate(x, t)>>
  \/ \E y \in Deps(x, {"Shared", "Exclusive", "Lifeline"}) : f = <<Activate(x, t), Activate(y, t)>>
  \/ \E y \in Deps(x, {"Shared", "Exclusive"}) : f = <<Deactivate(y, t), Deactivate(x, t)>>
  \/ \E y \in Deps(x, {"Linear"}) : level[x] = level[y] /\ f = <<Activate(x, t), Deactivate(y, t)>>
  \/ \E y \in Deps(x, {"Dedicated"}) :
       \/ f = <<Activate(x, t), Dedicated(Activate(y, t), x)>>
       \/ f = <<Dedicated(Activate(y, t), x), Start>>
       \/ f = <<Dedicated(Deactivate(y, t), x), Deactivate(x, t)>>
  \/ t \in Later /\ Deps(x, {"Exclusive"}) # {} /\ f = <<Activate(x, t), Deactivate(x, t - 1)>>

LEMMA DepsOfBoth ==
  ASSUME NEW x, NEW some, NEW others
  PROVE  Deps(x, some \cup others) = Deps(x, some) \cup Deps(x, others)
BY DEF Deps, Targets

LEMMA PairsOf ==
  ASSUME NEW kinds, NEW f
  PROVE  /\ f \in UpAfterUp(kinds) <=>
              \E x \in Elements, t \in Trials : \E y \in Deps(x, kinds) : f = <<Activate(x, t), Activate(y, t)>>
         /\ f \in DownAfterDown(kinds) <=>
              \E x \in Elements, t \in Trials : \E y \in Deps(x, kinds) : f = <<Deactivate(y, t), Deactivate(x, t)>>
         /\ f \in LinearEdges <=>
              \E x \in Elements, t \in Trials : \E y \in Deps(x, {"Linear"}) :
                level[x] = level[y] /\ f = <<Activate(x, t), Deactivate(y, t)>>
<1>. DEFINE Us(x, t) == {<<Activate(x, t), Activate(y, t)>> : y \in Deps(x, kinds)}
            Ds(x, t) == {<<Deactivate(y, t), Deactivate(x, t)>> : y \in Deps(x, kinds)}
            Ls(x, t) == {<<Activate(x, t), Deactivate(y, t)>> : y \in {y \in Deps(x, {"Linear"}) : level[x] = level[y]}}
<1>1. UpAfterUp(kinds) = UNION {Us(x, t) : x \in Elements, t \in Trials}
  BY DEF UpAfterUp
<1>2. DownAfterDown(kinds) = UNION {Ds(x, t) : x \in Elements, t \in Trials}
  BY DEF DownAfterDown
<1>3. LinearEdges = UNION {Ls(x, t) : x \in Elements, t \in Trials}
  BY DEF LinearEdges
<1>4. \A x, t : /\ f \in Us(x, t) <=> \E y \in Deps(x, kinds) : f = <<Activate(x, t), Activate(y, t)>>
                /\ f \in Ds(x, t) <=> \E y \in Deps(x, kinds) : f = <<Deactivate(y, t), Deactivate(x, t)>>
                /\ f \in Ls(x, t) <=> \E y \in Deps(x, {"Linear"}) :
                                        level[x] = level[y] /\ f = <<Activate(x, t), Deactivate(y, t)>>
  OBVIOUS
<1>. HIDE DEF Us, Ds, Ls
<1>5. f \in UpAfterUp(kinds) <=> \E x \in Elements, t \in Trials : f \in Us(x, t)
  BY <1>1
<1>6. f \in DownAfterDown(kinds) <=> \E x \in Elements, t \in Trials : f \in Ds(x, t)
  BY <1>2
<1>7. f \in LinearEdges <=> \E x \in Elements, t \in Trials : f \in Ls(x, t)
  BY <1>3
<1>8. f \in UpAfterUp(kinds) <=>
        \E x \in Elements, t \in Trials : \E y \in Deps(x, kinds) : f = <<Activate(x, t), Activate(y, t)>>
  BY <1>4, <1>5
<1>9. f \in DownAfterDown(kinds) <=>
        \E x \in Elements, t \in Trials : \E y \in Deps(x, kinds) : f = <<Deactivate(y, t), Deactivate(x, t)>>
  BY <1>4, <1>6
<1>10. f \in LinearEdges <=>
        \E x \in Elements, t \in Trials : \E y \in Deps(x, {"Linear"}) :
          level[x] = level[y] /\ f = <<Activate(x, t), Deactivate(y, t)>>
  BY <1>4, <1>7
<1>. QED  BY <1>8, <1>9, <1>10

LEMMA OwnedAre ==
  /\ \A s : s \in OwnedUps <=> \E x \in Elements, t \in Trials, y \in Elements :
                y \in Deps(x, {"Dedicated"}) /\ s = Dedicated(Activate(y, t), x)
  /\ \A s : s \in OwnedDowns <=> \E x \in Elements, t \in Trials, y \in Elements :
                y \in Deps(x, {"Dedicated"}) /\ s = Dedicated(Deactivate(y, t), x)
  /\ \A o \in Owners : o[1] \in Elements /\ o[2] \in Elements /\ o[3] \in Trials /\ o[2] \in Deps(o[1], {"Dedicated"})
  /\ \A x \in Elements, y \in Elements, t \in Trials : y \in Deps(x, {"Dedicated"}) =>
       \E o \in Owners : o[1] = x /\ o[2] = y /\ o[3] = t
<1>1. \A o \in Owners : o[1] \in Elements /\ o[2] \in Elements /\ o[3] \in Trials /\ o[2] \in Deps(o[1], {"Dedicated"})
  BY DEF Owners
<1>2. ASSUME NEW x \in Elements, NEW y \in Elements, NEW t \in Trials, y \in Deps(x, {"Dedicated"})
      PROVE  \E o \in Owners : o[1] = x /\ o[2] = y /\ o[3] = t
  <2>. DEFINE o == <<x, y, t>>
  <2>1. o \in Owners /\ o[1] = x /\ o[2] = y /\ o[3] = t
    BY <1>2 DEF Owners
  <2>. HIDE DEF o
  <2>. QED  BY <2>1
<1>4. \A s : s \in OwnedUps <=> \E x \in Elements, t \in Trials, y \in Elements :
                y \in Deps(x, {"Dedicated"}) /\ s = Dedicated(Activate(y, t), x)
  <2>1. ASSUME NEW x \in Elements, NEW t \in Trials, NEW y \in Elements, y \in Deps(x, {"Dedicated"})
        PROVE  Dedicated(Activate(y, t), x) \in OwnedUps
    <3>1. PICK o \in Owners : o[1] = x /\ o[2] = y /\ o[3] = t
      BY <1>2, <2>1
    <3>. QED  BY <3>1 DEF OwnedUps
  <2>2. ASSUME NEW s \in OwnedUps
        PROVE  \E x \in Elements, t \in Trials, y \in Elements :
                 y \in Deps(x, {"Dedicated"}) /\ s = Dedicated(Activate(y, t), x)
    <3>1. PICK o \in Owners : s = Dedicated(Activate(o[2], o[3]), o[1])
      BY DEF OwnedUps
    <3>. QED  BY <1>1, <3>1
  <2>. QED  BY <2>1, <2>2
<1>5. \A s : s \in OwnedDowns <=> \E x \in Elements, t \in Trials, y \in Elements :
                y \in Deps(x, {"Dedicated"}) /\ s = Dedicated(Deactivate(y, t), x)
  <2>1. ASSUME NEW x \in Elements, NEW t \in Trials, NEW y \in Elements, y \in Deps(x, {"Dedicated"})
        PROVE  Dedicated(Deactivate(y, t), x) \in OwnedDowns
    <3>1. PICK o \in Owners : o[1] = x /\ o[2] = y /\ o[3] = t
      BY <1>2, <2>1
    <3>. QED  BY <3>1 DEF OwnedDowns
  <2>2. ASSUME NEW s \in OwnedDowns
        PROVE  \E x \in Elements, t \in Trials, y \in Elements :
                 y \in Deps(x, {"Dedicated"}) /\ s = Dedicated(Deactivate(y, t), x)
    <3>1. PICK o \in Owners : s = Dedicated(Deactivate(o[2], o[3]), o[1])
      BY DEF OwnedDowns
    <3>. QED  BY <1>1, <3>1
  <2>. QED  BY <2>1, <2>2
<1>. QED  BY <1>1, <1>2, <1>4, <1>5

LEMMA OwnedPairs ==
  ASSUME NEW f
  PROVE  /\ f \in {<<Activate(o[1], o[3]), Dedicated(Activate(o[2], o[3]), o[1])>> : o \in Owners} <=>
              \E x \in Elements, t \in Trials, y \in Elements :
                y \in Deps(x, {"Dedicated"}) /\ f = <<Activate(x, t), Dedicated(Activate(y, t), x)>>
         /\ f \in {<<s, Start>> : s \in OwnedUps} <=>
              \E x \in Elements, t \in Trials, y \in Elements :
                y \in Deps(x, {"Dedicated"}) /\ f = <<Dedicated(Activate(y, t), x), Start>>
         /\ f \in {<<s, Deactivate(s.owner, s.trial)>> : s \in OwnedDowns} <=>
              \E x \in Elements, t \in Trials, y \in Elements :
                y \in Deps(x, {"Dedicated"}) /\ f = <<Dedicated(Deactivate(y, t), x), Deactivate(x, t)>>
<1>8. \A x, y, t : Dedicated(Deactivate(y, t), x).owner = x /\ Dedicated(Deactivate(y, t), x).trial = t
  BY DEF Dedicated, Deactivate, Step
<1>3. f \in {<<Activate(o[1], o[3]), Dedicated(Activate(o[2], o[3]), o[1])>> : o \in Owners} <=>
        \E x \in Elements, t \in Trials, y \in Elements :
          y \in Deps(x, {"Dedicated"}) /\ f = <<Activate(x, t), Dedicated(Activate(y, t), x)>>
  <2>1. ASSUME NEW x \in Elements, NEW t \in Trials, NEW y \in Elements, y \in Deps(x, {"Dedicated"})
        PROVE  \E o \in Owners : <<Activate(x, t), Dedicated(Activate(y, t), x)>> =
                                 <<Activate(o[1], o[3]), Dedicated(Activate(o[2], o[3]), o[1])>>
    <3>1. PICK o \in Owners : o[1] = x /\ o[2] = y /\ o[3] = t
      BY OwnedAre, <2>1
    <3>. QED  BY <3>1
  <2>. QED  BY OwnedAre, <2>1
<1>6. f \in {<<s, Start>> : s \in OwnedUps} <=>
        \E x \in Elements, t \in Trials, y \in Elements :
          y \in Deps(x, {"Dedicated"}) /\ f = <<Dedicated(Activate(y, t), x), Start>>
  BY OwnedAre
<1>7. f \in {<<s, Deactivate(s.owner, s.trial)>> : s \in OwnedDowns} <=>
        \E x \in Elements, t \in Trials, y \in Elements :
          y \in Deps(x, {"Dedicated"}) /\ f = <<Dedicated(Deactivate(y, t), x), Deactivate(x, t)>>
  BY <1>8, OwnedAre
<1>. QED  BY <1>3, <1>6, <1>7

LEMMA AskedAre ==
  ASSUME plan \in Plans, Supported(plan), NEW f
  PROVE  f \in AskedEdges <=> \E x \in Elements, t \in Trials : Asked(f, x, t)
<1>. DEFINE starts == {<<Activate(x, t), Start>> : x \in Elements, t \in Trials}
            own == {<<Deactivate(x, t), Activate(x, t)>> : x \in Elements, t \in Trials}
            owning == {<<Activate(o[1], o[3]), Dedicated(Activate(o[2], o[3]), o[1])>> : o \in Owners}
            owned == {<<s, Start>> : s \in OwnedUps}
            gone == {<<s, Deactivate(s.owner, s.trial)>> : s \in OwnedDowns}
<1>1. SharedEdges = DownAfterDown({"Shared"}) /\ LifelineEdges = UpAfterUp({"Lifeline"})
  BY DEF SharedEdges, LifelineEdges, UpAfterUp, DownAfterDown
<1>2. AskedEdges = starts \cup own \cup UpAfterUp({"Shared"}) \cup DownAfterDown({"Shared"}) \cup LinearEdges
                   \cup UpAfterUp({"Lifeline"}) \cup owning \cup owned \cup gone
                   \cup UpAfterUp({"Exclusive"}) \cup DownAfterDown({"Exclusive"}) \cup SerialEdges
  BY <1>1 DEF AskedEdges, OwnEdges, RuleEdges, FirstEdges
<1>3. f \in starts <=> \E x \in Elements, t \in Trials : f = <<Activate(x, t), Start>>
  OBVIOUS
<1>4. f \in own <=> \E x \in Elements, t \in Trials : f = <<Deactivate(x, t), Activate(x, t)>>
  OBVIOUS
<1>5. /\ f \in owning <=>
           \E x \in Elements, t \in Trials, y \in Elements :
             y \in Deps(x, {"Dedicated"}) /\ f = <<Activate(x, t), Dedicated(Activate(y, t), x)>>
      /\ f \in owned <=>
           \E x \in Elements, t \in Trials, y \in Elements :
             y \in Deps(x, {"Dedicated"}) /\ f = <<Dedicated(Activate(y, t), x), Start>>
      /\ f \in gone <=>
           \E x \in Elements, t \in Trials, y \in Elements :
             y \in Deps(x, {"Dedicated"}) /\ f = <<Dedicated(Deactivate(y, t), x), Deactivate(x, t)>>
  BY OwnedPairs
<1>6. f \in SerialEdges <=> \E x \in Elements, t \in Trials :
        t \in Later /\ Deps(x, {"Exclusive"}) # {} /\ f = <<Activate(x, t), Deactivate(x, t - 1)>>
  BY DEF SerialEdges, Later
<1>. HIDE DEF starts, own, owning, owned, gone
<1>7. \A x : /\ Deps(x, {"Shared", "Exclusive", "Lifeline"}) =
                  Deps(x, {"Shared"}) \cup Deps(x, {"Exclusive"}) \cup Deps(x, {"Lifeline"})
             /\ Deps(x, {"Shared", "Exclusive"}) = Deps(x, {"Shared"}) \cup Deps(x, {"Exclusive"})
  <2>. DEFINE A == {"Shared"}  B == {"Exclusive"}  C == {"Lifeline"}
  <2>1. {"Shared", "Exclusive"} = A \cup B /\ {"Shared", "Exclusive", "Lifeline"} = (A \cup B) \cup C
    OBVIOUS
  <2>. HIDE DEF A, B, C
  <2>2. \A x : Deps(x, A \cup B) = Deps(x, A) \cup Deps(x, B)
    BY DepsOfBoth
  <2>3. \A x : Deps(x, (A \cup B) \cup C) = Deps(x, A \cup B) \cup Deps(x, C)
    BY DepsOfBoth
  <2>. QED  BY <2>1, <2>2, <2>3 DEF A, B, C
<1>8. \A x \in Elements : Deps(x, {"Dedicated"}) \subseteq Elements
  <2>1. {"Dedicated"} \in SUBSET Relationships
    BY DEF Relationships
  <2>. QED  BY <2>1, BuiltTyped
<1>9. f \in UpAfterUp({"Shared"}) \cup UpAfterUp({"Exclusive"}) \cup UpAfterUp({"Lifeline"}) <=>
        \E x \in Elements, t \in Trials :
          \E y \in Deps(x, {"Shared", "Exclusive", "Lifeline"}) : f = <<Activate(x, t), Activate(y, t)>>
  BY <1>7, PairsOf
<1>10. f \in DownAfterDown({"Shared"}) \cup DownAfterDown({"Exclusive"}) <=>
         \E x \in Elements, t \in Trials :
           \E y \in Deps(x, {"Shared", "Exclusive"}) : f = <<Deactivate(y, t), Deactivate(x, t)>>
  BY <1>7, PairsOf
<1>11. f \in LinearEdges <=>
         \E x \in Elements, t \in Trials : \E y \in Deps(x, {"Linear"}) :
           level[x] = level[y] /\ f = <<Activate(x, t), Deactivate(y, t)>>
  BY PairsOf
<1>12. f \in owning \cup owned \cup gone <=>
         \E x \in Elements, t \in Trials : \E y \in Deps(x, {"Dedicated"}) :
           \/ f = <<Activate(x, t), Dedicated(Activate(y, t), x)>>
           \/ f = <<Dedicated(Activate(y, t), x), Start>>
           \/ f = <<Dedicated(Deactivate(y, t), x), Deactivate(x, t)>>
  BY <1>5, <1>8
<1>. DEFINE A1(x, t) == f = <<Activate(x, t), Start>>
            A2(x, t) == f = <<Deactivate(x, t), Activate(x, t)>>
            A3(x, t) == \E y \in Deps(x, {"Shared", "Exclusive", "Lifeline"}) : f = <<Activate(x, t), Activate(y, t)>>
            A4(x, t) == \E y \in Deps(x, {"Shared", "Exclusive"}) : f = <<Deactivate(y, t), Deactivate(x, t)>>
            A5(x, t) == \E y \in Deps(x, {"Linear"}) : level[x] = level[y] /\ f = <<Activate(x, t), Deactivate(y, t)>>
            A6(x, t) == \E y \in Deps(x, {"Dedicated"}) :
                          \/ f = <<Activate(x, t), Dedicated(Activate(y, t), x)>>
                          \/ f = <<Dedicated(Activate(y, t), x), Start>>
                          \/ f = <<Dedicated(Deactivate(y, t), x), Deactivate(x, t)>>
            A7(x, t) == t \in Later /\ Deps(x, {"Exclusive"}) # {} /\ f = <<Activate(x, t), Deactivate(x, t - 1)>>
<1>13. f \in AskedEdges <=>
         \/ \E x \in Elements, t \in Trials : A1(x, t)
         \/ \E x \in Elements, t \in Trials : A2(x, t)
         \/ \E x \in Elements, t \in Trials : A3(x, t)
         \/ \E x \in Elements, t \in Trials : A4(x, t)
         \/ \E x \in Elements, t \in Trials : A5(x, t)
         \/ \E x \in Elements, t \in Trials : A6(x, t)
         \/ \E x \in Elements, t \in Trials : A7(x, t)
  <2>1. f \in AskedEdges <=>
          \/ f \in starts \/ f \in own
          \/ f \in UpAfterUp({"Shared"}) \cup UpAfterUp({"Exclusive"}) \cup UpAfterUp({"Lifeline"})
          \/ f \in DownAfterDown({"Shared"}) \cup DownAfterDown({"Exclusive"})
          \/ f \in LinearEdges \/ f \in owning \cup owned \cup gone \/ f \in SerialEdges
    BY <1>2
  <2>. QED  BY <1>3, <1>4, <1>6, <1>9, <1>10, <1>11, <1>12, <2>1
<1>14. \A x, t : Asked(f, x, t) <=> A1(x, t) \/ A2(x, t) \/ A3(x, t) \/ A4(x, t) \/ A5(x, t) \/ A6(x, t) \/ A7(x, t)
  BY DEF Asked
<1>. HIDE DEF A1, A2, A3, A4, A5, A6, A7
<1>. QED  BY <1>13, <1>14

------------------------------------------------------------------------------
(* The instance of e that trial t runs against, brought up and taken down. *)
UpStep(e, t)   == Activate(e, Begins(e, t))
DownStep(e, t) == Deactivate(lifeline_root_of(e), Ends(lifeline_root_of(e), t))

LEMMA SettledSteps ==
  ASSUME plan \in Plans, Levelled, NEW e \in Elements, NEW t \in Trials
  PROVE  /\ Collapsed(Activate(e, t)) = Activate(e, t)
         /\ current(Activate(e, t)) = UpStep(e, t)
         /\ Collapsed(Deactivate(e, t)) = Deactivate(lifeline_root_of(e), t)
         /\ Collapsed(Deactivate(e, t)) = Deactivate(e, t) <=> e \notin OnLifeline
         /\ current(Deactivate(e, t)) = Deactivate(e, Ends(e, t))
         /\ current(Collapsed(Deactivate(e, t))) = DownStep(e, t)
         /\ e \notin OnLifeline => DownStep(e, t) = Deactivate(e, Ends(e, t))
<1>1. \A x, u : /\ Activate(x, u).kind = "activate" /\ Activate(x, u).owner = 0
                /\ Activate(x, u).element = x /\ Activate(x, u).trial = u
                /\ Deactivate(x, u).kind = "deactivate" /\ Deactivate(x, u).owner = 0
                /\ Deactivate(x, u).element = x /\ Deactivate(x, u).trial = u
  BY DEF Activate, Deactivate, Step
<1>2. \A x, u, v : /\ [Activate(x, u) EXCEPT !.trial = v] = Activate(x, v)
                   /\ [Deactivate(x, u) EXCEPT !.trial = v] = Deactivate(x, v)
                   /\ [Deactivate(x, u) EXCEPT !.element = v] = Deactivate(v, u)
  BY DEF Activate, Deactivate, Step
<1>3. \A x, u : current(Activate(x, u)) = Activate(x, Begins(x, u))
  <2>1. ASSUME NEW x, NEW u PROVE current(Activate(x, u)) = Activate(x, Begins(x, u))
    <3>1. CASE x \in NonTrialElements
      BY <1>1, <1>2, <3>1 DEF current, Begins
    <3>2. CASE x \notin NonTrialElements
      BY <1>1, <3>2 DEF current, Begins
    <3>. QED  BY <3>1, <3>2
  <2>. QED  BY <2>1
<1>4. \A x, u : current(Deactivate(x, u)) = Deactivate(x, Ends(x, u))
  <2>1. ASSUME NEW x, NEW u PROVE current(Deactivate(x, u)) = Deactivate(x, Ends(x, u))
    <3>1. CASE x \in NonTrialElements
      BY <1>1, <1>2, <3>1 DEF current, Ends
    <3>2. CASE x \notin NonTrialElements
      BY <1>1, <3>2 DEF current, Ends
    <3>. QED  BY <3>1, <3>2
  <2>. QED  BY <2>1
<1>5. Collapsed(Activate(e, t)) = Activate(e, t) /\ Collapsed(Deactivate(e, t)) = Deactivate(lifeline_root_of(e), t)
  BY <1>1, <1>2 DEF Collapsed
<1>6. \A x, y, u : Deactivate(x, u) = Deactivate(y, u) => x = y
  BY <1>1
<1>7. e \in OnLifeline <=> lifeline_root_of(e) # e
  BY DEF OnLifeline
<1>. QED  BY <1>3, <1>4, <1>5, <1>6, <1>7 DEF UpStep, DownStep

LEMMA OtherSteps ==
  ASSUME plan \in Plans, Levelled, NEW s, s.owner # 0 \/ s.kind = "start"
  PROVE  Collapsed(s) = s /\ (s.owner # 0 \/ s.element = 0 => current(s) = s)
BY NoneIsNoElement DEF Collapsed, current, NonTrialElements

KeptSteps == {s \in BuiltSteps : Collapsed(s) = s}

FoldedSteps == {s \in KeptSteps : current(s) = s}

(* What an edge that was asked for becomes. *)
Settled(f) == <<current(f[1]), current(Collapsed(f[2]))>>

FoldedEdges == {Settled(f) : f \in {f \in AskedEdges : Collapsed(f[1]) = f[1]}}

FoldsFor(f, x, t) ==
  \/ f = <<UpStep(x, t), Start>>
  \/ x \notin OnLifeline /\ f = <<DownStep(x, t), UpStep(x, t)>>
  \/ \E y \in Deps(x, {"Shared", "Exclusive", "Lifeline"}) : f = <<UpStep(x, t), UpStep(y, t)>>
  \/ \E y \in Deps(x, {"Shared", "Exclusive"}) \ OnLifeline : f = <<DownStep(y, t), DownStep(x, t)>>
  \/ \E y \in Deps(x, {"Linear"}) : level[x] = level[y] /\ f = <<UpStep(x, t), DownStep(y, t)>>
  \/ \E y \in Deps(x, {"Dedicated"}) :
       \/ f = <<UpStep(x, t), Dedicated(Activate(y, t), x)>>
       \/ f = <<Dedicated(Activate(y, t), x), Start>>
       \/ f = <<Dedicated(Deactivate(y, t), x), DownStep(x, t)>>
  \/ t \in Later /\ Deps(x, {"Exclusive"}) # {} /\ f = <<UpStep(x, t), DownStep(x, t - 1)>>

DepsAreElements(x) ==
  /\ Deps(x, {"Shared", "Exclusive", "Lifeline"}) \subseteq Elements
  /\ Deps(x, {"Shared", "Exclusive"}) \subseteq Elements
  /\ Deps(x, {"Linear"}) \subseteq Elements /\ Deps(x, {"Dedicated"}) \subseteq Elements

LEMMA TargetsAreElements ==
  ASSUME plan \in Plans, Levelled, NEW x \in Elements
  PROVE  DepsAreElements(x)
<1>1. \A kinds \in SUBSET Relationships : Deps(x, kinds) \subseteq Elements
  BY BuiltTyped DEF Levelled
<1>2. /\ {"Shared", "Exclusive", "Lifeline"} \in SUBSET Relationships
      /\ {"Shared", "Exclusive"} \in SUBSET Relationships
      /\ {"Linear"} \in SUBSET Relationships /\ {"Dedicated"} \in SUBSET Relationships
  BY DEF Relationships
<1>. QED  BY <1>1, <1>2 DEF DepsAreElements

LEMMA LaterTrials ==
  ASSUME plan \in Plans
  PROVE  \A t \in Later : t \in Trials /\ t - 1 \in Trials /\ t \in Nat /\ t - 1 < t
<1>. DEFINE n == trial_count(plan.axes)
<1>1. n \in Nat /\ Trials = 0..(n - 1)
  BY PlanTyped
<1>. HIDE DEF n
<1>. QED  BY <1>1 DEF Later

LEMMA FoldedEdgesAre ==
  ASSUME NEW f
  PROVE  f \in FoldedEdges <=> \E g \in AskedEdges : Collapsed(g[1]) = g[1] /\ f = Settled(g)
BY DEF FoldedEdges

LEMMA SettledAre ==
  ASSUME plan \in Plans, Levelled, NEW x \in Elements, NEW y \in Elements, NEW t \in Trials
  PROVE  /\ Collapsed(Start) = Start /\ current(Start) = Start
         /\ Collapsed(Dedicated(Activate(y, t), x)) = Dedicated(Activate(y, t), x)
         /\ current(Dedicated(Activate(y, t), x)) = Dedicated(Activate(y, t), x)
         /\ Collapsed(Dedicated(Deactivate(y, t), x)) = Dedicated(Deactivate(y, t), x)
         /\ current(Dedicated(Deactivate(y, t), x)) = Dedicated(Deactivate(y, t), x)
<1>1. /\ Start.kind = "start" /\ Start.element = 0
      /\ Dedicated(Activate(y, t), x).owner = x /\ Dedicated(Deactivate(y, t), x).owner = x
  BY DEF Start, Dedicated, Activate, Deactivate, Step
<1>2. x # 0
  BY NoneIsNoElement
<1>. QED  BY <1>1, <1>2, OtherSteps

LEMMA FoldedAre ==
  ASSUME plan \in Plans, Levelled, NEW f
  PROVE  f \in FoldedEdges <=> \E x \in Elements, t \in Trials : FoldsFor(f, x, t)
<1>1. \A g \in AskedEdges : g = <<g[1], g[2]>>
  BY EdgesTyped, AskedAre DEF Asked, Levelled
<1>2. ASSUME NEW x \in Elements, NEW t \in Trials, NEW s, NEW d,
             Asked(<<s, d>>, x, t), Collapsed(s) = s
      PROVE  FoldsFor(<<current(s), current(Collapsed(d))>>, x, t)
  <2>. DEFINE f1 == <<current(s), current(Collapsed(d))>>
  <2>1. CASE s = Activate(x, t) /\ d = Start
    BY <2>1, SettledSteps, SettledAre DEF FoldsFor
  <2>2. CASE s = Deactivate(x, t) /\ d = Activate(x, t)
    <3>1. x \notin OnLifeline /\ current(s) = DownStep(x, t) /\ current(Collapsed(d)) = UpStep(x, t)
      BY <1>2, <2>2, SettledSteps
    <3>. QED  BY <3>1 DEF FoldsFor
  <2>3. ASSUME NEW y \in Deps(x, {"Shared", "Exclusive", "Lifeline"}), s = Activate(x, t), d = Activate(y, t)
        PROVE  FoldsFor(f1, x, t)
    <3>1. y \in Elements
      BY TargetsAreElements DEF DepsAreElements
    <3>2. f1 = <<UpStep(x, t), UpStep(y, t)>>
      BY <2>3, <3>1, SettledSteps
    <3>. QED  BY <3>2 DEF FoldsFor
  <2>4. ASSUME NEW y \in Deps(x, {"Shared", "Exclusive"}), s = Deactivate(y, t), d = Deactivate(x, t)
        PROVE  FoldsFor(f1, x, t)
    <3>1. y \in Elements
      BY TargetsAreElements DEF DepsAreElements
    <3>2. y \notin OnLifeline
      BY <1>2, <2>4, <3>1, SettledSteps
    <3>3. f1 = <<DownStep(y, t), DownStep(x, t)>>
      BY <2>4, <3>1, <3>2, SettledSteps
    <3>. QED  BY <3>2, <3>3 DEF FoldsFor
  <2>5. ASSUME NEW y \in Deps(x, {"Linear"}), level[x] = level[y], s = Activate(x, t), d = Deactivate(y, t)
        PROVE  FoldsFor(f1, x, t)
    <3>1. y \in Elements
      BY TargetsAreElements DEF DepsAreElements
    <3>2. f1 = <<UpStep(x, t), DownStep(y, t)>>
      BY <2>5, <3>1, SettledSteps
    <3>. QED  BY <2>5, <3>2 DEF FoldsFor
  <2>6. ASSUME NEW y \in Deps(x, {"Dedicated"}),
               \/ s = Activate(x, t) /\ d = Dedicated(Activate(y, t), x)
               \/ s = Dedicated(Activate(y, t), x) /\ d = Start
               \/ s = Dedicated(Deactivate(y, t), x) /\ d = Deactivate(x, t)
        PROVE  FoldsFor(f1, x, t)
    <3>1. y \in Elements
      BY TargetsAreElements DEF DepsAreElements
    <3>2. \/ f1 = <<UpStep(x, t), Dedicated(Activate(y, t), x)>>
          \/ f1 = <<Dedicated(Activate(y, t), x), Start>>
          \/ f1 = <<Dedicated(Deactivate(y, t), x), DownStep(x, t)>>
      BY <2>6, <3>1, SettledSteps, SettledAre
    <3>. QED  BY <3>2 DEF FoldsFor
  <2>7. ASSUME t \in Later, Deps(x, {"Exclusive"}) # {}, s = Activate(x, t), d = Deactivate(x, t - 1)
        PROVE  FoldsFor(f1, x, t)
    <3>1. t - 1 \in Trials
      BY <2>7, LaterTrials
    <3>2. f1 = <<UpStep(x, t), DownStep(x, t - 1)>>
      BY <2>7, <3>1, SettledSteps
    <3>. QED  BY <2>7, <3>2 DEF FoldsFor
  <2>. QED  BY <1>2, <2>1, <2>2, <2>3, <2>4, <2>5, <2>6, <2>7 DEF Asked
<1>3. ASSUME f \in FoldedEdges PROVE \E x \in Elements, t \in Trials : FoldsFor(f, x, t)
  <2>1. PICK g \in AskedEdges : Collapsed(g[1]) = g[1] /\ f = Settled(g)
    BY <1>3, FoldedEdgesAre
  <2>2. PICK x \in Elements, t \in Trials : Asked(g, x, t)
    BY AskedAre DEF Levelled
  <2>3. Asked(<<g[1], g[2]>>, x, t)
    BY <1>1, <2>2
  <2>4. FoldsFor(<<current(g[1]), current(Collapsed(g[2]))>>, x, t)
    BY <1>2, <2>1, <2>3
  <2>. QED  BY <2>1, <2>4 DEF Settled
<1>4. ASSUME NEW x \in Elements, NEW t \in Trials, NEW s, NEW d, Asked(<<s, d>>, x, t), Collapsed(s) = s
      PROVE  <<current(s), current(Collapsed(d))>> \in FoldedEdges
  <2>. DEFINE g == <<s, d>>
  <2>1. g \in AskedEdges
    BY <1>4, AskedAre DEF Levelled
  <2>2. g[1] = s /\ g[2] = d
    OBVIOUS
  <2>. HIDE DEF g
  <2>3. Settled(g) \in FoldedEdges
    BY <1>4, <2>1, <2>2, FoldedEdgesAre
  <2>. QED  BY <2>2, <2>3 DEF Settled
<1>5. ASSUME NEW x \in Elements, NEW t \in Trials, FoldsFor(f, x, t) PROVE f \in FoldedEdges
  <2>1. ASSUME f = <<UpStep(x, t), Start>> PROVE f \in FoldedEdges
    <3>1. Asked(<<Activate(x, t), Start>>, x, t)
      BY DEF Asked
    <3>. QED  BY <1>4, <2>1, <3>1, SettledSteps, SettledAre
  <2>2. ASSUME x \notin OnLifeline, f = <<DownStep(x, t), UpStep(x, t)>> PROVE f \in FoldedEdges
    <3>1. Asked(<<Deactivate(x, t), Activate(x, t)>>, x, t)
      BY DEF Asked
    <3>2. /\ Collapsed(Deactivate(x, t)) = Deactivate(x, t) /\ current(Deactivate(x, t)) = DownStep(x, t)
          /\ current(Collapsed(Activate(x, t))) = UpStep(x, t)
      BY <2>2, SettledSteps
    <3>. QED  BY <1>4, <2>2, <3>1, <3>2
  <2>3. ASSUME NEW y \in Deps(x, {"Shared", "Exclusive", "Lifeline"}), f = <<UpStep(x, t), UpStep(y, t)>>
        PROVE  f \in FoldedEdges
    <3>1. Asked(<<Activate(x, t), Activate(y, t)>>, x, t) /\ y \in Elements
      BY TargetsAreElements DEF Asked, DepsAreElements
    <3>2. /\ Collapsed(Activate(x, t)) = Activate(x, t) /\ current(Activate(x, t)) = UpStep(x, t)
          /\ current(Collapsed(Activate(y, t))) = UpStep(y, t)
      BY <3>1, SettledSteps
    <3>. QED  BY <1>4, <2>3, <3>1, <3>2
  <2>4. ASSUME NEW y \in Deps(x, {"Shared", "Exclusive"}) \ OnLifeline, f = <<DownStep(y, t), DownStep(x, t)>>
        PROVE  f \in FoldedEdges
    <3>1. Asked(<<Deactivate(y, t), Deactivate(x, t)>>, x, t) /\ y \in Elements
      BY TargetsAreElements DEF Asked, DepsAreElements
    <3>2. /\ Collapsed(Deactivate(y, t)) = Deactivate(y, t) /\ current(Deactivate(y, t)) = DownStep(y, t)
          /\ current(Collapsed(Deactivate(x, t))) = DownStep(x, t)
      BY <3>1, SettledSteps
    <3>. QED  BY <1>4, <2>4, <3>1, <3>2
  <2>5. ASSUME NEW y \in Deps(x, {"Linear"}), level[x] = level[y], f = <<UpStep(x, t), DownStep(y, t)>>
        PROVE  f \in FoldedEdges
    <3>1. Asked(<<Activate(x, t), Deactivate(y, t)>>, x, t) /\ y \in Elements
      BY <2>5, TargetsAreElements DEF Asked, DepsAreElements
    <3>2. /\ Collapsed(Activate(x, t)) = Activate(x, t) /\ current(Activate(x, t)) = UpStep(x, t)
          /\ current(Collapsed(Deactivate(y, t))) = DownStep(y, t)
      BY <3>1, SettledSteps
    <3>. QED  BY <1>4, <2>5, <3>1, <3>2
  <2>6. ASSUME NEW y \in Deps(x, {"Dedicated"}),
               \/ f = <<UpStep(x, t), Dedicated(Activate(y, t), x)>>
               \/ f = <<Dedicated(Activate(y, t), x), Start>>
               \/ f = <<Dedicated(Deactivate(y, t), x), DownStep(x, t)>>
        PROVE  f \in FoldedEdges
    <3>1. /\ Asked(<<Activate(x, t), Dedicated(Activate(y, t), x)>>, x, t)
          /\ Asked(<<Dedicated(Activate(y, t), x), Start>>, x, t)
          /\ Asked(<<Dedicated(Deactivate(y, t), x), Deactivate(x, t)>>, x, t)
          /\ y \in Elements
      BY TargetsAreElements DEF Asked, DepsAreElements
    <3>. DEFINE u == Dedicated(Activate(y, t), x)
                d == Dedicated(Deactivate(y, t), x)
    <3>2. /\ Collapsed(u) = u /\ current(u) = u /\ Collapsed(d) = d /\ current(d) = d
          /\ current(Collapsed(Start)) = Start
          /\ Collapsed(Activate(x, t)) = Activate(x, t) /\ current(Activate(x, t)) = UpStep(x, t)
          /\ current(Collapsed(Deactivate(x, t))) = DownStep(x, t)
      BY <3>1, SettledSteps, SettledAre
    <3>3. /\ Asked(<<Activate(x, t), u>>, x, t) /\ Asked(<<u, Start>>, x, t)
          /\ Asked(<<d, Deactivate(x, t)>>, x, t)
      BY <3>1
    <3>4. \/ f = <<UpStep(x, t), u>> \/ f = <<u, Start>> \/ f = <<d, DownStep(x, t)>>
      BY <2>6
    <3>. HIDE DEF u, d
    <3>5. /\ <<UpStep(x, t), u>> \in FoldedEdges /\ <<u, Start>> \in FoldedEdges
          /\ <<d, DownStep(x, t)>> \in FoldedEdges
      BY <1>4, <3>2, <3>3
    <3>. QED  BY <3>4, <3>5
  <2>7. ASSUME t \in Later, Deps(x, {"Exclusive"}) # {}, f = <<UpStep(x, t), DownStep(x, t - 1)>>
        PROVE  f \in FoldedEdges
    <3>1. Asked(<<Activate(x, t), Deactivate(x, t - 1)>>, x, t) /\ t - 1 \in Trials
      BY <2>7, LaterTrials DEF Asked
    <3>2. /\ Collapsed(Activate(x, t)) = Activate(x, t) /\ current(Activate(x, t)) = UpStep(x, t)
          /\ current(Collapsed(Deactivate(x, t - 1))) = DownStep(x, t - 1)
      BY <3>1, SettledSteps
    <3>. QED  BY <1>4, <2>7, <3>1, <3>2
  <2>. QED  BY <1>5, <2>1, <2>2, <2>3, <2>4, <2>5, <2>6, <2>7 DEF FoldsFor
<1>. QED  BY <1>3, <1>5

------------------------------------------------------------------------------
LEMMA RealStepsAre ==
  ASSUME plan \in Plans, NEW e \in Elements, NEW t \in Trials
  PROVE  /\ Activate(e, t) \in RealSteps /\ Layer(Activate(e, t)) = 3
         /\ Phase(Activate(e, t)) = UpPhase(e) /\ Activate(e, t).trial = t /\ Activate(e, t).kind = "activate"
         /\ Deactivate(e, t) \in RealSteps /\ Layer(Deactivate(e, t)) = 3
         /\ Phase(Deactivate(e, t)) = DownPhase(e) /\ Deactivate(e, t).trial = t
         /\ TrialStart(t) \in RealSteps /\ Layer(TrialStart(t)) = 3
         /\ Phase(TrialStart(t)) = BeginPhase /\ TrialStart(t).trial = t
         /\ TrialEnd(t) \in RealSteps /\ Layer(TrialEnd(t)) = 3
         /\ Phase(TrialEnd(t)) = EndPhase /\ TrialEnd(t).trial = t
         /\ Start \in RealSteps /\ Layer(Start) = 0 /\ End \in RealSteps /\ Layer(End) = 5
         /\ \A o \in Elements :
              /\ Dedicated(Activate(e, t), o) \in RealSteps /\ Layer(Dedicated(Activate(e, t), o)) = 1
              /\ Dedicated(Deactivate(e, t), o) \in RealSteps /\ Layer(Dedicated(Deactivate(e, t), o)) = 4
<1>1. 0 \notin Elements /\ 0 \in Trials
  BY NoneIsNoElement, PlanTyped
<1>2. \A k \in Kinds, x \in {0} \cup Elements, o \in {0} \cup Elements, u \in Trials :
        /\ Step(k, x, o, u) \in AllSteps
        /\ Step(k, x, o, u).kind = k /\ Step(k, x, o, u).element = x
        /\ Step(k, x, o, u).owner = o /\ Step(k, x, o, u).trial = u
  BY StepsTyped
<1>3. \A o \in Elements : /\ Dedicated(Activate(e, t), o) = Step("activate", e, o, t)
                          /\ Dedicated(Deactivate(e, t), o) = Step("deactivate", e, o, t)
  BY DEF Dedicated, Activate, Deactivate, Step
<1>. HIDE DEF Step
<1>10. ASSUME NEW k \in {"activate", "deactivate"}, NEW o \in {0} \cup Elements, NEW s, s = Step(k, e, o, t)
       PROVE  s \in AllSteps /\ s.kind = k /\ s.element = e /\ s.owner = o /\ s.trial = t
  <2>1. k \in Kinds
    BY DEF Kinds
  <2>2. e \in {0} \cup Elements
    OBVIOUS
  <2>3. /\ Step(k, e, o, t) \in AllSteps /\ Step(k, e, o, t).kind = k /\ Step(k, e, o, t).element = e
        /\ Step(k, e, o, t).owner = o /\ Step(k, e, o, t).trial = t
    BY <2>1, <2>2, StepsTyped
  <2>. QED  BY <1>10, <2>3
<1>4. /\ Activate(e, t) \in RealSteps /\ Layer(Activate(e, t)) = 3
      /\ Phase(Activate(e, t)) = UpPhase(e) /\ Activate(e, t).trial = t /\ Activate(e, t).kind = "activate"
  <2>. DEFINE s == Activate(e, t)
  <2>1. s \in AllSteps /\ s.kind = "activate" /\ s.element = e /\ s.owner = 0 /\ s.trial = t
    BY <1>10 DEF Activate
  <2>. HIDE DEF s
  <2>2. s \in RealSteps /\ Layer(s) = 3 /\ Phase(s) = UpPhase(e)
    BY <2>1 DEF RealSteps, Layer, Phase
  <2>. QED  BY <2>1, <2>2 DEF s
<1>5. /\ Deactivate(e, t) \in RealSteps /\ Layer(Deactivate(e, t)) = 3
      /\ Phase(Deactivate(e, t)) = DownPhase(e) /\ Deactivate(e, t).trial = t
  <2>. DEFINE s == Deactivate(e, t)
  <2>1. s \in AllSteps /\ s.kind = "deactivate" /\ s.element = e /\ s.owner = 0 /\ s.trial = t
    BY <1>10 DEF Deactivate
  <2>. HIDE DEF s
  <2>2. s \in RealSteps /\ Layer(s) = 3 /\ Phase(s) = DownPhase(e)
    BY <2>1 DEF RealSteps, Layer, Phase
  <2>. QED  BY <2>1, <2>2 DEF s
<1>6. /\ TrialStart(t) \in RealSteps /\ Layer(TrialStart(t)) = 3
      /\ Phase(TrialStart(t)) = BeginPhase /\ TrialStart(t).trial = t
  BY <1>1, <1>2 DEF TrialStart, Kinds, RealSteps, Layer, Phase
<1>7. /\ TrialEnd(t) \in RealSteps /\ Layer(TrialEnd(t)) = 3
      /\ Phase(TrialEnd(t)) = EndPhase /\ TrialEnd(t).trial = t
  BY <1>1, <1>2 DEF TrialEnd, Kinds, RealSteps, Layer, Phase
<1>8. Start \in RealSteps /\ Layer(Start) = 0 /\ End \in RealSteps /\ Layer(End) = 5
  BY <1>1, <1>2 DEF Start, End, Kinds, RealSteps, Layer
<1>9. ASSUME NEW o \in Elements
      PROVE  /\ Dedicated(Activate(e, t), o) \in RealSteps /\ Layer(Dedicated(Activate(e, t), o)) = 1
             /\ Dedicated(Deactivate(e, t), o) \in RealSteps /\ Layer(Dedicated(Deactivate(e, t), o)) = 4
  <2>. DEFINE s == Dedicated(Activate(e, t), o)
              d == Dedicated(Deactivate(e, t), o)
  <2>1. /\ s \in AllSteps /\ s.kind = "activate" /\ s.element = e /\ s.owner = o
        /\ d \in AllSteps /\ d.kind = "deactivate" /\ d.element = e /\ d.owner = o
    <3>1. s = Step("activate", e, o, t) /\ d = Step("deactivate", e, o, t)
      BY <1>3
    <3>2. o \in {0} \cup Elements
      OBVIOUS
    <3>. HIDE DEF s, d
    <3>. QED  BY <1>10, <3>1, <3>2
  <2>. HIDE DEF s, d
  <2>2. s \in RealSteps /\ Layer(s) = 1 /\ d \in RealSteps /\ Layer(d) = 4
    BY <1>1, <2>1 DEF RealSteps, Layer
  <2>. QED  BY <2>2 DEF s, d
<1>. QED  BY <1>4, <1>5, <1>6, <1>7, <1>8, <1>9

LEMMA SettledTyped ==
  ASSUME plan \in Plans, Levelled, NEW e \in Elements, NEW t \in Trials
  PROVE  /\ UpStep(e, t) \in RealSteps /\ Layer(UpStep(e, t)) = 3
         /\ Phase(UpStep(e, t)) = UpPhase(e) /\ UpStep(e, t).trial = Begins(e, t)
         /\ DownStep(e, t) \in RealSteps /\ Layer(DownStep(e, t)) = 3
         /\ Phase(DownStep(e, t)) = DownPhase(lifeline_root_of(e))
         /\ DownStep(e, t).trial = Ends(lifeline_root_of(e), t)
         /\ lifeline_root_of(e) \in Elements
         /\ e \notin OnLifeline => lifeline_root_of(e) = e
<1>1. lifeline_root_of(e) \in Elements /\ (e \notin OnLifeline => lifeline_root_of(e) = e)
  BY RootIs DEF Levelled, OnLifeline
<1>2. Begins(e, t) \in Trials /\ Ends(lifeline_root_of(e), t) \in Trials
  BY <1>1, GroupBounds
<1>. QED  BY <1>1, <1>2, RealStepsAre DEF UpStep, DownStep

(* Two steps of the middle, one of which comes earlier in every trial. *)
LEMMA FollowsBy ==
  ASSUME plan \in Plans, NEW s \in RealSteps, NEW d \in RealSteps, Layer(s) = 3, Layer(d) = 3,
         Phase(d) \in Earlier(Phase(s)), Serial => d.trial <= s.trial
  PROVE  Follows(s, d)
<1>1. s.trial \in Nat /\ d.trial \in Nat
  BY PlanTyped DEF RealSteps, AllSteps
<1>2. CASE Serial
  BY <1>1, <1>2 DEF Follows, Later3, Turn
<1>3. CASE ~Serial
  BY <1>3 DEF Follows, Later3, Turn
<1>. QED  BY <1>2, <1>3

LEMMA FoldedFollows ==
  ASSUME plan \in Plans, Levelled, Consistent, NEW f, f \in FoldedEdges
  PROVE  f[1] \in RealSteps /\ f[2] \in RealSteps /\ Follows(f[1], f[2])
<1>1. PICK x \in Elements, t \in Trials : FoldsFor(f, x, t)
  BY FoldedAre
<1>2. Circleless(OneTrial)
  BY DEF Consistent
<1>3. \A p \in Phases : \A q \in OneTrial[p] : q \in Earlier(p)
  BY <1>2, EarlierIsOrder
<1>4. DepsAreElements(x) /\ t \in Nat
  BY TargetsAreElements, PlanTyped
<1>5. \A e \in Elements : UpPhase(e) \in Phases /\ DownPhase(e) \in Phases
  BY PhasesAre
<1>6. \A e \in Elements, u \in Trials :
         /\ UpStep(e, u) \in RealSteps /\ Layer(UpStep(e, u)) = 3
         /\ Phase(UpStep(e, u)) = UpPhase(e) /\ UpStep(e, u).trial = Begins(e, u)
         /\ DownStep(e, u) \in RealSteps /\ Layer(DownStep(e, u)) = 3
         /\ Phase(DownStep(e, u)) = DownPhase(lifeline_root_of(e))
         /\ DownStep(e, u).trial = Ends(lifeline_root_of(e), u)
         /\ lifeline_root_of(e) \in Elements
         /\ e \notin OnLifeline => lifeline_root_of(e) = e
  BY SettledTyped
<1>7. /\ Start \in RealSteps /\ Layer(Start) = 0
      /\ \A y \in Elements :
           /\ Dedicated(Activate(y, t), x) \in RealSteps /\ Layer(Dedicated(Activate(y, t), x)) = 1
           /\ Dedicated(Deactivate(y, t), x) \in RealSteps /\ Layer(Dedicated(Deactivate(y, t), x)) = 4
  BY RealStepsAre
<1>8. Serial => \A e \in Elements : Aligned(e)
  BY DEF Consistent, Serial
<1>9. \A e \in Elements, u \in Trials : /\ Begins(e, u) \in Trials /\ Ends(e, u) \in Trials
                                        /\ Begins(e, u) <= u /\ u <= Ends(e, u)
                                        /\ ~Lasting(e) => Begins(e, u) = u /\ Ends(e, u) = u
  BY GroupBounds
<1>10. \A e \in Elements, u \in Trials : Begins(e, u) \in Nat /\ Ends(e, u) \in Nat /\ u \in Nat
  BY <1>9, PlanTyped
<1>11. CASE f = <<UpStep(x, t), Start>>
  BY <1>6, <1>7, <1>11 DEF Follows
<1>12. CASE x \notin OnLifeline /\ f = <<DownStep(x, t), UpStep(x, t)>>
  <2>1. UpPhase(x) \in Earlier(DownPhase(x))
    BY <1>3, <1>5, <1>12, TrialAsks
  <2>2. Begins(x, t) <= Ends(x, t)
    BY <1>9, <1>10
  <2>. QED  BY <1>6, <1>12, <2>1, <2>2, FollowsBy
<1>13. ASSUME NEW y \in Deps(x, {"Shared", "Exclusive", "Lifeline"}), f = <<UpStep(x, t), UpStep(y, t)>>
       PROVE  f[1] \in RealSteps /\ f[2] \in RealSteps /\ Follows(f[1], f[2])
  <2>1. y \in Elements
    BY <1>4 DEF DepsAreElements
  <2>2. UpPhase(y) \in Earlier(UpPhase(x))
    BY <1>3, <1>5, TrialAsks
  <2>3. Serial => Begins(y, t) <= Begins(x, t)
    BY <1>8, <2>1, CoversBoth DEF Aligned
  <2>. QED  BY <1>6, <1>13, <2>1, <2>2, <2>3, FollowsBy
<1>14. ASSUME NEW y \in Deps(x, {"Shared", "Exclusive"}) \ OnLifeline, f = <<DownStep(y, t), DownStep(x, t)>>
       PROVE  f[1] \in RealSteps /\ f[2] \in RealSteps /\ Follows(f[1], f[2])
  <2>1. y \in Elements
    BY <1>4 DEF DepsAreElements
  <2>2. DownPhase(lifeline_root_of(x)) \in Earlier(DownPhase(y))
    BY <1>3, <1>5, <2>1, TrialAsks
  <2>3. Serial => Covers(y, lifeline_root_of(x))
    BY <1>8 DEF Aligned
  <2>4. Serial => Ends(lifeline_root_of(x), t) <= Ends(y, t)
    BY <1>6, <2>1, <2>3, CoversBoth
  <2>. QED  BY <1>6, <1>14, <2>1, <2>2, <2>4, FollowsBy
<1>15. ASSUME NEW y \in Deps(x, {"Linear"}), level[x] = level[y], f = <<UpStep(x, t), DownStep(y, t)>>
       PROVE  f[1] \in RealSteps /\ f[2] \in RealSteps /\ Follows(f[1], f[2])
  <2>1. y \in Elements
    BY <1>4 DEF DepsAreElements
  <2>2. DownPhase(lifeline_root_of(y)) \in Earlier(UpPhase(x))
    BY <1>3, <1>5, <1>15, TrialAsks
  <2>3. Serial => ~Lasting(x) /\ ~Lasting(lifeline_root_of(y))
    BY <1>8, <1>15 DEF Aligned
  <2>4. Serial => Ends(lifeline_root_of(y), t) <= Begins(x, t)
    BY <1>6, <1>9, <1>10, <2>1, <2>3
  <2>. QED  BY <1>6, <1>15, <2>1, <2>2, <2>4, FollowsBy
<1>16. ASSUME NEW y \in Deps(x, {"Dedicated"}),
              \/ f = <<UpStep(x, t), Dedicated(Activate(y, t), x)>>
              \/ f = <<Dedicated(Activate(y, t), x), Start>>
              \/ f = <<Dedicated(Deactivate(y, t), x), DownStep(x, t)>>
       PROVE  f[1] \in RealSteps /\ f[2] \in RealSteps /\ Follows(f[1], f[2])
  <2>1. y \in Elements
    BY <1>4 DEF DepsAreElements
  <2>. DEFINE u == Dedicated(Activate(y, t), x)
              d == Dedicated(Deactivate(y, t), x)
  <2>2. /\ u \in RealSteps /\ Layer(u) = 1 /\ d \in RealSteps /\ Layer(d) = 4
        /\ f = <<UpStep(x, t), u>> \/ f = <<u, Start>> \/ f = <<d, DownStep(x, t)>>
    BY <1>7, <1>16, <2>1
  <2>. HIDE DEF u, d
  <2>. QED  BY <1>6, <1>7, <2>2 DEF Follows
<1>17. CASE t \in Later /\ Deps(x, {"Exclusive"}) # {} /\ f = <<UpStep(x, t), DownStep(x, t - 1)>>
  <2>1. t - 1 \in Trials /\ t - 1 < t
    BY <1>17, LaterTrials
  <2>2. Serial /\ ~Lasting(x) /\ x \notin OnLifeline
    BY <1>8, <1>17 DEF Serial, Aligned
  <2>3. lifeline_root_of(x) = x /\ Begins(x, t) = t /\ Ends(x, t - 1) = t - 1
    BY <1>6, <1>9, <2>1, <2>2
  <2>. QED  BY <1>6, <1>17, <2>1, <2>2, <2>3 DEF Follows, Later3, Turn
<1>. QED  BY <1>1, <1>11, <1>12, <1>13, <1>14, <1>15, <1>16, <1>17 DEF FoldsFor

------------------------------------------------------------------------------
(* Which steps are left. *)
LEMMA BuiltAre ==
  ASSUME NEW s
  PROVE  s \in BuiltSteps <=>
           \/ \E e \in Elements, t \in Trials : s = Activate(e, t) \/ s = Deactivate(e, t)
           \/ \E x \in Elements, t \in Trials, y \in Elements :
                /\ y \in Deps(x, {"Dedicated"})
                /\ s = Dedicated(Activate(y, t), x) \/ s = Dedicated(Deactivate(y, t), x)
<1>1. s \in PlainSteps <=> \E e \in Elements, t \in Trials : s = Activate(e, t) \/ s = Deactivate(e, t)
  BY DEF PlainSteps
<1>2. s \in OwnedUps <=>
        \E x \in Elements, t \in Trials, y \in Elements :
          y \in Deps(x, {"Dedicated"}) /\ s = Dedicated(Activate(y, t), x)
  BY OwnedAre
<1>3. s \in OwnedDowns <=>
        \E x \in Elements, t \in Trials, y \in Elements :
          y \in Deps(x, {"Dedicated"}) /\ s = Dedicated(Deactivate(y, t), x)
  BY OwnedAre
<1>. QED  BY <1>1, <1>2, <1>3 DEF BuiltSteps

LEMMA FoldedStepsAre ==
  ASSUME plan \in Plans, Levelled
  PROVE  /\ FoldedSteps \subseteq RealSteps
         /\ \A s \in KeptSteps : current(s) \in FoldedSteps
         /\ \A e \in Elements, t \in Trials :
              /\ UpStep(e, t) \in FoldedSteps /\ DownStep(e, t) \in FoldedSteps
              /\ Activate(e, t) \in FoldedSteps <=> Begins(e, t) = t
              /\ Deactivate(e, t) \in FoldedSteps <=> e \notin OnLifeline /\ Ends(e, t) = t
         /\ \A s \in FoldedSteps : s.kind \in {"activate", "deactivate"}
         /\ \A x \in Elements, t \in Trials : \A y \in Deps(x, {"Dedicated"}) :
              Dedicated(Activate(y, t), x) \in FoldedSteps /\ Dedicated(Deactivate(y, t), x) \in FoldedSteps
<1>1. ASSUME NEW e \in Elements, NEW t \in Trials
      PROVE  /\ Activate(e, t) \in BuiltSteps /\ Deactivate(e, t) \in BuiltSteps
             /\ Activate(e, t).kind = "activate" /\ Deactivate(e, t).kind = "deactivate"
             /\ Activate(e, t) \in RealSteps /\ Deactivate(e, t) \in RealSteps
             /\ Collapsed(Activate(e, t)) = Activate(e, t)
             /\ current(Activate(e, t)) = Activate(e, Begins(e, t))
             /\ Collapsed(Deactivate(e, t)) = Deactivate(e, t) <=> e \notin OnLifeline
             /\ current(Deactivate(e, t)) = Deactivate(e, Ends(e, t))
             /\ Begins(e, t) \in Trials /\ Ends(e, t) \in Trials
             /\ Begins(e, Begins(e, t)) = Begins(e, t) /\ Ends(e, Ends(e, t)) = Ends(e, t)
  <2>1. Activate(e, t) \in BuiltSteps /\ Deactivate(e, t) \in BuiltSteps
    BY BuiltAre
  <2>2. Activate(e, t).kind = "activate" /\ Deactivate(e, t).kind = "deactivate"
    BY DEF Activate, Deactivate, Step
  <2>. QED  BY <2>1, <2>2, RealStepsAre, SettledSteps, GroupBounds DEF UpStep
<1>2. ASSUME NEW e \in Elements, NEW t \in Trials
      PROVE  Activate(e, Begins(e, t)) \in FoldedSteps
  BY <1>1 DEF FoldedSteps, KeptSteps
<1>3. ASSUME NEW e \in Elements \ OnLifeline, NEW t \in Trials
      PROVE  Deactivate(e, Ends(e, t)) \in FoldedSteps
  BY <1>1 DEF FoldedSteps, KeptSteps
<1>4. ASSUME NEW x \in Elements, NEW t \in Trials, NEW y \in Elements, y \in Deps(x, {"Dedicated"})
      PROVE  /\ Dedicated(Activate(y, t), x) \in FoldedSteps /\ Dedicated(Deactivate(y, t), x) \in FoldedSteps
             /\ current(Dedicated(Activate(y, t), x)) = Dedicated(Activate(y, t), x)
             /\ current(Dedicated(Deactivate(y, t), x)) = Dedicated(Deactivate(y, t), x)
             /\ Dedicated(Activate(y, t), x) \in RealSteps /\ Dedicated(Deactivate(y, t), x) \in RealSteps
             /\ Dedicated(Activate(y, t), x).kind = "activate" /\ Dedicated(Deactivate(y, t), x).kind = "deactivate"
  <2>. DEFINE u == Dedicated(Activate(y, t), x)
              d == Dedicated(Deactivate(y, t), x)
  <2>1. u \in BuiltSteps /\ d \in BuiltSteps
    BY <1>4, BuiltAre
  <2>2. Collapsed(u) = u /\ current(u) = u /\ Collapsed(d) = d /\ current(d) = d
    BY SettledAre
  <2>3. u \in RealSteps /\ d \in RealSteps
    BY RealStepsAre
  <2>4. u.kind = "activate" /\ d.kind = "deactivate"
    BY DEF Dedicated, Activate, Deactivate, Step
  <2>. HIDE DEF u, d
  <2>5. u \in FoldedSteps /\ d \in FoldedSteps
    BY <2>1, <2>2 DEF FoldedSteps, KeptSteps
  <2>. QED  BY <2>2, <2>3, <2>4, <2>5 DEF u, d
<1>5. ASSUME NEW s \in KeptSteps
      PROVE  current(s) \in FoldedSteps /\ s \in RealSteps /\ s.kind \in {"activate", "deactivate"}
  <2>1. ASSUME NEW e \in Elements, NEW t \in Trials, s = Activate(e, t)
        PROVE  current(s) \in FoldedSteps /\ s \in RealSteps /\ s.kind = "activate"
    BY <1>1, <1>2, <2>1
  <2>2. ASSUME NEW e \in Elements, NEW t \in Trials, s = Deactivate(e, t)
        PROVE  current(s) \in FoldedSteps /\ s \in RealSteps /\ s.kind = "deactivate"
    <3>1. e \notin OnLifeline
      BY <1>1, <2>2 DEF KeptSteps
    <3>. QED  BY <1>1, <1>3, <2>2, <3>1
  <2>3. ASSUME NEW x \in Elements, NEW t \in Trials, NEW y \in Elements, y \in Deps(x, {"Dedicated"}),
               s = Dedicated(Activate(y, t), x) \/ s = Dedicated(Deactivate(y, t), x)
        PROVE  current(s) \in FoldedSteps /\ s \in RealSteps /\ s.kind \in {"activate", "deactivate"}
    BY <1>4, <2>3
  <2>4. s \in BuiltSteps
    BY DEF KeptSteps
  <2>. QED  BY <2>1, <2>2, <2>3, <2>4, BuiltAre
<1>6. ASSUME NEW e \in Elements, NEW t \in Trials
      PROVE  /\ Activate(e, t) \in FoldedSteps <=> Begins(e, t) = t
             /\ Deactivate(e, t) \in FoldedSteps <=> e \notin OnLifeline /\ Ends(e, t) = t
  <2>1. \A u, v : /\ Activate(e, u) = Activate(e, v) => u = v
                  /\ Deactivate(e, u) = Deactivate(e, v) => u = v
    BY DEF Activate, Deactivate, Step
  <2>. QED  BY <1>1, <2>1 DEF FoldedSteps, KeptSteps
<1>7. ASSUME NEW e \in Elements, NEW t \in Trials
      PROVE  UpStep(e, t) \in FoldedSteps /\ DownStep(e, t) \in FoldedSteps
  <2>1. lifeline_root_of(e) \in Elements /\ lifeline_root_of(lifeline_root_of(e)) = lifeline_root_of(e)
    BY RootIs DEF Levelled
  <2>2. lifeline_root_of(e) \in Elements \ OnLifeline
    BY <2>1 DEF OnLifeline
  <2>. QED  BY <1>2, <1>3, <2>2 DEF UpStep, DownStep
<1>8. \A x \in Elements : Deps(x, {"Dedicated"}) \subseteq Elements
  BY TargetsAreElements DEF DepsAreElements
<1>9. \A s \in FoldedSteps : s \in KeptSteps
  BY DEF FoldedSteps
<1>. QED  BY <1>4, <1>5, <1>6, <1>7, <1>8, <1>9

LEMMA AskedFrom ==
  ASSUME plan \in Plans, Levelled, NEW g \in AskedEdges
  PROVE  g = <<g[1], g[2]>> /\ g[1] \in BuiltSteps
<1>1. PICK x \in Elements, t \in Trials : Asked(g, x, t)
  BY AskedAre DEF Levelled
<1>2. DepsAreElements(x)
  BY TargetsAreElements
<1>3. /\ g = <<g[1], g[2]>>
      /\ \/ \E e \in Elements, u \in Trials : g[1] = Activate(e, u) \/ g[1] = Deactivate(e, u)
         \/ \E y \in Deps(x, {"Dedicated"}) : g[1] = Dedicated(Activate(y, t), x) \/ g[1] = Dedicated(Deactivate(y, t), x)
  BY <1>1, <1>2 DEF Asked, DepsAreElements
<1>. QED  BY <1>2, <1>3, BuiltAre DEF DepsAreElements

(* Where the edges lead. *)
LEMMA FoldedTyped ==
  ASSUME plan \in Plans, Levelled
  PROVE  /\ \A s, d : <<s, d>> \in AskedEdges => Collapsed(d) \in KeptSteps \cup {Start}
         /\ \A f \in FoldedEdges : f = <<f[1], f[2]>> /\ f[1] \in FoldedSteps /\ f[2] \in FoldedSteps \cup {Start}
         /\ current(Start) = Start
<1>1. \A e \in Elements, t \in Trials :
        /\ Activate(e, t) \in KeptSteps
        /\ lifeline_root_of(e) \in Elements
        /\ Deactivate(lifeline_root_of(e), t) \in KeptSteps
        /\ Collapsed(Activate(e, t)) = Activate(e, t)
        /\ Collapsed(Deactivate(e, t)) = Deactivate(lifeline_root_of(e), t)
  <2>1. ASSUME NEW e \in Elements, NEW t \in Trials
        PROVE  /\ Activate(e, t) \in KeptSteps
               /\ lifeline_root_of(e) \in Elements
               /\ Deactivate(lifeline_root_of(e), t) \in KeptSteps
    <3>1. lifeline_root_of(e) \in Elements /\ lifeline_root_of(lifeline_root_of(e)) = lifeline_root_of(e)
      BY RootIs DEF Levelled
    <3>2. Activate(e, t) \in BuiltSteps /\ Deactivate(lifeline_root_of(e), t) \in BuiltSteps
      BY <3>1, BuiltAre
    <3>3. /\ Collapsed(Activate(e, t)) = Activate(e, t)
          /\ Collapsed(Deactivate(lifeline_root_of(e), t)) = Deactivate(lifeline_root_of(e), t)
      BY <3>1, SettledSteps DEF OnLifeline
    <3>. QED  BY <3>1, <3>2, <3>3 DEF KeptSteps
  <2>. QED  BY <2>1, SettledSteps
<1>2. 0 \in Trials
  BY PlanTyped
<1>3. \A x \in Elements, t \in Trials : \A y \in Deps(x, {"Dedicated"}) :
        y \in Elements /\ Dedicated(Activate(y, t), x) \in KeptSteps
        /\ Collapsed(Dedicated(Activate(y, t), x)) = Dedicated(Activate(y, t), x)
  BY FoldedStepsAre, TargetsAreElements DEF DepsAreElements, FoldedSteps, KeptSteps
<1>4. ASSUME NEW s, NEW d, <<s, d>> \in AskedEdges PROVE Collapsed(d) \in KeptSteps \cup {Start}
  <2>1. PICK x \in Elements, t \in Trials : Asked(<<s, d>>, x, t)
    BY <1>4, AskedAre DEF Levelled
  <2>2. DepsAreElements(x)
    BY TargetsAreElements
  <2>3. \/ d = Start \/ \E e \in Elements, u \in Trials : d = Activate(e, u) \/ d = Deactivate(e, u)
        \/ \E y \in Deps(x, {"Dedicated"}) : d = Dedicated(Activate(y, t), x)
    BY <2>1, <2>2, LaterTrials DEF Asked, DepsAreElements
  <2>4. Collapsed(Start) = Start
    BY OtherSteps DEF Start, Step
  <2>. QED  BY <1>1, <1>3, <2>3, <2>4
<1>5. current(Start) = Start
  BY OtherSteps DEF Start, Step
<1>6. ASSUME NEW f \in FoldedEdges
      PROVE  f = <<f[1], f[2]>> /\ f[1] \in FoldedSteps /\ f[2] \in FoldedSteps \cup {Start}
  <2>1. PICK g \in AskedEdges : Collapsed(g[1]) = g[1] /\ f = Settled(g)
    BY FoldedEdgesAre
  <2>2. g = <<g[1], g[2]>> /\ g[1] \in BuiltSteps
    BY AskedFrom
  <2>3. g[1] \in KeptSteps /\ Collapsed(g[2]) \in KeptSteps \cup {Start}
    BY <1>4, <2>1, <2>2 DEF KeptSteps
  <2>4. f[1] = current(g[1]) /\ f[2] = current(Collapsed(g[2])) /\ f = <<f[1], f[2]>>
    BY <2>1 DEF Settled
  <2>. QED  BY <1>5, <2>3, <2>4, FoldedStepsAre
<1>. QED  BY <1>4, <1>5, <1>6

------------------------------------------------------------------------------
(***************************************************************************)
(* The graph after collapse, coalescing, notifications and rerouting.      *)
(***************************************************************************)
(* The steps of g are these, and s waits for d where says(s, d) holds.     *)
AskedEdge(s, d)  == \E c : <<s, c>> \in AskedEdges /\ d = Collapsed(c)
FoldedEdge(s, d) == <<s, d>> \in FoldedEdges

CollapsedGraph(g) ==
  DOMAIN g = KeptSteps /\ \A s \in KeptSteps : \A d : d \in g[s] <=> AskedEdge(s, d)

FoldedGraph(g) ==
  DOMAIN g = FoldedSteps /\ \A s \in FoldedSteps : \A d : d \in g[s] <=> FoldedEdge(s, d)

LEMMA CollapseMakes ==
  ASSUME Shape, Built, apply_lifeline_collapse
  PROVE  CollapsedGraph(depends_on')
<1>1. stage = "lifeline" /\ Consists(depends_on, BuiltSteps, AskedEdges)
  BY DEF apply_lifeline_collapse, Pass, Built
<1>2. DOMAIN depends_on' = KeptSteps
  BY <1>1 DEF apply_lifeline_collapse, KeptSteps, Consists
<1>3. ASSUME NEW s \in KeptSteps, NEW d PROVE d \in depends_on'[s] <=> AskedEdge(s, d)
  <2>1. depends_on'[s] = {Collapsed(c) : c \in depends_on[s]}
    BY <1>1, <1>2 DEF apply_lifeline_collapse
  <2>2. \A c : c \in depends_on[s] <=> <<s, c>> \in AskedEdges
    BY <1>1 DEF Consists, KeptSteps
  <2>. QED  BY <2>1, <2>2 DEF AskedEdge
<1>. QED  BY <1>2, <1>3 DEF CollapsedGraph

LEMMA FoldedFrom ==
  ASSUME plan \in Plans, Levelled, NEW s, NEW d
  PROVE  FoldedEdge(s, d) <=> \E r \in KeptSteps : \E c : current(r) = s /\ AskedEdge(r, c) /\ d = current(c)
<1>1. ASSUME NEW r \in KeptSteps, NEW c, current(r) = s, AskedEdge(r, c), d = current(c)
      PROVE  FoldedEdge(s, d)
  <2>1. PICK b : <<r, b>> \in AskedEdges /\ c = Collapsed(b)
    BY <1>1 DEF AskedEdge
  <2>2. Collapsed(r) = r
    BY DEF KeptSteps
  <2>3. Settled(<<r, b>>) = <<s, d>>
    BY <1>1, <2>1 DEF Settled
  <2>. QED  BY <2>1, <2>2, <2>3, FoldedEdgesAre DEF FoldedEdge
<1>2. ASSUME FoldedEdge(s, d)
      PROVE  \E r \in KeptSteps : \E c : current(r) = s /\ AskedEdge(r, c) /\ d = current(c)
  <2>1. PICK g \in AskedEdges : Collapsed(g[1]) = g[1] /\ <<s, d>> = Settled(g)
    BY <1>2, FoldedEdgesAre DEF FoldedEdge
  <2>2. g = <<g[1], g[2]>> /\ g[1] \in BuiltSteps
    BY AskedFrom
  <2>3. s = current(g[1]) /\ d = current(Collapsed(g[2]))
    BY <2>1 DEF Settled
  <2>4. g[1] \in KeptSteps
    BY <2>1, <2>2 DEF KeptSteps
  <2>5. AskedEdge(g[1], Collapsed(g[2]))
    BY <2>2 DEF AskedEdge
  <2>. QED  BY <2>3, <2>4, <2>5
<1>. QED  BY <1>1, <1>2

LEMMA CoalescingMakes ==
  ASSUME Shape, CollapsedGraph(depends_on), Consistent, apply_coalescing
  PROVE  FoldedGraph(depends_on')
<1>1. plan \in Plans /\ Levelled
  BY DEF Shape, apply_coalescing, Pass, ToExpand
<1>2. DOMAIN depends_on = KeptSteps /\ \A s \in KeptSteps : \A d : d \in depends_on[s] <=> AskedEdge(s, d)
  BY DEF CollapsedGraph
<1>3. CASE \A s \in DOMAIN depends_on : current(s) = s
  <2>1. depends_on' = depends_on /\ FoldedSteps = KeptSteps
    BY <1>2, <1>3 DEF apply_coalescing, FoldedSteps
  <2>2. \A s, d : AskedEdge(s, d) => current(d) = d
    <3>1. \A s, d : AskedEdge(s, d) => d \in KeptSteps \cup {Start}
      BY <1>1, FoldedTyped DEF AskedEdge
    <3>. QED  BY <1>1, <1>2, <1>3, <3>1, FoldedTyped
  <2>3. ASSUME NEW s \in KeptSteps, NEW d PROVE d \in depends_on[s] <=> FoldedEdge(s, d)
    <3>1. FoldedEdge(s, d) <=> \E r \in KeptSteps : \E c : current(r) = s /\ AskedEdge(r, c) /\ d = current(c)
      BY <1>1, FoldedFrom
    <3>. QED  BY <1>2, <1>3, <2>2, <3>1
  <2>. QED  BY <1>2, <2>1, <2>3 DEF FoldedGraph
<1>4. CASE ~(\A s \in DOMAIN depends_on : current(s) = s)
  <2>1. depends_on' = [s \in {s \in DOMAIN depends_on : current(s) = s} |-> Folded(s)]
    BY <1>4 DEF apply_coalescing
  <2>2. DOMAIN depends_on' = FoldedSteps /\ \A s \in FoldedSteps : depends_on'[s] = Folded(s)
    BY <1>2, <2>1 DEF FoldedSteps
  <2>3. ASSUME NEW s \in FoldedSteps, NEW d PROVE d \in Folded(s) <=> FoldedEdge(s, d)
    <3>. DEFINE Of(r) == {current(c) : c \in depends_on[r]}
                from == {r \in DOMAIN depends_on : current(r) = s}
    <3>1. Folded(s) = (UNION {Of(r) : r \in from}) \ {s}
      BY DEF Folded
    <3>2. \A r \in from : r \in KeptSteps /\ current(r) = s
      BY <1>2
    <3>3. \A r \in KeptSteps : current(r) = s => r \in from
      BY <1>2
    <3>4. \A r \in KeptSteps : d \in Of(r) <=> \E c : AskedEdge(r, c) /\ d = current(c)
      BY <1>2
    <3>. HIDE DEF Of, from
    <3>5. d \in Folded(s) <=> d # s /\ \E r \in from : d \in Of(r)
      BY <3>1
    <3>6. FoldedEdge(s, d) <=> \E r \in KeptSteps : \E c : current(r) = s /\ AskedEdge(r, c) /\ d = current(c)
      BY <1>1, FoldedFrom
    <3>7. FoldedEdge(s, d) => d # s
      <4>1. ASSUME <<s, d>> \in FoldedEdges PROVE d # s
        <5>. DEFINE f == <<s, d>>
        <5>1. f \in FoldedEdges /\ f[1] = s /\ f[2] = d
          BY <4>1
        <5>. HIDE DEF f
        <5>2. f[1] \in RealSteps /\ f[2] \in RealSteps /\ Follows(f[1], f[2])
          BY <1>1, <5>1, FoldedFollows
        <5>3. Circleless(OneTrial)
          BY DEF Consistent
        <5>. QED  BY <1>1, <5>1, <5>2, <5>3, FollowsIsOrder
      <4>. QED  BY <4>1 DEF FoldedEdge
    <3>. QED  BY <3>2, <3>3, <3>4, <3>5, <3>6, <3>7
  <2>. QED  BY <2>2, <2>3 DEF FoldedGraph
<1>. QED  BY <1>3, <1>4

------------------------------------------------------------------------------
Serialised == {e \in trial_elements : Deps(e, {"Exclusive"}) # {}}

Notices == IF trial_elements = {} THEN {}
           ELSE {TrialStart(t) : t \in Trials} \cup {TrialEnd(t) : t \in Trials}

WrappedSteps == FoldedSteps \cup Notices

NoticeEdge(s, d) ==
  /\ trial_elements # {}
  /\ \E t \in Trials :
       \/ \E e \in trial_elements : s = Activate(e, t) /\ d = TrialStart(t)
       \/ \E e \in NonTrialElements : s = Deactivate(e, GroupLast(e, t)) /\ d = TrialEnd(t)
       \/ \E e \in NonTrialElements : s = TrialStart(t) /\ d = UpStep(e, t)
       \/ \E e \in trial_elements \ OnLifeline : s = TrialEnd(t) /\ d = Deactivate(e, t)

BridgeEdge(s, d) == Serialised # {} /\ \E t \in Later : s = TrialStart(t) /\ d = TrialEnd(t - 1)

(* What the bridges replace. *)
DirectEdge(s, d) == \E e \in Serialised, t \in Later : s = Activate(e, t) /\ d = Deactivate(e, t - 1)

Routed(s, d) ==
  /\ FoldedEdge(s, d) \/ NoticeEdge(s, d) \/ BridgeEdge(s, d)
  /\ ~DirectEdge(s, d)

WrappedGraph(g) ==
  /\ DOMAIN g = WrappedSteps
  /\ \A s \in WrappedSteps : \A d : d \in g[s] <=> FoldedEdge(s, d) \/ NoticeEdge(s, d)

RoutedGraph(g) ==
  /\ DOMAIN g = WrappedSteps
  /\ \A s \in WrappedSteps : \A d : d \in g[s] <=> Routed(s, d)

LEMMA AddedTo ==
  ASSUME NEW g, NEW edges
  PROVE  /\ DOMAIN add_dependencies(g, edges) = DOMAIN g
         /\ \A s \in DOMAIN g : \A d :
              d \in add_dependencies(g, edges)[s] <=> d \in g[s] \/ \E e \in edges : e[1] = s /\ e[2] = d
BY DEF add_dependencies

LEMMA PairIn ==
  ASSUME NEW S, \A f \in S : f = <<f[1], f[2]>>, NEW s, NEW d
  PROVE  (\E e \in S : e[1] = s /\ e[2] = d) <=> <<s, d>> \in S
<1>1. ASSUME NEW e \in S, e[1] = s, e[2] = d PROVE <<s, d>> \in S
  <2>1. e = <<e[1], e[2]>>
    OBVIOUS
  <2>. QED  BY <1>1, <2>1
<1>2. <<s, d>>[1] = s /\ <<s, d>>[2] = d
  OBVIOUS
<1>. QED  BY <1>1, <1>2

LEMMA JoinedFrom ==
  ASSUME NEW f, NEW g
  PROVE  /\ DOMAIN Joined(f, g) = DOMAIN f \cup DOMAIN g
         /\ \A s \in DOMAIN f : Joined(f, g)[s] = f[s]
         /\ \A s \in DOMAIN g : s \notin DOMAIN f => Joined(f, g)[s] = g[s]
BY DEF Joined

LEMMA KindsOf ==
  /\ \A e, t : Activate(e, t).kind = "activate" /\ Deactivate(e, t).kind = "deactivate"
  /\ \A e, t, u : (Activate(e, t) = Activate(e, u) => t = u) /\ (Deactivate(e, t) = Deactivate(e, u) => t = u)
  /\ \A t : TrialStart(t).kind = "trial_start" /\ TrialEnd(t).kind = "trial_end"
  /\ \A t : TrialStart(t).trial = t /\ TrialEnd(t).trial = t
  /\ Start.kind = "start" /\ End.kind = "end"
BY DEF Activate, Deactivate, TrialStart, TrialEnd, Start, End, Step

LEMMA NotificationsMake ==
  ASSUME Shape, FoldedGraph(depends_on), apply_trial_notifications
  PROVE  WrappedGraph(depends_on')
<1>. DEFINE begin == [s \in {TrialStart(t) : t \in Trials} |->
                        {current(Activate(e, s.trial)) : e \in NonTrialElements} \cap DOMAIN depends_on]
            finish == [s \in {TrialEnd(t) : t \in Trials} |->
                         {Deactivate(e, s.trial) : e \in trial_elements} \cap DOMAIN depends_on]
            edges == {<<Activate(e, t), TrialStart(t)>> : e \in trial_elements, t \in Trials} \cup HoldEdges
            old == add_dependencies(depends_on, edges)
            more == Joined(begin, finish)
<1>1. plan \in Plans /\ Levelled
  BY DEF Shape, apply_trial_notifications, Pass, ToExpand
<1>2. DOMAIN depends_on = FoldedSteps /\ \A s \in FoldedSteps : \A d : d \in depends_on[s] <=> FoldedEdge(s, d)
  BY DEF FoldedGraph
<1>3. CASE trial_elements = {}
  <2>1. depends_on' = depends_on
    BY <1>3 DEF apply_trial_notifications
  <2>. QED  BY <1>2, <1>3, <2>1 DEF WrappedGraph, WrappedSteps, Notices, NoticeEdge
<1>4. CASE trial_elements # {}
  <2>1. depends_on' = Joined(old, more)
    BY <1>4 DEF apply_trial_notifications
  <2>2. /\ DOMAIN begin = {TrialStart(t) : t \in Trials} /\ DOMAIN finish = {TrialEnd(t) : t \in Trials}
        /\ DOMAIN begin \cap DOMAIN finish = {}
    BY KindsOf
  <2>3. /\ DOMAIN old = FoldedSteps
        /\ \A s \in FoldedSteps : \A d :
             d \in old[s] <=> FoldedEdge(s, d) \/ \E e \in edges : e[1] = s /\ e[2] = d
    <3>. HIDE DEF edges
    <3>. QED  BY <1>2, AddedTo
  <2>4. /\ DOMAIN more = Notices
        /\ \A s \in DOMAIN begin : more[s] = begin[s]
        /\ \A s \in DOMAIN finish : more[s] = finish[s]
    <3>1. Notices = DOMAIN begin \cup DOMAIN finish
      BY <1>4 DEF Notices
    <3>2. \A s \in DOMAIN finish : s \notin DOMAIN begin
      BY <2>2
    <3>. HIDE DEF begin, finish
    <3>3. /\ DOMAIN more = DOMAIN begin \cup DOMAIN finish
          /\ \A s \in DOMAIN begin : more[s] = begin[s]
          /\ \A s \in DOMAIN finish : s \notin DOMAIN begin => more[s] = finish[s]
      BY JoinedFrom
    <3>. QED  BY <3>1, <3>2, <3>3
  <2>5. \A s \in FoldedSteps : s.kind \in {"activate", "deactivate"}
    BY <1>1, FoldedStepsAre
  <2>6. FoldedSteps \cap Notices = {}
    BY <2>5, KindsOf DEF Notices
  <2>7. /\ DOMAIN depends_on' = WrappedSteps
        /\ \A s \in FoldedSteps : depends_on'[s] = old[s]
        /\ \A s \in DOMAIN begin : depends_on'[s] = begin[s]
        /\ \A s \in DOMAIN finish : depends_on'[s] = finish[s]
    <3>1. DOMAIN begin \subseteq Notices /\ DOMAIN finish \subseteq Notices
      BY <1>4, <2>2 DEF Notices
    <3>. HIDE DEF begin, finish, old, more
    <3>. QED  BY <2>1, <2>3, <2>4, <2>6, <3>1, JoinedFrom DEF WrappedSteps
  <2>8. ASSUME NEW s \in FoldedSteps, NEW d
        PROVE  d \in depends_on'[s] <=> FoldedEdge(s, d) \/ NoticeEdge(s, d)
    <3>1. (\E e \in edges : e[1] = s /\ e[2] = d) <=>
            \/ \E e \in trial_elements, t \in Trials : s = Activate(e, t) /\ d = TrialStart(t)
            \/ \E e \in NonTrialElements, t \in Trials : s = Deactivate(e, GroupLast(e, t)) /\ d = TrialEnd(t)
      <4>1. \A f : f \in edges <=>
               \/ \E e \in trial_elements, t \in Trials : f = <<Activate(e, t), TrialStart(t)>>
               \/ \E e \in NonTrialElements, t \in Trials : f = <<Deactivate(e, GroupLast(e, t)), TrialEnd(t)>>
        BY DEF HoldEdges
      <4>2. \A f \in edges : f = <<f[1], f[2]>>
        BY <4>1
      <4>3. <<s, d>> \in edges <=>
               \/ \E e \in trial_elements, t \in Trials : s = Activate(e, t) /\ d = TrialStart(t)
               \/ \E e \in NonTrialElements, t \in Trials : s = Deactivate(e, GroupLast(e, t)) /\ d = TrialEnd(t)
        <5>. HIDE DEF edges
        <5>. QED  BY <4>1
      <4>. HIDE DEF edges
      <4>. QED  BY <4>2, <4>3, PairIn
    <3>2. \A t : s # TrialStart(t) /\ s # TrialEnd(t)
      BY <2>5, KindsOf
    <3>. HIDE DEF edges, old
    <3>. QED  BY <1>4, <2>3, <2>7, <3>1, <3>2 DEF NoticeEdge
  <2>9. \A s, d : FoldedEdge(s, d) => s \in FoldedSteps
    <3>1. ASSUME NEW s, NEW d, <<s, d>> \in FoldedEdges PROVE s \in FoldedSteps
      <4>1. <<s, d>>[1] \in FoldedSteps
        BY <1>1, <3>1, FoldedTyped
      <4>. QED  BY <4>1
    <3>. QED  BY <3>1 DEF FoldedEdge
  <2>10. \A e \in Elements, t \in Trials : current(Activate(e, t)) = UpStep(e, t) /\ UpStep(e, t) \in FoldedSteps
    BY <1>1, SettledSteps, FoldedStepsAre
  <2>11. ASSUME NEW t \in Trials, NEW d
         PROVE  /\ d \in depends_on'[TrialStart(t)] <=>
                     FoldedEdge(TrialStart(t), d) \/ NoticeEdge(TrialStart(t), d)
                /\ d \in depends_on'[TrialEnd(t)] <=>
                     FoldedEdge(TrialEnd(t), d) \/ NoticeEdge(TrialEnd(t), d)
    <3>1. ~FoldedEdge(TrialStart(t), d) /\ ~FoldedEdge(TrialEnd(t), d)
      BY <2>5, <2>9, KindsOf
    <3>2. NonTrialElements \subseteq Elements
      BY DEF NonTrialElements
    <3>3. d \in begin[TrialStart(t)] <=> \E e \in NonTrialElements : d = UpStep(e, t)
      <4>1. TrialStart(t).trial = t
        BY KindsOf
      <4>2. begin[TrialStart(t)] = {current(Activate(e, t)) : e \in NonTrialElements} \cap DOMAIN depends_on
        BY <4>1
      <4>. HIDE DEF begin
      <4>. QED  BY <1>2, <2>10, <3>2, <4>2
    <3>4. d \in finish[TrialEnd(t)] <=> \E e \in trial_elements \ OnLifeline : d = Deactivate(e, t)
      <4>1. TrialEnd(t).trial = t
        BY KindsOf
      <4>2. finish[TrialEnd(t)] = {Deactivate(e, t) : e \in trial_elements} \cap DOMAIN depends_on
        BY <4>1
      <4>3. \A e \in trial_elements : e \in Elements /\ Ends(e, t) = t
        BY <1>1, TrialElementsAre DEF Ends, NonTrialElements
      <4>4. \A e \in trial_elements : Deactivate(e, t) \in FoldedSteps <=> e \notin OnLifeline
        BY <1>1, <4>3, FoldedStepsAre
      <4>. HIDE DEF finish
      <4>. QED  BY <1>2, <4>2, <4>4
    <3>5. /\ depends_on'[TrialStart(t)] = begin[TrialStart(t)]
          /\ depends_on'[TrialEnd(t)] = finish[TrialEnd(t)]
      <4>. HIDE DEF old
      <4>. QED  BY <2>2, <2>7
    <3>6. NoticeEdge(TrialStart(t), d) <=> \E e \in NonTrialElements : d = UpStep(e, t)
      BY <1>4, KindsOf DEF NoticeEdge
    <3>7. NoticeEdge(TrialEnd(t), d) <=> \E e \in trial_elements \ OnLifeline : d = Deactivate(e, t)
      BY <1>4, KindsOf DEF NoticeEdge
    <3>. HIDE DEF begin, finish
    <3>. QED  BY <3>1, <3>3, <3>4, <3>5, <3>6, <3>7
  <2>12. \A s \in Notices : \E t \in Trials : s = TrialStart(t) \/ s = TrialEnd(t)
    BY <1>4 DEF Notices
  <2>13. ASSUME NEW s \in WrappedSteps, NEW d PROVE d \in depends_on'[s] <=> FoldedEdge(s, d) \/ NoticeEdge(s, d)
    BY <2>8, <2>11, <2>12 DEF WrappedSteps
  <2>. QED  BY <2>7, <2>13 DEF WrappedGraph
<1>. QED  BY <1>3, <1>4

LEMMA ReroutingMakes ==
  ASSUME Shape, WrappedGraph(depends_on), apply_exclusive_rerouting
  PROVE  RoutedGraph(depends_on')
<1>. DEFINE direct == {<<Activate(e, t), Deactivate(e, t - 1)>> : e \in Serialised, t \in Later}
            added == add_dependencies(depends_on, Bridges)
<1>1. /\ DOMAIN depends_on = WrappedSteps
      /\ \A s \in WrappedSteps : \A d : d \in depends_on[s] <=> FoldedEdge(s, d) \/ NoticeEdge(s, d)
  BY DEF WrappedGraph
<1>2. CASE Serialised = {}
  <2>1. depends_on' = depends_on
    BY <1>2 DEF apply_exclusive_rerouting, Serialised
  <2>2. \A s, d : Routed(s, d) <=> FoldedEdge(s, d) \/ NoticeEdge(s, d)
    BY <1>2 DEF Routed, BridgeEdge, DirectEdge
  <2>. QED  BY <1>1, <2>1, <2>2 DEF RoutedGraph
<1>3. CASE Serialised # {}
  <2>1. depends_on' = remove_dependencies(added, direct)
    BY <1>3 DEF apply_exclusive_rerouting, Serialised
  <2>2. /\ DOMAIN added = WrappedSteps
        /\ \A s \in WrappedSteps : \A d :
             d \in added[s] <=> d \in depends_on[s] \/ \E e \in Bridges : e[1] = s /\ e[2] = d
    BY <1>1, AddedTo
  <2>3. /\ DOMAIN depends_on' = WrappedSteps
        /\ \A s \in WrappedSteps : \A d :
             d \in depends_on'[s] <=> d \in added[s] /\ ~\E e \in direct : e[1] = s /\ e[2] = d
    <3>. HIDE DEF added, direct
    <3>. QED  BY <2>1, <2>2, RemovedEdges
  <2>4. \A s, d : (\E e \in Bridges : e[1] = s /\ e[2] = d) <=> BridgeEdge(s, d)
    <3>1. \A s, d : (\E e \in Bridges : e[1] = s /\ e[2] = d) <=> <<s, d>> \in Bridges
      <4>1. \A f \in Bridges : f = <<f[1], f[2]>>
        BY DEF Bridges
      <4>. QED  BY <4>1, PairIn
    <3>2. \A s, d : <<s, d>> \in Bridges <=> \E t \in Later : s = TrialStart(t) /\ d = TrialEnd(t - 1)
      BY DEF Bridges
    <3>3. \A s, d : BridgeEdge(s, d) <=> \E t \in Later : s = TrialStart(t) /\ d = TrialEnd(t - 1)
      BY <1>3 DEF BridgeEdge
    <3>4. \A s, d : <<s, d>> \in Bridges <=> BridgeEdge(s, d)
      BY <3>2, <3>3
    <3>. QED  BY <3>1, <3>4
  <2>5. \A s, d : (\E e \in direct : e[1] = s /\ e[2] = d) <=> DirectEdge(s, d)
    <3>1. \A s, d : <<s, d>> \in direct <=> DirectEdge(s, d)
      BY DEF DirectEdge
    <3>2. \A f \in direct : f = <<f[1], f[2]>>
      OBVIOUS
    <3>. HIDE DEF direct
    <3>3. \A s, d : (\E e \in direct : e[1] = s /\ e[2] = d) <=> <<s, d>> \in direct
      BY <3>2, PairIn
    <3>. QED  BY <3>1, <3>3
  <2>. HIDE DEF added, direct
  <2>. QED  BY <1>1, <2>2, <2>3, <2>4, <2>5 DEF RoutedGraph, Routed
<1>. QED  BY <1>2, <1>3

------------------------------------------------------------------------------
LEMMA WrappedAre ==
  ASSUME plan \in Plans, Levelled
  PROVE  /\ WrappedSteps \subseteq RealSteps
         /\ \A s \in WrappedSteps : s.kind \in {"activate", "deactivate", "trial_start", "trial_end"}
         /\ trial_elements # {} => \A t \in Trials : TrialStart(t) \in WrappedSteps /\ TrialEnd(t) \in WrappedSteps
         /\ FoldedSteps \subseteq WrappedSteps
<1>1. \A t \in Trials : TrialStart(t) \in RealSteps /\ TrialEnd(t) \in RealSteps
  <2>1. 1 \in Elements \/ Elements = {}
    BY ElementsAssumption, FS_CardinalityType
  <2>2. \A t \in Trials : TrialStart(t) \in AllSteps /\ TrialEnd(t) \in AllSteps
    BY DEF AllSteps, TrialStart, TrialEnd, Step, Kinds
  <2>. QED  BY <2>2, KindsOf DEF RealSteps
<1>2. FoldedSteps \subseteq RealSteps /\ \A s \in FoldedSteps : s.kind \in {"activate", "deactivate"}
  BY FoldedStepsAre
<1>. QED  BY <1>1, <1>2, KindsOf DEF WrappedSteps, Notices

LEMMA FoldedEdgeIs ==
  ASSUME plan \in Plans, Levelled, NEW s, NEW d, FoldedEdge(s, d)
  PROVE  /\ s \in FoldedSteps /\ d \in FoldedSteps \cup {Start}
         /\ Consistent => s \in RealSteps /\ d \in RealSteps /\ Follows(s, d)
<1>. DEFINE f == <<s, d>>
<1>1. f \in FoldedEdges /\ f[1] = s /\ f[2] = d
  BY DEF FoldedEdge
<1>. HIDE DEF f
<1>2. f[1] \in FoldedSteps /\ f[2] \in FoldedSteps \cup {Start}
  BY <1>1, FoldedTyped
<1>3. Consistent => f[1] \in RealSteps /\ f[2] \in RealSteps /\ Follows(f[1], f[2])
  BY <1>1, FoldedFollows
<1>. QED  BY <1>1, <1>2, <1>3

(* Notifications and bridges respect the order, too. *)
LEMMA NoticeIs ==
  ASSUME plan \in Plans, Levelled, NEW s \in WrappedSteps, NEW d, NoticeEdge(s, d)
  PROVE  /\ d \in WrappedSteps
         /\ Consistent => Follows(s, d)
<1>1. PICK t \in Trials :
        \/ \E e \in trial_elements : s = Activate(e, t) /\ d = TrialStart(t)
        \/ \E e \in NonTrialElements : s = Deactivate(e, GroupLast(e, t)) /\ d = TrialEnd(t)
        \/ \E e \in NonTrialElements : s = TrialStart(t) /\ d = UpStep(e, t)
        \/ \E e \in trial_elements \ OnLifeline : s = TrialEnd(t) /\ d = Deactivate(e, t)
  BY DEF NoticeEdge
<1>2. trial_elements # {} /\ TrialStart(t) \in WrappedSteps /\ TrialEnd(t) \in WrappedSteps
  BY WrappedAre DEF NoticeEdge
<1>3. /\ TrialStart(t) \in RealSteps /\ Layer(TrialStart(t)) = 3
      /\ Phase(TrialStart(t)) = BeginPhase /\ TrialStart(t).trial = t
      /\ TrialEnd(t) \in RealSteps /\ Layer(TrialEnd(t)) = 3
      /\ Phase(TrialEnd(t)) = EndPhase /\ TrialEnd(t).trial = t
  <2>1. PICK e \in trial_elements : TRUE
    BY <1>2
  <2>2. e \in Elements
    BY TrialElementsAre
  <2>. QED  BY <2>2, RealStepsAre
<1>4. t \in Nat
  BY PlanTyped
<1>5. Consistent => \A p \in Phases : \A q \in OneTrial[p] : q \in Earlier(p)
  BY EarlierIsOrder DEF Consistent
<1>6. Consistent => /\ \A e \in trial_elements : BeginPhase \in Earlier(UpPhase(e))
                    /\ \A e \in NonTrialElements \ OnLifeline : EndPhase \in Earlier(DownPhase(e))
                    /\ \A e \in NonTrialElements : UpPhase(e) \in Earlier(BeginPhase)
                    /\ \A e \in trial_elements \ OnLifeline : DownPhase(e) \in Earlier(EndPhase)
  BY <1>5, TrialAsks, PhasesAre, TrialElementsAre DEF NonTrialElements
<1>7. ASSUME NEW e \in trial_elements, s = Activate(e, t), d = TrialStart(t)
      PROVE  d \in WrappedSteps /\ (Consistent => Follows(s, d))
  <2>1. e \in Elements
    BY TrialElementsAre
  <2>2. s \in RealSteps /\ Layer(s) = 3 /\ Phase(s) = UpPhase(e) /\ s.trial = t
    BY <1>7, <2>1, RealStepsAre
  <2>. QED  BY <1>2, <1>3, <1>4, <1>6, <1>7, <2>2, FollowsBy
<1>8. ASSUME NEW e \in NonTrialElements, s = Deactivate(e, GroupLast(e, t)), d = TrialEnd(t)
      PROVE  d \in WrappedSteps /\ (Consistent => Follows(s, d))
  <2>1. e \in Elements /\ GroupLast(e, t) = Ends(e, t)
    BY DEF NonTrialElements, Ends
  <2>2. Ends(e, t) \in Trials /\ t <= Ends(e, t)
    BY <2>1, GroupBounds
  <2>3. s \in RealSteps /\ Layer(s) = 3 /\ Phase(s) = DownPhase(e) /\ s.trial = Ends(e, t)
    BY <1>8, <2>1, <2>2, RealStepsAre
  <2>4. e \notin OnLifeline
    <3>1. s \in FoldedSteps
      BY <1>8, KindsOf DEF WrappedSteps, Notices
    <3>. QED  BY <1>8, <2>1, <2>2, <3>1, FoldedStepsAre
  <2>. QED  BY <1>2, <1>3, <1>4, <1>6, <1>8, <2>2, <2>3, <2>4, FollowsBy
<1>9. ASSUME NEW e \in NonTrialElements, s = TrialStart(t), d = UpStep(e, t)
      PROVE  d \in WrappedSteps /\ (Consistent => Follows(s, d))
  <2>1. e \in Elements
    BY DEF NonTrialElements
  <2>2. d \in RealSteps /\ Layer(d) = 3 /\ Phase(d) = UpPhase(e) /\ d.trial = Begins(e, t) /\ d \in FoldedSteps
    BY <1>9, <2>1, SettledTyped, FoldedStepsAre
  <2>3. Begins(e, t) <= t
    BY <2>1, GroupBounds
  <2>. QED  BY <1>2, <1>3, <1>4, <1>6, <1>9, <2>2, <2>3, FollowsBy DEF WrappedSteps
<1>10. ASSUME NEW e \in trial_elements \ OnLifeline, s = TrialEnd(t), d = Deactivate(e, t)
       PROVE  d \in WrappedSteps /\ (Consistent => Follows(s, d))
  <2>1. e \in Elements
    BY TrialElementsAre
  <2>2. d \in RealSteps /\ Layer(d) = 3 /\ Phase(d) = DownPhase(e) /\ d.trial = t
    BY <1>10, <2>1, RealStepsAre
  <2>3. Ends(e, t) = t
    BY <1>10 DEF Ends, NonTrialElements
  <2>4. d \in FoldedSteps
    BY <1>10, <2>1, <2>3, FoldedStepsAre
  <2>. QED  BY <1>2, <1>3, <1>4, <1>6, <1>10, <2>2, <2>4, FollowsBy DEF WrappedSteps
<1>. QED  BY <1>1, <1>7, <1>8, <1>9, <1>10

LEMMA RoutedIs ==
  ASSUME plan \in Plans, Levelled, Consistent, NEW s \in WrappedSteps, NEW d, Routed(s, d)
  PROVE  s \in RealSteps /\ d \in RealSteps /\ Follows(s, d) /\ d \in WrappedSteps \cup {Start}
<1>1. WrappedSteps \subseteq RealSteps
  BY WrappedAre
<1>2. CASE FoldedEdge(s, d)
  BY <1>2, FoldedEdgeIs DEF WrappedSteps
<1>3. CASE NoticeEdge(s, d)
  BY <1>1, <1>3, NoticeIs
<1>4. CASE BridgeEdge(s, d)
  <2>1. PICK t \in Later : s = TrialStart(t) /\ d = TrialEnd(t - 1)
    BY <1>4 DEF BridgeEdge
  <2>2. PICK e \in trial_elements : Deps(e, {"Exclusive"}) # {}
    BY <1>4 DEF BridgeEdge, Serialised
  <2>3. e \in Elements /\ Serial
    BY <2>2, TrialElementsAre DEF Serial
  <2>4. t \in Trials /\ t - 1 \in Trials /\ t \in Nat /\ t - 1 < t
    BY LaterTrials
  <2>5. d \in WrappedSteps
    BY <2>1, <2>2, <2>4, WrappedAre
  <2>6. Layer(s) = 3 /\ Layer(d) = 3 /\ s.trial = t /\ d.trial = t - 1
    BY <2>1, <2>3, <2>4, RealStepsAre
  <2>7. Follows(s, d)
    BY <2>3, <2>4, <2>6 DEF Follows, Later3, Turn
  <2>. QED  BY <1>1, <2>5, <2>7
<1>. QED  BY <1>2, <1>3, <1>4 DEF Routed

------------------------------------------------------------------------------
GatedSteps == {s \in WrappedSteps : s.kind = "activate" /\ s.element \in plan.health_check}

GateSteps == {Readiness(a) : a \in GatedSteps}

(* A gate is later than what it is for and earlier than who waits for it.  *)
LEMMA GateIs ==
  ASSUME plan \in Plans, Levelled, Consistent, NEW a \in GatedSteps
  PROVE  /\ Readiness(a) \in RealSteps /\ Readiness(a).kind = "ready"
         /\ [Readiness(a) EXCEPT !.kind = "activate"] = a
         /\ Follows(Readiness(a), a)
         /\ \A s \in WrappedSteps : Follows(s, a) => Follows(s, Readiness(a))
<1>. DEFINE r == Readiness(a)
<1>1. a \in RealSteps /\ a.kind = "activate" /\ a \in AllSteps
  BY WrappedAre DEF GatedSteps, RealSteps
<1>2. /\ r \in AllSteps /\ r.kind = "ready" /\ r.element = a.element /\ r.owner = a.owner /\ r.trial = a.trial
      /\ [r EXCEPT !.kind = "activate"] = a
  BY <1>1 DEF AllSteps, Kinds, Readiness
<1>3. r \in RealSteps
  BY <1>1, <1>2 DEF RealSteps
<1>. HIDE DEF r
<1>4. Turn(r) = Turn(a) /\ Phase(r) = Phase(a)
  BY <1>1, <1>2 DEF Turn, Phase
<1>5. \/ a.owner # 0 /\ Layer(a) = 1 /\ Layer(r) = 2
      \/ a.owner = 0 /\ Layer(a) = 3 /\ Layer(r) = 3
  BY <1>1, <1>2 DEF Layer
<1>6. Follows(r, a)
  BY <1>1, <1>2, <1>4, <1>5 DEF Follows, Later3
<1>7. ASSUME NEW s \in WrappedSteps, Follows(s, a) PROVE Follows(s, r)
  <2>1. s.kind # "ready"
    BY WrappedAre
  <2>2. Layer(s) \in {0, 1, 3, 4, 5}
    BY <2>1 DEF Layer
  <2>. QED  BY <1>2, <1>4, <1>5, <1>7, <2>1, <2>2 DEF Follows, Later3
<1>. QED  BY <1>2, <1>3, <1>6, <1>7 DEF r

------------------------------------------------------------------------------
Ordered(g) == DOMAIN g \subseteq RealSteps /\ \A s \in DOMAIN g : \A d \in g[s] : d \in RealSteps /\ Follows(s, d)

(* What was asked for is there, perhaps behind a gate. *)
Direct(g) ==
  /\ \A s \in WrappedSteps : \A c : Routed(s, c) => c \in g[s] \/ (c \in GatedSteps /\ Readiness(c) \in g[s])
  /\ \A s \in WrappedSteps : \A c \in GatedSteps : s.kind = "activate" /\ Routed(s, c) => Readiness(c) \in g[s]
  /\ \A a \in GatedSteps : a \in g[Readiness(a)]

GatedGraph(g) ==
  /\ DOMAIN g = WrappedSteps \cup GateSteps /\ Ordered(g) /\ Direct(g)
  /\ \A s \in DOMAIN g : g[s] \subseteq DOMAIN g \cup {Start}

FinalSteps == WrappedSteps \cup GateSteps \cup {Start, End}

FinalGraph(g) == DOMAIN g = FinalSteps /\ Ordered(g) /\ \A s \in FinalSteps : g[s] \subseteq FinalSteps

LEMMA GatesMake ==
  ASSUME Shape, RoutedGraph(depends_on), Consistent, apply_readiness_gates
  PROVE  GatedGraph(depends_on')
<1>. DEFINE behind == [s \in DOMAIN depends_on |-> {BehindGate(s, d) : d \in depends_on[s]}]
            gates == [s \in {Readiness(a) : a \in Gated} |-> {[s EXCEPT !.kind = "activate"]}]
            W == WrappedSteps
            h == depends_on'
<1>1. plan \in Plans /\ Levelled
  BY DEF Shape, apply_readiness_gates, Pass, ToExpand
<1>2. DOMAIN depends_on = W /\ \A s \in W : \A d : d \in depends_on[s] <=> Routed(s, d)
  BY DEF RoutedGraph
<1>3. h = Joined(behind, gates)
  BY DEF apply_readiness_gates
<1>4. Gated = GatedSteps
  BY <1>2 DEF Gated, GatedSteps
<1>5. DOMAIN behind = W /\ DOMAIN gates = GateSteps
  BY <1>2, <1>4 DEF GateSteps
<1>6. \A s \in GateSteps : s \notin W
  BY <1>1, GateIs, WrappedAre DEF GateSteps
<1>7. /\ DOMAIN h = W \cup GateSteps
      /\ \A s \in W : h[s] = behind[s]
      /\ \A s \in GateSteps : h[s] = gates[s]
  <2>. HIDE DEF behind, gates, W, h
  <2>1. /\ DOMAIN Joined(behind, gates) = DOMAIN behind \cup DOMAIN gates
        /\ \A s \in DOMAIN behind : Joined(behind, gates)[s] = behind[s]
        /\ \A s \in DOMAIN gates : s \notin DOMAIN behind => Joined(behind, gates)[s] = gates[s]
    BY JoinedFrom
  <2>. QED  BY <1>3, <1>5, <1>6, <2>1
<1>8. ASSUME NEW a \in GatedSteps PROVE h[Readiness(a)] = {a}
  <2>1. Readiness(a) \in GateSteps
    BY DEF GateSteps
  <2>2. gates[Readiness(a)] = {[Readiness(a) EXCEPT !.kind = "activate"]}
    BY <1>4
  <2>. HIDE DEF gates, h
  <2>. QED  BY <1>1, <1>7, <2>1, <2>2, GateIs
<1>9. ASSUME NEW s \in W, NEW d
      PROVE  d \in h[s] <=> \E c : Routed(s, c) /\ d = IF c \in GatedSteps /\ ~Exempt(s) THEN Readiness(c) ELSE c
  <2>1. behind[s] = {BehindGate(s, c) : c \in depends_on[s]}
    BY <1>2
  <2>2. h[s] = {BehindGate(s, c) : c \in depends_on[s]}
    <3>. HIDE DEF behind, h
    <3>. QED  BY <1>7, <2>1
  <2>. HIDE DEF h
  <2>. QED  BY <1>2, <1>4, <2>2 DEF BehindGate
<1>. HIDE DEF h, behind, gates
<1>10. \A s \in W : \A c : Routed(s, c) => s \in RealSteps /\ c \in RealSteps /\ Follows(s, c) /\ c \in W \cup {Start}
  BY <1>1, RoutedIs
<1>11. \A s \in W : s \in RealSteps
  BY <1>1, WrappedAre
<1>12. ASSUME NEW s \in W, NEW d \in h[s]
       PROVE  d \in RealSteps /\ Follows(s, d) /\ d \in W \cup GateSteps \cup {Start}
  <2>1. PICK c : Routed(s, c) /\ d = IF c \in GatedSteps /\ ~Exempt(s) THEN Readiness(c) ELSE c
    BY <1>9
  <2>2. CASE c \in GatedSteps /\ ~Exempt(s)
    BY <1>1, <1>10, <2>1, <2>2, GateIs DEF GateSteps
  <2>3. CASE ~(c \in GatedSteps /\ ~Exempt(s))
    BY <1>10, <2>1, <2>3
  <2>. QED  BY <2>2, <2>3
<1>13. ASSUME NEW s \in GateSteps, NEW d \in h[s]
       PROVE  s \in RealSteps /\ d \in RealSteps /\ Follows(s, d) /\ d \in W
  <2>1. PICK a \in GatedSteps : s = Readiness(a)
    BY DEF GateSteps
  <2>2. d = a /\ a \in W
    BY <1>8, <2>1 DEF GatedSteps
  <2>. QED  BY <1>1, <1>11, <2>1, <2>2, GateIs
<1>14. Ordered(h)
  <2>1. GateSteps \subseteq RealSteps
    BY <1>1, GateIs DEF GateSteps
  <2>. QED  BY <1>7, <1>11, <1>12, <1>13, <2>1 DEF Ordered
<1>15. Direct(h)
  <2>1. ASSUME NEW s \in W, NEW c, Routed(s, c)
        PROVE  c \in h[s] \/ (c \in GatedSteps /\ Readiness(c) \in h[s])
    BY <1>9, <2>1
  <2>2. ASSUME NEW s \in W, NEW c \in GatedSteps, s.kind = "activate", Routed(s, c)
        PROVE  Readiness(c) \in h[s]
    <3>1. ~Exempt(s)
      BY <2>2 DEF Exempt
    <3>. QED  BY <1>9, <2>2, <3>1
  <2>. QED  BY <1>8, <2>1, <2>2 DEF Direct
<1>16. \A s \in DOMAIN h : h[s] \subseteq DOMAIN h \cup {Start}
  BY <1>7, <1>12, <1>13
<1>. QED  BY <1>7, <1>14, <1>15, <1>16 DEF GatedGraph, h

LEMMA SentinelsMake ==
  ASSUME Shape, GatedGraph(depends_on), Consistent, AddSentinels
  PROVE  FinalGraph(depends_on') /\ Direct(depends_on')
<1>. DEFINE awaited == UNION {depends_on[s] : s \in DOMAIN depends_on}
            ends == [s \in {Start, End} |-> IF s = Start THEN {} ELSE DOMAIN depends_on \ awaited]
            h == depends_on'
            D == DOMAIN depends_on
<1>1. plan \in Plans /\ Levelled
  BY DEF Shape, AddSentinels, Pass, ToExpand
<1>2. /\ D = WrappedSteps \cup GateSteps /\ Ordered(depends_on) /\ Direct(depends_on)
      /\ \A s \in D : depends_on[s] \subseteq D \cup {Start}
  BY DEF GatedGraph
<1>3. h = Joined(depends_on, ends)
  BY DEF AddSentinels
<1>4. \A s \in D : s.kind \in {"activate", "deactivate", "trial_start", "trial_end", "ready"}
  <2>1. \A s \in GateSteps : s.kind = "ready"
    BY <1>1, GateIs DEF GateSteps
  <2>2. \A s \in WrappedSteps : s.kind \in {"activate", "deactivate", "trial_start", "trial_end"}
    BY <1>1, WrappedAre
  <2>. QED  BY <1>2, <2>1, <2>2
<1>5. Start \notin D /\ End \notin D /\ Start # End
  BY <1>4, KindsOf
<1>6. DOMAIN ends = {Start, End} /\ ends[Start] = {} /\ ends[End] \subseteq D
  BY <1>5
<1>7. /\ DOMAIN h = FinalSteps
      /\ \A s \in D : h[s] = depends_on[s]
      /\ h[Start] = {} /\ h[End] \subseteq D
  <2>. HIDE DEF ends, h
  <2>1. /\ DOMAIN Joined(depends_on, ends) = DOMAIN depends_on \cup DOMAIN ends
        /\ \A s \in DOMAIN depends_on : Joined(depends_on, ends)[s] = depends_on[s]
        /\ \A s \in DOMAIN ends : s \notin DOMAIN depends_on => Joined(depends_on, ends)[s] = ends[s]
    BY JoinedFrom
  <2>. QED  BY <1>2, <1>3, <1>5, <1>6, <2>1 DEF FinalSteps
<1>. HIDE DEF h, ends
<1>8. /\ Start \in RealSteps /\ End \in RealSteps /\ Layer(End) = 5
      /\ \A d \in D : d \in RealSteps /\ Layer(d) \in {0, 1, 2, 3, 4}
  <2>1. \A d \in D : Layer(d) \in {0, 1, 2, 3, 4}
    BY <1>4 DEF Layer
  <2>2. Start \in AllSteps /\ End \in AllSteps
    BY <1>1, PlanTyped DEF AllSteps, Kinds, Start, End, Step
  <2>. QED  BY <1>2, <2>1, <2>2, KindsOf DEF Ordered, RealSteps, Layer, End, Step
<1>9. Ordered(h)
  <2>1. \A d \in h[End] : d \in RealSteps /\ Follows(End, d)
    BY <1>7, <1>8 DEF Follows
  <2>2. \A s \in D : \A d \in h[s] : d \in RealSteps /\ Follows(s, d)
    BY <1>2, <1>7 DEF Ordered
  <2>3. FinalSteps = D \cup {Start, End} /\ FinalSteps \subseteq RealSteps
    BY <1>2, <1>8 DEF FinalSteps
  <2>. QED  BY <1>7, <2>1, <2>2, <2>3 DEF Ordered
<1>10. \A s \in FinalSteps : h[s] \subseteq FinalSteps
  <2>1. FinalSteps = D \cup {Start, End}
    BY <1>2 DEF FinalSteps
  <2>. QED  BY <1>2, <1>7, <2>1
<1>11. Direct(h)
  <2>1. \A s \in WrappedSteps : h[s] = depends_on[s]
    BY <1>2, <1>7
  <2>2. \A a \in GatedSteps : h[Readiness(a)] = depends_on[Readiness(a)]
    BY <1>2, <1>7 DEF GateSteps
  <2>. QED  BY <1>2, <2>1, <2>2 DEF Direct
<1>. QED  BY <1>7, <1>9, <1>10, <1>11 DEF FinalGraph, h

------------------------------------------------------------------------------
(* All this depends on the plan alone. *)
LEMMA RootStays ==
  ASSUME plan' = plan
  PROVE  \A e : lifeline_root_of(e)' = lifeline_root_of(e)
BY DEF lifeline_root_of, LifelineTarget, Lifelines

LEMMA StepsStay ==
  ASSUME Analysed
  PROVE  /\ OnLifeline' = OnLifeline /\ NonTrialElements' = NonTrialElements
         /\ \A e, t : GroupFirst(e, t)' = GroupFirst(e, t) /\ GroupLast(e, t)' = GroupLast(e, t)
         /\ \A e, t : UpStep(e, t)' = UpStep(e, t)
         /\ \A x, kinds : Deps(x, kinds)' = Deps(x, kinds)
         /\ KeptSteps' = KeptSteps /\ FoldedSteps' = FoldedSteps /\ FoldedEdges' = FoldedEdges
         /\ \A s : Collapsed(s)' = Collapsed(s)
<1>1. plan' = plan /\ level' = level /\ trial_elements' = trial_elements
  BY DEF Analysed
<1>2. \A e : lifeline_root_of(e)' = lifeline_root_of(e)
  BY <1>1, RootStays
<1>3. OnLifeline' = OnLifeline /\ NonTrialElements' = NonTrialElements
  BY <1>1, <1>2 DEF OnLifeline, NonTrialElements
<1>4. Trials' = Trials
  BY <1>1 DEF Trials
<1>5. \A e, t : GroupFirst(e, t)' = GroupFirst(e, t) /\ GroupLast(e, t)' = GroupLast(e, t)
  BY <1>1, <1>4 DEF GroupFirst, GroupLast
<1>6. \A e, t : UpStep(e, t)' = UpStep(e, t)
  BY <1>3, <1>5 DEF UpStep, Begins, Activate, Step
<1>7. \A s : Collapsed(s)' = Collapsed(s)
  BY <1>2 DEF Collapsed
<1>8. \A s : current(s)' = current(s)
  BY <1>3, <1>5 DEF current
<1>9. KeptSteps' = KeptSteps /\ FoldedSteps' = FoldedSteps
  BY <1>7, <1>8, AskedStays DEF KeptSteps, FoldedSteps
<1>10. FoldedEdges' = FoldedEdges
  BY <1>7, <1>8, AskedStays DEF FoldedEdges, Settled
<1>. QED  BY <1>1, <1>3, <1>5, <1>6, <1>7, <1>9, <1>10 DEF Deps

LEMMA OrderStays ==
  ASSUME Analysed
  PROVE  /\ Consistent' <=> Consistent
         /\ RealSteps' = RealSteps
         /\ \A s, d : Follows(s, d)' <=> Follows(s, d)
<1>1. plan' = plan /\ level' = level /\ trial_elements' = trial_elements
  BY DEF Analysed
<1>2. /\ OnLifeline' = OnLifeline /\ NonTrialElements' = NonTrialElements
      /\ \A x, kinds : Deps(x, kinds)' = Deps(x, kinds)
      /\ \A e : lifeline_root_of(e)' = lifeline_root_of(e)
  BY <1>1, StepsStay, RootStays
<1>3. OneTrial' = OneTrial
  BY <1>1, <1>2 DEF OneTrial
<1>4. \A x : Aligned(x)' <=> Aligned(x)
  BY <1>1, <1>2 DEF Aligned, Covers, Lasting
<1>5. Consistent' <=> Consistent
  BY <1>1, <1>2, <1>3, <1>4 DEF Consistent
<1>6. RealSteps' = RealSteps
  BY AskedStays DEF RealSteps
<1>7. \A p : Earlier(p)' = Earlier(p)
  BY <1>3 DEF Earlier
<1>8. \A s : Turn(s)' = Turn(s)
  BY <1>2 DEF Turn, Serial
<1>9. \A s, d : Follows(s, d)' <=> Follows(s, d)
  BY <1>7, <1>8 DEF Follows, Later3, Layer, Phase, UpPhase, DownPhase, BeginPhase, EndPhase
<1>. QED  BY <1>5, <1>6, <1>9

LEMMA GraphsStay ==
  ASSUME Analysed, NEW g
  PROVE  /\ CollapsedGraph(g)' <=> CollapsedGraph(g)
         /\ FoldedGraph(g)' <=> FoldedGraph(g)
         /\ WrappedGraph(g)' <=> WrappedGraph(g)
         /\ RoutedGraph(g)' <=> RoutedGraph(g)
         /\ GatedGraph(g)' <=> GatedGraph(g)
         /\ FinalGraph(g)' <=> FinalGraph(g)
         /\ Direct(g)' <=> Direct(g)
<1>1. plan' = plan /\ level' = level /\ trial_elements' = trial_elements
  BY DEF Analysed
<1>2. Trials' = Trials /\ Later' = Later
  BY <1>1 DEF Trials, Later
<1>3. \A s, d : /\ AskedEdge(s, d)' <=> AskedEdge(s, d)
                /\ FoldedEdge(s, d)' <=> FoldedEdge(s, d)
  BY AskedStays, StepsStay DEF AskedEdge, FoldedEdge
<1>4. \A s, d : /\ NoticeEdge(s, d)' <=> NoticeEdge(s, d)
                /\ BridgeEdge(s, d)' <=> BridgeEdge(s, d)
                /\ DirectEdge(s, d)' <=> DirectEdge(s, d)
  BY <1>1, <1>2, StepsStay DEF NoticeEdge, BridgeEdge, DirectEdge, Serialised, Activate, Deactivate,
     TrialStart, TrialEnd, Step
<1>5. \A s, d : Routed(s, d)' <=> Routed(s, d)
  BY <1>3, <1>4 DEF Routed
<1>6. WrappedSteps' = WrappedSteps
  BY <1>1, <1>2, StepsStay DEF WrappedSteps, Notices, TrialStart, TrialEnd, Step
<1>7. GatedSteps' = GatedSteps /\ GateSteps' = GateSteps /\ FinalSteps' = FinalSteps
  BY <1>1, <1>6 DEF GatedSteps, GateSteps, FinalSteps, Readiness, Start, End, Step
<1>8. Ordered(g)' <=> Ordered(g)
  BY OrderStays DEF Ordered
<1>9. Direct(g)' <=> Direct(g)
  BY <1>5, <1>6, <1>7 DEF Direct, Readiness
<1>10. CollapsedGraph(g)' <=> CollapsedGraph(g)
  BY <1>3, StepsStay DEF CollapsedGraph
<1>11. FoldedGraph(g)' <=> FoldedGraph(g)
  BY <1>3, StepsStay DEF FoldedGraph
<1>12. WrappedGraph(g)' <=> WrappedGraph(g)
  BY <1>3, <1>4, <1>6 DEF WrappedGraph
<1>13. RoutedGraph(g)' <=> RoutedGraph(g)
  BY <1>5, <1>6 DEF RoutedGraph
<1>14. GatedGraph(g)' <=> GatedGraph(g)
  BY <1>6, <1>7, <1>8, <1>9 DEF GatedGraph, Start, Step
<1>15. FinalGraph(g)' <=> FinalGraph(g)
  BY <1>7, <1>8 DEF FinalGraph
<1>. QED  BY <1>9, <1>10, <1>11, <1>12, <1>13, <1>14, <1>15

------------------------------------------------------------------------------
(* The order that g enforces is that of a graph with all that was asked for*)
(* in it.                                                                  *)
Enforced(g) == FinalGraph(g) /\ \E h : FinalGraph(h) /\ Direct(h) /\ Upstream(g) = Upstream(h)

Folding ==
  /\ stage = "coalesce" => CollapsedGraph(depends_on)
  /\ Consistent =>
       /\ stage = "notify"    => FoldedGraph(depends_on)
       /\ stage = "reroute"   => WrappedGraph(depends_on)
       /\ stage = "gates"     => RoutedGraph(depends_on)
       /\ stage = "sentinels" => GatedGraph(depends_on)
       /\ stage = "reduce"    => FinalGraph(depends_on) /\ Direct(depends_on)
       /\ stage \in {"validate", "compiled"} => Enforced(depends_on)
       /\ stage # "broken"

LEMMA EnforcedStays ==
  ASSUME Analysed, NEW g
  PROVE  Enforced(g)' <=> Enforced(g)
<1>1. \A h : (FinalGraph(h)' <=> FinalGraph(h)) /\ (Direct(h)' <=> Direct(h))
  BY GraphsStay
<1>. QED  BY <1>1 DEF Enforced

LEMMA FoldingByCollapse == ASSUME Shape, Built, apply_lifeline_collapse PROVE Folding'
<1>1. Analysed /\ stage' = "coalesce" /\ CollapsedGraph(depends_on')
  BY CollapseMakes DEF apply_lifeline_collapse, Pass
<1>2. PICK g : g = depends_on'
  OBVIOUS
<1>3. CollapsedGraph(g)'
  BY <1>1, <1>2, GraphsStay
<1>. QED  BY <1>1, <1>2, <1>3 DEF Folding, CollapsedGraph

LEMMA FoldingByCoalescing == ASSUME Shape, Folding, apply_coalescing PROVE Folding'
<1>1. Analysed /\ stage' = "notify" /\ (Consistent => FoldedGraph(depends_on'))
  BY CoalescingMakes DEF apply_coalescing, Pass, Folding
<1>2. PICK g : g = depends_on'
  OBVIOUS
<1>3. Consistent => FoldedGraph(g)'
  BY <1>1, <1>2, GraphsStay
<1>4. Consistent' => Consistent
  BY <1>1, OrderStays
<1>. QED  BY <1>1, <1>2, <1>3, <1>4 DEF Folding, FoldedGraph

LEMMA FoldingByNotifications == ASSUME Shape, Folding, apply_trial_notifications PROVE Folding'
<1>1. Analysed /\ stage' = "reroute" /\ (Consistent => WrappedGraph(depends_on'))
  BY NotificationsMake DEF apply_trial_notifications, Pass, Folding
<1>2. PICK g : g = depends_on'
  OBVIOUS
<1>3. Consistent => WrappedGraph(g)'
  BY <1>1, <1>2, GraphsStay
<1>4. Consistent' => Consistent
  BY <1>1, OrderStays
<1>. QED  BY <1>1, <1>2, <1>3, <1>4 DEF Folding, WrappedGraph

LEMMA FoldingByRerouting == ASSUME Shape, Folding, apply_exclusive_rerouting PROVE Folding'
<1>1. Analysed /\ stage' = "gates" /\ (Consistent => RoutedGraph(depends_on'))
  BY ReroutingMakes DEF apply_exclusive_rerouting, Pass, Folding
<1>2. PICK g : g = depends_on'
  OBVIOUS
<1>3. Consistent => RoutedGraph(g)'
  BY <1>1, <1>2, GraphsStay
<1>4. Consistent' => Consistent
  BY <1>1, OrderStays
<1>. QED  BY <1>1, <1>2, <1>3, <1>4 DEF Folding, RoutedGraph

LEMMA FoldingByGates == ASSUME Shape, Folding, apply_readiness_gates PROVE Folding'
<1>1. Analysed /\ stage' = "sentinels" /\ (Consistent => GatedGraph(depends_on'))
  BY GatesMake DEF apply_readiness_gates, Pass, Folding
<1>2. PICK g : g = depends_on'
  OBVIOUS
<1>3. Consistent => GatedGraph(g)'
  BY <1>1, <1>2, GraphsStay
<1>4. Consistent' => Consistent
  BY <1>1, OrderStays
<1>5. GatedGraph(g)' => GatedGraph(depends_on)'
  BY <1>2 DEF GatedGraph, Ordered, Direct
<1>. QED  BY <1>1, <1>3, <1>4, <1>5 DEF Folding

LEMMA FoldingBySentinels == ASSUME Shape, Folding, AddSentinels PROVE Folding'
<1>1. Analysed /\ stage' = "reduce" /\ (Consistent => FinalGraph(depends_on') /\ Direct(depends_on'))
  BY SentinelsMake DEF AddSentinels, Pass, Folding
<1>2. PICK g : g = depends_on'
  OBVIOUS
<1>3. Consistent => FinalGraph(g)' /\ Direct(g)'
  BY <1>1, <1>2, GraphsStay
<1>4. Consistent' => Consistent
  BY <1>1, OrderStays
<1>5. (FinalGraph(g)' => FinalGraph(depends_on)') /\ (Direct(g)' => Direct(depends_on)')
  BY <1>2 DEF FinalGraph, Ordered, Direct
<1>. QED  BY <1>1, <1>3, <1>4, <1>5 DEF Folding

(* The final graph has no circles. *)
LEMMA FinalIsCircleless ==
  ASSUME plan \in Plans, Levelled, Consistent, NEW g, FinalGraph(g)
  PROVE  IsFiniteSet(DOMAIN g) /\ Circleless(g)
<1>1. DOMAIN g \subseteq RealSteps /\ \A s \in DOMAIN g : \A d \in g[s] : d \in RealSteps /\ Follows(s, d)
  BY DEF FinalGraph, Ordered
<1>2. Circleless(OneTrial)
  BY DEF Consistent
<1>3. IsFiniteSet(DOMAIN g)
  <2>1. RealSteps \subseteq AllSteps
    BY DEF RealSteps
  <2>2. DOMAIN g \subseteq AllSteps
    BY <1>1, <2>1
  <2>. QED  BY <2>2, StepsAreFinite, FS_Subset
<1>. QED  BY <1>1, <1>2, <1>3, FollowingIsCircleless

LEMMA FoldingByReduction == ASSUME Shape, Folding, apply_transitive_reduction PROVE Folding'
<1>1. Analysed /\ stage = "reduce" /\ stage' = "validate" /\ plan \in Plans /\ Levelled
  BY DEF apply_transitive_reduction, Pass, Shape, ToExpand
<1>2. Consistent' => Consistent
  BY <1>1, OrderStays
<1>3. ASSUME Consistent PROVE Enforced(depends_on')
  <2>. DEFINE g == depends_on
              h == depends_on'
  <2>1. FinalGraph(g) /\ Direct(g)
    BY <1>1, <1>3 DEF Folding
  <2>2. h = remove_dependencies(g, Redundant(g))
    BY DEF apply_transitive_reduction
  <2>. HIDE DEF g, h
  <2>3. IsFiniteSet(DOMAIN g) /\ Circleless(g)
    BY <1>1, <1>3, <2>1, FinalIsCircleless
  <2>4. Upstream(h) = Upstream(g)
    BY <2>2, <2>3, ReductionKeepsOrder
  <2>5. DOMAIN h = DOMAIN g /\ \A s \in DOMAIN g : h[s] \subseteq g[s]
    BY <2>2, RemovedEdges
  <2>6. FinalGraph(h)
    BY <2>1, <2>5 DEF FinalGraph, Ordered
  <2>7. Enforced(h)
    BY <2>1, <2>4, <2>6 DEF Enforced
  <2>. QED  BY <2>7 DEF h
<1>4. PICK g : g = depends_on'
  OBVIOUS
<1>5. Consistent => Enforced(g)'
  BY <1>1, <1>3, <1>4, EnforcedStays
<1>6. Enforced(g)' => Enforced(depends_on)'
  <2>1. FinalGraph(g)' => FinalGraph(depends_on)'
    BY <1>4 DEF FinalGraph, Ordered
  <2>. QED  BY <1>4, <2>1 DEF Enforced
<1>. QED  BY <1>1, <1>2, <1>5, <1>6 DEF Folding

LEMMA FoldingByValidate == ASSUME Shape, Folding, Validate PROVE Folding'
<1>1. Analysed /\ stage = "validate" /\ plan \in Plans /\ Levelled /\ depends_on' = depends_on
  BY DEF Validate, Pass, Shape, ToExpand
<1>2. stage' = IF Valid(depends_on) THEN "compiled" ELSE "broken"
  BY DEF Validate, Pass
<1>3. Consistent' => Consistent
  BY <1>1, OrderStays
<1>4. ASSUME Consistent PROVE stage' = "compiled"
  <2>1. FinalGraph(depends_on)
    BY <1>1, <1>4 DEF Folding, Enforced
  <2>2. Circleless(depends_on)
    BY <1>1, <1>4, <2>1, FinalIsCircleless
  <2>3. UNION {depends_on[s] : s \in DOMAIN depends_on} \subseteq DOMAIN depends_on
    BY <2>1 DEF FinalGraph
  <2>. QED  BY <1>2, <2>2, <2>3 DEF Valid
<1>5. PICK g : g = depends_on
  OBVIOUS
<1>6. Consistent => Enforced(g)'
  BY <1>1, <1>5, EnforcedStays DEF Folding
<1>7. Enforced(g)' => Enforced(depends_on)'
  <2>1. FinalGraph(g)' => FinalGraph(depends_on)'
    BY <1>1, <1>5 DEF FinalGraph, Ordered
  <2>. QED  BY <1>1, <1>5, <2>1 DEF Enforced
<1>. QED  BY <1>2, <1>3, <1>4, <1>6, <1>7 DEF Folding

LEMMA StutterFolds == ASSUME Shape, Built, Folding, UNCHANGED vars PROVE Built' /\ Folding'
<1>1. Analysed /\ stage' = stage /\ depends_on' = depends_on
  BY DEF vars, Analysed
<1>2. Built'
  BY <1>1, AskedStays DEF Built, Consists
<1>3. PICK g : g = depends_on
  OBVIOUS
<1>4. /\ CollapsedGraph(g)' => CollapsedGraph(depends_on)'
      /\ FoldedGraph(g)' => FoldedGraph(depends_on)'
      /\ WrappedGraph(g)' => WrappedGraph(depends_on)'
      /\ RoutedGraph(g)' => RoutedGraph(depends_on)'
  BY <1>1, <1>3 DEF CollapsedGraph, FoldedGraph, WrappedGraph, RoutedGraph
<1>5. /\ GatedGraph(g)' => GatedGraph(depends_on)'
      /\ FinalGraph(g)' => FinalGraph(depends_on)'
      /\ Direct(g)' => Direct(depends_on)'
  BY <1>1, <1>3 DEF GatedGraph, FinalGraph, Ordered, Direct
<1>6. Enforced(g)' => Enforced(depends_on)'
  BY <1>1, <1>3, <1>5 DEF Enforced
<1>7. /\ CollapsedGraph(g)' <=> CollapsedGraph(depends_on)
      /\ FoldedGraph(g)' <=> FoldedGraph(depends_on)
      /\ WrappedGraph(g)' <=> WrappedGraph(depends_on)
      /\ RoutedGraph(g)' <=> RoutedGraph(depends_on)
      /\ GatedGraph(g)' <=> GatedGraph(depends_on)
      /\ FinalGraph(g)' <=> FinalGraph(depends_on)
      /\ Direct(g)' <=> Direct(depends_on)
      /\ Enforced(g)' <=> Enforced(depends_on)
  BY <1>1, <1>3, GraphsStay, EnforcedStays
<1>8. Consistent' <=> Consistent
  BY <1>1, OrderStays
<1>9. Folding'
  BY <1>1, <1>4, <1>5, <1>6, <1>7, <1>8 DEF Folding
<1>. QED  BY <1>2, <1>9

LEMMA AlwaysFolds == Spec => [](Shape /\ Built /\ Folding)
<1>1. Init => Shape /\ Built /\ Folding
  BY InitShaped DEF Init, Built, Folding
<1>2. ASSUME Shape, Built, Folding, [Next]_vars PROVE (Shape /\ Built /\ Folding)'
  <2>1. ASSUME Refuse PROVE Shape' /\ Built' /\ Folding'
    BY <1>2, <2>1, RefuseShaped DEF Refuse, Pass, Built, Folding
  <2>2. ASSUME Expand PROVE Shape' /\ Built' /\ Folding'
    BY <1>2, <2>2, ExpandShaped, BuiltByExpand DEF Expand, Pass, Folding
  <2>3. ASSUME apply_rule2_edges PROVE Shape' /\ Built' /\ Folding'
    BY <1>2, <2>3, Rule2Shaped, BuiltByRule2 DEF apply_rule2_edges, Pass, Folding
  <2>4. ASSUME apply_dedicated_materialisation PROVE Shape' /\ Built' /\ Folding'
    BY <1>2, <2>4, DedicatedShaped, BuiltByDedicated DEF apply_dedicated_materialisation, Pass, Folding
  <2>5. ASSUME apply_exclusive_serialisation PROVE Shape' /\ Built' /\ Folding'
    BY <1>2, <2>5, ExclusiveShaped, BuiltByExclusive DEF apply_exclusive_serialisation, Pass, Folding
  <2>6. ASSUME apply_lifeline_collapse PROVE Shape' /\ Built' /\ Folding'
    BY <1>2, <2>6, LifelineShaped, FoldingByCollapse DEF apply_lifeline_collapse, Pass, Built
  <2>7. ASSUME apply_coalescing PROVE Shape' /\ Built' /\ Folding'
    BY <1>2, <2>7, CoalescingShaped, FoldingByCoalescing DEF apply_coalescing, Pass, Built
  <2>8. ASSUME apply_trial_notifications PROVE Shape' /\ Built' /\ Folding'
    BY <1>2, <2>8, NotificationsShaped, FoldingByNotifications DEF apply_trial_notifications, Pass, Built
  <2>9. ASSUME apply_exclusive_rerouting PROVE Shape' /\ Built' /\ Folding'
    BY <1>2, <2>9, ReroutingShaped, FoldingByRerouting DEF apply_exclusive_rerouting, Pass, Built
  <2>10. ASSUME apply_readiness_gates PROVE Shape' /\ Built' /\ Folding'
    BY <1>2, <2>10, GatesShaped, FoldingByGates DEF apply_readiness_gates, Pass, Built
  <2>11. ASSUME AddSentinels PROVE Shape' /\ Built' /\ Folding'
    BY <1>2, <2>11, SentinelsShaped, FoldingBySentinels DEF AddSentinels, Pass, Built
  <2>12. ASSUME apply_transitive_reduction PROVE Shape' /\ Built' /\ Folding'
    BY <1>2, <2>12, ReductionShaped, FoldingByReduction DEF apply_transitive_reduction, Pass, Built
  <2>13. ASSUME Validate PROVE Shape' /\ Built' /\ Folding'
    BY <1>2, <2>13, ValidateShaped, FoldingByValidate DEF Validate, Pass, Built
  <2>14. ASSUME UNCHANGED vars PROVE Shape' /\ Built' /\ Folding'
    BY <1>2, <2>14, StutterShaped, StutterFolds
  <2>. QED  BY <1>2, <2>1, <2>2, <2>3, <2>4, <2>5, <2>6, <2>7, <2>8, <2>9, <2>10, <2>11, <2>12, <2>13,
                 <2>14 DEF Next
<1>. QED  BY <1>1, <1>2, PTL DEF Spec

(* A plan whose constraints can all be met is never refused for a circle,  *)
(* and no circle is hidden from the check by the reduction: every edge of  *)
(* every pass goes from a later to an earlier step of one order.           *)
THEOREM ConsistentAlwaysCompiles == Spec => []ConsistentCompiles
<1>1. ASSUME Shape, Folding, stage \in {"reduce", "broken"}, Consistent
      PROVE  stage = "reduce" /\ Circleless(depends_on)
  <2>1. stage = "reduce" /\ FinalGraph(depends_on) /\ plan \in Plans /\ Levelled
    BY <1>1 DEF Folding, Shape, ToExpand
  <2>. QED  BY <1>1, <2>1, FinalIsCircleless
<1>2. Shape /\ Folding => ConsistentCompiles
  BY <1>1 DEF ConsistentCompiles
<1>. QED  BY <1>2, AlwaysFolds, PTL

------------------------------------------------------------------------------
LEMMA GroupsInOrder ==
  ASSUME NEW t \in Nat, NEW s \in Nat \ {0}, NEW u \in Nat, t <= u, LastIn(u, s) = u
  PROVE  LastIn(t, s) <= u
<1>. DEFINE q == u \div s
            y == q * s
            z == (q + 1) * s
            w == LastIn(t, s)
<1>1. q \in Nat
  BY Divides
<1>2. u = y + s - 1
  BY DEF LastIn
<1>. HIDE DEF q
<1>3. y \in Nat
  BY <1>1, ProductIn
<1>4. z = y + 1 * s /\ 1 * s = s
  BY <1>1, SumsDistribute
<1>5. t < z => w < z
  <2>1. q + 1 \in Nat
    BY <1>1
  <2>. QED  BY <2>1, GroupsEnd
<1>6. w \in Nat
  BY GroupsEnd
<1>. HIDE DEF y, z, w
<1>7. w <= u
  BY <1>2, <1>3, <1>4, <1>5, <1>6
<1>. QED  BY <1>7 DEF w

(* The first teardown from a trial on is that of the end of its group. *)
LEMMA EndsFirst ==
  ASSUME plan \in Plans, Levelled, NEW e \in Elements, NEW t \in Trials, NEW u \in Trials, t <= u, Ends(e, u) = u
  PROVE  Ends(e, t) <= u
<1>. DEFINE s == group_size_at(plan.axes, level[e])
<1>1. /\ s \in Nat \ {0}
      /\ GroupLast(e, t) = LastIn(t, s) /\ GroupLast(e, u) = LastIn(u, s)
  BY GroupIs
<1>2. t \in Nat /\ u \in Nat
  BY PlanTyped
<1>. HIDE DEF s
<1>3. LastIn(u, s) = u => LastIn(t, s) <= u
  BY <1>1, <1>2, GroupsInOrder
<1>. QED  BY <1>1, <1>3 DEF Ends

(* What the finished graph enforces. *)
LEMMA CompiledOrder ==
  ASSUME Shape, Folding, stage = "compiled", Consistent
  PROVE  /\ plan \in Plans /\ Levelled /\ DOMAIN depends_on = FinalSteps
         /\ \A s \in WrappedSteps : \A c : Routed(s, c) => c \in Before[s]
         /\ \A s \in WrappedSteps, c \in GatedSteps :
              s.kind = "activate" /\ Routed(s, c) => Readiness(c) \in Before[s]
         /\ \A s \in FinalSteps, k \in FinalSteps : k \in Before[s] => Before[k] \subseteq Before[s]
<1>1. plan \in Plans /\ Levelled /\ Enforced(depends_on)
  BY DEF Shape, Folding, ToExpand
<1>2. PICK h : FinalGraph(h) /\ Direct(h) /\ Upstream(depends_on) = Upstream(h)
  BY <1>1 DEF Enforced
<1>3. Before = Upstream(h)
  BY <1>2 DEF Before
<1>4. DOMAIN h = FinalSteps /\ DOMAIN depends_on = FinalSteps
  BY <1>1, <1>2 DEF Enforced, FinalGraph
<1>5. IsFiniteSet(DOMAIN h)
  BY <1>1, <1>2, FinalIsCircleless
<1>6. /\ \A s \in FinalSteps : h[s] \subseteq Before[s]
      /\ \A s \in FinalSteps : \A k \in Before[s] \cap FinalSteps : Before[k] \subseteq Before[s]
  BY <1>3, <1>4, <1>5, UpstreamIsClosure DEF ClosedFor
<1>7. ASSUME NEW s \in WrappedSteps, NEW c, Routed(s, c) PROVE c \in Before[s]
  <2>1. s \in FinalSteps
    BY DEF FinalSteps
  <2>2. CASE c \in h[s]
    BY <1>6, <2>1, <2>2
  <2>3. CASE c \in GatedSteps /\ Readiness(c) \in h[s]
    <3>1. Readiness(c) \in FinalSteps /\ c \in h[Readiness(c)]
      BY <1>2, <2>3 DEF Direct, FinalSteps, GateSteps
    <3>. QED  BY <1>6, <2>1, <2>3, <3>1
  <2>. QED  BY <1>2, <1>7, <2>2, <2>3 DEF Direct
<1>8. ASSUME NEW s \in WrappedSteps, NEW c \in GatedSteps, s.kind = "activate", Routed(s, c)
      PROVE  Readiness(c) \in Before[s]
  <2>1. s \in FinalSteps
    BY DEF FinalSteps
  <2>2. Readiness(c) \in h[s]
    BY <1>2, <1>8 DEF Direct
  <2>. QED  BY <1>6, <2>1, <2>2
<1>. QED  BY <1>1, <1>4, <1>6, <1>7, <1>8

LEMMA UpIsStep ==
  ASSUME Shape, stage \in Coalesced, NEW e \in Elements, NEW t \in Trials
  PROVE  Up(e, t) = UpStep(e, t) /\ Up(e, t).trial = Begins(e, t)
BY UpIs DEF UpStep, Begins

LEMMA DownIsStep ==
  ASSUME Shape, Folding, stage = "compiled", Consistent, NEW e \in Elements, NEW t \in Trials
  PROVE  Down(e, t) = DownStep(e, t)
<1>. DEFINE r == lifeline_root_of(e)
            n == trial_count(plan.axes)
            S == {u \in t..Max(Trials) : Deactivate(r, u) \in DOMAIN depends_on}
            w == Ends(r, t)
<1>1. plan \in Plans /\ Levelled /\ DOMAIN depends_on = FinalSteps
  BY CompiledOrder
<1>2. r \in Elements /\ r \notin OnLifeline
  BY <1>1, RootIs DEF Levelled, OnLifeline
<1>3. n \in Nat \ {0} /\ Trials = 0..(n - 1)
  BY <1>1, PlanTyped
<1>. HIDE DEF n
<1>4. t \in Nat /\ Max(Trials) = n - 1
  <2>1. 0 \in Int /\ n - 1 \in Int /\ 0 <= n - 1
    BY <1>3
  <2>2. Max(0..(n - 1)) = n - 1
    BY <2>1, GreatestOfFirst
  <2>. QED  BY <1>3, <2>2
<1>5. \A u \in Trials : Deactivate(r, u) \in FinalSteps <=> Ends(r, u) = u
  <2>1. \A u \in Trials : Deactivate(r, u) \in FoldedSteps <=> Ends(r, u) = u
    BY <1>1, <1>2, FoldedStepsAre
  <2>2. \A u : Deactivate(r, u) \in FinalSteps <=> Deactivate(r, u) \in FoldedSteps
    <3>1. \A s \in GateSteps : s.kind = "ready"
      BY <1>1, GateIs DEF GateSteps
    <3>2. \A s \in Notices : s.kind \in {"trial_start", "trial_end"}
      BY KindsOf DEF Notices
    <3>. QED  BY <3>1, <3>2, KindsOf DEF FinalSteps, WrappedSteps
  <2>. QED  BY <2>1, <2>2
<1>6. w \in Trials /\ t <= w /\ Ends(r, w) = w
  BY <1>1, <1>2, GroupBounds
<1>7. \A u \in t..Max(Trials) : u \in Trials /\ t <= u /\ u \in Nat
  BY <1>3, <1>4
<1>8. w \in S /\ \A u \in S : w <= u
  <2>1. w \in t..Max(Trials)
    <3>. HIDE DEF w
    <3>. QED  BY <1>3, <1>4, <1>6
  <2>2. \A u \in S : u \in Trials /\ t <= u /\ Ends(r, u) = u
    BY <1>1, <1>5, <1>7
  <2>3. \A u \in S : w <= u
    <3>. HIDE DEF S, r
    <3>. QED  BY <1>1, <1>2, <2>2, EndsFirst
  <2>. HIDE DEF r
  <2>. QED  BY <1>1, <1>5, <1>6, <2>1, <2>3
<1>9. Min(S) = w
  <2>1. S \in SUBSET Nat /\ S # {} /\ w \in Nat
    BY <1>3, <1>6, <1>7, <1>8
  <2>. HIDE DEF S, w
  <2>2. Min(S) \in S /\ \A u \in S : Min(S) <= u
    BY <2>1, LeastOf
  <2>3. PICK k \in S : k = Min(S)
    BY <2>2
  <2>4. k \in Nat /\ w \in Nat /\ w <= k /\ k <= w
    BY <1>8, <2>1, <2>2, <2>3
  <2>. QED  BY <2>3, <2>4
<1>. QED  BY <1>9 DEF Down, DownStep

------------------------------------------------------------------------------
(* The rest of a dependency that no bridge replaced. *)
LEMMA AskedIsRouted ==
  ASSUME plan \in Plans, Levelled, NEW x \in Elements, NEW t \in Trials, NEW s, NEW d,
         FoldsFor(<<s, d>>, x, t), s.kind # "activate" \/ d.kind # "deactivate"
  PROVE  Routed(s, d) /\ s \in WrappedSteps
<1>1. FoldedEdge(s, d)
  <2>. DEFINE f == <<s, d>>
  <2>1. FoldsFor(f, x, t)
    OBVIOUS
  <2>. HIDE DEF f
  <2>2. f \in FoldedEdges
    BY <2>1, FoldedAre
  <2>. QED  BY <2>2 DEF f, FoldedEdge
<1>2. ~DirectEdge(s, d)
  BY KindsOf DEF DirectEdge
<1>3. s \in FoldedSteps
  BY <1>1, FoldedEdgeIs
<1>. QED  BY <1>1, <1>2, <1>3 DEF Routed, WrappedSteps

LEMMA NoticeIsRouted ==
  ASSUME NEW s, NEW d, NoticeEdge(s, d), s \in WrappedSteps, s.kind # "activate" \/ d.kind # "deactivate"
  PROVE  Routed(s, d)
BY KindsOf DEF DirectEdge, Routed

(* Notifications of a trial. *)
LEMMA NoticesOrdered ==
  ASSUME Shape, Folding, stage = "compiled", Consistent, trial_elements # {}, NEW t \in Trials
  PROVE  /\ \A x \in trial_elements : TrialStart(t) \in Before[UpStep(x, t)]
         /\ \A x \in trial_elements \ OnLifeline : DownStep(x, t) \in Before[TrialEnd(t)]
         /\ \A y \in NonTrialElements : UpStep(y, t) \in Before[TrialStart(t)]
         /\ \A y \in Elements : lifeline_root_of(y) \in NonTrialElements => TrialEnd(t) \in Before[DownStep(y, t)]
         /\ TrialStart(t) \in FinalSteps /\ TrialEnd(t) \in FinalSteps
<1>1. /\ plan \in Plans /\ Levelled
      /\ \A s \in WrappedSteps : \A c : Routed(s, c) => c \in Before[s]
  BY CompiledOrder
<1>2. TrialStart(t) \in WrappedSteps /\ TrialEnd(t) \in WrappedSteps /\ FoldedSteps \subseteq WrappedSteps
  BY <1>1, WrappedAre
<1>3. trial_elements \subseteq Elements /\ NonTrialElements \subseteq Elements
  BY <1>1, TrialElementsAre DEF NonTrialElements
<1>4. \A e \in Elements : UpStep(e, t) \in WrappedSteps /\ DownStep(e, t) \in WrappedSteps
  BY <1>1, <1>2, FoldedStepsAre
<1>5. ASSUME NEW x \in trial_elements PROVE TrialStart(t) \in Before[UpStep(x, t)]
  <2>1. UpStep(x, t) = Activate(x, t)
    BY DEF UpStep, Begins, NonTrialElements
  <2>2. NoticeEdge(UpStep(x, t), TrialStart(t))
    BY <2>1 DEF NoticeEdge
  <2>3. Routed(UpStep(x, t), TrialStart(t))
    BY <1>3, <1>4, <2>2, NoticeIsRouted, KindsOf
  <2>. QED  BY <1>1, <1>3, <1>4, <2>3
<1>6. ASSUME NEW x \in trial_elements \ OnLifeline PROVE DownStep(x, t) \in Before[TrialEnd(t)]
  <2>1. DownStep(x, t) = Deactivate(x, t)
    <3>1. DownStep(x, t) = Deactivate(x, Ends(x, t))
      BY <1>1, <1>3, SettledSteps
    <3>. QED  BY <3>1 DEF Ends, NonTrialElements
  <2>2. NoticeEdge(TrialEnd(t), DownStep(x, t))
    BY <2>1 DEF NoticeEdge
  <2>3. Routed(TrialEnd(t), DownStep(x, t))
    BY <1>2, <2>2, NoticeIsRouted, KindsOf
  <2>. QED  BY <1>1, <1>2, <2>3
<1>7. ASSUME NEW y \in NonTrialElements PROVE UpStep(y, t) \in Before[TrialStart(t)]
  <2>1. NoticeEdge(TrialStart(t), UpStep(y, t))
    BY DEF NoticeEdge
  <2>2. Routed(TrialStart(t), UpStep(y, t))
    BY <1>2, <2>1, NoticeIsRouted, KindsOf
  <2>. QED  BY <1>1, <1>2, <2>2
<1>8. ASSUME NEW y \in Elements, lifeline_root_of(y) \in NonTrialElements
      PROVE  TrialEnd(t) \in Before[DownStep(y, t)]
  <2>. DEFINE r == lifeline_root_of(y)
  <2>1. DownStep(y, t) = Deactivate(r, GroupLast(r, t))
    BY <1>8 DEF DownStep, Ends
  <2>. HIDE DEF r
  <2>2. NoticeEdge(DownStep(y, t), TrialEnd(t))
    BY <1>8, <2>1 DEF NoticeEdge, r
  <2>3. Routed(DownStep(y, t), TrialEnd(t))
    BY <1>4, <2>2, NoticeIsRouted, KindsOf
  <2>. QED  BY <1>1, <1>4, <2>3
<1>. QED  BY <1>2, <1>5, <1>6, <1>7, <1>8 DEF FinalSteps

(* What relationships ask for within a trial. *)
LEMMA StepsInOrder ==
  ASSUME Shape, Folding, stage = "compiled", Consistent, NEW x \in Elements, NEW t \in Trials
  PROVE  /\ UpStep(x, t) \in FinalSteps /\ DownStep(x, t) \in FinalSteps
         /\ \A y \in Deps(x, {"Shared", "Exclusive", "Lifeline"}) : UpStep(y, t) \in Before[UpStep(x, t)]
         /\ \A y \in Deps(x, {"Shared", "Exclusive"}) \ OnLifeline : DownStep(x, t) \in Before[DownStep(y, t)]
         /\ \A y \in Deps(x, {"Linear"}) : level[x] = level[y] => DownStep(y, t) \in Before[UpStep(x, t)]
         /\ x \notin OnLifeline => UpStep(x, t) \in Before[DownStep(x, t)]
         /\ \A y \in Deps(x, {"Dedicated"}) :
              /\ Dedicated(Activate(y, t), x) \in Before[UpStep(x, t)]
              /\ DownStep(x, t) \in Before[Dedicated(Deactivate(y, t), x)]
         /\ \A y \in Deps(x, {"Shared", "Exclusive"}) \cap plan.health_check :
              Readiness(UpStep(y, t)) \in Before[UpStep(x, t)]
<1>1. /\ plan \in Plans /\ Levelled
      /\ \A s \in WrappedSteps : \A c : Routed(s, c) => c \in Before[s]
      /\ \A s \in WrappedSteps, c \in GatedSteps :
           s.kind = "activate" /\ Routed(s, c) => Readiness(c) \in Before[s]
  BY CompiledOrder
<1>2. \A e, u : /\ UpStep(e, u).kind = "activate" /\ DownStep(e, u).kind = "deactivate"
                /\ UpStep(e, u).element = e
  BY DEF UpStep, DownStep, Activate, Deactivate, Step
<1>3. \A s, d : FoldsFor(<<s, d>>, x, t) /\ (s.kind # "activate" \/ d.kind # "deactivate") =>
         Routed(s, d) /\ s \in WrappedSteps /\ d \in Before[s]
  BY <1>1, AskedIsRouted
<1>4. DepsAreElements(x)
  BY <1>1, TargetsAreElements
<1>5. \A e \in Elements : UpStep(e, t) \in WrappedSteps /\ DownStep(e, t) \in WrappedSteps
  BY <1>1, FoldedStepsAre, WrappedAre
<1>6. ASSUME NEW y \in Deps(x, {"Shared", "Exclusive", "Lifeline"})
      PROVE  Routed(UpStep(x, t), UpStep(y, t)) /\ UpStep(y, t) \in Before[UpStep(x, t)]
  <2>1. FoldsFor(<<UpStep(x, t), UpStep(y, t)>>, x, t)
    BY DEF FoldsFor
  <2>. QED  BY <1>2, <1>3, <2>1
<1>7. ASSUME NEW y \in Deps(x, {"Shared", "Exclusive"}) \ OnLifeline
      PROVE  DownStep(x, t) \in Before[DownStep(y, t)]
  <2>1. FoldsFor(<<DownStep(y, t), DownStep(x, t)>>, x, t)
    BY DEF FoldsFor
  <2>. QED  BY <1>2, <1>3, <2>1
<1>8. ASSUME NEW y \in Deps(x, {"Linear"}), level[x] = level[y]
      PROVE  DownStep(y, t) \in Before[UpStep(x, t)]
  <2>. DEFINE s == UpStep(x, t)
              d == DownStep(y, t)
              r == lifeline_root_of(y)
              f == <<s, d>>
  <2>1. f \in FoldedEdges
    <3>1. FoldsFor(f, x, t)
      BY <1>8 DEF FoldsFor
    <3>. HIDE DEF f
    <3>. QED  BY <1>1, <3>1, FoldedAre
  <2>2. y \in Elements /\ r \in Elements
    BY <1>1, <1>4, SettledTyped DEF DepsAreElements
  <2>3. Begins(x, t) <= t /\ t <= Ends(r, t) /\ Begins(x, t) \in Nat /\ Ends(r, t) \in Nat /\ t \in Nat
    <3>1. Trials \subseteq Nat
      BY <1>1, PlanTyped
    <3>. HIDE DEF r
    <3>. QED  BY <1>1, <2>2, <3>1, GroupBounds
  <2>4. ~DirectEdge(s, d)
    <3>1. SUFFICES ASSUME NEW e, NEW u \in Later, s = Activate(e, u), d = Deactivate(e, u - 1) PROVE FALSE
      BY DEF DirectEdge
    <3>2. u = Begins(x, t) /\ u - 1 = Ends(r, t)
      BY <3>1 DEF UpStep, DownStep, Activate, Deactivate, Step
    <3>. HIDE DEF r
    <3>. QED  BY <2>3, <3>2
  <2>5. Routed(s, d)
    BY <2>1, <2>4 DEF Routed, FoldedEdge
  <2>. HIDE DEF d
  <2>6. d \in Before[s]
    BY <1>1, <1>5, <2>5
  <2>. QED  BY <2>6 DEF d
<1>9. ASSUME x \notin OnLifeline PROVE UpStep(x, t) \in Before[DownStep(x, t)]
  <2>1. FoldsFor(<<DownStep(x, t), UpStep(x, t)>>, x, t)
    BY <1>9 DEF FoldsFor
  <2>. QED  BY <1>2, <1>3, <2>1
<1>10. ASSUME NEW y \in Deps(x, {"Dedicated"})
       PROVE  /\ Dedicated(Activate(y, t), x) \in Before[UpStep(x, t)]
              /\ DownStep(x, t) \in Before[Dedicated(Deactivate(y, t), x)]
  <2>. DEFINE u == Dedicated(Activate(y, t), x)
              d == Dedicated(Deactivate(y, t), x)
  <2>1. u.kind = "activate" /\ d.kind = "deactivate"
    BY DEF Dedicated, Activate, Deactivate, Step
  <2>2. FoldsFor(<<UpStep(x, t), u>>, x, t) /\ FoldsFor(<<d, DownStep(x, t)>>, x, t)
    BY DEF FoldsFor
  <2>. HIDE DEF u, d
  <2>3. u \in Before[UpStep(x, t)] /\ DownStep(x, t) \in Before[d]
    BY <1>2, <1>3, <2>1, <2>2
  <2>. QED  BY <2>3 DEF u, d
<1>11. ASSUME NEW y \in Deps(x, {"Shared", "Exclusive"}) \cap plan.health_check
       PROVE  Readiness(UpStep(y, t)) \in Before[UpStep(x, t)]
  <2>1. y \in Elements /\ y \in Deps(x, {"Shared", "Exclusive", "Lifeline"})
    <3>1. {"Shared", "Exclusive", "Lifeline"} = {"Shared", "Exclusive"} \cup {"Lifeline"}
      OBVIOUS
    <3>. QED  BY <1>4, <3>1, DepsOfBoth DEF DepsAreElements
  <2>2. UpStep(y, t) \in GatedSteps
    BY <1>2, <1>5, <2>1 DEF GatedSteps
  <2>. QED  BY <1>1, <1>2, <1>5, <1>6, <2>1, <2>2
<1>. QED  BY <1>5, <1>6, <1>7, <1>8, <1>9, <1>10, <1>11 DEF FinalSteps

------------------------------------------------------------------------------
(* A teardown kept up for another, also where it goes with a lifeline.     *)
LEMMA KeptUp ==
  ASSUME Shape, Folding, stage = "compiled", Consistent, NEW x \in Elements \ OnLifeline, NEW t \in Trials,
         NEW y \in Deps(x, {"Shared", "Exclusive"})
  PROVE  DownStep(x, t) \in Before[DownStep(y, t)]
<1>1. /\ plan \in Plans /\ Levelled
      /\ \A s \in FinalSteps, k \in FinalSteps : k \in Before[s] => Before[k] \subseteq Before[s]
  BY CompiledOrder
<1>2. y \in Elements
  BY <1>1, TargetsAreElements DEF DepsAreElements
<1>3. CASE y \notin OnLifeline
  BY <1>3, StepsInOrder
<1>4. CASE y \in OnLifeline
  <2>1. x \in trial_elements /\ lifeline_root_of(y) \in NonTrialElements
    BY <1>4 DEF Consistent
  <2>2. DownStep(x, t) \in Before[TrialEnd(t)] /\ TrialEnd(t) \in Before[DownStep(y, t)]
        /\ TrialEnd(t) \in FinalSteps
    BY <1>2, <2>1, NoticesOrdered
  <2>3. DownStep(y, t) \in FinalSteps
    BY <1>2, StepsInOrder
  <2>. QED  BY <1>1, <2>2, <2>3
<1>. QED  BY <1>3, <1>4

(* Without a lasting instance between them, two instances meet only where  *)
(* the bridge of their trials is.                                          *)
LEMMA OneAfterAnother ==
  ASSUME Shape, Folding, stage = "compiled", Consistent, NEW x \in Elements, Deps(x, {"Exclusive"}) # {},
         NEW t \in Later
  PROVE  DownStep(x, t - 1) \in Before[UpStep(x, t)]
<1>1. /\ plan \in Plans /\ Levelled
      /\ \A s \in WrappedSteps : \A c : Routed(s, c) => c \in Before[s]
      /\ \A s \in FinalSteps, k \in FinalSteps : k \in Before[s] => Before[k] \subseteq Before[s]
  BY CompiledOrder
<1>2. t \in Trials /\ t - 1 \in Trials
  BY <1>1, LaterTrials
<1>3. UpStep(x, t) \in WrappedSteps /\ UpStep(x, t) \in FinalSteps
  BY <1>1, <1>2, FoldedStepsAre, WrappedAre DEF FinalSteps
<1>4. CASE x \notin trial_elements
  <2>. DEFINE s == UpStep(x, t)
              d == DownStep(x, t - 1)
              f == <<s, d>>
  <2>1. f \in FoldedEdges
    <3>1. FoldsFor(f, x, t)
      BY DEF FoldsFor
    <3>. HIDE DEF f
    <3>. QED  BY <1>1, <1>2, <3>1, FoldedAre
  <2>2. ~DirectEdge(s, d)
    <3>1. \A e, u : s = Activate(e, u) => e = x
      BY DEF UpStep, Activate, Step
    <3>. QED  BY <1>4, <3>1 DEF DirectEdge, Serialised
  <2>3. Routed(s, d)
    BY <2>1, <2>2 DEF Routed, FoldedEdge
  <2>. HIDE DEF s, d
  <2>4. s \in WrappedSteps
    BY <1>3 DEF s
  <2>5. d \in Before[s]
    BY <1>1, <2>3, <2>4
  <2>. QED  BY <2>5 DEF s, d
<1>5. CASE x \in trial_elements
  <2>1. x \notin OnLifeline
    BY DEF Consistent, Aligned
  <2>2. TrialStart(t) \in Before[UpStep(x, t)] /\ TrialStart(t) \in FinalSteps
    BY <1>2, <1>5, NoticesOrdered
  <2>3. DownStep(x, t - 1) \in Before[TrialEnd(t - 1)] /\ TrialEnd(t - 1) \in FinalSteps
    <3>. DEFINE u == t - 1
    <3>1. u \in Trials
      BY <1>2
    <3>. HIDE DEF u
    <3>2. DownStep(x, u) \in Before[TrialEnd(u)] /\ TrialEnd(u) \in FinalSteps
      BY <1>5, <2>1, <3>1, NoticesOrdered
    <3>. QED  BY <3>2 DEF u
  <2>4. TrialEnd(t - 1) \in Before[TrialStart(t)]
    <3>1. BridgeEdge(TrialStart(t), TrialEnd(t - 1))
      BY <1>5 DEF BridgeEdge, Serialised
    <3>2. ~DirectEdge(TrialStart(t), TrialEnd(t - 1))
      BY KindsOf DEF DirectEdge
    <3>3. TrialStart(t) \in WrappedSteps
      BY <1>1, <1>2, <1>5, WrappedAre
    <3>. QED  BY <1>1, <3>1, <3>2, <3>3 DEF Routed
  <2>. QED  BY <1>1, <1>3, <2>2, <2>3, <2>4
<1>. QED  BY <1>4, <1>5

(* What the instance graph calls one for the whole study. *)
LEMMA StudyIsOne ==
  ASSUME Shape, stage = "compiled", NEW i \in Instances, Scope(i.element) = "study"
  PROVE  Up(i.element, i.trial).trial = 0
<1>1. plan \in Plans /\ Levelled /\ stage \in Coalesced
  BY DEF Shape, Coalesced, ToExpand
<1>2. i.element \in Elements /\ i.trial \in Trials
  BY DEF Instances
<1>3. i.element \notin trial_elements /\ ~(level[i.element] > 0)
  BY DEF Scope
<1>4. level[i.element] = 0
  <2>1. level \in [Elements -> 0..Len(plan.axes)]
    BY <1>1, GroupsAre
  <2>2. PICK k \in 0..Len(plan.axes) : k = level[i.element]
    BY <1>2, <2>1
  <2>3. ~(k > 0)
    BY <1>3, <2>2
  <2>4. k = 0
    BY <2>3
  <2>. QED  BY <2>2, <2>4
<1>5. Begins(i.element, i.trial) = 0
  BY <1>1, <1>2, <1>3, <1>4, GroupBounds DEF NonTrialElements
<1>. QED  BY <1>1, <1>2, <1>5, UpIsStep

LEMMA FoldingTells == ASSUME Shape, Folding PROVE InstancesTold
<1>1. ASSUME stage = "compiled", NEW i \in Instances, Scope(i.element) = "study"
      PROVE  Up(i.element, i.trial).trial = 0
  BY <1>1, StudyIsOne
<1>2. ASSUME Compiled, NEW x \in Elements, NEW t \in Trials, NEW y \in Deps(x, {"Shared", "Linear", "Lifeline"}),
             level[x] = level[y] \/ y \notin Deps(x, {"Linear"})
      PROVE  UpStep(y, t) \in Before[UpStep(x, t)]
  <2>1. stage = "compiled" /\ Consistent
    BY <1>2 DEF Compiled
  <2>2. /\ plan \in Plans /\ Levelled
        /\ \A s \in FinalSteps, k \in FinalSteps : k \in Before[s] => Before[k] \subseteq Before[s]
    BY <2>1, CompiledOrder
  <2>3. \/ y \in Deps(x, {"Linear"}) \/ y \in Deps(x, {"Shared", "Exclusive", "Lifeline"})
    <3>1. /\ {"Shared", "Linear", "Lifeline"} = {"Linear"} \cup {"Shared", "Lifeline"}
          /\ {"Shared", "Exclusive", "Lifeline"} = {"Exclusive"} \cup {"Shared", "Lifeline"}
      OBVIOUS
    <3>2. /\ Deps(x, {"Linear"} \cup {"Shared", "Lifeline"}) = Deps(x, {"Linear"}) \cup Deps(x, {"Shared", "Lifeline"})
          /\ Deps(x, {"Exclusive"} \cup {"Shared", "Lifeline"}) =
               Deps(x, {"Exclusive"}) \cup Deps(x, {"Shared", "Lifeline"})
      BY DepsOfBoth
    <3>. QED  BY <3>1, <3>2
  <2>4. CASE y \in Deps(x, {"Shared", "Exclusive", "Lifeline"})
    BY <2>1, <2>4, StepsInOrder
  <2>5. CASE y \in Deps(x, {"Linear"})
    <3>1. y \in Elements \ OnLifeline
      BY <2>1, <2>2, <2>5, TargetsAreElements DEF DepsAreElements, Consistent
    <3>2. DownStep(y, t) \in Before[UpStep(x, t)]
      BY <1>2, <2>1, <2>5, StepsInOrder
    <3>3. UpStep(y, t) \in Before[DownStep(y, t)]
      BY <2>1, <3>1, StepsInOrder
    <3>4. UpStep(x, t) \in FinalSteps /\ DownStep(y, t) \in FinalSteps
      BY <2>1, <3>1, StepsInOrder
    <3>. QED  BY <2>2, <3>2, <3>3, <3>4
  <2>. QED  BY <2>3, <2>4, <2>5
<1>3. ASSUME Compiled, NEW e \in InstanceEdges
      PROVE  LET x == e[1].element y == e[2].element t == e[1].trial
             IN level[x] = level[y] \/ y \notin Deps(x, {"Linear"}) => Up(y, t) \in Before[Up(x, t)]
  <2>1. PICK x \in Elements, t \in Trials :
          e \in {<<[element |-> x, trial |-> t], [element |-> y, trial |-> t]>> :
                   y \in Deps(x, {"Shared", "Linear", "Lifeline"})}
    BY <1>3 DEF InstanceEdges
  <2>2. PICK y \in Deps(x, {"Shared", "Linear", "Lifeline"}) :
          e = <<[element |-> x, trial |-> t], [element |-> y, trial |-> t]>>
    BY <2>1
  <2>3. e[1].element = x /\ e[2].element = y /\ e[1].trial = t
    BY <2>2
  <2>4. stage \in Coalesced /\ plan \in Plans /\ Levelled
    BY <1>3 DEF Compiled, Coalesced, Shape, ToExpand
  <2>5. y \in Elements
    <3>1. {"Shared", "Linear", "Lifeline"} \in SUBSET Relationships
      BY DEF Relationships
    <3>. QED  BY <2>4, <3>1, BuiltTyped DEF Levelled
  <2>6. Up(x, t) = UpStep(x, t) /\ Up(y, t) = UpStep(y, t)
    BY <2>4, <2>5, UpIsStep
  <2>7. level[x] = level[y] \/ y \notin Deps(x, {"Linear"}) => UpStep(y, t) \in Before[UpStep(x, t)]
    BY <1>2, <1>3
  <2>. QED  BY <2>3, <2>6, <2>7
<1>. QED  BY <1>1, <1>3 DEF InstancesTold

LEMMA FoldingOrders ==
  ASSUME Shape, Folding, Compiled
  PROVE  DependenciesHold /\ OneAtATime /\ OwnInstance /\ TrialsWrapped /\ GatesHold
<1>1. stage = "compiled" /\ Consistent /\ stage \in Coalesced
  BY DEF Compiled, Coalesced
<1>2. plan \in Plans /\ Levelled
  BY <1>1, CompiledOrder
<1>3. \A e \in Elements, t \in Trials : Up(e, t) = UpStep(e, t) /\ Down(e, t) = DownStep(e, t)
  BY <1>1, UpIsStep, DownIsStep
<1>4. \A x \in Elements : /\ Deps(x, {"Shared", "Exclusive", "Lifeline"}) \subseteq Elements
                          /\ Deps(x, {"Shared", "Exclusive"}) \subseteq Elements
                          /\ Deps(x, {"Linear"}) \subseteq Elements /\ Deps(x, {"Dedicated"}) \subseteq Elements
  BY <1>2, TargetsAreElements DEF DepsAreElements
<1>5. DependenciesHold
  <2>1. ASSUME NEW x \in Elements, NEW t \in Trials
        PROVE  /\ \A y \in Deps(x, {"Shared", "Exclusive", "Lifeline"}) : Up(y, t) \in Before[Up(x, t)]
               /\ \A y \in Deps(x, {"Shared", "Exclusive"}) :
                    x \notin OnLifeline => Down(x, t) \in Before[Down(y, t)]
               /\ \A y \in Deps(x, {"Linear"}) :
                    level[x] = level[y] => Down(y, t) \in Before[Up(x, t)]
    <3>1. \A y \in Deps(x, {"Shared", "Exclusive", "Lifeline"}) : UpStep(y, t) \in Before[UpStep(x, t)]
      BY <1>1, StepsInOrder
    <3>2. \A y \in Deps(x, {"Shared", "Exclusive"}) :
            x \notin OnLifeline => DownStep(x, t) \in Before[DownStep(y, t)]
      BY <1>1, KeptUp
    <3>3. \A y \in Deps(x, {"Linear"}) : level[x] = level[y] => DownStep(y, t) \in Before[UpStep(x, t)]
      BY <1>1, StepsInOrder
    <3>. QED  BY <1>3, <1>4, <3>1, <3>2, <3>3
  <2>. QED  BY <2>1 DEF DependenciesHold
<1>6. OneAtATime
  <2>1. ASSUME NEW x \in Elements, NEW t \in Later, Deps(x, {"Exclusive"}) # {}
        PROVE  Down(x, t - 1) \in Before[Up(x, t)]
    <3>1. t \in Trials /\ t - 1 \in Trials
      BY <1>2, LaterTrials
    <3>2. DownStep(x, t - 1) \in Before[UpStep(x, t)]
      BY <1>1, <2>1, OneAfterAnother
    <3>. QED  BY <1>3, <3>1, <3>2
  <2>. QED  BY <2>1 DEF OneAtATime
<1>7. OwnInstance
  <2>1. ASSUME NEW x \in Elements, NEW t \in Trials, NEW y \in Deps(x, {"Dedicated"})
        PROVE  /\ Dedicated(Activate(y, t), x) \in Before[Up(x, t)]
               /\ Down(x, t) \in Before[Dedicated(Deactivate(y, t), x)]
    BY <1>1, <1>3, StepsInOrder
  <2>. QED  BY <2>1 DEF OwnInstance
<1>8. TrialsWrapped
  <2>1. ASSUME trial_elements # {}, NEW t \in Trials
        PROVE  /\ \A x \in trial_elements \ OnLifeline :
                    /\ TrialStart(t) \in Before[Up(x, t)]
                    /\ Up(x, t) \in Before[Down(x, t)] /\ Down(x, t) \in Before[TrialEnd(t)]
               /\ \A y \in NonTrialElements :
                    /\ Up(y, t) \in Before[TrialStart(t)]
                    /\ lifeline_root_of(y) \in NonTrialElements => TrialEnd(t) \in Before[Down(y, t)]
    <3>1. trial_elements \subseteq Elements /\ NonTrialElements \subseteq Elements
      BY <1>2, TrialElementsAre DEF NonTrialElements
    <3>2. /\ \A x \in trial_elements : TrialStart(t) \in Before[UpStep(x, t)]
          /\ \A x \in trial_elements \ OnLifeline : DownStep(x, t) \in Before[TrialEnd(t)]
          /\ \A y \in NonTrialElements : UpStep(y, t) \in Before[TrialStart(t)]
          /\ \A y \in Elements : lifeline_root_of(y) \in NonTrialElements => TrialEnd(t) \in Before[DownStep(y, t)]
      BY <1>1, <2>1, NoticesOrdered
    <3>3. \A x \in Elements : x \notin OnLifeline => UpStep(x, t) \in Before[DownStep(x, t)]
      BY <1>1, StepsInOrder
    <3>. QED  BY <1>3, <3>1, <3>2, <3>3
  <2>. QED  BY <2>1 DEF TrialsWrapped
<1>9. GatesHold
  <2>1. ASSUME NEW x \in Elements, NEW t \in Trials, NEW y \in Deps(x, {"Shared", "Exclusive"}) \cap plan.health_check
        PROVE  Readiness(Up(y, t)) \in Before[Up(x, t)]
    <3>1. Readiness(UpStep(y, t)) \in Before[UpStep(x, t)]
      BY <1>1, StepsInOrder
    <3>. QED  BY <1>3, <1>4, <3>1
  <2>. QED  BY <2>1 DEF GatesHold
<1>. QED  BY <1>5, <1>6, <1>7, <1>8, <1>9

(* In the order that the finished graph enforces, every instance is up when*)
(* it is needed and for as long, instances that exclude one another never  *)
(* meet, and trials are told of when all they need is there and nothing of *)
(* them is left.                                                           *)
THEOREM StepsAlwaysOrdered == Spec => []StepsOrdered
<1>1. Shape /\ Folding /\ Compiled => DependenciesHold /\ OneAtATime /\ OwnInstance /\ TrialsWrapped /\ GatesHold
  BY FoldingOrders
<1>2. ~Compiled => DependenciesHold /\ OneAtATime /\ OwnInstance /\ TrialsWrapped /\ GatesHold
  BY DEF DependenciesHold, OneAtATime, OwnInstance, TrialsWrapped, GatesHold
<1>3. Shape /\ Folding => StepsOrdered
  BY <1>1, <1>2, FoldingTells DEF StepsOrdered
<1>. QED  BY <1>3, AlwaysFolds, PTL

==============================================================================
