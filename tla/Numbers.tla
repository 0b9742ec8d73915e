------------------------------ MODULE Numbers ------------------------------
(***************************************************************************)
(* Facts about numbers that the proofs share: least elements, remainders   *)
(* (rings, queues, sectors and heap blocks all count modulo something),    *)
(* recursion, and sums over finite sets (budgets).                         *)
(***************************************************************************)
EXTENDS Integers, TLAPS, WellFoundedInduction, FiniteSetTheorems

(* A non-empty set of naturals has a least element. *)
LEMMA LeastNatural ==
  ASSUME NEW T \in SUBSET Nat, T # {}
  PROVE  \E x \in T : \A y \in T : x <= y
<1>1. PICK x \in T : \A y \in T : ~(<<y, x>> \in OpToRel(<, Nat))
  BY NatLessThanWellFounded, WFMin
<1>2. \A y \in T : ~(y < x)
  BY <1>1 DEF OpToRel
<1> QED
  BY <1>2

(* So does one with a greatest: the least distance from a bound. *)
LEMMA GreatestNatural ==
  ASSUME NEW T \in SUBSET Nat, T # {}, NEW n \in Nat, \A x \in T : x <= n
  PROVE  \E x \in T : \A y \in T : x >= y
<1> DEFINE U == {n - x : x \in T}
<1>1. U \in SUBSET Nat /\ U # {}
  OBVIOUS
<1>2. PICK u \in U : \A v \in U : u <= v
  BY <1>1, LeastNatural
<1>3. PICK x \in T : u = n - x
  BY <1>2
<1>4. ASSUME NEW y \in T  PROVE x >= y
  <2>1. n - y \in U
    OBVIOUS
  <2> QED
    BY <1>2, <1>3, <2>1
<1> QED
  BY <1>4

-----------------------------------------------------------------------------
(* Quotient and remainder. *)
LEMMA Division ==
  ASSUME NEW x \in Nat, NEW m \in Nat \ {0}
  PROVE  /\ x % m \in 0..(m - 1)
         /\ x \div m \in Nat
         /\ x = m * (x \div m) + (x % m)
OBVIOUS

(* A number below the modulus is its own remainder. *)
LEMMA SmallRemainder ==
  ASSUME NEW x \in Nat, NEW m \in Nat, x < m
  PROVE  x % m = x
OBVIOUS

(* Quotient and remainder are determined by the equation. *)
LEMMA DivisionUnique ==
  ASSUME NEW q \in Nat, NEW m \in Nat \ {0}, NEW r \in 0..(m - 1)
  PROVE  (m * q + r) % m = r /\ (m * q + r) \div m = q
OBVIOUS

(* Multiples leave no remainder, and what leaves none is a multiple. *)
LEMMA Multiple ==
  ASSUME NEW x \in Nat, NEW m \in Nat \ {0}
  PROVE  x % m = 0 <=> \E k \in Nat : x = m * k
<1>1. ASSUME x % m = 0  PROVE \E k \in Nat : x = m * k
  <2>1. x \div m \in Nat /\ x = m * (x \div m)
    BY <1>1, Division
  <2> QED
    BY <2>1
<1>2. ASSUME NEW k \in Nat, x = m * k  PROVE x % m = 0
  BY <1>2
<1> QED
  BY <1>1, <1>2

(* Sums and differences of multiples are multiples. *)
LEMMA MultipleSum ==
  ASSUME NEW x \in Nat, NEW y \in Nat, NEW m \in Nat \ {0}, x % m = 0, y % m = 0
  PROVE  (x + y) % m = 0
<1>1. PICK k \in Nat : x = m * k
  BY Multiple
<1>2. PICK j \in Nat : y = m * j
  BY Multiple
<1>3. x + y = m * (k + j)
  BY <1>1, <1>2
<1>4. k + j \in Nat /\ x + y \in Nat
  OBVIOUS
<1> QED
  BY <1>3, <1>4, Multiple

LEMMA MultipleDifference ==
  ASSUME NEW x \in Nat, NEW y \in Nat, NEW m \in Nat \ {0}, x % m = 0, y % m = 0, y <= x
  PROVE  (x - y) % m = 0
<1>1. PICK k \in Nat : x = m * k
  BY Multiple
<1>2. PICK j \in Nat : y = m * j
  BY Multiple
<1>3. x - y = m * (k - j)
  BY <1>1, <1>2
<1>4. j <= k
  BY <1>1, <1>2
<1>5. k - j \in Nat /\ x - y \in Nat
  BY <1>4
<1> QED
  BY <1>3, <1>5, Multiple

(* A multiple of a multiple is a multiple. *)
LEMMA MultipleTransitive ==
  ASSUME NEW x \in Nat, NEW e \in Nat \ {0}, NEW d \in Nat \ {0}, x % e = 0, e % d = 0
  PROVE  x % d = 0
<1>1. PICK k \in Nat : x = e * k
  BY Multiple
<1>2. PICK j \in Nat : e = d * j
  BY Multiple
<1>3. x = d * (j * k)
  BY <1>1, <1>2
<1>4. j * k \in Nat
  OBVIOUS
<1> QED
  BY <1>3, <1>4, Multiple

(* A multiple that is not zero is at least the modulus. *)
LEMMA MultipleBound ==
  ASSUME NEW x \in Nat, NEW m \in Nat \ {0}, x % m = 0, x # 0
  PROVE  x >= m
BY SmallRemainder

(* Dividing by a product is dividing twice. *)
Twice(x, m, k) == x \div (m * k) = (x \div m) \div k /\ m * k \in Nat \ {0}

LEMMA DivideTwice ==
  ASSUME NEW x \in Nat, NEW m \in Nat \ {0}, NEW k \in Nat \ {0}
  PROVE  Twice(x, m, k)
<1> DEFINE q == x \div m
           r == x % m
           a == q \div k
           t == q % k
<1>1. r \in 0..(m - 1) /\ q \in Nat /\ x = m * q + r
  BY Division
<1> HIDE DEF q, r
<1>2. t \in 0..(k - 1) /\ a \in Nat /\ q = k * a + t
  BY <1>1, Division
<1> HIDE DEF a, t
<1>3. m * k \in Nat \ {0}
  OBVIOUS
<1>4. m * t + r \in Nat /\ m * t + r <= m * k - 1
  <2>1. m * t <= m * (k - 1)
    BY <1>2
  <2>2. m * t \in Nat
    BY <1>2
  <2>3. m * (k - 1) = m * k - m
    OBVIOUS
  <2> QED
    BY <1>1, <1>3, <2>1, <2>2, <2>3
<1>5. x = (m * k) * a + (m * t + r)
  BY <1>1, <1>2
<1> DEFINE M == m * k
           R == m * t + r
<1>6. M \in Nat \ {0} /\ R \in 0..(M - 1) /\ x = M * a + R
  BY <1>3, <1>4, <1>5
<1> HIDE DEF M, R
<1>7. x \div M = a
  BY <1>2, <1>6, DivisionUnique
<1> QED
  BY <1>3, <1>7 DEF M, a, q, Twice

LEMMA DivideThrice ==
  ASSUME NEW x \in Nat, NEW m \in Nat \ {0}, NEW k \in Nat \ {0}
  PROVE  x \div ((m * k) * k) = ((x \div m) \div k) \div k
<1>1. Twice(x, m, k)
  BY DivideTwice
<1> DEFINE G == m * k
<1>2. G \in Nat \ {0} /\ x \div G = (x \div m) \div k
  BY <1>1 DEF Twice
<1> HIDE DEF G
<1>3. Twice(x, G, k)
  BY <1>2, DivideTwice
<1>4. x \div (G * k) = (x \div G) \div k
  BY <1>3 DEF Twice
<1> QED
  BY <1>2, <1>4 DEF G

-----------------------------------------------------------------------------
(* Recursion.  A recursive function is a CHOOSE: that there is one to      *)
(* choose, and only one, is shown here once, with the step as a function   *)
(* G, first over the naturals and then over the subsets of a finite set.   *)
Iterates(f, n, b, G) == f[0] = b /\ \A k \in 0..(n - 1) : f[k + 1] = G[k][f[k]]

(* Two runs agree as far as both go. *)
Agree(f, m, g, n) == \A k \in Nat : k <= m /\ k <= n => f[k] = g[k]

LEMMA IteratesAgree ==
  ASSUME NEW V, NEW b \in V, NEW G \in [Nat -> [V -> V]],
         NEW m \in Nat, NEW n \in Nat, NEW f \in [0..m -> V], NEW g \in [0..n -> V],
         Iterates(f, m, b, G), Iterates(g, n, b, G)
  PROVE  Agree(f, m, g, n)
<1> DEFINE Bad == {k \in Nat : k <= m /\ k <= n /\ f[k] # g[k]}
<1>1. SUFFICES ASSUME Bad # {}  PROVE FALSE
  BY DEF Agree
<1>2. PICK k \in Bad : \A j \in Bad : k <= j
  BY <1>1, LeastNatural
<1>3. k # 0
  BY <1>2 DEF Iterates
<1>4. k - 1 \in Nat /\ k - 1 \notin Bad /\ k - 1 < m /\ k - 1 < n
  BY <1>2, <1>3
<1>5. f[k - 1] = g[k - 1]
  BY <1>4
<1>6. f[(k - 1) + 1] = G[k - 1][f[k - 1]] /\ g[(k - 1) + 1] = G[k - 1][g[k - 1]]
  BY <1>4 DEF Iterates
<1> QED
  BY <1>2, <1>4, <1>5, <1>6

(* Every number of steps can be taken. *)
LEMMA IteratesExist ==
  ASSUME NEW V, NEW b \in V, NEW G \in [Nat -> [V -> V]]
  PROVE  \A n \in Nat : \E f \in [0..n -> V] : Iterates(f, n, b, G)
<1> DEFINE Bad == {n \in Nat : ~ \E f \in [0..n -> V] : Iterates(f, n, b, G)}
<1>1. SUFFICES ASSUME Bad # {}  PROVE FALSE
  OBVIOUS
<1>2. PICK n \in Bad : \A j \in Bad : n <= j
  BY <1>1, LeastNatural
<1>3. CASE n = 0
  <2>1. [k \in 0..0 |-> b] \in [0..0 -> V] /\ Iterates([k \in 0..0 |-> b], 0, b, G)
    BY DEF Iterates
  <2> QED
    BY <1>2, <1>3, <2>1
<1>4. CASE n # 0
  <2>1. n - 1 \in Nat /\ n - 1 \notin Bad
    BY <1>2, <1>4
  <2>2. PICK f \in [0..(n - 1) -> V] : Iterates(f, n - 1, b, G)
    BY <2>1
  <2> DEFINE g == [k \in 0..n |-> IF k = n THEN G[n - 1][f[n - 1]] ELSE f[k]]
  <2>3. g \in [0..n -> V]
    BY <2>1, <2>2
  <2>4. g[0] = b
    BY <1>4, <2>1, <2>2 DEF Iterates
  <2>5. ASSUME NEW k \in 0..(n - 1)  PROVE g[k + 1] = G[k][g[k]]
    <3>1. CASE k = n - 1
      BY <2>1, <2>2, <3>1
    <3>2. CASE k # n - 1
      BY <2>1, <2>2, <3>2 DEF Iterates
    <3> QED
      BY <3>1, <3>2
  <2> HIDE DEF g
  <2>6. Iterates(g, n, b, G)
    BY <2>4, <2>5 DEF Iterates
  <2> QED
    BY <1>2, <2>3, <2>6
<1> QED
  BY <1>3, <1>4

Iterated(V, b, G) ==
  \E f \in [Nat -> V] : f[0] = b /\ \A n \in Nat : f[n + 1] = G[n][f[n]]

LEMMA NatRecursion ==
  ASSUME NEW V, NEW b \in V, NEW G \in [Nat -> [V -> V]]
  PROVE  Iterated(V, b, G)
<1> DEFINE F == [n \in Nat |-> CHOOSE f \in [0..n -> V] : Iterates(f, n, b, G)]
           h == [n \in Nat |-> F[n][n]]
<1>1. \A n \in Nat : F[n] \in [0..n -> V] /\ Iterates(F[n], n, b, G)
  BY IteratesExist
<1> HIDE DEF F
<1>2. h \in [Nat -> V]
  BY <1>1
<1>3. h[0] = b
  BY <1>1 DEF Iterates
<1>4. ASSUME NEW n \in Nat  PROVE h[n + 1] = G[n][h[n]]
  <2>1. F[n + 1][n] = F[n][n]
    <3>1. n + 1 \in Nat /\ n <= n + 1 /\ n <= n
      OBVIOUS
    <3>2. F[n] \in [0..n -> V] /\ Iterates(F[n], n, b, G)
      BY <1>1
    <3>3. F[n + 1] \in [0..(n + 1) -> V] /\ Iterates(F[n + 1], n + 1, b, G)
      BY <1>1, <3>1
    <3>4. Agree(F[n + 1], n + 1, F[n], n)
      BY <3>1, <3>2, <3>3, IteratesAgree
    <3> QED
      BY <3>1, <3>4 DEF Agree
  <2>2. F[n + 1][n + 1] = G[n][F[n + 1][n]]
    BY <1>1 DEF Iterates
  <2> QED BY <2>1, <2>2
<1> QED
  BY <1>2, <1>3, <1>4 DEF Iterated

(* A number of steps, one after the other, that need not make sense beyond *)
(* their number.                                                           *)
Chain(V, b, n, G) ==
  \E f \in [0..n -> V] :
    f = [k \in 0..n |-> IF k = 0 THEN b ELSE G[k - 1][f[k - 1]]]

LEMMA ChainExists ==
  ASSUME NEW V, NEW b \in V, NEW n \in Nat, NEW G \in [0..(n - 1) -> [V -> V]]
  PROVE  Chain(V, b, n, G)
<1> DEFINE H == [k \in Nat |-> IF k \in 0..(n - 1) THEN G[k] ELSE [x \in V |-> x]]
<1>1. H \in [Nat -> [V -> V]] /\ \A k \in 0..(n - 1) : H[k] = G[k]
  OBVIOUS
<1> HIDE DEF H
<1>2. PICK f \in [0..n -> V] : Iterates(f, n, b, H)
  BY <1>1, IteratesExist
<1>3. ASSUME NEW k \in 0..n
      PROVE  f[k] = IF k = 0 THEN b ELSE G[k - 1][f[k - 1]]
  <2>1. CASE k = 0
    BY <1>2, <2>1 DEF Iterates
  <2>2. CASE k # 0
    <3>1. k - 1 \in 0..(n - 1) /\ (k - 1) + 1 = k
      BY <2>2
    <3>2. f[(k - 1) + 1] = H[k - 1][f[k - 1]]
      BY <1>2, <3>1 DEF Iterates
    <3> QED
      BY <1>1, <2>2, <3>1, <3>2
  <2> QED
    BY <2>1, <2>2
<1>4. f = [k \in 0..n |-> IF k = 0 THEN b ELSE G[k - 1][f[k - 1]]]
  BY <1>3
<1> QED
  BY <1>4 DEF Chain

(* A function on 0..n stays where its first value is, if each keeps the     *)
(* next there.                                                             *)
LEMMA StaysIn ==
  ASSUME NEW V, NEW n \in Nat, NEW f, f = [k \in 0..n |-> f[k]], f[0] \in V,
         \A k \in 0..(n - 1) : f[k] \in V => f[k + 1] \in V
  PROVE  f \in [0..n -> V]
<1> DEFINE Bad == {k \in 0..n : f[k] \notin V}
<1>1. SUFFICES ASSUME Bad # {}  PROVE FALSE
  OBVIOUS
<1>2. PICK k \in Bad : \A j \in Bad : k <= j
  <2>1. Bad \in SUBSET Nat
    OBVIOUS
  <2> HIDE DEF Bad
  <2> QED
    BY <1>1, <2>1, LeastNatural
<1>3. k # 0 /\ k \in 0..n /\ f[k] \notin V
  BY <1>2
<1>4. k - 1 \in 0..(n - 1) /\ k - 1 \in 0..n /\ (k - 1) + 1 = k /\ ~(k <= k - 1)
  BY <1>3
<1>5. f[k - 1] \in V
  BY <1>2, <1>4
<1> QED
  BY <1>3, <1>4, <1>5

(* A set that holds 0 and the successor of each of its members below n.     *)
LEMMA UpTo ==
  ASSUME NEW n \in Nat, NEW S, 0 \in S, \A k \in 0..(n - 1) : k \in S => k + 1 \in S
  PROVE  \A k \in 0..n : k \in S
<1> DEFINE Bad == {k \in 0..n : k \notin S}
<1>1. SUFFICES ASSUME Bad # {}  PROVE FALSE
  OBVIOUS
<1>2. PICK k \in Bad : \A j \in Bad : k <= j
  <2>1. Bad \in SUBSET Nat
    OBVIOUS
  <2> HIDE DEF Bad
  <2> QED
    BY <1>1, <2>1, LeastNatural
<1>3. k # 0 /\ k \in 0..n /\ k \notin S
  BY <1>2
<1>4. k - 1 \in 0..(n - 1) /\ k - 1 \in 0..n /\ (k - 1) + 1 = k /\ ~(k <= k - 1)
  BY <1>3
<1>5. k - 1 \in S
  BY <1>2, <1>4
<1> QED
  BY <1>3, <1>4, <1>5

(* Recursion over the subsets of a finite set, one element at a time. *)
Unfolded(S, V, b, c, G) ==
  \E f \in [SUBSET S -> V] :
    f = [s \in SUBSET S |-> IF s = {} THEN b ELSE G[s][f[s \ {c[s]}]]]

LEMMA SetRecursion ==
  ASSUME NEW S, IsFiniteSet(S), NEW V, NEW b \in V,
         NEW c, \A s \in SUBSET S : s # {} => c[s] \in s,
         NEW G \in [SUBSET S -> [V -> V]]
  PROVE  Unfolded(S, V, b, c, G)
<1> DEFINE W == [SUBSET S -> V]
           start == [s \in SUBSET S |-> b]
           more(w) == [s \in SUBSET S |-> IF s = {} THEN b ELSE G[s][w[s \ {c[s]}]]]
           H == [n \in Nat |-> [w \in W |-> more(w)]]
<1>1. start \in W
  OBVIOUS
<1>2. ASSUME NEW w \in W  PROVE more(w) \in W
  <2>1. ASSUME NEW s \in SUBSET S, s # {}  PROVE G[s][w[s \ {c[s]}]] \in V
    <3>1. w[s \ {c[s]}] \in V
      OBVIOUS
    <3> QED
      BY <3>1
  <2> QED
    BY <2>1
<1> HIDE DEF more, start, W
<1>3. H \in [Nat -> [W -> W]]
  BY <1>2
<1>4. \A n \in Nat, w \in W : H[n][w] = more(w)
  OBVIOUS
<1> HIDE DEF H
<1>5. Iterated(W, start, H)
  BY <1>1, <1>3, NatRecursion
<1>6. PICK F \in [Nat -> W] : F[0] = start /\ \A n \in Nat : F[n + 1] = H[n][F[n]]
  BY <1>5 DEF Iterated
<1>7. \A n \in Nat : F[n + 1] = more(F[n])
  BY <1>4, <1>6
<1>8. \A s \in SUBSET S : IsFiniteSet(s) /\ Cardinality(s) \in Nat
  BY FS_Subset, FS_CardinalityType
<1> DEFINE f == [s \in SUBSET S |-> F[Cardinality(s)][s]]
<1>9. f \in [SUBSET S -> V]
  BY <1>6, <1>8 DEF W
<1>10. ASSUME NEW s \in SUBSET S
      PROVE  f[s] = IF s = {} THEN b ELSE G[s][f[s \ {c[s]}]]
  <2>1. CASE s = {}
    BY <1>6, <2>1, FS_EmptySet DEF start
  <2>2. CASE s # {}
    <3>1. c[s] \in s
      BY <2>2
    <3>2. /\ Cardinality(s \ {c[s]}) = Cardinality(s) - 1
          /\ Cardinality(s \ {c[s]}) \in Nat
      BY <1>8, <3>1, FS_RemoveElement, FS_CardinalityType
    <3>3. F[Cardinality(s)] = more(F[Cardinality(s \ {c[s]})])
      BY <1>7, <1>8, <3>2
    <3>4. s \ {c[s]} \in SUBSET S
      OBVIOUS
    <3> QED
      BY <2>2, <3>3, <3>4 DEF more
  <2> QED
    BY <2>1, <2>2
<1> HIDE DEF f
<1>11. f = [s \in SUBSET S |-> IF s = {} THEN b ELSE G[s][f[s \ {c[s]}]]]
  BY <1>9, <1>10
<1> QED
  BY <1>9, <1>11 DEF Unfolded

-----------------------------------------------------------------------------
(* Sums over finite sets.  SumOver(f, S) is what MapThenSumSet computes:   *)
(* one element after the other, in the order in which CHOOSE picks them.   *)
Pick(s) == CHOOSE x \in s : TRUE

IsSum(f, S, h) ==
  h = [s \in SUBSET S |-> IF s = {} THEN 0 ELSE f[Pick(s)] + h[s \ {Pick(s)}]]

SumOver(f, S) == (CHOOSE h : IsSum(f, S, h))[S]

(* There is such a sum. *)
LEMMA SumExists ==
  ASSUME NEW S, IsFiniteSet(S), NEW f, \A x \in S : f[x] \in Int
  PROVE  \E h \in [SUBSET S -> Int] : IsSum(f, S, h)
<1> DEFINE c == [s \in SUBSET S |-> Pick(s)]
           G == [s \in SUBSET S |-> [n \in Int |-> IF s = {} THEN 0 ELSE f[c[s]] + n]]
<1>1. \A s \in SUBSET S : s # {} => c[s] \in s
  BY DEF Pick
<1>2. \A s \in SUBSET S : c[s] = Pick(s)
  OBVIOUS
<1>3. ASSUME NEW s \in SUBSET S  PROVE G[s] \in [Int -> Int]
  <2>1. s # {} => f[c[s]] \in Int
    BY <1>1
  <2> HIDE DEF c
  <2> QED
    BY <2>1
<1>4. \A s \in SUBSET S, n \in Int : G[s][n] = IF s = {} THEN 0 ELSE f[c[s]] + n
  OBVIOUS
<1>5. G \in [SUBSET S -> [Int -> Int]]
  BY <1>3
<1> HIDE DEF c, G
<1>6. Unfolded(S, Int, 0, c, G)
  <2> DEFINE V == Int
             z == 0
  <2>1. G \in [SUBSET S -> [V -> V]] /\ z \in V
    BY <1>5
  <2> HIDE DEF V, z
  <2>2. Unfolded(S, V, z, c, G)
    BY <1>1, <2>1, SetRecursion
  <2> QED
    BY <2>2 DEF V, z
<1>7. PICK h \in [SUBSET S -> Int] :
        h = [s \in SUBSET S |-> IF s = {} THEN 0 ELSE G[s][h[s \ {c[s]}]]]
  BY <1>6 DEF Unfolded
<1>8. ASSUME NEW s \in SUBSET S
      PROVE  h[s] = IF s = {} THEN 0 ELSE f[Pick(s)] + h[s \ {Pick(s)}]
  <2>1. s \ {c[s]} \in SUBSET S
    OBVIOUS
  <2>2. h[s \ {c[s]}] \in Int
    BY <2>1
  <2> QED
    BY <1>2, <1>4, <1>7, <2>2
<1>9. h = [s \in SUBSET S |-> IF s = {} THEN 0 ELSE f[Pick(s)] + h[s \ {Pick(s)}]]
  BY <1>8
<1> QED
  BY <1>9 DEF IsSum

(* Two sums of functions that agree are one. *)
LEMMA SumsAgree ==
  ASSUME NEW S, IsFiniteSet(S), NEW T \in SUBSET S,
         NEW f, NEW e, \A x \in T : e[x] = f[x],
         NEW g, NEW h, IsSum(f, S, h), IsSum(e, T, g)
  PROVE  g[T] = h[T]
<1> DEFINE Bad == {n \in Nat : \E s \in SUBSET T : n = Cardinality(s) /\ g[s] # h[s]}
<1>1. \A s \in SUBSET S : IsFiniteSet(s) /\ Cardinality(s) \in Nat
  BY FS_Subset, FS_CardinalityType
<1>2. SUFFICES ASSUME Bad # {}  PROVE FALSE
  BY <1>1
<1>3. PICK n \in Bad : \A m \in Bad : n <= m
  BY <1>2, LeastNatural
<1>4. PICK s \in SUBSET T : n = Cardinality(s) /\ g[s] # h[s]
  BY <1>3
<1>5. s # {}
  BY <1>4 DEF IsSum
<1>6. Pick(s) \in s
  BY <1>5 DEF Pick
<1> DEFINE t == s \ {Pick(s)}
<1>7. Cardinality(t) = n - 1 /\ Cardinality(t) \in Nat /\ t \in SUBSET T
  BY <1>1, <1>4, <1>6, FS_RemoveElement, FS_CardinalityType
<1>8. g[t] = h[t]
  BY <1>3, <1>7
<1>9. f[Pick(s)] = e[Pick(s)]
  BY <1>6
<1> QED
  BY <1>4, <1>5, <1>8, <1>9 DEF IsSum

LEMMA SumIs ==
  ASSUME NEW S, IsFiniteSet(S), NEW f, NEW h, IsSum(f, S, h)
  PROVE  SumOver(f, S) = h[S]
<1>1. IsSum(f, S, CHOOSE g : IsSum(f, S, g))
  OBVIOUS
<1> QED
  BY <1>1, SumsAgree DEF SumOver

LEMMA SumInt ==
  ASSUME NEW S, IsFiniteSet(S), NEW f, \A x \in S : f[x] \in Int
  PROVE  SumOver(f, S) \in Int
<1>1. PICK h \in [SUBSET S -> Int] : IsSum(f, S, h)
  BY SumExists
<1> QED
  BY <1>1, SumIs

LEMMA SumEmpty ==
  ASSUME NEW f
  PROVE  SumOver(f, {}) = 0
<1>0. IsFiniteSet({})
  BY FS_EmptySet
<1>1. PICK h \in [SUBSET {} -> Int] : IsSum(f, {}, h)
  BY <1>0, SumExists
<1>2. h[{}] = 0
  BY <1>1 DEF IsSum
<1> QED
  BY <1>0, <1>1, <1>2, SumIs

(* Only what the function says of the set matters. *)
LEMMA SumSame ==
  ASSUME NEW S, IsFiniteSet(S), NEW f, NEW g,
         \A x \in S : f[x] \in Int, \A x \in S : g[x] = f[x]
  PROVE  SumOver(g, S) = SumOver(f, S)
<1>1. PICK h \in [SUBSET S -> Int] : IsSum(f, S, h)
  BY SumExists
<1>2. PICK e \in [SUBSET S -> Int] : IsSum(g, S, e)
  BY SumExists
<1>3. S \in SUBSET S
  OBVIOUS
<1> QED
  BY <1>1, <1>2, <1>3, SumIs, SumsAgree

(* The element that is picked first... *)
LEMMA SumPick ==
  ASSUME NEW S, IsFiniteSet(S), S # {}, NEW f, \A x \in S : f[x] \in Int
  PROVE  SumOver(f, S) = f[Pick(S)] + SumOver(f, S \ {Pick(S)})
<1> DEFINE T == S \ {Pick(S)}
<1>1. PICK h \in [SUBSET S -> Int] : IsSum(f, S, h)
  BY SumExists
<1>2. IsFiniteSet(T) /\ T \in SUBSET S
  BY FS_RemoveElement
<1>3. PICK g \in [SUBSET T -> Int] : IsSum(f, T, g)
  BY <1>2, SumExists
<1>4. g[T] = h[T]
  BY <1>1, <1>2, <1>3, SumsAgree
<1>5. h[S] = f[Pick(S)] + h[T]
  BY <1>1 DEF IsSum
<1>6. SumOver(f, S) = h[S]
  BY <1>1, SumIs
<1>7. SumOver(f, T) = g[T]
  BY <1>2, <1>3, SumIs
<1> QED
  BY <1>4, <1>5, <1>6, <1>7

(* ...and any other: the order does not matter. *)
LEMMA SumRemove ==
  ASSUME NEW S, IsFiniteSet(S), NEW f, \A x \in S : f[x] \in Int, NEW y \in S
  PROVE  SumOver(f, S) = f[y] + SumOver(f, S \ {y})
<1> DEFINE Fine(s, x) == SumOver(f, s) = f[x] + SumOver(f, s \ {x})
           Bad == {n \in Nat : \E s \in SUBSET S : n = Cardinality(s) /\ \E x \in s : ~Fine(s, x)}
<1>1. \A s \in SUBSET S : IsFiniteSet(s) /\ Cardinality(s) \in Nat
  BY FS_Subset, FS_CardinalityType
<1>2. SUFFICES ASSUME Bad # {}  PROVE FALSE
  <2>1. Cardinality(S) \in Nat /\ Cardinality(S) \notin Bad
    BY <1>1, <1>2
  <2> QED
    BY <2>1
<1> HIDE DEF Fine
<1>3. PICK n \in Bad : \A m \in Bad : n <= m
  BY <1>2, LeastNatural
<1>4. PICK s \in SUBSET S : n = Cardinality(s) /\ \E x \in s : ~Fine(s, x)
  BY <1>3
<1>5. PICK x \in s : ~Fine(s, x)
  BY <1>4
<1> DEFINE p == Pick(s)
<1>6. p \in s
  BY DEF Pick
<1>7. IsFiniteSet(s) /\ \A z \in s : f[z] \in Int
  BY <1>1
<1>8. Fine(s, p)
  <2>1. s # {}
    BY <1>5
  <2> QED
    BY <1>7, <2>1, SumPick DEF Fine
<1> HIDE DEF p
<1>9. x # p
  BY <1>5, <1>8
<1>10. ASSUME NEW z \in s, NEW w \in s \ {z}  PROVE Fine(s \ {z}, w)
  <2>1. s \ {z} \in SUBSET S /\ Cardinality(s \ {z}) = n - 1 /\ Cardinality(s \ {z}) \in Nat
    BY <1>1, <1>4, <1>7, FS_RemoveElement, FS_CardinalityType
  <2>2. Cardinality(s \ {z}) \notin Bad
    BY <1>3, <2>1
  <2> QED
    BY <2>1, <2>2
<1>11. Fine(s \ {p}, x) /\ Fine(s \ {x}, p)
  BY <1>6, <1>9, <1>10
<1>12. (s \ {p}) \ {x} = (s \ {x}) \ {p}
  OBVIOUS
<1> DEFINE r == SumOver(f, (s \ {x}) \ {p})
<1>13. f[x] \in Int /\ f[p] \in Int
  BY <1>6, <1>7
<1>14. r \in Int
  <2>1. IsFiniteSet((s \ {x}) \ {p})
    BY <1>7, FS_RemoveElement
  <2> QED
    BY <1>7, <2>1, SumInt
<1>15. /\ SumOver(f, s) = f[p] + (f[x] + r)
       /\ SumOver(f, s \ {x}) = f[p] + r
  BY <1>8, <1>11, <1>12 DEF Fine
<1> HIDE DEF r
<1>16. SumOver(f, s) = f[x] + SumOver(f, s \ {x})
  BY <1>13, <1>14, <1>15
<1> QED
  BY <1>5, <1>16 DEF Fine

(* An element more. *)
LEMMA SumAdd ==
  ASSUME NEW S, IsFiniteSet(S), NEW f, NEW y, y \notin S, \A x \in S \cup {y} : f[x] \in Int
  PROVE  SumOver(f, S \cup {y}) = f[y] + SumOver(f, S)
<1>1. IsFiniteSet(S \cup {y}) /\ (S \cup {y}) \ {y} = S
  BY FS_AddElement
<1> QED
  BY <1>1, SumRemove

(* A part and the rest. *)
LEMMA SumDisjoint ==
  ASSUME NEW S, IsFiniteSet(S), NEW f, \A x \in S : f[x] \in Int, NEW T \in SUBSET S
  PROVE  SumOver(f, S) = SumOver(f, T) + SumOver(f, S \ T)
<1> DEFINE Fine(t) == SumOver(f, S) = SumOver(f, t) + SumOver(f, S \ t)
           Bad == {n \in Nat : \E t \in SUBSET S : n = Cardinality(t) /\ ~Fine(t)}
<1>1. \A s \in SUBSET S : IsFiniteSet(s) /\ Cardinality(s) \in Nat
  BY FS_Subset, FS_CardinalityType
<1>2. SUFFICES ASSUME Bad # {}  PROVE FALSE
  BY <1>1
<1>3. PICK n \in Bad : \A m \in Bad : n <= m
  BY <1>2, LeastNatural
<1>4. PICK t \in SUBSET S : n = Cardinality(t) /\ ~Fine(t)
  BY <1>3
<1>5. \A s \in SUBSET S : SumOver(f, s) \in Int
  BY <1>1, SumInt
<1>6. CASE t = {}
  <2>1. S \ t = S /\ SumOver(f, t) = 0 /\ SumOver(f, S) \in Int
    BY <1>5, <1>6, SumEmpty
  <2> QED
    BY <1>4, <2>1
<1>7. CASE t # {}
  <2>1. PICK x \in t : TRUE
    BY <1>7
  <2> DEFINE u == t \ {x}
             w == S \ t
  <2>2. u \in SUBSET S /\ Cardinality(u) = n - 1 /\ Cardinality(u) \in Nat
    BY <1>1, <1>4, FS_RemoveElement, FS_CardinalityType
  <2>3. Fine(u)
    <3>0. n \in Nat
      OBVIOUS
    <3>1. Cardinality(u) \notin Bad
      <4> HIDE DEF Bad, u
      <4> QED
        BY <1>3, <2>2, <3>0
    <3> HIDE DEF Fine, u
    <3> QED
      BY <2>2, <3>1
  <2>4. S \ u = w \cup {x} /\ x \notin w /\ w \in SUBSET S /\ f[x] \in Int
    OBVIOUS
  <2>5. SumOver(f, S \ u) = f[x] + SumOver(f, w)
    BY <1>1, <2>4, SumAdd
  <2>6. SumOver(f, t) = f[x] + SumOver(f, u)
    BY <1>1, SumRemove
  <2>7. SumOver(f, u) \in Int /\ SumOver(f, w) \in Int
    BY <1>5, <2>2, <2>4
  <2> HIDE DEF u, w
  <2>8. SumOver(f, S) = SumOver(f, u) + SumOver(f, S \ u)
    BY <2>3
  <2>9. SumOver(f, S) = SumOver(f, t) + SumOver(f, w)
    BY <2>4, <2>5, <2>6, <2>7, <2>8
  <2> QED
    BY <1>4, <2>9 DEF w
<1> QED
  BY <1>6, <1>7

(* What is not negative adds up to something that is not. *)
LEMMA SumNat ==
  ASSUME NEW S, IsFiniteSet(S), NEW f, \A x \in S : f[x] \in Nat
  PROVE  SumOver(f, S) \in Nat
<1> DEFINE Bad == {n \in Nat : \E t \in SUBSET S : n = Cardinality(t) /\ SumOver(f, t) \notin Nat}
<1>1. \A s \in SUBSET S : IsFiniteSet(s) /\ Cardinality(s) \in Nat
  BY FS_Subset, FS_CardinalityType
<1>2. SUFFICES ASSUME Bad # {}  PROVE FALSE
  BY <1>1
<1>3. PICK n \in Bad : \A m \in Bad : n <= m
  BY <1>2, LeastNatural
<1>4. PICK t \in SUBSET S : n = Cardinality(t) /\ SumOver(f, t) \notin Nat
  BY <1>3
<1>5. t # {}
  BY <1>4, SumEmpty
<1>6. PICK x \in t : TRUE
  BY <1>5
<1>7. t \ {x} \in SUBSET S /\ Cardinality(t \ {x}) = n - 1 /\ Cardinality(t \ {x}) \in Nat
  BY <1>1, <1>4, FS_RemoveElement, FS_CardinalityType
<1>8. SumOver(f, t \ {x}) \in Nat
  BY <1>3, <1>7
<1>9. SumOver(f, t) = f[x] + SumOver(f, t \ {x})
  <2>1. IsFiniteSet(t) /\ \A z \in t : f[z] \in Int
    BY <1>1
  <2> QED
    BY <2>1, SumRemove
<1> QED
  BY <1>4, <1>6, <1>8, <1>9
=============================================================================
