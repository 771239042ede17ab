----------------------------- MODULE Structures -----------------------------
(***************************************************************************)
(* What the proofs of all the components rest on:                          *)
(*                                                                         *)
(*   - induction without operators: the principles of NaturalsInduction    *)
(*     and WellFoundedInduction, with a set in the place of the predicate, *)
(*     so that every backend can use them; sums; quotients;                *)
(*   - doubly linked lists, as mm.c and pagemap.c keep them;               *)
(*   - tilings of chunks by blocks, as mm.c cuts and joins them;           *)
(*   - traces: the ids a client holds after each request.                  *)
(***************************************************************************)
EXTENDS Intervals, Traces, FiniteSets, Functions, FiniteSetTheorems, WellFoundedInduction,
        SequenceTheorems, TLAPS

(* Every non-empty set of natural numbers has a least element. *)
LEMMA NatMinimum ==
  ASSUME NEW T \in SUBSET Nat, T # {}
  PROVE  \E n \in T : \A m \in T : n <= m
<1> DEFINE R == OpToRel(<, Nat)
<1>1. IsWellFoundedOn(R, Nat)
  BY NatLessThanWellFounded
<1>2. \A x, y \in Nat : x < y => <<x, y>> \in R
  BY DEF OpToRel
<1> HIDE DEF R
<1>3. T \subseteq Nat /\ T # {}
  OBVIOUS
<1>4. PICK n \in T : \A m \in T : ~ (<<m, n>> \in R)
  BY <1>1, <1>3, WFMin, Zenon
<1>5. \A m \in T : ~ (m < n)
  BY <1>2, <1>4
<1> QED
  BY <1>5

(* A set with 0 that is closed under successor holds all natural numbers. *)
LEMMA NatInduct ==
  ASSUME NEW S, 0 \in S, \A n \in Nat : n \in S => n + 1 \in S
  PROVE  \A n \in Nat : n \in S
<1> SUFFICES ASSUME Nat \ S # {} PROVE FALSE
  OBVIOUS
<1>1. PICK n \in Nat \ S : \A m \in Nat \ S : n <= m
  BY NatMinimum
<1>2. n # 0 /\ n - 1 \in Nat /\ n - 1 \in S
  BY <1>1
<1> QED
  BY <1>1, <1>2

(* A family of sets with {} that is closed under adding an element of the  *)
(* finite set S holds S.                                                   *)
LEMMA FiniteInduct ==
  ASSUME NEW S, IsFiniteSet(S), NEW F, {} \in F,
         \A T \in SUBSET S : \A x \in S \ T : T \in F => T \cup {x} \in F
  PROVE  S \in F
<1> DEFINE N == {n \in Nat : \A T \in SUBSET S : Cardinality(T) = n => T \in F}
<1>1. \A T \in SUBSET S : IsFiniteSet(T) /\ Cardinality(T) \in Nat
  BY FS_Subset, FS_CardinalityType
<1>2. 0 \in N
  BY <1>1, FS_EmptySet
<1>3. ASSUME NEW n \in Nat, n \in N PROVE n + 1 \in N
  <2> SUFFICES ASSUME NEW T \in SUBSET S, Cardinality(T) = n + 1 PROVE T \in F
    OBVIOUS
  <2>1. IsFiniteSet(T) /\ T # {}
    <3>1. T = {} => Cardinality(T) = 0
      BY FS_EmptySet, Zenon
    <3> QED
      BY <1>1, <3>1
  <2>2. PICK x : x \in T
    BY <2>1
  <2>3. Cardinality(T \ {x}) = n
    <3>1. Cardinality(T \ {x}) = Cardinality(T) - 1
      BY <2>1, <2>2, FS_RemoveElement, Zenon
    <3> QED
      BY <3>1
  <2>4. T \ {x} \in F
    BY <1>3, <2>3
  <2>5. (T \ {x}) \cup {x} = T /\ x \in S \ (T \ {x}) /\ T \ {x} \in SUBSET S
    BY <2>2
  <2> QED
    BY <2>4, <2>5
<1> HIDE DEF N
<1>4. Cardinality(S) \in N
  BY <1>1, <1>2, <1>3, NatInduct
<1> QED
  BY <1>4 DEF N

(* Iteration of a function from a start value. *)
Iterates(W, S, F, s0) ==
  W \in [Nat -> S] /\ W[0] = s0 /\ \A n \in Nat : W[n + 1] = F[W[n]]

(* A function can be iterated from any start value of its domain.          *)
LEMMA Iteration ==
  ASSUME NEW S, NEW F, F \in [S -> S], NEW s0, s0 \in S
  PROVE  \E W : Iterates(W, S, F, s0)
<1> DEFINE Approx(n) == {g \in [0 .. n -> S] :
                           g[0] = s0 /\ \A k \in 0 .. n - 1 : g[k + 1] = F[g[k]]}
           Exist == {n \in Nat : Approx(n) # {}}
           Agree == {k \in Nat : \A n, m \in Nat : \A g \in Approx(n), h \in Approx(m) :
                                   k <= n /\ k <= m => g[k] = h[k]}
<1>1. \A n \in Nat : n \in Exist
  <2>1. 0 \in Exist
    <3>1. [k \in 0 .. 0 |-> s0] \in Approx(0)
      OBVIOUS
    <3> QED
      BY <3>1
  <2>2. ASSUME NEW n \in Nat, n \in Exist PROVE n + 1 \in Exist
    <3>1. PICK g : g \in Approx(n)
      BY <2>2
    <3>2. [k \in 0 .. n + 1 |-> IF k <= n THEN g[k] ELSE F[g[n]]] \in Approx(n + 1)
      BY <3>1
    <3> QED
      BY <3>2, SMTT(60)
  <2> HIDE DEF Exist
  <2> QED
    BY <2>1, <2>2, NatInduct
<1>2. \A k \in Nat : k \in Agree
  <2>1. 0 \in Agree
    OBVIOUS
  <2>2. ASSUME NEW k \in Nat, k \in Agree PROVE k + 1 \in Agree
    <3> SUFFICES ASSUME NEW n \in Nat, NEW m \in Nat, NEW g \in Approx(n), NEW h \in Approx(m),
                        k + 1 <= n, k + 1 <= m
                 PROVE  g[k + 1] = h[k + 1]
      BY SMTT(60)
    <3>1. g[k + 1] = F[g[k]] /\ h[k + 1] = F[h[k]]
      OBVIOUS
    <3>2. k <= n /\ k <= m
      OBVIOUS
    <3>3. g[k] = h[k]
      <4> HIDE DEF Approx
      <4> QED
        BY <2>2, <3>2
    <3> QED
      BY <3>1, <3>3
  <2> HIDE DEF Agree
  <2> QED
    BY <2>1, <2>2, NatInduct
<1> DEFINE A(n) == CHOOSE g \in Approx(n) : TRUE
           W == [n \in Nat |-> A(n)[n]]
<1>3. \A n \in Nat : A(n) \in Approx(n)
  BY <1>1
<1> HIDE DEF A
<1>4. W \in [Nat -> S]
  BY <1>3
<1>5. W[0] = s0
  BY <1>3
<1>6. ASSUME NEW n \in Nat PROVE W[n + 1] = F[W[n]]
  <2>1. A(n + 1)[n + 1] = F[A(n + 1)[n]]
    BY <1>3
  <2>2. A(n + 1)[n] = A(n)[n]
    <3>1. A(n + 1) \in Approx(n + 1) /\ A(n) \in Approx(n)
      BY <1>3
    <3> HIDE DEF Approx
    <3> QED
      BY <1>2, <3>1 DEF Agree
  <2> QED
    BY <2>1, <2>2
<1> QED
  BY <1>4, <1>5, <1>6 DEF Iterates

(* A finite non-empty set of integers has a largest element. *)
LEMMA IntMaximum ==
  ASSUME NEW S \in SUBSET Int, IsFiniteSet(S), S # {}
  PROVE  \E x \in S : \A y \in S : x >= y
<1> DEFINE F == {T \in SUBSET S : T = {} \/ \E x \in T : \A y \in T : x >= y}
<1>1. {} \in F
  OBVIOUS
<1>2. ASSUME NEW T \in SUBSET S, NEW x \in S \ T, T \in F PROVE T \cup {x} \in F
  <2>1. CASE T = {}
    BY <2>1
  <2>2. CASE \E m \in T : \A y \in T : m >= y
    <3>1. PICK m \in T : \A y \in T : m >= y
      BY <2>2
    <3>2. m \in Int /\ x \in Int /\ T \subseteq Int
      OBVIOUS
    <3>3. CASE m >= x
      BY <3>1, <3>2, <3>3
    <3>4. CASE x >= m
      BY <3>1, <3>2, <3>4
    <3> QED
      BY <3>2, <3>3, <3>4
  <2> QED
    BY <1>2, <2>1, <2>2
<1> HIDE DEF F
<1>3. S \in F
  BY <1>1, <1>2, FiniteInduct
<1> QED
  BY <1>3 DEF F

-----------------------------------------------------------------------------
(* Sums over finite sets: the recursion that FoldFunctionOnSet defines on  *)
(* the subsets of S, which takes out one element at a time.                *)
Sums(g, f, S) ==
  g = [s \in SUBSET S |-> IF s = {} THEN 0
                          ELSE f[CHOOSE x \in s : TRUE] + g[s \ {CHOOSE x \in s : TRUE}]]

(* A sum does not depend on the order of the elements. *)
Additive(g, f, S) ==
  /\ g \in [SUBSET S -> Int] /\ g[{}] = 0
  /\ \A T \in SUBSET S : \A x \in S \ T : g[T \cup {x}] = g[T] + f[x]

(* Every finite family of integers has sums. *)
LEMMA AdditiveExists ==
  ASSUME NEW S, IsFiniteSet(S), NEW f, \A x \in S : f[x] \in Int
  PROVE  \E g : Additive(g, f, S)
<1> DEFINE F == {T \in SUBSET S : \E g : Additive(g, f, T)}
<1>1. {} \in F
  <2>1. Additive([T \in SUBSET {} |-> 0], f, {})
    BY DEF Additive
  <2> QED
    BY <2>1
<1>2. ASSUME NEW T \in SUBSET S, NEW x \in S \ T, T \in F PROVE T \cup {x} \in F
  <2>1. PICK g : Additive(g, f, T)
    BY <1>2
  <2> DEFINE V == T \cup {x}
             h == [U \in SUBSET V |-> IF x \in U THEN g[U \ {x}] + f[x] ELSE g[U]]
  <2>2. \A U \in SUBSET V : U \ {x} \in SUBSET T /\ (x \notin U => U \in SUBSET T /\ U \ {x} = U)
    OBVIOUS
  <2>3. h \in [SUBSET V -> Int]
    <3>1. ASSUME NEW U \in SUBSET V PROVE h[U] \in Int
      BY <2>1, <2>2 DEF Additive
    <3> QED
      BY <3>1
  <2>4. h[{}] = 0
    BY <2>1 DEF Additive
  <2>5. ASSUME NEW U \in SUBSET V, NEW y \in V \ U PROVE h[U \cup {y}] = h[U] + f[y]
    <3>0. U \cup {y} \in SUBSET V /\ f[y] \in Int /\ f[x] \in Int
      OBVIOUS
    <3>1. CASE y = x
      <4>1. (U \cup {y}) \ {x} = U /\ x \notin U /\ x \in U \cup {y}
        BY <3>1
      <4> QED
        BY <3>0, <3>1, <4>1
    <3>2. CASE y # x /\ x \in U
      <4>1. (U \cup {y}) \ {x} = (U \ {x}) \cup {y} /\ y \in T \ (U \ {x}) /\ U \ {x} \in SUBSET T
        BY <2>2, <3>2
      <4>2. g[(U \ {x}) \cup {y}] = g[U \ {x}] + f[y] /\ g[U \ {x}] \in Int
        BY <2>1, <4>1 DEF Additive
      <4>3. h[U \cup {y}] = g[(U \ {x}) \cup {y}] + f[x] /\ h[U] = g[U \ {x}] + f[x]
        BY <3>0, <3>2, <4>1
      <4> HIDE DEF h
      <4> QED
        BY <3>0, <4>2, <4>3
    <3>3. CASE y # x /\ x \notin U
      <4>1. y \in T \ U /\ U \in SUBSET T /\ x \notin U \cup {y}
        BY <2>2, <3>3
      <4>2. g[U \cup {y}] = g[U] + f[y]
        BY <2>1, <4>1 DEF Additive
      <4> QED
        BY <3>0, <3>3, <4>1, <4>2
    <3> QED
      BY <3>1, <3>2, <3>3
  <2> HIDE DEF h
  <2>6. Additive(h, f, V)
    BY <2>3, <2>4, <2>5 DEF Additive
  <2>7. V \in SUBSET S
    OBVIOUS
  <2> HIDE DEF V
  <2> QED
    BY <2>6, <2>7 DEF V
<1> HIDE DEF F
<1>3. S \in F
  BY <1>1, <1>2, FiniteInduct
<1> QED
  BY <1>3 DEF F

(* What is additive satisfies the recursion. *)
LEMMA AdditiveSums ==
  ASSUME NEW S, IsFiniteSet(S), NEW f, \A x \in S : f[x] \in Int, NEW a, Additive(a, f, S)
  PROVE  Sums(a, f, S)
<1>1. ASSUME NEW s \in SUBSET S, s # {}
      PROVE  a[s] = f[CHOOSE x \in s : TRUE] + a[s \ {CHOOSE x \in s : TRUE}]
  <2> DEFINE c == CHOOSE x \in s : TRUE
  <2>1. c \in s
    BY <1>1
  <2> HIDE DEF c
  <2>2. s = (s \ {c}) \cup {c} /\ s \ {c} \in SUBSET S /\ c \in S \ (s \ {c})
    BY <2>1
  <2>3. a[s] = a[s \ {c}] + f[c] /\ a[s \ {c}] \in Int /\ f[c] \in Int
    BY <2>2 DEF Additive
  <2>4. a[s] = f[c] + a[s \ {c}]
    BY <2>3
  <2> QED
    BY <2>4 DEF c
<1> QED
  BY <1>1 DEF Additive, Sums

(* The recursion has one solution. *)
LEMMA SumsAdditive ==
  ASSUME NEW S, IsFiniteSet(S), NEW f, \A x \in S : f[x] \in Int, NEW g, Sums(g, f, S),
         NEW a, Additive(a, f, S)
  PROVE  g[S] = a[S]
<1> DEFINE N == {n \in Nat : \A U \in SUBSET S : Cardinality(U) = n => g[U] = a[U]}
<1>0. \A s \in SUBSET S : g[s] = IF s = {} THEN 0
        ELSE f[CHOOSE x \in s : TRUE] + g[s \ {CHOOSE x \in s : TRUE}]
  BY DEF Sums
<1>1. \A U \in SUBSET S : IsFiniteSet(U) /\ Cardinality(U) \in Nat
  BY FS_Subset, FS_CardinalityType
<1>2. 0 \in N
  <2>1. \A U \in SUBSET S : Cardinality(U) = 0 => U = {}
    BY <1>1, FS_EmptySet
  <2> QED
    BY <1>0, <2>1 DEF Additive
<1>3. ASSUME NEW n \in Nat, n \in N PROVE n + 1 \in N
  <2> SUFFICES ASSUME NEW U \in SUBSET S, Cardinality(U) = n + 1 PROVE g[U] = a[U]
    OBVIOUS
  <2> DEFINE c == CHOOSE y \in U : TRUE
  <2>1. U # {}
    <3>1. U = {} => Cardinality(U) = 0
      BY FS_EmptySet, Zenon
    <3> QED
      BY <3>1
  <2>2. c \in U
    BY <2>1
  <2>3. g[U] = f[c] + g[U \ {c}]
    BY <1>0, <2>1
  <2> HIDE DEF c
  <2>4. g[U \ {c}] = a[U \ {c}]
    <3>1. Cardinality(U \ {c}) = n
      <4>1. Cardinality(U \ {c}) = Cardinality(U) - 1
        BY <1>1, <2>2, FS_RemoveElement, Zenon
      <4> QED
        BY <4>1
    <3> QED
      BY <1>3, <3>1
  <2>5. U = (U \ {c}) \cup {c} /\ U \ {c} \in SUBSET S /\ c \in S \ (U \ {c})
    BY <2>2
  <2>6. a[U] = a[U \ {c}] + f[c] /\ a[U \ {c}] \in Int /\ f[c] \in Int
    BY <2>5 DEF Additive
  <2> QED
    BY <2>3, <2>4, <2>6
<1> HIDE DEF N
<1>4. \A n \in Nat : n \in N
  BY <1>2, <1>3, NatInduct
<1>5. Cardinality(S) \in N
  BY <1>1, <1>4
<1> QED
  BY <1>5 DEF N

SumOver(f, S) == FoldFunctionOnSet(+, 0, f, S)

(* So it is the sum. *)
LEMMA SumUnique ==
  ASSUME NEW S, IsFiniteSet(S), NEW f, \A x \in S : f[x] \in Int, NEW a, Additive(a, f, S)
  PROVE  SumOver(f, S) = a[S]
<1> DEFINE g == CHOOSE h : Sums(h, f, S)
<1>1. SumOver(f, S) = g[S]
  BY DEF SumOver, FoldFunctionOnSet, MapThenFoldSet, Sums
<1>2. Sums(g, f, S)
  BY AdditiveSums
<1> HIDE DEF g
<1> QED
  BY <1>1, <1>2, SumsAdditive

(* The sum over no index. *)
LEMMA SumEmpty ==
  ASSUME NEW f
  PROVE  SumOver(f, {}) = 0
<1>1. IsFiniteSet({}) /\ Additive([T \in SUBSET {} |-> 0], f, {})
  BY FS_EmptySet DEF Additive
<1>2. SumOver(f, {}) = [T \in SUBSET {} |-> 0][{}]
  BY <1>1, SumUnique
<1> QED
  BY <1>2

(* The sum with one more index. *)
LEMMA SumAdd ==
  ASSUME NEW S, IsFiniteSet(S), NEW f, \A y \in S : f[y] \in Int,
         NEW x, x \notin S, f[x] \in Int
  PROVE  SumOver(f, S) \in Int /\ SumOver(f, S \cup {x}) = SumOver(f, S) + f[x]
<1> DEFINE V == S \cup {x}
<1>1. IsFiniteSet(V) /\ \A y \in V : f[y] \in Int
  BY FS_AddElement
<1> HIDE DEF V
<1>2. PICK a : Additive(a, f, V)
  BY <1>1, AdditiveExists
<1>3. SumOver(f, V) = a[V]
  BY <1>1, <1>2, SumUnique
<1> DEFINE b == [T \in SUBSET S |-> a[T]]
<1>4. S \in SUBSET V /\ x \in V \ S /\ S \cup {x} = V
  BY DEF V
<1>5. Additive(b, f, S)
  BY <1>2, <1>4 DEF Additive
<1>6. SumOver(f, S) = b[S]
  <2> HIDE DEF b
  <2> QED
    BY <1>5, SumUnique
<1>7. a[V] = a[S] + f[x] /\ a[S] \in Int
  BY <1>2, <1>4 DEF Additive
<1> QED
  BY <1>3, <1>4, <1>6, <1>7

(* Functions that agree on the indices have the same sum. *)
LEMMA SumAgree ==
  ASSUME NEW S, IsFiniteSet(S), NEW f, \A y \in S : f[y] \in Int,
         NEW g, \A y \in S : g[y] = f[y]
  PROVE  SumOver(g, S) = SumOver(f, S) /\ SumOver(f, S) \in Int
<1>1. PICK a : Additive(a, f, S)
  BY AdditiveExists
<1>2. Additive(a, g, S)
  BY <1>1 DEF Additive
<1>3. \A y \in S : g[y] \in Int
  OBVIOUS
<1>4. SumOver(f, S) = a[S]
  BY <1>1, SumUnique
<1>5. SumOver(g, S) = a[S]
  BY <1>2, <1>3, SumUnique
<1>6. a[S] \in Int
  BY <1>1 DEF Additive
<1> QED
  BY <1>4, <1>5, <1>6

(* The sum without one of the indices. *)
LEMMA SumRemove ==
  ASSUME NEW S, IsFiniteSet(S), NEW f, \A y \in S : f[y] \in Int, NEW x, x \in S
  PROVE  SumOver(f, S \ {x}) = SumOver(f, S) - f[x] /\ SumOver(f, S) \in Int
<1> DEFINE R == S \ {x}
<1>1. IsFiniteSet(R) /\ (\A y \in R : f[y] \in Int) /\ x \notin R /\ R \cup {x} = S /\ f[x] \in Int
  BY FS_RemoveElement
<1> HIDE DEF R
<1>2. SumOver(f, R) \in Int /\ SumOver(f, R \cup {x}) = SumOver(f, R) + f[x]
  BY <1>1, SumAdd
<1>3. SumOver(f, S) = SumOver(f, R) + f[x]
  BY <1>1, <1>2
<1>4. SumOver(f, R) = SumOver(f, S) - f[x] /\ SumOver(f, S) \in Int
  BY <1>1, <1>2, <1>3
<1> QED
  BY <1>4 DEF R

(* The sum after a change at one index. *)
LEMMA SumChange ==
  ASSUME NEW S, IsFiniteSet(S), NEW f, \A y \in S : f[y] \in Int, NEW x, x \in S,
         NEW g, g[x] \in Int, \A y \in S \ {x} : g[y] = f[y]
  PROVE  SumOver(g, S) = SumOver(f, S) - f[x] + g[x] /\ SumOver(f, S) \in Int
<1> DEFINE R == S \ {x}
<1>1. IsFiniteSet(R) /\ (\A y \in R : f[y] \in Int) /\ (\A y \in R : g[y] = f[y])
  BY FS_RemoveElement
<1>2. R \cup {x} = S /\ x \notin R /\ \A y \in R : g[y] \in Int
  BY <1>1
<1>a. SumOver(f, S \ {x}) = SumOver(f, S) - f[x] /\ SumOver(f, S) \in Int
  BY SumRemove
<1>b. SumOver(f, R) = SumOver(f, S) - f[x]
  BY <1>a DEF R
<1> HIDE DEF R
<1>3. SumOver(g, R) = SumOver(f, R) /\ SumOver(f, R) \in Int
  BY <1>1, SumAgree
<1>4. SumOver(g, R \cup {x}) = SumOver(g, R) + g[x]
  BY <1>1, <1>2, SumAdd
<1>5. SumOver(g, S) = SumOver(g, R) + g[x]
  BY <1>2, <1>4
<1> QED
  BY <1>3, <1>5, <1>a, <1>b

(* A sum of natural numbers is one. *)
LEMMA SumNat ==
  ASSUME NEW S, IsFiniteSet(S), NEW f, \A y \in S : f[y] \in Nat
  PROVE  SumOver(f, S) \in Nat
<1> DEFINE F == {T \in SUBSET S : SumOver(f, T) \in Nat}
<1>1. {} \in F
  BY SumEmpty
<1>2. ASSUME NEW T \in SUBSET S, NEW x \in S \ T, T \in F PROVE T \cup {x} \in F
  <2>1. IsFiniteSet(T) /\ (\A y \in T : f[y] \in Int) /\ f[x] \in Int /\ f[x] \in Nat
    BY FS_Subset
  <2>2. SumOver(f, T \cup {x}) = SumOver(f, T) + f[x]
    BY <1>2, <2>1, SumAdd
  <2>3. SumOver(f, T) \in Nat /\ T \cup {x} \in SUBSET S
    BY <1>2
  <2> QED
    BY <2>1, <2>2, <2>3
<1> HIDE DEF F
<1>3. S \in F
  BY <1>1, <1>2, FiniteInduct
<1> QED
  BY <1>3 DEF F

-----------------------------------------------------------------------------
(* What a quotient is. *)
LEMMA DivBounds ==
  ASSUME NEW x \in Int, NEW d \in Nat, d > 0
  PROVE  /\ x \div d \in Int
         /\ d * (x \div d) \in Int
         /\ d * (x \div d) <= x /\ x < d * (x \div d) + d
OBVIOUS

(* Products of a natural number keep the order. *)
LEMMA TimesMonotone ==
  ASSUME NEW d \in Nat, NEW a \in Int, NEW b \in Int, a <= b
  PROVE  d * a <= d * b
OBVIOUS

(* A number within a step of a multiple has its quotient. *)
LEMMA DivUnique ==
  ASSUME NEW x \in Int, NEW d \in Nat, d > 0, NEW q \in Int, d * q <= x, x < d * q + d
  PROVE  x \div d = q
<1> DEFINE p == x \div d
<1>1. p \in Int /\ d * p \in Int /\ d * q \in Int /\ d * p <= x /\ x < d * p + d
  BY DivBounds
<1> HIDE DEF p
<1>2. ASSUME p >= q + 1 PROVE FALSE
  <2>1. d * (q + 1) <= d * p
    BY <1>1, <1>2, TimesMonotone
  <2>2. d * (q + 1) = d * q + d
    OBVIOUS
  <2> QED
    BY <1>1, <2>1, <2>2
<1>3. ASSUME q >= p + 1 PROVE FALSE
  <2>1. d * (p + 1) <= d * q
    BY <1>1, <1>3, TimesMonotone
  <2>2. d * (p + 1) = d * p + d
    BY <1>1
  <2> QED
    BY <1>1, <2>1, <2>2
<1>4. p = q
  BY <1>1, <1>2, <1>3
<1> QED
  BY <1>4 DEF p

(* A multiple leaves no remainder. *)
LEMMA ModTimes ==
  ASSUME NEW d \in Nat, d > 0, NEW q \in Int
  PROVE  (d * q) % d = 0
OBVIOUS

(* Rounding up to a multiple of p does not lose anything. *)
LEMMA RoundUp ==
  ASSUME NEW a \in Nat, NEW p \in Nat \ {0}
  PROVE  /\ (a + p - 1) \div p \in Nat
         /\ ((a + p - 1) \div p) * p >= a
<1> DEFINE x == a + p - 1
           q == x \div p
<1>1. x \in Nat /\ x = p * q + (x % p) /\ x % p \in 0 .. p - 1 /\ q \in Nat
  OBVIOUS
<1>2. q * p = p * q /\ p * q \in Int
  BY <1>1
<1> QED
  BY <1>1, <1>2

(* A number below the modulus is not changed. *)
LEMMA NoWrap ==
  ASSUME NEW x \in Nat, NEW m \in Nat, x < m
  PROVE  x % m = x
<1>1. m \in Nat \ {0}
  OBVIOUS
<1>2. x = m * (x \div m) + (x % m) /\ x % m \in 0 .. m - 1 /\ x \div m \in Nat
  BY <1>1
<1>3. CASE x \div m = 0
  BY <1>2, <1>3
<1>4. CASE x \div m >= 1
  <2>1. m * (x \div m) >= m
    BY <1>1, <1>2, <1>4
  <2> QED
    BY <1>2, <2>1
<1> QED
  BY <1>2, <1>3, <1>4

-----------------------------------------------------------------------------
(* Doubly linked lists: a head and two links per address.  Linked says     *)
(* that they form list L.                                                  *)
At(L, i, nil) == IF i \in 1 .. Len(L) THEN L[i] ELSE nil

Elems(L) == {L[i] : i \in 1 .. Len(L)}

Linked(L, P, nil, head, next, prev) ==
  /\ L \in Seq(P)
  /\ \A i, j \in 1 .. Len(L) : L[i] = L[j] => i = j
  /\ head = At(L, 1, nil)
  /\ \A i \in 1 .. Len(L) : /\ next[L[i]] = At(L, i + 1, nil)
                            /\ prev[L[i]] = At(L, i - 1, nil)

Without(L, k) == [i \in 1 .. Len(L) - 1 |-> IF i < k THEN L[i] ELSE L[i + 1]]

(* An element in front of a sequence. *)
LEMMA ConsProperties ==
  ASSUME NEW P, NEW L \in Seq(P), NEW p \in P
  PROVE  /\ <<p>> \o L \in Seq(P) /\ Len(<<p>> \o L) = Len(L) + 1
         /\ (<<p>> \o L)[1] = p
         /\ \A i \in 1 .. Len(L) : (<<p>> \o L)[i + 1] = L[i]
OBVIOUS

(* An address put in front of the list. *)
LEMMA PushLinked ==
  ASSUME NEW P, NEW nil, nil \notin P, NEW L, NEW head, NEW next, NEW prev,
         Linked(L, P, nil, head, next, prev),
         NEW p \in P, p \notin Elems(L), NEW next2, NEW prev2,
         next2[p] = head, prev2[p] = nil,
         \A q \in Elems(L) : /\ next2[q] = next[q]
                             /\ prev2[q] = IF q = head THEN p ELSE prev[q]
  PROVE  /\ Linked(<<p>> \o L, P, nil, p, next2, prev2)
         /\ Elems(<<p>> \o L) = Elems(L) \cup {p}
<1> DEFINE K == <<p>> \o L
<1>1. L \in Seq(P) /\ Len(L) \in Nat /\ \A i \in 1 .. Len(L) : L[i] \in P /\ L[i] \in Elems(L)
  BY DEF Linked, Elems
<1>2. K \in Seq(P) /\ Len(K) = Len(L) + 1 /\ K[1] = p
      /\ \A i \in 1 .. Len(L) : K[i + 1] = L[i]
  BY <1>1
<1>3. \A i \in 2 .. Len(K) : i - 1 \in 1 .. Len(L) /\ K[i] = L[i - 1]
  BY <1>1, <1>2
<1> HIDE DEF K
<1>4. Elems(K) = Elems(L) \cup {p}
  <2>1. ASSUME NEW q \in Elems(K) PROVE q \in Elems(L) \cup {p}
    <3>1. PICK i \in 1 .. Len(K) : q = K[i]
      BY DEF Elems
    <3> QED
      BY <1>1, <1>2, <1>3, <3>1
  <2>2. ASSUME NEW q \in Elems(L) PROVE q \in Elems(K)
    <3>1. PICK i \in 1 .. Len(L) : q = L[i]
      BY DEF Elems
    <3>2. i + 1 \in 1 .. Len(K) /\ K[i + 1] = q
      BY <1>1, <1>2, <3>1
    <3> QED
      BY <3>2 DEF Elems
  <2>3. p \in Elems(K)
    BY <1>1, <1>2 DEF Elems
  <2> QED
    BY <2>1, <2>2, <2>3
<1>5. ASSUME NEW i \in 1 .. Len(K), NEW j \in 1 .. Len(K), K[i] = K[j] PROVE i = j
  <2>1. CASE i = 1 \/ j = 1
    <3>1. \A m \in 2 .. Len(K) : K[m] # p
      BY <1>1, <1>3
    <3> QED
      BY <1>1, <1>2, <1>5, <2>1, <3>1
  <2>2. CASE i # 1 /\ j # 1
    <3>1. i - 1 \in 1 .. Len(L) /\ j - 1 \in 1 .. Len(L) /\ L[i - 1] = L[j - 1]
      BY <1>1, <1>2, <1>3, <1>5, <2>2
    <3>2. i - 1 = j - 1
      BY <3>1 DEF Linked
    <3> QED
      BY <3>1, <3>2
  <2> QED
    BY <2>1, <2>2
<1>6. p = At(K, 1, nil)
  BY <1>1, <1>2 DEF At
<1>7. ASSUME NEW i \in 1 .. Len(K)
      PROVE  next2[K[i]] = At(K, i + 1, nil) /\ prev2[K[i]] = At(K, i - 1, nil)
  <2>1. CASE i = 1
    <3>1. At(K, 2, nil) = At(L, 1, nil) /\ At(K, 0, nil) = nil
      BY <1>1, <1>2, <1>3 DEF At
    <3>2. head = At(L, 1, nil)
      BY DEF Linked
    <3> QED
      BY <1>2, <2>1, <3>1, <3>2
  <2>2. CASE i # 1
    <3> DEFINE j == i - 1
    <3>1. j \in 1 .. Len(L) /\ K[i] = L[j] /\ L[j] \in Elems(L)
      BY <1>1, <1>2, <1>3, <2>2
    <3>2. next[L[j]] = At(L, j + 1, nil) /\ prev[L[j]] = At(L, j - 1, nil)
      BY <3>1 DEF Linked
    <3>3. At(K, i + 1, nil) = At(L, j + 1, nil)
      BY <1>1, <1>2, <1>3, <3>1 DEF At
    <3>4. CASE j = 1
      <4>1. head = L[j] /\ At(K, i - 1, nil) = p
        BY <1>1, <1>2, <3>1, <3>4 DEF Linked, At
      <4> QED
        BY <3>1, <3>2, <3>3, <4>1
    <3>5. CASE j # 1
      <4>1. head # L[j]
        BY <1>1, <3>1, <3>5, SMTT(60) DEF Linked, At
      <4>2. At(K, i - 1, nil) = At(L, j - 1, nil)
        BY <1>1, <1>2, <1>3, <3>1, <3>5 DEF At
      <4> QED
        BY <3>1, <3>2, <3>3, <4>1, <4>2
    <3> QED
      BY <3>4, <3>5
  <2> QED
    BY <2>1, <2>2
<1>8. Linked(K, P, nil, p, next2, prev2)
  BY <1>2, <1>5, <1>6, <1>7 DEF Linked
<1> QED
  BY <1>4, <1>8 DEF K

(* An address taken out of the list, wherever it is. *)
LEMMA UnlinkLinked ==
  ASSUME NEW P, NEW nil, nil \notin P, NEW L, NEW head, NEW next, NEW prev,
         Linked(L, P, nil, head, next, prev),
         NEW k \in 1 .. Len(L), NEW p, p = L[k], NEW head2, NEW next2, NEW prev2,
         head2 = (IF prev[p] = nil THEN next[p] ELSE head),
         \A q \in Elems(L) \ {p} :
           /\ next2[q] = IF q = prev[p] THEN next[p] ELSE next[q]
           /\ prev2[q] = IF q = next[p] THEN prev[p] ELSE prev[q]
  PROVE  /\ Linked(Without(L, k), P, nil, head2, next2, prev2)
         /\ Elems(Without(L, k)) = Elems(L) \ {p}
<1> DEFINE K == Without(L, k)
           old(i) == IF i < k THEN i ELSE i + 1
<1>1. L \in Seq(P) /\ Len(L) \in Nat /\ Len(L) >= 1
      /\ \A i \in 1 .. Len(L) : L[i] \in P /\ L[i] \in Elems(L) /\ L[i] # nil
  BY DEF Linked, Elems
<1>2. \A i, j \in 1 .. Len(L) : L[i] = L[j] => i = j
  BY DEF Linked
<1>3. K \in Seq(P) /\ Len(K) = Len(L) - 1
  <2>1. K \in [1 .. Len(L) - 1 -> P]
    BY <1>1 DEF Without
  <2> QED
    BY <1>1, <2>1
<1>4. \A i \in 1 .. Len(K) : old(i) \in 1 .. Len(L) /\ old(i) # k /\ K[i] = L[old(i)]
  BY <1>1, <1>3 DEF Without
<1>5. \A i \in 1 .. Len(K) : At(K, i + 1, nil) = IF i + 1 = k THEN At(L, i + 2, nil)
                                                 ELSE At(L, old(i) + 1, nil)
  BY <1>1, <1>3, <1>4, SMTT(60) DEF At
<1>6. \A i \in 1 .. Len(K) : At(K, i - 1, nil) = IF i = k THEN At(L, i - 1, nil)
                                                 ELSE At(L, old(i) - 1, nil)
  BY <1>1, <1>3, <1>4, SMTT(60) DEF At
<1>7. At(K, 1, nil) = IF k = 1 THEN At(L, 2, nil) ELSE At(L, 1, nil)
  BY <1>1, <1>3, <1>4 DEF At
<1>8. next[p] = At(L, k + 1, nil) /\ prev[p] = At(L, k - 1, nil) /\ head = At(L, 1, nil)
  BY DEF Linked
<1> HIDE DEF K
<1>9. Elems(K) = Elems(L) \ {p}
  <2>1. ASSUME NEW q \in Elems(K) PROVE q \in Elems(L) \ {p}
    <3>1. PICK i \in 1 .. Len(K) : q = K[i]
      BY DEF Elems
    <3> QED
      BY <1>1, <1>2, <1>4, <3>1
  <2>2. ASSUME NEW q \in Elems(L) \ {p} PROVE q \in Elems(K)
    <3>1. PICK i \in 1 .. Len(L) : q = L[i]
      BY DEF Elems
    <3>2. i # k
      BY <3>1
    <3>3. CASE i < k
      <4>1. i \in 1 .. Len(K) /\ old(i) = i
        BY <1>1, <1>3, <3>1, <3>3
      <4>2. K[i] = q
        BY <1>4, <3>1, <4>1
      <4> QED
        BY <4>1, <4>2 DEF Elems
    <3>4. CASE i > k
      <4>1. i - 1 \in 1 .. Len(K) /\ old(i - 1) = i
        BY <1>1, <1>3, <3>1, <3>4
      <4>2. K[i - 1] = q
        BY <1>4, <3>1, <4>1
      <4> QED
        BY <4>1, <4>2 DEF Elems
    <3> QED
      BY <3>1, <3>2, <3>3, <3>4
  <2> QED
    BY <2>1, <2>2
<1>10. ASSUME NEW i \in 1 .. Len(K), NEW j \in 1 .. Len(K), K[i] = K[j] PROVE i = j
  <2>1. old(i) = old(j)
    BY <1>2, <1>4, <1>10
  <2> QED
    BY <1>3, <2>1
<1>11. head2 = At(K, 1, nil)
  <2>1. (prev[p] = nil) <=> (k = 1)
    BY <1>1, <1>8 DEF At
  <2> QED
    BY <1>7, <1>8, <2>1
<1>12. ASSUME NEW i \in 1 .. Len(K)
       PROVE  next2[K[i]] = At(K, i + 1, nil) /\ prev2[K[i]] = At(K, i - 1, nil)
  <2> DEFINE m == old(i)
  <2>1. m \in 1 .. Len(L) /\ m # k /\ K[i] = L[m] /\ L[m] \in Elems(L) \ {p}
    BY <1>1, <1>2, <1>4
  <2>2. next[L[m]] = At(L, m + 1, nil) /\ prev[L[m]] = At(L, m - 1, nil)
    BY <2>1 DEF Linked
  <2>3. (L[m] = prev[p]) <=> (m = k - 1)
    BY <1>1, <1>2, <1>8, <2>1 DEF At
  <2>4. (L[m] = next[p]) <=> (m = k + 1)
    BY <1>1, <1>2, <1>8, <2>1 DEF At
  <2>5. next2[L[m]] = At(K, i + 1, nil)
    BY <1>5, <1>8, <2>1, <2>2, <2>3
  <2>6. prev2[L[m]] = At(K, i - 1, nil)
    BY <1>6, <1>8, <2>1, <2>2, <2>4
  <2> QED
    BY <2>1, <2>5, <2>6
<1>13. Linked(K, P, nil, head2, next2, prev2)
  BY <1>3, <1>10, <1>11, <1>12 DEF Linked
<1> QED
  BY <1>9, <1>13 DEF K

(* The function that walks along links for a number of steps exists. *)
Walks(w, P, nil, next) ==
  w = [n \in Nat |-> [p \in P |->
         IF p = nil \/ n = 0 THEN <<>> ELSE <<p>> \o w[n - 1][next[p]]]]

(* Such a function exists for every table of links.                        *)
LEMMA WalkExists ==
  ASSUME NEW P, NEW nil, NEW next, next \in [P -> P]
  PROVE  \E w : Walks(w, P, nil, next)
<1> DEFINE Steps == [P -> Seq(P)]
           Longer == [s \in Steps |-> [p \in P |-> IF p = nil THEN <<>> ELSE <<p>> \o s[next[p]]]]
           none == [p \in P |-> <<>>]
<1>1. Longer \in [Steps -> Steps] /\ none \in Steps
  <2>1. ASSUME NEW s \in Steps, NEW p \in P
        PROVE  (IF p = nil THEN <<>> ELSE <<p>> \o s[next[p]]) \in Seq(P)
    <3>1. s[next[p]] \in Seq(P)
      OBVIOUS
    <3> QED
      BY <3>1
  <2>2. \A s \in Steps : [p \in P |-> IF p = nil THEN <<>> ELSE <<p>> \o s[next[p]]] \in Steps
    BY <2>1
  <2>3. none \in Steps
    OBVIOUS
  <2> QED
    BY <2>2, <2>3
<1>2. PICK walk : Iterates(walk, Steps, Longer, none)
  <2> HIDE DEF Steps, Longer, none
  <2> QED
    BY <1>1, Iteration
<1>3. ASSUME NEW n \in Nat
      PROVE  walk[n] = [p \in P |->
                       IF p = nil \/ n = 0 THEN <<>> ELSE <<p>> \o walk[n - 1][next[p]]]
  <2>1. CASE n = 0
    BY <1>2, <2>1 DEF Iterates
  <2>2. CASE n # 0
    <3>1. n - 1 \in Nat /\ (n - 1) + 1 = n
      BY <2>2
    <3>2. walk[n] = Longer[walk[n - 1]] /\ walk[n - 1] \in Steps
      BY <1>2, <3>1 DEF Iterates
    <3>3. Longer[walk[n - 1]] = [p \in P |-> IF p = nil THEN <<>> ELSE <<p>> \o walk[n - 1][next[p]]]
      BY <3>2
    <3> QED
      BY <2>2, <3>2, <3>3
  <2> QED
    BY <2>1, <2>2
<1>4. walk = [n \in Nat |-> walk[n]]
  BY <1>2 DEF Iterates
<1>5. walk = [n \in Nat |-> [p \in P |->
             IF p = nil \/ n = 0 THEN <<>> ELSE <<p>> \o walk[n - 1][next[p]]]]
  BY <1>3, <1>4
<1> QED
  BY <1>5 DEF Walks

(* A walk takes one address per step until it meets nil. *)
Unrolls(w, P, nil, next) ==
  /\ \A n \in Nat : w[n][nil] = <<>>
  /\ \A p \in P, n \in Nat : n # 0 => w[n][p] = <<p>> \o w[n - 1][next[p]]

(* Walking from the head for long enough yields the list. *)
LEMMA WalkList ==
  ASSUME NEW P, NEW nil, nil \notin P, NEW L, NEW head, NEW next, NEW prev,
         Linked(L, P, nil, head, next, prev), NEW w, Unrolls(w, P, nil, next),
         NEW n \in Nat, Len(L) <= n
  PROVE  w[n][head] = L
<1> DEFINE Final(k) == SubSeq(L, Len(L) - k + 1, Len(L))
           Right == {k \in Nat : k <= Len(L) =>
                       \A m \in Nat : k <= m => w[m][At(L, Len(L) - k + 1, nil)] = Final(k)}
<1>1. L \in Seq(P) /\ Len(L) \in Nat /\ \A i \in 1 .. Len(L) : L[i] \in P
  BY DEF Linked
<1>2. 0 \in Right
  <2>1. Final(0) = <<>> /\ At(L, Len(L) - 0 + 1, nil) = nil
    BY <1>1 DEF At
  <2> QED
    BY <2>1 DEF Unrolls
<1>3. ASSUME NEW k \in Nat, k \in Right PROVE k + 1 \in Right
  <2> HIDE DEF Final
  <2> SUFFICES ASSUME k + 1 <= Len(L), NEW m \in Nat, k + 1 <= m
               PROVE  w[m][At(L, Len(L) - (k + 1) + 1, nil)] = Final(k + 1)
    OBVIOUS
  <2> DEFINE i == Len(L) - k
  <2>1. i \in 1 .. Len(L) /\ At(L, Len(L) - (k + 1) + 1, nil) = L[i]
    BY <1>1 DEF At
  <2>2. w[m][L[i]] = <<L[i]>> \o w[m - 1][next[L[i]]]
    <3>1. L[i] \in P /\ m # 0
      BY <1>1, <2>1
    <3> QED
      BY <3>1 DEF Unrolls
  <2>3. next[L[i]] = At(L, Len(L) - k + 1, nil)
    <3>1. next[L[i]] = At(L, i + 1, nil)
      BY <2>1 DEF Linked
    <3>2. i + 1 = Len(L) - k + 1
      BY <1>1
    <3> QED
      BY <3>1, <3>2
  <2>4. w[m - 1][next[L[i]]] = Final(k)
    <3>1. m - 1 \in Nat /\ k <= m - 1 /\ k <= Len(L)
      BY <1>1
    <3> QED
      BY <1>3, <2>3, <3>1
  <2>5. Final(k + 1) = <<L[i]>> \o Final(k)
    <3>1. SubSeq(L, i, Len(L)) = <<L[i]>> \o SubSeq(L, i + 1, Len(L))
      BY <1>1, <2>1, SubSeqRecursiveFirst
    <3>2. Len(L) - (k + 1) + 1 = i /\ Len(L) - k + 1 = i + 1
      BY <1>1
    <3> QED
      BY <3>1, <3>2 DEF Final
  <2> QED
    BY <2>1, <2>2, <2>4, <2>5
<1> HIDE DEF Right
<1>4. Len(L) \in Right
  BY <1>1, <1>2, <1>3, NatInduct
<1>5. w[n][At(L, 1, nil)] = Final(Len(L))
  <2>1. Len(L) - Len(L) + 1 = 1
    BY <1>1
  <2> QED
    BY <1>1, <1>4, <2>1 DEF Right
<1>6. Final(Len(L)) = L
  <2>1. Len(L) - Len(L) + 1 = 1
    BY <1>1
  <2>2. SubSeq(L, 1, Len(L)) = L
    BY <1>1
  <2> QED
    BY <2>1, <2>2
<1> QED
  BY <1>5, <1>6 DEF Linked

-----------------------------------------------------------------------------
(* Tilings: the blocks B tile the chunks C behind their page headers.      *)
USE DEF HDRSIZE, FDRSIZE, PAGEHDRSIZE, MIN_BLOCK_SIZE

ChunkSet(C) ==
  /\ C \subseteq Int \X Int
  /\ \A c \in C : c[1] + PAGEHDRSIZE < c[2]
  /\ \A c, d \in C : c = d \/ Apart(c, d)

Placed(C, B) ==
  /\ B \subseteq Int \X Int
  /\ \A b \in B : /\ b[2] - b[1] >= 3
                  /\ \E c \in C : c[1] + PAGEHDRSIZE <= b[1] /\ b[2] <= c[2]

Separate(B) == \A a, b \in B : a = b \/ Apart(a, b)

Cover(C, B) ==
  /\ \A c \in C : \E b \in B : b[1] = c[1] + PAGEHDRSIZE
  /\ \A b \in B : \/ \E a \in B : a[1] = b[2]
                  \/ \E c \in C : c[2] = b[2]

Tiling(C, B) == ChunkSet(C) /\ Placed(C, B) /\ Separate(B) /\ Cover(C, B)

-----------------------------------------------------------------------------
(* Cutting a block in two that are both large enough keeps the tiling. *)
LEMMA CutTiling ==
  ASSUME NEW C, NEW B, Tiling(C, B), NEW b \in B, NEW m \in Int,
         m - b[1] >= 3, b[2] - m >= 3
  PROVE  Tiling(C, (B \ {b}) \cup {<<b[1], m>>, <<m, b[2]>>})
<1> DEFINE x == <<b[1], m>>
           y == <<m, b[2]>>
           D == (B \ {b}) \cup {x, y}
<1>1. b \in Int \X Int /\ b[1] \in Int /\ b[2] \in Int
  BY DEF Tiling, Placed
<1>2. x \in Int \X Int /\ y \in Int \X Int /\ x[1] = b[1] /\ x[2] = m
      /\ y[1] = m /\ y[2] = b[2]
  BY <1>1
<1> HIDE DEF x, y
<1>3. ChunkSet(C)
  BY DEF Tiling
<1>4. Placed(C, D)
  <2>1. PICK c \in C : c[1] + PAGEHDRSIZE <= b[1] /\ b[2] <= c[2]
    BY DEF Tiling, Placed
  <2>2. c[1] \in Int /\ c[2] \in Int
    BY DEF Tiling, ChunkSet
  <2>3. x[2] - x[1] >= 3 /\ c[1] + PAGEHDRSIZE <= x[1] /\ x[2] <= c[2]
    BY <2>1, <2>2, <1>1, <1>2
  <2>4. y[2] - y[1] >= 3 /\ c[1] + PAGEHDRSIZE <= y[1] /\ y[2] <= c[2]
    BY <2>1, <2>2, <1>1, <1>2
  <2> QED
    BY <2>3, <2>4, <1>2 DEF Tiling, Placed
<1>5. Separate(D)
  <2> SUFFICES ASSUME NEW p \in D, NEW q \in D, p # q PROVE Apart(p, q)
    BY DEF Separate
  <2>1. \A r \in B \ {b} : r[1] \in Int /\ r[2] \in Int /\ Apart(r, b) /\ Apart(b, r)
    BY DEF Tiling, Separate, Placed, Apart
  <2>2. CASE p \in B \ {b} /\ q \in B \ {b}
    BY <2>2 DEF Tiling, Separate
  <2>3. CASE p \in B \ {b} /\ q \in {x, y}
    BY <2>1, <2>3, <1>1, <1>2 DEF Apart
  <2>4. CASE p \in {x, y} /\ q \in B \ {b}
    BY <2>1, <2>4, <1>1, <1>2 DEF Apart
  <2>5. CASE p \in {x, y} /\ q \in {x, y}
    BY <2>5, <1>1, <1>2 DEF Apart
  <2> QED
    BY <2>2, <2>3, <2>4, <2>5
<1>6. Cover(C, D)
  <2>1. \A c \in C : \E d \in D : d[1] = c[1] + PAGEHDRSIZE
    BY <1>2 DEF Tiling, Cover
  <2>2. ASSUME NEW d \in D
        PROVE (\E a \in D : a[1] = d[2]) \/ (\E c \in C : c[2] = d[2])
    <3>1. CASE d = x
      BY <3>1, <1>2
    <3>2. CASE d # x
      <4>1. PICK e \in B : e[2] = d[2]
        BY <3>2, <1>2
      <4>2. (\E a \in B : a[1] = e[2]) \/ (\E c \in C : c[2] = e[2])
        BY DEF Tiling, Cover
      <4> QED
        BY <4>1, <4>2, <1>2
    <3> QED
      BY <3>1, <3>2
  <2> QED
    BY <2>1, <2>2 DEF Cover
<1> QED
  BY <1>3, <1>4, <1>5, <1>6 DEF Tiling, x, y

(* Joining a block to the one that follows it keeps the tiling: two blocks *)
(* that touch lie in the same chunk, because page headers separate chunks. *)
LEMMA JoinTiling ==
  ASSUME NEW C, NEW B, Tiling(C, B), NEW a \in B, NEW b \in B, a[2] = b[1]
  PROVE  Tiling(C, (B \ {a, b}) \cup {<<a[1], b[2]>>})
<1> DEFINE z == <<a[1], b[2]>>
           D == (B \ {a, b}) \cup {z}
<1>1. /\ a[1] \in Int /\ a[2] \in Int /\ b[2] \in Int
      /\ a[2] - a[1] >= 3 /\ b[2] - b[1] >= 3 /\ a # b
  BY DEF Tiling, Placed
<1>2. z \in Int \X Int /\ z[1] = a[1] /\ z[2] = b[2]
  BY <1>1
<1> HIDE DEF z
<1>3. ChunkSet(C)
  BY DEF Tiling
<1>4. Placed(C, D)
  <2>1. PICK c \in C : c[1] + PAGEHDRSIZE <= a[1] /\ a[2] <= c[2]
    BY DEF Tiling, Placed
  <2>2. PICK d \in C : d[1] + PAGEHDRSIZE <= b[1] /\ b[2] <= d[2]
    BY DEF Tiling, Placed
  <2>3. c[1] \in Int /\ c[2] \in Int /\ d[1] \in Int /\ d[2] \in Int
    BY DEF Tiling, ChunkSet
  <2>4. c = d
    BY <2>1, <2>2, <2>3, <1>1 DEF Tiling, ChunkSet, Apart
  <2>5. c[1] + PAGEHDRSIZE <= z[1] /\ z[2] <= c[2]
    BY <2>1, <2>2, <2>4, <1>2
  <2>6. z[2] - z[1] >= 3
    BY <1>1, <1>2
  <2> QED
    BY <2>5, <2>6, <1>2 DEF Tiling, Placed
<1>5. Separate(D)
  <2>1. \A r \in B \ {a, b} :
           /\ r[1] \in Int /\ r[2] \in Int /\ r[1] < r[2]
           /\ Apart(r, a) /\ Apart(r, b)
    BY DEF Tiling, Separate, Placed, Apart
  <2>2. \A r \in B \ {a, b} : Apart(r, z) /\ Apart(z, r)
    BY <2>1, <1>1, <1>2 DEF Apart
  <2> QED
    BY <2>2 DEF Tiling, Separate
<1>6. Cover(C, D)
  <2>1. \A c \in C : b[1] # c[1] + PAGEHDRSIZE
    <3> SUFFICES ASSUME NEW c \in C, b[1] = c[1] + PAGEHDRSIZE PROVE FALSE
      OBVIOUS
    <3>1. PICK d \in C : d[1] + PAGEHDRSIZE <= a[1] /\ a[2] <= d[2]
      BY DEF Tiling, Placed
    <3>2. c[1] \in Int /\ c[2] \in Int /\ d[1] \in Int /\ d[2] \in Int
          /\ c[1] + PAGEHDRSIZE < c[2]
      BY DEF Tiling, ChunkSet
    <3> QED
      BY <3>1, <3>2, <1>1 DEF Tiling, ChunkSet, Apart
  <2>2. \A c \in C : \E d \in D : d[1] = c[1] + PAGEHDRSIZE
    BY <2>1, <1>2 DEF Tiling, Cover
  <2>3. ASSUME NEW d \in D
        PROVE (\E e \in D : e[1] = d[2]) \/ (\E c \in C : c[2] = d[2])
    <3>1. PICK e \in B \ {a} : e[2] = d[2]
      BY <1>1, <1>2
    <3>2. CASE \E f \in B : f[1] = e[2]
      <4>1. PICK f \in B : f[1] = e[2]
        BY <3>2
      <4>2. f # b
        BY <4>1, <3>1, <1>1 DEF Tiling, Placed, Separate, Apart
      <4> QED
        BY <4>1, <4>2, <3>1, <1>2
    <3>3. CASE \E c \in C : c[2] = e[2]
      BY <3>1, <3>3
    <3> QED
      BY <3>2, <3>3 DEF Tiling, Cover
  <2> QED
    BY <2>2, <2>3 DEF Cover
<1> QED
  BY <1>3, <1>4, <1>5, <1>6 DEF Tiling, z

(* A new chunk apart from the others, with one block behind its header. *)
LEMMA ChunkTiling ==
  ASSUME NEW C, NEW B, Tiling(C, B), NEW c \in Int \X Int,
         c[2] - c[1] >= 5, \A d \in C : Apart(c, d)
  PROVE  /\ Tiling(C \cup {c}, B \cup {Usable(c)})
         /\ \A b \in B : Apart(Usable(c), b) /\ b[2] # Usable(c)[1] /\ Usable(c)[2] # b[1]
<1> DEFINE u == Usable(c)
<1>1. c[1] \in Int /\ c[2] \in Int
  OBVIOUS
<1>2. u \in Int \X Int /\ u[1] = c[1] + PAGEHDRSIZE /\ u[2] = c[2]
  BY <1>1 DEF Usable
<1> HIDE DEF u
<1>3. ChunkSet(C \cup {c})
  BY <1>1 DEF Tiling, ChunkSet, Apart
<1>4. Placed(C \cup {c}, B \cup {u})
  BY <1>1, <1>2 DEF Tiling, Placed
<1>5. \A b \in B : Apart(u, b) /\ b[2] # u[1] /\ u[2] # b[1]
  <2> SUFFICES ASSUME NEW b \in B
               PROVE  Apart(u, b) /\ b[2] # u[1] /\ u[2] # b[1]
    OBVIOUS
  <2>1. PICK d \in C : d[1] + PAGEHDRSIZE <= b[1] /\ b[2] <= d[2]
    BY DEF Tiling, Placed
  <2>2. /\ b[1] \in Int /\ b[2] \in Int /\ d[1] \in Int /\ d[2] \in Int
        /\ d[1] + PAGEHDRSIZE < d[2] /\ b[2] - b[1] >= 3
    BY DEF Tiling, Placed, ChunkSet
  <2>3. Apart(c, d)
    OBVIOUS
  <2> QED
    BY <2>1, <2>2, <2>3, <1>1, <1>2 DEF Apart
<1>6. Separate(B \cup {u})
  BY <1>5 DEF Tiling, Separate, Apart
<1>7. Cover(C \cup {c}, B \cup {u})
  BY <1>2 DEF Tiling, Cover
<1> QED
  BY <1>3, <1>4, <1>5, <1>6, <1>7 DEF Tiling, u

(* Dropping chunks of which one block fills all, with those blocks. *)
LEMMA DropTiling ==
  ASSUME NEW C, NEW B, Tiling(C, B), NEW D \in SUBSET C,
         \A c \in D : Usable(c) \in B
  PROVE  Tiling(C \ D, B \ {Usable(c) : c \in D})
<1> DEFINE X == {Usable(c) : c \in D}
<1>1. \A c \in C : /\ c[1] \in Int /\ c[2] \in Int /\ c[1] + PAGEHDRSIZE < c[2]
                  /\ Usable(c)[1] = c[1] + PAGEHDRSIZE /\ Usable(c)[2] = c[2]
  BY DEF Tiling, ChunkSet, Usable
<1>2. ChunkSet(C \ D)
  BY DEF Tiling, ChunkSet
<1>3. ASSUME NEW b \in B \ X, NEW c \in C,
             c[1] + PAGEHDRSIZE <= b[1] /\ b[2] <= c[2]
      PROVE  c \notin D
  <2> SUFFICES ASSUME c \in D PROVE FALSE
    OBVIOUS
  <2>1. Usable(c) \in B /\ Usable(c) # b
    OBVIOUS
  <2>2. Apart(b, Usable(c))
    BY <2>1 DEF Tiling, Separate, Apart
  <2>3. b[1] \in Int /\ b[2] \in Int /\ b[2] - b[1] >= 3
    BY DEF Tiling, Placed
  <2> QED
    BY <2>2, <2>3, <1>1, <1>3 DEF Apart
<1>4. Placed(C \ D, B \ X)
  BY <1>3 DEF Tiling, Placed
<1>5. Separate(B \ X)
  BY DEF Tiling, Separate
<1>6. ASSUME NEW c \in C \ D, NEW b \in B, b[1] = c[1] + PAGEHDRSIZE
      PROVE  b \notin X
  <2> SUFFICES ASSUME NEW d \in D, b = Usable(d) PROVE FALSE
    OBVIOUS
  <2>1. c # d /\ Apart(c, d)
    BY DEF Tiling, ChunkSet
  <2> QED
    BY <2>1, <1>1, <1>6 DEF Apart
<1>7. ASSUME NEW b \in B \ X
      PROVE  (\E a \in B \ X : a[1] = b[2]) \/ (\E c \in C \ D : c[2] = b[2])
  <2>1. PICK d \in C : d[1] + PAGEHDRSIZE <= b[1] /\ b[2] <= d[2]
    BY DEF Tiling, Placed
  <2>2. d \notin D
    BY <2>1, <1>3
  <2>3. b[1] \in Int /\ b[2] \in Int /\ b[2] - b[1] >= 3
    BY DEF Tiling, Placed
  <2>4. \A c \in D : c[2] # b[2] /\ Usable(c)[1] # b[2]
    <3> SUFFICES ASSUME NEW c \in D PROVE c[2] # b[2] /\ Usable(c)[1] # b[2]
      OBVIOUS
    <3>1. Apart(c, d)
      BY <2>2 DEF Tiling, ChunkSet
    <3> QED
      BY <3>1, <2>1, <2>3, <1>1 DEF Apart
  <2>5. (\E a \in B : a[1] = b[2]) \/ (\E c \in C : c[2] = b[2])
    BY DEF Tiling, Cover
  <2> QED
    BY <2>4, <2>5
<1>8. Cover(C \ D, B \ X)
  BY <1>6, <1>7 DEF Tiling, Cover
<1> QED
  BY <1>2, <1>4, <1>5, <1>8 DEF Tiling

(* What holds of the chunks C, the free blocks F and the used blocks U     *)
(* throughout a call.                                                      *)
WellTiled(C, F, U) ==
  /\ Tiling(C, F \cup U)
  /\ F \cap U = {}
  /\ \A a, b \in F : a[2] # b[1]

(* mem_map: a new chunk is one free block, which touches no other.         *)
LEMMA MapSound ==
  ASSUME NEW C, NEW F, NEW U, WellTiled(C, F, U), NEW c \in Int \X Int,
         c[2] - c[1] >= 5, \A d \in C : Apart(c, d)
  PROVE  WellTiled(C \cup {c}, F \cup {Usable(c)}, U) /\ Usable(c) \notin F \cup U
<1> DEFINE u == Usable(c)
<1>1. /\ Tiling(C \cup {c}, (F \cup U) \cup {u})
      /\ \A b \in F \cup U : Apart(u, b) /\ b[2] # u[1] /\ u[2] # b[1]
  BY ChunkTiling DEF WellTiled
<1>2. u[1] = c[1] + 2 /\ u[2] = c[2] /\ c[1] \in Int /\ c[2] \in Int
  BY DEF Usable
<1> HIDE DEF u
<1>3. u \notin F \cup U
  BY <1>1, <1>2 DEF Apart
<1>4. (F \cup {u}) \cup U = (F \cup U) \cup {u}
  OBVIOUS
<1>5. \A p, q \in F \cup {u} : p[2] # q[1]
  BY <1>1, <1>2 DEF WellTiled
<1> QED
  BY <1>1, <1>3, <1>4, <1>5 DEF WellTiled, u

(* split_block: the client gets the front of a free block, the remainder   *)
(* stays free, touches no free block and does not start its chunk.         *)
LEMMA SplitSound ==
  ASSUME NEW C, NEW F, NEW U, WellTiled(C, F, U), NEW b \in F,
         NEW n \in Nat, n >= 3, Size(b) >= n,
         \A c \in C : Usable(c) \notin F \ {b}
  PROVE  LET F2 == (F \ {b}) \cup Rest(b, n)
             U2 == U \cup {Taken(b, n)}
         IN  WellTiled(C, F2, U2) /\ \A c \in C : Usable(c) \notin F2
<1> DEFINE B == F \cup U
           x == <<b[1], b[1] + n>>
           y == <<b[1] + n, b[2]>>
<1>1. b \in B /\ Tiling(C, B) /\ b[1] \in Int /\ b[2] \in Int
  BY DEF WellTiled, Tiling, Placed
<1>2. CASE ~ Splits(Size(b), n)
  <2>1. Rest(b, n) = {} /\ Taken(b, n) = b
    BY <1>2 DEF Rest, Taken
  <2>2. (F \ {b}) \cup (U \cup {b}) = F \cup U
    OBVIOUS
  <2> QED
    BY <2>1, <2>2 DEF WellTiled
<1>3. CASE Splits(Size(b), n)
  <2>1. Rest(b, n) = {y} /\ Taken(b, n) = x
    BY <1>3 DEF Rest, Taken
  <2>2. b[1] + n \in Int /\ (b[1] + n) - b[1] >= 3 /\ b[2] - (b[1] + n) >= 3
    BY <1>1, <1>3 DEF Splits, Size
  <2>3. Tiling(C, (B \ {b}) \cup {x, y})
    BY <1>1, <2>2, CutTiling
  <2>4. ((F \ {b}) \cup {y}) \cup (U \cup {x}) = (B \ {b}) \cup {x, y}
    BY DEF WellTiled
  <2>5. x[1] = b[1] /\ x[2] = b[1] + n /\ y[1] = b[1] + n /\ y[2] = b[2] /\ x # y
    BY <2>2
  <2> HIDE DEF x, y
  <2>6. \A p \in B \ {b} : p # x /\ p # y /\ p[2] # y[1]
    <3> SUFFICES ASSUME NEW p \in B \ {b} PROVE p # x /\ p # y /\ p[2] # y[1]
      OBVIOUS
    <3>1. Apart(p, b) /\ p[1] \in Int /\ p[2] \in Int /\ p[2] - p[1] >= 3
      BY <1>1 DEF Tiling, Separate, Placed
    <3> QED
      BY <3>1, <2>2, <2>5, <1>1 DEF Apart
  <2>7. ((F \ {b}) \cup {y}) \cap (U \cup {x}) = {}
    BY <2>5, <2>6 DEF WellTiled
  <2>8. \A p, q \in (F \ {b}) \cup {y} : p[2] # q[1]
    BY <2>2, <2>5, <2>6, <1>1 DEF WellTiled
  <2>9. \A c \in C : Usable(c) # y
    <3> SUFFICES ASSUME NEW c \in C, Usable(c) = y PROVE FALSE
      OBVIOUS
    <3>1. PICK d \in C : d[1] + PAGEHDRSIZE <= b[1] /\ b[2] <= d[2]
      BY <1>1 DEF Tiling, Placed
    <3>2. c[1] \in Int /\ c[2] \in Int /\ d[1] \in Int /\ d[2] \in Int
      BY <1>1 DEF Tiling, ChunkSet
    <3>3. c[1] + PAGEHDRSIZE = b[1] + n /\ c[2] = b[2]
      BY <2>5 DEF Usable
    <3>4. c = d \/ Apart(c, d)
      BY <1>1 DEF Tiling, ChunkSet
    <3> QED
      BY <3>1, <3>2, <3>3, <3>4, <2>2, <1>1 DEF Apart
  <2> QED
    BY <2>1, <2>3, <2>4, <2>7, <2>8, <2>9 DEF WellTiled
<1> QED
  BY <1>2, <1>3

(* coalesce: the freed block and the free blocks it touches become one     *)
(* free block, which touches no other.                                     *)
LEMMA CoalesceSound ==
  ASSUME NEW C, NEW F, NEW U, WellTiled(C, F, U), NEW b \in U
  PROVE  WellTiled(C, (F \ (Below(F, b) \cup Above(F, b))) \cup {Merged(F, b)}, U \ {b})
<1> DEFINE B == F \cup U
           m == Merged(F, b)
           N == Below(F, b) \cup Above(F, b)
           J == (F \ N) \cup {m}
<1>1. /\ Tiling(C, B) /\ b \in B /\ b \notin F
      /\ \A r \in B : r[1] \in Int /\ r[2] \in Int /\ r[2] - r[1] >= 3 /\ r = <<r[1], r[2]>>
  BY DEF WellTiled, Tiling, Placed
<1>2. \A p, q \in B : p # q => Apart(p, q)
  BY <1>1 DEF Tiling, Separate
<1>3. \A p \in Below(F, b) : p \in F /\ p[2] = b[1] /\ Below(F, b) = {p}
  BY <1>1, <1>2 DEF Below, Apart
<1>4. \A p \in Above(F, b) : p \in F /\ p[1] = b[2] /\ Above(F, b) = {p}
  BY <1>1, <1>2 DEF Above, Apart
<1> DEFINE z == <<m[1], b[2]>>
           B2 == (B \ ({b} \cup Below(F, b))) \cup {z}
<1>5. /\ m = <<m[1], m[2]>>
      /\ m[1] = (IF Below(F, b) = {} THEN b[1] ELSE (CHOOSE p \in Below(F, b) : TRUE)[1])
      /\ m[2] = (IF Above(F, b) = {} THEN b[2] ELSE (CHOOSE p \in Above(F, b) : TRUE)[2])
  BY DEF Merged
<1>6. \A p \in Below(F, b) : m[1] = p[1]
  BY <1>3, <1>5
<1>7. \A q \in Above(F, b) : m[2] = q[2]
  BY <1>4, <1>5
<1>8. (Below(F, b) = {} => m[1] = b[1]) /\ (Above(F, b) = {} => m[2] = b[2])
  BY <1>5
<1>9. m[1] \in Int /\ m[2] \in Int /\ m[1] <= b[1] /\ b[2] <= m[2]
  BY <1>1, <1>3, <1>4, <1>6, <1>7, <1>8
<1> HIDE DEF m
<1>10. Tiling(C, B2) /\ z \in B2 /\ z[1] = m[1] /\ z[2] = b[2]
  <2>1. CASE Below(F, b) = {}
    <3>1. z = b /\ B2 = B
      BY <2>1, <1>1, <1>8
    <3> QED
      BY <3>1, <1>1, <1>8, <2>1
  <2>2. CASE Below(F, b) # {}
    <3>1. PICK p \in Below(F, b) : TRUE
      BY <2>2
    <3>2. p \in B /\ p[2] = b[1] /\ p[1] = m[1] /\ Below(F, b) = {p}
      BY <3>1, <1>3, <1>6
    <3>3. Tiling(C, (B \ {p, b}) \cup {<<p[1], b[2]>>})
      BY <3>2, <1>1, JoinTiling
    <3>4. B2 = (B \ {p, b}) \cup {<<p[1], b[2]>>}
      BY <3>2
    <3> QED
      BY <3>3, <3>4
  <2> QED
    BY <2>1, <2>2
<1>11. Tiling(C, (B \ ({b} \cup N)) \cup {m})
  <2>1. CASE Above(F, b) = {}
    BY <2>1, <1>5, <1>8, <1>10
  <2>2. CASE Above(F, b) # {}
    <3>1. PICK q \in Above(F, b) : TRUE
      BY <2>2
    <3>2. q \in B /\ q[1] = b[2] /\ q[2] = m[2] /\ Above(F, b) = {q}
      BY <3>1, <1>4, <1>7
    <3>3. q # b /\ q \notin Below(F, b) /\ q # z
      BY <3>2, <1>1, <1>3, <1>9, <1>10
    <3>4. q \in B2 /\ z[2] = q[1]
      BY <3>2, <3>3, <1>10
    <3>5. Tiling(C, (B2 \ {z, q}) \cup {<<z[1], q[2]>>})
      BY <3>4, <1>10, JoinTiling
    <3>6. <<z[1], q[2]>> = m
      BY <3>2, <1>5, <1>10
    <3>7. \A r \in B \ ({b} \cup N) : r # z
      <4> SUFFICES ASSUME NEW r \in B \ ({b} \cup N), r = z PROVE FALSE
        OBVIOUS
      <4>1. Apart(r, b)
        BY <1>1, <1>2
      <4> QED
        BY <4>1, <1>1, <1>9, <1>10 DEF Apart
    <3>8. (B2 \ {z, q}) \cup {m} = (B \ ({b} \cup N)) \cup {m}
      BY <3>2, <3>7
    <3> QED
      BY <3>5, <3>6, <3>8
  <2> QED
    BY <2>1, <2>2
<1>12. \A r \in B \ {b} : r # m
  <2> SUFFICES ASSUME NEW r \in B \ {b}, r = m PROVE FALSE
    OBVIOUS
  <2>1. Apart(r, b)
    BY <1>1, <1>2
  <2> QED
    BY <2>1, <1>1, <1>9 DEF Apart
<1>13. J = (F \ N) \cup {m}
  OBVIOUS
<1> HIDE DEF J
<1>14. J \cup (U \ {b}) = (B \ ({b} \cup N)) \cup {m}
  BY <1>13, <1>3, <1>4 DEF WellTiled
<1>15. J \cap (U \ {b}) = {}
  BY <1>12, <1>13 DEF WellTiled
<1>16. \A r \in F \ N : r[2] # m[1] /\ m[2] # r[1]
  <2> SUFFICES ASSUME NEW r \in F \ N PROVE r[2] # m[1] /\ m[2] # r[1]
    OBVIOUS
  <2>1. r[2] # m[1]
    <3>1. CASE Below(F, b) = {}
      BY <3>1, <1>8 DEF Below
    <3>2. CASE Below(F, b) # {}
      BY <3>2, <1>3, <1>6 DEF WellTiled
    <3> QED
      BY <3>1, <3>2
  <2>2. m[2] # r[1]
    <3>1. CASE Above(F, b) = {}
      BY <3>1, <1>8 DEF Above
    <3>2. CASE Above(F, b) # {}
      BY <3>2, <1>4, <1>7 DEF WellTiled
    <3> QED
      BY <3>1, <3>2
  <2> QED
    BY <2>1, <2>2
<1>17. m[2] # m[1]
  BY <1>1, <1>9
<1>18. \A p, q \in J : p[2] # q[1]
  BY <1>13, <1>16, <1>17 DEF WellTiled
<1> QED
  BY <1>11, <1>14, <1>15, <1>18 DEF WellTiled, J, m

(* check_and_unmap_full_pages: dropping chunks that one free block fills   *)
(* keeps the tiling of the others.                                         *)
LEMMA UnmapSound ==
  ASSUME NEW C, NEW F, NEW U, WellTiled(C, F, U), NEW D \in SUBSET C,
         \A c \in D : Usable(c) \in F
  PROVE  WellTiled(C \ D, F \ {Usable(c) : c \in D}, U)
<1> DEFINE X == {Usable(c) : c \in D}
<1>1. D \in SUBSET C /\ \A c \in D : Usable(c) \in F
  OBVIOUS
<1>2. Tiling(C, F \cup U)
  BY DEF WellTiled
<1>3. Tiling(C \ D, (F \cup U) \ X)
  <2>1. \A c \in D : Usable(c) \in F \cup U
    BY <1>1
  <2> QED
    BY <1>1, <1>2, <2>1, DropTiling
<1>4. X \cap U = {}
  BY <1>1 DEF WellTiled
<1>5. (F \cup U) \ X = (F \ X) \cup U
  BY <1>4
<1> QED
  BY <1>3, <1>4, <1>5 DEF WellTiled

-----------------------------------------------------------------------------
(* Traces: what a request does to the ids a client holds. *)

(* No request leaves no id allocated. *)
LEMMA BeforeStart ==
  ASSUME NEW tr
  PROVE  Before(tr, 0) = {} /\ Before(tr, 1) = {}
BY DEF Before

(* A request adds its id, takes it out, or does neither. *)
LEMMA BeforeStep ==
  ASSUME NEW tr, NEW n \in Nat, n > 0
  PROVE  /\ tr[n].cmd = "a" => Before(tr, n + 1) = Before(tr, n) \cup ({tr[n].id} \cap Ids)
         /\ tr[n].cmd = "f" => Before(tr, n + 1) = Before(tr, n) \ {tr[n].id}
         /\ tr[n].cmd \notin {"a", "f"} => Before(tr, n + 1) = Before(tr, n)
<1> DEFINE Holds(i, m) == \E k \in 1 .. m - 1 :
             /\ tr[k].cmd = "a" /\ tr[k].id = i
             /\ \A j \in k + 1 .. m - 1 : ~ (tr[j].cmd = "f" /\ tr[j].id = i)
<1>1. ASSUME NEW i
      PROVE  Holds(i, n + 1) <=> \/ tr[n].cmd = "a" /\ tr[n].id = i
                                 \/ Holds(i, n) /\ ~ (tr[n].cmd = "f" /\ tr[n].id = i)
  <2>1. ASSUME Holds(i, n + 1)
        PROVE  \/ tr[n].cmd = "a" /\ tr[n].id = i
               \/ Holds(i, n) /\ ~ (tr[n].cmd = "f" /\ tr[n].id = i)
    <3>1. PICK k \in 1 .. n : /\ tr[k].cmd = "a" /\ tr[k].id = i
                              /\ \A j \in k + 1 .. n : ~ (tr[j].cmd = "f" /\ tr[j].id = i)
      BY <2>1
    <3>2. CASE k = n
      BY <3>1, <3>2
    <3>3. CASE k # n
      <4>1. k \in 1 .. n - 1 /\ n \in k + 1 .. n /\ k + 1 .. n - 1 \subseteq k + 1 .. n
        BY <3>3
      <4> QED
        BY <3>1, <4>1
    <3> QED
      BY <3>2, <3>3
  <2>2. ASSUME tr[n].cmd = "a" /\ tr[n].id = i PROVE Holds(i, n + 1)
    <3>1. n \in 1 .. (n + 1) - 1 /\ n + 1 .. (n + 1) - 1 = {}
      OBVIOUS
    <3> QED
      BY <2>2, <3>1
  <2>3. ASSUME Holds(i, n), ~ (tr[n].cmd = "f" /\ tr[n].id = i) PROVE Holds(i, n + 1)
    <3>1. PICK k \in 1 .. n - 1 : /\ tr[k].cmd = "a" /\ tr[k].id = i
                                  /\ \A j \in k + 1 .. n - 1 : ~ (tr[j].cmd = "f" /\ tr[j].id = i)
      BY <2>3
    <3>2. k \in 1 .. (n + 1) - 1 /\ k + 1 .. (n + 1) - 1 = (k + 1 .. n - 1) \cup {n}
      OBVIOUS
    <3> QED
      BY <2>3, <3>1, <3>2
  <2> QED
    BY <2>1, <2>2, <2>3
<1>2. Before(tr, n) = {i \in Ids : Holds(i, n)} /\ Before(tr, n + 1) = {i \in Ids : Holds(i, n + 1)}
  BY DEF Before
<1> HIDE DEF Holds
<1>3. ASSUME tr[n].cmd = "a"
      PROVE  Before(tr, n + 1) = Before(tr, n) \cup ({tr[n].id} \cap Ids)
  BY <1>1, <1>2, <1>3
<1>4. ASSUME tr[n].cmd = "f" PROVE Before(tr, n + 1) = Before(tr, n) \ {tr[n].id}
  BY <1>1, <1>2, <1>4
<1>5. ASSUME tr[n].cmd \notin {"a", "f"} PROVE Before(tr, n + 1) = Before(tr, n)
  BY <1>1, <1>2, <1>5
<1> QED
  BY <1>3, <1>4, <1>5

(* What is allocated depends on the requests made only. *)
LEMMA BeforeAgree ==
  ASSUME NEW s, NEW t, NEW n \in Nat, \A k \in 1 .. n - 1 : s[k] = t[k]
  PROVE  Before(s, n) = Before(t, n)
<1>1. \A k \in 1 .. n - 1 : \A j \in k + 1 .. n - 1 : j \in 1 .. n - 1
  OBVIOUS
<1> QED
  BY <1>1 DEF Before

(* An id that is allocated was allocated by a request. *)
LEMMA BeforeSource ==
  ASSUME NEW tr, NEW n \in Nat, NEW i \in Before(tr, n)
  PROVE  i \in Ids /\ \E k \in 1 .. n - 1 : tr[k].cmd = "a" /\ tr[k].id = i
BY DEF Before

(* A client holds finitely many ids. *)
LEMMA BeforeFinite ==
  ASSUME NEW tr, NEW n \in Nat
  PROVE  IsFiniteSet(Before(tr, n)) /\ Before(tr, n) \subseteq Ids
<1> DEFINE f == [k \in 1 .. n - 1 |-> tr[k].id]
           R == {f[k] : k \in 1 .. n - 1}
<1>1. IsFiniteSet(1 .. n - 1)
  BY FS_Interval
<1>2. f \in Surjection(1 .. n - 1, R)
  BY DEF Surjection
<1>3. IsFiniteSet(R)
  <2> HIDE DEF f, R
  <2> QED
    BY <1>1, <1>2, FS_Surjection
<1>4. Before(tr, n) \subseteq R
  BY DEF Before
<1>5. Before(tr, n) \subseteq Ids
  BY DEF Before
<1> HIDE DEF R
<1> QED
  BY <1>3, <1>4, <1>5, FS_Subset

(* The largest of finitely many numbers. *)
LEMMA MaxProperties ==
  ASSUME NEW S \in SUBSET Int, IsFiniteSet(S), S # {}
  PROVE  Max(S) \in S /\ \A y \in S : Max(S) >= y
<1>1. \E x \in S : \A y \in S : x >= y
  BY IntMaximum
<1> QED
  BY <1>1 DEF Max

(* A trace that agrees with its header has as many requests as it says,    *)
(* and its requests other than frees have ids below num_ids.               *)
LEMMA HeaderBounds ==
  ASSUME NEW f, NEW R, f.ops \in Seq(R), Ids \subseteq Nat,
         \A n \in 1 .. Len(f.ops) : f.ops[n].id \in Ids, HeaderHolds(f)
  PROVE  /\ Len(f.ops) = f.num_ops
         /\ \A n \in 1 .. Len(f.ops) : f.ops[n].cmd # "f" => f.ops[n].id < f.num_ids
<1> DEFINE D == {k \in DOMAIN f.ops : f.ops[k].cmd # "f"}
           g == [n \in D |-> f.ops[n].id]
           S == {f.ops[n].id : n \in D}
<1>1. DOMAIN f.ops = 1 .. Len(f.ops) /\ Len(f.ops) \in Nat
  OBVIOUS
<1>2. IsFiniteSet(D)
  <2>1. IsFiniteSet(1 .. Len(f.ops)) /\ D \subseteq 1 .. Len(f.ops)
    BY <1>1, FS_Interval
  <2> HIDE DEF D
  <2> QED
    BY <2>1, FS_Subset
<1>3. IsFiniteSet(S)
  <2>1. g \in Surjection(D, S)
    <3> HIDE DEF D
    <3> QED
      BY DEF Surjection
  <2> HIDE DEF D, g, S
  <2> QED
    BY <1>2, <2>1, FS_Surjection
<1>4. S \subseteq Ids
  BY <1>1
<1>5. f.num_ids = 1 + Max({0} \cup S) /\ f.num_ops = Len(f.ops)
  BY DEF HeaderHolds
<1>6. \A n \in 1 .. Len(f.ops) : f.ops[n].cmd # "f" => f.ops[n].id \in S
  BY <1>1
<1> HIDE DEF S, D
<1>7. IsFiniteSet({0} \cup S) /\ {0} \cup S \subseteq Int /\ {0} \cup S # {}
  <2>1. IsFiniteSet({0})
    BY FS_Singleton
  <2>2. IsFiniteSet({0} \cup S)
    BY <1>3, <2>1, FS_Union
  <2> QED
    BY <1>4, <2>2
<1>8. Max({0} \cup S) \in Int /\ \A y \in S : Max({0} \cup S) >= y
  BY <1>7, MaxProperties
<1>9. ASSUME NEW n \in 1 .. Len(f.ops), f.ops[n].cmd # "f" PROVE f.ops[n].id < f.num_ids
  <2>1. f.ops[n].id \in S /\ f.ops[n].id \in Nat
    BY <1>6, <1>9
  <2>2. Max({0} \cup S) >= f.ops[n].id
    BY <1>8, <2>1
  <2> QED
    BY <1>5, <1>8, <2>1, <2>2
<1> QED
  BY <1>5, <1>9

(* One request more: the trace stays well-formed exactly if a client may   *)
(* issue it.                                                               *)
LEMMA WellFormedAppend ==
  ASSUME NEW R, NEW tr \in Seq(R), NEW q \in R
  PROVE  /\ \A n \in 0 .. Len(tr) + 1 : Before(Append(tr, q), n) = Before(tr, n)
         /\ WellFormed(Append(tr, q)) <=>
              /\ WellFormed(tr)
              /\ q.cmd = "a" => q.id \notin Before(tr, Len(tr) + 1)
              /\ q.cmd # "a" => q.id \in Before(tr, Len(tr) + 1)
<1> DEFINE T == Append(tr, q)
           l == Len(tr)
<1>1. /\ l \in Nat /\ DOMAIN tr = 1 .. l /\ DOMAIN T = 1 .. l + 1 /\ T[l + 1] = q
      /\ \A n \in 1 .. l : T[n] = tr[n]
  OBVIOUS
<1> HIDE DEF T
<1>2. ASSUME NEW n \in 0 .. l + 1 PROVE Before(T, n) = Before(tr, n)
  <2>1. n \in Nat /\ \A k \in 1 .. n - 1 : T[k] = tr[k]
    BY <1>1
  <2> QED
    BY <2>1, BeforeAgree
<1> DEFINE May(t, n) == IF t[n].cmd = "a" THEN t[n].id \notin Before(t, n)
                                          ELSE t[n].id \in Before(t, n)
<1>3. \A n \in 1 .. l : May(T, n) <=> May(tr, n)
  BY <1>1, <1>2
<1>4. May(T, l + 1) <=> /\ q.cmd = "a" => q.id \notin Before(tr, l + 1)
                        /\ q.cmd # "a" => q.id \in Before(tr, l + 1)
  BY <1>1, <1>2
<1>5. WellFormed(T) <=> \A n \in 1 .. l + 1 : May(T, n)
  BY <1>1 DEF WellFormed
<1>6. WellFormed(tr) <=> \A n \in 1 .. l : May(tr, n)
  BY <1>1 DEF WellFormed
<1> HIDE DEF May
<1>7. 1 .. l + 1 = (1 .. l) \cup {l + 1}
  BY <1>1
<1>8. WellFormed(T) <=> WellFormed(tr) /\ May(T, l + 1)
  BY <1>3, <1>5, <1>6, <1>7
<1> QED
  BY <1>2, <1>4, <1>8 DEF T

(* Trace T is trace tr followed by frees of the c ids listed, which are    *)
(* the ids tr leaves allocated.                                            *)
FollowedByFrees(T, tr, ids, c) ==
  /\ DOMAIN T = 1 .. Len(tr) + c /\ Len(T) = Len(tr) + c
  /\ \A i, j \in 1 .. c : ids[i] = ids[j] => i = j
  /\ Before(tr, Len(tr) + 1) = {ids[i] : i \in 1 .. c}
  /\ \A n \in 1 .. Len(tr) : T[n] = tr[n]
  /\ \A i \in 1 .. c : T[Len(tr) + i].cmd = "f" /\ T[Len(tr) + i].id = ids[i]

(* A well-formed trace followed by one free for every id it leaves         *)
(* allocated is balanced.                                                  *)
LEMMA FreesBalance ==
  ASSUME NEW R, NEW tr \in Seq(R), WellFormed(tr), NEW T,
         NEW ids, NEW c \in Nat, FollowedByFrees(T, tr, ids, c)
  PROVE  Balanced(T)
<1> USE DEF FollowedByFrees
<1> DEFINE l == Len(tr)
           Left(k) == {ids[i] : i \in k + 1 .. c}
           Right == {k \in Nat : k <= c => Before(T, l + k + 1) = Left(k)}
<1>1. l \in Nat /\ DOMAIN tr = 1 .. l
  OBVIOUS
<1>2. ASSUME NEW n \in 0 .. l + 1 PROVE Before(T, n) = Before(tr, n)
  <2>1. n \in Nat /\ \A k \in 1 .. n - 1 : T[k] = tr[k]
    BY <1>1
  <2> QED
    BY <2>1, BeforeAgree
<1>3. 0 \in Right
  <2>1. Before(T, l + 1) = Before(tr, l + 1) /\ l + 0 + 1 = l + 1
    BY <1>1, <1>2
  <2>2. Left(0) = {ids[i] : i \in 1 .. c}
    OBVIOUS
  <2> QED
    BY <2>1, <2>2
<1>4. ASSUME NEW k \in Nat, k \in Right PROVE k + 1 \in Right
  <2> SUFFICES ASSUME k + 1 <= c PROVE Before(T, l + (k + 1) + 1) = Left(k + 1)
    OBVIOUS
  <2>1. Before(T, l + k + 1) = Left(k)
    BY <1>4
  <2> DEFINE m == l + k + 1
  <2>2. k + 1 \in 1 .. c /\ m = l + (k + 1) /\ m \in Nat /\ m > 0 /\ l + (k + 1) + 1 = m + 1
    BY <1>1
  <2>3. T[m].cmd = "f" /\ T[m].id = ids[k + 1]
    BY <2>2
  <2> HIDE DEF m
  <2>4. Before(T, m + 1) = Before(T, m) \ {ids[k + 1]}
    BY <2>2, <2>3, BeforeStep
  <2>5. Left(k) \ {ids[k + 1]} = Left(k + 1)
    <3>1. k + 1 .. c = ((k + 1) + 1 .. c) \cup {k + 1} /\ (k + 1) + 1 .. c \subseteq 1 .. c
      BY <2>2
    <3>2. \A i \in (k + 1) + 1 .. c : ids[i] # ids[k + 1]
      <4>1. \A i \in (k + 1) + 1 .. c : i # k + 1 /\ i \in 1 .. c
        BY <2>2
      <4> QED
        BY <2>2, <4>1
    <3>3. Left(k) = Left(k + 1) \cup {ids[k + 1]}
      BY <3>1
    <3> QED
      BY <3>2, <3>3
  <2>6. Before(T, m) = Left(k)
    BY <2>1 DEF m
  <2> HIDE DEF Left
  <2> QED
    BY <2>2, <2>4, <2>5, <2>6
<1> HIDE DEF Right
<1>5. \A k \in Nat : k \in Right
  BY <1>3, <1>4, NatInduct
<1>6. \A k \in 0 .. c : Before(T, l + k + 1) = Left(k)
  <2> HIDE DEF Left
  <2> QED
    BY <1>5 DEF Right
<1>7. ASSUME NEW n \in DOMAIN T
      PROVE  IF T[n].cmd = "a" THEN T[n].id \notin Before(T, n) ELSE T[n].id \in Before(T, n)
  <2>1. CASE n <= l
    <3>1. n \in DOMAIN tr /\ T[n] = tr[n] /\ Before(T, n) = Before(tr, n)
      BY <1>1, <1>2, <2>1
    <3> QED
      BY <3>1 DEF WellFormed
  <2>2. CASE n > l
    <3> DEFINE i == n - l
    <3>1. i \in 1 .. c /\ n = l + i /\ i - 1 \in 0 .. c /\ n = l + (i - 1) + 1
      BY <1>1, <2>2
    <3>2. T[n].cmd = "f" /\ T[n].id = ids[i]
      BY <3>1
    <3>3. Before(T, n) = Left(i - 1)
      BY <1>6, <3>1
    <3>4. ids[i] \in Left(i - 1)
      <4>1. i \in (i - 1) + 1 .. c
        BY <3>1
      <4> QED
        BY <4>1
    <3> QED
      BY <3>2, <3>3, <3>4
  <2> QED
    BY <1>1, <2>1, <2>2
<1>8. Before(T, Len(T) + 1) = {}
  <2>1. c \in 0 .. c /\ Left(c) = {}
    OBVIOUS
  <2> QED
    BY <1>6, <2>1
<1> QED
  BY <1>7, <1>8 DEF Balanced, WellFormed

(* The beginning of a well-formed trace is well-formed. *)
LEMMA WellFormedPrefix ==
  ASSUME NEW R, NEW S, NEW s \in Seq(R), NEW t \in Seq(S), WellFormed(t),
         Len(s) <= Len(t), \A n \in 1 .. Len(s) : s[n] = t[n]
  PROVE  WellFormed(s)
<1>1. DOMAIN s = 1 .. Len(s) /\ DOMAIN t = 1 .. Len(t) /\ Len(s) \in Nat /\ Len(t) \in Nat
  OBVIOUS
<1>2. ASSUME NEW n \in 1 .. Len(s) PROVE Before(s, n) = Before(t, n)
  <2>1. n \in Nat /\ \A k \in 1 .. n - 1 : s[k] = t[k]
    BY <1>1
  <2> QED
    BY <2>1, BeforeAgree
<1>3. \A n \in 1 .. Len(s) : n \in DOMAIN t /\ s[n] = t[n]
  BY <1>1
<1> QED
  BY <1>1, <1>2, <1>3 DEF WellFormed
=============================================================================
