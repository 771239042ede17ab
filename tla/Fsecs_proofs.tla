--------------------------- MODULE Fsecs_proofs ---------------------------
(***************************************************************************)
(* Proofs about Fsecs, for words, seconds and arrays of any size and runs  *)
(* of any length.                                                          *)
(***************************************************************************)
EXTENDS Fsecs, Structures

(* No run takes as many cycles as the counter has values. *)
CounterLasts == \A w \in Works : w + COST < W * W

(* The interval timer does not run out during the runs of a call. *)
TimerLasts ==
  \E longest \in Nat :
    /\ \A w \in Works : w + COST <= longest
    /\ \A t \in Starts : t + Runs * longest <= SECOND * MAX_ETIME

-----------------------------------------------------------------------------
(* Quotient and remainder. *)
LEMMA DivMod ==
  ASSUME NEW n \in Nat, n # 0, NEW a \in Int
  PROVE  /\ a \div n \in Int /\ a % n \in 0 .. n - 1
         /\ a = n * (a \div n) + (a % n)
         /\ a >= 0 => a \div n >= 0
<1>1. a \div n \in Int /\ a % n \in 0 .. n - 1 /\ a = n * (a \div n) + (a % n)
  BY SMT
<1>2. ASSUME a >= 0, a \div n <= -1 PROVE FALSE
  <2> DEFINE q == a \div n
  <2>1. q \in Int /\ a % n <= n - 1 /\ a = n * q + (a % n) /\ a % n \in Int
    BY <1>1
  <2>2. n * q <= n * (-1)
    <3> HIDE DEF q
    <3> QED
      BY <1>2, <2>1 DEF q
  <2> QED
    BY <1>2, <2>1, <2>2
<1> QED
  BY <1>1, <1>2

(* They are the only ones. *)
LEMMA DivModUnique ==
  ASSUME NEW n \in Nat, n # 0, NEW q \in Int, NEW r \in 0 .. n - 1
  PROVE  (n * q + r) \div n = q /\ (n * q + r) % n = r
<1> DEFINE a == n * q + r
           p == a \div n
           s == a % n
<1>1. a \in Int
  OBVIOUS
<1>2. p \in Int /\ s \in 0 .. n - 1 /\ a = n * p + s
  BY <1>1, DivMod
<1>3. n * q + r = n * p + s
  BY <1>2
<1> HIDE DEF p, s, a
<1>4. ASSUME q <= p - 1 PROVE FALSE
  <2>1. n * q <= n * (p - 1)
    BY <1>2, <1>4
  <2>2. n * (p - 1) = n * p - n
    BY <1>2
  <2> QED
    BY <1>2, <1>3, <2>1, <2>2
<1>5. ASSUME p <= q - 1 PROVE FALSE
  <2>1. n * p <= n * (q - 1)
    BY <1>2, <1>5
  <2>2. n * (q - 1) = n * q - n
    BY <1>2
  <2> QED
    BY <1>2, <1>3, <2>1, <2>2
<1>6. p = q
  BY <1>2, <1>4, <1>5
<1>7. s = r
  BY <1>2, <1>3, <1>6
<1> QED
  BY <1>6, <1>7 DEF p, s, a

(* A word that is one word too low or fits stands for itself. *)
LEMMA ModSmall ==
  ASSUME NEW n \in Nat, n # 0, NEW r \in 0 .. n - 1
  PROVE  r % n = r /\ r \div n = 0 /\ (r - n) % n = r
<1>1. (n * 0 + r) % n = r /\ (n * 0 + r) \div n = 0
  BY DivModUnique
<1>2. (n * (-1) + r) % n = r
  BY DivModUnique
<1>3. n * 0 + r = r /\ n * (-1) + r = r - n
  OBVIOUS
<1> QED
  BY <1>1, <1>2, <1>3

(* The counter of clock.c: two words at the start and two words at the end *)
(* give the time in between, when it is less than the counter's range.     *)
LEMMA CounterDifference ==
  ASSUME W \in Nat \ {0}, NEW c \in 0 .. W * W - 1, NEW t \in 0 .. W * W - 1
  PROVE  /\ Words(c, W)[1] * W + Words(c, W)[2] = c
         /\ elapsed(Words(c + t, W), Words(c, W)) = t
<1> DEFINE h == c \div W
           l == c % W
           th == t \div W
           tl == t % W
           k == IF l + tl >= W THEN 1 ELSE 0
           r == l + tl - (IF l + tl >= W THEN W ELSE 0)
           q == h + th + k
           new == q % W
<1>0. W \in Nat /\ W # 0 /\ W * W \in Nat /\ c \in Nat /\ t \in Nat /\ c < W * W /\ t < W * W
  OBVIOUS
<1>1. h \in Nat /\ l \in 0 .. W - 1 /\ c = W * h + l
  BY <1>0, DivMod
<1>2. th \in Nat /\ tl \in 0 .. W - 1 /\ t = W * th + tl
  BY <1>0, DivMod
<1> HIDE DEF h, l, th, tl
<1>3. h < W
  <2>1. ASSUME h >= W PROVE FALSE
    <3>1. W * h >= W * W
      BY <1>0, <1>1, <2>1
    <3> QED
      BY <1>0, <1>1, <3>1
  <2> QED
    BY <1>0, <1>1, <2>1
<1>4. th < W
  <2>1. ASSUME th >= W PROVE FALSE
    <3>1. W * th >= W * W
      BY <1>0, <1>2, <2>1
    <3> QED
      BY <1>0, <1>2, <3>1
  <2> QED
    BY <1>0, <1>2, <2>1
<1>5. h % W = h
  BY <1>0, <1>1, <1>3, ModSmall
<1>6. k \in {0, 1} /\ r \in 0 .. W - 1 /\ r = l + tl - W * k /\ q \in Nat
  BY <1>0, <1>1, <1>2
<1>7. c + t = W * q + r
  <2>1. W * (h + th + k) = W * h + W * th + W * k
    BY <1>0, <1>1, <1>2, <1>6
  <2> HIDE DEF k, r
  <2> QED
    BY <1>0, <1>1, <1>2, <1>6, <2>1
<1>8. (c + t) \div W = q /\ (c + t) % W = r
  <2>0. q \in Int /\ r \in 0 .. W - 1
    BY <1>6
  <2> HIDE DEF q, r
  <2>1. (W * q + r) \div W = q /\ (W * q + r) % W = r
    BY <1>0, <2>0, DivModUnique
  <2> QED
    BY <1>7, <2>1
<1>9. Words(c, W) = <<h, l>> /\ Words(c + t, W) = <<new, r>>
  <2>1. Words(c, W) = <<h % W, l>>
    BY DEF Words, h, l
  <2>2. Words(c + t, W) = <<new, r>>
    BY <1>8 DEF Words
  <2> QED
    BY <1>5, <2>1, <2>2
<1>10. (r - l) % W = tl
  <2>1. CASE k = 0
    <3>1. r - l = tl
      BY <1>0, <1>1, <1>2, <1>6, <2>1
    <3> QED
      BY <1>0, <1>2, <3>1, ModSmall
  <2>2. CASE k = 1
    <3>1. r - l = tl - W
      BY <1>0, <1>1, <1>2, <1>6, <2>2
    <3> QED
      BY <1>0, <1>2, <3>1, ModSmall
  <2> QED
    BY <1>6, <2>1, <2>2
<1>11. (IF tl > r THEN 1 ELSE 0) = k
  BY <1>0, <1>1, <1>2, <1>6
<1>12. (new - h - k) % W = th
  <2>1. PICK j \in Int : q = W * j + new /\ new \in 0 .. W - 1
    <3>1. q = W * (q \div W) + new /\ new \in 0 .. W - 1 /\ q \div W \in Int
      <4> HIDE DEF q
      <4> QED
        BY <1>0, <1>6, DivMod
    <3> QED
      BY <3>1
  <2> HIDE DEF new
  <2>2. new - h - k = W * (- j) + th
    <3>1. W * (- j) = - (W * j)
      BY <1>0, <2>1
    <3>2. W * j \in Int
      BY <1>0, <2>1
    <3>3. new = h + th + k - W * j
      <4>1. q = h + th + k
        OBVIOUS
      <4> HIDE DEF q, k
      <4> QED
        BY <1>0, <1>1, <1>2, <1>6, <2>1, <3>2, <4>1
    <3> HIDE DEF q, k
    <3> QED
      BY <1>0, <1>1, <1>2, <1>6, <2>1, <3>1, <3>2, <3>3
  <2>3. th \in 0 .. W - 1 /\ - j \in Int
    BY <1>0, <1>2, <1>4, <2>1
  <2> QED
    BY <1>0, <2>2, <2>3, DivModUnique
<1>13. elapsed(<<new, r>>, <<h, l>>) = th * W + tl
  <2> HIDE DEF new, r, k
  <2> QED
    BY <1>10, <1>11, <1>12 DEF elapsed
<1>14. elapsed(<<new, r>>, <<h, l>>) = t
  <2>1. th * W = W * th
    BY <1>0, <1>2
  <2> HIDE DEF new, r, k
  <2> QED
    BY <1>2, <1>13, <2>1
<1>15. h * W + l = c
  BY <1>0, <1>1
<1> QED
  BY <1>9, <1>14, <1>15

-----------------------------------------------------------------------------
(* What add_sample keeps: the first n entries of vals stand for n of the   *)
(* samples, in order, and every other sample has lost against a full array. *)
Stands(of, vals, n, sams) ==
  /\ of \in [1 .. n -> 1 .. Len(sams)]
  /\ \A j, k \in 1 .. n : j < k => of[j] # of[k] /\ vals[j] <= vals[k]
  /\ \A k \in 1 .. n : vals[k] = sams[of[k]]
  /\ \A m \in 1 .. Len(sams) :
       (\A k \in 1 .. n : of[k] # m) => n = K /\ vals[K] <= sams[m]

Kept(num) == IF K < num THEN K ELSE num

(* In an ordered prefix, the entries that are not larger than x come first. *)
LEMMA Position ==
  ASSUME NEW vals, NEW p \in Nat, NEW x \in Int,
         \A n \in 1 .. p : vals[n] \in Int,
         \A j, k \in 1 .. p : j < k => vals[j] <= vals[k]
  PROVE  LET c == Cardinality({n \in 1 .. p : vals[n] <= x}) IN
         /\ c \in 0 .. p
         /\ \A n \in 1 .. p : n <= c <=> vals[n] <= x
<1> DEFINE S == {n \in 1 .. p : vals[n] <= x}
<1>1. CASE S = {}
  <2>1. Cardinality(S) = 0
    BY <1>1, FS_EmptySet
  <2> QED
    BY <1>1, <2>1
<1>2. CASE S # {}
  <2>1. PICK m \in S : \A n \in S : m >= n
    <3>1. S \in SUBSET Nat /\ \A n \in S : n <= p
      OBVIOUS
    <3> HIDE DEF S
    <3>2. IsFiniteSet(S) /\ S \in SUBSET Int
      BY <3>1, FS_BoundedSetOfNaturals
    <3> QED
      BY <1>2, <3>2, IntMaximum
  <2>2. S = 1 .. m
    <3>1. ASSUME NEW n \in 1 .. m PROVE n \in S
      BY <2>1, <3>1
    <3>2. ASSUME NEW n \in S PROVE n \in 1 .. m
      BY <2>1, <3>2
    <3> QED
      BY <3>1, <3>2
  <2>3. m \in 1 .. p
    BY <2>1
  <2>4. Cardinality(1 .. m) = IF 1 > m THEN 0 ELSE m - 1 + 1
    <3>1. 1 \in Int /\ m \in Int
      BY <2>3
    <3> QED
      BY <3>1, FS_Interval
  <2>5. Cardinality(S) = m
    <3>1. Cardinality(1 .. m) = m
      BY <2>3, <2>4
    <3> HIDE DEF S
    <3> QED
      BY <2>2, <3>1
  <2>6. \A n \in 1 .. p : n <= m <=> n \in S
    BY <2>2, <2>3
  <2> QED
    BY <2>3, <2>5, <2>6
<1> QED
  BY <1>1, <1>2

(* The entry at pos is inserted into the ordered entries before it: the    *)
(* array is a permutation of the old one up to pos, and ordered.           *)
LEMMA InsertMoves ==
  ASSUME K \in Nat \ {0}, NEW vals \in [1 .. K -> Int], NEW pos \in 1 .. K,
         \A j, k \in 1 .. pos - 1 : j < k => vals[j] <= vals[k]
  PROVE  \E at \in 1 .. pos :
           /\ Insert(vals, pos) =
                [n \in 1 .. K |-> IF n < at \/ n > pos THEN vals[n]
                                  ELSE IF n = at THEN vals[pos] ELSE vals[n - 1]]
           /\ Insert(vals, pos) \in [1 .. K -> Int]
           /\ \A j, k \in 1 .. pos : j < k => Insert(vals, pos)[j] <= Insert(vals, pos)[k]
<1> DEFINE c == Cardinality({n \in 1 .. pos - 1 : vals[n] <= vals[pos]})
           at == 1 + c
           ins == [n \in 1 .. K |-> IF n < at \/ n > pos THEN vals[n]
                                    ELSE IF n = at THEN vals[pos] ELSE vals[n - 1]]
<1>1. c \in 0 .. pos - 1 /\ \A n \in 1 .. pos - 1 : n <= c <=> vals[n] <= vals[pos]
  <2>1. pos - 1 \in Nat /\ vals[pos] \in Int /\ \A n \in 1 .. pos - 1 : vals[n] \in Int
    OBVIOUS
  <2> QED
    BY <2>1, Position
<1>2. Insert(vals, pos) = ins
  BY DEF Insert
<1> HIDE DEF c
<1>3. at \in 1 .. pos
  BY <1>1
<1>4. ins \in [1 .. K -> Int]
  <2>1. ASSUME NEW n \in 1 .. K PROVE ins[n] \in Int
    BY <1>3
  <2> QED
    BY <2>1
<1>5. ASSUME NEW j \in 1 .. pos, NEW k \in 1 .. pos, j < k PROVE ins[j] <= ins[k]
  <2>0. j \in 1 .. K /\ k \in 1 .. K
    OBVIOUS
  <2>1. CASE k < at
    BY <1>1, <1>3, <1>5, <2>0, <2>1
  <2>2. CASE j >= at
    <3>1. CASE j = at
      <4>1. ins[j] = vals[pos] /\ ins[k] = vals[k - 1] /\ k - 1 \in 1 .. pos - 1
        BY <1>3, <1>5, <2>0, <3>1
      <4>2. ~ (vals[k - 1] <= vals[pos])
        BY <1>1, <1>5, <3>1, <4>1
      <4>3. vals[k - 1] \in Int /\ vals[pos] \in Int
        BY <4>1
      <4> QED
        BY <4>1, <4>2, <4>3
    <3>2. CASE j > at
      <4>1. ins[j] = vals[j - 1] /\ ins[k] = vals[k - 1]
        BY <1>3, <1>5, <2>0, <3>2
      <4>2. j - 1 \in 1 .. pos - 1 /\ k - 1 \in 1 .. pos - 1
        BY <1>3, <1>5, <3>2
      <4> QED
        BY <1>5, <4>1, <4>2
    <3> QED
      BY <1>3, <2>2, <3>1, <3>2
  <2>3. CASE j < at /\ k = at
    <3>1. ins[j] = vals[j] /\ ins[k] = vals[pos]
      BY <1>3, <2>0, <2>3
    <3>2. j \in 1 .. pos - 1 /\ j <= c
      BY <1>1, <1>3, <2>3
    <3> QED
      BY <1>1, <3>1, <3>2
  <2>4. CASE j < at /\ k > at
    <3>1. ins[j] = vals[j] /\ ins[k] = vals[k - 1]
      BY <1>3, <2>0, <2>4
    <3>2. j \in 1 .. pos - 1 /\ k - 1 \in 1 .. pos - 1 /\ j < k - 1
      BY <1>1, <1>3, <2>4
    <3> QED
      BY <3>1, <3>2
  <2> QED
    BY <1>3, <2>1, <2>2, <2>3, <2>4
<1> HIDE DEF at, ins
<1>6. /\ Insert(vals, pos) = ins
      /\ Insert(vals, pos) \in [1 .. K -> Int]
      /\ \A j, k \in 1 .. pos : j < k => Insert(vals, pos)[j] <= Insert(vals, pos)[k]
  BY <1>2, <1>4, <1>5
<1> QED
  BY <1>3, <1>6 DEF ins

(* A sample that enters the array pushes out the largest entry, if any. *)
LEMMA SampleEnters ==
  ASSUME K \in Nat \ {0}, NEW vals \in [1 .. K -> Int], NEW sams \in Seq(Int),
         NEW val \in Int, NEW of, Stands(of, vals, Kept(Len(sams)), sams),
         NEW pos, pos = Kept(Len(sams) + 1), Len(sams) < K \/ val < vals[K]
  PROVE  LET new == Insert([vals EXCEPT ![pos] = val], pos) IN
         /\ new \in [1 .. K -> Int]
         /\ \E of2 : Stands(of2, new, pos, Append(sams, val))
<1> DEFINE num == Len(sams)
           n == Kept(num)
           vals1 == [vals EXCEPT ![pos] = val]
           new == Insert(vals1, pos)
<1>0. num \in Nat /\ n \in 0 .. K /\ n <= num /\ pos \in 1 .. K /\ pos - 1 <= n /\ pos <= num + 1
  BY DEF Kept
<1> USE DEF Kept
<1>3. num < K => n = num /\ pos = num + 1
  BY <1>0
<1>4. num >= K => n = K /\ pos = K /\ val < vals[K]
  BY <1>0
<1> HIDE DEF Kept
<1>1. /\ of \in [1 .. n -> 1 .. num]
      /\ \A j, k \in 1 .. n : j < k => of[j] # of[k] /\ vals[j] <= vals[k]
      /\ \A k \in 1 .. n : vals[k] = sams[of[k]]
      /\ \A m \in 1 .. num : (\A k \in 1 .. n : of[k] # m) => n = K /\ vals[K] <= sams[m]
  BY DEF Stands
<1>2. vals1 \in [1 .. K -> Int] /\ vals1[pos] = val /\ \A k \in 1 .. pos - 1 : vals1[k] = vals[k]
  BY <1>0
<1> HIDE DEF num, n
<1>5. \A j, k \in 1 .. pos - 1 : j < k => vals1[j] <= vals1[k]
  <2> SUFFICES ASSUME NEW j \in 1 .. pos - 1, NEW k \in 1 .. pos - 1, j < k
               PROVE vals1[j] <= vals1[k]
    OBVIOUS
  <2>1. j \in 1 .. n /\ k \in 1 .. n
    BY <1>0
  <2> QED
    BY <1>1, <1>2, <2>1
<1> HIDE DEF vals1
<1>6. PICK at \in 1 .. pos :
        /\ new = [m \in 1 .. K |-> IF m < at \/ m > pos THEN vals1[m]
                                   ELSE IF m = at THEN vals1[pos] ELSE vals1[m - 1]]
        /\ new \in [1 .. K -> Int]
        /\ \A j, k \in 1 .. pos : j < k => new[j] <= new[k]
  BY <1>0, <1>2, <1>5, InsertMoves
<1> HIDE DEF new
<1> DEFINE of2 == [m \in 1 .. pos |-> IF m < at THEN of[m] ELSE IF m = at THEN num + 1
                                      ELSE of[m - 1]]
           sams2 == Append(sams, val)
<1>7. Len(sams2) = num + 1 /\ sams2[num + 1] = val /\ \A m \in 1 .. num : sams2[m] = sams[m]
  BY DEF num
<1> HIDE DEF sams2
<1>15. ASSUME NEW m \in 1 .. pos
       PROVE  /\ m < at => of2[m] = of[m]
              /\ m = at => of2[m] = num + 1
              /\ m > at => of2[m] = of[m - 1]
  BY <1>6
<1>16. of2 = [m \in 1 .. pos |-> of2[m]]
  OBVIOUS
<1>17. ASSUME NEW m \in 1 .. pos
       PROVE  /\ m < at => new[m] = vals[m]
              /\ m = at => new[m] = val
              /\ m > at => new[m] = vals[m - 1]
  <2>1. m \in 1 .. K /\ ~ (m > pos)
    BY <1>0
  <2>2. m < at => m \in 1 .. pos - 1
    BY <1>0, <1>6
  <2>3. m > at => m - 1 \in 1 .. pos - 1 /\ ~ (m < at) /\ m # at
    BY <1>0, <1>6
  <2> QED
    BY <1>2, <1>6, <2>1, <2>2, <2>3
<1> HIDE DEF of2
<1>8. ASSUME NEW m \in 1 .. pos
      PROVE  /\ m < at => m \in 1 .. n
             /\ m > at => m - 1 \in 1 .. n
  BY <1>0, <1>6
<1>9. of2 \in [1 .. pos -> 1 .. num + 1]
  <2> SUFFICES ASSUME NEW m \in 1 .. pos PROVE of2[m] \in 1 .. num + 1
    BY <1>16
  <2>1. CASE m < at
    <3>1. of2[m] = of[m] /\ of[m] \in 1 .. num
      BY <1>1, <1>8, <1>15, <2>1
    <3> QED
      BY <1>0, <3>1
  <2>2. CASE m = at
    BY <1>0, <1>15, <2>2
  <2>3. CASE m > at
    <3>1. m - 1 \in 1 .. n
      BY <1>6, <1>8, <2>3
    <3>2. of2[m] = of[m - 1] /\ of[m - 1] \in 1 .. num
      BY <1>1, <1>15, <2>3, <3>1
    <3> QED
      BY <1>0, <3>2
  <2> QED
    BY <1>6, <2>1, <2>2, <2>3
<1>10. ASSUME NEW j \in 1 .. pos, NEW k \in 1 .. pos, j < k PROVE of2[j] # of2[k]
  <2>1. \A m \in 1 .. n : of[m] \in 1 .. num /\ of[m] # num + 1
    BY <1>0, <1>1
  <2>2. CASE k < at
    BY <1>1, <1>6, <1>8, <1>10, <1>15, <2>2
  <2>3. CASE k = at
    BY <1>6, <1>8, <1>10, <1>15, <2>1, <2>3
  <2>4. CASE k > at /\ j = at
    BY <1>6, <1>8, <1>10, <1>15, <2>1, <2>4
  <2>5. CASE k > at /\ j < at
    <3>1. of2[j] = of[j] /\ of2[k] = of[k - 1] /\ j < k - 1
      BY <1>6, <1>10, <1>15, <2>5
    <3> QED
      BY <1>1, <1>8, <2>5, <3>1
  <2>6. CASE k > at /\ j > at
    <3>1. of2[j] = of[j - 1] /\ of2[k] = of[k - 1] /\ j - 1 < k - 1
      BY <1>6, <1>10, <1>15, <2>6
    <3> QED
      BY <1>1, <1>8, <2>6, <3>1
  <2> QED
    BY <1>6, <2>2, <2>3, <2>4, <2>5, <2>6
<1>11. ASSUME NEW k \in 1 .. pos PROVE new[k] = sams2[of2[k]]
  <2>1. CASE k < at
    <3>1. k \in 1 .. n /\ of[k] \in 1 .. num
      BY <1>1, <1>8, <2>1
    <3> QED
      BY <1>1, <1>7, <1>15, <1>17, <2>1, <3>1, SMTT(60)
  <2>2. CASE k = at
    BY <1>7, <1>15, <1>17, <2>2
  <2>3. CASE k > at
    <3>1. k - 1 \in 1 .. n
      BY <1>6, <1>8, <2>3
    <3>2. of[k - 1] \in 1 .. num
      BY <1>1, <3>1
    <3>3. new[k] = vals[k - 1] /\ of2[k] = of[k - 1]
      BY <1>15, <1>17, <2>3
    <3>4. vals[k - 1] = sams[of[k - 1]]
      BY <1>1, <3>1
    <3> QED
      BY <1>7, <3>2, <3>3, <3>4
  <2> QED
    BY <1>6, <2>1, <2>2, <2>3
<1>12. num >= K => new[K] <= vals[K]
  <2> SUFFICES ASSUME num >= K PROVE new[K] <= vals[K]
    OBVIOUS
  <2>1. n = K /\ pos = K /\ val < vals[K] /\ K \in 1 .. K /\ vals[K] \in Int
    BY <1>0, <1>4
  <2>2. CASE at = K
    BY <1>17, <2>1, <2>2
  <2>3. CASE at # K
    <3>1. K \in 1 .. pos /\ K > at /\ K - 1 \in 1 .. n /\ K \in 1 .. n /\ K - 1 < K
      BY <1>6, <2>1, <2>3
    <3>2. new[K] = vals[K - 1]
      BY <1>17, <3>1
    <3> QED
      BY <1>1, <3>1, <3>2
  <2> QED
    BY <2>2, <2>3
<1>13. ASSUME NEW m \in 1 .. num + 1, \A k \in 1 .. pos : of2[k] # m
       PROVE  pos = K /\ new[K] <= sams2[m]
  <2>1. m # num + 1
    BY <1>6, <1>13, <1>15
  <2>2. m \in 1 .. num
    BY <1>0, <2>1
  <2>3. \A k \in 1 .. pos - 1 : of[k] # m
    <3> SUFFICES ASSUME NEW k \in 1 .. pos - 1 PROVE of[k] # m
      OBVIOUS
    <3>1. CASE k < at
      <4>1. k \in 1 .. pos /\ of2[k] = of[k]
        BY <1>0, <1>15, <3>1
      <4> QED
        BY <1>13, <4>1
    <3>2. CASE k >= at
      <4>1. k + 1 \in 1 .. pos /\ k + 1 > at /\ (k + 1) - 1 = k
        BY <1>0, <1>6, <3>2
      <4>2. of2[k + 1] = of[k]
        BY <1>15, <4>1
      <4> QED
        BY <1>13, <4>1, <4>2
    <3> QED
      BY <1>6, <3>1, <3>2
  <2>4. num >= K
    <3> SUFFICES ASSUME num < K PROVE FALSE
      BY <1>0
    <3>1. n = num /\ pos - 1 = n
      BY <1>0, <1>3
    <3>2. n = K
      BY <1>1, <2>2, <2>3, <3>1
    <3> QED
      BY <1>0, <3>1, <3>2
  <2>5. n = K /\ pos = K /\ K \in 1 .. n
    BY <1>0, <1>4, <2>4
  <2>6. vals[K] <= sams[m]
    <3>1. CASE of[K] = m
      <4>1. vals[K] = sams[m] /\ vals[K] \in Int
        BY <1>1, <2>5, <3>1
      <4> QED
        BY <4>1
    <3>2. CASE of[K] # m
      <4>1. \A k \in 1 .. n : of[k] # m
        BY <1>0, <2>3, <2>5, <3>2
      <4> QED
        BY <1>1, <2>2, <4>1
    <3> QED
      BY <3>1, <3>2
  <2>7. new[K] \in Int /\ vals[K] \in Int /\ sams[m] \in Int /\ new[K] <= vals[K]
    BY <1>6, <1>12, <2>2, <2>4, <2>5 DEF num
  <2> QED
    BY <1>7, <2>2, <2>5, <2>6, <2>7
<1>14. Stands(of2, new, pos, sams2)
  <2>1. \A j, k \in 1 .. pos : j < k => of2[j] # of2[k] /\ new[j] <= new[k]
    BY <1>6, <1>10
  <2>2. \A m \in 1 .. num + 1 : (\A k \in 1 .. pos : of2[k] # m)
                                => pos = K /\ new[K] <= sams2[m]
    BY <1>13
  <2> QED
    BY <1>7, <1>9, <1>11, <2>1, <2>2 DEF Stands
<1> QED
  BY <1>6, <1>14 DEF new, vals1, sams2

(* add_sample keeps the K smallest samples in order. *)
LEMMA AddSampleKeeps ==
  ASSUME K \in Nat \ {0}, NEW vals \in [1 .. K -> Int], NEW sams \in Seq(Int),
         NEW val \in Int, \E of : Stands(of, vals, Kept(Len(sams)), sams)
  PROVE  LET new == add_sample(vals, Len(sams), val) IN
         /\ new \in [1 .. K -> Int]
         /\ \E of : Stands(of, new, Kept(Len(sams) + 1), Append(sams, val))
<1> DEFINE num == Len(sams)
           pos == Kept(num + 1)
           new == add_sample(vals, num, val)
<1>0. PICK of : Stands(of, vals, Kept(num), sams)
  OBVIOUS
<1>1. num \in Nat /\ (num < K => pos = num + 1) /\ (num >= K => pos = K /\ Kept(num) = K)
  BY DEF Kept
<1>2. CASE num < K \/ val < vals[K]
  <2>1. new = Insert([vals EXCEPT ![pos] = val], pos)
    <3> HIDE DEF num, pos
    <3>1. CASE num < K
      <4>1. pos = num + 1
        BY <1>1, <3>1
      <4> QED
        BY <3>1, <4>1 DEF add_sample
    <3>2. CASE ~ (num < K)
      <4>1. pos = K /\ val < vals[K]
        BY <1>1, <1>2, <3>2
      <4> QED
        BY <3>2, <4>1 DEF add_sample
    <3> QED
      BY <3>1, <3>2
  <2>2. /\ Insert([vals EXCEPT ![pos] = val], pos) \in [1 .. K -> Int]
        /\ \E of2 : Stands(of2, Insert([vals EXCEPT ![pos] = val], pos), pos, Append(sams, val))
    <3>1. pos = Kept(Len(sams) + 1) /\ (Len(sams) < K \/ val < vals[K])
      BY <1>2
    <3> HIDE DEF num, pos
    <3> QED
      BY <1>0, <3>1, SampleEnters DEF num
  <2> QED
    BY <2>1, <2>2, Zenon
<1>3. CASE num >= K /\ vals[K] <= val
  <2>0. vals[K] \in Int
    OBVIOUS
  <2>1. new = vals
    BY <1>1, <1>3, <2>0 DEF add_sample
  <2> HIDE DEF new
  <2>2. /\ of \in [1 .. K -> 1 .. num]
        /\ \A j, k \in 1 .. K : j < k => of[j] # of[k] /\ vals[j] <= vals[k]
        /\ \A k \in 1 .. K : vals[k] = sams[of[k]]
        /\ \A m \in 1 .. num : (\A k \in 1 .. K : of[k] # m) => vals[K] <= sams[m]
    BY <1>0, <1>1, <1>3 DEF Stands
  <2> DEFINE sams2 == Append(sams, val)
  <2>3. Len(sams2) = num + 1 /\ sams2[num + 1] = val /\ \A m \in 1 .. num : sams2[m] = sams[m]
    OBVIOUS
  <2> HIDE DEF sams2, num
  <2>a. \A k \in 1 .. K : of[k] \in 1 .. num
    BY <2>2
  <2>b. 1 .. num \subseteq 1 .. num + 1
    BY <1>1
  <2>4. of \in [1 .. K -> 1 .. num + 1] /\ \A k \in 1 .. K : of[k] \in 1 .. num
    BY <2>2, <2>a, <2>b
  <2>5. \A m \in 1 .. num + 1 : (\A k \in 1 .. K : of[k] # m) => vals[K] <= sams2[m]
    <3> SUFFICES ASSUME NEW m \in 1 .. num + 1, \A k \in 1 .. K : of[k] # m
                 PROVE vals[K] <= sams2[m]
      OBVIOUS
    <3>1. CASE m = num + 1
      BY <1>3, <2>3, <3>1
    <3>2. CASE m \in 1 .. num
      BY <2>2, <2>3, <3>2
    <3> QED
      BY <1>1, <3>1, <3>2
  <2>6. Stands(of, vals, K, sams2)
    BY <2>2, <2>3, <2>4, <2>5 DEF Stands
  <2> QED
    BY <1>1, <1>3, <2>1, <2>6 DEF sams2, new, num
<1> QED
  <2>1. vals[K] \in Int
    OBVIOUS
  <2> HIDE DEF new
  <2>2. (num < K \/ val < vals[K]) \/ (num >= K /\ vals[K] <= val)
    BY <1>1, <2>1
  <2> QED
    BY <1>2, <1>3, <2>2 DEF new

(* When sampling ends with the array in that state, its first entry is the *)
(* smallest sample, and unless the runs were used up K samples are near it. *)
LEMMA AgreedAtEnd ==
  ASSUME K \in Nat \ {0}, EpsPercent \in Nat, MaxSamples \in Nat,
         NEW vals \in [1 .. K -> Int], NEW sams \in Seq(Int), sams # <<>>,
         \E of : Stands(of, vals, Kept(Len(sams)), sams),
         has_converged(vals, Len(sams)) \/ gives_up(Len(sams))
  PROVE  /\ \A n \in DOMAIN sams : vals[1] <= sams[n]
         /\ Len(sams) < MaxSamples =>
              Cardinality({n \in DOMAIN sams :
                             100 * sams[n] <= (100 + EpsPercent) * vals[1]}) >= K
<1> DEFINE num == Len(sams)
           n == Kept(num)
<1>0. num \in Nat /\ num >= 1 /\ DOMAIN sams = 1 .. num /\ n \in 1 .. K /\ n <= num
      /\ (num >= K => n = K) /\ \A m \in 1 .. num : sams[m] \in Int
  BY DEF Kept
<1>1. PICK of : Stands(of, vals, n, sams)
  OBVIOUS
<1>2. /\ of \in [1 .. n -> 1 .. num]
      /\ \A j, k \in 1 .. n : j < k => of[j] # of[k] /\ vals[j] <= vals[k]
      /\ \A k \in 1 .. n : vals[k] = sams[of[k]]
      /\ \A m \in 1 .. num : (\A k \in 1 .. n : of[k] # m) => n = K /\ vals[K] <= sams[m]
  BY <1>1 DEF Stands
<1> HIDE DEF n, num
<1>3. \A k \in 1 .. n : vals[k] \in Int /\ vals[1] <= vals[k]
  <2> SUFFICES ASSUME NEW k \in 1 .. n PROVE vals[k] \in Int /\ vals[1] <= vals[k]
    OBVIOUS
  <2>1. k \in 1 .. K /\ 1 \in 1 .. K /\ 1 \in 1 .. n
    BY <1>0
  <2>2. vals[k] \in Int /\ vals[1] \in Int
    BY <2>1
  <2>3. CASE k = 1
    BY <2>2, <2>3
  <2>4. CASE k # 1
    <3>1. 1 < k
      BY <2>1, <2>4
    <3> QED
      BY <1>2, <2>1, <2>2, <3>1
  <2> QED
    BY <2>3, <2>4
<1>4. ASSUME NEW m \in 1 .. num PROVE vals[1] <= sams[m]
  <2>1. CASE \E k \in 1 .. n : of[k] = m
    BY <1>2, <1>3, <2>1
  <2>2. CASE \A k \in 1 .. n : of[k] # m
    <3>1. n = K /\ vals[K] <= sams[m] /\ K \in 1 .. n
      BY <1>0, <1>2, <2>2
    <3>2. vals[1] \in Int /\ vals[K] \in Int /\ vals[1] <= vals[K] /\ sams[m] \in Int
      BY <1>0, <1>3, <3>1
    <3> QED
      BY <3>1, <3>2
  <2> QED
    BY <2>1, <2>2
<1>5. ASSUME num < MaxSamples
      PROVE  Cardinality({m \in 1 .. num : 100 * sams[m] <= (100 + EpsPercent) * vals[1]}) >= K
  <2> DEFINE near == (100 + EpsPercent) * vals[1]
             S == {m \in 1 .. num : 100 * sams[m] <= near}
  <2>1. num >= K /\ near >= 100 * vals[K]
    BY <1>0, <1>5 DEF has_converged, gives_up, num
  <2>2. near \in Int /\ n = K /\ K \in 1 .. n
    <3>1. vals[1] \in Int
      BY <1>0
    <3> QED
      BY <1>0, <2>1, <3>1
  <2> HIDE DEF near
  <2>3. ASSUME NEW k \in 1 .. K PROVE of[k] \in S
    <3>1. vals[k] \in Int /\ vals[K] \in Int /\ vals[k] <= vals[K]
      <4>1. CASE k = K
        BY <1>3, <2>2, <4>1
      <4>2. CASE k # K
        <5>1. k < K
          BY <4>2
        <5> QED
          BY <1>2, <1>3, <2>2, <5>1
      <4> QED
        BY <4>1, <4>2
    <3>2. of[k] \in 1 .. num /\ sams[of[k]] = vals[k]
      BY <1>2, <2>2
    <3> QED
      BY <2>1, <2>2, <3>1, <3>2
  <2>4. \A j, k \in 1 .. K : of[j] = of[k] => j = k
    <3> SUFFICES ASSUME NEW j \in 1 .. K, NEW k \in 1 .. K, of[j] = of[k], j # k PROVE FALSE
      OBVIOUS
    <3>1. j < k \/ k < j
      OBVIOUS
    <3> QED
      BY <1>2, <2>2, <3>1
  <2>5. of \in [1 .. K -> S]
    BY <1>2, <2>2, <2>3
  <2>6. of \in Injection(1 .. K, S)
    BY <2>4, <2>5 DEF Injection, IsInjective
  <2>7. IsFiniteSet(S)
    <3>1. IsFiniteSet(1 .. num)
      <4>1. 1 \in Int /\ num \in Int
        BY <1>0
      <4> QED
        BY <4>1, FS_Interval
    <3>2. S \in SUBSET (1 .. num)
      OBVIOUS
    <3> HIDE DEF S
    <3> QED
      BY <3>1, <3>2, FS_Subset
  <2> HIDE DEF S
  <2>8. Cardinality(1 .. K) <= Cardinality(S)
    BY <2>6, <2>7, FS_Injection
  <2>9. Cardinality(1 .. K) = K
    <3>1. Cardinality(1 .. K) = IF 1 > K THEN 0 ELSE K - 1 + 1
      BY FS_Interval
    <3> QED
      BY <3>1
  <2>10. Cardinality(S) \in Nat
    BY <2>7, FS_CardinalityType
  <2>11. Cardinality(S) >= K
    BY <2>8, <2>9, <2>10
  <2> QED
    BY <2>11 DEF S, near
<1> QED
  BY <1>0, <1>4, <1>5 DEF num

-----------------------------------------------------------------------------
(* The inductive invariant.  The program counter says which package runs   *)
(* and what the other variables hold there.                                *)
StateOK ==
  /\ package \in {"fcyc", "fcyc_comp", "itimer", "gettod"}
  /\ now \in [work : Nat, time : Nat, ticks : Nat]

ControlOK ==
  /\ pc \in {"start", "callibrate", "counter", "run", "stop"} =>
       i = 0 /\ samplecount < MaxSamples
  /\ pc = "callibrate" => e < NEVENT
  /\ pc \in {"first", "loop"} => samples = <<>>
  /\ pc = "first" => i = 0 /\ now = NoTime

(* When f has run, cyc holds when it started and now what it took. *)
CounterOK ==
  /\ pc \in {"run", "stop"} => \E t \in Starts : cyc = Words(t, W)
  /\ pc = "run" => \E late \in 0 .. 1 : now = [NoTime EXCEPT !.ticks = late]
  /\ pc = "stop" => \E w \in Works, ticks \in 0 .. 1, late \in 0 .. 1 :
       now = [work |-> w, time |-> w + ticks * COST, ticks |-> late + ticks]

ClockOK ==
  pc = "loop" => \E t \in Starts : cyc = IF package = "gettod" THEN tod(t) ELSE itimer(t)

IInv == TypeOK /\ StateOK /\ ControlOK /\ CounterOK /\ ClockOK /\ SamplingExact

(* Readings of the counter and of the timer are words, and seconds and     *)
(* microseconds add up to the time.                                        *)
LEMMA TimesAreNat ==
  ASSUME NEW t \in Nat
  PROVE  /\ Words(t, W)[1] \in Nat /\ Words(t, W)[2] \in Nat
         /\ Seconds(t)[1] \in Nat /\ Seconds(t)[2] \in Nat
         /\ SECOND * Seconds(t)[1] + Seconds(t)[2] = t
<1>1. W \in Nat /\ W # 0 /\ SECOND \in Nat /\ SECOND # 0
  BY FsecsAssumption
<1>2. /\ t \div W \in Int /\ t \div W >= 0 /\ t % W \in 0 .. W - 1
      /\ t \div SECOND \in Int /\ t \div SECOND >= 0 /\ t % SECOND \in 0 .. SECOND - 1
      /\ t = SECOND * (t \div SECOND) + (t % SECOND)
  <2>1. t \in Int /\ t >= 0
    OBVIOUS
  <2>2. t \div W \in Int /\ t \div W >= 0 /\ t % W \in 0 .. W - 1
    BY <1>1, <2>1, DivMod
  <2>3. t \div SECOND \in Int /\ t \div SECOND >= 0 /\ t % SECOND \in 0 .. SECOND - 1
        /\ t = SECOND * (t \div SECOND) + (t % SECOND)
    BY <1>1, <2>1, DivMod
  <2> QED
    BY <2>2, <2>3
<1>3. (t \div W) % W \in 0 .. W - 1
  BY <1>1, <1>2, DivMod
<1> QED
  BY <1>1, <1>2, <1>3 DEF Words, Seconds

(* The interval timer shows what is left, and never less than nothing.     *)
LEMMA CountDownIsNat ==
  ASSUME NEW left \in Int
  PROVE  /\ CountDown(left)[1] \in Nat /\ CountDown(left)[2] \in Nat
         /\ left >= 0 => SECOND * CountDown(left)[1] + CountDown(left)[2] = left
<1> DEFINE shown == IF left > 0 THEN left ELSE 0
<1>1. shown \in Nat /\ (left >= 0 => shown = left) /\ CountDown(left) = Seconds(shown)
  BY DEF CountDown
<1> HIDE DEF shown
<1> QED
  BY <1>1, TimesAreNat

(* KeepsKBest in the form that the lemmas on add_sample use.               *)
LEMMA KeepsIsStands ==
  KeepsKBest <=> \E of : Stands(of, values, Kept(samplecount), samples)
BY DEF KeepsKBest, Stands, Kept, samplecount

(* Before the first measurement nothing is sampled.                        *)
LEMMA InitInvariant == Init => IInv
<1> SUFFICES ASSUME Init PROVE IInv
  OBVIOUS
<1> USE FsecsAssumption
<1>1. TypeOK /\ StateOK /\ ControlOK /\ CounterOK /\ ClockOK
  BY DEF Init, TypeOK, StateOK, ControlOK, CounterOK, ClockOK, NoValues, NoTime, samplecount
<1>2. KeepsKBest
  <2>1. Len(samples) = 0 /\ Kept(samplecount) = 0
    BY DEF Init, Kept, samplecount
  <2>2. Stands([k \in 1 .. 0 |-> 0], values, Kept(samplecount), samples)
    BY <2>1 DEF Stands
  <2> QED
    BY <2>2, KeepsIsStands
<1>3. EarlyMeansAgreed
  BY DEF Init, EarlyMeansAgreed
<1> QED
  BY <1>1, <1>2, <1>3 DEF IInv, SamplingExact

(* A measured run adds to the work, the time and the ticks.                *)
LEMMA MeasuredType ==
  ASSUME now \in [work : Nat, time : Nat, ticks : Nat], Measured
  PROVE  now' \in [work : Nat, time : Nat, ticks : Nat]
<1>1. PICK w \in Works, ticks \in 0 .. 1 :
        now' = [work  |-> now.work + w, time |-> now.time + w + ticks * COST,
                ticks |-> now.ticks + ticks]
  BY DEF Measured
<1>2. w \in Nat /\ ticks \in Nat /\ COST \in Nat /\ ticks * COST \in Nat
  BY FsecsAssumption
<1> QED
  BY <1>1, <1>2

(* A cleared array keeps no sample. *)
LEMMA NothingKept ==
  ASSUME samples' = <<>>
  PROVE  KeepsKBest'
<1>1. Len(samples') = 0 /\ Kept(Len(samples')) = 0
  BY FsecsAssumption DEF Kept
<1>2. Stands([k \in 1 .. 0 |-> 0], values', Kept(Len(samples')), samples')
  BY <1>1 DEF Stands
<1>3. KeepsKBest' <=> \E of : Stands(of, values', Kept(Len(samples')), samples')
  BY DEF KeepsKBest, Stands, Kept, samplecount
<1> QED
  BY <1>2, <1>3

(* Steps that take no sample and return no result keep what SamplingExact  *)
(* says.                                                                   *)
LEMMA SamplingKept ==
  ASSUME SamplingExact, UNCHANGED <<values, samples>>,
         pc' # "idle" \/ samples = <<>> \/ (pc = "idle" /\ UNCHANGED result)
  PROVE  SamplingExact'
<1>1. KeepsKBest'
  <2>1. \E of : Stands(of, values, Kept(Len(samples)), samples)
    BY KeepsIsStands DEF SamplingExact, samplecount
  <2>2. KeepsKBest' <=> \E of : Stands(of, values', Kept(Len(samples')), samples')
    BY DEF KeepsKBest, Stands, Kept, samplecount
  <2> QED
    BY <2>1, <2>2
<1>2. EarlyMeansAgreed'
  <2>1. CASE pc' # "idle" \/ samples = <<>>
    BY <2>1 DEF EarlyMeansAgreed
  <2>2. CASE pc = "idle" /\ UNCHANGED result
    <3>1. EarlyMeansAgreed
      BY DEF SamplingExact
    <3> QED
      BY <2>2, <3>1 DEF EarlyMeansAgreed, samplecount
  <2> QED
    BY <2>1, <2>2
<1> QED
  BY <1>1, <1>2 DEF SamplingExact

(* Every step of fsecs, fcyc, callibrate and ftimer keeps the invariant.   *)
LEMMA StepInvariant == IInv /\ [Next]_vars => IInv'
<1> SUFFICES ASSUME IInv, [Next]_vars PROVE IInv'
  OBVIOUS
<1> USE FsecsAssumption
<1>0. TypeOK /\ StateOK /\ ControlOK /\ CounterOK /\ ClockOK /\ SamplingExact
  BY DEF IInv
<1>a. /\ values \in [1 .. K -> Int] /\ samples \in Seq(Int) /\ Len(samples) \in Nat
      /\ Len(samples) <= MaxSamples /\ cyc_per_tick \in Nat /\ e \in 0 .. NEVENT
      /\ i \in 0 .. Runs /\ cyc[1] \in Nat /\ cyc[2] \in Nat
      /\ package \in {"fcyc", "fcyc_comp", "itimer", "gettod"}
      /\ now \in [work : Nat, time : Nat, ticks : Nat]
  BY <1>0 DEF TypeOK, StateOK, samplecount
<1>1. CASE fsecs
  <2>1. NoValues \in [1 .. K -> Int] /\ NoTime \in [work : Nat, time : Nat, ticks : Nat]
    BY DEF NoValues, NoTime
  <2>2. /\ pc' \in {"start", "first"} /\ samples' = <<>> /\ values' = NoValues /\ i' = 0
        /\ now' = NoTime /\ UNCHANGED <<package, cyc_per_tick, e, cyc, result>>
    BY <1>1 DEF fsecs
  <2>3. Len(samples') = 0
    BY <2>2
  <2>4. TypeOK'
    BY <1>a, <2>1, <2>2, <2>3 DEF TypeOK, samplecount
  <2>5. StateOK' /\ CounterOK' /\ ClockOK'
    BY <1>a, <2>1, <2>2 DEF StateOK, CounterOK, ClockOK
  <2>6. ControlOK'
    BY <2>2, <2>3 DEF ControlOK, samplecount
  <2>7. SamplingExact'
    BY <2>2, NothingKept DEF SamplingExact, EarlyMeansAgreed
  <2> QED
    BY <2>4, <2>5, <2>6, <2>7 DEF IInv
<1>2. CASE start
  <2>1. /\ pc = "start" /\ pc' \in {"callibrate", "counter"} /\ e' = 0
        /\ UNCHANGED <<package, values, samples, cyc_per_tick, cyc, i, result, now>>
    BY <1>2 DEF start
  <2>2. TypeOK' /\ StateOK'
    BY <1>a, <2>1 DEF TypeOK, StateOK, samplecount
  <2>3. ControlOK'
    BY <1>0, <2>1 DEF ControlOK, samplecount
  <2>4. CounterOK' /\ ClockOK'
    BY <2>1 DEF CounterOK, ClockOK
  <2>5. SamplingExact'
    BY <1>0, <2>1, SamplingKept
  <2> QED
    BY <2>2, <2>3, <2>4, <2>5 DEF IInv
<1>3. CASE callibrate
  <2>1. cyc_per_tick' \in Nat
    <3>0. PICK ticks \in 1 .. 2 : \E gap \in Gaps(ticks) :
            cyc_per_tick' = IF /\ cyc_per_tick = 0 \/ cyc_per_tick > gap \div ticks
                               /\ gap \div ticks > RECORDTHRESH
                            THEN gap \div ticks ELSE cyc_per_tick
      BY <1>3 DEF callibrate
    <3>1. PICK gap \in Gaps(ticks) :
            cyc_per_tick' = IF /\ cyc_per_tick = 0 \/ cyc_per_tick > gap \div ticks
                               /\ gap \div ticks > RECORDTHRESH
                            THEN gap \div ticks ELSE cyc_per_tick
      BY <3>0
    <3>2. gap \in Int /\ gap >= 0
      <4>1. PICK m \in {ticks - 1, ticks}, x \in 0 .. THRESHOLD : gap = m * COST + x
        BY DEF Gaps
      <4>2. gap >= THRESHOLD
        BY DEF Gaps
      <4>3. m \in Int /\ m * COST \in Int
        <5>1. m \in Int
          OBVIOUS
        <5> QED
          BY <5>1
      <4> QED
        BY <4>1, <4>2, <4>3
    <3>3. gap \div ticks \in Int /\ gap \div ticks >= 0
      <4>1. ticks \in Nat /\ ticks # 0
        OBVIOUS
      <4> QED
        BY <3>2, <4>1, DivMod
    <3> QED
      BY <1>0, <3>1, <3>3 DEF TypeOK
  <2>2. e' \in 0 .. NEVENT /\ (pc' = "callibrate" => e' < NEVENT)
    BY <1>0, <1>3 DEF callibrate, TypeOK, ControlOK
  <2>3. pc' \in {"callibrate", "counter"}
    BY <1>3 DEF callibrate
  <2>4. UNCHANGED <<package, values, samples, cyc, i, result, now>> /\ pc = "callibrate"
    BY <1>3 DEF callibrate
  <2>5. TypeOK' /\ StateOK'
    BY <1>a, <2>1, <2>2, <2>3, <2>4 DEF TypeOK, StateOK, samplecount
  <2>6. ControlOK'
    BY <1>0, <2>2, <2>3, <2>4 DEF ControlOK, samplecount
  <2>7. CounterOK' /\ ClockOK'
    BY <2>3 DEF CounterOK, ClockOK
  <2>8. SamplingExact'
    BY <1>0, <2>3, <2>4, SamplingKept
  <2> QED
    BY <2>5, <2>6, <2>7, <2>8 DEF IInv
<1>4. CASE start_counter
  <2>1. PICK t \in Starts, late \in 0 .. 1 :
          cyc' = Words(t, W) /\ now' = [NoTime EXCEPT !.ticks = late]
    BY <1>4 DEF start_counter
  <2>2. cyc'[1] \in Nat /\ cyc'[2] \in Nat /\ now' \in [work : Nat, time : Nat, ticks : Nat]
    <3>1. t \in Nat
      OBVIOUS
    <3>2. cyc'[1] \in Nat /\ cyc'[2] \in Nat
      BY <2>1, <3>1, TimesAreNat
    <3> QED
      BY <2>1, <3>2 DEF NoTime
  <2>3. /\ pc = "counter" /\ pc' = "run"
        /\ UNCHANGED <<package, values, samples, cyc_per_tick, e, i, result>>
    BY <1>4 DEF start_counter
  <2>4. CounterOK'
    BY <2>1, <2>3 DEF CounterOK
  <2>5. TypeOK' /\ StateOK'
    BY <1>a, <2>2, <2>3 DEF TypeOK, StateOK, samplecount
  <2>6. ControlOK' /\ ClockOK'
    BY <1>0, <2>3 DEF ControlOK, ClockOK, samplecount
  <2>7. SamplingExact'
    BY <1>0, <2>3, SamplingKept
  <2> QED
    BY <2>4, <2>5, <2>6, <2>7 DEF IInv
<1>5. CASE run
  <2>1. /\ pc = "run" /\ pc' = "stop" /\ Measured
        /\ UNCHANGED <<package, values, samples, cyc_per_tick, e, cyc, i, result>>
    BY <1>5 DEF run
  <2>2. CounterOK'
    <3>1. PICK t \in Starts : cyc = Words(t, W)
      BY <1>0, <2>1 DEF CounterOK
    <3>2. PICK late \in 0 .. 1 : now = [NoTime EXCEPT !.ticks = late]
      BY <1>0, <2>1 DEF CounterOK
    <3>3. PICK w \in Works, ticks \in 0 .. 1 :
            now' = [work  |-> now.work + w, time |-> now.time + w + ticks * COST,
                    ticks |-> now.ticks + ticks]
      BY <2>1 DEF Measured
    <3>4. now.work = 0 /\ now.time = 0 /\ now.ticks = late
      BY <3>2 DEF NoTime
    <3>5. w \in Nat /\ ticks \in Nat /\ ticks * COST \in Nat
      BY <3>3
    <3>6. now' = [work |-> w, time |-> w + ticks * COST, ticks |-> late + ticks]
      BY <3>3, <3>4, <3>5
    <3> QED
      BY <2>1, <3>1, <3>6 DEF CounterOK
  <2>3. now' \in [work : Nat, time : Nat, ticks : Nat]
    BY <1>0, <2>1, MeasuredType DEF StateOK
  <2>4. TypeOK' /\ StateOK'
    BY <1>a, <2>1, <2>3 DEF TypeOK, StateOK, samplecount
  <2>5. ControlOK' /\ ClockOK'
    BY <1>0, <2>1 DEF ControlOK, ClockOK, samplecount
  <2>6. SamplingExact'
    BY <1>0, <2>1, SamplingKept
  <2> QED
    BY <2>2, <2>4, <2>5, <2>6 DEF IInv
<1>6. CASE stop
  <2>1. get_counter \in Int
    <3>1. cyc[1] \in Nat /\ cyc[2] \in Nat /\ now.time \in Nat
      BY <1>0 DEF TypeOK, StateOK
    <3> DEFINE end == cyc[1] * W + cyc[2] + now.time
               new == Words(end, W)
    <3>2. end \in Nat
      BY <3>1
    <3>3. new[1] \in Nat /\ new[2] \in Nat
      <4> HIDE DEF end
      <4> QED
        BY <3>2, TimesAreNat
    <3> HIDE DEF new
    <3>4. /\ (new[2] - cyc[2]) % W \in Int /\ (new[1] - cyc[1] - 1) % W \in Int
          /\ (new[1] - cyc[1] - 0) % W \in Int
      BY <3>1, <3>3
    <3>5. elapsed(new, cyc) \in Int
      <4> DEFINE lo == (new[2] - cyc[2]) % W
                 hi == (new[1] - cyc[1] - (IF lo > new[2] THEN 1 ELSE 0)) % W
      <4>1. lo \in Int /\ hi \in Int
        BY <3>4
      <4>2. elapsed(new, cyc) = hi * W + lo
        BY DEF elapsed
      <4> HIDE DEF lo, hi
      <4> QED
        BY <4>1, <4>2
    <3> QED
      BY <3>5 DEF get_counter, new
  <2>2. PICK val \in Int :
          /\ values' = add_sample(values, samplecount, val)
          /\ samples' = Append(samples, val)
          /\ IF has_converged(values', samplecount + 1) \/ gives_up(samplecount + 1)
             THEN pc' = "idle" /\ result' = values'[1]
             ELSE pc' = "start" /\ UNCHANGED result
    <3>1. PICK late \in 0 .. 1 :
            LET val == IF package = "fcyc_comp" THEN get_comp_counter(now.ticks + late)
                       ELSE get_counter
                n   == samplecount + 1
            IN  /\ values' = add_sample(values, samplecount, val)
                /\ samples' = Append(samples, val)
                /\ IF has_converged(values', n) \/ gives_up(n)
                   THEN pc' = "idle" /\ result' = values'[1]
                   ELSE pc' = "start" /\ UNCHANGED result
      BY <1>6 DEF stop
    <3>2. get_comp_counter(now.ticks + late) \in Int
      <4>1. now.ticks \in Nat /\ cyc_per_tick \in Nat
        BY <1>0 DEF TypeOK, StateOK
      <4>2. (now.ticks + late) * cyc_per_tick \in Int
        BY <4>1
      <4> QED
        BY <2>1, <4>2 DEF get_comp_counter
    <3>3. (IF package = "fcyc_comp" THEN get_comp_counter(now.ticks + late)
           ELSE get_counter) \in Int
      BY <2>1, <3>2
    <3> QED
      BY <3>1, <3>3
  <2>3. /\ pc = "stop" /\ i = 0 /\ samplecount < MaxSamples
        /\ samples \in Seq(Int) /\ values \in [1 .. K -> Int]
        /\ \E of : Stands(of, values, Kept(Len(samples)), samples)
    BY <1>0, <1>6, KeepsIsStands DEF stop, ControlOK, TypeOK, SamplingExact, samplecount
  <2>4. /\ samples' \in Seq(Int) /\ samples' # <<>>
        /\ Len(samples') = samplecount + 1 /\ samplecount' = samplecount + 1
        /\ samplecount \in Nat
    <3>1. /\ Append(samples, val) \in Seq(Int) /\ Append(samples, val) # <<>>
          /\ Len(Append(samples, val)) = Len(samples) + 1 /\ Len(samples) \in Nat
      BY <2>3
    <3> QED
      BY <2>2, <3>1 DEF samplecount
  <2>5. /\ values' \in [1 .. K -> Int]
        /\ \E of : Stands(of, values', Kept(Len(samples')), samples')
    <3>1. LET new == add_sample(values, Len(samples), val) IN
          /\ new \in [1 .. K -> Int]
          /\ \E of : Stands(of, new, Kept(Len(samples) + 1), Append(samples, val))
      BY <2>3, AddSampleKeeps
    <3> QED
      BY <2>2, <2>4, <3>1 DEF samplecount
  <2>6. KeepsKBest'
    <3>1. KeepsKBest' <=> \E of : Stands(of, values', Kept(Len(samples')), samples')
      BY DEF KeepsKBest, Stands, Kept, samplecount
    <3> QED
      BY <2>5, <3>1
  <2>7. UNCHANGED <<package, cyc_per_tick, e, cyc, i, now>>
    BY <1>6 DEF stop
  <2>8. pc' \in {"idle", "start"} /\ (pc' = "start" => ~ gives_up(samplecount + 1))
    BY <2>2
  <2>9. samplecount' <= MaxSamples /\ (pc' = "start" => samplecount' < MaxSamples)
    BY <2>3, <2>4, <2>8 DEF gives_up
  <2>10. EarlyMeansAgreed'
    <3> SUFFICES ASSUME pc' = "idle" PROVE EarlyMeansAgreed'
      BY DEF EarlyMeansAgreed
    <3>1. /\ result' = values'[1]
          /\ has_converged(values', Len(samples')) \/ gives_up(Len(samples'))
      BY <2>2, <2>4
    <3>2. /\ \A n \in DOMAIN samples' : values'[1] <= samples'[n]
          /\ Len(samples') < MaxSamples =>
               Cardinality({n \in DOMAIN samples' :
                              100 * samples'[n] <= (100 + EpsPercent) * values'[1]}) >= K
      BY <2>4, <2>5, <3>1, AgreedAtEnd
    <3> QED
      BY <3>1, <3>2 DEF EarlyMeansAgreed, samplecount
  <2>11. TypeOK' /\ StateOK'
    BY <1>a, <2>4, <2>5, <2>7, <2>8, <2>9 DEF TypeOK, StateOK
  <2>12. ControlOK' /\ CounterOK' /\ ClockOK'
    BY <2>3, <2>7, <2>8, <2>9 DEF ControlOK, CounterOK, ClockOK
  <2> QED
    BY <2>6, <2>10, <2>11, <2>12 DEF IInv, SamplingExact
<1>7. CASE first
  <2>1. /\ pc = "first" /\ pc' = "loop"
        /\ UNCHANGED <<package, values, samples, cyc_per_tick, e, i, result, now>>
    BY <1>7 DEF first
  <2>2. PICK t \in Starts : cyc' = IF package = "gettod" THEN tod(t) ELSE itimer(t)
    BY <1>7 DEF first
  <2>3. cyc'[1] \in Nat /\ cyc'[2] \in Nat
    <3>1. t \in Nat /\ SECOND * MAX_ETIME - t \in Int
      OBVIOUS
    <3> QED
      BY <2>2, <3>1, TimesAreNat, CountDownIsNat DEF tod, itimer
  <2>4. ClockOK'
    BY <2>1, <2>2 DEF ClockOK
  <2>5. TypeOK' /\ StateOK'
    BY <1>a, <2>1, <2>3 DEF TypeOK, StateOK, samplecount
  <2>6. ControlOK' /\ CounterOK'
    BY <1>0, <2>1 DEF ControlOK, CounterOK, samplecount
  <2>7. SamplingExact'
    BY <1>0, <2>1, SamplingKept
  <2> QED
    BY <2>4, <2>5, <2>6, <2>7 DEF IInv
<1>8. CASE loop
  <2>1. now' \in [work : Nat, time : Nat, ticks : Nat]
    BY <1>0, <1>8, MeasuredType DEF loop, StateOK
  <2>2. /\ pc = "loop" /\ i < Runs /\ i' = i + 1
        /\ UNCHANGED <<package, pc, values, samples, cyc_per_tick, e, cyc, result>>
    BY <1>8 DEF loop
  <2>3. TypeOK' /\ StateOK'
    BY <1>a, <2>1, <2>2 DEF TypeOK, StateOK, samplecount
  <2>4. ControlOK' /\ CounterOK' /\ ClockOK'
    BY <1>0, <2>2 DEF ControlOK, CounterOK, ClockOK, samplecount
  <2>5. SamplingExact'
    BY <1>0, <2>2, SamplingKept
  <2> QED
    BY <2>3, <2>4, <2>5 DEF IInv
<1>9. CASE last
  <2>1. /\ pc = "loop" /\ pc' = "idle"
        /\ UNCHANGED <<package, values, samples, cyc_per_tick, e, cyc, i, now>>
    BY <1>9 DEF last
  <2>2. samples = <<>>
    BY <1>0, <2>1 DEF ControlOK
  <2>3. TypeOK' /\ StateOK'
    BY <1>a, <2>1 DEF TypeOK, StateOK, samplecount
  <2>4. ControlOK' /\ CounterOK' /\ ClockOK'
    BY <2>1 DEF ControlOK, CounterOK, ClockOK
  <2>5. SamplingExact'
    BY <1>0, <2>1, <2>2, SamplingKept
  <2> QED
    BY <2>3, <2>4, <2>5 DEF IInv
<1>10. CASE UNCHANGED vars
  <2>1. UNCHANGED <<package, pc, values, samples, cyc_per_tick, e, cyc, i, result, now>>
    BY <1>10 DEF vars
  <2>2. TypeOK' /\ StateOK'
    BY <1>0, <2>1 DEF TypeOK, StateOK, samplecount
  <2>3. ControlOK' /\ CounterOK' /\ ClockOK'
    BY <1>0, <2>1 DEF ControlOK, CounterOK, ClockOK, samplecount
  <2>4. SamplingExact'
    BY <1>0, <2>1, SamplingKept
  <2> QED
    BY <2>2, <2>3, <2>4 DEF IInv
<1> QED
  BY <1>1, <1>2, <1>3, <1>4, <1>5, <1>6, <1>7, <1>8, <1>9, <1>10 DEF Next, Step

-----------------------------------------------------------------------------
(* The invariant holds in every reachable state.                           *)
THEOREM Invariance == Spec => []IInv
<1>1. Init => IInv
  BY InitInvariant
<1>2. IInv /\ [Next]_vars => IInv'
  BY StepInvariant
<1> QED
  BY <1>1, <1>2, PTL DEF Spec

(* The counters and the array keep their bounds: fcyc never takes more     *)
(* than MaxSamples samples, and callibrate no more than NEVENT events.     *)
THEOREM TypeCorrect == Spec => []TypeOK
<1>1. IInv => TypeOK
  BY DEF IInv
<1> QED
  BY <1>1, Invariance, PTL

(* add_sample keeps the K smallest samples in order, and a call of fcyc    *)
(* that stops early has K samples within epsilon of the smallest of all.   *)
THEOREM SamplingCorrect == Spec => []SamplingExact
<1>1. IInv => SamplingExact
  BY DEF IInv
<1> QED
  BY <1>1, Invariance, PTL

-----------------------------------------------------------------------------
(* When a run has ended, the counter shows what it took. *)
LEMMA CounterShowsTime ==
  ASSUME CounterLasts, IInv, pc = "stop"
  PROVE  /\ get_counter = now.time
         /\ \E w \in Works, ticks \in 0 .. 1, late \in 0 .. 1 :
              now = [work |-> w, time |-> w + ticks * COST, ticks |-> late + ticks]
<1> USE FsecsAssumption
<1>1. PICK t \in Starts : cyc = Words(t, W)
  BY DEF IInv, CounterOK
<1>2. PICK w \in Works, ticks \in 0 .. 1, late \in 0 .. 1 :
        now = [work |-> w, time |-> w + ticks * COST, ticks |-> late + ticks]
  BY DEF IInv, CounterOK
<1>3. now.time \in 0 .. W * W - 1 /\ t \in 0 .. W * W - 1 /\ W \in Nat \ {0}
  <2>1. w \in Nat /\ w + COST < W * W /\ W * W \in Nat /\ now.time = w + ticks * COST
    BY <1>2 DEF CounterLasts
  <2>2. now.time = w \/ now.time = w + COST
    BY <2>1
  <2> QED
    BY <2>1, <2>2
<1>4. /\ Words(t, W)[1] * W + Words(t, W)[2] = t
      /\ elapsed(Words(t + now.time, W), Words(t, W)) = now.time
  BY <1>3, CounterDifference
<1> QED
  BY <1>1, <1>2, <1>4 DEF get_counter

(* The time that the K-best scheme samples with compensation is at most    *)
(* what the function took itself, and less only by the ticks that came     *)
(* between two readings.                                                   *)
THEOREM CompensationCorrect ==
  ASSUME CounterLasts
  PROVE  Spec => CompensatedWithin
<1>1. IInv /\ [Next]_vars =>
        [package = "fcyc_comp" /\ pc = "stop" /\ cyc_per_tick = COST =>
           LET val == samples'[Len(samples')] IN
           now.work - 2 * COST <= val /\ val <= now.work]_vars
  <2> SUFFICES ASSUME IInv, Next, package = "fcyc_comp", pc = "stop", cyc_per_tick = COST
               PROVE  LET val == samples'[Len(samples')] IN
                      now.work - 2 * COST <= val /\ val <= now.work
    BY DEF vars
  <2> USE FsecsAssumption
  <2>1. stop
    BY DEF Next, Step, fsecs, start, callibrate, start_counter, run, first, loop, last
  <2>2. PICK w \in Works, ticks \in 0 .. 1, late \in 0 .. 1 :
          now = [work |-> w, time |-> w + ticks * COST, ticks |-> late + ticks]
    BY CounterShowsTime
  <2>3. PICK late2 \in 0 .. 1 :
          samples' = Append(samples, get_comp_counter(now.ticks + late2))
    BY <2>1 DEF stop
  <2> DEFINE val == get_comp_counter(now.ticks + late2)
  <2>4. val = w + ticks * COST - (late + ticks + late2) * COST
    BY <2>2, CounterShowsTime DEF get_comp_counter
  <2>5. w \in Nat /\ COST \in Nat
    OBVIOUS
  <2>6. val \in Int /\ w - 2 * COST <= val /\ val <= w
    <3>1. ticks \in {0, 1} /\ late \in {0, 1} /\ late2 \in {0, 1}
      OBVIOUS
    <3> HIDE DEF val
    <3> QED
      BY <2>4, <2>5, <3>1
  <2>7. samples'[Len(samples')] = val
    <3>1. samples \in Seq(Int)
      BY DEF IInv, TypeOK
    <3> HIDE DEF val
    <3>2. Append(samples, val)[Len(Append(samples, val))] = val
      BY <2>6, <3>1
    <3> QED
      BY <2>3, <3>2 DEF val
  <2>8. now.work = w
    BY <2>2
  <2> QED
    BY <2>6, <2>7, <2>8
<1> QED
  BY <1>1, Invariance, PTL DEF Spec, CompensatedWithin

-----------------------------------------------------------------------------
(* What ftimer.c measures: while the runs go on, the time that passed is   *)
(* bounded by their number, so that the interval timer still runs.         *)
ClockInv(longest) ==
  /\ ClockExact
  /\ pc = "loop" => now.time <= i * longest
  /\ pc \in {"start", "callibrate", "counter", "run", "stop"} => i = 0

(* While ftimer repeats the function, the timer has not run down.          *)
LEMMA ClockStep ==
  ASSUME NEW longest \in Nat, \A w \in Works : w + COST <= longest,
         \A t \in Starts : t + Runs * longest <= SECOND * MAX_ETIME,
         IInv, ClockInv(longest), [Next]_vars
  PROVE  ClockInv(longest)'
<1> USE FsecsAssumption
<1>0. /\ i \in 0 .. Runs /\ now \in [work : Nat, time : Nat, ticks : Nat]
      /\ pc \in {"start", "callibrate", "counter", "run", "stop"} => i = 0
  BY DEF IInv, TypeOK, StateOK, ClockInv
<1>1. CASE fsecs
  BY <1>1 DEF fsecs, ClockInv, ClockExact
<1>2. CASE start \/ callibrate \/ start_counter \/ run
  <2>1. pc' \in {"callibrate", "counter", "run", "stop"} /\ i' = i /\ i = 0
    BY <1>0, <1>2 DEF start, callibrate, start_counter, run
  <2> QED
    BY <2>1 DEF ClockInv, ClockExact
<1>3. CASE stop
  <2>1. pc' \in {"idle", "start"} /\ i' = i /\ i = 0
    BY <1>0, <1>3 DEF stop
  <2> QED
    BY <2>1 DEF ClockInv, ClockExact
<1>4. CASE first
  <2>1. pc' = "loop" /\ i' = i /\ now' = now /\ i = 0 /\ now.time = 0
    BY <1>4 DEF first, IInv, ControlOK, NoTime
  <2>2. now'.time <= i' * longest
    BY <2>1
  <2> QED
    BY <2>1, <2>2 DEF ClockInv, ClockExact
<1>5. CASE loop
  <2>1. pc = "loop" /\ pc' = "loop" /\ i' = i + 1 /\ now.time <= i * longest
    BY <1>5 DEF loop, ClockInv
  <2>2. PICK w \in Works, ticks \in 0 .. 1 : now'.time = now.time + w + ticks * COST
    BY <1>5 DEF loop, Measured
  <2>3. w \in Nat /\ w + COST <= longest /\ (ticks * COST = 0 \/ ticks * COST = COST)
    <3>1. ticks = 0 \/ ticks = 1
      OBVIOUS
    <3> QED
      BY <3>1
  <2>4. now'.time <= now.time + longest
    BY <1>0, <2>2, <2>3
  <2>5. (i + 1) * longest = i * longest + longest /\ i * longest \in Int
    BY <1>0
  <2>6. now'.time <= i' * longest
    BY <1>0, <2>1, <2>2, <2>3, <2>4, <2>5
  <2> QED
    BY <2>1, <2>6 DEF ClockInv, ClockExact
<1>6. CASE last
  <2>1. pc = "loop" /\ pc' = "idle" /\ i = Runs /\ UNCHANGED <<package, cyc, i, now>>
    BY <1>6 DEF last
  <2>2. PICK t \in Starts : cyc = IF package = "gettod" THEN tod(t) ELSE itimer(t)
    BY <2>1 DEF IInv, ClockOK
  <2>3. t \in Nat /\ now.time \in Nat
    BY <1>0
  <2>4. result' = now.time
    <3>1. CASE package = "gettod"
      <4>1. SECOND * cyc[1] + cyc[2] = t
        BY <2>2, <2>3, <3>1, TimesAreNat DEF tod
      <4>2. result' = difference(Seconds(t + now.time), cyc)
        BY <1>6, <3>1, <4>1 DEF last, tod
      <4> DEFINE new == Seconds(t + now.time)
      <4>3. /\ new[1] \in Nat /\ new[2] \in Nat
            /\ SECOND * new[1] + new[2] = t + now.time
        <5>1. t + now.time \in Nat
          BY <2>3
        <5> QED
          BY <5>1, TimesAreNat
      <4>4. cyc[1] \in Nat /\ cyc[2] \in Nat
        BY DEF IInv, TypeOK
      <4> HIDE DEF new
      <4>5. SECOND * (new[1] - cyc[1]) = SECOND * new[1] - SECOND * cyc[1]
        BY <4>3, <4>4
      <4>6. difference(new, cyc) = now.time
        BY <2>3, <4>1, <4>3, <4>4, <4>5 DEF difference
      <4> QED
        BY <4>2, <4>6 DEF new
    <3>2. CASE package # "gettod"
      <4> DEFINE M == SECOND * MAX_ETIME
                 left == M - t
      <4>1. M \in Int /\ now.time <= Runs * longest /\ t + Runs * longest <= M
            /\ Runs * longest \in Nat
        BY <2>1 DEF ClockInv
      <4> HIDE DEF M
      <4>2. left \in Int /\ left >= 0 /\ left - now.time \in Int /\ left - now.time >= 0
        BY <2>3, <4>1
      <4>3. cyc = CountDown(left)
        BY <2>2, <3>2 DEF itimer, M
      <4> HIDE DEF left
      <4>4. /\ cyc[1] \in Nat /\ cyc[2] \in Nat
            /\ SECOND * cyc[1] + cyc[2] = left
        BY <4>2, <4>3, CountDownIsNat
      <4> DEFINE new == CountDown(left - now.time)
                 timer == <<MAX_ETIME, 0>>
      <4>5. /\ new[1] \in Nat /\ new[2] \in Nat
            /\ SECOND * new[1] + new[2] = left - now.time
        BY <4>2, CountDownIsNat
      <4>6. result' = difference(timer, new) - difference(timer, cyc)
        BY <1>6, <3>2, <4>4 DEF last
      <4>7. timer[1] = MAX_ETIME /\ timer[2] = 0
        OBVIOUS
      <4> HIDE DEF new, timer
      <4>8. /\ SECOND * (MAX_ETIME - cyc[1]) = M - SECOND * cyc[1]
            /\ SECOND * (MAX_ETIME - new[1]) = M - SECOND * new[1]
        BY <4>4, <4>5 DEF M
      <4>9. difference(timer, cyc) = M - left
        BY <4>1, <4>2, <4>4, <4>7, <4>8 DEF difference
      <4>10. difference(timer, new) = M - (left - now.time)
        BY <4>1, <4>2, <4>5, <4>7, <4>8 DEF difference
      <4> QED
        BY <2>3, <4>1, <4>2, <4>6, <4>9, <4>10
    <3> QED
      BY <3>1, <3>2
  <2> QED
    BY <2>1, <2>4 DEF ClockInv, ClockExact
<1>7. CASE UNCHANGED vars
  BY <1>7 DEF vars, ClockInv, ClockExact
<1> QED
  BY <1>1, <1>2, <1>3, <1>4, <1>5, <1>6, <1>7 DEF Next, Step

(* Each package shows the time that passed: the cycle counter wherever it  *)
(* stands at the start, whichever word overflows, and the clocks of        *)
(* ftimer.c whichever fraction of a second is larger.                      *)
THEOREM TimeCorrect ==
  ASSUME CounterLasts, TimerLasts
  PROVE  Spec => []TimeExact
<1>1. PICK longest \in Nat :
        /\ \A w \in Works : w + COST <= longest
        /\ \A t \in Starts : t + Runs * longest <= SECOND * MAX_ETIME
  BY DEF TimerLasts
<1>2. Init => ClockInv(longest)
  BY DEF Init, ClockInv, ClockExact
<1>3. IInv /\ ClockInv(longest) /\ [Next]_vars => ClockInv(longest)'
  BY <1>1, ClockStep
<1>4. IInv /\ ClockInv(longest) => TimeExact
  BY CounterShowsTime DEF ClockInv, TimeExact, CounterExact
<1> QED
  BY <1>2, <1>3, <1>4, Invariance, PTL DEF Spec
=============================================================================
