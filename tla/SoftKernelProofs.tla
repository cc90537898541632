-------------------------- MODULE SoftKernelProofs --------------------------
(***************************************************************************)
(* Proofs about the soft real-time kernel, for every set of tasks, every M *)
(* and K and any interleaving: of any K releases in a row of a task, M are *)
(* mandatory, and the time kept for the next mandatory arrival is true.    *)
(***************************************************************************)
EXTENDS SoftKernel, FiniteSetTheorems, TLAPS

(***************************************************************************)
(* Arithmetic.                                                             *)
(***************************************************************************)
LEMMA Division ==
  ASSUME NEW n \in Nat \ {0}, NEW a \in Nat
  PROVE  a = n * (a \div n) + (a % n) /\ (a % n) \in 0 .. n - 1 /\ a \div n \in Nat
  OBVIOUS

LEMMA Scaled ==
  ASSUME NEW n \in Nat, NEW a \in Nat, NEW b \in Nat, a <= b
  PROVE  n * a <= n * b /\ n * a \in Nat
  <1> DEFINE c == b - a
  <1>1. c \in Nat /\ b = a + c
    OBVIOUS
  <1> HIDE DEF c
  <1>2. n * b = n * a + n * c /\ n * c \in Nat
    BY <1>1
  <1> QED
    BY <1>2

(* A quotient is the greatest number whose product fits.                   *)
LEMMA Quotient ==
  ASSUME NEW n \in Nat \ {0}, NEW a \in Nat, NEW b \in Nat
  PROVE  /\ n * b <= a <=> b <= a \div n
         /\ a \div n \in Nat
  <1> DEFINE d == a \div n
             r == a % n
  <1>1. a = n * d + r /\ r \in 0 .. n - 1 /\ d \in Nat
    BY Division
  <1> HIDE DEF d, r
  <1>2. CASE b <= d
    <2>1. n * b <= n * d
      BY <1>1, <1>2, Scaled
    <2> QED
      BY <1>1, <1>2, <2>1 DEF d
  <1>3. CASE ~(b <= d)
    <2>1. n * (d + 1) <= n * b /\ n * (d + 1) = n * d + n
      <3>1. d + 1 <= b /\ d + 1 \in Nat
        BY <1>1, <1>3
      <3>2. n * (d + 1) <= n * b
        BY <3>1, Scaled
      <3> QED
        BY <1>1, <3>2
    <2> QED
      BY <1>1, <1>3, <2>1 DEF d
  <1> QED
    BY <1>2, <1>3

LEMMA Wrapped ==
  ASSUME NEW n \in Nat \ {0}, NEW x \in 0 .. 2 * n - 1
  PROVE  x % n = IF x < n THEN x ELSE x - n
  OBVIOUS

(***************************************************************************)
(* The pattern of a task: of k instances numbered from 0, m are mandatory, *)
(* those at floor(j * k / m).                                              *)
(***************************************************************************)
Position(k, m, j) == (j * k) \div m
Mandated(k, m) == {Position(k, m, j) : j \in 0 .. m - 1}

\* The number of the first one from n on, as MandatoryFrom has it.
Ceiling(k, m, n) == (n * m + k - 1) \div k
FirstFrom(k, m, n) == (Ceiling(k, m, n) * k) \div m

\* The releases from the one after instance i until the next of instance p.
Ahead(k, i, p) == (p + k - ((i + 1) % k)) % k

(* Where the mandatory instances lie: in order, the first at 0, all below k. *)
LEMMA Positions ==
  ASSUME NEW k \in Nat, NEW m \in 1 .. k
  PROVE  /\ \A j \in 0 .. m : Position(k, m, j) \in 0 .. k
         /\ Position(k, m, 0) = 0 /\ Position(k, m, m) = k
         /\ \A i, j \in 0 .. m : j < i => Position(k, m, j) < Position(k, m, i)
  <1>1. \A j \in 0 .. m : /\ j * k \in Nat /\ Position(k, m, j) \in Nat
                          /\ \A b \in Nat : m * b <= j * k <=> b <= Position(k, m, j)
    <2> TAKE j \in 0 .. m
    <2>1. j * k \in Nat
      BY Scaled
    <2> QED
      BY <2>1, Quotient DEF Position
  <1>2. \A i, j \in 0 .. m : j < i => Position(k, m, j) < Position(k, m, i)
    <2> TAKE i, j \in 0 .. m
    <2> HAVE j < i
    <2> DEFINE a == Position(k, m, j)
    <2>1. a \in Nat /\ m * a <= j * k
      BY <1>1
    <2> HIDE DEF a
    <2>2. m * (a + 1) = m * a + m /\ k * (j + 1) = j * k + k
      BY <2>1
    <2>3. k * (j + 1) <= k * i
      BY Scaled
    <2>4. k * i = i * k
      OBVIOUS
    <2>5. m * (a + 1) <= i * k
      <3>1. m * a \in Nat /\ j * k \in Nat /\ i * k \in Nat
        BY <1>1, <2>1, Scaled
      <3> QED
        BY <2>1, <2>2, <2>3, <2>4, <3>1
    <2> QED
      BY <1>1, <2>1, <2>5 DEF a
  <1>3. Position(k, m, 0) = 0
    <2>1. 0 * k = 0
      OBVIOUS
    <2> QED
      BY <2>1 DEF Position
  <1>4. Position(k, m, m) = k
    <2>1. m * k <= m * k /\ ~(m * (k + 1) <= m * k)
      BY Scaled
    <2>2. k <= Position(k, m, m) /\ ~(k + 1 <= Position(k, m, m))
      BY <1>1, <2>1
    <2> QED
      BY <1>1, <2>2
  <1>5. \A j \in 0 .. m : Position(k, m, j) \in 0 .. k
    <2> TAKE j \in 0 .. m
    <2>1. CASE j = m
      BY <1>4, <2>1
    <2>2. CASE j < m
      BY <1>1, <1>2, <1>4, <2>2
    <2> QED
      BY <2>1, <2>2
  <1> QED
    BY <1>2, <1>3, <1>4, <1>5

(* FirstFrom is the least position that is not below n.                    *)
LEMMA FirstFromLeast ==
  ASSUME NEW k \in Nat, NEW m \in 1 .. k, NEW n \in 0 .. k
  PROVE  /\ Ceiling(k, m, n) \in 0 .. m
         /\ FirstFrom(k, m, n) = Position(k, m, Ceiling(k, m, n))
         /\ \A j \in 0 .. m : n <= Position(k, m, j) <=> Ceiling(k, m, n) <= j
  <1> DEFINE c == Ceiling(k, m, n)
             w == n * m
  <1>1. w \in Nat /\ m * n = w /\ w + k - 1 \in Nat /\ m * k = k * m /\ w <= m * k
    BY Scaled
  <1>2. c \in Nat /\ \A b \in Nat : k * b <= w + k - 1 <=> b <= c
    BY <1>1, Quotient DEF Ceiling
  <1> HIDE DEF c, w
  <1>3. \A j \in Nat : c <= j <=> w <= k * j
    <2> TAKE j \in Nat
    <2>1. k * (j + 1) = k * j + k /\ k * j \in Nat
      BY Scaled
    <2>2. k * (j + 1) <= w + k - 1 <=> j + 1 <= c
      <3> DEFINE b == j + 1
      <3>1. b \in Nat
        OBVIOUS
      <3> HIDE DEF b
      <3>2. k * b <= w + k - 1 <=> b <= c
        BY <1>2, <3>1
      <3> QED
        BY <3>2 DEF b
    <2> QED
      BY <1>1, <1>2, <2>1, <2>2
  <1>4. c \in 0 .. m
    BY <1>1, <1>2, <1>3
  <1>5. \A j \in 0 .. m : n <= Position(k, m, j) <=> c <= j
    <2> TAKE j \in 0 .. m
    <2>1. j * k \in Nat /\ j * k = k * j
      BY Scaled
    <2>2. m * n <= j * k <=> n <= Position(k, m, j)
      BY <2>1, Quotient DEF Position
    <2> QED
      BY <1>1, <1>3, <2>1, <2>2
  <1> QED
    BY <1>4, <1>5 DEF c, FirstFrom, Position

(* After q, the mandatory instances go on with FirstFrom of q + 1, or, if   *)
(* that is k, with 0.                                                      *)
LEMMA NextMandated ==
  ASSUME NEW k \in Nat, NEW m \in 1 .. k, NEW q \in 0 .. k - 1
  PROVE  /\ FirstFrom(k, m, q + 1) \in q + 1 .. k
         /\ FirstFrom(k, m, q + 1) < k => FirstFrom(k, m, q + 1) \in Mandated(k, m)
         /\ \A p \in Mandated(k, m) : p <= q \/ FirstFrom(k, m, q + 1) <= p
         /\ 0 \in Mandated(k, m) /\ Mandated(k, m) \subseteq 0 .. k - 1
  <1> DEFINE c == Ceiling(k, m, q + 1)
             f == FirstFrom(k, m, q + 1)
  <1>1. /\ c \in 0 .. m /\ f = Position(k, m, c)
        /\ \A j \in 0 .. m : q + 1 <= Position(k, m, j) <=> c <= j
    BY FirstFromLeast
  <1> HIDE DEF c, f
  <1>2. f \in q + 1 .. k
    BY <1>1, Positions
  <1>3. f < k => f \in Mandated(k, m)
    <2> HAVE f < k
    <2>1. c # m
      BY <1>1, Positions
    <2> QED
      BY <1>1, <2>1 DEF Mandated
  <1>4. \A p \in Mandated(k, m) : p <= q \/ f <= p
    <2> TAKE p \in Mandated(k, m)
    <2>1. PICK j \in 0 .. m - 1 : p = Position(k, m, j)
      BY DEF Mandated
    <2>2. p \in 0 .. k
      BY <2>1, Positions
    <2>3. CASE q + 1 <= p
      <3>1. c <= j
        BY <1>1, <2>1, <2>3
      <3>2. CASE c = j
        BY <1>1, <1>2, <2>1, <3>2
      <3>3. CASE c < j
        BY <1>1, <1>2, <2>1, <2>2, <3>3, Positions
      <3> QED
        BY <1>1, <3>1, <3>2, <3>3
    <2> QED
      BY <2>2, <2>3
  <1>5. 0 \in Mandated(k, m)
    BY Positions DEF Mandated
  <1>6. Mandated(k, m) \subseteq 0 .. k - 1
    <2> SUFFICES ASSUME NEW j \in 0 .. m - 1
                 PROVE  Position(k, m, j) \in 0 .. k - 1
      BY DEF Mandated
    <2>1. Position(k, m, j) < Position(k, m, m) /\ Position(k, m, m) = k
      BY Positions
    <2> QED
      BY <2>1, Positions
  <1> QED
    BY <1>2, <1>3, <1>4, <1>5, <1>6 DEF f

(***************************************************************************)
(* Counting releases.                                                      *)
(***************************************************************************)
LEMMA AheadValue ==
  ASSUME NEW k \in Nat \ {0}, NEW i \in 0 .. k - 1, NEW p \in 0 .. k - 1
  PROVE  LET n == (i + 1) % k
         IN  /\ n = IF i = k - 1 THEN 0 ELSE i + 1
             /\ Ahead(k, i, p) = IF n <= p THEN p - n ELSE p + k - n
  <1> DEFINE n == (i + 1) % k
  <1>1. n = IF i = k - 1 THEN 0 ELSE i + 1
    <2> DEFINE x == i + 1
    <2>1. x \in 0 .. 2 * k - 1
      OBVIOUS
    <2> HIDE DEF x
    <2>2. x % k = IF x < k THEN x ELSE x - k
      BY <2>1, Wrapped
    <2> QED
      BY <2>2 DEF x
  <1> HIDE DEF n
  <1> DEFINE x == p + k - n
  <1>2. x \in 0 .. 2 * k - 1
    BY <1>1
  <1> HIDE DEF x
  <1>3. x % k = IF x < k THEN x ELSE x - k
    BY <1>2, Wrapped
  <1> QED
    BY <1>1, <1>3 DEF Ahead, n, x

(* A release: the number i becomes the next, and if that was q, the next    *)
(* mandatory one follows q.  q stays the mandatory instance next ahead, and *)
(* an instance is mandatory when it is q, and only then.                   *)
LEMMA PatternStep ==
  ASSUME NEW k \in Nat, NEW m \in 1 .. k, NEW i \in 0 .. k - 1,
         NEW q \in Mandated(k, m),
         \A p \in Mandated(k, m) : Ahead(k, i, q) <= Ahead(k, i, p)
  PROVE  LET n == (i + 1) % k
             f == FirstFrom(k, m, q + 1)
             r == IF q = n THEN IF f >= k THEN 0 ELSE f ELSE q
         IN  /\ n \in 0 .. k - 1 /\ r \in Mandated(k, m)
             /\ \A p \in Mandated(k, m) : Ahead(k, n, r) <= Ahead(k, n, p)
             /\ q = n <=> n \in Mandated(k, m)
             /\ f \in q + 1 .. k
             /\ q = n => Ahead(k, n, r) = f - q - 1
             /\ q # n => Ahead(k, i, q) = Ahead(k, n, r) + 1 /\ Ahead(k, n, r) \in Nat
  <1> DEFINE n == (i + 1) % k
             f == FirstFrom(k, m, q + 1)
             r == IF q = n THEN IF f >= k THEN 0 ELSE f ELSE q
  <1>1. q \in 0 .. k - 1 /\ Mandated(k, m) \subseteq 0 .. k - 1 /\ 0 \in Mandated(k, m)
    BY NextMandated
  <1>2. /\ f \in q + 1 .. k /\ (f < k => f \in Mandated(k, m))
        /\ \A p \in Mandated(k, m) : p <= q \/ f <= p
    BY <1>1, NextMandated
  <1>3. n = IF i = k - 1 THEN 0 ELSE i + 1
    BY <1>1, AheadValue
  <1>4. \A p \in 0 .. k - 1 : Ahead(k, i, p) = IF n <= p THEN p - n ELSE p + k - n
    BY AheadValue
  <1> HIDE DEF n, f
  <1>5. n \in 0 .. k - 1
    BY <1>3
  <1>6. \A p \in 0 .. k - 1 :
          Ahead(k, n, p) = IF n = k - 1 THEN p
                           ELSE IF n + 1 <= p THEN p - (n + 1) ELSE p + k - (n + 1)
    <2> TAKE p \in 0 .. k - 1
    <2> DEFINE l == (n + 1) % k
    <2>1. /\ l = IF n = k - 1 THEN 0 ELSE n + 1
          /\ Ahead(k, n, p) = IF l <= p THEN p - l ELSE p + k - l
      BY <1>5, AheadValue
    <2> HIDE DEF l
    <2> QED
      BY <1>5, <2>1
  <1>7. r \in Mandated(k, m)
    BY <1>1, <1>2
  <1>8. q = n <=> n \in Mandated(k, m)
    <2>1. ASSUME n \in Mandated(k, m) PROVE q = n
      <3>1. Ahead(k, i, n) = 0
        BY <1>4, <1>5
      <3>2. Ahead(k, i, q) <= 0
        BY <2>1, <3>1
      <3> QED
        BY <1>1, <1>4, <1>5, <3>2
    <2> QED
      BY <2>1
  <1>9. ASSUME q = n
        PROVE  /\ Ahead(k, n, r) = f - q - 1
               /\ \A p \in Mandated(k, m) : Ahead(k, n, r) <= Ahead(k, n, p)
    <2>1. r \in 0 .. k - 1
      BY <1>1, <1>7
    <2>2. Ahead(k, n, r) = f - q - 1
      <3>1. CASE f >= k
        <4>1. r = 0 /\ f = k
          BY <1>2, <1>9, <3>1
        <4> HIDE DEF r
        <4> QED
          BY <1>5, <1>6, <1>9, <2>1, <4>1
      <3>2. CASE f < k
        <4>1. r = f /\ f \in n + 1 .. k - 1
          BY <1>2, <1>9, <3>2
        <4> HIDE DEF r
        <4> QED
          BY <1>5, <1>6, <1>9, <2>1, <4>1
      <3> QED
        BY <1>1, <1>2, <3>1, <3>2
    <2> HIDE DEF r
    <2>3. \A p \in Mandated(k, m) : f - q - 1 <= Ahead(k, n, p)
      <3> TAKE p \in Mandated(k, m)
      <3>1. p \in 0 .. k - 1 /\ (p <= q \/ f <= p)
        BY <1>1, <1>2
      <3> QED
        BY <1>1, <1>2, <1>5, <1>6, <1>9, <3>1
    <2> QED
      BY <2>2, <2>3
  <1>10. ASSUME q # n
         PROVE  /\ Ahead(k, i, q) = Ahead(k, n, r) + 1 /\ Ahead(k, n, r) \in Nat
                /\ \A p \in Mandated(k, m) : Ahead(k, n, r) <= Ahead(k, n, p)
    <2>1. \A p \in 0 .. k - 1 :
            p # n => Ahead(k, i, p) = Ahead(k, n, p) + 1 /\ Ahead(k, n, p) \in Nat
      BY <1>4, <1>5, <1>6
    <2>2. r = q
      BY <1>10
    <2> HIDE DEF r
    <2>3. \A p \in Mandated(k, m) : Ahead(k, n, q) <= Ahead(k, n, p)
      <3> TAKE p \in Mandated(k, m)
      <3>1. p \in 0 .. k - 1 /\ p # n
        BY <1>1, <1>8, <1>10
      <3>2. Ahead(k, i, q) <= Ahead(k, i, p)
        OBVIOUS
      <3> QED
        BY <1>1, <1>10, <2>1, <3>1, <3>2
    <2> QED
      BY <1>1, <1>10, <2>1, <2>2, <2>3
  <1> QED
    BY <1>2, <1>5, <1>7, <1>8, <1>9, <1>10 DEF n, f

(***************************************************************************)
(* The last k releases.                                                    *)
(***************************************************************************)

\* The number of the release j places back from that of instance i.
Back(k, i, j) == (i + k - (j - 1)) % k

\* A window tells of each release whether it was of a mandatory instance.
Tells(k, m, i, w) == \A j \in DOMAIN w : w[j] <=> Back(k, i, j) \in Mandated(k, m)

LEMMA BackValue ==
  ASSUME NEW k \in Nat \ {0}, NEW i \in 0 .. k - 1, NEW j \in 1 .. k
  PROVE  Back(k, i, j) = IF j <= i + 1 THEN i + 1 - j ELSE i + 1 + k - j
  <1> DEFINE x == i + k - (j - 1)
  <1>1. x \in 0 .. 2 * k - 1
    OBVIOUS
  <1> HIDE DEF x
  <1>2. x % k = IF x < k THEN x ELSE x - k
    BY <1>1, Wrapped
  <1> QED
    BY <1>2 DEF Back, x

(* A release comes into the window, and the one k before leaves it.        *)
LEMMA WindowStep ==
  ASSUME NEW k \in Nat, NEW m \in 1 .. k, NEW i \in 0 .. k - 1,
         NEW w \in Seq(BOOLEAN), Len(w) <= k, Tells(k, m, i, w),
         NEW flag \in BOOLEAN, flag <=> (i + 1) % k \in Mandated(k, m)
  PROVE  LET v == SubSeq(<<flag>> \o w, 1, Least(k, Len(w) + 1))
         IN  v \in Seq(BOOLEAN) /\ Len(v) <= k /\ Tells(k, m, (i + 1) % k, v)
  <1> DEFINE n == (i + 1) % k
             l == Least(k, Len(w) + 1)
             u == <<flag>> \o w
             v == SubSeq(u, 1, l)
  <1>1. n = IF i = k - 1 THEN 0 ELSE i + 1
    <2>1. 0 \in 0 .. k - 1
      OBVIOUS
    <2> QED
      BY <2>1, AheadValue
  <1>2. l \in 1 .. k /\ l <= Len(w) + 1
    BY DEF Least
  <1>3. /\ u \in Seq(BOOLEAN) /\ Len(u) = Len(w) + 1
        /\ u[1] = flag /\ \A j \in 2 .. Len(w) + 1 : u[j] = w[j - 1]
    OBVIOUS
  <1> HIDE DEF u, l
  <1>4. /\ v \in Seq(BOOLEAN) /\ Len(v) = l
        /\ \A j \in 1 .. l : v[j] = u[j]
    BY <1>2, <1>3
  <1> HIDE DEF v, n
  <1>5. ASSUME NEW j \in 1 .. l
        PROVE  v[j] <=> Back(k, n, j) \in Mandated(k, m)
    <2>1. n \in 0 .. k - 1 /\ j \in 1 .. k
      BY <1>1, <1>2
    <2>2. Back(k, n, j) = IF j <= n + 1 THEN n + 1 - j ELSE n + 1 + k - j
      BY <2>1, BackValue
    <2>3. CASE j = 1
      <3>1. Back(k, n, j) = n
        BY <2>1, <2>2, <2>3
      <3> QED
        BY <1>3, <1>4, <1>5, <2>3, <3>1 DEF n
    <2>4. CASE j # 1
      <3> DEFINE h == j - 1
      <3>1. h \in 1 .. k /\ h \in 1 .. Len(w) /\ j \in 2 .. Len(w) + 1
        BY <1>2, <2>1, <2>4
      <3> HIDE DEF h
      <3>2. Back(k, i, h) = IF h <= i + 1 THEN i + 1 - h ELSE i + 1 + k - h
        BY <3>1, BackValue
      <3>3. Back(k, n, j) = Back(k, i, h)
        BY <1>1, <2>1, <2>2, <2>4, <3>1, <3>2 DEF h
      <3>4. w[h] <=> Back(k, i, h) \in Mandated(k, m)
        BY <3>1 DEF Tells
      <3>5. v[j] = w[h]
        BY <1>3, <1>4, <1>5, <3>1 DEF h
      <3> QED
        BY <3>3, <3>4, <3>5
    <2> QED
      BY <2>3, <2>4
  <1>6. DOMAIN v = 1 .. l
    BY <1>4
  <1> QED
    BY <1>2, <1>4, <1>5, <1>6 DEF Tells, n, v, u, l

(* A whole window has m mandatory releases.                                *)
LEMMA WindowCounts ==
  ASSUME NEW k \in Nat, NEW m \in 1 .. k, NEW i \in 0 .. k - 1,
         NEW w \in Seq(BOOLEAN), Len(w) = k, Tells(k, m, i, w)
  PROVE  Mandatories(w) >= m
  <1> DEFINE place(j) == LET p == Position(k, m, j)
                         IN  IF p <= i THEN i + 1 - p ELSE i + 1 + k - p
             f == [j \in 0 .. m - 1 |-> place(j)]
             S == {j \in DOMAIN w : w[j]}
  <1>1. DOMAIN w = 1 .. k
    OBVIOUS
  <1>2. ASSUME NEW j \in 0 .. m - 1
        PROVE  Position(k, m, j) \in 0 .. k - 1 /\ Position(k, m, j) \in Mandated(k, m)
    <2>1. Position(k, m, j) \in Mandated(k, m)
      BY DEF Mandated
    <2>2. 0 \in 0 .. k - 1
      OBVIOUS
    <2> QED
      BY <2>1, <2>2, NextMandated
  <1>3. ASSUME NEW j \in 0 .. m - 1
        PROVE  place(j) \in S
    <2> DEFINE p == Position(k, m, j)
               h == place(j)
    <2>1. p \in 0 .. k - 1 /\ p \in Mandated(k, m)
      BY <1>2
    <2>2. h = IF p <= i THEN i + 1 - p ELSE i + 1 + k - p
      OBVIOUS
    <2> HIDE DEF p, h
    <2>3. h \in 1 .. k
      BY <2>1, <2>2
    <2>4. Back(k, i, h) = p
      BY <2>1, <2>2, <2>3, BackValue
    <2>5. w[h]
      BY <1>1, <2>1, <2>3, <2>4 DEF Tells
    <2> QED
      BY <1>1, <2>3, <2>5 DEF h
  <1>4. ASSUME NEW a \in 0 .. m - 1, NEW b \in 0 .. m - 1, a # b
        PROVE  place(a) # place(b)
    <2>1. Position(k, m, a) # Position(k, m, b)
      <3>1. /\ a \in 0 .. m /\ b \in 0 .. m /\ (a < b \/ b < a)
            /\ Position(k, m, a) \in 0 .. k /\ Position(k, m, b) \in 0 .. k
        BY <1>2, <1>4
      <3>2. \A x, y \in 0 .. m : y < x => Position(k, m, y) < Position(k, m, x)
        BY Positions
      <3> QED
        BY <3>1, <3>2
    <2>2. Position(k, m, a) \in 0 .. k - 1 /\ Position(k, m, b) \in 0 .. k - 1
      BY <1>2
    <2> QED
      BY <2>1, <2>2
  <1>5. IsFiniteSet(S) /\ Cardinality(S) \in Nat
    <2>1. IsFiniteSet(1 .. k)
      BY FS_Interval
    <2>2. S \subseteq 1 .. k
      BY <1>1
    <2> QED
      BY <2>1, <2>2, FS_Subset, FS_CardinalityType
  <1>6. IsFiniteSet(0 .. m - 1) /\ Cardinality(0 .. m - 1) = m
    <2>1. Cardinality(0 .. m - 1) = IF 0 > m - 1 THEN 0 ELSE (m - 1) - 0 + 1
      BY FS_Interval
    <2> QED
      BY <2>1, FS_Interval
  <1> HIDE DEF S
  <1>7. f \in Injection(0 .. m - 1, S)
    <2> HIDE DEF place
    <2>1. f \in [0 .. m - 1 -> S]
      BY <1>3
    <2>2. \A a, b \in 0 .. m - 1 : f[a] = f[b] => a = b
      BY <1>4
    <2> QED
      BY <2>1, <2>2 DEF Injection, IsInjective
  <1>8. Cardinality(0 .. m - 1) <= Cardinality(S)
    BY <1>5, <1>6, <1>7, FS_Injection
  <1> QED
    BY <1>5, <1>6, <1>8 DEF Mandatories, S

(***************************************************************************)
(* The inductive invariant: next to the times, that nextMandatory is the   *)
(* mandatory instance next ahead, and that the window tells the kinds of   *)
(* the instances before.                                                   *)
(***************************************************************************)
PatternTypes ==
  /\ high \in [Periodic -> Nat] /\ DOMAIN low = Task /\ \A t \in Periodic : low[t] \in Int
  /\ mandHigh \in [Periodic -> Nat] /\ mandLow \in [Periodic -> Int]
  /\ instance \in [Periodic -> Int] /\ nextMandatory \in [Periodic -> Int]
  /\ nextIsMandatory \in [Periodic -> BOOLEAN] /\ window \in [Periodic -> Seq(BOOLEAN)]

PatternKept(t) ==
  /\ instance[t] \in 0 .. K[t] - 1
  /\ nextMandatory[t] \in Mandated(K[t], M[t])
  /\ \A p \in Mandated(K[t], M[t]) :
       Ahead(K[t], instance[t], nextMandatory[t]) <= Ahead(K[t], instance[t], p)
  /\ nextIsMandatory[t] <=> nextMandatory[t] = (instance[t] + 1) % K[t]

WindowKept(t) ==
  /\ Len(window[t]) <= K[t]
  /\ Tells(K[t], M[t], instance[t], window[t])

TimeKept(t) ==
  mandHigh[t] * ShiftTimeLimit + mandLow[t]
    = high[t] * ShiftTimeLimit + low[t] + InstancesAhead(t) * Period(t)

FirmInv ==
  /\ PatternTypes
  /\ \A t \in Periodic : PatternKept(t) /\ WindowKept(t) /\ TimeKept(t)

(* The constants of a task.                                                *)
LEMMA TaskConstants ==
  ASSUME NEW t \in Periodic
  PROVE  /\ K[t] \in Nat /\ M[t] \in 1 .. K[t] /\ StartInstance[t] \in Nat
         /\ PeriodHigh[t] \in Nat /\ PeriodLow[t] \in Nat /\ ShiftTimeLimit \in Nat \ {0}
         /\ Period(t) = PeriodHigh[t] * ShiftTimeLimit + PeriodLow[t]
         /\ Period(t) \in Nat
         /\ t \notin Synchronous
  <1>1. /\ K[t] \in Nat /\ M[t] \in 1 .. K[t] /\ StartInstance[t] \in Nat
        /\ PeriodHigh[t] \in Nat /\ PeriodLow[t] \in Nat /\ ShiftTimeLimit \in Nat \ {0}
        /\ t \notin Synchronous
    BY FirmAssumption
  <1>2. ShiftTimeLimit * PeriodHigh[t] \in Nat
    BY <1>1, Scaled
  <1> QED
    BY <1>1, <1>2 DEF Period

LEMMA FirmFromInv ==
  ASSUME FirmInv
  PROVE  FirmGuarantee
  <1> SUFFICES ASSUME NEW t \in Periodic
               PROVE  /\ Len(window[t]) = K[t] => Mandatories(window[t]) >= M[t]
                      /\ TimeKept(t)
    BY DEF FirmGuarantee, TimeKept
  <1>1. K[t] \in Nat /\ M[t] \in 1 .. K[t]
    BY TaskConstants
  <1>2. /\ instance[t] \in 0 .. K[t] - 1 /\ window[t] \in Seq(BOOLEAN)
        /\ Tells(K[t], M[t], instance[t], window[t]) /\ TimeKept(t)
    BY DEF FirmInv, PatternTypes, PatternKept, WindowKept
  <1> QED
    BY <1>1, <1>2, WindowCounts

(* Turns and a remainder make up what Multiply46_16 multiplies.            *)
LEMMA Multiplied ==
  ASSUME NEW t \in Periodic, NEW b \in Nat
  PROVE  /\ Multiply46_16(t, b)[1] \in Nat /\ Multiply46_16(t, b)[2] \in Nat
         /\ Multiply46_16(t, b)[1] * ShiftTimeLimit + Multiply46_16(t, b)[2]
              = Period(t) * b
  <1> DEFINE x == Period(t) * b
  <1>1. x \in Nat
    BY TaskConstants, Scaled
  <1> HIDE DEF x
  <1>2. /\ x = ShiftTimeLimit * (x \div ShiftTimeLimit) + (x % ShiftTimeLimit)
        /\ x % ShiftTimeLimit \in Nat /\ x \div ShiftTimeLimit \in Nat
    <2>1. ShiftTimeLimit \in Nat \ {0}
      BY FirmAssumption
    <2> QED
      BY <1>1, <2>1, Division
  <1>3. /\ Multiply46_16(t, b)[1] = x \div ShiftTimeLimit
        /\ Multiply46_16(t, b)[2] = x % ShiftTimeLimit
    BY DEF Multiply46_16, x
  <1>4. ShiftTimeLimit * (x \div ShiftTimeLimit) = (x \div ShiftTimeLimit) * ShiftTimeLimit
    BY <1>2, FirmAssumption
  <1>5. x = (x \div ShiftTimeLimit) * ShiftTimeLimit + (x % ShiftTimeLimit)
    BY <1>2, <1>4
  <1> QED
    BY <1>2, <1>3, <1>5 DEF x

LEMMA FirmInit ==
  ASSUME Init
  PROVE  FirmInv
  <1>1. /\ mandHigh = [t \in Periodic |-> Multiply46_16(t, StartInstance[t])[1]]
        /\ mandLow = [t \in Periodic |-> Multiply46_16(t, StartInstance[t])[2]]
        /\ high = mandHigh
        /\ low = [t \in Task |-> IF t \in Periodic THEN mandLow[t] ELSE 0]
        /\ instance = [t \in Periodic |-> K[t] - 1]
        /\ nextMandatory = [t \in Periodic |-> 0]
        /\ nextIsMandatory = [t \in Periodic |-> TRUE]
        /\ window = [t \in Periodic |-> <<>>]
    BY DEF Init
  <1>2. ASSUME NEW t \in Periodic
        PROVE  /\ K[t] \in Nat \ {0} /\ M[t] \in 1 .. K[t]
               /\ Multiply46_16(t, StartInstance[t])[1] \in Nat
               /\ Multiply46_16(t, StartInstance[t])[2] \in Nat
    BY TaskConstants, Multiplied
  <1>3. PatternTypes
    BY <1>1, <1>2 DEF PatternTypes, Task
  <1>4. ASSUME NEW t \in Periodic
        PROVE  PatternKept(t) /\ WindowKept(t) /\ TimeKept(t)
    <2>1. K[t] \in Nat \ {0} /\ M[t] \in 1 .. K[t]
      BY <1>2
    <2>2. instance[t] = K[t] - 1 /\ nextMandatory[t] = 0 /\ nextIsMandatory[t] = TRUE
      BY <1>1
    <2>3. window[t] = <<>> /\ high[t] = mandHigh[t] /\ low[t] = mandLow[t]
      BY <1>1 DEF Task
    <2> DEFINE i == K[t] - 1
    <2>4. i \in 0 .. K[t] - 1 /\ 0 \in 0 .. K[t] - 1
      BY <2>1
    <2>5. /\ (i + 1) % K[t] = 0
          /\ \A p \in 0 .. K[t] - 1 : Ahead(K[t], i, p) = p
      <3>1. ASSUME NEW p \in 0 .. K[t] - 1
            PROVE  (i + 1) % K[t] = 0 /\ Ahead(K[t], i, p) = p
        <4> DEFINE n == (i + 1) % K[t]
        <4>1. /\ n = IF i = K[t] - 1 THEN 0 ELSE i + 1
              /\ Ahead(K[t], i, p) = IF n <= p THEN p - n ELSE p + K[t] - n
          BY <2>1, <2>4, AheadValue
        <4> HIDE DEF n
        <4> QED
          BY <4>1 DEF n
      <3> QED
        BY <2>4, <3>1
    <2>6. 0 \in Mandated(K[t], M[t]) /\ Mandated(K[t], M[t]) \subseteq 0 .. K[t] - 1
      BY <2>1, <2>4, NextMandated
    <2> HIDE DEF i
    <2>7. PatternKept(t)
      BY <2>2, <2>4, <2>5, <2>6 DEF PatternKept, i
    <2>8. WindowKept(t)
      BY <2>1, <2>3 DEF WindowKept, Tells
    <2>9. InstancesAhead(t) = 0
      BY <2>2, <2>4, <2>5 DEF InstancesAhead, Ahead, i
    <2>10. 0 * Period(t) = 0
      BY TaskConstants
    <2>11. mandHigh[t] * ShiftTimeLimit \in Int /\ mandLow[t] \in Int
      BY <1>1, <1>2, FirmAssumption
    <2> QED
      BY <2>3, <2>7, <2>8, <2>9, <2>10, <2>11 DEF TimeKept
  <1> QED
    BY <1>3, <1>4 DEF FirmInv

(***************************************************************************)
(* Steps.                                                                  *)
(***************************************************************************)

\* A step that leaves the pattern and the arrivals of the periodic tasks.
LEMMA FirmFrame ==
  ASSUME FirmInv, UNCHANGED <<pattern, high>>, DOMAIN low' = Task,
         \A t \in Periodic : low'[t] = low[t]
  PROVE  FirmInv'
  <1>1. /\ mandHigh' = mandHigh /\ mandLow' = mandLow /\ instance' = instance
        /\ nextMandatory' = nextMandatory /\ nextIsMandatory' = nextIsMandatory
        /\ window' = window /\ high' = high
    BY DEF pattern
  <1>2. PatternTypes'
    BY <1>1 DEF FirmInv, PatternTypes
  <1>3. ASSUME NEW t \in Periodic
        PROVE  (PatternKept(t) /\ WindowKept(t) /\ TimeKept(t))'
    <2>1. PatternKept(t) /\ WindowKept(t) /\ TimeKept(t)
      BY DEF FirmInv
    <2>2. PatternKept(t)' /\ WindowKept(t)'
      BY <1>1, <2>1 DEF PatternKept, WindowKept
    <2>3. TimeKept(t)'
      BY <1>1, <2>1 DEF TimeKept, InstancesAhead
    <2> QED
      BY <2>2, <2>3
  <1> QED
    BY <1>2, <1>3 DEF FirmInv

(* A release, skipped or not.                                              *)
LEMMA FirmRelease ==
  ASSUME FirmInv, NEW t \in Periodic, high[t] = 0,
         AdvancePattern(t), NextPeriodicArrival(t)
  PROVE  FirmInv'
  <1> DEFINE k == K[t]
             m == M[t]
             i == instance[t]
             q == nextMandatory[t]
             n == (i + 1) % k
             f == FirstFrom(k, m, q + 1)
             r == IF q = n THEN IF f >= k THEN 0 ELSE f ELSE q
             mult == Multiply46_16(t, f - q)
             sum == mult[2] + low[t]
             carry == sum >= ShiftTimeLimit
  <1>1. /\ k \in Nat /\ m \in 1 .. k /\ PeriodHigh[t] \in Nat /\ PeriodLow[t] \in Nat
        /\ ShiftTimeLimit \in Nat \ {0} /\ Period(t) \in Nat
        /\ Period(t) = PeriodHigh[t] * ShiftTimeLimit + PeriodLow[t]
    BY TaskConstants
  <1>2. PatternTypes /\ PatternKept(t) /\ WindowKept(t) /\ TimeKept(t)
    BY DEF FirmInv
  <1>3. i \in 0 .. k - 1 /\ q \in Mandated(k, m) /\ low[t] \in Int
    BY <1>2 DEF PatternTypes, PatternKept
  <1>4. nextIsMandatory[t] \in BOOLEAN /\ (nextIsMandatory[t] <=> q = n)
    BY <1>2 DEF PatternTypes, PatternKept
  <1>5. /\ n \in 0 .. k - 1 /\ r \in Mandated(k, m)
        /\ \A p \in Mandated(k, m) : Ahead(k, n, r) <= Ahead(k, n, p)
        /\ q = n <=> n \in Mandated(k, m)
        /\ f \in q + 1 .. k
        /\ q = n => Ahead(k, n, r) = f - q - 1
        /\ q # n => Ahead(k, i, q) = Ahead(k, n, r) + 1 /\ Ahead(k, n, r) \in Nat
    <2>1. \A p \in Mandated(k, m) : Ahead(k, i, q) <= Ahead(k, i, p)
      BY <1>2 DEF PatternKept
    <2> QED
      BY <1>1, <1>3, <2>1, PatternStep
  <1>6. MandatoryFrom(t, q + 1) = f /\ InstanceAfter(t) = n
    BY DEF MandatoryFrom, FirstFrom, Ceiling, InstanceAfter
  <1>7. q \in Nat /\ f - q \in Nat
    <2>1. q \in 0 .. k - 1
      <3>1. Mandated(k, m) \subseteq 0 .. k - 1
        BY <1>1, <1>3, <1>5, NextMandated
      <3> QED
        BY <1>3, <3>1
    <2> QED
      BY <1>1, <1>5, <2>1
  <1>8. mult[1] \in Nat /\ mult[2] \in Nat
        /\ mult[1] * ShiftTimeLimit + mult[2] = Period(t) * (f - q)
    BY <1>7, Multiplied
  <1> HIDE DEF k, m, i, q, n, f, r, mult, sum, carry
  <1>9. /\ instance' = [instance EXCEPT ![t] = n]
        /\ nextMandatory' = [nextMandatory EXCEPT ![t] = r]
        /\ nextIsMandatory' = [nextIsMandatory EXCEPT ![t] = r = (n + 1) % k]
        /\ q = n => /\ mandHigh' = [mandHigh EXCEPT ![t] = mult[1] + IF carry THEN 1 ELSE 0]
                    /\ mandLow' = [mandLow EXCEPT ![t] =
                                     IF carry THEN sum - ShiftTimeLimit ELSE sum]
        /\ q # n => UNCHANGED <<mandHigh, mandLow>>
        /\ window' = [window EXCEPT ![t] =
             SubSeq(<<nextIsMandatory[t]>> \o window[t], 1, Least(k, Len(window[t]) + 1))]
    BY <1>4, <1>6
       DEF AdvancePattern, MandatoryAfter, k, m, i, q, n, f, r, mult, sum, carry
  <1> DEFINE next2 == low[t] + PeriodLow[t]
             over == next2 >= ShiftTimeLimit
  <1>10. /\ high' = [high EXCEPT ![t] = PeriodHigh[t] + IF over THEN 1 ELSE 0]
         /\ low' = [low EXCEPT ![t] = IF over THEN next2 - ShiftTimeLimit ELSE next2]
    BY DEF NextPeriodicArrival
  <1>11. next2 \in Int /\ sum \in Int /\ over \in BOOLEAN /\ carry \in BOOLEAN
    BY <1>1, <1>3, <1>8 DEF sum, carry
  <1>12. sum = mult[2] + low[t] /\ next2 = low[t] + PeriodLow[t]
    BY DEF sum
  <1> HIDE DEF next2, over
  <1>13. PatternTypes'
    <2>1. high' \in [Periodic -> Nat]
      BY <1>1, <1>2, <1>10, <1>11 DEF PatternTypes
    <2>2. DOMAIN low' = Task /\ \A u \in Periodic : low'[u] \in Int
      BY <1>1, <1>2, <1>10, <1>11 DEF PatternTypes, Task
    <2>3. mandHigh' \in [Periodic -> Nat] /\ mandLow' \in [Periodic -> Int]
      <3> DEFINE x == mult[1] + IF carry THEN 1 ELSE 0
                 y == IF carry THEN sum - ShiftTimeLimit ELSE sum
      <3>1. x \in Nat /\ y \in Int
        BY <1>1, <1>8, <1>11
      <3>2. /\ q = n => mandHigh' = [mandHigh EXCEPT ![t] = x]
                        /\ mandLow' = [mandLow EXCEPT ![t] = y]
            /\ q # n => mandHigh' = mandHigh /\ mandLow' = mandLow
        BY <1>9
      <3> HIDE DEF x, y
      <3> QED
        BY <1>2, <3>1, <3>2 DEF PatternTypes
    <2>4. /\ instance' \in [Periodic -> Int] /\ nextMandatory' \in [Periodic -> Int]
          /\ nextIsMandatory' \in [Periodic -> BOOLEAN]
      <3>1. n \in Int /\ r \in Int
        BY <1>1, <1>5, <1>7 DEF r
      <3> QED
        BY <1>2, <1>9, <3>1 DEF PatternTypes
    <2>5. window' \in [Periodic -> Seq(BOOLEAN)]
      <3> DEFINE w == SubSeq(<<nextIsMandatory[t]>> \o window[t], 1,
                             Least(k, Len(window[t]) + 1))
      <3>1. w \in Seq(BOOLEAN)
        BY <1>1, <1>2, <1>4 DEF PatternTypes, Least
      <3> HIDE DEF w
      <3> QED
        BY <1>2, <1>9, <3>1 DEF PatternTypes, w
    <2> QED
      BY <2>1, <2>2, <2>3, <2>4, <2>5 DEF PatternTypes
  <1>14. ASSUME NEW u \in Periodic, u # t
         PROVE  (PatternKept(u) /\ WindowKept(u) /\ TimeKept(u))'
    <2>1. PatternKept(u) /\ WindowKept(u) /\ TimeKept(u)
      BY DEF FirmInv
    <2>2. /\ high'[u] = high[u] /\ low'[u] = low[u] /\ instance'[u] = instance[u]
          /\ nextMandatory'[u] = nextMandatory[u] /\ window'[u] = window[u]
          /\ nextIsMandatory'[u] = nextIsMandatory[u]
          /\ mandHigh'[u] = mandHigh[u] /\ mandLow'[u] = mandLow[u]
      BY <1>2, <1>9, <1>10, <1>14 DEF PatternTypes, Task
    <2>3. PatternKept(u)' /\ WindowKept(u)'
      BY <2>1, <2>2 DEF PatternKept, WindowKept
    <2>4. TimeKept(u)'
      BY <2>1, <2>2 DEF TimeKept, InstancesAhead
    <2> QED
      BY <2>3, <2>4
  <1>15. instance'[t] = n /\ nextMandatory'[t] = r
    BY <1>2, <1>9 DEF PatternTypes
  <1>16. PatternKept(t)'
    <2>1. nextIsMandatory'[t] <=> r = (n + 1) % k
      BY <1>2, <1>9 DEF PatternTypes
    <2> QED
      BY <1>5, <1>15, <2>1 DEF PatternKept, k, m
  <1>17. WindowKept(t)'
    <2>1. /\ Len(window[t]) <= k /\ Tells(k, m, i, window[t])
          /\ window[t] \in Seq(BOOLEAN)
      BY <1>2 DEF PatternTypes, WindowKept, k, m, i
    <2>2. window'[t] = SubSeq(<<nextIsMandatory[t]>> \o window[t], 1,
                              Least(k, Len(window[t]) + 1))
      BY <1>2, <1>9 DEF PatternTypes
    <2>3. nextIsMandatory[t] <=> (i + 1) % k \in Mandated(k, m)
      BY <1>4, <1>5 DEF n
    <2>4. Len(window'[t]) <= k /\ Tells(k, m, (i + 1) % k, window'[t])
      <3> DEFINE w == window[t]
                 flag == nextIsMandatory[t]
      <3>1. /\ w \in Seq(BOOLEAN) /\ Len(w) <= k /\ Tells(k, m, i, w)
            /\ flag \in BOOLEAN /\ (flag <=> (i + 1) % k \in Mandated(k, m))
        BY <1>4, <2>1, <2>3
      <3>2. window'[t] = SubSeq(<<flag>> \o w, 1, Least(k, Len(w) + 1))
        BY <2>2
      <3> HIDE DEF w, flag
      <3>3. LET v == SubSeq(<<flag>> \o w, 1, Least(k, Len(w) + 1))
            IN  v \in Seq(BOOLEAN) /\ Len(v) <= k /\ Tells(k, m, (i + 1) % k, v)
        BY <1>1, <1>3, <3>1, WindowStep
      <3> QED
        BY <3>2, <3>3
    <2> QED
      BY <1>15, <2>4 DEF WindowKept, k, m, n
  <1>18. TimeKept(t)'
    <2> DEFINE a == Ahead(k, n, r)
               p == Period(t)
    <2>1. InstancesAhead(t)' = a
      BY <1>15 DEF InstancesAhead, Ahead, k
    <2>2. InstancesAhead(t) = Ahead(k, i, q)
      BY DEF InstancesAhead, Ahead, k, i, q
    <2>3. high'[t] * ShiftTimeLimit + low'[t] = low[t] + p
      <3>1. /\ high'[t] = PeriodHigh[t] + IF over THEN 1 ELSE 0
            /\ low'[t] = IF over THEN next2 - ShiftTimeLimit ELSE next2
        BY <1>2, <1>10 DEF PatternTypes, Task
      <3>2. (PeriodHigh[t] + 1) * ShiftTimeLimit
              = PeriodHigh[t] * ShiftTimeLimit + ShiftTimeLimit
        BY <1>1
      <3>3. PeriodHigh[t] * ShiftTimeLimit \in Nat
        BY <1>1
      <3> QED
        BY <1>1, <1>3, <1>11, <1>12, <3>1, <3>2, <3>3
    <2>4. CASE q = n
      <3>1. /\ mandHigh'[t] = mult[1] + IF carry THEN 1 ELSE 0
            /\ mandLow'[t] = IF carry THEN sum - ShiftTimeLimit ELSE sum
        BY <1>2, <1>9, <2>4 DEF PatternTypes
      <3>2. /\ (mult[1] + 1) * ShiftTimeLimit = mult[1] * ShiftTimeLimit + ShiftTimeLimit
            /\ mult[1] * ShiftTimeLimit \in Int
        BY <1>1, <1>8
      <3>3. mandHigh'[t] * ShiftTimeLimit + mandLow'[t] = low[t] + p * (f - q)
        BY <1>1, <1>3, <1>8, <1>11, <1>12, <3>1, <3>2
      <3>4. a = f - q - 1 /\ f - q \in Nat
        BY <1>5, <1>7, <2>4
      <3> DEFINE d == f - q
      <3>5. d \in Nat /\ a = d - 1
        BY <3>4
      <3> HIDE DEF d, a, p
      <3>6. p + a * p = p * d
        BY <1>1, <3>5 DEF p
      <3>7. low[t] + p + a * p = low[t] + p * d
        <4>1. p \in Nat /\ a * p \in Int /\ p * d \in Int
          BY <1>1, <3>5 DEF p
        <4> QED
          BY <1>3, <3>6, <4>1
      <3> QED
        BY <2>1, <2>3, <3>3, <3>7 DEF TimeKept, d, p
    <2>5. CASE q # n
      <3>1. mandHigh'[t] = mandHigh[t] /\ mandLow'[t] = mandLow[t]
        BY <1>9, <2>5
      <3>2. Ahead(k, i, q) = a + 1 /\ a \in Nat
        BY <1>5, <2>5
      <3> HIDE DEF a, p
      <3>3. mandHigh[t] * ShiftTimeLimit + mandLow[t] = low[t] + (a + 1) * p
        <4>1. 0 * ShiftTimeLimit + low[t] = low[t]
          BY <1>1, <1>3
        <4> QED
          BY <1>2, <2>2, <3>2, <4>1 DEF TimeKept, p
      <3>4. low[t] + (a + 1) * p = low[t] + p + a * p
        BY <1>1, <1>3, <3>2 DEF p
      <3> QED
        BY <2>1, <2>3, <3>1, <3>3, <3>4 DEF TimeKept, p
    <2> QED
      BY <2>4, <2>5
  <1> QED
    BY <1>13, <1>14, <1>16, <1>17, <1>18 DEF FirmInv

(* A turn of the clock: both times of a queued task move back by one turn. *)
LEMMA FirmOverflow ==
  ASSUME FirmInv, TestOverflow
  PROVE  FirmInv'
  <1>1. /\ instance' = instance /\ nextMandatory' = nextMandatory
        /\ nextIsMandatory' = nextIsMandatory /\ window' = window
    BY DEF TestOverflow
  <1>2. CASE ~overflowFlag
    <2>1. UNCHANGED <<pattern, high>> /\ low' = low
      BY <1>1, <1>2 DEF TestOverflow, pattern
    <2> QED
      BY <2>1, FirmFrame DEF FirmInv, PatternTypes
  <1>3. CASE overflowFlag
    <2> DEFINE Queued(t) == \E i \in DOMAIN arrivalQ : arrivalQ[i] = t
               Fewer(t, h) == IF Queued(t) /\ h[t] > 0 THEN h[t] - 1 ELSE h[t]
               Sooner(t, h, l) ==
                 IF Queued(t) /\ h[t] = 0 THEN l[t] - ShiftTimeLimit ELSE l[t]
               Shift(t) == IF Queued(t) THEN ShiftTimeLimit ELSE 0
    <2>1. /\ high' = [t \in Periodic |-> Fewer(t, high)]
          /\ mandHigh' = [t \in Periodic |-> Fewer(t, mandHigh)]
          /\ mandLow' = [t \in Periodic |-> Sooner(t, mandHigh, mandLow)]
          /\ DOMAIN low' = Task
          /\ \A t \in Periodic : low'[t] = Sooner(t, high, low)
      <3>1. ShiftTimes
        BY <1>3 DEF TestOverflow
      <3> QED
        BY <3>1 DEF ShiftTimes, Task
    <2>2. ShiftTimeLimit \in Nat
      BY FirmAssumption
    <2>3. ASSUME NEW t \in Periodic, NEW h, NEW l, h[t] \in Nat, l[t] \in Int
          PROVE  /\ Fewer(t, h) \in Nat /\ Sooner(t, h, l) \in Int
                 /\ Shift(t) \in Nat
                 /\ Fewer(t, h) * ShiftTimeLimit + Sooner(t, h, l)
                      = h[t] * ShiftTimeLimit + l[t] - Shift(t)
      <3> DEFINE x == h[t]
                 y == l[t]
      <3>1. x \in Nat /\ y \in Int
        BY <2>3
      <3>2. (x - 1) * ShiftTimeLimit = x * ShiftTimeLimit - ShiftTimeLimit
        BY <2>2, <3>1
      <3>3. x * ShiftTimeLimit \in Int /\ (x = 0 => x * ShiftTimeLimit = 0)
        BY <2>2, <3>1
      <3> HIDE DEF x, y
      <3>4. /\ Fewer(t, h) = IF Queued(t) /\ x > 0 THEN x - 1 ELSE x
            /\ Sooner(t, h, l) = IF Queued(t) /\ x = 0 THEN y - ShiftTimeLimit ELSE y
        BY DEF x, y
      <3> HIDE DEF Fewer, Sooner, Queued
      <3>5. x * ShiftTimeLimit + y - Shift(t) = h[t] * ShiftTimeLimit + l[t] - Shift(t)
        BY DEF x, y
      <3>6. CASE Queued(t)
        BY <2>2, <3>1, <3>2, <3>3, <3>4, <3>5, <3>6
      <3>7. CASE ~Queued(t)
        BY <2>2, <3>1, <3>3, <3>4, <3>5, <3>7
      <3> QED
        BY <3>6, <3>7
    <2>4. ASSUME NEW t \in Periodic
          PROVE  /\ high[t] \in Nat /\ mandHigh[t] \in Nat /\ low[t] \in Int
                 /\ mandLow[t] \in Int
      BY DEF FirmInv, PatternTypes
    <2> HIDE DEF Fewer, Sooner, Shift
    <2>5. PatternTypes'
      <3>1. high' \in [Periodic -> Nat] /\ \A t \in Periodic : low'[t] \in Int
        BY <2>1, <2>3, <2>4
      <3>2. mandHigh' \in [Periodic -> Nat] /\ mandLow' \in [Periodic -> Int]
        BY <2>1, <2>3, <2>4
      <3> QED
        BY <1>1, <2>1, <3>1, <3>2 DEF FirmInv, PatternTypes
    <2>6. ASSUME NEW t \in Periodic
          PROVE  (PatternKept(t) /\ WindowKept(t) /\ TimeKept(t))'
      <3>1. PatternKept(t) /\ WindowKept(t) /\ TimeKept(t)
        BY DEF FirmInv
      <3>2. PatternKept(t)' /\ WindowKept(t)'
        BY <1>1, <3>1 DEF PatternKept, WindowKept
      <3>3. /\ mandHigh'[t] * ShiftTimeLimit + mandLow'[t]
                 = mandHigh[t] * ShiftTimeLimit + mandLow[t] - Shift(t)
            /\ high'[t] * ShiftTimeLimit + low'[t]
                 = high[t] * ShiftTimeLimit + low[t] - Shift(t)
            /\ Shift(t) \in Nat
        BY <2>1, <2>3, <2>4
      <3> DEFINE a == InstancesAhead(t) * Period(t)
                 x == mandHigh[t] * ShiftTimeLimit + mandLow[t]
                 y == high[t] * ShiftTimeLimit + low[t]
      <3>4. a \in Int /\ y \in Int
        <4>1. K[t] \in Nat \ {0} /\ Period(t) \in Nat
          BY TaskConstants
        <4>2. nextMandatory[t] \in Int /\ instance[t] \in 0 .. K[t] - 1
          BY <3>1 DEF FirmInv, PatternTypes, PatternKept
        <4>3. (instance[t] + 1) % K[t] \in Int
          BY <4>1, <4>2, Division
        <4> DEFINE z == nextMandatory[t] + K[t] - ((instance[t] + 1) % K[t])
        <4>4. z \in Int
          BY <4>1, <4>2, <4>3
        <4> HIDE DEF z
        <4>5. z % K[t] \in Int
          BY <4>1, <4>4
        <4>6. InstancesAhead(t) \in Int
          BY <4>5 DEF InstancesAhead, z
        <4> QED
          BY <2>2, <2>4, <4>1, <4>6
      <3>5. x = y + a
        BY <3>1 DEF TimeKept
      <3> HIDE DEF a, x, y
      <3>6. x - Shift(t) = (y - Shift(t)) + a
        BY <3>3, <3>4, <3>5
      <3>7. InstancesAhead(t)' * Period(t) = a
        BY <1>1 DEF InstancesAhead, a
      <3>8. /\ mandHigh'[t] * ShiftTimeLimit + mandLow'[t] = x - Shift(t)
            /\ high'[t] * ShiftTimeLimit + low'[t] = y - Shift(t)
        BY <2>2, <2>4, <3>3 DEF x, y
      <3>9. Period(t)' = Period(t)
        BY DEF Period
      <3> HIDE DEF InstancesAhead, Period
      <3>10. TimeKept(t)'
        BY <3>6, <3>7, <3>8, <3>9 DEF TimeKept
      <3> QED
        BY <3>2, <3>10
    <2> QED
      BY <2>5, <2>6 DEF FirmInv
  <1> QED
    BY <1>2, <1>3

(* An event-driven task released: only its own time may change.            *)
LEMMA FirmSynchronous ==
  ASSUME FirmInv, NEW s \in Synchronous, NEW base, ReleaseSynchronous(s, base),
         UNCHANGED <<pattern, high>>
  PROVE  FirmInv'
  <1>1. /\ DOMAIN low = Task
        /\ UNCHANGED low \/ low' = [low EXCEPT ![s] = base + WorkLoad[s]]
    BY DEF ReleaseSynchronous, FirmInv, PatternTypes
  <1>2. \A t \in Periodic : t # s /\ t \in Task
    BY TaskConstants DEF Task
  <1>3. DOMAIN low' = Task /\ \A t \in Periodic : low'[t] = low[t]
    BY <1>1, <1>2
  <1> QED
    BY <1>3, FirmFrame

LEMMA FirmLater ==
  ASSUME FirmInv, NEW s \in Synchronous, RescheduleLater(s)
  PROVE  FirmInv'
  <1>1. /\ DOMAIN low = Task /\ UNCHANGED <<pattern, high>>
        /\ low' = low \/ low' = [low EXCEPT ![s] = nextDeadline[s]]
    BY DEF RescheduleLater, FirmInv, PatternTypes
  <1>2. \A t \in Periodic : t # s /\ t \in Task
    BY TaskConstants DEF Task
  <1>3. DOMAIN low' = Task /\ \A t \in Periodic : low'[t] = low[t]
    BY <1>1, <1>2
  <1> QED
    BY <1>1, <1>3, FirmFrame

\* The steps that touch neither the pattern nor an arrival time.
LEMMA FirmUnchanged ==
  ASSUME FirmInv, UNCHANGED <<pattern, high, low>>
  PROVE  FirmInv'
  BY FirmFrame DEF FirmInv, PatternTypes

LEMMA FirmElection ==
  ASSUME FirmInv, NEW l, ScheduleNextTask(l)
  PROVE  FirmInv'
  <1>1. ASSUME NEW from, NEW n, NEW to, NEW then, Store(l, from, n, to, then)
        PROVE  UNCHANGED <<pattern, high, low>>
    BY <1>1 DEF Store, arrivals
  <1>2. CASE Elect(l)
    BY <1>2, FirmUnchanged DEF Elect, arrivals
  <1>3. CASE Test(l)
    BY <1>3, FirmUnchanged DEF Test, arrivals
  <1>4. CASE UnlinkOptional(l)
    BY <1>1, <1>4, FirmUnchanged DEF UnlinkOptional
  <1>5. CASE Drop(l)
    BY <1>5, FirmUnchanged DEF Drop, arrivals
  <1>6. CASE Promote(l)
    <2>1. ASSUME PromoteMark(l) PROVE UNCHANGED <<pattern, high, low>>
      BY <2>1 DEF PromoteMark, arrivals
    <2> QED
      BY <1>1, <1>6, <2>1, FirmUnchanged DEF Promote
  <1>7. CASE ScheduleTask(l)
    BY <1>7, FirmUnchanged DEF ScheduleTask, arrivals
  <1> QED
    BY <1>2, <1>3, <1>4, <1>5, <1>6, <1>7 DEF ScheduleNextTask

LEMMA FirmScheduler ==
  ASSUME FirmInv, Scheduler
  PROVE  FirmInv'
  <1>1. CASE SoftTimerInterrupt
    BY <1>1, FirmUnchanged DEF SoftTimerInterrupt, arrivals
  <1>2. CASE TestOverflow
    BY <1>2, FirmOverflow
  <1>3. CASE ReadTime
    BY <1>3, FirmUnchanged DEF ReadTime, arrivals
  <1>4. ASSUME NEW t \in Task, RemoveUnstarted(t)
        PROVE  FirmInv'
    BY <1>4, FirmUnchanged DEF RemoveUnstarted, arrivals
  <1>5. ASSUME NEW t \in Task, ReleasePeriodic(t) \/ SkipRelease(t)
        PROVE  FirmInv'
    <2>1. /\ t \in Periodic /\ high[t] = 0
          /\ AdvancePattern(t) /\ NextPeriodicArrival(t)
      BY <1>5 DEF ReleasePeriodic, SkipRelease, Arrives, HasArrived
    <2> QED
      BY <2>1, FirmRelease
  <1>6. ASSUME NEW s \in Task, ArriveSynchronous(s)
        PROVE  FirmInv'
    <2>1. /\ s \in Synchronous /\ ReleaseSynchronous(s, low[s])
          /\ UNCHANGED <<pattern, high>>
      BY <1>6 DEF ArriveSynchronous
    <2> QED
      BY <2>1, FirmSynchronous
  <1>7. CASE ArrivalsDone
    BY <1>7, FirmUnchanged DEF ArrivalsDone, arrivals
  <1>8. ASSUME NEW s \in Synchronous, RescheduleLater(s)
        PROVE  FirmInv'
    BY <1>8, FirmLater
  <1>9. ASSUME NEW s \in Synchronous, RescheduleNow(s)
        PROVE  FirmInv'
    <2>1. ReleaseSynchronous(s, currentTime) /\ UNCHANGED <<pattern, high>>
      BY <1>9 DEF RescheduleNow
    <2> QED
      BY <2>1, FirmSynchronous
  <1>10. CASE SetTimer
    BY <1>10, FirmUnchanged DEF SetTimer, arrivals
  <1>11. CASE ClearSoftTimerInterrupt
    BY <1>11, FirmUnchanged DEF ClearSoftTimerInterrupt, arrivals
  <1>12. CASE CheckFlags
    BY <1>12, FirmUnchanged DEF CheckFlags, arrivals
  <1>13. CASE ScheduleNextTask(Null)
    BY <1>13, FirmElection
  <1> QED
    BY <1>1, <1>2, <1>3, <1>4, <1>5, <1>6, <1>7, <1>8, <1>9, <1>10, <1>11, <1>12,
       <1>13 DEF Scheduler

LEMMA FirmStep ==
  ASSUME FirmInv, [Next]_vars
  PROVE  FirmInv'
  <1>1. CASE IdleTask
    BY <1>1, FirmUnchanged DEF IdleTask, arrivals
  <1>2. ASSUME NEW t \in Task, EndTask(t)
        PROVE  FirmInv'
    BY <1>2, FirmUnchanged
       DEF EndTask, EndTaskZombie, EndTaskNoSave, EndTaskUnlink, arrivals
  <1>3. ASSUME NEW t \in Task, SuspendSynchronousTask(t)
        PROVE  FirmInv'
    BY <1>3, FirmUnchanged DEF SuspendSynchronousTask, arrivals
  <1>4. ASSUME NEW t \in Task, ScheduleNextTask(t)
        PROVE  FirmInv'
    BY <1>4, FirmElection
  <1>5. ASSUME NEW s \in Synchronous, SignalByInterrupt(s)
        PROVE  FirmInv'
    BY <1>5, FirmUnchanged DEF SignalByInterrupt, arrivals
  <1>6. CASE Tick
    BY <1>6, FirmUnchanged DEF Tick, arrivals
  <1>7. CASE Scheduler
    BY <1>7, FirmScheduler
  <1>8. CASE ContextSwap
    BY <1>8, FirmUnchanged
       DEF ContextSwap, SwapEnter, SwapTest, SwapCreate, SwapRestore, arrivals
  <1>9. CASE UNCHANGED vars
    BY <1>9, FirmUnchanged DEF vars, arrivals
  <1> QED
    BY <1>1, <1>2, <1>3, <1>4, <1>5, <1>6, <1>7, <1>8, <1>9 DEF Next

(***************************************************************************)
(* The firm guarantee, for every pattern of M in K, every period and any   *)
(* interleaving of tasks, interrupts and the clock: of any K releases in a *)
(* row of a task, skipped and dropped ones counted, M or more are          *)
(* mandatory; and the time kept for the next mandatory arrival lies as     *)
(* many periods after the next arrival as there are instances until it.    *)
(***************************************************************************)
THEOREM Firm == Spec => []FirmGuarantee
  <1>1. Init => FirmInv
    BY FirmInit
  <1>2. FirmInv /\ [Next]_vars => FirmInv'
    BY FirmStep
  <1>3. FirmInv => FirmGuarantee
    BY FirmFromInv
  <1> QED
    BY <1>1, <1>2, <1>3, PTL DEF Spec
=============================================================================
