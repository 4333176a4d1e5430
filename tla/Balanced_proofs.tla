--------------------------- MODULE Balanced_proofs ---------------------------
(* Theorems about the planner, for any source models and any request it may be *)
(* asked for, and about a balanced sweep over whatever it planned.             *)
EXTENDS Balanced, Planner, TLAPS, WellFoundedInduction, FiniteSetTheorems

-----------------------------------------------------------------------------
(* Whole numbers *)

\* The quotient and the remainder that `%` and `\div` give.
LEMMA Quotient ==
    ASSUME NEW n \in Int, NEW d \in Nat \ {0}
    PROVE  n \div d \in Int /\ n % d \in 0..(d - 1) /\ n = ((n \div d) * d) + (n % d)
OBVIOUS

\* A quotient without a remainder, which scaled_decimal insists on.
LEMMA Whole ==
    ASSUME NEW n \in Int, NEW d \in Nat \ {0}, n % d = 0
    PROVE  n \div d \in Int /\ (n \div d) * d = n
BY Quotient

\* Every multiple has none.
LEMMA Multiple ==
    ASSUME NEW q \in Int, NEW d \in Nat \ {0}
    PROVE  (q * d) % d = 0 /\ (q * d) \div d = q
OBVIOUS

\* A source that is driven the other way has its levels on the same grid.
LEMMA Opposite ==
    ASSUME NEW n \in Int, NEW d \in Nat \ {0}, n % d = 0
    PROVE  (-n) % d = 0
<1>1. PICK q \in Int : n = q * d
  BY Whole
<1>2. -n = (-q) * d /\ -q \in Int
  BY <1>1
<1>3. ((-q) * d) % d = 0
  BY Multiple
<1> QED BY <1>2, <1>3

\* The two shares of a differential level, when both are exact.
LEMMA Shares ==
    ASSUME NEW v \in Int, NEW a \in Nat \ {0}, NEW b \in Nat \ {0},
           Exact(v, a, a + b), Exact(v, b, a + b)
    PROVE  \E x, y \in Int :
              Pair(v, <<a, b>>) = <<x, y>> /\ x * (a + b) = v * a /\ y * (a + b) = - (v * b)
<1> DEFINE t == a + b
           n == v * a
           m == (-v) * b
<1>1. t \in Nat \ {0} /\ n \in Int /\ m \in Int /\ m = - (v * b) /\ v * b \in Int
  OBVIOUS
<1>2. n % t = 0 /\ (v * b) % t = 0
  BY DEF Exact
<1>3. Pair(v, <<a, b>>) = <<n \div t, m \div t>>
  BY DEF Pair, Scaled
<1>4. n = v * a /\ t = a + b
  OBVIOUS
<1> HIDE DEF n, m, t
<1>5. m % t = 0
  BY <1>1, <1>2, Opposite
<1>6. n \div t \in Int /\ (n \div t) * t = n /\ m \div t \in Int /\ (m \div t) * t = m
  BY <1>1, <1>2, <1>5, Whole
<1> QED BY <1>1, <1>3, <1>4, <1>6

\* A quotient rounded up.
LEMMA CeilDivFacts ==
    ASSUME NEW n \in Nat, NEW d \in Nat \ {0}
    PROVE  CeilDiv(n, d) \in Nat /\ (CeilDiv(n, d) - 1) * d < n /\ n <= CeilDiv(n, d) * d
<1> DEFINE m == n + d - 1
           q == m \div d
<1>1. m \in Nat /\ m = n + d - 1
  OBVIOUS
<1>2. CeilDiv(n, d) = q
  BY DEF CeilDiv
<1> HIDE DEF m
<1>3. q \in Int /\ m % d \in 0..(d - 1) /\ m = (q * d) + (m % d)
  BY <1>1, Quotient
<1> HIDE DEF q
<1>4. (q - 1) * d = q * d - d /\ q * d \in Int /\ d \in Int /\ n \in Int
  BY <1>3
<1>5. q * d <= m /\ m < q * d + d
  BY <1>1, <1>3, <1>4
<1>6. q * d > -d
  BY <1>1, <1>4, <1>5
<1>7. q \in Nat
  <2>1. CASE q < 0
    <3>1. -q \in Nat \ {0} /\ (-q) * d >= d
      BY <1>3, <2>1
    <3>2. (-q) * d = -(q * d)
      BY <1>3
    <3> QED BY <1>4, <1>6, <3>1, <3>2
  <2> QED BY <1>3, <2>1
<1> QED BY <1>1, <1>2, <1>4, <1>5, <1>7

\* A direction is forward or backward, and a distance along it adds up.
LEMMA Distance ==
    ASSUME NEW x \in Int
    PROVE  /\ Abs(x) \in Nat /\ Sign(x) \in {-1, 1} /\ Sign(x) * Abs(x) = x /\ Sign(x) * x = Abs(x)
           /\ \A y \in Int : Abs(Sign(x) * y) = Abs(y)
           /\ Abs(-x) = Abs(x) /\ (Abs(x) = 0 <=> x = 0)
BY DEF Abs, Sign

\* The levels from one to another, the last included.
WayTo(from, to, step) == Append(RampLevels(from, to, step), to)

\* They are whole steps away from the first and no more than one step apart.
LeadsTo(w, from, to, step) ==
    /\ w \in Seq(Int) /\ Len(w) \in Nat \ {0} /\ w[Len(w)] = to
    /\ \A i \in 1..Len(w) - 1 : \E k \in Int : w[i] = from + k * step
    /\ Abs(w[1] - from) <= step
    /\ \A i \in 2..Len(w) : Abs(w[i] - w[i - 1]) <= step

\* ramp_targets: from one differential level to another in steps of the ramp.
LEMMA RampFacts ==
    ASSUME NEW from \in Int, NEW to \in Int, NEW step \in Nat \ {0}
    PROVE  LeadsTo(WayTo(from, to, step), from, to, step)
<1> DEFINE w == WayTo(from, to, step)
<1>0. w = Append(RampLevels(from, to, step), to)
  BY DEF WayTo
<1> HIDE DEF w
<1> DEFINE D == to - from
           q == CeilDiv(Abs(D), step)
           n == IF from = to THEN 0 ELSE q - 1
           s == Sign(D)
           at(k) == from + s * k * step
           r == [k \in 1..n |-> at(k)]
<1>1. D \in Int /\ D = to - from /\ Abs(D) \in Nat /\ s \in {-1, 1} /\ s * Abs(D) = D
      /\ (Abs(D) = 0 <=> D = 0)
  <2>1. D \in Int /\ D = to - from
    OBVIOUS
  <2> HIDE DEF D
  <2> QED BY <2>1, Distance
<1>2. q \in Nat /\ (q - 1) * step < Abs(D) /\ Abs(D) <= q * step
  BY <1>1, CeilDivFacts
<1>3. RampLevels(from, to, step) = r
  BY DEF RampLevels
<1> HIDE DEF D, q, s
<1>4. n \in Nat /\ n * step <= Abs(D) /\ Abs(D) - n * step <= step
  <2>1. CASE from = to
    <3>1. Abs(D) = 0 /\ n = 0
      BY <1>1, <2>1
    <3> QED BY <1>1, <3>1
  <2>2. CASE from # to
    <3>1. Abs(D) # 0 /\ n = q - 1
      BY <1>1, <2>2
    <3>2. q # 0
      BY <1>1, <1>2, <3>1
    <3>3. (q - 1) * step = q * step - step /\ q * step \in Int
      BY <1>2
    <3> QED BY <1>1, <1>2, <3>1, <3>2, <3>3
  <2> QED BY <2>1, <2>2
<1> HIDE DEF n
<1>5. \A k \in Int : at(k) \in Int /\ at(k) = from + (s * k) * step /\ s * k \in Int
  BY <1>1
<1>6. \A k \in Int : at(k) - at(k - 1) = s * step
  BY <1>1
<1>7. at(0) = from
  BY <1>1
<1>8. to - at(n) = s * (Abs(D) - n * step)
  <2>1. s * (Abs(D) - n * step) = s * Abs(D) - s * n * step
    BY <1>1, <1>4
  <2> QED BY <1>1, <1>4, <2>1
<1>9. Abs(s * step) <= step
  BY <1>1 DEF Abs
<1>10. Abs(to - at(n)) <= step
  <2> DEFINE e == Abs(D) - n * step
  <2>1. e \in Nat /\ e <= step
    BY <1>1, <1>4
  <2>2. to - at(n) = s * e
    BY <1>8
  <2> HIDE DEF e, at
  <2> QED BY <1>1, <2>1, <2>2 DEF Abs
<1> HIDE DEF at
<1>11. r \in Seq(Int) /\ Len(r) = n /\ \A i \in 1..n : r[i] = at(i)
  BY <1>4, <1>5
<1> HIDE DEF r
<1>12. /\ w \in Seq(Int) /\ Len(w) = n + 1 /\ w[n + 1] = to
       /\ \A i \in 1..n : w[i] = at(i)
  BY <1>0, <1>3, <1>4, <1>11
<1>13. Abs(w[1] - from) <= step
  <2>1. CASE n = 0
    BY <1>7, <1>10, <1>12, <2>1
  <2>2. CASE n # 0
    <3>1. w[1] = at(1) /\ at(1) - at(1 - 1) = s * step
      BY <1>4, <1>6, <1>12, <2>2
    <3> QED BY <1>7, <1>9, <3>1
  <2> QED BY <2>1, <2>2
<1>14. ASSUME NEW i \in 2..Len(w) PROVE Abs(w[i] - w[i - 1]) <= step
  <2>1. i - 1 \in 1..n /\ w[i - 1] = at(i - 1) /\ i \in Int
    BY <1>4, <1>12
  <2>2. CASE i = n + 1
    <3>1. w[i] = to /\ w[i - 1] = at(n)
      BY <1>4, <1>12, <2>1, <2>2
    <3> QED BY <1>10, <3>1
  <2>3. CASE i # n + 1
    <3>1. w[i] = at(i)
      BY <1>4, <1>12, <2>1, <2>3
    <3> QED BY <1>6, <1>9, <2>1, <3>1
  <2> QED BY <2>2, <2>3
<1>15. ASSUME NEW i \in 1..Len(w) - 1 PROVE \E k \in Int : w[i] = from + k * step
  <2>1. i \in 1..n /\ i \in Int
    BY <1>4, <1>12
  <2> QED BY <1>5, <1>12, <2>1
<1>16. Len(w) \in Nat \ {0} /\ w[Len(w)] = to
  BY <1>4, <1>12
<1> QED BY <1>12, <1>13, <1>14, <1>15, <1>16 DEF LeadsTo, w

\* The levels a source can be set to exactly are a whole number of steps apart.
LEMMA ExactStep ==
    ASSUME NEW v \in Int, NEW s \in Int, NEW k \in Int, NEW part \in Int, NEW total \in Nat \ {0},
           Exact(v, part, total), Exact(s, part, total)
    PROVE  Exact(v + k * s, part, total)
<1>1. v * part \in Int /\ s * part \in Int
  OBVIOUS
<1>2. PICK x \in Int : v * part = x * total
  BY <1>1, Whole DEF Exact
<1>3. PICK y \in Int : s * part = y * total
  BY <1>1, Whole DEF Exact
<1>4. (v + k * s) * part = (x + k * y) * total
  <2>1. (v + k * s) * part = v * part + k * (s * part)
    OBVIOUS
  <2>2. (x + k * y) * total = x * total + k * (y * total)
    OBVIOUS
  <2> QED BY <1>2, <1>3, <2>1, <2>2
<1>5. x + k * y \in Int
  OBVIOUS
<1> QED BY <1>4, <1>5, Multiple DEF Exact


-----------------------------------------------------------------------------
(* Induction, and what is defined by it *)

\* A set of natural numbers has a least element.
LEMMA LeastOf ==
    ASSUME NEW S \in SUBSET Nat, S # {}
    PROVE  \E x \in S : \A y \in S : x <= y
<1> DEFINE Less == OpToRel(<, Nat)
<1>1. IsWellFoundedOn(Less, Nat)
  BY NatLessThanWellFounded
<1>2. \A x, y \in Nat : <<x, y>> \in Less <=> x < y
  BY DEF OpToRel
<1> HIDE DEF Less
<1>3. PICK x \in S : \A y \in S : ~ (<<y, x>> \in Less)
  BY <1>1, WFMin
<1>4. ASSUME NEW y \in S PROVE x <= y
  <2>1. x \in Nat /\ y \in Nat /\ ~(y < x)
    BY <1>2, <1>3
  <2> QED BY <2>1
<1> QED BY <1>4

\* A set that holds zero and with every number its successor holds them all.
LEMMA Induct ==
    ASSUME NEW G \in SUBSET Nat, 0 \in G, \A n \in G : n + 1 \in G
    PROVE  \A n \in Nat : n \in G
<1>1. SUFFICES ASSUME NEW m \in Nat, m \notin G PROVE FALSE
  OBVIOUS
<1>2. PICK x \in Nat \ G : \A y \in Nat \ G : x <= y
  <2>1. (Nat \ G) \in SUBSET Nat /\ Nat \ G # {}
    BY <1>1
  <2> QED BY <2>1, LeastOf
<1>3. x # 0 /\ x - 1 \in Nat /\ ~(x <= x - 1)
  BY <1>2
<1>4. x - 1 \in G
  BY <1>2, <1>3
<1>5. (x - 1) + 1 = x
  BY <1>2
<1> QED BY <1>2, <1>4, <1>5

\* The same up to a bound.
LEMMA InductTo ==
    ASSUME NEW m \in Nat, NEW G, 0 \in G, \A n \in 0..m : n \in G /\ n < m => n + 1 \in G
    PROVE  \A n \in 0..m : n \in G
<1> DEFINE H == {n \in Nat : n <= m => n \in G}
<1>1. 0 \in H
  OBVIOUS
<1>2. ASSUME NEW n \in H PROVE n + 1 \in H
  <2>1. n + 1 \in Nat
    OBVIOUS
  <2>2. ASSUME n + 1 <= m PROVE n + 1 \in G
    <3>1. n \in 0..m /\ n < m /\ n \in G
      BY <2>2
    <3> QED BY <3>1
  <2> QED BY <2>1, <2>2
<1>3. H \in SUBSET Nat
  OBVIOUS
<1>4. \A n \in Nat : n \in H
  <2> HIDE DEF H
  <2> QED BY <1>1, <1>2, <1>3, Induct
<1> QED BY <1>4

\* The greatest of a bounded set.
LEMMA MaxOf ==
    ASSUME NEW S \in SUBSET Nat, S # {}, NEW bound \in Nat, \A x \in S : x <= bound
    PROVE  Max(S) \in S /\ \A x \in S : x <= Max(S)
<1> DEFINE U == {u \in Nat : \A x \in S : x <= u}
<1>1. U \in SUBSET Nat /\ bound \in U
  OBVIOUS
<1>2. PICK u \in U : \A v \in U : u <= v
  <2> HIDE DEF U
  <2> QED BY <1>1, LeastOf
<1>3. u \in S
  <2> SUFFICES ASSUME u \notin S PROVE FALSE
    OBVIOUS
  <2>1. PICK s \in S : TRUE
    OBVIOUS
  <2>2. s \in Nat /\ s <= u /\ s # u /\ u \in Nat
    BY <1>2, <2>1
  <2>3. u - 1 \in Nat /\ ~(u <= u - 1)
    BY <2>2
  <2>4. \A x \in S : x <= u - 1
    <3> TAKE x \in S
    <3>1. x \in Nat /\ x <= u /\ x # u /\ u \in Nat
      BY <1>2, <2>2
    <3> QED BY <3>1
  <2>5. u - 1 \in U
    BY <2>3, <2>4
  <2> HIDE DEF U
  <2> QED BY <1>2, <2>3, <2>5
<1>4. \A x \in S : u >= x
  BY <1>2
<1>5. \A v \in S : (\A x \in S : v >= x) => v = u
  BY <1>2, <1>3, <1>4
<1>6. Max(S) = CHOOSE v \in S : \A x \in S : v >= x
  BY DEF Max
<1>7. Max(S) = u
  BY <1>3, <1>4, <1>5, <1>6
<1> QED BY <1>2, <1>3, <1>7

\* The levels of a custom list have a greatest one.
LEMMA Bounded ==
    ASSUME NEW s \in Seq(Int)
    PROVE  \E bound \in Nat : \A i \in 1..Len(s) : Abs(s[i]) <= bound
<1> DEFINE G == {n \in Nat : n <= Len(s) => \E bound \in Nat : \A i \in 1..n : Abs(s[i]) <= bound}
<1>0. Len(s) \in Nat
  OBVIOUS
<1>1. 0 \in G
  <2>1. \A i \in 1..0 : Abs(s[i]) <= 0
    OBVIOUS
  <2> QED BY <2>1
<1>2. ASSUME NEW n \in G PROVE n + 1 \in G
  <2>1. n + 1 \in Nat
    OBVIOUS
  <2>2. ASSUME n + 1 <= Len(s) PROVE \E bound \in Nat : \A i \in 1..(n + 1) : Abs(s[i]) <= bound
    <3>1. PICK bound \in Nat : \A i \in 1..n : Abs(s[i]) <= bound
      BY <1>0, <2>2
    <3>2. n + 1 \in 1..Len(s) /\ s[n + 1] \in Int
      BY <1>0, <2>2
    <3>3. Abs(s[n + 1]) \in Nat
      BY <3>2, Distance
    <3> DEFINE more == bound + Abs(s[n + 1])
    <3>4. more \in Nat /\ bound <= more /\ Abs(s[n + 1]) <= more
      BY <3>1, <3>3
    <3>5. ASSUME NEW i \in 1..(n + 1) PROVE Abs(s[i]) <= more
      <4>1. CASE i = n + 1
        BY <3>4, <4>1
      <4>2. CASE i # n + 1
        <5>1. i \in 1..n /\ i \in 1..Len(s) /\ s[i] \in Int
          BY <1>0, <2>2, <4>2
        <5>2. Abs(s[i]) \in Nat /\ Abs(s[i]) <= bound
          BY <3>1, <5>1, Distance
        <5> QED BY <3>1, <3>4, <5>2
      <4> QED BY <4>1, <4>2
    <3> QED BY <3>4, <3>5
  <2> QED BY <2>1, <2>2
<1>3. G \in SUBSET Nat
  OBVIOUS
<1>4. \A n \in Nat : n \in G
  <2> HIDE DEF G
  <2> QED BY <1>1, <1>2, <1>3, Induct
<1>5. Len(s) \in G
  <2> HIDE DEF G
  <2> QED BY <1>0, <1>4
<1>6. Len(s) <= Len(s)
  BY <1>0
<1> QED BY <1>5, <1>6

-----------------------------------------------------------------------------
(* Divisors *)

Divides(d, n) == \E q \in Int : n = d * q
\* d is the common divisor of x and y that every other one divides.
IsGcd(d, x, y) ==
    /\ d \in Nat /\ Divides(d, x) /\ Divides(d, y)
    /\ \A e \in Nat : Divides(e, x) /\ Divides(e, y) => Divides(e, d)

\* A step of the algorithm keeps the common divisors.
LEMMA SameDivisors ==
    ASSUME NEW x \in Nat, NEW y \in Nat \ {0}, NEW e \in Nat
    PROVE  Divides(e, x) /\ Divides(e, y) <=> Divides(e, y) /\ Divides(e, x % y)
<1> DEFINE k == x \div y
           r == x % y
<1>1. k \in Int /\ r \in Int /\ x = k * y + r
  BY Quotient
<1> HIDE DEF k, r
<1>2. ASSUME Divides(e, x), Divides(e, y) PROVE Divides(e, r)
  <2>1. PICK p \in Int : x = e * p
    BY <1>2 DEF Divides
  <2>2. PICK q \in Int : y = e * q
    BY <1>2 DEF Divides
  <2>3. r = e * (p - k * q)
    <3>1. r = x - k * y
      BY <1>1
    <3>2. e * (p - k * q) = e * p - k * (e * q)
      BY <1>1
    <3> QED BY <2>1, <2>2, <3>1, <3>2
  <2>4. p - k * q \in Int
    BY <1>1
  <2> QED BY <2>3, <2>4 DEF Divides
<1>3. ASSUME Divides(e, y), Divides(e, r) PROVE Divides(e, x)
  <2>1. PICK p \in Int : y = e * p
    BY <1>3 DEF Divides
  <2>2. PICK q \in Int : r = e * q
    BY <1>3 DEF Divides
  <2>3. x = e * (k * p + q)
    <3>1. e * (k * p + q) = k * (e * p) + e * q
      BY <1>1
    <3> QED BY <1>1, <2>1, <2>2, <3>1
  <2>4. k * p + q \in Int
    BY <1>1
  <2> QED BY <2>3, <2>4 DEF Divides
<1> QED BY <1>2, <1>3 DEF r

\* Of zero and another number the other one is it.
LEMMA GcdZero == \A x \in Nat, d \in Nat : IsGcd(d, x, 0) <=> d = x
<1> SUFFICES ASSUME NEW x \in Nat, NEW d \in Nat PROVE IsGcd(d, x, 0) <=> d = x
  OBVIOUS
<1>1. Divides(x, x) /\ \A e \in Nat : Divides(e, 0)
  <2>1. x = x * 1 /\ \A e \in Nat : 0 = e * 0
    OBVIOUS
  <2> QED BY <2>1 DEF Divides
<1>2. ASSUME IsGcd(d, x, 0) PROVE d = x
  <2>1. Divides(x, d) /\ Divides(d, x)
    BY <1>1, <1>2 DEF IsGcd
  <2>2. PICK p \in Int : d = x * p
    BY <2>1 DEF Divides
  <2>3. PICK q \in Int : x = d * q
    BY <2>1 DEF Divides
  <2>4. CASE x = 0
    BY <2>2, <2>4
  <2>5. CASE x # 0
    <3>1. d # 0
      BY <2>3, <2>5
    <3>2. p > 0
      BY <2>2, <2>5, <3>1
    <3>3. q > 0
      BY <2>3, <2>5, <3>1
    <3>4. d >= x
      BY <2>2, <3>2
    <3>5. x >= d
      BY <2>3, <3>3
    <3> QED BY <3>4, <3>5
  <2> QED BY <2>4, <2>5
<1>3. ASSUME d = x PROVE IsGcd(d, x, 0)
  BY <1>1, <1>3 DEF IsGcd
<1> QED BY <1>2, <1>3

\* What gcd_i128 computes: a common divisor that is a sum of multiples of the two.
Bezout(d, x, y) ==
    /\ d \in Nat /\ Divides(d, x) /\ Divides(d, y)
    /\ \E u, v \in Int : d = x * u + y * v
\* gcd_i128 computes one: by induction on a bound of its second argument.
LEMMA GcdIs == \A x, y \in Nat : Bezout(Gcd(x, y), x, y)
<1> DEFINE N == Nat \X Nat
           D(f) == [p \in N |-> IF p[2] = 0 THEN p[1] ELSE f[<<p[2], p[1] % p[2]>>]]
           P == CHOOSE f : f = D(f)
           the(x, y) == CHOOSE d \in Nat : IsGcd(d, x, y)
           Q == [p \in N |-> the(p[1], p[2])]
<1>1. \A x, y : Gcd(x, y) = P[<<x, y>>]
  BY DEF Gcd
<1>2. ASSUME NEW x \in Nat PROVE the(x, 0) = x
  BY GcdZero
<1>3. ASSUME NEW x \in Nat, NEW y \in Nat \ {0} PROVE the(x, y) = the(y, x % y) /\ x % y \in Nat
  <2>1. \A d \in Nat : IsGcd(d, x, y) <=> IsGcd(d, y, x % y)
    BY SameDivisors DEF IsGcd
  <2> QED BY <2>1
<1> HIDE DEF the
<1>4. Q = D(Q)
  <2>1. ASSUME NEW p \in N
        PROVE  the(p[1], p[2]) = IF p[2] = 0 THEN p[1] ELSE Q[<<p[2], p[1] % p[2]>>]
    <3>1. p[1] \in Nat /\ p[2] \in Nat
      OBVIOUS
    <3>2. CASE p[2] = 0
      BY <1>2, <3>1, <3>2
    <3>3. CASE p[2] # 0
      <4> DEFINE r == p[1] % p[2]
      <4>1. the(p[1], p[2]) = the(p[2], r) /\ r \in Nat
        BY <1>3, <3>1, <3>3
      <4> HIDE DEF r
      <4>2. Q[<<p[2], r>>] = the(p[2], r)
        BY <3>1, <4>1
      <4> QED BY <3>3, <4>1, <4>2 DEF r
    <3> QED BY <3>2, <3>3
  <2> QED BY <2>1
<1>5. P = D(P)
  <2> HIDE DEF Q, D
  <2> QED BY <1>4
<1> HIDE DEF P, Q
<1>6. \A x, y \in Nat : P[<<x, y>>] = IF y = 0 THEN x ELSE P[<<y, x % y>>]
  BY <1>5
<1> DEFINE S == {y \in Nat : \E x \in Nat : ~Bezout(P[<<x, y>>], x, y)}
<1>7. S = {}
  <2> SUFFICES ASSUME S # {} PROVE FALSE
    OBVIOUS
  <2>1. PICK y \in S : \A z \in S : y <= z
    <3>1. S \in SUBSET Nat
      OBVIOUS
    <3> HIDE DEF S
    <3> QED BY <3>1, LeastOf
  <2>2. PICK x \in Nat : ~Bezout(P[<<x, y>>], x, y)
    BY <2>1
  <2>3. y \in Nat
    BY <2>1
  <2>4. CASE y = 0
    <3>1. P[<<x, y>>] = x
      BY <1>6, <2>4
    <3>2. x = x * 1 /\ 0 = x * 0 /\ x = x * 1 + 0 * 0
      OBVIOUS
    <3>3. Bezout(x, x, 0)
      <4>1. Divides(x, x) /\ Divides(x, 0)
        BY <3>2 DEF Divides
      <4>2. \E u, v \in Int : x = x * u + 0 * v
        BY <3>2
      <4> QED BY <4>1, <4>2 DEF Bezout
    <3> QED BY <2>2, <2>4, <3>1, <3>3
  <2>5. CASE y # 0
    <3> DEFINE k == x \div y
               r == x % y
               d == P[<<y, r>>]
    <3>1. k \in Int /\ r \in Nat /\ r < y /\ x = k * y + r
      BY <2>3, <2>5, Quotient
    <3>2. P[<<x, y>>] = d
      BY <1>6, <2>3, <2>5
    <3> HIDE DEF k
    <3>3. r \notin S
      <4> HIDE DEF S, r
      <4> QED BY <2>1, <2>3, <3>1
    <3>4. Bezout(d, y, r)
      BY <2>3, <3>1, <3>3
    <3>5. d \in Nat /\ Divides(d, y) /\ Divides(d, x)
      <4>1. d \in Nat /\ Divides(d, y) /\ Divides(d, r)
        BY <3>4 DEF Bezout
      <4> HIDE DEF d
      <4> QED BY <2>3, <2>5, <4>1, SameDivisors
    <3>6. PICK u, v \in Int : d = y * u + r * v
      BY <3>4 DEF Bezout
    <3> HIDE DEF d, r
    <3>7. d = x * v + y * (u - k * v) /\ u - k * v \in Int
      <4>1. x * v + y * (u - k * v) = (x - k * y) * v + y * u
        BY <2>3, <3>1
      <4>2. x - k * y = r
        BY <2>3, <3>1
      <4> QED BY <2>3, <3>1, <3>6, <4>1, <4>2
    <3>8. Bezout(d, x, y)
      BY <3>5, <3>7 DEF Bezout
    <3> QED BY <2>2, <3>2, <3>8
  <2> QED BY <2>4, <2>5
<1>8. ASSUME NEW x \in Nat, NEW y \in Nat PROVE Bezout(P[<<x, y>>], x, y)
  <2>1. y \notin S
    BY <1>7
  <2> QED BY <2>1
<1> QED BY <1>1, <1>8

\* Divided by it, two numbers have no other divisor in common.
Parts(x, y, g, p, q, u, v) ==
    /\ g \in Nat \ {0} /\ x = p * g /\ y = q * g
    /\ x \div g = p /\ y \div g = q
    /\ p * u + q * v = 1 /\ g = x * u + y * v
\* What two numbers are without their greatest common divisor: coprime.
LEMMA GcdFacts ==
    ASSUME NEW x \in Nat \ {0}, NEW y \in Nat \ {0}
    PROVE  \E p, q \in Nat \ {0}, u, v \in Int : Parts(x, y, Gcd(x, y), p, q, u, v)
<1> DEFINE g == Gcd(x, y)
<1>1. Bezout(g, x, y)
  BY GcdIs
<1> HIDE DEF g
<1>2. PICK p \in Int : x = g * p
  BY <1>1 DEF Bezout, Divides
<1>3. PICK q \in Int : y = g * q
  BY <1>1 DEF Bezout, Divides
<1>4. PICK u, v \in Int : g = x * u + y * v
  BY <1>1 DEF Bezout
<1>5. g \in Nat \ {0}
  BY <1>1, <1>2 DEF Bezout
<1>6. p \in Nat \ {0}
  BY <1>2, <1>5
<1>7. q \in Nat \ {0}
  BY <1>3, <1>5
<1>8. x = p * g /\ y = q * g
  BY <1>2, <1>3, <1>5
<1>9. x \div g = p /\ y \div g = q
  BY <1>5, <1>6, <1>7, <1>8, Multiple
<1>10. p * u + q * v = 1
  <2> DEFINE s == p * u + q * v
  <2>1. s \in Int
    BY <1>6, <1>7
  <2>2. g = g * s
    <3>1. g * (p * u + q * v) = (g * p) * u + (g * q) * v
      BY <1>5, <1>6, <1>7
    <3> QED BY <1>2, <1>3, <1>4, <3>1
  <2> HIDE DEF s
  <2>3. g * (s - 1) = 0
    BY <1>5, <2>1, <2>2
  <2>4. s = 1
    BY <1>5, <2>1, <2>3
  <2> QED BY <2>4 DEF s
<1> QED BY <1>4, <1>5, <1>6, <1>7, <1>8, <1>9, <1>10 DEF g, Parts

-----------------------------------------------------------------------------
(* The grid that two sources share *)

\* A remainder of zero is a multiple.
LEMMA NoRemainder ==
    ASSUME NEW n \in Int, NEW d \in Nat \ {0}
    PROVE  n % d = 0 <=> Divides(d, n)
<1>1. ASSUME n % d = 0 PROVE Divides(d, n)
  <2>1. PICK q \in Int : n = q * d
    BY <1>1, Whole
  <2>2. n = d * q
    BY <2>1
  <2> QED BY <2>2 DEF Divides
<1>2. ASSUME Divides(d, n) PROVE n % d = 0
  <2>1. PICK q \in Int : n = d * q
    BY <1>2 DEF Divides
  <2>2. n = q * d
    BY <2>1
  <2> QED BY <2>2, Multiple
<1> QED BY <1>1, <1>2

\* The levels of which a source's share is on its own grid: `num` of split_increment.
LEMMA Numerator ==
    ASSUME NEW n \in Nat \ {0}, NEW a \in Nat \ {0}, NEW v \in Int
    PROVE  (v * a) % n = 0 <=> Divides(n \div Gcd(n, a), v)
<1> DEFINE g == Gcd(n, a)
           m == n \div g
<1>0. PICK p, q \in Nat \ {0}, u, w \in Int : Parts(n, a, g, p, q, u, w)
  BY GcdFacts
<1>1. g \in Nat \ {0} /\ n = p * g /\ a = q * g /\ m = p /\ p * u + q * w = 1
  BY <1>0 DEF Parts
<1> HIDE DEF g, m
<1>2. (v * a) % n = 0 <=> Divides(n, v * a)
  <2>1. v * a \in Int
    OBVIOUS
  <2> QED BY <2>1, NoRemainder
<1>3. ASSUME Divides(n, v * a) PROVE Divides(m, v)
  <2>1. PICK k \in Int : v * a = n * k
    BY <1>3 DEF Divides
  <2>2. g * (v * q) = g * (p * k)
    <3>1. v * a = g * (v * q)
      BY <1>1
    <3>2. n * k = g * (p * k)
      BY <1>1
    <3> QED BY <2>1, <3>1, <3>2
  <2>3. v * q = p * k
    <3> DEFINE x == v * q
               y == p * k
    <3>1. x \in Int /\ y \in Int /\ g * x = g * y
      BY <1>1, <2>2
    <3> HIDE DEF x, y
    <3>2. x = y
      BY <1>1, <3>1
    <3> QED BY <3>2 DEF x, y
  <2>4. v = p * (v * u + k * w)
    <3>1. v * (p * u + q * w) = p * (v * u) + (v * q) * w
      BY <1>1
    <3>2. p * (v * u + k * w) = p * (v * u) + (p * k) * w
      BY <1>1
    <3>3. v * (p * u + q * w) = v
      BY <1>1
    <3> QED BY <2>3, <3>1, <3>2, <3>3
  <2>5. v * u + k * w \in Int
    BY <1>1
  <2> QED BY <1>1, <2>4, <2>5 DEF Divides
<1>4. ASSUME Divides(m, v) PROVE Divides(n, v * a)
  <2>1. PICK k \in Int : v = p * k
    BY <1>1, <1>4 DEF Divides
  <2>2. v * a = n * (k * q)
    <3>1. (p * k) * (q * g) = (p * g) * (k * q)
      BY <1>1
    <3> QED BY <1>1, <2>1, <3>1
  <2>3. k * q \in Int
    BY <1>1
  <2> QED BY <2>2, <2>3 DEF Divides
<1> QED BY <1>2, <1>3, <1>4 DEF m, g

\* The least common multiple.
LEMMA Common ==
    ASSUME NEW m \in Nat \ {0}, NEW n \in Nat \ {0}, NEW v \in Int
    PROVE  /\ (m \div Gcd(m, n)) * n \in Nat \ {0}
           /\ Divides(m, v) /\ Divides(n, v) <=> Divides((m \div Gcd(m, n)) * n, v)
<1> DEFINE g == Gcd(m, n)
           d == m \div g
           l == d * n
<1>0. PICK p, q \in Nat \ {0}, u, w \in Int : Parts(m, n, g, p, q, u, w)
  BY GcdFacts
<1>1. g \in Nat \ {0} /\ m = p * g /\ n = q * g /\ d = p /\ p * u + q * w = 1
  BY <1>0 DEF Parts
<1> HIDE DEF g, d
<1>2. l = p * n /\ l = q * m /\ l \in Nat \ {0}
  <2>1. p * n = p * (q * g) /\ q * m = q * (p * g) /\ p * (q * g) = q * (p * g)
    BY <1>1
  <2>2. p * n \in Nat \ {0}
    BY <1>1
  <2> QED BY <1>1, <2>1, <2>2
<1> HIDE DEF l
<1>3. ASSUME Divides(m, v), Divides(n, v) PROVE Divides(l, v)
  <2>1. PICK x \in Int : v = m * x
    BY <1>3 DEF Divides
  <2>2. PICK y \in Int : v = n * y
    BY <1>3 DEF Divides
  <2>3. v = l * (w * x + u * y)
    <3>1. l * (w * x + u * y) = (q * w) * (m * x) + (p * u) * (n * y)
      <4>1. l * (w * x + u * y) = (l * w) * x + (l * u) * y
        BY <1>1, <1>2
      <4>2. ((q * m) * w) * x = (q * w) * (m * x)
        BY <1>1
      <4>3. ((p * n) * u) * y = (p * u) * (n * y)
        BY <1>1
      <4> QED BY <1>2, <4>1, <4>2, <4>3
    <3>2. (q * w) * v + (p * u) * v = (p * u + q * w) * v
      BY <1>1
    <3>3. (p * u + q * w) * v = v
      BY <1>1
    <3> QED BY <2>1, <2>2, <3>1, <3>2, <3>3
  <2>4. w * x + u * y \in Int
    BY <1>1
  <2> QED BY <2>3, <2>4 DEF Divides
<1>4. ASSUME Divides(l, v) PROVE Divides(m, v) /\ Divides(n, v)
  <2>1. PICK k \in Int : v = l * k
    BY <1>4 DEF Divides
  <2>2. v = m * (q * k) /\ v = n * (p * k)
    <3>1. (q * m) * k = m * (q * k) /\ (p * n) * k = n * (p * k)
      BY <1>1
    <3> QED BY <1>2, <2>1, <3>1
  <2>3. q * k \in Int /\ p * k \in Int
    BY <1>1
  <2> QED BY <2>2, <2>3 DEF Divides
<1> QED BY <1>2, <1>3, <1>4 DEF l, d, g

\* The shares of a ratio have no divisor in common, once divided by those of the
\* whole: the denominator of the common grid is one.
LEMMA Denominator ==
    ASSUME NEW a \in Nat \ {0}, NEW b \in Nat \ {0}, NEW r \in Nat \ {0}, NEW s \in Nat \ {0}
    PROVE  LET x == r * (a + b)
               y == s * (a + b)
           IN  Gcd(a \div Gcd(x, a), b \div Gcd(y, b)) = 1
<1> DEFINE t == a + b
           x == r * t
           y == s * t
           g1 == Gcd(x, a)
           g2 == Gcd(y, b)
           h == Gcd(a, b)
           d1 == a \div g1
           d2 == b \div g2
           e == Gcd(d1, d2)
<1>1. t \in Nat \ {0} /\ x \in Nat \ {0} /\ y \in Nat \ {0} /\ t = a + b /\ x = r * t /\ y = s * t
  OBVIOUS
<1> HIDE DEF t, x, y
<1>2a. PICK p1, q1 \in Nat \ {0}, u1, w1 \in Int : Parts(x, a, g1, p1, q1, u1, w1)
  BY <1>1, GcdFacts
<1>2. g1 \in Nat \ {0} /\ x = p1 * g1 /\ a = q1 * g1 /\ d1 = q1 /\ g1 = x * u1 + a * w1
  BY <1>2a DEF Parts
<1>3a. PICK p2, q2 \in Nat \ {0}, u2, w2 \in Int : Parts(y, b, g2, p2, q2, u2, w2)
  BY <1>1, GcdFacts
<1>3. g2 \in Nat \ {0} /\ y = p2 * g2 /\ b = q2 * g2 /\ d2 = q2 /\ g2 = y * u2 + b * w2
  BY <1>3a DEF Parts
<1>4a. PICK p, q \in Nat \ {0}, u, w \in Int : Parts(a, b, h, p, q, u, w)
  BY GcdFacts
<1>4. h \in Nat \ {0} /\ a = p * h /\ b = q * h /\ p * u + q * w = 1
  BY <1>4a DEF Parts
<1> HIDE DEF g1, g2, h, d1, d2
<1>5a. PICK p3, q3 \in Nat \ {0}, u3, w3 \in Int : Parts(d1, d2, e, p3, q3, u3, w3)
  BY <1>2, <1>3, GcdFacts
<1>5. e \in Nat \ {0} /\ d1 = p3 * e /\ d2 = q3 * e
  BY <1>5a DEF Parts
<1> HIDE DEF e
<1>6. t = (p + q) * h
  BY <1>1, <1>4
\* The whole's own divisors divide h into both.
<1>7. PICK k1 \in Int : g1 = h * k1
  <2>1. x = h * (r * (p + q))
    BY <1>1, <1>4, <1>6
  <2>2. x * u1 = h * ((r * (p + q)) * u1)
    BY <1>2, <1>4, <2>1
  <2>3. a * w1 = h * (p * w1)
    BY <1>2, <1>4
  <2>4. g1 = h * ((r * (p + q)) * u1 + p * w1)
    BY <1>2, <1>4, <2>2, <2>3
  <2>5. (r * (p + q)) * u1 + p * w1 \in Int
    BY <1>2, <1>4
  <2> QED BY <2>4, <2>5
<1>8. PICK k2 \in Int : g2 = h * k2
  <2>1. y = h * (s * (p + q))
    BY <1>1, <1>4, <1>6
  <2>2. y * u2 = h * ((s * (p + q)) * u2)
    BY <1>3, <1>4, <2>1
  <2>3. b * w2 = h * (q * w2)
    BY <1>3, <1>4
  <2>4. g2 = h * ((s * (p + q)) * u2 + q * w2)
    BY <1>3, <1>4, <2>2, <2>3
  <2>5. (s * (p + q)) * u2 + q * w2 \in Int
    BY <1>3, <1>4
  <2> QED BY <2>4, <2>5
\* So what divides both of the rest divides one.
<1>9. p = q1 * k1
  <2>1. h * p = h * (q1 * k1)
    <3>1. q1 * (h * k1) = h * (q1 * k1)
      BY <1>2, <1>4
    <3> QED BY <1>2, <1>4, <1>7, <3>1
  <2> DEFINE z == q1 * k1
  <2>2. z \in Int /\ h * p = h * z
    BY <1>2, <2>1
  <2> HIDE DEF z
  <2>3. p = z
    BY <1>4, <2>2
  <2> QED BY <2>3 DEF z
<1>10. q = q2 * k2
  <2>1. h * q = h * (q2 * k2)
    <3>1. q2 * (h * k2) = h * (q2 * k2)
      BY <1>3, <1>4
    <3> QED BY <1>3, <1>4, <1>8, <3>1
  <2> DEFINE z == q2 * k2
  <2>2. z \in Int /\ h * q = h * z
    BY <1>3, <2>1
  <2> HIDE DEF z
  <2>3. q = z
    BY <1>4, <2>2
  <2> QED BY <2>3 DEF z
<1>11. e = 1
  <2> DEFINE f == (p3 * k1) * u + (q3 * k2) * w
  <2>1. f \in Int
    BY <1>4, <1>5
  <2>2. p * u = e * ((p3 * k1) * u)
    <3>1. ((p3 * e) * k1) * u = e * ((p3 * k1) * u)
      BY <1>4, <1>5
    <3> QED BY <1>2, <1>5, <1>9, <3>1
  <2>3. q * w = e * ((q3 * k2) * w)
    <3>1. ((q3 * e) * k2) * w = e * ((q3 * k2) * w)
      BY <1>4, <1>5
    <3> QED BY <1>3, <1>5, <1>10, <3>1
  <2>4. e * f = 1
    <3>1. e * f = e * ((p3 * k1) * u) + e * ((q3 * k2) * w)
      BY <1>4, <1>5
    <3> QED BY <1>4, <2>2, <2>3, <3>1
  <2> HIDE DEF f
  <2>5. f > 0
    BY <1>5, <2>1, <2>4
  <2>6. CASE e > 1
    <3>1. e * f >= e
      BY <1>5, <2>1, <2>5
    <3> QED BY <1>5, <2>4, <2>6, <3>1
  <2> QED BY <1>5, <2>6
<1> QED BY <1>11 DEF e, d1, d2, g1, g2, x, y, t

\* A target of which a source's share is on the source's own grid.
Follows(v, a, total, grid) == (v * a) % (total * grid) = 0

\* split_increment: the least level that both sources follow exactly, of which
\* every other one is a multiple.
IsSplit(grid, r, s, a, b, total) ==
    /\ grid \in Nat \ {0}
    /\ \A v \in Int : v % grid = 0 <=> Follows(v, a, total, r) /\ Follows(v, b, total, s)
\* split_increment: a target is on the common grid exactly if both sources follow it.
LEMMA SplitFacts ==
    ASSUME NEW a \in Nat \ {0}, NEW b \in Nat \ {0}, NEW r \in Nat \ {0}, NEW s \in Nat \ {0}
    PROVE  IsSplit(SplitIncrement(r, s, a, b), r, s, a, b, a + b)
<1> DEFINE x == r * (a + b)
           y == s * (a + b)
           m == x \div Gcd(x, a)
           n == y \div Gcd(y, b)
           c == Gcd(a \div Gcd(x, a), b \div Gcd(y, b))
           l == (m \div Gcd(m, n)) * n
<1>1. SplitIncrement(r, s, a, b) = l \div c
  BY DEF SplitIncrement
<1>2. c = 1
  BY Denominator
<1>3. x = (a + b) * r /\ y = (a + b) * s /\ x \in Nat \ {0} /\ y \in Nat \ {0}
  OBVIOUS
<1> HIDE DEF x, y, c
<1>4. m \in Nat \ {0} /\ n \in Nat \ {0}
  <2>1. PICK p, q \in Nat \ {0}, u, w \in Int : Parts(x, a, Gcd(x, a), p, q, u, w)
    BY <1>3, GcdFacts
  <2>2. PICK p2, q2 \in Nat \ {0}, u2, w2 \in Int : Parts(y, b, Gcd(y, b), p2, q2, u2, w2)
    BY <1>3, GcdFacts
  <2>3. m = p
    BY <2>1 DEF Parts
  <2>4. n = p2
    BY <2>2 DEF Parts
  <2> QED BY <2>3, <2>4
<1>5. ASSUME NEW v \in Int
      PROVE  (v * a) % x = 0 /\ (v * b) % y = 0 <=> Divides(m, v) /\ Divides(n, v)
  BY <1>3, Numerator
<1> HIDE DEF m, n
<1>6. l \in Nat \ {0} /\ \A v \in Int : Divides(m, v) /\ Divides(n, v) <=> Divides(l, v)
  <2>1. 0 \in Int
    OBVIOUS
  <2> QED BY <1>4, <2>1, Common
<1> HIDE DEF l
<1>7. l \div c = l
  BY <1>2, <1>6
<1>8. \A v \in Int : v % l = 0 <=> Divides(l, v)
  BY <1>6, NoRemainder
<1>9. ASSUME NEW v \in Int
      PROVE  Follows(v, a, a + b, r) /\ Follows(v, b, a + b, s) <=> v % l = 0
  BY <1>3, <1>5, <1>6, <1>8 DEF Follows
<1> QED BY <1>1, <1>6, <1>7, <1>9 DEF IsSplit

-----------------------------------------------------------------------------
(* One leg of a sweep *)

\* A larger number of steps is a longer way.
LEMMA StepsUp ==
    ASSUME NEW x \in Int, NEW y \in Int, NEW d \in Nat \ {0}
    PROVE  /\ x <= y => x * d <= y * d
           /\ x < y => x * d < y * d
           /\ (x - 1) * d = x * d - d /\ x * d \in Int
<1>1. (y - x) * d = y * d - x * d /\ (x - 1) * d = x * d - d /\ x * d \in Int /\ y * d \in Int
  OBVIOUS
<1>2. ASSUME x <= y PROVE x * d <= y * d
  <2> DEFINE z == y - x
  <2>1. z \in Nat /\ z * d >= 0 /\ z * d = y * d - x * d
    BY <1>1, <1>2
  <2> QED BY <1>1, <2>1
<1>3. ASSUME x < y PROVE x * d < y * d
  <2> DEFINE z == y - x
  <2>1. z \in Nat \ {0} /\ z * d > 0 /\ z * d = y * d - x * d
    BY <1>1, <1>3
  <2> QED BY <1>1, <2>1
<1> QED BY <1>1, <1>2, <1>3

\* The points of a leg: whole steps from its start, and its stop.
Steps(start, stop, step) == CeilDiv(Abs(stop - start), step)
LegPoint(start, stop, step, k) ==
    IF k = Steps(start, stop, step) THEN stop ELSE start + Sign(stop - start) * k * step
Leg(start, stop, step) ==
    [k \in 1..Steps(start, stop, step) + 1 |-> LegPoint(start, stop, step, k - 1)]

\* How far a leg's points are from its start: what all the rest follows from.
LegMoves(start, stop, step, n, s, a) ==
    /\ n \in Nat /\ s \in {-1, 1} /\ a \in Nat /\ s * a = stop - start
    /\ n = Steps(start, stop, step) /\ s = Sign(stop - start) /\ a = Abs(stop - start)
    /\ a <= n * step /\ (a = 0 <=> start = stop) /\ (n = 0 <=> a = 0)
    /\ \A k \in 0..n : k < n => k * step < a
\* Any leg is one.
LEMMA LegMovesHolds ==
    ASSUME NEW start \in Int, NEW stop \in Int, NEW step \in Nat \ {0}
    PROVE  LegMoves(start, stop, step, Steps(start, stop, step), Sign(stop - start), Abs(stop - start))
<1> DEFINE D == stop - start
           n == Steps(start, stop, step)
           s == Sign(D)
           a == Abs(D)
<1>1. D \in Int /\ (D = 0 <=> start = stop)
  OBVIOUS
<1> HIDE DEF D
<1>2. a \in Nat /\ s \in {-1, 1} /\ s * a = D /\ (a = 0 <=> D = 0)
  BY <1>1, Distance
<1>3. n = CeilDiv(a, step)
  BY DEF Steps, D
<1> HIDE DEF a, s, n
<1>4. n \in Nat /\ (n - 1) * step < a /\ a <= n * step
  BY <1>2, <1>3, CeilDivFacts
<1>5. n = 0 => a = 0
  BY <1>2, <1>4
<1>6. a = 0 => n = 0
  <2> SUFFICES ASSUME a = 0, n # 0 PROVE FALSE
    BY <1>4
  <2>1. n - 1 >= 0 /\ n - 1 \in Int
    BY <1>4
  <2>2. (n - 1) * step >= 0
    BY <2>1
  <2> QED BY <1>4, <2>1, <2>2
<1>7. ASSUME NEW k \in 0..n, k < n PROVE k * step < a
  <2>1. k <= n - 1 /\ k \in Int /\ n - 1 \in Int
    BY <1>4, <1>7
  <2>2. k * step <= (n - 1) * step
    BY <2>1, StepsUp
  <2>3. k * step \in Int /\ (n - 1) * step \in Int
    BY <2>1
  <2> QED BY <1>2, <1>4, <2>2, <2>3
<1>8. s * a = stop - start
  BY <1>2 DEF D
<1> QED BY <1>1, <1>2, <1>4, <1>5, <1>6, <1>7, <1>8 DEF LegMoves, D, s, a, n

\* forward_points: its whole steps are those of the leg.
LEMMA ForwardIsLeg ==
    ASSUME NEW start \in Int, NEW stop \in Int, NEW step \in Nat \ {0}
    PROVE  ForwardPoints(start, stop, step) = Leg(start, stop, step)
<1> DEFINE n == Steps(start, stop, step)
           s == Sign(stop - start)
           a == Abs(stop - start)
           next(x) == IF Abs(stop - x) <= step THEN stop ELSE x + s * step
           D(f) == [k \in 0..n |-> IF k = 0 THEN start ELSE next(f[k - 1])]
           P == CHOOSE f : f = D(f)
           q(k) == LegPoint(start, stop, step, k)
           Q == [k \in 0..n |-> q(k)]
<1>1. ForwardPoints(start, stop, step) = [k \in 1..n + 1 |-> P[k - 1]]
  BY DEF ForwardPoints, Steps
<1>2. LegMoves(start, stop, step, n, s, a)
  BY LegMovesHolds
<1>3. /\ n \in Nat /\ s \in {-1, 1} /\ a \in Nat /\ s * a = stop - start /\ n = Steps(start, stop, step)
      /\ s = Sign(stop - start) /\ a <= n * step /\ (a = 0 <=> start = stop) /\ (n = 0 <=> a = 0)
      /\ \A k \in 0..n : k < n => k * step < a
  BY <1>2 DEF LegMoves
<1>4. \A k : q(k) = IF k = n THEN stop ELSE start + s * k * step
  BY DEF LegPoint
<1> HIDE DEF n, s, a, q
<1>5. q(0) = start
  BY <1>3, <1>4
<1>6. ASSUME NEW k \in 1..n PROVE next(q(k - 1)) = q(k)
  <2>1. k - 1 \in 0..n /\ k - 1 # n /\ k \in Int
    BY <1>3
  <2>2. q(k - 1) = start + s * (k - 1) * step
    BY <1>4, <2>1
  <2> DEFINE e == a - (k - 1) * step
  <2>3. (k - 1) * step = k * step - step /\ k * step \in Int
    BY <2>1, StepsUp
  <2>4. (k - 1) * step < a
    BY <1>3, <2>1
  <2>5. e \in Nat
    BY <1>3, <2>3, <2>4
  <2>6. stop - q(k - 1) = s * e
    <3>1. s * (a - (k - 1) * step) = s * a - s * (k - 1) * step
      BY <1>3, <2>1
    <3> QED BY <1>3, <2>1, <2>2, <3>1
  <2>7. Abs(s * e) = e
    <3> HIDE DEF e
    <3> QED BY <1>3, <2>5 DEF Abs
  <2>8. CASE k = n
    <3>1. e <= step
      BY <1>3, <2>3, <2>8
    <3> QED BY <1>4, <2>6, <2>7, <2>8, <3>1
  <2>9. CASE k # n
    <3>1. k * step < a
      BY <1>3, <2>9
    <3>2. ~(e <= step)
      BY <1>3, <2>3, <3>1
    <3>3. q(k) = start + s * k * step
      BY <1>4, <2>9
    <3>4. s * k * step = s * (k - 1) * step + s * step
      BY <1>3, <2>1
    <3>5. s * (k - 1) * step \in Int /\ s * step \in Int /\ s * k * step \in Int
      BY <1>3, <2>1
    <3>6. q(k) = q(k - 1) + s * step
      BY <2>2, <3>3, <3>4, <3>5
    <3> QED BY <2>6, <2>7, <3>2, <3>6
  <2> QED BY <2>8, <2>9
<1> HIDE DEF next
<1>7. Q = D(Q)
  <2>1. ASSUME NEW k \in 0..n PROVE q(k) = IF k = 0 THEN start ELSE next(Q[k - 1])
    <3>1. CASE k = 0
      BY <1>5, <3>1
    <3>2. CASE k # 0
      <4>1. k \in 1..n /\ k - 1 \in 0..n /\ k > 0
        BY <1>3, <3>2
      <4>2. Q[k - 1] = q(k - 1)
        BY <4>1
      <4> HIDE DEF Q
      <4> QED BY <1>6, <3>2, <4>1, <4>2
    <3> QED BY <3>1, <3>2
  <2> QED BY <2>1
<1>8. P = D(P)
  <2> HIDE DEF Q, D
  <2> QED BY <1>7
<1> HIDE DEF P
<1>9. P[0] = start /\ \A k \in 1..n : P[k] = next(P[k - 1])
  BY <1>3, <1>8
<1>10. \A k \in 0..n : P[k] = q(k)
  <2> DEFINE G == {k \in 0..n : P[k] = q(k)}
  <2>1. 0 \in G
    BY <1>3, <1>5, <1>9
  <2>2. ASSUME NEW k \in 0..n, k \in G, k < n PROVE k + 1 \in G
    <3>1. k + 1 \in 1..n /\ (k + 1) - 1 = k /\ P[k] = q(k)
      BY <1>3, <2>2
    <3>2. next(q(k)) = q(k + 1)
      BY <1>6, <3>1
    <3>3. P[k + 1] = next(P[k])
      BY <1>9, <3>1
    <3> QED BY <3>1, <3>2, <3>3
  <2>3. \A k \in 0..n : k \in G
    <3> HIDE DEF G
    <3> QED BY <1>3, <2>1, <2>2, InductTo
  <2> QED BY <2>3
<1>11. Leg(start, stop, step) = [k \in 1..n + 1 |-> q(k - 1)]
  BY DEF Leg, n, q
<1>12. \A k \in 1..n + 1 : P[k - 1] = q(k - 1)
  BY <1>3, <1>10
<1> QED BY <1>1, <1>11, <1>12

\* A change of direction at the point before this one.
Bend(p, i) == Sign(p[i] - p[i - 1]) # Sign(p[i - 1] - p[i - 2])
BendsOnlyAt(p, ends) == \A i \in 3..Len(p) : Bend(p, i) => p[i - 1] \in ends
\* No two points in a row are equal, or further apart than a step.
Paced(p, step) == \A i \in 2..Len(p) : Abs(p[i] - p[i - 1]) \in 1..step
Within(p, x, y) == \A i \in 1..Len(p) : Lesser(x, y) <= p[i] /\ p[i] <= Greater(x, y)
AllOn(p, grid) == \A i \in 1..Len(p) : p[i] % grid = 0
FromTo(p, x, y) == p \in Seq(Int) /\ Len(p) \in Nat \ {0} /\ p[1] = x /\ p[Len(p)] = y

\* Whole steps from a multiple of the grid to another one.
LEMMA GridSteps ==
    ASSUME NEW x \in Int, NEW k \in Int, NEW d \in Int, NEW grid \in Nat \ {0},
           x % grid = 0, d % grid = 0
    PROVE  (x + k * d) % grid = 0
<1>1. PICK p \in Int : x = p * grid
  BY Whole
<1>2. PICK q \in Int : d = q * grid
  BY Whole
<1>3. x + k * d = (p + k * q) * grid
  <2>1. k * (q * grid) = (k * q) * grid /\ (p + k * q) * grid = p * grid + (k * q) * grid
    BY <1>1, <1>2
  <2> QED BY <1>1, <1>2, <2>1
<1>4. p + k * q \in Int
  BY <1>1, <1>2
<1> QED BY <1>3, <1>4, Multiple

\* What a leg is: from its start to its stop, in one direction.
LEMMA LegFacts ==
    ASSUME NEW start \in Int, NEW stop \in Int, NEW step \in Nat \ {0}
    PROVE  LET p == Leg(start, stop, step)
           IN  /\ FromTo(p, start, stop) /\ Paced(p, step) /\ Within(p, start, stop)
               /\ BendsOnlyAt(p, {})
               /\ \A grid \in Nat \ {0} :
                     start % grid = 0 /\ stop % grid = 0 /\ step % grid = 0 => AllOn(p, grid)
<1> DEFINE n == Steps(start, stop, step)
           s == Sign(stop - start)
           a == Abs(stop - start)
           q(k) == LegPoint(start, stop, step, k)
           p == Leg(start, stop, step)
<1>2. LegMoves(start, stop, step, n, s, a)
  BY LegMovesHolds
<1>3. /\ n \in Nat /\ s \in {-1, 1} /\ a \in Nat /\ s * a = stop - start
      /\ a <= n * step /\ (a = 0 <=> start = stop) /\ (n = 0 <=> a = 0)
      /\ \A k \in 0..n : k < n => k * step < a
  BY <1>2 DEF LegMoves
<1>4. \A k : q(k) = IF k = n THEN stop ELSE start + s * k * step
  BY DEF LegPoint
<1>5. p = [k \in 1..n + 1 |-> q(k - 1)]
  BY DEF Leg
<1> HIDE DEF n, s, a, q, p
\* Each point is some way towards the stop.
<1> DEFINE far(k) == IF k = n THEN a ELSE k * step
<1>6. ASSUME NEW k \in 0..n PROVE q(k) = start + s * far(k) /\ far(k) \in 0..a
  <2>1. CASE k = n
    BY <1>3, <1>4, <2>1
  <2>2. CASE k # n
    <3>1. k * step \in Nat /\ k * step < a /\ s * k * step = s * (k * step)
      BY <1>3, <2>2
    <3> QED BY <1>3, <1>4, <2>2, <3>1
  <2> QED BY <2>1, <2>2
<1>7. ASSUME NEW k \in 1..n PROVE far(k) - far(k - 1) \in 1..step
  <2>1. k - 1 # n /\ k - 1 \in 0..n /\ k \in Int /\ far(k - 1) = (k - 1) * step
    BY <1>3
  <2>2. (k - 1) * step = k * step - step /\ k * step \in Int
    BY <2>1, StepsUp
  <2>3. CASE k = n
    <3>1. (k - 1) * step < a
      BY <1>3, <2>1
    <3> QED BY <1>3, <2>1, <2>2, <2>3, <3>1
  <2>4. CASE k # n
    BY <2>1, <2>2, <2>4
  <2> QED BY <2>3, <2>4
<1> HIDE DEF far
<1>8. \A k \in 0..n : q(k) \in Int /\ Lesser(start, stop) <= q(k) /\ q(k) <= Greater(start, stop)
  BY <1>3, <1>6 DEF Lesser, Greater
<1>9. q(0) = start /\ q(n) = stop
  <2>1. s * 0 * step = 0
    BY <1>3
  <2> QED BY <1>3, <1>4, <2>1
<1>10. p \in Seq(Int) /\ Len(p) = n + 1 /\ \A k \in 1..n + 1 : p[k] = q(k - 1)
  <2>1. \A k \in 1..n + 1 : q(k - 1) \in Int
    BY <1>3, <1>8
  <2> QED BY <1>3, <1>5, <2>1
<1>11. FromTo(p, start, stop)
  BY <1>3, <1>9, <1>10 DEF FromTo
<1>12. ASSUME NEW i \in 2..Len(p)
       PROVE  \E e \in 1..step : p[i] - p[i - 1] = s * e
  <2>1. i - 1 \in 1..n /\ i \in Int /\ (i - 1) - 1 \in 0..n /\ i - 1 \in 0..n
    BY <1>3, <1>10
  <2>2. p[i] = q(i - 1) /\ p[i - 1] = q((i - 1) - 1)
    BY <1>3, <1>10, <2>1
  <2>3. q(i - 1) = start + s * far(i - 1) /\ far(i - 1) \in Int
    BY <1>6, <2>1
  <2>4. q((i - 1) - 1) = start + s * far((i - 1) - 1) /\ far((i - 1) - 1) \in Int
    BY <1>6, <2>1
  <2>5. far(i - 1) - far((i - 1) - 1) \in 1..step
    BY <1>7, <2>1
  <2> DEFINE e == far(i - 1) - far((i - 1) - 1)
  <2>6. p[i] - p[i - 1] = s * e
    BY <1>3, <2>2, <2>3, <2>4
  <2> QED BY <2>5, <2>6
<1>13. Paced(p, step)
  <2> SUFFICES ASSUME NEW i \in 2..Len(p) PROVE Abs(p[i] - p[i - 1]) \in 1..step
    BY DEF Paced
  <2>1. PICK e \in 1..step : p[i] - p[i - 1] = s * e
    BY <1>12
  <2> QED BY <1>3, <2>1 DEF Abs
<1>14. Within(p, start, stop)
  <2> SUFFICES ASSUME NEW i \in 1..Len(p)
               PROVE  Lesser(start, stop) <= p[i] /\ p[i] <= Greater(start, stop)
    BY DEF Within
  <2>1. i - 1 \in 0..n /\ p[i] = q(i - 1)
    BY <1>3, <1>10
  <2> QED BY <1>8, <2>1
<1>15. BendsOnlyAt(p, {})
  <2> SUFFICES ASSUME NEW i \in 3..Len(p) PROVE ~Bend(p, i)
    BY DEF BendsOnlyAt
  <2>0. i \in 2..Len(p) /\ i - 1 \in 2..Len(p) /\ (i - 1) - 1 = i - 2
    BY <1>3, <1>10
  <2>1. PICK e \in 1..step : p[i] - p[i - 1] = s * e
    BY <1>12, <2>0
  <2>2. PICK f \in 1..step : p[i - 1] - p[i - 2] = s * f
    <3>1. \E f \in 1..step : p[i - 1] - p[(i - 1) - 1] = s * f
      BY <1>12, <2>0
    <3> QED BY <2>0, <3>1
  <2>3. Sign(s * e) = s /\ Sign(s * f) = s
    BY <1>3 DEF Sign
  <2> QED BY <2>1, <2>2, <2>3 DEF Bend
<1>16. ASSUME NEW grid \in Nat \ {0}, start % grid = 0, stop % grid = 0, step % grid = 0
       PROVE  AllOn(p, grid)
  <2> SUFFICES ASSUME NEW i \in 1..Len(p) PROVE p[i] % grid = 0
    BY DEF AllOn
  <2>1. i - 1 \in 0..n /\ p[i] = q(i - 1) /\ i - 1 \in Int
    BY <1>3, <1>10
  <2>2. CASE i - 1 = n
    BY <1>4, <1>16, <2>1, <2>2
  <2>3. CASE i - 1 # n
    <3>1. q(i - 1) = start + (s * (i - 1)) * step
      BY <1>4, <2>3
    <3>2. s * (i - 1) \in Int
      BY <1>3, <2>1
    <3>3. (start + (s * (i - 1)) * step) % grid = 0
      BY <1>16, <3>2, GridSteps
    <3> QED BY <2>1, <3>1, <3>3
  <2> QED BY <2>2, <2>3
<1> QED BY <1>11, <1>13, <1>14, <1>15, <1>16 DEF p

-----------------------------------------------------------------------------
(* Legs that are joined *)

\* append_joined, of a second leg that starts where the first one ended.
Joined(p, A, B) ==
    /\ p \in Seq(Int) /\ Len(p) = Len(A) + Len(B) - 1
    /\ \A i \in 1..Len(A) : p[i] = A[i]
    /\ \A i \in Len(A)..Len(p) : p[i] = B[i - Len(A) + 1]
\* append_joined makes one, where the second segment starts at the end of the first.
LEMMA JoinedFacts ==
    ASSUME NEW A, NEW B, NEW x, NEW y, NEW z, FromTo(A, x, y), FromTo(B, y, z)
    PROVE  Joined(AppendJoined(A, B), A, B) /\ FromTo(AppendJoined(A, B), x, z)
<1> DEFINE p == AppendJoined(A, B)
           a == Len(A)
           b == Len(B)
<1>1. A \in Seq(Int) /\ B \in Seq(Int) /\ a \in Nat \ {0} /\ b \in Nat \ {0}
      /\ A[1] = x /\ A[a] = y /\ B[1] = y /\ B[b] = z
  BY DEF FromTo
<1>2. A # <<>> /\ B # <<>> /\ Head(B) = B[1]
  BY <1>1
<1>3. p = A \o Tail(B)
  BY <1>1, <1>2 DEF AppendJoined
<1>4. Tail(B) \in Seq(Int) /\ Len(Tail(B)) = b - 1 /\ \A i \in 1..b - 1 : Tail(B)[i] = B[i + 1]
  BY <1>1, <1>2
<1> HIDE DEF p
<1>5. p \in Seq(Int) /\ Len(p) = a + (b - 1)
  BY <1>1, <1>3, <1>4
<1>6. \A i \in 1..a : p[i] = A[i]
  BY <1>1, <1>3, <1>4
<1>7. \A i \in a + 1..a + (b - 1) : p[i] = Tail(B)[i - a]
  BY <1>1, <1>3, <1>4
<1>8. ASSUME NEW i \in a..Len(p) PROVE p[i] = B[i - a + 1]
  <2>1. i \in Int /\ i <= a + (b - 1) /\ a <= i
    BY <1>1, <1>5
  <2>2. CASE i = a
    <3>1. p[a] = A[a] /\ i - a + 1 = 1
      BY <1>1, <1>6, <2>2
    <3> QED BY <1>1, <2>2, <3>1
  <2>3. CASE i # a
    <3>1. i \in a + 1..a + (b - 1) /\ i - a \in 1..b - 1
      BY <1>1, <2>1, <2>3
    <3>2. p[i] = Tail(B)[i - a]
      BY <1>7, <3>1
    <3>3. Tail(B)[i - a] = B[(i - a) + 1]
      BY <1>4, <3>1
    <3> QED BY <3>2, <3>3
  <2> QED BY <2>2, <2>3
<1>9. Joined(p, A, B)
  BY <1>1, <1>5, <1>6, <1>8 DEF Joined
<1>10. FromTo(p, x, z)
  <2>1. Len(p) \in Nat \ {0} /\ Len(p) \in a..Len(p) /\ Len(p) - a + 1 = b /\ 1 \in 1..a
    BY <1>1, <1>5
  <2>2. p[Len(p)] = B[b]
    BY <1>8, <2>1
  <2>3. p[1] = A[1]
    BY <1>6, <2>1
  <2> QED BY <1>1, <1>5, <2>1, <2>2, <2>3 DEF FromTo
<1> QED BY <1>9, <1>10 DEF p

\* The second part starts where the first one ended.
Meet(A, B) ==
    A \in Seq(Int) /\ B \in Seq(Int) /\ Len(A) \in Nat \ {0} /\ Len(B) \in Nat \ {0} /\ A[Len(A)] = B[1]

\* A point and the one before it are both of the first part, or both of the second.
LEMMA JoinedPairs ==
    ASSUME NEW p, NEW A, NEW B, Joined(p, A, B), Meet(A, B), NEW i \in 2..Len(p)
    PROVE  \/ i \in 2..Len(A) /\ p[i] = A[i] /\ p[i - 1] = A[i - 1]
           \/ LET j == i - Len(A) + 1
              IN  /\ i > Len(A) /\ j \in 2..Len(B) /\ p[i] = B[j] /\ p[i - 1] = B[j - 1]
<1> DEFINE a == Len(A)
           b == Len(B)
           m == Len(p)
<1>1. a \in Nat \ {0} /\ b \in Nat \ {0} /\ m = a + b - 1 /\ i \in Int /\ 2 <= i /\ i <= m
      /\ (\A k \in 1..a : p[k] = A[k]) /\ (\A k \in a..m : p[k] = B[k - a + 1])
  <2>1. /\ p \in Seq(Int) /\ m = a + b - 1
        /\ (\A k \in 1..a : p[k] = A[k]) /\ (\A k \in a..m : p[k] = B[k - a + 1])
    BY DEF Joined
  <2>2. a \in Nat \ {0} /\ b \in Nat \ {0}
    BY DEF Meet
  <2>3. m \in Nat
    BY <2>1
  <2> HIDE DEF a, b
  <2>4. i \in Int /\ 2 <= i /\ i <= m
    BY <2>3
  <2> QED BY <2>1, <2>2, <2>4
<1> HIDE DEF a, b, m
<1>2. CASE i <= a
  <2>1. i \in 1..a /\ i - 1 \in 1..a
    BY <1>1, <1>2
  <2>2. p[i] = A[i] /\ p[i - 1] = A[i - 1]
    BY <1>1, <2>1
  <2> QED BY <1>1, <1>2, <2>2 DEF a
<1>3. CASE i > a
  <2>1. i \in a..m /\ i - 1 \in a..m /\ (i - 1) - a + 1 = (i - a + 1) - 1 /\ i - a + 1 \in 2..b
    BY <1>1, <1>3
  <2>2. p[i] = B[i - a + 1] /\ p[i - 1] = B[(i - 1) - a + 1]
    BY <1>1, <2>1
  <2> QED BY <1>3, <2>1, <2>2 DEF a, b
<1> QED BY <1>1, <1>2, <1>3

\* Each point is one of the first or of the second part, and each of theirs is one.
LEMMA JoinedPoints ==
    ASSUME NEW p, NEW A, NEW B, Joined(p, A, B), Meet(A, B)
    PROVE  /\ \A i \in 1..Len(p) : (\E k \in 1..Len(A) : p[i] = A[k]) \/ (\E k \in 1..Len(B) : p[i] = B[k])
           /\ \A k \in 1..Len(A) : k \in 1..Len(p) /\ p[k] = A[k]
           /\ \A k \in 1..Len(B) : k + Len(A) - 1 \in 1..Len(p) /\ p[k + Len(A) - 1] = B[k]
<1> DEFINE a == Len(A)
           b == Len(B)
           m == Len(p)
<1>1. a \in Nat \ {0} /\ b \in Nat \ {0} /\ m = a + b - 1
      /\ (\A k \in 1..a : p[k] = A[k]) /\ (\A k \in a..m : p[k] = B[k - a + 1])
  <2>1. /\ m = a + b - 1
        /\ (\A k \in 1..a : p[k] = A[k]) /\ (\A k \in a..m : p[k] = B[k - a + 1])
    BY DEF Joined
  <2>2. a \in Nat \ {0} /\ b \in Nat \ {0}
    BY DEF Meet
  <2> QED BY <2>1, <2>2
<1> HIDE DEF a, b, m
<1>2. ASSUME NEW i \in 1..m PROVE (\E k \in 1..a : p[i] = A[k]) \/ (\E k \in 1..b : p[i] = B[k])
  <2>1. CASE i <= a
    BY <1>1, <2>1
  <2>2. CASE i > a
    <3>1. i \in a..m /\ i - a + 1 \in 1..b
      BY <1>1, <2>2
    <3> QED BY <1>1, <3>1
  <2> QED BY <1>1, <2>1, <2>2
<1>3. ASSUME NEW k \in 1..b PROVE k + a - 1 \in 1..m /\ p[k + a - 1] = B[k]
  <2>1. k + a - 1 \in a..m /\ (k + a - 1) - a + 1 = k /\ k + a - 1 \in 1..m
    BY <1>1
  <2> QED BY <1>1, <2>1
<1>4. ASSUME NEW k \in 1..a PROVE k \in 1..m /\ p[k] = A[k]
  BY <1>1
<1> QED BY <1>2, <1>3, <1>4 DEF a, b, m

\* The joint is the only place where directions may change that did not before.
LEMMA JoinedBends ==
    ASSUME NEW p, NEW A, NEW B, Joined(p, A, B), Meet(A, B), NEW i \in 3..Len(p), Bend(p, i)
    PROVE  \/ i \in 3..Len(A) /\ Bend(A, i) /\ p[i - 1] = A[i - 1]
           \/ i = Len(A) + 1 /\ p[i - 1] = A[Len(A)]
           \/ LET j == i - Len(A) + 1
              IN  /\ i > Len(A) + 1 /\ j \in 3..Len(B) /\ Bend(B, j) /\ p[i - 1] = B[j - 1]
<1> DEFINE a == Len(A)
           b == Len(B)
           m == Len(p)
<1>0. a \in Nat \ {0} /\ b \in Nat \ {0} /\ m = a + b - 1
  BY DEF Joined, Meet
<1>1. (\A k \in 1..a : p[k] = A[k]) /\ (\A k \in a..m : p[k] = B[k - a + 1])
  BY DEF Joined
<1> HIDE DEF a, b, m
<1>5. i \in Int /\ 3 <= i /\ i <= m
  BY <1>0 DEF m
<1>2. CASE i <= a
  <2>1. i \in 1..a /\ i - 1 \in 1..a /\ i - 2 \in 1..a
    BY <1>0, <1>5, <1>2
  <2>2. p[i] = A[i] /\ p[i - 1] = A[i - 1] /\ p[i - 2] = A[i - 2]
    BY <1>1, <2>1
  <2>3. Bend(A, i)
    BY <2>2 DEF Bend
  <2> QED BY <1>0, <1>5, <1>2, <2>2, <2>3 DEF a
<1>3. CASE i = a + 1
  <2>1. i - 1 = a /\ a \in 1..a
    BY <1>0, <1>5, <1>3
  <2>2. p[a] = A[a]
    BY <1>1, <2>1
  <2> QED BY <1>3, <2>1, <2>2 DEF a
<1>4. CASE i > a + 1
  <2> DEFINE j == i - a + 1
  <2>1. i \in a..m /\ i - 1 \in a..m /\ i - 2 \in a..m /\ (i - 1) - a + 1 = j - 1
        /\ (i - 2) - a + 1 = j - 2 /\ j \in 3..b
    BY <1>0, <1>4, <1>5
  <2>2. p[i] = B[j] /\ p[i - 1] = B[j - 1] /\ p[i - 2] = B[j - 2]
    BY <1>1, <2>1
  <2>3. Bend(B, j)
    BY <2>2 DEF Bend
  <2> QED BY <1>4, <2>1, <2>2, <2>3 DEF a, b
<1> QED BY <1>0, <1>5, <1>2, <1>3, <1>4

\* What is true of both parts is true of the whole.
LEMMA JoinedWhole ==
    ASSUME NEW p, NEW A, NEW B, Joined(p, A, B), Meet(A, B)
    PROVE  /\ \A step : Paced(A, step) /\ Paced(B, step) => Paced(p, step)
           /\ \A x, y : Within(A, x, y) /\ Within(B, x, y) => Within(p, x, y)
           /\ \A grid : AllOn(A, grid) /\ AllOn(B, grid) => AllOn(p, grid)
           /\ \A ends : BendsOnlyAt(A, ends) /\ BendsOnlyAt(B, ends) /\ B[1] \in ends => BendsOnlyAt(p, ends)
<1>1. ASSUME NEW step, Paced(A, step), Paced(B, step) PROVE Paced(p, step)
  <2> SUFFICES ASSUME NEW i \in 2..Len(p) PROVE Abs(p[i] - p[i - 1]) \in 1..step
    BY DEF Paced
  <2> DEFINE j == i - Len(A) + 1
  <2>1. \/ i \in 2..Len(A) /\ p[i] = A[i] /\ p[i - 1] = A[i - 1]
        \/ j \in 2..Len(B) /\ p[i] = B[j] /\ p[i - 1] = B[j - 1]
    BY JoinedPairs
  <2> HIDE DEF j
  <2>2. CASE i \in 2..Len(A) /\ p[i] = A[i] /\ p[i - 1] = A[i - 1]
    BY <1>1, <2>2 DEF Paced
  <2>3. CASE j \in 2..Len(B) /\ p[i] = B[j] /\ p[i - 1] = B[j - 1]
    BY <1>1, <2>3 DEF Paced
  <2> QED BY <2>1, <2>2, <2>3
<1>2. ASSUME NEW x, NEW y, Within(A, x, y), Within(B, x, y) PROVE Within(p, x, y)
  <2> SUFFICES ASSUME NEW i \in 1..Len(p) PROVE Lesser(x, y) <= p[i] /\ p[i] <= Greater(x, y)
    BY DEF Within
  <2>1. (\E k \in 1..Len(A) : p[i] = A[k]) \/ (\E k \in 1..Len(B) : p[i] = B[k])
    BY JoinedPoints
  <2> QED BY <1>2, <2>1 DEF Within
<1>3. ASSUME NEW grid, AllOn(A, grid), AllOn(B, grid) PROVE AllOn(p, grid)
  <2> SUFFICES ASSUME NEW i \in 1..Len(p) PROVE p[i] % grid = 0
    BY DEF AllOn
  <2>1. (\E k \in 1..Len(A) : p[i] = A[k]) \/ (\E k \in 1..Len(B) : p[i] = B[k])
    BY JoinedPoints
  <2> QED BY <1>3, <2>1 DEF AllOn
<1>4. ASSUME NEW ends, BendsOnlyAt(A, ends), BendsOnlyAt(B, ends), B[1] \in ends PROVE BendsOnlyAt(p, ends)
  <2> SUFFICES ASSUME NEW i \in 3..Len(p), Bend(p, i) PROVE p[i - 1] \in ends
    BY DEF BendsOnlyAt
  <2> DEFINE j == i - Len(A) + 1
  <2>0. A[Len(A)] = B[1]
    BY DEF Meet
  <2>1. \/ i \in 3..Len(A) /\ Bend(A, i) /\ p[i - 1] = A[i - 1]
        \/ i = Len(A) + 1 /\ p[i - 1] = A[Len(A)]
        \/ j \in 3..Len(B) /\ Bend(B, j) /\ p[i - 1] = B[j - 1]
    BY JoinedBends
  <2> HIDE DEF j
  <2>2. CASE i \in 3..Len(A) /\ Bend(A, i) /\ p[i - 1] = A[i - 1]
    BY <1>4, <2>2 DEF BendsOnlyAt
  <2>3. CASE p[i - 1] = A[Len(A)]
    BY <1>4, <2>0, <2>3
  <2>4. CASE j \in 3..Len(B) /\ Bend(B, j) /\ p[i - 1] = B[j - 1]
    BY <1>4, <2>4 DEF BendsOnlyAt
  <2> QED BY <2>1, <2>2, <2>3, <2>4
<1> QED BY <1>1, <1>2, <1>3, <1>4

-----------------------------------------------------------------------------
(* The points of a sweep *)

\* Two legs, of which the second starts where the first ended.
Tour(p, x, y, step, ends) ==
    Paced(p, step) /\ Within(p, x, y) /\ BendsOnlyAt(p, ends)
    /\ \A grid \in Nat \ {0} : x % grid = 0 /\ y % grid = 0 /\ step % grid = 0 => AllOn(p, grid)
Visits(p, x) == \E i \in 1..Len(p) : p[i] = x

\* Two legs that meet at one of the ends make a tour.
LEMMA JoinedTour ==
    ASSUME NEW A, NEW B, NEW x, NEW y, NEW u, NEW v, NEW w, NEW step, NEW ends,
           FromTo(A, u, v), FromTo(B, v, w), Tour(A, x, y, step, ends), Tour(B, x, y, step, ends),
           v \in ends
    PROVE  LET p == AppendJoined(A, B)
           IN  /\ FromTo(p, u, w) /\ Tour(p, x, y, step, ends)
               /\ Joined(p, A, B) /\ Meet(A, B) /\ Visits(p, v)
<1> DEFINE p == AppendJoined(A, B)
<1>1. Joined(p, A, B) /\ FromTo(p, u, w)
  BY JoinedFacts
<1> HIDE DEF p
<1>2. Meet(A, B) /\ B[1] = v
  BY DEF FromTo, Meet
<1>3. Paced(p, step) /\ Within(p, x, y) /\ BendsOnlyAt(p, ends)
  BY <1>1, <1>2, JoinedWhole DEF Tour
<1>4. ASSUME NEW grid \in Nat \ {0}, x % grid = 0, y % grid = 0, step % grid = 0 PROVE AllOn(p, grid)
  <2>1. AllOn(A, grid) /\ AllOn(B, grid)
    BY <1>4 DEF Tour
  <2> QED BY <1>1, <1>2, <2>1, JoinedWhole
<1>5. Visits(p, v)
  <2>1. Len(A) \in 1..Len(A) /\ A[Len(A)] = v
    BY DEF FromTo
  <2>2. Len(A) \in 1..Len(p) /\ p[Len(A)] = A[Len(A)]
    BY <1>1, <1>2, <2>1, JoinedPoints
  <2> QED BY <2>1, <2>2 DEF Visits
<1> QED BY <1>1, <1>2, <1>3, <1>4, <1>5 DEF Tour, p

\* A leg between two levels that are both between the ends of a sweep.
LEMMA LegTour ==
    ASSUME NEW u \in Int, NEW v \in Int, NEW x \in Int, NEW y \in Int, NEW step \in Nat \ {0}, NEW ends,
           u = 0 \/ u = x \/ u = y, v = 0 \/ v = x \/ v = y,
           u = 0 \/ v = 0 => Lesser(x, y) <= 0 /\ 0 <= Greater(x, y)
    PROVE  FromTo(Leg(u, v, step), u, v) /\ Tour(Leg(u, v, step), x, y, step, ends)
           /\ BendsOnlyAt(Leg(u, v, step), {})
<1> DEFINE p == Leg(u, v, step)
<1>1. /\ FromTo(p, u, v) /\ Paced(p, step) /\ Within(p, u, v) /\ BendsOnlyAt(p, {})
      /\ \A grid \in Nat \ {0} : u % grid = 0 /\ v % grid = 0 /\ step % grid = 0 => AllOn(p, grid)
  BY LegFacts
<1> HIDE DEF p
<1>2. Lesser(x, y) <= Lesser(u, v) /\ Greater(u, v) <= Greater(x, y)
  BY DEF Lesser, Greater
<1>3. Within(p, x, y)
  <2> SUFFICES ASSUME NEW i \in 1..Len(p) PROVE Lesser(x, y) <= p[i] /\ p[i] <= Greater(x, y)
    BY DEF Within
  <2>1. p[i] \in Int /\ Lesser(u, v) <= p[i] /\ p[i] <= Greater(u, v)
    BY <1>1 DEF FromTo, Within
  <2>2. Lesser(x, y) \in Int /\ Lesser(u, v) \in Int /\ Greater(x, y) \in Int /\ Greater(u, v) \in Int
    BY DEF Lesser, Greater
  <2> QED BY <1>2, <2>1, <2>2
<1>4. BendsOnlyAt(p, ends)
  BY <1>1 DEF BendsOnlyAt
<1>5. ASSUME NEW grid \in Nat \ {0}, x % grid = 0, y % grid = 0, step % grid = 0 PROVE AllOn(p, grid)
  <2>1. 0 % grid = 0
    OBVIOUS
  <2> QED BY <1>1, <1>5, <2>1
<1> QED BY <1>1, <1>3, <1>4, <1>5 DEF Tour, p

\* What the points of each pattern are like.
BaseLike(p, c, step) ==
    /\ p \in Seq(Int) /\ Len(p) \in Nat \ {0}
    /\ c.pattern = "CustomList" => p = c.custom
    /\ c.pattern # "CustomList" =>
         Tour(p, c.start, c.stop, step, {c.start, c.stop}) /\ Visits(p, c.start) /\ Visits(p, c.stop)
    /\ c.pattern = "Linear" => BendsOnlyAt(p, {})
    /\ c.pattern = "RoundTrip" => \E m \in Int : \A i \in 3..Len(p) : Bend(p, i) => i = m
    /\ c.pattern \in {"RoundTrip", "ZeroCentered"} => p[Len(p)] = p[1]
\* base_points makes them.
LEMMA BaseFacts ==
    ASSUME NEW c \in Configurations, NEW step \in Nat \ {0}, PatternAllowed(c)
    PROVE  BaseLike(BasePoints(c, step), c, step)
<1> DEFINE p == BasePoints(c, step)
           x == c.start
           y == c.stop
           E == {x, y}
<1>0. x \in Int /\ y \in Int /\ c.custom \in Seq(Int)
      /\ c.pattern \in {"Linear", "RoundTrip", "ZeroCentered", "CustomList"}
  BY DEF Configurations
<1>1. CASE c.pattern = "CustomList"
  <2>1. p = c.custom /\ c.custom # <<>>
    BY <1>1 DEF BasePoints, PatternAllowed
  <2>2. Len(c.custom) \in Nat \ {0}
    BY <1>0, <2>1
  <2> QED BY <1>0, <1>1, <2>1, <2>2 DEF BaseLike
<1>2. CASE c.pattern = "Linear"
  <2>1. p = Leg(x, y, step)
    BY <1>0, <1>2, ForwardIsLeg DEF BasePoints
  <2> HIDE DEF x, y
  <2>2. FromTo(p, x, y) /\ Tour(p, x, y, step, E) /\ BendsOnlyAt(p, {})
    <3>1. x = 0 \/ y = 0 => Lesser(x, y) <= 0 /\ 0 <= Greater(x, y)
      BY <1>0 DEF Lesser, Greater
    <3> QED BY <1>0, <2>1, <3>1, LegTour
  <2> HIDE DEF p
  <2>3. p \in Seq(Int) /\ Len(p) \in Nat \ {0} /\ Visits(p, x) /\ Visits(p, y)
    BY <2>2 DEF FromTo, Visits
  <2> QED BY <1>2, <2>2, <2>3 DEF BaseLike, x, y, p
<1>3. CASE c.pattern = "RoundTrip"
  <2> DEFINE A == Leg(x, y, step)
             B == Leg(y, x, step)
  <2>1. p = AppendJoined(A, B)
    BY <1>0, <1>3, ForwardIsLeg DEF BasePoints
  <2> HIDE DEF x, y, p
  <2>2. x = 0 \/ y = 0 => Lesser(x, y) <= 0 /\ 0 <= Greater(x, y)
    BY <1>0 DEF Lesser, Greater
  <2>3. FromTo(A, x, y) /\ Tour(A, x, y, step, E) /\ BendsOnlyAt(A, {})
    BY <1>0, <2>2, LegTour
  <2>4. FromTo(B, y, x) /\ Tour(B, x, y, step, E) /\ BendsOnlyAt(B, {})
    BY <1>0, <2>2, LegTour
  <2> HIDE DEF A, B
  <2>5. y \in E
    OBVIOUS
  <2> HIDE DEF E
  <2>6. FromTo(p, x, x) /\ Tour(p, x, y, step, E) /\ Joined(p, A, B) /\ Meet(A, B) /\ Visits(p, y)
    BY <2>1, <2>3, <2>4, <2>5, JoinedTour
  <2>7. p \in Seq(Int) /\ Len(p) \in Nat \ {0} /\ Visits(p, x) /\ p[Len(p)] = p[1]
    BY <2>6 DEF FromTo, Visits
  <2>8. \A i \in 3..Len(p) : Bend(p, i) => i = Len(A) + 1
    <3> SUFFICES ASSUME NEW i \in 3..Len(p), Bend(p, i) PROVE i = Len(A) + 1
      OBVIOUS
    <3> DEFINE j == i - Len(A) + 1
    <3>1. \/ i \in 3..Len(A) /\ Bend(A, i)
          \/ i = Len(A) + 1
          \/ j \in 3..Len(B) /\ Bend(B, j)
      BY <2>6, JoinedBends
    <3> HIDE DEF j
    <3> QED BY <2>3, <2>4, <3>1 DEF BendsOnlyAt
  <2>9. Len(A) + 1 \in Int
    BY <2>3 DEF FromTo
  <2>10. \E m \in Int : \A i \in 3..Len(p) : Bend(p, i) => i = m
    BY <2>8, <2>9
  <2> QED BY <1>3, <2>6, <2>7, <2>10 DEF BaseLike, E, x, y, p
<1>4. CASE c.pattern = "ZeroCentered"
  <2> DEFINE A == Leg(0, y, step)
             B == Leg(y, x, step)
             C == Leg(x, 0, step)
             AB == AppendJoined(A, B)
  <2>0. ForwardPoints(0, y, step) = A /\ ForwardPoints(y, x, step) = B /\ ForwardPoints(x, 0, step) = C
    BY <1>0, ForwardIsLeg
  <2>1. p = AppendJoined(AB, C)
    <3> HIDE DEF A, B, C
    <3> QED BY <1>4, <2>0 DEF BasePoints
  <2>2. Lesser(x, y) <= 0 /\ 0 <= Greater(x, y)
    <3>1. Lesser(x, y) <= 0 /\ Greater(x, y) >= 0
      BY <1>4 DEF PatternAllowed
    <3> QED BY <1>0, <3>1 DEF Greater
  <2> HIDE DEF x, y, p
  <2>3. FromTo(A, 0, y) /\ Tour(A, x, y, step, E)
    BY <1>0, <2>2, LegTour
  <2>4. FromTo(B, y, x) /\ Tour(B, x, y, step, E)
    BY <1>0, <2>2, LegTour
  <2>5. FromTo(C, x, 0) /\ Tour(C, x, y, step, E)
    BY <1>0, <2>2, LegTour
  <2>6. x \in E /\ y \in E
    OBVIOUS
  <2> HIDE DEF A, B, C, E
  <2>7. FromTo(AB, 0, x) /\ Tour(AB, x, y, step, E) /\ Visits(AB, y) /\ Joined(AB, A, B) /\ Meet(A, B)
    BY <2>3, <2>4, <2>6, JoinedTour
  <2> HIDE DEF AB
  <2>8. FromTo(p, 0, 0) /\ Tour(p, x, y, step, E) /\ Visits(p, x) /\ Joined(p, AB, C) /\ Meet(AB, C)
    BY <2>1, <2>5, <2>6, <2>7, JoinedTour
  <2>9. Visits(p, y)
    <3>1. PICK k \in 1..Len(AB) : AB[k] = y
      BY <2>7 DEF Visits
    <3>2. k \in 1..Len(p) /\ p[k] = AB[k]
      BY <2>8, JoinedPoints
    <3> QED BY <3>1, <3>2 DEF Visits
  <2>10. p \in Seq(Int) /\ Len(p) \in Nat \ {0} /\ p[Len(p)] = p[1]
    BY <2>8 DEF FromTo
  <2> QED BY <1>4, <2>8, <2>9, <2>10 DEF BaseLike, E, x, y, p
<1> QED BY <1>0, <1>1, <1>2, <1>3, <1>4

-----------------------------------------------------------------------------
(* The share of every point *)

\* Each level of q is the given part of the same level of p.
Scales(q, p, total, part) ==
    Len(q) = Len(p) /\ \A i \in 1..Len(p) : q[i] * total = p[i] * part

\* A positive factor on both sides.
LEMMA Cancel ==
    ASSUME NEW x \in Int, NEW y \in Int, NEW d \in Nat \ {0}
    PROVE  (x * d <= y * d => x <= y) /\ (x * d = y * d => x = y)
<1>1. (x < y => x * d < y * d) /\ (y < x => y * d < x * d)
  BY StepsUp
<1>2. x * d \in Int /\ y * d \in Int
  OBVIOUS
<1> QED BY <1>1, <1>2

\* The magnitude of a product.
LEMMA AbsTimes ==
    ASSUME NEW x \in Int, NEW y \in Int
    PROVE  Abs(x * y) = Abs(x) * Abs(y)
<1> DEFINE p == Abs(x)
           q == Abs(y)
<1>1. p \in Nat /\ q \in Nat /\ (x = p \/ x = -p) /\ (y = q \/ y = -q)
  BY DEF Abs
<1> HIDE DEF p, q
<1>2. p * q \in Nat
  BY <1>1
<1>3. x * y = p * q \/ x * y = -(p * q)
  BY <1>1
<1>4. Abs(p * q) = p * q /\ Abs(-(p * q)) = p * q
  <2> DEFINE z == p * q
  <2>1. z \in Nat
    BY <1>2
  <2> HIDE DEF z
  <2>2. Abs(z) = z /\ Abs(-z) = z
    BY <2>1 DEF Abs
  <2> QED BY <2>2 DEF z
<1> QED BY <1>3, <1>4 DEF p, q

\* A leg between the shares has as many steps, each a share of one.
LEMMA ScaledLeg ==
    ASSUME NEW u \in Int, NEW v \in Int, NEW d \in Nat \ {0},
           NEW start \in Int, NEW stop \in Int, NEW step \in Nat \ {0},
           NEW total \in Nat \ {0}, NEW part \in Int \ {0},
           u * total = start * part, v * total = stop * part, d * total = step * Abs(part)
    PROVE  Scales(Leg(u, v, d), Leg(start, stop, step), total, part)
<1> DEFINE n == Steps(start, stop, step)
           s == Sign(stop - start)
           a == Abs(stop - start)
           m == Steps(u, v, d)
           r == Sign(v - u)
           b == Abs(v - u)
           z == Abs(part)
<1>1. LegMoves(start, stop, step, n, s, a) /\ LegMoves(u, v, d, m, r, b)
  BY LegMovesHolds
<1>2. /\ n \in Nat /\ s \in {-1, 1} /\ a \in Nat /\ s * a = stop - start /\ a <= n * step
      /\ (n = 0 <=> a = 0) /\ \A k \in 0..n : k < n => k * step < a
  BY <1>1 DEF LegMoves
<1>3. /\ m \in Nat /\ r \in {-1, 1} /\ b \in Nat /\ r * b = v - u /\ b <= m * d
      /\ (m = 0 <=> b = 0) /\ \A k \in 0..m : k < m => k * d < b
  BY <1>1 DEF LegMoves
<1>4. z \in Nat \ {0}
  BY DEF Abs
<1>5. b * total = a * z
  <2>1. (v - u) * total = (stop - start) * part
    <3>1. (v - u) * total = v * total - u * total /\ (stop - start) * part = stop * part - start * part
      OBVIOUS
    <3> QED BY <3>1
  <2>2. Abs((v - u) * total) = b * Abs(total) /\ Abs((stop - start) * part) = a * z
    <3>1. v - u \in Int /\ stop - start \in Int /\ total \in Int
      OBVIOUS
    <3> QED BY <3>1, AbsTimes
  <2>3. Abs(total) = total
    BY DEF Abs
  <2> QED BY <2>1, <2>2, <2>3
<1>6. d * total = step * z
  OBVIOUS
<1>7. Leg(u, v, d) = [k \in 1..m + 1 |-> LegPoint(u, v, d, k - 1)]
  BY DEF Leg
<1>8. Leg(start, stop, step) = [k \in 1..n + 1 |-> LegPoint(start, stop, step, k - 1)]
  BY DEF Leg
<1>9. \A k : LegPoint(u, v, d, k) = IF k = m THEN v ELSE u + r * k * d
  BY DEF LegPoint
<1>10. \A k : LegPoint(start, stop, step, k) = IF k = n THEN stop ELSE start + s * k * step
  BY DEF LegPoint
<1>11. (v - u) * total = (stop - start) * part
  <2>1. (v - u) * total = v * total - u * total /\ (stop - start) * part = stop * part - start * part
    OBVIOUS
  <2> QED BY <2>1
<1>12. r * (b * total) = s * (a * part)
  <2>1. r * (b * total) = (r * b) * total /\ s * (a * part) = (s * a) * part
    BY <1>2, <1>3
  <2> QED BY <1>2, <1>3, <1>11, <2>1
<1> HIDE DEF n, s, a, m, r, b, z
<1>13. m <= n
  <2>1. CASE m = 0
    BY <1>2, <2>1
  <2>2. CASE m # 0
    <3>1. m - 1 \in 0..m /\ (m - 1) * d < b /\ m - 1 \in Int
      BY <1>3, <2>2
    <3>2. a * z <= (n * step) * z
      BY <1>2, <1>4, StepsUp
    <3>3. (n * step) * z = (n * d) * total
      <4>1. (n * step) * z = n * (step * z) /\ (n * d) * total = n * (d * total)
        BY <1>2, <1>4
      <4> QED BY <1>6, <4>1
    <3>4. b * total <= (n * d) * total
      BY <1>5, <3>2, <3>3
    <3>5. n * d \in Int /\ (m - 1) * d \in Int
      BY <1>2, <3>1
    <3>6. b <= n * d
      BY <1>3, <3>4, <3>5, Cancel
    <3>7. (m - 1) * d < n * d
      BY <1>3, <3>1, <3>5, <3>6
    <3>8. ~(n <= m - 1)
      <4>1. n <= m - 1 => n * d <= (m - 1) * d
        BY <1>2, <3>1, StepsUp
      <4> QED BY <3>5, <3>7, <4>1
    <3> QED BY <1>2, <1>3, <3>8
  <2> QED BY <2>1, <2>2
<1>14. n <= m
  <2>1. CASE n = 0
    BY <1>3, <2>1
  <2>2. CASE n # 0
    <3>1. n - 1 \in 0..n /\ (n - 1) * step < a /\ n - 1 \in Int
      BY <1>2, <2>2
    <3>2. b * total <= (m * d) * total
      BY <1>3, StepsUp
    <3>3. (m * d) * total = (m * step) * z
      <4>1. (m * step) * z = m * (step * z) /\ (m * d) * total = m * (d * total)
        BY <1>3, <1>4
      <4> QED BY <1>6, <4>1
    <3>4. a * z <= (m * step) * z
      BY <1>5, <3>2, <3>3
    <3>5. m * step \in Int /\ (n - 1) * step \in Int
      BY <1>3, <3>1
    <3>6. a <= m * step
      BY <1>2, <1>4, <3>4, <3>5, Cancel
    <3>7. (n - 1) * step < m * step
      BY <1>2, <3>1, <3>5, <3>6
    <3>8. ~(m <= n - 1)
      <4>1. m <= n - 1 => m * step <= (n - 1) * step
        BY <1>3, <3>1, StepsUp
      <4> QED BY <3>5, <3>7, <4>1
    <3> QED BY <1>2, <1>3, <3>8
  <2> QED BY <2>1, <2>2
<1>15. m = n
  BY <1>2, <1>3, <1>13, <1>14
<1>16. Len(Leg(u, v, d)) = n + 1 /\ Len(Leg(start, stop, step)) = n + 1
  BY <1>2, <1>7, <1>8, <1>15
<1>17. ASSUME NEW k \in 0..n
       PROVE  LegPoint(u, v, d, k) * total = LegPoint(start, stop, step, k) * part
  <2>1. CASE k = n
    BY <1>9, <1>10, <1>15, <2>1
  <2>2. CASE k # n
    <3>1. LegPoint(u, v, d, k) = u + r * k * d /\ LegPoint(start, stop, step, k) = start + s * k * step
      BY <1>9, <1>10, <1>15, <2>2
    <3>2. a # 0 /\ k \in Int
      BY <1>2, <2>2
    <3>3. r * z = s * part
      <4>1. (r * z) * a = (s * part) * a
        <5>1. (r * z) * a = r * (a * z) /\ (s * part) * a = s * (a * part)
          BY <1>2, <1>3, <1>4
        <5> QED BY <1>5, <1>12, <5>1
      <4>2. r * z \in Int /\ s * part \in Int /\ a \in Nat \ {0}
        BY <1>2, <1>3, <1>4, <3>2
      <4> QED BY <4>1, <4>2, Cancel
    <3>4. (u + r * k * d) * total = u * total + (r * k) * (d * total)
      BY <1>3, <3>2
    <3>5. (r * k) * (step * z) = (k * step) * (r * z)
      BY <1>3, <1>4, <3>2
    <3>6. (k * step) * (s * part) = (s * k * step) * part
      BY <1>2, <3>2
    <3>7. (start + s * k * step) * part = start * part + (s * k * step) * part
      BY <1>2, <3>2
    <3> QED BY <1>6, <3>1, <3>3, <3>4, <3>5, <3>6, <3>7
  <2> QED BY <2>1, <2>2
<1>18. ASSUME NEW i \in 1..n + 1
       PROVE  Leg(u, v, d)[i] * total = Leg(start, stop, step)[i] * part
  <2>1. i - 1 \in 0..n
    BY <1>2
  <2>2. Leg(u, v, d)[i] = LegPoint(u, v, d, i - 1) /\ Leg(start, stop, step)[i] = LegPoint(start, stop, step, i - 1)
    BY <1>7, <1>8, <1>15
  <2> QED BY <1>17, <2>1, <2>2
<1> QED BY <1>16, <1>18 DEF Scales

\* The shares of two joined legs, joined.
LEMMA ScaledJoined ==
    ASSUME NEW A, NEW B, NEW C, NEW D, NEW x, NEW y, NEW z, NEW u, NEW v, NEW w,
           FromTo(A, x, y), FromTo(B, y, z), FromTo(C, u, v), FromTo(D, v, w),
           NEW total, NEW part, Scales(C, A, total, part), Scales(D, B, total, part)
    PROVE  Scales(AppendJoined(C, D), AppendJoined(A, B), total, part)
<1> DEFINE p == AppendJoined(A, B)
           q == AppendJoined(C, D)
           a == Len(A)
<1>1. Joined(p, A, B) /\ Joined(q, C, D)
  BY JoinedFacts
<1> HIDE DEF p, q
<1>2. Len(C) = a /\ Len(D) = Len(B)
  BY DEF Scales
<1>3. Len(q) = Len(p)
  BY <1>1, <1>2 DEF Joined
<1>4. a \in Nat \ {0} /\ Len(B) \in Nat \ {0} /\ Len(p) = a + Len(B) - 1
  BY <1>1 DEF FromTo, Joined
<1>5. ASSUME NEW i \in 1..Len(p) PROVE q[i] * total = p[i] * part
  <2>1. CASE i <= a
    <3>1. i \in 1..a
      BY <1>4, <2>1
    <3>2. p[i] = A[i] /\ q[i] = C[i]
      BY <1>1, <1>2, <3>1 DEF Joined
    <3> QED BY <3>1, <3>2 DEF Scales
  <2>2. CASE i > a
    <3> DEFINE j == i - a + 1
    <3>1. i \in a..Len(p) /\ j \in 1..Len(B)
      BY <1>4, <2>2
    <3>2. p[i] = B[j]
      BY <1>1, <3>1 DEF Joined
    <3>3. q[i] = D[j]
      BY <1>1, <1>2, <1>3, <3>1 DEF Joined
    <3> HIDE DEF j
    <3> QED BY <3>1, <3>2, <3>3 DEF Scales
  <2> QED BY <1>4, <2>1, <2>2
<1> QED BY <1>3, <1>5 DEF Scales, p, q

\* A configuration whose levels are the given part of another one's.
ShareLike(e, d, c, step, total, part) ==
    /\ e.pattern = c.pattern
    /\ e.start * total = c.start * part /\ e.stop * total = c.stop * part
    /\ d * total = step * Abs(part)
    /\ Scales(e.custom, c.custom, total, part)
\* The points of a share are the shares of the points.
LEMMA ScaledBase ==
    ASSUME NEW c \in Configurations, NEW e \in Configurations, NEW step \in Nat \ {0}, NEW d \in Nat \ {0},
           NEW total \in Nat \ {0}, NEW part \in Int \ {0}, ShareLike(e, d, c, step, total, part)
    PROVE  Scales(BasePoints(e, d), BasePoints(c, step), total, part)
<1> DEFINE p == BasePoints(c, step)
           q == BasePoints(e, d)
           x == c.start
           y == c.stop
           u == e.start
           v == e.stop
<1>0. x \in Int /\ y \in Int /\ u \in Int /\ v \in Int
      /\ c.pattern \in {"Linear", "RoundTrip", "ZeroCentered", "CustomList"}
  BY DEF Configurations
<1>1. e.pattern = c.pattern /\ u * total = x * part /\ v * total = y * part
      /\ d * total = step * Abs(part) /\ 0 * total = 0 * part
  BY DEF ShareLike
<1>2. CASE c.pattern = "CustomList"
  <2>1. p = c.custom /\ q = e.custom
    BY <1>1, <1>2 DEF BasePoints
  <2> QED BY <2>1 DEF ShareLike
<1>3. CASE c.pattern = "Linear"
  <2>1. p = Leg(x, y, step) /\ q = Leg(u, v, d)
    BY <1>0, <1>1, <1>3, ForwardIsLeg DEF BasePoints
  <2> HIDE DEF p, q, x, y, u, v
  <2>2. Scales(Leg(u, v, d), Leg(x, y, step), total, part)
    BY <1>0, <1>1, ScaledLeg
  <2> QED BY <2>1, <2>2 DEF p, q
<1>4. CASE c.pattern = "RoundTrip"
  <2> DEFINE A == Leg(x, y, step)
             B == Leg(y, x, step)
             C == Leg(u, v, d)
             D == Leg(v, u, d)
  <2>0. ForwardPoints(x, y, step) = A /\ ForwardPoints(y, x, step) = B
        /\ ForwardPoints(u, v, d) = C /\ ForwardPoints(v, u, d) = D
    BY <1>0, ForwardIsLeg
  <2>1. p = AppendJoined(A, B) /\ q = AppendJoined(C, D)
    <3> HIDE DEF A, B, C, D
    <3> QED BY <1>1, <1>4, <2>0 DEF BasePoints
  <2> HIDE DEF p, q, x, y, u, v
  <2>2. FromTo(A, x, y) /\ FromTo(B, y, x) /\ FromTo(C, u, v) /\ FromTo(D, v, u)
    BY <1>0, LegFacts
  <2>3. Scales(C, A, total, part) /\ Scales(D, B, total, part)
    BY <1>0, <1>1, ScaledLeg
  <2> HIDE DEF A, B, C, D
  <2>4. Scales(AppendJoined(C, D), AppendJoined(A, B), total, part)
    BY <2>2, <2>3, ScaledJoined
  <2> QED BY <2>1, <2>4 DEF p, q
<1>5. CASE c.pattern = "ZeroCentered"
  <2> DEFINE A == Leg(0, y, step)
             B == Leg(y, x, step)
             C == Leg(x, 0, step)
             D == Leg(0, v, d)
             E == Leg(v, u, d)
             F == Leg(u, 0, d)
             AB == AppendJoined(A, B)
             DE == AppendJoined(D, E)
  <2>0. ForwardPoints(0, y, step) = A /\ ForwardPoints(y, x, step) = B /\ ForwardPoints(x, 0, step) = C
        /\ ForwardPoints(0, v, d) = D /\ ForwardPoints(v, u, d) = E /\ ForwardPoints(u, 0, d) = F
    BY <1>0, ForwardIsLeg
  <2>1. p = AppendJoined(AB, C) /\ q = AppendJoined(DE, F)
    <3> HIDE DEF A, B, C, D, E, F
    <3> QED BY <1>1, <1>5, <2>0 DEF BasePoints
  <2> HIDE DEF p, q, x, y, u, v
  <2>2. /\ FromTo(A, 0, y) /\ FromTo(B, y, x) /\ FromTo(C, x, 0)
        /\ FromTo(D, 0, v) /\ FromTo(E, v, u) /\ FromTo(F, u, 0)
    BY <1>0, LegFacts
  <2>3. Scales(D, A, total, part) /\ Scales(E, B, total, part) /\ Scales(F, C, total, part)
    <3> DEFINE o == 0
    <3>1. o \in Int /\ o * total = o * part
      OBVIOUS
    <3> HIDE DEF o
    <3>2. Scales(Leg(o, v, d), Leg(o, y, step), total, part)
      BY <1>0, <1>1, <3>1, ScaledLeg
    <3>3. Scales(Leg(v, u, d), Leg(y, x, step), total, part)
      BY <1>0, <1>1, ScaledLeg
    <3>4. Scales(Leg(u, o, d), Leg(x, o, step), total, part)
      BY <1>0, <1>1, <3>1, ScaledLeg
    <3> QED BY <3>2, <3>3, <3>4 DEF o
  <2> HIDE DEF A, B, C, D, E, F
  <2>4. FromTo(AB, 0, x) /\ FromTo(DE, 0, u)
    BY <2>2, JoinedFacts
  <2>5. Scales(DE, AB, total, part)
    BY <2>2, <2>3, ScaledJoined
  <2> HIDE DEF AB, DE
  <2>6. Scales(AppendJoined(DE, F), AppendJoined(AB, C), total, part)
    BY <2>2, <2>3, <2>4, <2>5, ScaledJoined
  <2> QED BY <2>1, <2>6 DEF p, q
<1> QED BY <1>0, <1>2, <1>3, <1>4, <1>5

-----------------------------------------------------------------------------
(* Directions *)

\* sweep_points: the labels, given by the changes of level.
Change(p, i) ==
    IF i > 1 THEN p[i] - p[i - 1] ELSE IF Len(p) > 1 THEN p[2] - p[1] ELSE 0
Way2(d) == IF d < 0 THEN "backward" ELSE "forward"
\* The recursion of the labels has a solution, which is them.
LEMMA DirectionsAre ==
    ASSUME NEW p \in Seq(Int)
    PROVE  \A i \in 1..Len(p) :
              Directions(p)[i] = IF Change(p, i) = 0 /\ i > 1 THEN Directions(p)[i - 1]
                                 ELSE Way2(Change(p, i))
<1> DEFINE n == Len(p)
           next(i, l) == IF Change(p, i) = 0 /\ i > 1 THEN l ELSE Way2(Change(p, i))
           D(f) == [i \in 1..n |-> next(i, f[i - 1])]
           L == CHOOSE f : f = D(f)
<1>1. Directions(p) = L
  BY DEF Directions, Change, Way2
<1>2. n \in Nat
  OBVIOUS
<1> HIDE DEF next
<1> DEFINE G == {m \in Nat : m <= n => \E f : f = [i \in 1..m |-> next(i, f[i - 1])]}
<1>3. 0 \in G
  <2> DEFINE f == [i \in 1..0 |-> "none"]
  <2>1. f = [i \in 1..0 |-> next(i, f[i - 1])]
    OBVIOUS
  <2> HIDE DEF f
  <2> QED BY <2>1
<1>4. ASSUME NEW m \in G PROVE m + 1 \in G
  <2>1. m \in Nat /\ m + 1 \in Nat
    OBVIOUS
  <2> SUFFICES ASSUME m + 1 <= n PROVE \E f : f = [i \in 1..m + 1 |-> next(i, f[i - 1])]
    BY <2>1
  <2>2. PICK g : g = [i \in 1..m |-> next(i, g[i - 1])]
    BY <1>2, <2>1
  <2> DEFINE f == [i \in 1..m + 1 |-> next(i, g[i - 1])]
  <2>3. ASSUME NEW i \in 1..m + 1 PROVE next(i, g[i - 1]) = next(i, f[i - 1])
    <3>1. CASE i = 1
      BY <3>1 DEF next
    <3>2. CASE i # 1
      <4>1. i - 1 \in 1..m /\ i - 1 \in 1..m + 1
        BY <2>1, <3>2
      <4>2. f[i - 1] = next(i - 1, g[(i - 1) - 1])
        BY <4>1
      <4>3. g[i - 1] = next(i - 1, g[(i - 1) - 1])
        BY <2>2, <4>1
      <4> QED BY <4>2, <4>3
    <3> QED BY <3>1, <3>2
  <2>4. f = [i \in 1..m + 1 |-> next(i, f[i - 1])]
    BY <2>3
  <2> HIDE DEF f
  <2> QED BY <2>4
<1>5. G \in SUBSET Nat
  OBVIOUS
<1>6. n \in G
  <2> HIDE DEF G
  <2>1. \A m \in Nat : m \in G
    BY <1>3, <1>4, <1>5, Induct
  <2> QED BY <1>2, <2>1
<1>7. \E f : f = D(f)
  BY <1>2, <1>6
<1>8. L = D(L)
  <2> HIDE DEF D
  <2> QED BY <1>7
<1> HIDE DEF L
<1>9. \A i \in 1..n : L[i] = next(i, L[i - 1])
  BY <1>8
<1> QED BY <1>1, <1>9 DEF next

\* Where the points never stand still, a label changes only with the direction.
LEMMA TurnsBend ==
    ASSUME NEW p \in Seq(Int), NEW step, Paced(p, step),
           NEW i \in 2..Len(p), Directions(p)[i] # Directions(p)[i - 1]
    PROVE  i \in 3..Len(p) /\ Bend(p, i)
<1> DEFINE n == Len(p)
<1>1. n \in Nat /\ i \in Int /\ 2 <= i /\ i <= n
  OBVIOUS
<1>2. ASSUME NEW k \in 2..n PROVE Change(p, k) = p[k] - p[k - 1] /\ Change(p, k) \in Int /\ Change(p, k) # 0
                                /\ Directions(p)[k] = Way2(p[k] - p[k - 1])
  <2>1. k \in 1..n /\ k - 1 \in 1..n /\ k > 1
    BY <1>1
  <2>2. Change(p, k) = p[k] - p[k - 1] /\ p[k] \in Int /\ p[k - 1] \in Int
    BY <2>1 DEF Change
  <2>3. Abs(p[k] - p[k - 1]) # 0
    BY DEF Paced
  <2>4. p[k] - p[k - 1] # 0
    BY <2>2, <2>3 DEF Abs
  <2>5. Directions(p)[k] = Way2(Change(p, k))
    BY <2>1, <2>2, <2>4, DirectionsAre
  <2> QED BY <2>2, <2>4, <2>5
<1>3. i # 2
  <2> SUFFICES ASSUME i = 2 PROVE FALSE
    OBVIOUS
  <2>1. 1 \in 1..n /\ n > 1
    BY <1>1
  <2>2. Directions(p)[1] = Way2(Change(p, 1))
    BY <2>1, DirectionsAre
  <2>3. Change(p, 1) = p[2] - p[1]
    BY <2>1 DEF Change
  <2>4. Directions(p)[2] = Way2(p[2] - p[2 - 1])
    BY <1>2
  <2> QED BY <2>2, <2>3, <2>4
<1>4. i \in 3..n /\ i - 1 \in 2..n /\ (i - 1) - 1 = i - 2
  BY <1>1, <1>3
<1>5. Directions(p)[i] = Way2(p[i] - p[i - 1]) /\ Directions(p)[i - 1] = Way2(p[i - 1] - p[(i - 1) - 1])
  BY <1>2, <1>4
<1>6. Way2(p[i] - p[i - 1]) # Way2(p[i - 1] - p[i - 2])
  BY <1>4, <1>5
<1>7. Bend(p, i)
  BY <1>6 DEF Bend, Way2, Sign
<1> QED BY <1>4, <1>7

-----------------------------------------------------------------------------
(* One source *)

\* ceil_to_increment: the next multiple, which is less than an increment away.
LEMMA CeilFacts ==
    ASSUME NEW v \in Nat, NEW d \in Nat \ {0}
    PROVE  /\ Ceil(v, d) \in Nat /\ v <= Ceil(v, d) /\ Ceil(v, d) < v + d /\ Ceil(v, d) % d = 0
           /\ v % d = 0 => Ceil(v, d) = v
<1> DEFINE q == CeilDiv(v, d)
<1>1. q \in Nat /\ (q - 1) * d < v /\ v <= q * d
  BY CeilDivFacts
<1>2. Ceil(v, d) = q * d
  BY DEF Ceil
<1> HIDE DEF q
<1>3. (q - 1) * d = q * d - d /\ q * d \in Nat
  BY <1>1, StepsUp
<1>4. (q * d) % d = 0
  BY <1>1, Multiple
<1>5. ASSUME v % d = 0 PROVE q * d = v
  <2>0. v \in Int
    OBVIOUS
  <2>1. PICK k \in Int : v = k * d
    <3>1. v \div d \in Int /\ (v \div d) * d = v
      BY <1>5, <2>0, Whole
    <3> QED BY <3>1
  <2>2. k <= q
    BY <1>1, <2>1, Cancel
  <2>3. ~(k <= q - 1)
    <3>1. q - 1 \in Int
      BY <1>1
    <3>2. k <= q - 1 => k * d <= (q - 1) * d
      BY <3>1, StepsUp
    <3>3. (q - 1) * d \in Int /\ k * d \in Int
      BY <1>1, <2>1
    <3> QED BY <1>1, <2>1, <3>2, <3>3
  <2>4. k = q
    BY <1>1, <2>2, <2>3
  <2> QED BY <2>1, <2>4
<1> QED BY <1>1, <1>2, <1>3, <1>4, <1>5

\* The tables of a source.
LEMMA ModelFacts ==
    ASSUME NEW m \in DOMAIN Specs
    PROVE  /\ Specs[m].hard \in Nat /\ Specs[m].low \in Nat /\ Specs[m].high \in Nat
           /\ Specs[m].quantum \in Nat \ {0}
           /\ \A r \in Specs[m].ranges :
                 /\ r.maximum \in Nat \ {0} /\ r.nominal \in Nat /\ r.resolution \in Nat \ {0}
                 /\ r.fixed \in Nat /\ r.maximum % r.resolution = 0
<1>1. Specs[m] \in SourceModels /\ \A r \in Specs[m].ranges : r.maximum % r.resolution = 0
  BY PlanningAssumption DEF PlanningAssumption
<1>2. Specs[m].ranges \subseteq [maximum : Nat \ {0}, nominal : Nat, resolution : Nat \ {0}, fixed : Nat]
  BY <1>1 DEF SourceModels
<1> QED BY <1>1, <1>2 DEF SourceModels

\* select_range takes the smallest range that will do: there is one answer at most.
LEMMA OneRange ==
    ASSUME NEW m \in DOMAIN Specs, NEW v, NEW w, NEW protection,
           NEW r \in SelectRange(m, v, protection), NEW q \in SelectRange(m, w, protection), v = w
    PROVE  r = q
<1>1. r \in Specs[m].ranges /\ q \in Specs[m].ranges /\ r.maximum <= q.maximum /\ q.maximum <= r.maximum
  BY DEF SelectRange, Eligible
<1>2. r = q \/ r.maximum < q.maximum
  BY <1>1, PlanningAssumption DEF PlanningAssumption
<1>3. r.maximum \in Nat /\ q.maximum \in Nat
  BY <1>1, ModelFacts
<1> QED BY <1>1, <1>2, <1>3

\* What select_range promises of the range it selects.
LEMMA RangeFacts ==
    ASSUME NEW m \in DOMAIN Specs, NEW v, NEW protection, NEW r \in SelectRange(m, v, protection)
    PROVE  /\ r \in Specs[m].ranges /\ v <= r.maximum /\ protection <= Specs[m].high
           /\ protection # 0 => r.fixed <= HardwareLimit(m, protection)
BY DEF SelectRange, Eligible

\* The protection that can be set, and how far above the one asked for it is.
LEMMA HardwareFacts ==
    ASSUME NEW m \in DOMAIN Specs, NEW requested \in Int
    PROVE  LET l == HardwareLimit(m, requested)
           IN  /\ l \in Nat /\ l <= Specs[m].high
               /\ \/ l < requested + Specs[m].quantum
                  \/ l <= Ceil(Specs[m].low, Specs[m].quantum)
<1> DEFINE low == Specs[m].low
           high == Specs[m].high
           d == Specs[m].quantum
           g == Greater(requested, low)
           l == HardwareLimit(m, requested)
<1>1. low \in Nat /\ high \in Nat /\ d \in Nat \ {0}
  BY ModelFacts
<1>2. l = Lesser(Ceil(g, d), high)
  BY DEF HardwareLimit
<1> HIDE DEF low, high, d, l
<1>3. g \in Nat /\ (g = requested \/ g = low)
  BY <1>1 DEF Greater
<1> HIDE DEF g
<1>4. Ceil(g, d) \in Nat /\ Ceil(g, d) < g + d
  BY <1>1, <1>3, CeilFacts
<1>5. l \in Nat /\ l <= high /\ l <= Ceil(g, d)
  BY <1>1, <1>2, <1>4 DEF Lesser
<1>6. l < requested + d \/ l <= Ceil(low, d)
  <2>1. CASE g = requested
    BY <1>1, <1>4, <1>5, <2>1
  <2>2. CASE g = low
    BY <1>5, <2>2
  <2> QED BY <1>3, <2>1, <2>2
<1> QED BY <1>5, <1>6 DEF l, high, d, low

\* The fields that planning reads stay what they were.
LEMMA ConfigFacts ==
    ASSUME NEW c \in Configurations
    PROVE  /\ c.model \in DOMAIN Specs /\ c.model2 \in DOMAIN Specs /\ c.start \in Int /\ c.stop \in Int
           /\ c.step \in Nat /\ c.ramp \in Nat /\ c.limit \in Int /\ c.compliance \in Int
           /\ c.protection \in Int /\ c.protection2 \in Int /\ c.custom \in Seq(Int)
           /\ c.pattern \in {"Linear", "RoundTrip", "ZeroCentered", "CustomList"}
           /\ c.ratio \in (Nat \ {0}) \X (Nat \ {0})
BY DEF Configurations

\* prepare_config_single, for the range that was selected.
RampOf(c, r) ==
    Lesser(r.maximum, Greater(Ceil(c.step, r.resolution),
                              CeilDiv(r.nominal, RampShare * r.resolution) * r.resolution))
Prepared(c, r) == [c EXCEPT !.step = Ceil(c.step, r.resolution), !.ramp = RampOf(c, r)]
\* That is what it returns, if anything.
LEMMA PrepareFacts ==
    ASSUME NEW c \in Configurations, NEW p \in PrepareSingle(c)
    PROVE  \E r \in SelectRange(c.model, Largest(c), c.protection) : c.step > 0 /\ p = Prepared(c, r)
<1> DEFINE R == IF c.step > 0 THEN SelectRange(c.model, Largest(c), c.protection) ELSE {}
<1>1. PrepareSingle(c) = {Prepared(c, r) : r \in R}
  BY DEF PrepareSingle, Prepared, RampOf
<1> HIDE DEF R
<1>2. PICK r \in R : p = Prepared(c, r)
  BY <1>1
<1>3. c.step > 0 /\ r \in SelectRange(c.model, Largest(c), c.protection)
  BY <1>2 DEF R
<1> QED BY <1>2, <1>3

\* It changes the step and the ramp only.
LEMMA PreparedFacts ==
    ASSUME NEW c \in Configurations, NEW r
    PROVE  LET p == Prepared(c, r)
           IN  /\ p.model = c.model /\ p.start = c.start /\ p.stop = c.stop /\ p.custom = c.custom
               /\ p.pattern = c.pattern /\ p.protection = c.protection /\ p.compliance = c.compliance
               /\ p.limit = c.limit /\ p.step = Ceil(c.step, r.resolution) /\ p.ramp = RampOf(c, r)
               /\ Largest(p) = Largest(c) /\ PatternAllowed(p) = PatternAllowed(c)
               /\ \A step : BasePoints(p, step) = BasePoints(c, step)
               /\ \A q : LimitInForce(p, q) = LimitInForce(c, q)
<1> DEFINE p == Prepared(c, r)
<1>1. /\ p.model = c.model /\ p.start = c.start /\ p.stop = c.stop /\ p.custom = c.custom
      /\ p.pattern = c.pattern /\ p.protection = c.protection /\ p.compliance = c.compliance
      /\ p.limit = c.limit /\ p.step = Ceil(c.step, r.resolution) /\ p.ramp = RampOf(c, r)
  BY DEF Prepared, Configurations
<1> HIDE DEF p
<1>2. Largest(p) = Largest(c)
  BY <1>1 DEF Largest
<1>3. PatternAllowed(p) = PatternAllowed(c)
  BY <1>1 DEF PatternAllowed
<1>4. \A step : BasePoints(p, step) = BasePoints(c, step)
  BY <1>1 DEF BasePoints
<1>5. \A q : LimitInForce(p, q) = LimitInForce(c, q)
  BY <1>1 DEF LimitInForce
<1> QED BY <1>1, <1>2, <1>3, <1>4, <1>5 DEF p

\* What an accepted plan of one source is made of.
StepOf(c, r) == Ceil(c.step, r.resolution)
OnRange(c, r) ==
    IF c.pattern = "CustomList" THEN \A i \in 1..Len(c.custom) : Aligned(c.custom[i], r.resolution)
                                ELSE Aligned(c.start, r.resolution) /\ Aligned(c.stop, r.resolution)
SinglePlan(q, c, r) ==
    /\ r \in SelectRange(c.model, Largest(c), c.protection)
    /\ c.step > 0 /\ PatternAllowed(c) /\ c.compliance > 0
    /\ q.range = r /\ q.limit = LimitInForce(c, r)
    /\ q.points = BasePoints(c, StepOf(c, r)) /\ q.directions = Directions(q.points)
    /\ Len(q.points) <= MaxPoints
    /\ \A i \in 1..Len(q.points) : Abs(q.points[i]) <= Lesser(c.limit, Specs[c.model].hard)
    /\ OnRange(c, r)
\* plan_single returns such a plan or none.
LEMMA PlanFacts ==
    ASSUME NEW c \in Configurations, NEW q \in PlanSingle(c)
    PROVE  \E r \in Specs[c.model].ranges : SinglePlan(q, c, r)
<1> DEFINE OK(p, r) == /\ PatternAllowed(p)
                       /\ p.compliance > 0
                       /\ p.protection = 0 => p.compliance <= Specs[p.model].high
                       /\ Aligned(p.ramp, r.resolution)
                       /\ OnRange(p, r)
           R(p) == {r \in SelectRange(p.model, Largest(p), p.protection) : OK(p, r)}
<1>1. PlanSingle(c) = UNION {UNION {PlanOf(p, r) : r \in R(p)} : p \in PrepareSingle(c)}
  BY DEF PlanSingle, OnRange
<1> HIDE DEF R
<1>2. PICK p \in PrepareSingle(c) : q \in UNION {PlanOf(p, r) : r \in R(p)}
  BY <1>1
<1>3. PICK r \in R(p) : q \in PlanOf(p, r)
  BY <1>2
<1>4. PICK s \in SelectRange(c.model, Largest(c), c.protection) : c.step > 0 /\ p = Prepared(c, s)
  BY <1>2, PrepareFacts
<1>5. /\ p.model = c.model /\ p.start = c.start /\ p.stop = c.stop /\ p.custom = c.custom
      /\ p.pattern = c.pattern /\ p.protection = c.protection /\ p.compliance = c.compliance
      /\ p.limit = c.limit /\ p.step = Ceil(c.step, s.resolution)
      /\ Largest(p) = Largest(c) /\ PatternAllowed(p) = PatternAllowed(c)
      /\ \A step : BasePoints(p, step) = BasePoints(c, step)
      /\ \A x : LimitInForce(p, x) = LimitInForce(c, x)
  <2> HIDE DEF OK
  <2> QED BY <1>4, PreparedFacts
<1>6. r \in SelectRange(p.model, Largest(p), p.protection) /\ OK(p, r)
  BY <1>3 DEF R
<1>7. r \in SelectRange(c.model, Largest(c), c.protection)
  BY <1>5, <1>6
<1>8. c.model \in DOMAIN Specs
  BY ConfigFacts
<1>9. r = s
  BY <1>4, <1>7, <1>8, OneRange
<1>10. PatternAllowed(c) /\ c.compliance > 0 /\ OnRange(c, r)
  BY <1>5, <1>6 DEF OnRange
<1> HIDE DEF OK
<1> DEFINE pts == BasePoints(p, p.step)
           ok == /\ Len(pts) <= MaxPoints
                 /\ \A i \in 1..Len(pts) : Abs(pts[i]) <= Lesser(p.limit, Specs[p.model].hard)
           new == [points |-> pts, directions |-> Directions(pts), range |-> r,
                   limit |-> LimitInForce(p, r)]
<1>11. PlanOf(p, r) = {new : x \in {y \in {TRUE} : ok}}
  BY DEF PlanOf
<1>12. q = new /\ ok
  <2> HIDE DEF new, ok
  <2> QED BY <1>3, <1>11
<1>13. q.range = r /\ q.limit = LimitInForce(p, r) /\ q.points = pts /\ q.directions = Directions(q.points)
  <2> HIDE DEF pts
  <2> QED BY <1>12
<1>14. pts = BasePoints(c, StepOf(c, r))
  BY <1>5, <1>9 DEF StepOf
<1>15. Len(q.points) <= MaxPoints
       /\ \A i \in 1..Len(q.points) : Abs(q.points[i]) <= Lesser(c.limit, Specs[c.model].hard)
  <2> HIDE DEF pts
  <2> QED BY <1>5, <1>12, <1>13
<1>16. r \in Specs[c.model].ranges
  BY <1>7, <1>8, RangeFacts
<1>17. SinglePlan(q, c, r)
  <2> HIDE DEF pts, ok, new
  <2> QED BY <1>4, <1>5, <1>7, <1>10, <1>13, <1>14, <1>15 DEF SinglePlan
<1> QED BY <1>16, <1>17

\* The points of such a plan.
LEMMA SinglePoints ==
    ASSUME NEW c \in Configurations, NEW q, NEW r \in Specs[c.model].ranges, SinglePlan(q, c, r)
    PROVE  /\ StepOf(c, r) \in Nat \ {0} /\ StepOf(c, r) % r.resolution = 0
           /\ BaseLike(q.points, c, StepOf(c, r)) /\ AllOn(q.points, r.resolution)
           /\ Len(q.points) \in 1..MaxPoints
           /\ \A i \in 1..Len(q.points) : q.points[i] \in Int /\ Abs(q.points[i]) <= c.limit
<1> DEFINE d == r.resolution
           step == StepOf(c, r)
           p == q.points
<1>1. d \in Nat \ {0} /\ c.model \in DOMAIN Specs /\ Specs[c.model].hard \in Nat
  BY ConfigFacts, ModelFacts
<1>2. c.step \in Nat /\ c.step > 0 /\ PatternAllowed(c) /\ p = BasePoints(c, step) /\ OnRange(c, r)
  BY ConfigFacts DEF SinglePlan
<1>3. step = Ceil(c.step, d)
  BY DEF StepOf
<1> HIDE DEF step
<1>4. step \in Nat \ {0} /\ step % d = 0
  <2> DEFINE v == c.step
  <2>1. v \in Nat /\ v > 0
    BY <1>2
  <2> HIDE DEF d, v
  <2>2. Ceil(v, d) \in Nat /\ v <= Ceil(v, d) /\ Ceil(v, d) % d = 0
    BY <1>1, <2>1, CeilFacts
  <2>3. step = Ceil(v, d)
    BY <1>3 DEF v
  <2> QED BY <2>1, <2>2, <2>3
<1>5. BaseLike(p, c, step)
  <2> HIDE DEF p
  <2> QED BY <1>2, <1>4, BaseFacts
<1>6. AllOn(p, d)
  <2>1. CASE c.pattern = "CustomList"
    <3>1. p = c.custom /\ \A i \in 1..Len(c.custom) : c.custom[i] % d = 0
      BY <1>2, <1>5, <2>1 DEF BaseLike, OnRange, Aligned
    <3> QED BY <3>1 DEF AllOn
  <2>2. CASE c.pattern # "CustomList"
    <3>1. c.start % d = 0 /\ c.stop % d = 0
      BY <1>2, <2>2 DEF OnRange, Aligned
    <3>2. Tour(p, c.start, c.stop, step, {c.start, c.stop})
      BY <1>5, <2>2 DEF BaseLike
    <3> HIDE DEF d, p
    <3> QED BY <1>1, <1>4, <3>1, <3>2 DEF Tour
  <2> QED BY <2>1, <2>2
<1>7. p \in Seq(Int) /\ Len(p) \in Nat \ {0}
  BY <1>5 DEF BaseLike
<1>8. Len(p) <= MaxPoints /\ \A i \in 1..Len(p) : Abs(p[i]) <= Lesser(c.limit, Specs[c.model].hard)
  BY DEF SinglePlan
<1>9. Lesser(c.limit, Specs[c.model].hard) <= c.limit /\ c.limit \in Int
      /\ Lesser(c.limit, Specs[c.model].hard) \in Int
  <2>1. c.limit \in Int
    BY ConfigFacts
  <2> QED BY <1>1, <2>1 DEF Lesser
<1>10. MaxPoints \in Nat
  BY PlanningAssumption DEF PlanningAssumption
<1>11. Len(p) \in 1..MaxPoints
  BY <1>7, <1>8, <1>10
<1>12. ASSUME NEW i \in 1..Len(p) PROVE p[i] \in Int /\ Abs(p[i]) <= c.limit
  <2>1. p[i] \in Int
    BY <1>7
  <2>2. Abs(p[i]) \in Int
    BY <2>1 DEF Abs
  <2>3. Abs(p[i]) <= Lesser(c.limit, Specs[c.model].hard)
    BY <1>8
  <2> QED BY <1>9, <2>1, <2>2, <2>3
<1> QED BY <1>4, <1>5, <1>6, <1>11, <1>12 DEF step, p, d

-----------------------------------------------------------------------------
(* The planner's promises about the points *)

\* Where the directions of a plan change.
Turns(p) == {i \in 2..Len(p.points) : p.directions[i] # p.directions[i - 1]}
PointsKept(p, c, step) ==
    /\ c.pattern # "CustomList" =>
         /\ {c.start, c.stop} \subseteq {p.points[i] : i \in 1..Len(p.points)}
         /\ \A i \in 2..Len(p.points) : Abs(p.points[i] - p.points[i - 1]) \in 1..step
         /\ \A i \in 1..Len(p.points) :
              p.points[i] \in Lesser(c.start, c.stop)..Greater(c.start, c.stop)
    /\ c.pattern \in {"RoundTrip", "ZeroCentered"} => Last(p.points) = p.points[1]
    /\ c.pattern = "Linear" => Turns(p) = {}
    /\ c.pattern = "RoundTrip" => Cardinality(Turns(p)) <= 1
    /\ \A i \in Turns(p) : p.points[i - 1] \in {c.start, c.stop} \/ c.pattern = "CustomList"
\* They are kept by any points that are what their pattern makes.
LEMMA PointsAreKept ==
    ASSUME NEW c \in Configurations, NEW step, NEW p, p.directions = Directions(p.points),
           BaseLike(p.points, c, step)
    PROVE  PointsKept(p, c, step)
<1> DEFINE pts == p.points
           x == c.start
           y == c.stop
<1>1. x \in Int /\ y \in Int
  BY ConfigFacts
<1>2. pts \in Seq(Int) /\ Len(pts) \in Nat \ {0}
  BY DEF BaseLike
<1>3. c.pattern # "CustomList" =>
         Tour(pts, x, y, step, {x, y}) /\ Visits(pts, x) /\ Visits(pts, y)
  BY DEF BaseLike
<1>4. Turns(p) = {i \in 2..Len(pts) : Directions(pts)[i] # Directions(pts)[i - 1]}
  BY DEF Turns
<1>5. /\ c.pattern = "Linear" => BendsOnlyAt(pts, {})
      /\ c.pattern = "RoundTrip" => \E m \in Int : \A i \in 3..Len(pts) : Bend(pts, i) => i = m
      /\ c.pattern \in {"RoundTrip", "ZeroCentered"} => pts[Len(pts)] = pts[1]
  BY DEF BaseLike
<1> HIDE DEF pts, x, y
<1>6. ASSUME c.pattern # "CustomList", NEW i \in Turns(p) PROVE i \in 3..Len(pts) /\ Bend(pts, i)
  <2>1. Paced(pts, step)
    BY <1>3, <1>6 DEF Tour
  <2>2. i \in 2..Len(pts) /\ Directions(pts)[i] # Directions(pts)[i - 1]
    BY <1>4
  <2> QED BY <1>2, <2>1, <2>2, TurnsBend
<1>7. ASSUME c.pattern # "CustomList"
      PROVE  /\ {x, y} \subseteq {pts[i] : i \in 1..Len(pts)}
             /\ \A i \in 2..Len(pts) : Abs(pts[i] - pts[i - 1]) \in 1..step
             /\ \A i \in 1..Len(pts) : pts[i] \in Lesser(x, y)..Greater(x, y)
             /\ \A i \in Turns(p) : pts[i - 1] \in {x, y}
  <2>1. {x, y} \subseteq {pts[i] : i \in 1..Len(pts)}
    BY <1>3, <1>7 DEF Visits
  <2>2. \A i \in 2..Len(pts) : Abs(pts[i] - pts[i - 1]) \in 1..step
    BY <1>3, <1>7 DEF Tour, Paced
  <2>3. ASSUME NEW i \in 1..Len(pts) PROVE pts[i] \in Lesser(x, y)..Greater(x, y)
    <3>1. Lesser(x, y) <= pts[i] /\ pts[i] <= Greater(x, y)
      BY <1>3, <1>7 DEF Tour, Within
    <3>2. pts[i] \in Int /\ Lesser(x, y) \in Int /\ Greater(x, y) \in Int
      BY <1>1, <1>2 DEF Lesser, Greater
    <3> QED BY <3>1, <3>2
  <2>4. ASSUME NEW i \in Turns(p) PROVE pts[i - 1] \in {x, y}
    <3>1. i \in 3..Len(pts) /\ Bend(pts, i)
      BY <1>6, <1>7
    <3> QED BY <1>3, <1>7, <3>1 DEF Tour, BendsOnlyAt
  <2> QED BY <2>1, <2>2, <2>3, <2>4
<1>8. ASSUME c.pattern = "Linear" PROVE Turns(p) = {}
  <2> SUFFICES ASSUME NEW i \in Turns(p) PROVE FALSE
    OBVIOUS
  <2>1. i \in 3..Len(pts) /\ Bend(pts, i)
    BY <1>6, <1>8
  <2> QED BY <1>5, <1>8, <2>1 DEF BendsOnlyAt
<1>9. ASSUME c.pattern = "RoundTrip" PROVE Cardinality(Turns(p)) <= 1
  <2>1. PICK m \in Int : \A i \in 3..Len(pts) : Bend(pts, i) => i = m
    BY <1>5, <1>9
  <2>2. Turns(p) \subseteq {m}
    <3> SUFFICES ASSUME NEW i \in Turns(p) PROVE i = m
      OBVIOUS
    <3>1. i \in 3..Len(pts) /\ Bend(pts, i)
      BY <1>6, <1>9
    <3> QED BY <2>1, <3>1
  <2>3. IsFiniteSet({m}) /\ Cardinality({m}) = 1
    BY FS_Singleton
  <2>4. Cardinality(Turns(p)) <= Cardinality({m})
    BY <2>2, <2>3, FS_Subset
  <2> QED BY <2>3, <2>4
<1>10. Last(p.points) = pts[Len(pts)]
  BY DEF Last, pts
<1> QED BY <1>5, <1>7, <1>8, <1>9, <1>10 DEF PointsKept, pts, x, y

\* Any level of a configuration.
LevelsOf(c) ==
    IF c.pattern = "CustomList" THEN {0} \cup {c.custom[i] : i \in 1..Len(c.custom)} ELSE {c.start, c.stop}
\* The largest level is that of one of them, and no smaller than any.
LEMMA LargestIs ==
    ASSUME NEW c \in Configurations
    PROVE  /\ LevelsOf(c) \subseteq Int /\ Largest(c) \in Nat
           /\ \E v \in LevelsOf(c) : Abs(v) = Largest(c)
           /\ \A v \in LevelsOf(c) : Abs(v) <= Largest(c)
<1>1. c.start \in Int /\ c.stop \in Int /\ c.custom \in Seq(Int)
  BY ConfigFacts
<1>2. CASE c.pattern = "CustomList"
  <2> DEFINE n == Len(c.custom)
             V == {c.custom[i] : i \in 1..n}
             S == {0} \cup {Abs(c.custom[i]) : i \in 1..n}
  <2>1. Largest(c) = Max(S) /\ LevelsOf(c) = {0} \cup V
    BY <1>2 DEF Largest, LevelsOf
  <2>2. \A i \in 1..n : c.custom[i] \in Int /\ Abs(c.custom[i]) \in Nat
    BY <1>1 DEF Abs
  <2>3. PICK bound \in Nat : \A i \in 1..n : Abs(c.custom[i]) <= bound
    BY <1>1, Bounded
  <2>4. S \in SUBSET Nat /\ S # {} /\ \A z \in S : z <= bound
    <3>1. \A z \in S : z \in Nat /\ z <= bound
      BY <2>2, <2>3
    <3> QED BY <3>1
  <2>5. Max(S) \in S /\ \A z \in S : z <= Max(S)
    <3> HIDE DEF S
    <3> QED BY <2>4, MaxOf
  <2>6. Abs(0) = 0
    BY DEF Abs
  <2>7. \E v \in {0} \cup V : Abs(v) = Max(S)
    <3> DEFINE z == Max(S)
    <3>1. z \in S
      BY <2>5
    <3> HIDE DEF z
    <3>2. CASE z = 0
      BY <2>6, <3>2 DEF z
    <3>3. CASE z # 0
      <4>1. PICK i \in 1..n : z = Abs(c.custom[i])
        BY <3>1, <3>3
      <4> QED BY <4>1 DEF z
    <3> QED BY <3>2, <3>3
  <2>8. ASSUME NEW v \in {0} \cup V PROVE v \in Int /\ Abs(v) <= Max(S)
    <3>1. v \in Int /\ Abs(v) \in S
      BY <2>2, <2>6
    <3> HIDE DEF S
    <3> QED BY <2>5, <3>1
  <2>9. Max(S) \in Nat
    <3> HIDE DEF S
    <3> QED BY <2>4, <2>5
  <2> HIDE DEF S, V
  <2> QED BY <2>1, <2>7, <2>8, <2>9
<1>3. CASE c.pattern # "CustomList"
  <2> DEFINE x == c.start
             y == c.stop
  <2>1. Largest(c) = Greater(Abs(x), Abs(y)) /\ LevelsOf(c) = {x, y}
    BY <1>3 DEF Largest, LevelsOf
  <2>2. x \in Int /\ y \in Int /\ Abs(x) \in Nat /\ Abs(y) \in Nat
    BY <1>1 DEF Abs
  <2> HIDE DEF x, y
  <2>3. Greater(Abs(x), Abs(y)) \in {Abs(x), Abs(y)} /\ Abs(x) <= Greater(Abs(x), Abs(y))
        /\ Abs(y) <= Greater(Abs(x), Abs(y))
    BY <2>2 DEF Greater
  <2> QED BY <2>1, <2>2, <2>3
<1> QED BY <1>2, <1>3

\* No point of a sweep is beyond the largest level of its configuration.
LEMMA PointsInReach ==
    ASSUME NEW c \in Configurations, NEW step, NEW p, BaseLike(p, c, step)
    PROVE  \A i \in 1..Len(p) : p[i] \in Int /\ Abs(p[i]) <= Largest(c)
<1> SUFFICES ASSUME NEW i \in 1..Len(p) PROVE p[i] \in Int /\ Abs(p[i]) <= Largest(c)
  OBVIOUS
<1>1. p \in Seq(Int) /\ p[i] \in Int
  BY DEF BaseLike
<1>2. CASE c.pattern = "CustomList"
  <2>1. p[i] \in LevelsOf(c)
    BY <1>2 DEF BaseLike, LevelsOf
  <2> QED BY <1>1, <2>1, LargestIs
<1>3. CASE c.pattern # "CustomList"
  <2> DEFINE x == c.start
             y == c.stop
             l == Largest(c)
  <2>1. Lesser(x, y) <= p[i] /\ p[i] <= Greater(x, y)
    BY <1>3 DEF BaseLike, Tour, Within
  <2>2. x \in LevelsOf(c) /\ y \in LevelsOf(c)
    BY <1>3 DEF LevelsOf
  <2>3. x \in Int /\ y \in Int /\ l \in Nat /\ Abs(x) <= l /\ Abs(y) <= l
    BY <2>2, LargestIs
  <2> HIDE DEF x, y, l
  <2> DEFINE v == p[i]
  <2>4. v \in Int /\ Lesser(x, y) <= v /\ v <= Greater(x, y)
    BY <1>1, <2>1
  <2> HIDE DEF v
  <2>5. Abs(v) <= l
    BY <2>3, <2>4 DEF Abs, Lesser, Greater
  <2> QED BY <1>1, <2>5 DEF v, l
<1> QED BY <1>2, <1>3

-----------------------------------------------------------------------------
(* The share of one of two sources *)

\* scaled_decimal of a level that divides.
IsShare(v, sign, a, total) ==
    Scaled(sign * v, a, total) \in Int /\ Scaled(sign * v, a, total) * total = v * (sign * a)
\* Where the level divides, the share is one.
LEMMA ShareExact ==
    ASSUME NEW v \in Int, NEW sign \in {-1, 1}, NEW a \in Nat \ {0}, NEW total \in Nat \ {0},
           Exact(v, a, total)
    PROVE  IsShare(v, sign, a, total)
<1> DEFINE n == v * a
           m == (sign * v) * a
<1>1. n \in Int /\ m \in Int
  OBVIOUS
<1>2. m = v * (sign * a)
  OBVIOUS
<1>3. m = n \/ m = -n
  OBVIOUS
<1>4. n % total = 0
  BY DEF Exact
<1>5. Scaled(sign * v, a, total) = m \div total
  BY DEF Scaled
<1> HIDE DEF n, m
<1>6. m % total = 0
  BY <1>1, <1>3, <1>4, Opposite
<1>7. m \div total \in Int /\ (m \div total) * total = m
  BY <1>1, <1>6, Whole
<1> QED BY <1>2, <1>5, <1>7 DEF IsShare

\* All the levels of a configuration divide.
Divisible(c, a, total) ==
    /\ Exact(c.start, a, total) /\ Exact(c.stop, a, total)
    /\ \A i \in 1..Len(c.custom) : Exact(c.custom[i], a, total)

\* What the configuration of one source is.
IsShareOf(e, c, m, protection, sign, a, total, step) ==
    /\ e \in Configurations /\ e.model = m /\ e.protection = protection
    /\ e.step = Scaled(step, a, total) /\ e.step \in Nat \ {0}
    /\ ShareLike(e, e.step, c, step, total, sign * a)
\* The configuration of a share, field by field.
LEMMA ShareFacts ==
    ASSUME NEW c \in Configurations, NEW m \in DOMAIN Specs, NEW protection \in Int,
           NEW sign \in {-1, 1}, NEW a \in Nat \ {0}, NEW total \in Nat \ {0}, NEW step \in Nat \ {0},
           Divisible(c, a, total), Exact(step, a, total)
    PROVE  IsShareOf(ShareOf(c, m, protection, sign, a, total, step),
                     c, m, protection, sign, a, total, step)
<1> DEFINE e == ShareOf(c, m, protection, sign, a, total, step)
           sh(v) == Scaled(sign * v, a, total)
           n == Len(c.custom)
           l == (c.limit * a) \div total
           d == Scaled(step, a, total)
           w == [i \in 1..n |-> sh(c.custom[i])]
<1>1. c.start \in Int /\ c.stop \in Int /\ c.limit \in Int /\ c.custom \in Seq(Int) /\ n \in Nat
  BY ConfigFacts
<1>2. sh(c.start) \in Int /\ sh(c.start) * total = c.start * (sign * a)
      /\ sh(c.stop) \in Int /\ sh(c.stop) * total = c.stop * (sign * a)
  <2>1. Exact(c.start, a, total) /\ Exact(c.stop, a, total)
    BY DEF Divisible
  <2>2. IsShare(c.start, sign, a, total) /\ IsShare(c.stop, sign, a, total)
    BY <1>1, <2>1, ShareExact
  <2> QED BY <2>2 DEF IsShare
<1>3. ASSUME NEW i \in 1..n PROVE sh(c.custom[i]) \in Int /\ sh(c.custom[i]) * total = c.custom[i] * (sign * a)
  <2>1. c.custom[i] \in Int /\ Exact(c.custom[i], a, total)
    BY <1>1 DEF Divisible
  <2>2. IsShare(c.custom[i], sign, a, total)
    BY <2>1, ShareExact
  <2> QED BY <2>2 DEF IsShare
<1> HIDE DEF sh
<1>4. w \in Seq(Int) /\ Len(w) = n /\ \A i \in 1..n : w[i] = sh(c.custom[i])
  BY <1>1, <1>3
<1>5. l \in Int
  <2> DEFINE x == c.limit * a
  <2>1. x \in Int
    BY <1>1
  <2> HIDE DEF x
  <2>2. x \div total \in Int
    BY <2>1, Quotient
  <2> QED BY <2>2 DEF x
<1>6. d \in Int /\ d * total = step * a
  <2>1. IsShare(step, 1, a, total)
    BY ShareExact
  <2>2. 1 * step = step /\ 1 * a = a
    OBVIOUS
  <2> QED BY <2>1, <2>2 DEF IsShare
<1>7. d \in Nat \ {0}
  <2> HIDE DEF d
  <2>1. step * a > 0
    OBVIOUS
  <2>2. d * total > 0
    BY <1>6, <2>1
  <2> QED BY <1>6, <2>2
<1>8. e = [c EXCEPT !.model = m, !.protection = protection, !.start = sh(c.start), !.stop = sh(c.stop),
                    !.step = d, !.limit = l, !.custom = w]
  BY DEF ShareOf, sh
<1> HIDE DEF e, d, l, w, n
<1>9. e \in Configurations /\ e.model = m /\ e.protection = protection /\ e.step = d
      /\ e.start = sh(c.start) /\ e.stop = sh(c.stop) /\ e.custom = w /\ e.pattern = c.pattern
  BY <1>2, <1>4, <1>5, <1>7, <1>8 DEF Configurations
<1>10. Abs(sign * a) = a
  BY DEF Abs
<1>11. Scales(e.custom, c.custom, total, sign * a)
  BY <1>3, <1>4, <1>9 DEF Scales, n
<1>12. ShareLike(e, e.step, c, step, total, sign * a)
  BY <1>2, <1>6, <1>9, <1>10, <1>11 DEF ShareLike
<1> QED BY <1>7, <1>9, <1>12 DEF IsShareOf, e, d

\* Its largest level is the share of the largest one.
LEMMA ShareLargest ==
    ASSUME NEW c \in Configurations, NEW e \in Configurations, NEW d, NEW step, NEW total \in Nat \ {0},
           NEW part \in Int \ {0}, ShareLike(e, d, c, step, total, part)
    PROVE  Largest(e) * total = Largest(c) * Abs(part)
           /\ Largest(e) = Scaled(Largest(c), Abs(part), total)
<1> DEFINE z == Abs(part)
           x == Largest(c)
           y == Largest(e)
<1>1. z \in Nat \ {0}
  BY DEF Abs
<1>2. Abs(total) = total
  BY DEF Abs
\* The levels of the two go together.
<1>3. ASSUME NEW v \in LevelsOf(c)
      PROVE  \E w \in LevelsOf(e) : w * total = v * part
  <2>1. CASE c.pattern = "CustomList"
    <3>1. LevelsOf(c) = {0} \cup {c.custom[i] : i \in 1..Len(c.custom)}
          /\ LevelsOf(e) = {0} \cup {e.custom[i] : i \in 1..Len(e.custom)}
      BY <2>1 DEF LevelsOf, ShareLike
    <3>2. CASE v = 0
      <4>1. 0 \in LevelsOf(e) /\ 0 * total = 0 * part
        BY <3>1
      <4> QED BY <3>2, <4>1
    <3>3. CASE v # 0
      <4>1. PICK i \in 1..Len(c.custom) : v = c.custom[i]
        BY <3>1, <3>3
      <4>2. Len(e.custom) = Len(c.custom) /\ e.custom[i] * total = c.custom[i] * part
        BY DEF ShareLike, Scales
      <4>3. e.custom[i] \in LevelsOf(e)
        BY <3>1, <4>2
      <4> QED BY <4>1, <4>2, <4>3
    <3> QED BY <3>2, <3>3
  <2>2. CASE c.pattern # "CustomList"
    <3>1. LevelsOf(c) = {c.start, c.stop} /\ LevelsOf(e) = {e.start, e.stop}
      BY <2>2 DEF LevelsOf, ShareLike
    <3>2. e.start * total = c.start * part /\ e.stop * total = c.stop * part
      BY DEF ShareLike
    <3> QED BY <3>1, <3>2
  <2> QED BY <2>1, <2>2
<1>4. ASSUME NEW w \in LevelsOf(e)
      PROVE  \E v \in LevelsOf(c) : w * total = v * part
  <2>1. CASE c.pattern = "CustomList"
    <3>1. LevelsOf(c) = {0} \cup {c.custom[i] : i \in 1..Len(c.custom)}
          /\ LevelsOf(e) = {0} \cup {e.custom[i] : i \in 1..Len(e.custom)}
      BY <2>1 DEF LevelsOf, ShareLike
    <3>2. CASE w = 0
      <4>1. 0 \in LevelsOf(c) /\ 0 * total = 0 * part
        BY <3>1
      <4> QED BY <3>2, <4>1
    <3>3. CASE w # 0
      <4>1. PICK i \in 1..Len(e.custom) : w = e.custom[i]
        BY <3>1, <3>3
      <4>2. Len(e.custom) = Len(c.custom)
        BY DEF ShareLike, Scales
      <4>3. e.custom[i] * total = c.custom[i] * part
        BY <4>2 DEF ShareLike, Scales
      <4>4. c.custom[i] \in LevelsOf(c)
        BY <3>1, <4>2
      <4> QED BY <4>1, <4>3, <4>4
    <3> QED BY <3>2, <3>3
  <2>2. CASE c.pattern # "CustomList"
    <3>1. LevelsOf(c) = {c.start, c.stop} /\ LevelsOf(e) = {e.start, e.stop}
      BY <2>2 DEF LevelsOf, ShareLike
    <3>2. e.start * total = c.start * part /\ e.stop * total = c.stop * part
      BY DEF ShareLike
    <3> QED BY <3>1, <3>2
  <2> QED BY <2>1, <2>2
<1>5. ASSUME NEW v \in Int, NEW w \in Int, w * total = v * part
      PROVE  Abs(w) * total = Abs(v) * z
  <2>1. Abs(w * total) = Abs(w) * Abs(total)
    <3>1. total \in Int
      OBVIOUS
    <3> QED BY <3>1, AbsTimes
  <2>2. Abs(v * part) = Abs(v) * Abs(part)
    <3>1. part \in Int
      OBVIOUS
    <3> QED BY <3>1, AbsTimes
  <2> QED BY <1>2, <1>5, <2>1, <2>2
<1>6. /\ LevelsOf(c) \subseteq Int /\ x \in Nat /\ (\E v \in LevelsOf(c) : Abs(v) = x)
      /\ \A v \in LevelsOf(c) : Abs(v) <= x
  BY LargestIs
<1>7. /\ LevelsOf(e) \subseteq Int /\ y \in Nat /\ (\E v \in LevelsOf(e) : Abs(v) = y)
      /\ \A v \in LevelsOf(e) : Abs(v) <= y
  BY LargestIs
<1> HIDE DEF x, y, z
<1>8. x * z <= y * total
  <2>1. PICK v \in LevelsOf(c) : Abs(v) = x
    BY <1>6
  <2>2. PICK w \in LevelsOf(e) : w * total = v * part
    BY <1>3
  <2>3. Abs(w) * total = x * z /\ Abs(w) <= y /\ Abs(w) \in Int
    <3>1. v \in Int /\ w \in Int
      BY <1>6, <1>7
    <3>2. Abs(w) * total = Abs(v) * z
      BY <1>5, <2>2, <3>1
    <3> QED BY <1>7, <2>1, <3>1, <3>2 DEF Abs
  <2>4. Abs(w) * total <= y * total
    BY <1>7, <2>3, StepsUp
  <2> QED BY <2>3, <2>4
<1>9. y * total <= x * z
  <2>1. PICK w \in LevelsOf(e) : Abs(w) = y
    BY <1>7
  <2>2. PICK v \in LevelsOf(c) : w * total = v * part
    BY <1>4
  <2>3. y * total = Abs(v) * z /\ Abs(v) <= x /\ Abs(v) \in Int
    <3>1. v \in Int /\ w \in Int
      BY <1>6, <1>7
    <3>2. Abs(w) * total = Abs(v) * z
      BY <1>5, <2>2, <3>1
    <3> QED BY <1>6, <2>1, <3>1, <3>2 DEF Abs
  <2>4. Abs(v) * z <= x * z
    BY <1>1, <1>6, <2>3, StepsUp
  <2> QED BY <2>3, <2>4
<1>10. y * total = x * z
  <2>1. y * total \in Int /\ x * z \in Int
    BY <1>1, <1>6, <1>7
  <2> QED BY <1>8, <1>9, <2>1
<1>11. (y * total) \div total = y
  BY <1>7, Multiple
<1>12. Scaled(x, z, total) = y
  BY <1>10, <1>11 DEF Scaled
<1> QED BY <1>10, <1>12 DEF x, y, z

-----------------------------------------------------------------------------
(* What an accepted plan of two sources is made of *)

FirstProtection(c) == IF c.protection # 0 THEN c.protection ELSE c.compliance
TotalOf(c) == c.ratio[1] + c.ratio[2]
GridOf(c, rs) == SplitIncrement(rs[1].resolution, rs[2].resolution, c.ratio[1], c.ratio[2])
CommonStep(c, rs) == Ceil(c.step, GridOf(c, rs))
FirstOf(c, rs) ==
    ShareOf(c, c.model, FirstProtection(c), 1, c.ratio[1], TotalOf(c), CommonStep(c, rs))
SecondOf(c, rs) ==
    ShareOf(c, c.model2, c.protection2, -1, c.ratio[2], TotalOf(c), CommonStep(c, rs))
RampWith(c, rs, f, s) == CommonRamp(f, s, c.ratio[1], c.ratio[2], GridOf(c, rs))
PlanWith(c, rs, q1, q2, f, s) ==
    [points |-> BasePoints(c, CommonStep(c, rs)),
     directions |-> Directions(BasePoints(c, CommonStep(c, rs))), plan1 |-> q1, plan2 |-> q2,
     ratio |-> c.ratio, resolution |-> GridOf(c, rs), ramp |-> RampWith(c, rs, f, s)]
Accepts(c, rs, q1, q2, f, s) ==
    LET points == BasePoints(c, CommonStep(c, rs))
    IN  /\ Scaled(RampWith(c, rs, f, s), c.ratio[1], TotalOf(c)) <= rs[1].maximum
        /\ Scaled(RampWith(c, rs, f, s), c.ratio[2], TotalOf(c)) <= rs[2].maximum
        /\ \A i \in 1..Len(points) : Aligned(points[i], GridOf(c, rs)) /\ Abs(points[i]) <= c.limit
        /\ Len(q1.points) = Len(points) /\ Len(q2.points) = Len(points)
MadeOf(p, c, rs, q1, q2, f, s) ==
    /\ rs \in BalancedRanges(c) /\ PatternAllowed(c)
    /\ q1 \in PlanSingle(FirstOf(c, rs)) /\ q2 \in PlanSingle(SecondOf(c, rs))
    /\ f \in PrepareSingle(FirstOf(c, rs)) /\ s \in PrepareSingle(SecondOf(c, rs))
    /\ Accepts(c, rs, q1, q2, f, s) /\ p = PlanWith(c, rs, q1, q2, f, s)
\* balanced_plan returns such a plan or none.
LEMMA BalancedFacts ==
    ASSUME NEW c, NEW p \in BalancedPlan(c)
    PROVE  \E rs, q1, q2, f, s : MadeOf(p, c, rs, q1, q2, f, s)
<1> DEFINE X(rs) == PlanSingle(FirstOf(c, rs)) \X PlanSingle(SecondOf(c, rs))
                      \X PrepareSingle(FirstOf(c, rs)) \X PrepareSingle(SecondOf(c, rs))
           Good(rs, x) == Accepts(c, rs, x[1], x[2], x[3], x[4])
           New(rs, x) == PlanWith(c, rs, x[1], x[2], x[3], x[4])
           Plans(rs) == {New(rs, x) : x \in {y \in X(rs) : Good(rs, y)}}
           R == IF PatternAllowed(c) THEN BalancedRanges(c) ELSE {}
<1>1. BalancedPlan(c) = UNION {Plans(rs) : rs \in R}
  BY DEF BalancedPlan, FirstProtection, TotalOf, GridOf, CommonStep, FirstOf, SecondOf, RampWith,
         PlanWith, Accepts
<1> HIDE DEF Plans, R
<1>2. PICK rs \in R : p \in Plans(rs)
  BY <1>1
<1> HIDE DEF X, Good, New
<1>3. PICK x \in X(rs) : Good(rs, x) /\ p = New(rs, x)
  BY <1>2 DEF Plans
<1>4. rs \in BalancedRanges(c) /\ PatternAllowed(c)
  BY <1>2 DEF R
<1>5. MadeOf(p, c, rs, x[1], x[2], x[3], x[4])
  BY <1>3, <1>4 DEF MadeOf, X, Good, New
<1> QED BY <1>5

\* A level that a source can follow is exact, and its share on the grid.
LEMMA FollowsFacts ==
    ASSUME NEW v \in Int, NEW a \in Nat \ {0}, NEW total \in Nat \ {0}, NEW grid \in Nat \ {0},
           Follows(v, a, total, grid), NEW sign \in {-1, 1}
    PROVE  Exact(v, a, total) /\ Aligned(Scaled(sign * v, a, total), grid)
<1> DEFINE n == v * a
           d == total * grid
           w == Scaled(sign * v, a, total)
<1>1. n \in Int /\ d \in Nat \ {0} /\ n % d = 0
  BY DEF Follows
<1> HIDE DEF n, d
<1>2. PICK k \in Int : n = k * d
  <2>1. n \div d \in Int /\ (n \div d) * d = n
    BY <1>1, Whole
  <2> QED BY <2>1
<1>3. v * a = (k * grid) * total /\ k * grid \in Int
  <2>1. k * (total * grid) = (k * grid) * total /\ k * grid \in Int
    BY <1>2
  <2> QED BY <1>2, <2>1 DEF n, d
<1>4. Exact(v, a, total)
  <2>1. ((k * grid) * total) % total = 0
    BY <1>3, Multiple
  <2> QED BY <1>3, <2>1 DEF Exact
<1>5. w \in Int /\ w * total = v * (sign * a)
  <2>1. IsShare(v, sign, a, total)
    BY <1>4, ShareExact
  <2> QED BY <2>1 DEF IsShare
<1> HIDE DEF w
<1>6. v * (sign * a) = ((sign * k) * grid) * total
  <2>1. v * (sign * a) = sign * (v * a) /\ sign * ((k * grid) * total) = ((sign * k) * grid) * total
    BY <1>2
  <2> QED BY <1>3, <2>1
<1>7. w = (sign * k) * grid
  <2> DEFINE x == (sign * k) * grid
  <2>1. x \in Int /\ w * total = x * total
    BY <1>2, <1>5, <1>6
  <2> HIDE DEF x
  <2>2. w = x
    BY <1>5, <2>1, Cancel
  <2> QED BY <2>2 DEF x
<1>8. sign * k \in Int
  BY <1>2
<1>9. ((sign * k) * grid) % grid = 0
  BY <1>8, Multiple
<1> QED BY <1>4, <1>7, <1>9 DEF Aligned, w

\* The automatic ramp is not nothing.
LEMMA RampPositive ==
    ASSUME NEW e \in Configurations, NEW f \in PrepareSingle(e)
    PROVE  f.ramp \in Nat \ {0}
<1>1. PICK r \in SelectRange(e.model, Largest(e), e.protection) : e.step > 0 /\ f = Prepared(e, r)
  BY PrepareFacts
<1>2. f.ramp = RampOf(e, r)
  BY <1>1, PreparedFacts
<1>3. e.model \in DOMAIN Specs /\ e.step \in Nat
  BY ConfigFacts
<1>4. r \in Specs[e.model].ranges
  BY <1>3, RangeFacts
<1> DEFINE d == r.resolution
           x == r.maximum
           y == Ceil(e.step, d)
           n == r.nominal
           k == RampShare * d
           z == CeilDiv(n, k) * d
<1>5. d \in Nat \ {0} /\ x \in Nat \ {0} /\ n \in Nat
  BY <1>3, <1>4, ModelFacts
<1>6. f.ramp = Lesser(x, Greater(y, z))
  BY <1>2 DEF RampOf
<1> HIDE DEF d, x, n
<1>7. y \in Nat \ {0}
  <2>1. y \in Nat /\ e.step <= y
    BY <1>3, <1>5, CeilFacts
  <2> QED BY <1>1, <1>3, <2>1
<1>8. z \in Nat
  <2>1. RampShare \in Nat \ {0}
    BY PlanningAssumption DEF PlanningAssumption
  <2>2. k \in Nat \ {0}
    BY <1>5, <2>1
  <2> HIDE DEF k
  <2>3. CeilDiv(n, k) \in Nat
    BY <1>5, <2>2, CeilDivFacts
  <2> QED BY <1>5, <2>3
<1> HIDE DEF y, z
<1> QED BY <1>5, <1>6, <1>7, <1>8 DEF Lesser, Greater

\* What is planned for one of the sources: its share of every point.
SideOf(e, q, f, c, r, protection, part, total, step) ==
    /\ e \in Configurations /\ e.protection = protection /\ r \in Specs[e.model].ranges
    /\ SinglePlan(q, e, r) /\ Scales(q.points, BasePoints(c, step), total, part)
    /\ Largest(e) * total = Largest(c) * Abs(part) /\ Largest(e) <= r.maximum
    /\ f.ramp \in Nat \ {0} /\ q.points \in Seq(Int)
SideGiven(e, q, f, c, m, r, protection, sign, part, total, step) ==
    LET a == Abs(part)
    IN  /\ c \in Configurations /\ m \in DOMAIN Specs /\ protection \in Int /\ sign \in {-1, 1}
        /\ a \in Nat \ {0} /\ part = sign * a /\ total \in Nat \ {0} /\ step \in Nat \ {0}
        /\ Divisible(c, a, total)
        /\ r \in SelectRange(m, Scaled(Largest(c), a, total), protection)
        /\ Follows(step, a, total, r.resolution)
        /\ e = ShareOf(c, m, protection, sign, a, total, step)
        /\ q \in PlanSingle(e) /\ f \in PrepareSingle(e)
\* One side of an accepted plan of two sources follows the target.
LEMMA SideFacts ==
    ASSUME NEW c, NEW m, NEW r, NEW protection, NEW sign, NEW part, NEW total, NEW step,
           NEW e, NEW q, NEW f, SideGiven(e, q, f, c, m, r, protection, sign, part, total, step)
    PROVE  SideOf(e, q, f, c, r, protection, part, total, step) /\ e.model = m
<1> DEFINE g == r.resolution
           a == Abs(part)
<1>0. /\ c \in Configurations /\ m \in DOMAIN Specs /\ protection \in Int /\ sign \in {-1, 1}
      /\ a \in Nat \ {0} /\ part = sign * a /\ total \in Nat \ {0} /\ step \in Nat \ {0}
      /\ Divisible(c, a, total)
      /\ r \in SelectRange(m, Scaled(Largest(c), a, total), protection)
      /\ Follows(step, a, total, r.resolution)
      /\ e = ShareOf(c, m, protection, sign, a, total, step)
      /\ q \in PlanSingle(e) /\ f \in PrepareSingle(e)
  BY DEF SideGiven
<1> HIDE DEF a
<1>1. part \in Int \ {0} /\ Abs(part) = a
  BY <1>0 DEF a
<1>2. r \in Specs[m].ranges /\ Scaled(Largest(c), a, total) <= r.maximum
  BY <1>0, RangeFacts
<1>3. g \in Nat \ {0}
  BY <1>0, <1>2, ModelFacts
<1>4. Exact(step, a, total) /\ Aligned(Scaled(1 * step, a, total), g)
  <2>1. step \in Int /\ 1 \in {-1, 1} /\ Follows(step, a, total, g)
    BY <1>0
  <2> HIDE DEF g
  <2> QED BY <1>0, <1>3, <2>1, FollowsFacts
<1>5. /\ e \in Configurations /\ e.model = m /\ e.protection = protection
      /\ e.step = Scaled(step, a, total) /\ e.step \in Nat \ {0}
      /\ ShareLike(e, e.step, c, step, total, part)
  <2>1. IsShareOf(e, c, m, protection, sign, a, total, step)
    BY <1>0, <1>4, ShareFacts
  <2> QED BY <1>0, <2>1 DEF IsShareOf
<1> HIDE DEF g
<1>6. Largest(e) * total = Largest(c) * Abs(part) /\ Largest(e) = Scaled(Largest(c), a, total)
  BY <1>0, <1>1, <1>5, ShareLargest
<1>7. Largest(e) <= r.maximum
  BY <1>2, <1>6
<1>8. PICK s \in Specs[e.model].ranges : SinglePlan(q, e, s)
  BY <1>0, <1>5, PlanFacts
<1>9. s = r
  <2>1. s \in SelectRange(m, Largest(e), protection)
    BY <1>5, <1>8 DEF SinglePlan
  <2> QED BY <1>0, <1>6, <2>1, OneRange
<1>10. StepOf(e, r) = e.step
  <2>1. 1 * step = step
    BY <1>0
  <2>2. e.step % g = 0
    BY <1>4, <1>5, <2>1 DEF Aligned
  <2>3. Ceil(e.step, g) = e.step
    BY <1>3, <1>5, <2>2, CeilFacts
  <2> QED BY <2>3 DEF StepOf, g
<1>11. q.points = BasePoints(e, e.step)
  BY <1>8, <1>9, <1>10 DEF SinglePlan
<1>12. Scales(q.points, BasePoints(c, step), total, part)
  BY <1>0, <1>1, <1>5, <1>11, ScaledBase
<1>13. q.points \in Seq(Int)
  <2>1. PatternAllowed(e)
    BY <1>8 DEF SinglePlan
  <2>2. BaseLike(BasePoints(e, e.step), e, e.step)
    BY <1>5, <2>1, BaseFacts
  <2> QED BY <1>11, <2>2 DEF BaseLike
<1>14. f.ramp \in Nat \ {0}
  BY <1>0, <1>5, RampPositive
<1>15. SideOf(e, q, f, c, r, protection, part, total, step)
  BY <1>2, <1>5, <1>6, <1>7, <1>8, <1>9, <1>12, <1>13, <1>14 DEF SideOf
<1> QED BY <1>5, <1>15

-----------------------------------------------------------------------------
(* An accepted plan of two sources *)

\* What the ranges and the ratio were checked for.
LEMMA RangesFacts ==
    ASSUME NEW c \in Configurations, NEW rs \in BalancedRanges(c)
    PROVE  /\ rs[1] \in SelectRange(c.model, Scaled(Largest(c), c.ratio[1], TotalOf(c)), FirstProtection(c))
           /\ rs[2] \in SelectRange(c.model2, Scaled(Largest(c), c.ratio[2], TotalOf(c)), c.protection2)
           /\ c.step > 0 /\ FirstProtection(c) > 0 /\ c.protection2 > 0
           /\ HardwareLimit(c.model, FirstProtection(c)) <= FirstProtection(c)
           /\ HardwareLimit(c.model2, c.protection2) <= c.protection2
           /\ Divisible(c, c.ratio[1], TotalOf(c)) /\ Divisible(c, c.ratio[2], TotalOf(c))
<1> DEFINE a == c.ratio[1]
           b == c.ratio[2]
           levels == {c.start, c.stop} \cup {c.custom[i] : i \in 1..Len(c.custom)}
           S1 == SelectRange(c.model, Scaled(Largest(c), a, TotalOf(c)), FirstProtection(c))
           S2 == SelectRange(c.model2, Scaled(Largest(c), b, TotalOf(c)), c.protection2)
           checks == /\ c.step > 0 /\ FirstProtection(c) > 0 /\ c.protection2 > 0
                     /\ HardwareLimit(c.model, FirstProtection(c)) <= FirstProtection(c)
                     /\ HardwareLimit(c.model2, c.protection2) <= c.protection2
                     /\ \A v \in levels : Exact(v, a, TotalOf(c)) /\ Exact(v, b, TotalOf(c))
<1>1. BalancedRanges(c) = {x \in S1 \X S2 : checks}
  BY DEF BalancedRanges, TotalOf, FirstProtection
<1> HIDE DEF S1, S2
<1>2. rs \in S1 \X S2 /\ checks
  <2> HIDE DEF checks
  <2> QED BY <1>1
<1>3. Divisible(c, a, TotalOf(c)) /\ Divisible(c, b, TotalOf(c))
  BY <1>2 DEF Divisible
<1> HIDE DEF levels
<1> QED BY <1>2, <1>3 DEF S1, S2

\* The two sources and their common grid, ramp and step.
Side(q, protection, c, part, p) ==
    LET total == c.ratio[1] + c.ratio[2]
    IN  /\ q.range.resolution \in Nat \ {0} /\ q.range.maximum \in Nat \ {0}
        /\ q.limit <= protection /\ q.points \in Seq(Int)
        /\ Scales(q.points, p.points, total, part)
        /\ Largest(c) * Abs(part) <= q.range.maximum * total
        /\ Scaled(p.ramp, Abs(part), total) <= q.range.maximum
Two(p, c) ==
    LET a == c.ratio[1]
        b == c.ratio[2]
        grid == p.resolution
    IN  /\ p.ratio = c.ratio /\ grid \in Nat \ {0}
        /\ p.ramp \in Nat \ {0} /\ p.ramp % grid = 0
        /\ p.directions = Directions(p.points) /\ BaseLike(p.points, c, Ceil(c.step, grid))
        /\ AllOn(p.points, grid) /\ (\A i \in 1..Len(p.points) : Abs(p.points[i]) <= c.limit)
        /\ Len(p.points) \in 1..MaxPoints
        /\ Side(p.plan1, FirstProtection(c), c, a, p) /\ Side(p.plan2, c.protection2, c, -b, p)
        /\ \A v \in Int : v % grid = 0 <=>
              /\ Follows(v, a, a + b, p.plan1.range.resolution)
              /\ Follows(v, b, a + b, p.plan2.range.resolution)

\* The limiter of a source with an exact protection is no weaker than that.
LEMMA LimitExact ==
    ASSUME NEW e \in Configurations, NEW r \in SelectRange(e.model, Largest(e), e.protection),
           e.protection # 0, HardwareLimit(e.model, e.protection) <= e.protection
    PROVE  LimitInForce(e, r) <= e.protection
<1>1. e.model \in DOMAIN Specs /\ e.protection \in Int
  BY ConfigFacts
<1>2. r \in Specs[e.model].ranges /\ r.fixed <= HardwareLimit(e.model, e.protection)
  BY <1>1, RangeFacts
<1>3. r.fixed \in Nat
  BY <1>1, <1>2, ModelFacts
<1>4. HardwareLimit(e.model, e.protection) \in Nat
  BY <1>1, HardwareFacts
<1>5. LimitInForce(e, r) = IF r.fixed # 0 THEN r.fixed ELSE HardwareLimit(e.model, e.protection)
  BY DEF LimitInForce
<1> QED BY <1>1, <1>2, <1>3, <1>4, <1>5

\* From what is known of one side to what is said of it.
SideChecked(p, e, c, r, protection, part, total, step) ==
    /\ c \in Configurations /\ total = c.ratio[1] + c.ratio[2]
    /\ p.points = BasePoints(c, step) /\ Scaled(p.ramp, Abs(part), total) <= r.maximum
    /\ protection \in Int /\ protection # 0 /\ HardwareLimit(e.model, protection) <= protection
\* They hold together.
LEMMA SideHolds ==
    ASSUME NEW e, NEW q, NEW f, NEW c, NEW r, NEW protection, NEW part, NEW step, NEW total, NEW p,
           SideOf(e, q, f, c, r, protection, part, total, step),
           SideChecked(p, e, c, r, protection, part, total, step)
    PROVE  Side(q, protection, c, part, p) /\ q.range = r /\ Len(q.points) <= MaxPoints
<1>0. /\ c \in Configurations /\ total = c.ratio[1] + c.ratio[2]
      /\ p.points = BasePoints(c, step) /\ Scaled(p.ramp, Abs(part), total) <= r.maximum
      /\ protection \in Int /\ protection # 0 /\ HardwareLimit(e.model, protection) <= protection
  BY DEF SideChecked
<1>1. /\ e \in Configurations /\ e.protection = protection /\ r \in Specs[e.model].ranges
      /\ SinglePlan(q, e, r) /\ Scales(q.points, p.points, total, part)
      /\ Largest(e) * total = Largest(c) * Abs(part) /\ Largest(e) <= r.maximum
      /\ q.points \in Seq(Int)
  BY <1>0 DEF SideOf
<1>2. total \in Nat \ {0}
  <2>1. c.ratio[1] \in Nat \ {0} /\ c.ratio[2] \in Nat \ {0}
    BY <1>0, ConfigFacts
  <2> QED BY <1>0, <2>1
<1>3. q.range = r /\ q.limit = LimitInForce(e, r) /\ Len(q.points) <= MaxPoints
      /\ r \in SelectRange(e.model, Largest(e), e.protection)
  BY <1>1 DEF SinglePlan
<1>4. r.resolution \in Nat \ {0} /\ r.maximum \in Nat \ {0}
  BY <1>1, ConfigFacts, ModelFacts
<1>5. q.limit <= protection
  BY <1>0, <1>1, <1>3, LimitExact
<1>6. Largest(c) * Abs(part) <= r.maximum * total
  <2>1. Largest(e) \in Nat
    BY <1>1, LargestIs
  <2>2. Largest(e) * total <= r.maximum * total
    <3> DEFINE x == Largest(e)
               y == r.maximum
    <3>1. x \in Int /\ y \in Int /\ x <= y
      BY <1>1, <1>4, <2>1
    <3> HIDE DEF x, y
    <3>2. x * total <= y * total
      BY <1>2, <3>1, StepsUp
    <3> QED BY <3>2 DEF x, y
  <2> QED BY <1>1, <2>2
<1> QED BY <1>0, <1>1, <1>3, <1>4, <1>5, <1>6 DEF Side

\* An accepted plan of two sources is one of this kind.
LEMMA TwoFacts ==
    ASSUME NEW c \in Configurations, NEW p \in BalancedPlan(c)
    PROVE  Two(p, c)
<1>1. PICK rs, q1, q2, f, s : MadeOf(p, c, rs, q1, q2, f, s)
  BY BalancedFacts
<1> DEFINE a == c.ratio[1]
           b == c.ratio[2]
           t == a + b
           r1 == rs[1]
           r2 == rs[2]
           g == GridOf(c, rs)
           step == CommonStep(c, rs)
           e1 == FirstOf(c, rs)
           e2 == SecondOf(c, rs)
           ramp == RampWith(c, rs, f, s)
           pts == BasePoints(c, step)
<1>2. /\ rs \in BalancedRanges(c) /\ PatternAllowed(c)
      /\ q1 \in PlanSingle(e1) /\ q2 \in PlanSingle(e2)
      /\ f \in PrepareSingle(e1) /\ s \in PrepareSingle(e2)
      /\ Accepts(c, rs, q1, q2, f, s) /\ p = PlanWith(c, rs, q1, q2, f, s)
  BY <1>1 DEF MadeOf
<1>3. p.points = pts /\ p.directions = Directions(pts) /\ p.plan1 = q1 /\ p.plan2 = q2
      /\ p.ratio = c.ratio /\ p.resolution = g /\ p.ramp = ramp
  BY <1>2 DEF PlanWith
<1>4. /\ Scaled(ramp, a, t) <= r1.maximum /\ Scaled(ramp, b, t) <= r2.maximum
      /\ \A i \in 1..Len(pts) : Aligned(pts[i], g) /\ Abs(pts[i]) <= c.limit
      /\ Len(q1.points) = Len(pts) /\ Len(q2.points) = Len(pts)
  BY <1>2 DEF Accepts, TotalOf
<1>5. a \in Nat \ {0} /\ b \in Nat \ {0} /\ t \in Nat \ {0} /\ TotalOf(c) = t /\ c.ratio = <<a, b>>
  <2>1. c.ratio \in (Nat \ {0}) \X (Nat \ {0})
    BY ConfigFacts
  <2> QED BY <2>1 DEF TotalOf
<1>6. /\ r1 \in SelectRange(c.model, Scaled(Largest(c), a, t), FirstProtection(c))
      /\ r2 \in SelectRange(c.model2, Scaled(Largest(c), b, t), c.protection2)
      /\ c.step > 0 /\ FirstProtection(c) > 0 /\ c.protection2 > 0
      /\ HardwareLimit(c.model, FirstProtection(c)) <= FirstProtection(c)
      /\ HardwareLimit(c.model2, c.protection2) <= c.protection2
      /\ Divisible(c, a, t) /\ Divisible(c, b, t)
  <2> HIDE DEF a, b, t, r1, r2
  <2> QED BY <1>2, <1>5, RangesFacts DEF a, b, r1, r2
<1>7. c.model \in DOMAIN Specs /\ c.model2 \in DOMAIN Specs /\ c.step \in Nat /\ c.protection2 \in Int
      /\ FirstProtection(c) \in Int
  BY ConfigFacts DEF FirstProtection
<1>8. r1.resolution \in Nat \ {0} /\ r2.resolution \in Nat \ {0}
  <2>1. r1 \in Specs[c.model].ranges /\ r2 \in Specs[c.model2].ranges
    BY <1>6, <1>7, RangeFacts
  <2> QED BY <1>7, <2>1, ModelFacts
<1>9. g = SplitIncrement(r1.resolution, r2.resolution, a, b)
  BY DEF GridOf
<1>10. step = Ceil(c.step, g)
  BY DEF CommonStep
<1>11. e1 = ShareOf(c, c.model, FirstProtection(c), 1, a, t, step)
       /\ e2 = ShareOf(c, c.model2, c.protection2, -1, b, t, step)
  BY DEF FirstOf, SecondOf, TotalOf
<1>12. ramp = CommonRamp(f, s, a, b, g)
  BY DEF RampWith
<1> HIDE DEF g, step, e1, e2, ramp, pts, r1, r2
<1>13. g \in Nat \ {0} /\ \A v \in Int : v % g = 0 <=> Follows(v, a, t, r1.resolution) /\ Follows(v, b, t, r2.resolution)
  <2> HIDE DEF a, b
  <2>1. IsSplit(g, r1.resolution, r2.resolution, a, b, t)
    BY <1>5, <1>8, <1>9, SplitFacts
  <2> HIDE DEF t
  <2> QED BY <2>1 DEF IsSplit
<1> HIDE DEF a, b
<1>14. step \in Nat \ {0} /\ step % g = 0
  <2> DEFINE v == c.step
  <2>1. v \in Nat /\ v > 0
    BY <1>6, <1>7
  <2> HIDE DEF v
  <2>2. Ceil(v, g) \in Nat /\ v <= Ceil(v, g) /\ Ceil(v, g) % g = 0
    BY <1>13, <2>1, CeilFacts
  <2>3. step = Ceil(v, g)
    BY <1>10 DEF v
  <2> QED BY <2>1, <2>2, <2>3
<1>15. Follows(step, a, t, r1.resolution) /\ Follows(step, b, t, r2.resolution)
  BY <1>13, <1>14
<1> HIDE DEF t
<1>18. a = 1 * a /\ -b = (-1) * b /\ Abs(a) = a /\ Abs(-b) = b /\ t = c.ratio[1] + c.ratio[2]
       /\ 1 \in {-1, 1} /\ -1 \in {-1, 1}
  BY <1>5 DEF Abs, a, b, t
<1>16. SideOf(e1, q1, f, c, r1, FirstProtection(c), a, t, step) /\ e1.model = c.model
  <2>1. SideGiven(e1, q1, f, c, c.model, r1, FirstProtection(c), 1, a, t, step)
    BY <1>2, <1>5, <1>6, <1>7, <1>11, <1>14, <1>15, <1>18 DEF SideGiven
  <2> QED BY <2>1, SideFacts
<1>17. SideOf(e2, q2, s, c, r2, c.protection2, -b, t, step) /\ e2.model = c.model2
  <2>1. SideGiven(e2, q2, s, c, c.model2, r2, c.protection2, -1, -b, t, step)
    BY <1>2, <1>5, <1>6, <1>7, <1>11, <1>14, <1>15, <1>18 DEF SideGiven
  <2> QED BY <2>1, SideFacts
<1>19. Side(q1, FirstProtection(c), c, a, p) /\ q1.range = r1 /\ Len(q1.points) <= MaxPoints
  <2>2. Scaled(p.ramp, Abs(a), t) <= r1.maximum
    BY <1>3, <1>4, <1>18
  <2>3. FirstProtection(c) # 0 /\ HardwareLimit(e1.model, FirstProtection(c)) <= FirstProtection(c)
    BY <1>6, <1>7, <1>16
  <2>4. p.points = BasePoints(c, step)
    BY <1>3 DEF pts
  <2>5. SideChecked(p, e1, c, r1, FirstProtection(c), a, t, step)
    BY <1>7, <1>18, <2>2, <2>3, <2>4 DEF SideChecked
  <2> QED BY <1>16, <2>5, SideHolds
<1>20. Side(q2, c.protection2, c, -b, p) /\ q2.range = r2 /\ Len(q2.points) <= MaxPoints
  <2>2. Scaled(p.ramp, Abs(-b), t) <= r2.maximum
    BY <1>3, <1>4, <1>18
  <2>3. c.protection2 # 0 /\ HardwareLimit(e2.model, c.protection2) <= c.protection2
    BY <1>6, <1>7, <1>17
  <2>4. p.points = BasePoints(c, step)
    BY <1>3 DEF pts
  <2>5. SideChecked(p, e2, c, r2, c.protection2, -b, t, step)
    BY <1>7, <1>18, <2>2, <2>3, <2>4 DEF SideChecked
  <2> QED BY <1>17, <2>5, SideHolds
<1>21. ramp \in Nat \ {0} /\ ramp % g = 0
  <2> DEFINE x == f.ramp * t
             y == s.ramp * t
             l == Lesser(CeilDiv(x, a), CeilDiv(y, b))
  <2>1. f.ramp \in Nat \ {0} /\ s.ramp \in Nat \ {0}
    BY <1>16, <1>17 DEF SideOf
  <2>2. x \in Nat \ {0} /\ y \in Nat \ {0}
    BY <1>5, <2>1
  <2>3. ramp = Ceil(l, g)
    BY <1>12 DEF CommonRamp, t
  <2> HIDE DEF x, y
  <2>4. CeilDiv(x, a) \in Nat /\ x <= CeilDiv(x, a) * a /\ CeilDiv(y, b) \in Nat /\ y <= CeilDiv(y, b) * b
    BY <1>5, <2>2, CeilDivFacts
  <2>5. CeilDiv(x, a) # 0 /\ CeilDiv(y, b) # 0
    BY <1>5, <2>2, <2>4
  <2>6. l \in Nat /\ l # 0
    BY <2>4, <2>5 DEF Lesser
  <2> HIDE DEF l
  <2>7. Ceil(l, g) \in Nat /\ l <= Ceil(l, g) /\ Ceil(l, g) % g = 0
    BY <1>13, <2>6, CeilFacts
  <2> QED BY <2>3, <2>6, <2>7
<1>22. BaseLike(pts, c, step)
  BY <1>2, <1>14, BaseFacts DEF pts
<1>23. AllOn(pts, g)
  BY <1>4 DEF AllOn, Aligned
<1>24. Len(pts) \in 1..MaxPoints
  <2>1. Len(pts) \in Nat \ {0} /\ Len(pts) <= MaxPoints
    BY <1>4, <1>19, <1>22 DEF BaseLike
  <2>2. MaxPoints \in Nat
    BY PlanningAssumption DEF PlanningAssumption
  <2> QED BY <2>1, <2>2
<1> QED BY <1>3, <1>4, <1>10, <1>13, <1>19, <1>20, <1>21, <1>22, <1>23, <1>24 DEF Two, a, b, t

-----------------------------------------------------------------------------
(* The levels of a balanced sweep *)

\* A share is no larger than the share of something larger.
LEMMA ShareWithin ==
    ASSUME NEW v \in Int, NEW sign \in {-1, 1}, NEW a \in Nat \ {0}, NEW total \in Nat \ {0},
           NEW w \in Int, w * total = v * (sign * a),
           NEW l \in Nat, Abs(v) <= l, NEW m \in Nat, l * a <= m * total
    PROVE  Abs(w) <= m
<1>1. Abs(w * total) = Abs(w) * Abs(total) /\ Abs(total) = total
  <2>1. total \in Int
    OBVIOUS
  <2> QED BY <2>1, AbsTimes DEF Abs
<1>2. Abs(v * (sign * a)) = Abs(v) * a
  <2> DEFINE z == sign * a
  <2>1. z \in Int /\ Abs(z) = a
    BY DEF Abs
  <2> HIDE DEF z
  <2>2. Abs(v * z) = Abs(v) * Abs(z)
    BY <2>1, AbsTimes
  <2> QED BY <2>1, <2>2 DEF z
<1>3. Abs(v) \in Nat /\ Abs(w) \in Nat
  BY DEF Abs
<1> DEFINE x == Abs(v)
           y == Abs(w)
<1>4. x \in Nat /\ y \in Nat /\ x <= l /\ y * total = x * a
  BY <1>1, <1>2, <1>3
<1> HIDE DEF x, y
<1>5. x * a <= l * a
  BY <1>4, StepsUp
<1>6. x * a \in Int /\ l * a \in Int /\ m * total \in Int
  BY <1>4
<1>7. y * total <= m * total
  BY <1>4, <1>5, <1>6
<1>8. y <= m
  BY <1>4, <1>7, Cancel
<1> QED BY <1>8 DEF y

\* A target that a source can follow: exact, on its grid and in its range.
LEMMA FollowedLevel ==
    ASSUME NEW v \in Int, NEW a \in Nat \ {0}, NEW total \in Nat \ {0}, NEW grid \in Nat \ {0},
           Follows(v, a, total, grid), NEW sign \in {-1, 1},
           NEW l \in Nat, Abs(v) <= l, NEW m \in Nat, l * a <= m * total
    PROVE  /\ Exact(v, a, total) /\ Aligned(Scaled(sign * v, a, total), grid)
           /\ Abs(Scaled(sign * v, a, total)) <= m
<1>1. Exact(v, a, total) /\ Aligned(Scaled(sign * v, a, total), grid)
  BY FollowsFacts
<1>2. IsShare(v, sign, a, total)
  BY <1>1, ShareExact
<1> DEFINE w == Scaled(sign * v, a, total)
<1>3. w \in Int /\ w * total = v * (sign * a)
  BY <1>2 DEF IsShare
<1> HIDE DEF w
<1>4. Abs(w) <= m
  BY <1>3, ShareWithin
<1> QED BY <1>1, <1>4 DEF w

\* A move of the target moves a source by no more than its share of the ramp.
LEMMA FollowedMove ==
    ASSUME NEW v \in Int, NEW u \in Int, NEW ramp \in Nat \ {0}, NEW sign \in {-1, 1},
           NEW a \in Nat \ {0}, NEW total \in Nat \ {0},
           Exact(v, a, total), Exact(u, a, total), Exact(ramp, a, total), Abs(v - u) <= ramp
    PROVE  Abs(Scaled(sign * v, a, total) - Scaled(sign * u, a, total)) <= Scaled(ramp, a, total)
<1> DEFINE x == Scaled(sign * v, a, total)
           y == Scaled(sign * u, a, total)
           r == Scaled(ramp, a, total)
<1>1. IsShare(v, sign, a, total) /\ IsShare(u, sign, a, total)
  BY ShareExact
<1>2. IsShare(ramp, 1, a, total)
  BY ShareExact
<1>3. x \in Int /\ x * total = v * (sign * a) /\ y \in Int /\ y * total = u * (sign * a)
  BY <1>1 DEF IsShare
<1>4. r \in Int /\ r * total = ramp * a
  <2>1. 1 * ramp = ramp /\ 1 * a = a
    OBVIOUS
  <2> QED BY <1>2, <2>1 DEF IsShare
<1> HIDE DEF x, y, r
<1>5. (x - y) * total = (v - u) * (sign * a) /\ x - y \in Int /\ v - u \in Int
  <2>1. (x - y) * total = x * total - y * total /\ (v - u) * (sign * a) = v * (sign * a) - u * (sign * a)
    BY <1>3
  <2> QED BY <1>3, <2>1
<1>6. r \in Nat
  <2>1. ramp * a > 0
    OBVIOUS
  <2>2. r * total > 0
    BY <1>4, <2>1
  <2> QED BY <1>4, <2>2
<1>7. ramp * a <= r * total
  BY <1>4
<1>8. Abs(x - y) <= r
  <2> DEFINE d == x - y
             e == v - u
  <2>1. d \in Int /\ e \in Int /\ d * total = e * (sign * a) /\ Abs(e) <= ramp /\ ramp \in Nat
    BY <1>5
  <2> HIDE DEF d, e
  <2>2. Abs(d) <= r
    BY <1>6, <1>7, <2>1, ShareWithin
  <2> QED BY <2>2 DEF d
<1> QED BY <1>8 DEF x, y, r

\* The way from one target to another stays between them and on their grid.
LEMMA WayWithin ==
    ASSUME NEW from \in Int, NEW to \in Int, NEW step \in Nat \ {0}, NEW grid \in Nat \ {0},
           from % grid = 0, to % grid = 0, step % grid = 0, NEW l \in Nat, Abs(from) <= l, Abs(to) <= l
    PROVE  \A i \in 1..Len(WayTo(from, to, step)) :
              WayTo(from, to, step)[i] \in Int /\ WayTo(from, to, step)[i] % grid = 0
              /\ Abs(WayTo(from, to, step)[i]) <= l
<1> DEFINE w == WayTo(from, to, step)
           p == Leg(from, to, step)
           m == Steps(from, to, step)
           n == IF from = to THEN 0 ELSE m - 1
           r == [k \in 1..n |-> from + Sign(to - from) * k * step]
<1>1. w = Append(RampLevels(from, to, step), to)
  BY DEF WayTo
<1>2. RampLevels(from, to, step) = r
  BY DEF RampLevels, Steps
<1>3. FromTo(p, from, to) /\ Within(p, from, to) /\ AllOn(p, grid)
  BY LegFacts
<1>4. LegMoves(from, to, step, m, Sign(to - from), Abs(to - from))
  BY LegMovesHolds
<1>5. m \in Nat /\ (m = 0 <=> from = to)
  BY <1>4 DEF LegMoves
<1>6. p = [k \in 1..m + 1 |-> LegPoint(from, to, step, k - 1)]
  BY DEF Leg
<1>7. \A k : LegPoint(from, to, step, k) = IF k = m THEN to ELSE from + Sign(to - from) * k * step
  BY DEF LegPoint
<1>8. n \in Nat /\ n <= m /\ (n # 0 => n = m - 1)
  BY <1>5
<1> HIDE DEF w, p, m, n
<1>9. Len(p) = m + 1 /\ p \in Seq(Int)
  BY <1>3, <1>5, <1>6 DEF FromTo
<1>10. ASSUME NEW i \in 1..n PROVE r[i] = p[i + 1] /\ i + 1 \in 1..Len(p)
  <2>1. i \in Int /\ i # m /\ i + 1 \in 1..m + 1 /\ (i + 1) - 1 = i
    BY <1>5, <1>8
  <2>2. p[i + 1] = LegPoint(from, to, step, (i + 1) - 1)
    BY <1>6, <2>1
  <2>3. LegPoint(from, to, step, i) = from + Sign(to - from) * i * step
    BY <1>7, <2>1
  <2> QED BY <1>9, <2>1, <2>2, <2>3
<1> HIDE DEF r
<1>11. r \in Seq(Int) /\ Len(r) = n
  <2>1. \A i \in 1..n : r[i] \in Int
    BY <1>9, <1>10
  <2>2. r = [k \in 1..n |-> r[k]]
    BY DEF r
  <2> QED BY <1>8, <2>1, <2>2
<1>12. Len(w) = n + 1 /\ w[n + 1] = to /\ \A i \in 1..n : w[i] = r[i]
  BY <1>1, <1>2, <1>8, <1>11
<1>13. ASSUME NEW i \in 1..Len(w) PROVE w[i] \in Int /\ w[i] % grid = 0 /\ Abs(w[i]) <= l
  <2>1. CASE i = n + 1
    BY <1>12, <2>1
  <2>2. CASE i # n + 1
    <3>1. i \in 1..n
      BY <1>8, <1>12, <2>2
    <3> DEFINE k == i + 1
               v == p[k]
    <3>2. w[i] = v /\ k \in 1..Len(p)
      BY <1>10, <1>12, <3>1
    <3> HIDE DEF k
    <3>3. v \in Int /\ Lesser(from, to) <= v /\ v <= Greater(from, to) /\ v % grid = 0
      BY <1>3, <1>9, <3>2 DEF Within, AllOn
    <3> HIDE DEF v
    <3>4. Abs(v) <= l
      BY <3>3 DEF Abs, Lesser, Greater
    <3> QED BY <3>2, <3>3, <3>4
  <2> QED BY <2>1, <2>2
<1> QED BY <1>13 DEF w

\* A path of targets: on the grid, in reach, and no move of it longer than the ramp.
Track(x, grid, l, ramp) ==
    /\ x \in Seq(Int) /\ Len(x) \in Nat \ {0}
    /\ \A k \in 1..Len(x) : x[k] % grid = 0 /\ Abs(x[k]) <= l
    /\ \A k \in 2..Len(x) : Abs(x[k] - x[k - 1]) <= ramp
\* What the parts of a sequence are in the whole.
LEMMA Parted ==
    ASSUME NEW x \in Seq(Int), NEW r \in Seq(Int)
    PROVE  /\ x \o r \in Seq(Int) /\ Len(x \o r) = Len(x) + Len(r)
           /\ \A k \in 1..Len(x) : (x \o r)[k] = x[k]
           /\ \A k \in 1..Len(r) : (x \o r)[Len(x) + k] = r[k]
<1>1. Len(x) \in Nat /\ Len(r) \in Nat
  OBVIOUS
<1>2. ASSUME NEW k \in 1..Len(r) PROVE (x \o r)[Len(x) + k] = r[k]
  <2>1. Len(x) + k \in 1..Len(x) + Len(r) /\ ~(Len(x) + k <= Len(x)) /\ (Len(x) + k) - Len(x) = k
    BY <1>1
  <2> QED BY <1>1, <2>1
<1> QED BY <1>1, <1>2

\* A track that is continued to another target is one.
LEMMA TrackOn ==
    ASSUME NEW grid \in Nat \ {0}, NEW l \in Nat, NEW ramp \in Nat \ {0}, ramp % grid = 0,
           NEW x, Track(x, grid, l, ramp), NEW to \in Int, to % grid = 0, Abs(to) <= l
    PROVE  LET y == (x \o RampLevels(x[Len(x)], to, ramp)) \o <<to>>
           IN  Track(y, grid, l, ramp) /\ y[Len(y)] = to
<1> DEFINE n == Len(x)
           from == x[n]
           r == RampLevels(from, to, ramp)
           w == WayTo(from, to, ramp)
           y == (x \o r) \o <<to>>
           m == Len(w)
<1>1. /\ x \in Seq(Int) /\ n \in Nat \ {0}
      /\ (\A k \in 1..n : x[k] % grid = 0 /\ Abs(x[k]) <= l)
      /\ (\A k \in 2..n : Abs(x[k] - x[k - 1]) <= ramp)
  BY DEF Track
<1>2. from \in Int /\ from % grid = 0 /\ Abs(from) <= l
  <2>1. n \in 1..n
    BY <1>1
  <2> QED BY <1>1, <2>1
<1> HIDE DEF from
<1>3. LeadsTo(w, from, to, ramp)
  BY <1>2, RampFacts
<1>4. /\ w \in Seq(Int) /\ m \in Nat \ {0} /\ w[m] = to /\ Abs(w[1] - from) <= ramp
      /\ \A i \in 2..m : Abs(w[i] - w[i - 1]) <= ramp
  BY <1>3 DEF LeadsTo
<1>5. \A i \in 1..m : w[i] \in Int /\ w[i] % grid = 0 /\ Abs(w[i]) <= l
  BY <1>2, WayWithin
<1>6. w = Append(r, to)
  BY DEF WayTo
<1>7. r \in Seq(Int)
  <2> DEFINE q == IF from = to THEN 0 ELSE CeilDiv(Abs(to - from), ramp) - 1
             s == Sign(to - from)
  <2>1. r = [k \in 1..q |-> from + s * k * ramp]
    BY DEF RampLevels
  <2>2. s \in Int /\ q \in Int
    <3>1. CeilDiv(Abs(to - from), ramp) \in Nat
      <4>1. Abs(to - from) \in Nat
        BY <1>2 DEF Abs
      <4> QED BY <4>1, CeilDivFacts
    <3> QED BY <3>1 DEF Sign
  <2> HIDE DEF s, q, r
  <2>3. \A k \in 1..q : from + s * k * ramp \in Int
    BY <1>2, <2>2
  <2>4. CASE q >= 0
    BY <2>1, <2>2, <2>3, <2>4
  <2>5. CASE q < 0
    <3>1. 1..q = 1..0
      BY <2>2, <2>5
    <3>2. r = [k \in 1..0 |-> from + s * k * ramp]
      BY <2>1, <3>1
    <3> QED BY <3>2
  <2> QED BY <2>2, <2>4, <2>5
<1> HIDE DEF r, w
<1>8. Len(r) = m - 1 /\ (\A j \in 1..m - 1 : r[j] = w[j]) /\ m - 1 \in Nat
  BY <1>4, <1>6, <1>7
<1>20. n \in Nat \ {0} /\ m \in Nat \ {0} /\ m - 1 \in Nat /\ n + (m - 1) \in Nat
  BY <1>1, <1>4
<1> DEFINE z == x \o r
<1> HIDE DEF n, m
<1>24. Len(x) = n /\ Len(r) = m - 1
  BY <1>8 DEF n
<1>21. z \in Seq(Int) /\ Len(z) = n + (m - 1)
  BY <1>1, <1>7, <1>24, Parted
<1>22. \A k \in 1..n : z[k] = x[k]
  BY <1>1, <1>7, <1>24, Parted
<1>23. \A k \in 1..m - 1 : z[n + k] = r[k]
  <2>1. \A k \in 1..Len(r) : (x \o r)[Len(x) + k] = r[k]
    BY <1>1, <1>7, Parted
  <2> HIDE DEF z
  <2>2. \A k \in 1..Len(r) : z[Len(x) + k] = r[k]
    BY <2>1 DEF z
  <2> QED BY <1>24, <2>2
<1> HIDE DEF z
<1>9. y \in Seq(Int) /\ Len(y) = n + m /\ y[n + m] = to /\ \A k \in 1..n + (m - 1) : y[k] = z[k]
  <2>1. y = z \o <<to>>
    BY DEF z
  <2>2. n + m = (n + (m - 1)) + 1
    BY <1>20
  <2>3. Len(<<to>>) = 1 /\ <<to>> \in Seq(Int) /\ <<to>>[1] = to
    OBVIOUS
  <2> HIDE DEF y
  <2>4. y \in Seq(Int) /\ Len(y) = n + m
    BY <1>20, <1>21, <2>1, <2>2, <2>3
  <2>5. y[n + m] = to
    BY <1>20, <1>21, <2>1, <2>2, <2>3
  <2>6. \A k \in 1..n + (m - 1) : y[k] = z[k]
    BY <1>20, <1>21, <2>1, <2>2, <2>3
  <2> QED BY <2>4, <2>5, <2>6
<1>10. \A k \in 1..n : y[k] = x[k]
  <2>1. \A k \in 1..n : k \in 1..n + (m - 1)
    BY <1>20
  <2> QED BY <1>9, <1>22, <2>1
<1>11. ASSUME NEW k \in n + 1..n + m PROVE y[k] = w[k - n] /\ k - n \in 1..m
  <2>1. k \in Int /\ k - n \in 1..m
    BY <1>20
  <2>2. CASE k = n + m
    <3>2. k - n = m
      BY <1>20, <2>2
    <3> QED BY <1>4, <1>9, <2>1, <2>2, <3>2
  <2>3. CASE k # n + m
    <3> DEFINE j == k - n
    <3>1. k \in 1..n + (m - 1) /\ j \in 1..m - 1 /\ n + j = k
      BY <1>20, <2>3
    <3> HIDE DEF j
    <3>2. y[k] = z[k] /\ z[n + j] = r[j]
      BY <1>9, <1>23, <3>1
    <3>3. y[k] = w[j]
      BY <1>8, <3>1, <3>2
    <3> QED BY <2>1, <3>3 DEF j
  <2> QED BY <2>2, <2>3
<1> HIDE DEF y
<1>12. ASSUME NEW k \in 1..Len(y) PROVE y[k] % grid = 0 /\ Abs(y[k]) <= l
  <2>1. CASE k <= n
    <3>1. k \in 1..n
      BY <1>9, <1>20, <2>1
    <3>2. y[k] = x[k]
      BY <1>10, <3>1
    <3>3. x[k] % grid = 0 /\ Abs(x[k]) <= l
      BY <1>1, <3>1 DEF n
    <3> QED BY <3>2, <3>3
  <2>2. CASE k > n
    <3>1. k \in n + 1..n + m
      BY <1>9, <1>20, <2>2
    <3> QED BY <1>5, <1>11, <3>1
  <2> QED BY <1>9, <1>20, <2>1, <2>2
<1>13. ASSUME NEW k \in 2..Len(y) PROVE Abs(y[k] - y[k - 1]) <= ramp
  <2>1. CASE k <= n
    <3>1. k \in 2..n /\ k \in 1..n /\ k - 1 \in 1..n
      BY <1>9, <1>20, <2>1
    <3>2. y[k] = x[k] /\ y[k - 1] = x[k - 1]
      BY <1>10, <3>1
    <3>3. Abs(x[k] - x[k - 1]) <= ramp
      BY <1>1, <3>1 DEF n
    <3> QED BY <3>2, <3>3
  <2>2. CASE k = n + 1
    <3>1. k \in n + 1..n + m /\ k - 1 \in 1..n /\ k - n = 1 /\ k - 1 = n
      BY <1>20, <2>2
    <3>2. y[k] = w[1] /\ y[k - 1] = from
      BY <1>10, <1>11, <3>1 DEF from
    <3> QED BY <1>4, <3>2
  <2>3. CASE k > n + 1
    <3> DEFINE j == k - n
    <3>1. k \in n + 1..n + m /\ k - 1 \in n + 1..n + m /\ (k - 1) - n = j - 1 /\ j \in 2..m
      BY <1>9, <1>20, <2>3
    <3>2. y[k] = w[j] /\ y[k - 1] = w[j - 1]
      BY <1>11, <3>1
    <3> HIDE DEF j
    <3> QED BY <1>4, <3>1, <3>2
  <2> QED BY <1>9, <1>20, <2>1, <2>2, <2>3
<1>14. Len(y) \in Nat \ {0} /\ y[Len(y)] = to
  <2>1. n + m \in n + 1..n + m /\ (n + m) - n = m /\ n + m \in Nat \ {0}
    BY <1>20
  <2>2. y[n + m] = w[(n + m) - n]
    BY <1>11, <2>1
  <2> QED BY <1>4, <1>9, <2>1, <2>2
<1>15. Track(y, grid, l, ramp)
  BY <1>9, <1>12, <1>13, <1>14 DEF Track
<1> QED BY <1>14, <1>15 DEF y, r, from, n

\* Levels: what a path is made of, and that it is a track of the targets.
LEMMA LevelsTrack ==
    ASSUME NEW p, NEW grid \in Nat \ {0}, NEW l \in Nat,
           p.ramp \in Nat \ {0}, p.ramp % grid = 0, p.points \in Seq(Int), AllOn(p.points, grid),
           \A i \in 1..Len(p.points) : Abs(p.points[i]) <= l
    PROVE  Track(Levels(p), grid, l, p.ramp)
<1> DEFINE pts == p.points
           ramp == p.ramp
           n == Len(pts)
           goal(i) == IF i = 0 THEN 0 ELSE pts[i]
           next(i, x) == (x \o RampLevels(goal(i - 1), goal(i), ramp)) \o <<goal(i)>>
           D(f) == [i \in 0..n |-> IF i = 0 THEN <<0>> ELSE next(i, f[i - 1])]
           P == CHOOSE f : f = D(f)
<1>1. Levels(p) = P[n]
  BY DEF Levels
<1>2. n \in Nat
  OBVIOUS
<1>3. \A i \in 1..n : goal(i) \in Int /\ goal(i) % grid = 0 /\ Abs(goal(i)) <= l
  BY DEF AllOn
<1>4. goal(0) = 0 /\ 0 % grid = 0 /\ Abs(0) <= l
  BY DEF Abs
<1>10. ramp \in Nat \ {0} /\ ramp % grid = 0
  OBVIOUS
<1> HIDE DEF n, goal
<1>5. ASSUME NEW i \in 1..n, NEW x, Track(x, grid, l, ramp), x[Len(x)] = goal(i - 1)
      PROVE  Track(next(i, x), grid, l, ramp) /\ next(i, x)[Len(next(i, x))] = goal(i)
  <2>1. goal(i) \in Int /\ goal(i) % grid = 0 /\ Abs(goal(i)) <= l
    BY <1>3
  <2> DEFINE to == goal(i)
             y == (x \o RampLevels(x[Len(x)], to, ramp)) \o <<to>>
  <2>2. y = next(i, x)
    BY <1>5
  <2> HIDE DEF to, next, ramp
  <2>3. Track(y, grid, l, ramp) /\ y[Len(y)] = to
    BY <1>5, <1>10, <2>1, TrackOn DEF to
  <2> HIDE DEF y
  <2> QED BY <2>2, <2>3 DEF to
<1> HIDE DEF next
<1> DEFINE G == {m \in Nat : \E f : f = [i \in 0..m |-> IF i = 0 THEN <<0>> ELSE next(i, f[i - 1])]}
<1>6. \A m \in Nat : m \in G
  <2>1. 0 \in G
    <3> DEFINE f == [i \in 0..0 |-> <<0>>]
    <3>1. f = [i \in 0..0 |-> IF i = 0 THEN <<0>> ELSE next(i, f[i - 1])]
      OBVIOUS
    <3> HIDE DEF f
    <3> QED BY <3>1
  <2>2. ASSUME NEW m \in G PROVE m + 1 \in G
    <3>1. m \in Nat /\ m + 1 \in Nat
      OBVIOUS
    <3>2. PICK g : g = [i \in 0..m |-> IF i = 0 THEN <<0>> ELSE next(i, g[i - 1])]
      BY <2>2
    <3> DEFINE f == [i \in 0..m + 1 |-> IF i = 0 THEN <<0>> ELSE next(i, g[i - 1])]
    <3>3. ASSUME NEW i \in 0..m + 1, i # 0 PROVE g[i - 1] = f[i - 1]
      <4>1. i - 1 \in 0..m /\ i - 1 \in 0..m + 1
        BY <3>1, <3>3
      <4>2. f[i - 1] = IF i - 1 = 0 THEN <<0>> ELSE next(i - 1, g[(i - 1) - 1])
        BY <4>1
      <4>3. g[i - 1] = IF i - 1 = 0 THEN <<0>> ELSE next(i - 1, g[(i - 1) - 1])
        BY <3>2, <4>1
      <4> QED BY <4>2, <4>3
    <3>4. f = [i \in 0..m + 1 |-> IF i = 0 THEN <<0>> ELSE next(i, f[i - 1])]
      BY <3>3
    <3> HIDE DEF f
    <3> QED BY <3>1, <3>4
  <2>3. G \in SUBSET Nat
    OBVIOUS
  <2> HIDE DEF G
  <2> QED BY <2>1, <2>2, <2>3, Induct
<1>7. \E f : f = D(f)
  BY <1>2, <1>6
<1>8. P = D(P)
  <2> HIDE DEF D
  <2> QED BY <1>7
<1> HIDE DEF P
<1>9. P[0] = <<0>> /\ \A i \in 1..n : P[i] = next(i, P[i - 1])
  BY <1>2, <1>8
<1> DEFINE Good(k) == Track(P[k], grid, l, ramp) /\ P[k][Len(P[k])] = goal(k)
           H == {k \in 0..n : Good(k)}
<1>11. 0 \in H
  <2> DEFINE z == <<0>>
  <2>1. z \in Seq(Int) /\ Len(z) = 1 /\ z[1] = 0
    OBVIOUS
  <2> HIDE DEF z
  <2>2. Track(z, grid, l, ramp) /\ z[Len(z)] = 0
    BY <1>4, <2>1 DEF Track
  <2>3. P[0] = z
    BY <1>9 DEF z
  <2> QED BY <1>2, <1>4, <2>2, <2>3
<1>12. ASSUME NEW k \in 0..n, k \in H, k < n PROVE k + 1 \in H
  <2>1. k + 1 \in 1..n /\ (k + 1) - 1 = k /\ Good(k)
    BY <1>2, <1>12
  <2> DEFINE i == k + 1
             x == P[k]
  <2>2. i \in 1..n /\ i - 1 = k /\ i \in 0..n
    BY <1>2, <2>1
  <2>3. Track(x, grid, l, ramp) /\ x[Len(x)] = goal(i - 1)
    BY <2>1, <2>2
  <2> HIDE DEF i, x, ramp
  <2>4. Track(next(i, x), grid, l, ramp) /\ next(i, x)[Len(next(i, x))] = goal(i)
    BY <1>5, <2>2, <2>3
  <2>5. P[i] = next(i, x)
    BY <1>9, <2>2 DEF x
  <2>6. Good(i)
    BY <2>4, <2>5
  <2> QED BY <2>2, <2>6 DEF i
<1>13. \A k \in 0..n : k \in H
  <2> HIDE DEF H
  <2> QED BY <1>2, <1>11, <1>12, InductTo
<1>14. Good(n)
  BY <1>2, <1>13
<1> QED BY <1>1, <1>14

\* The share of a level is the one whole number that makes it up.
MakesUp(y, v, part, sign, a, total) == y \in Int /\ part = sign * a /\ y * total = v * part
\* There is no other whole number of that kind.
LEMMA ShareIs ==
    ASSUME NEW v \in Int, NEW sign \in {-1, 1}, NEW a \in Nat \ {0}, NEW total \in Nat \ {0},
           Exact(v, a, total), NEW part, NEW y, MakesUp(y, v, part, sign, a, total)
    PROVE  y = Scaled(sign * v, a, total)
<1> DEFINE z == Scaled(sign * v, a, total)
<1>1. z \in Int /\ z * total = v * (sign * a)
  BY ShareExact DEF IsShare
<1> HIDE DEF z
<1>2. y \in Int /\ y * total = z * total
  BY <1>1 DEF MakesUp
<1>3. y = z
  BY <1>1, <1>2, Cancel
<1> QED BY <1>3 DEF z

\* What one source does along a path of targets x, its sign and part of them given.
Keeps(q, x, p, sign, a, total) ==
    /\ \A k \in 1..Len(x) :
          /\ Exact(x[k], a, total)
          /\ Aligned(Scaled(sign * x[k], a, total), q.range.resolution)
          /\ Abs(Scaled(sign * x[k], a, total)) <= q.range.maximum
    /\ \A k \in 2..Len(x) :
          Abs(Scaled(sign * x[k], a, total) - Scaled(sign * x[k - 1], a, total))
            <= Lesser(Scaled(p.ramp, a, total), q.range.maximum)
    /\ \A k \in 1..Len(p.points) :
          Exact(p.points[k], a, total) /\ q.points[k] = Scaled(sign * p.points[k], a, total)
\* A source whose grid the targets respect keeps to its share of them.
LEMMA SideKeeps ==
    ASSUME NEW c \in Configurations, NEW p, NEW q, NEW protection, NEW part, NEW sign \in {-1, 1},
           NEW a \in Nat \ {0}, part = sign * a, NEW total, total = c.ratio[1] + c.ratio[2],
           Side(q, protection, c, part, p),
           NEW grid \in Nat \ {0}, \A v \in Int : v % grid = 0 => Follows(v, a, total, q.range.resolution),
           p.ramp \in Nat \ {0}, p.ramp % grid = 0, p.points \in Seq(Int), AllOn(p.points, grid),
           NEW x, Track(x, grid, Largest(c), p.ramp)
    PROVE  Keeps(q, x, p, sign, a, total)
<1> DEFINE l == Largest(c)
           m == q.range.maximum
           r == q.range.resolution
           ramp == p.ramp
           w(v) == Scaled(sign * v, a, total)
<1>1. total \in Nat \ {0}
  <2>1. c.ratio[1] \in Nat \ {0} /\ c.ratio[2] \in Nat \ {0}
    BY ConfigFacts
  <2> QED BY <2>1
<1>2. Abs(part) = a
  BY DEF Abs
<1>3. /\ r \in Nat \ {0} /\ m \in Nat \ {0} /\ q.points \in Seq(Int)
      /\ Scales(q.points, p.points, total, part) /\ l * a <= m * total
      /\ Scaled(ramp, a, total) <= m
  BY <1>2 DEF Side
<1>4. l \in Nat
  BY LargestIs
<1>5. /\ x \in Seq(Int) /\ Len(x) \in Nat \ {0}
      /\ \A k \in 1..Len(x) : x[k] % grid = 0 /\ Abs(x[k]) <= l
      /\ \A k \in 2..Len(x) : Abs(x[k] - x[k - 1]) <= ramp
  BY DEF Track
<1>6. ramp \in Nat \ {0} /\ ramp % grid = 0
  OBVIOUS
<1> HIDE DEF l, m, r, ramp
<1>7. \A v \in Int : v % grid = 0 => Follows(v, a, total, r)
  BY DEF r
<1>8. ASSUME NEW v \in Int, v % grid = 0, Abs(v) <= l
      PROVE  Exact(v, a, total) /\ Aligned(w(v), r) /\ Abs(w(v)) <= m
  <2>1. Follows(v, a, total, r)
    BY <1>7, <1>8
  <2> QED BY <1>1, <1>3, <1>4, <1>8, <2>1, FollowedLevel
<1>9. ASSUME NEW v \in Int, NEW u \in Int, v % grid = 0, u % grid = 0, Abs(v - u) <= ramp
      PROVE  Abs(w(v) - w(u)) <= Scaled(ramp, a, total)
  <2>1. Follows(v, a, total, r) /\ Follows(u, a, total, r) /\ Follows(ramp, a, total, r)
    BY <1>6, <1>7, <1>9
  <2>2. Exact(v, a, total) /\ Exact(u, a, total) /\ Exact(ramp, a, total)
    <3>1. r \in Nat \ {0} /\ ramp \in Int
      BY <1>3, <1>6
    <3>2. Exact(v, a, total)
      BY <1>1, <2>1, <3>1, FollowsFacts
    <3>3. Exact(u, a, total)
      BY <1>1, <2>1, <3>1, FollowsFacts
    <3>4. Exact(ramp, a, total)
      BY <1>1, <2>1, <3>1, FollowsFacts
    <3> QED BY <3>2, <3>3, <3>4
  <2> QED BY <1>1, <1>6, <1>9, <2>2, FollowedMove
<1>10. ASSUME NEW k \in 1..Len(p.points)
       PROVE  Exact(p.points[k], a, total) /\ q.points[k] = w(p.points[k])
  <2> DEFINE v == p.points[k]
             y == q.points[k]
             z == w(v)
  <2>1. v \in Int /\ v % grid = 0
    BY DEF AllOn
  <2>2. y \in Int /\ y * total = v * part
    BY <1>3 DEF Scales
  <2> HIDE DEF v, y
  <2>3. Follows(v, a, total, r)
    BY <1>7, <2>1
  <2>4. Exact(v, a, total)
    BY <1>1, <1>3, <2>1, <2>3, FollowsFacts
  <2>5. MakesUp(y, v, part, sign, a, total)
    BY <2>2 DEF MakesUp
  <2>6. y = Scaled(sign * v, a, total)
    BY <1>1, <2>1, <2>4, <2>5, ShareIs
  <2> HIDE DEF z
  <2>7. y = z
    BY <2>6 DEF z
  <2> QED BY <2>4, <2>7 DEF v, y, z
<1> HIDE DEF w
<1>11. ASSUME NEW k \in 1..Len(x) PROVE Exact(x[k], a, total) /\ Aligned(w(x[k]), r) /\ Abs(w(x[k])) <= m
  <2>1. x[k] \in Int /\ x[k] % grid = 0 /\ Abs(x[k]) <= l
    BY <1>5
  <2> QED BY <1>8, <2>1
<1>12. ASSUME NEW k \in 2..Len(x) PROVE Abs(w(x[k]) - w(x[k - 1])) <= Lesser(Scaled(ramp, a, total), m)
  <2>1. k \in 1..Len(x) /\ k - 1 \in 1..Len(x)
    BY <1>5
  <2>2. x[k] \in Int /\ x[k - 1] \in Int /\ x[k] % grid = 0 /\ x[k - 1] % grid = 0
    BY <1>5, <2>1
  <2>3. Abs(x[k] - x[k - 1]) <= ramp
    BY <1>5
  <2>4. Abs(w(x[k]) - w(x[k - 1])) <= Scaled(ramp, a, total)
    BY <1>9, <2>2, <2>3
  <2> QED BY <1>3, <2>4 DEF Lesser
<1> QED BY <1>10, <1>11, <1>12 DEF Keeps, w, m, r, ramp

\* The two levels of a target.
LEMMA PairIs ==
    ASSUME NEW v \in Int, NEW ratio \in (Nat \ {0}) \X (Nat \ {0})
    PROVE  Pair(v, ratio) = <<Scaled(1 * v, ratio[1], ratio[1] + ratio[2]),
                              Scaled((-1) * v, ratio[2], ratio[1] + ratio[2])>>
<1>1. 1 * v = v /\ (-1) * v = -v
  OBVIOUS
<1> QED BY <1>1 DEF Pair

\* What PairExact says of one balanced plan.
PairKept(p) ==
    LET total == p.ratio[1] + p.ratio[2]
        path == Levels(p)
        share(v, i) == Pair(v, p.ratio)[i]
        of(i) == IF i = 1 THEN p.plan1 ELSE p.plan2
        follows(v) == \A i \in {1, 2} : (v * p.ratio[i]) % (total * of(i).range.resolution) = 0
    IN  /\ \A v \in {path[k] : k \in 1..Len(path)}, i \in {1, 2} :
             /\ Exact(v, p.ratio[i], total)
             /\ Aligned(share(v, i), of(i).range.resolution)
             /\ Abs(share(v, i)) <= of(i).range.maximum
        /\ \A k \in 1..Len(p.points), i \in {1, 2} :
             of(i).points[k] = share(p.points[k], i)
        /\ \A k \in 2..Len(path), i \in {1, 2} :
             Abs(share(path[k], i) - share(path[k - 1], i))
               <= Lesser(Scaled(p.ramp, p.ratio[i], total), of(i).range.maximum)
        /\ p.resolution = Min({v \in 1..p.resolution : follows(v)} \cup {p.resolution + 1})
\* Every accepted plan of two sources is kept to, points and ramps.
LEMMA PairsAreKept ==
    ASSUME NEW c \in Configurations, NEW p \in BalancedPlan(c)
    PROVE  /\ PairKept(p) /\ p.points \in Seq(Int) /\ p.ramp \in Nat \ {0} /\ p.ratio = c.ratio
           /\ \A i \in 1..Len(p.points) :
                /\ Exact(p.points[i], p.ratio[1], p.ratio[1] + p.ratio[2])
                /\ Exact(p.points[i], p.ratio[2], p.ratio[1] + p.ratio[2])
                /\ <<p.plan1.points[i], p.plan2.points[i]>> = Pair(p.points[i], p.ratio)
           /\ Exact(p.ramp, p.ratio[1], p.ratio[1] + p.ratio[2])
           /\ Exact(p.ramp, p.ratio[2], p.ratio[1] + p.ratio[2])
<1> DEFINE a == c.ratio[1]
           b == c.ratio[2]
           t == a + b
           g == p.resolution
           x == Levels(p)
           q1 == p.plan1
           q2 == p.plan2
<1>1. Two(p, c)
  BY TwoFacts
<1>2. /\ p.ratio = c.ratio /\ g \in Nat \ {0}
      /\ p.ramp \in Nat \ {0} /\ p.ramp % g = 0
      /\ BaseLike(p.points, c, Ceil(c.step, g)) /\ AllOn(p.points, g)
      /\ Side(q1, FirstProtection(c), c, a, p) /\ Side(q2, c.protection2, c, -b, p)
      /\ \A v \in Int : v % g = 0 <=> Follows(v, a, t, q1.range.resolution) /\ Follows(v, b, t, q2.range.resolution)
  BY <1>1 DEF Two
<1>3. c.ratio \in (Nat \ {0}) \X (Nat \ {0})
  BY ConfigFacts
<1>4. a \in Nat \ {0} /\ b \in Nat \ {0} /\ t \in Nat \ {0} /\ t = c.ratio[1] + c.ratio[2]
      /\ a = 1 * a /\ -b = (-1) * b /\ 1 \in {-1, 1} /\ -1 \in {-1, 1}
  BY <1>3
<1>5. p.points \in Seq(Int)
  BY <1>2 DEF BaseLike
<1> HIDE DEF a, b, t, g, x, q1, q2
<1>6. Track(x, g, Largest(c), p.ramp)
  <2>1. \A i \in 1..Len(p.points) : Abs(p.points[i]) <= Largest(c)
    BY <1>2, PointsInReach
  <2>2. Largest(c) \in Nat
    BY LargestIs
  <2> QED BY <1>2, <1>5, <2>1, <2>2, LevelsTrack DEF x
<1>7. Keeps(q1, x, p, 1, a, t)
  <2>1. \A v \in Int : v % g = 0 => Follows(v, a, t, q1.range.resolution)
    BY <1>2
  <2> QED BY <1>2, <1>4, <1>5, <1>6, <2>1, SideKeeps
<1>8. Keeps(q2, x, p, -1, b, t)
  <2>1. \A v \in Int : v % g = 0 => Follows(v, b, t, q2.range.resolution)
    BY <1>2
  <2> QED BY <1>2, <1>4, <1>5, <1>6, <2>1, SideKeeps
<1>9. x \in Seq(Int)
  BY <1>6 DEF Track
<1> DEFINE share(v, i) == Pair(v, c.ratio)[i]
           of(i) == IF i = 1 THEN q1 ELSE q2
<1>10. \A v \in Int : share(v, 1) = Scaled(1 * v, a, t) /\ share(v, 2) = Scaled((-1) * v, b, t)
                      /\ Pair(v, c.ratio) = <<share(v, 1), share(v, 2)>>
  <2> SUFFICES ASSUME NEW v \in Int
               PROVE  share(v, 1) = Scaled(1 * v, a, t) /\ share(v, 2) = Scaled((-1) * v, b, t)
                      /\ Pair(v, c.ratio) = <<share(v, 1), share(v, 2)>>
    OBVIOUS
  <2>1. Pair(v, c.ratio) = <<Scaled(1 * v, a, t), Scaled((-1) * v, b, t)>>
    BY <1>3, PairIs DEF a, b, t
  <2> QED BY <2>1
<1>11. of(1) = q1 /\ of(2) = q2 /\ c.ratio[1] = a /\ c.ratio[2] = b
  BY DEF a, b
<1> HIDE DEF share, of
<1>12. ASSUME NEW v \in {x[k] : k \in 1..Len(x)}, NEW i \in {1, 2}
       PROVE  /\ Exact(v, c.ratio[i], t)
              /\ Aligned(share(v, i), of(i).range.resolution)
              /\ Abs(share(v, i)) <= of(i).range.maximum
  <2>1. PICK k \in 1..Len(x) : v = x[k]
    OBVIOUS
  <2>2. v \in Int
    BY <1>9, <2>1
  <2>3. CASE i = 1
    <3>1. /\ Exact(x[k], a, t) /\ Aligned(Scaled(1 * x[k], a, t), q1.range.resolution)
          /\ Abs(Scaled(1 * x[k], a, t)) <= q1.range.maximum
      BY <1>7 DEF Keeps
    <3>2. share(v, 1) = Scaled(1 * v, a, t)
      BY <1>10, <2>2
    <3> QED BY <1>11, <2>1, <2>3, <3>1, <3>2
  <2>4. CASE i = 2
    <3>1. /\ Exact(x[k], b, t) /\ Aligned(Scaled((-1) * x[k], b, t), q2.range.resolution)
          /\ Abs(Scaled((-1) * x[k], b, t)) <= q2.range.maximum
      BY <1>8 DEF Keeps
    <3>2. share(v, 2) = Scaled((-1) * v, b, t)
      BY <1>10, <2>2
    <3> QED BY <1>11, <2>1, <2>4, <3>1, <3>2
  <2> QED BY <2>3, <2>4
<1>13. ASSUME NEW k \in 1..Len(p.points)
       PROVE  /\ q1.points[k] = share(p.points[k], 1) /\ q2.points[k] = share(p.points[k], 2)
              /\ Exact(p.points[k], a, t) /\ Exact(p.points[k], b, t)
              /\ <<q1.points[k], q2.points[k]>> = Pair(p.points[k], c.ratio)
  <2> DEFINE v == p.points[k]
  <2>1. v \in Int
    BY <1>5
  <2>2. Exact(v, a, t) /\ q1.points[k] = Scaled(1 * v, a, t)
    BY <1>7 DEF Keeps
  <2>3. Exact(v, b, t) /\ q2.points[k] = Scaled((-1) * v, b, t)
    BY <1>8 DEF Keeps
  <2> HIDE DEF v
  <2>4. share(v, 1) = Scaled(1 * v, a, t) /\ share(v, 2) = Scaled((-1) * v, b, t)
        /\ Pair(v, c.ratio) = <<share(v, 1), share(v, 2)>>
    BY <1>10, <2>1
  <2> QED BY <2>2, <2>3, <2>4 DEF v
<1>14. \A k \in 1..Len(p.points), i \in {1, 2} : of(i).points[k] = share(p.points[k], i)
  BY <1>11, <1>13
<1>15. ASSUME NEW k \in 2..Len(x), NEW i \in {1, 2}
       PROVE  Abs(share(x[k], i) - share(x[k - 1], i)) <= Lesser(Scaled(p.ramp, c.ratio[i], t), of(i).range.maximum)
  <2>1. k \in 1..Len(x) /\ k - 1 \in 1..Len(x)
    BY <1>9
  <2>2. x[k] \in Int /\ x[k - 1] \in Int
    BY <1>9, <2>1
  <2>3. CASE i = 1
    <3>1. Abs(Scaled(1 * x[k], a, t) - Scaled(1 * x[k - 1], a, t)) <= Lesser(Scaled(p.ramp, a, t), q1.range.maximum)
      BY <1>7 DEF Keeps
    <3>2. share(x[k], 1) = Scaled(1 * x[k], a, t) /\ share(x[k - 1], 1) = Scaled(1 * x[k - 1], a, t)
      BY <1>10, <2>2
    <3> QED BY <1>11, <2>3, <3>1, <3>2
  <2>4. CASE i = 2
    <3>1. Abs(Scaled((-1) * x[k], b, t) - Scaled((-1) * x[k - 1], b, t)) <= Lesser(Scaled(p.ramp, b, t), q2.range.maximum)
      BY <1>8 DEF Keeps
    <3>2. share(x[k], 2) = Scaled((-1) * x[k], b, t) /\ share(x[k - 1], 2) = Scaled((-1) * x[k - 1], b, t)
      BY <1>10, <2>2
    <3> QED BY <1>11, <2>4, <3>1, <3>2
  <2> QED BY <2>3, <2>4
<1> DEFINE follows(v) == \A i \in {1, 2} : (v * c.ratio[i]) % (t * of(i).range.resolution) = 0
           F == {v \in 1..g : follows(v)}
<1>16. \A v \in 1..g : follows(v) <=> v = g
  <2> SUFFICES ASSUME NEW v \in 1..g PROVE follows(v) <=> v = g
    OBVIOUS
  <2>1. follows(v) <=> Follows(v, a, t, q1.range.resolution) /\ Follows(v, b, t, q2.range.resolution)
    BY <1>11 DEF Follows
  <2>2. v \in Int /\ (v % g = 0 <=> Follows(v, a, t, q1.range.resolution) /\ Follows(v, b, t, q2.range.resolution))
    BY <1>2
  <2>3. v % g = 0 <=> v = g
    <3>1. g \in Nat \ {0} /\ v \in 1..g
      BY <1>2
    <3> QED BY <3>1
  <2> HIDE DEF follows
  <2> QED BY <2>1, <2>2, <2>3
<1>17. g = Min(F \cup {g + 1})
  <2> HIDE DEF follows
  <2>0. g \in Int /\ g \in 1..g
    BY <1>2
  <2>1. F \cup {g + 1} = {g, g + 1}
    BY <1>16, <2>0
  <2>2. Min({g, g + 1}) = CHOOSE y \in {g, g + 1} : \A z \in {g, g + 1} : y <= z
    BY DEF Min
  <2>3. \A y \in {g, g + 1} : (\A z \in {g, g + 1} : y <= z) <=> y = g
    BY <2>0
  <2> DEFINE Least(y) == \A z \in {g, g + 1} : y <= z
  <2>4. g \in {g, g + 1} /\ \A y \in {g, g + 1} : Least(y) <=> y = g
    BY <2>3
  <2>5. Min({g, g + 1}) = CHOOSE y \in {g, g + 1} : Least(y)
    BY <2>2
  <2> HIDE DEF Least
  <2>6. (CHOOSE y \in {g, g + 1} : Least(y)) = g
    BY <2>4
  <2> QED BY <2>1, <2>5, <2>6
<1>18. PairKept(p)
  <2> DEFINE S(v, i) == Pair(v, p.ratio)[i]
             O(i) == IF i = 1 THEN p.plan1 ELSE p.plan2
  <2>1. p.ratio = c.ratio /\ t = p.ratio[1] + p.ratio[2] /\ x = Levels(p) /\ g = p.resolution
    BY <1>2, <1>4 DEF x, g
  <2>2. (\A v, i : S(v, i) = share(v, i)) /\ (\A i : O(i) = of(i))
    BY <2>1 DEF share, of, q1, q2
  <2> QED BY <1>12, <1>14, <1>15, <1>17, <2>1, <2>2 DEF PairKept
<1>19. Exact(p.ramp, a, t) /\ Exact(p.ramp, b, t)
  <2>1. Follows(p.ramp, a, t, q1.range.resolution) /\ Follows(p.ramp, b, t, q2.range.resolution)
    BY <1>2
  <2>2. q1.range.resolution \in Nat \ {0} /\ q2.range.resolution \in Nat \ {0}
    BY <1>2 DEF Side
  <2> DEFINE r == p.ramp
  <2>3. r \in Int
    BY <1>2
  <2> HIDE DEF r
  <2>4. Follows(r, a, t, q1.range.resolution) /\ Follows(r, b, t, q2.range.resolution)
    BY <2>1 DEF r
  <2>5. Exact(r, a, t)
    BY <1>4, <2>2, <2>3, <2>4, FollowsFacts
  <2>6. Exact(r, b, t)
    BY <1>4, <2>2, <2>3, <2>4, FollowsFacts
  <2> QED BY <2>5, <2>6 DEF r
<1> QED BY <1>2, <1>4, <1>5, <1>11, <1>13, <1>18, <1>19 DEF q1, q2

-----------------------------------------------------------------------------
(* The planner at work *)

\* What there is of a plan, and of a DC output that is on.
PlanKept == plan \subseteq IF config.balanced THEN BalancedPlan(config) ELSE PlanSingle(config)
Held(d) ==
    /\ d \in [range : Specs[config.model].ranges, limit : Int, asked : Int, step : Int, level : Int]
    /\ Aligned(d.level, d.range.resolution) /\ Aligned(d.step, d.range.resolution)
    /\ Abs(d.level) <= d.range.maximum
    /\ d.limit <= d.asked /\ d.range.fixed <= d.asked
PlannerInvariant == config \in Requests /\ PlanKept /\ \A d \in dc : Held(d)

\* nudge_source_value: a level that is accepted is on the grid and within the range.
LEMMA NudgeFacts ==
    ASSUME NEW value \in Int, NEW r, r.resolution \in Nat \ {0}
    PROVE  /\ Nudge(value, 0, r) # {} => Aligned(value, r.resolution) /\ Abs(value) <= r.maximum
           /\ Nudge(0, value, r) # {} => Aligned(value, r.resolution) /\ Abs(value) <= r.maximum
<1>1. value + 0 = value /\ 0 + value = value
  OBVIOUS
<1>2. Nudge(value, 0, r) = {n \in {value} : Aligned(value, r.resolution) /\ Aligned(0, r.resolution) /\ Abs(n) <= r.maximum}
  BY <1>1 DEF Nudge
<1>3. Nudge(0, value, r) = {n \in {value} : Aligned(0, r.resolution) /\ Aligned(value, r.resolution) /\ Abs(n) <= r.maximum}
  BY <1>1 DEF Nudge
<1> QED BY <1>2, <1>3

\* dc_plan: a DC level is planned as a short sweep.
LEMMA DcConfiguration ==
    ASSUME NEW c \in Configurations, NEW value \in Int, NEW step \in Nat, NEW limit \in Int,
           NEW protection \in Int
    PROVE  [c EXCEPT !.start = 0, !.stop = value, !.step = step, !.limit = limit,
                     !.compliance = protection, !.protection = protection,
                     !.pattern = "Linear"] \in Configurations
<1>1. ASSUME NEW x \in Configurations, NEW v \in Int PROVE [x EXCEPT !.start = v] \in Configurations
  BY DEF Configurations
<1>2. ASSUME NEW x \in Configurations, NEW v \in Int PROVE [x EXCEPT !.stop = v] \in Configurations
  BY DEF Configurations
<1>3. ASSUME NEW x \in Configurations, NEW v \in Nat PROVE [x EXCEPT !.step = v] \in Configurations
  BY DEF Configurations
<1>4. ASSUME NEW x \in Configurations, NEW v \in Int PROVE [x EXCEPT !.limit = v] \in Configurations
  BY DEF Configurations
<1>5. ASSUME NEW x \in Configurations, NEW v \in Int PROVE [x EXCEPT !.compliance = v] \in Configurations
  BY DEF Configurations
<1>6. ASSUME NEW x \in Configurations, NEW v \in Int PROVE [x EXCEPT !.protection = v] \in Configurations
  BY DEF Configurations
<1>7. ASSUME NEW x \in Configurations PROVE [x EXCEPT !.pattern = "Linear"] \in Configurations
  BY DEF Configurations
<1> DEFINE c1 == [c EXCEPT !.start = 0]
           c2 == [c1 EXCEPT !.stop = value]
           c3 == [c2 EXCEPT !.step = step]
           c4 == [c3 EXCEPT !.limit = limit]
           c5 == [c4 EXCEPT !.compliance = protection]
           c6 == [c5 EXCEPT !.protection = protection]
<1>8. c1 \in Configurations
  BY <1>1
<1>9. c2 \in Configurations
  <2> HIDE DEF c1
  <2> QED BY <1>2, <1>8
<1>10. c3 \in Configurations
  <2> HIDE DEF c2
  <2> QED BY <1>3, <1>9
<1>11. c4 \in Configurations
  <2> HIDE DEF c3
  <2> QED BY <1>4, <1>10
<1>12. c5 \in Configurations
  <2> HIDE DEF c4
  <2> QED BY <1>5, <1>11
<1>13. c6 \in Configurations
  <2> HIDE DEF c5
  <2> QED BY <1>6, <1>12
<1>14. [c6 EXCEPT !.pattern = "Linear"] \in Configurations
  <2> HIDE DEF c6
  <2> QED BY <1>7, <1>13
<1> QED BY <1>14

\* dc_plan: what the range and the limiter of an accepted DC level are.
DcAccepted(p, value, step, protection) ==
    /\ p.range \in Specs[config.model].ranges /\ p.limit \in Int
    /\ Aligned(value, p.range.resolution) /\ Aligned(step, p.range.resolution)
    /\ Abs(value) <= p.range.maximum
    /\ p.limit <= protection /\ p.range.fixed <= protection
\* Every DC level that dc_plan accepts is of this kind.
LEMMA DcPlanFacts ==
    ASSUME config \in Configurations, NEW value \in Int, NEW step \in Int, step > 0,
           NEW protection \in Int, NEW wanted,
           wanted = {} \/ \E r \in Specs[config.model].ranges : wanted = {r},
           NEW p \in DcPlan(value, step, protection, wanted)
    PROVE  DcAccepted(p, value, step, protection)
<1> DEFINE c == [config EXCEPT !.start = 0, !.stop = value, !.step = step, !.limit = Abs(value),
                               !.compliance = protection, !.protection = protection,
                               !.pattern = "Linear"]
           m == config.model
           fits == IF wanted = {} THEN ManualRange(c.model, value, protection)
                   ELSE {r \in wanted : FixedRange(c.model, value, protection, r) # {}
                                        /\ Nudge(0, step, r) # {}}
           made(q) == [range |-> IF wanted = {} THEN q.range ELSE CHOOSE r \in wanted : TRUE,
                       limit |-> q.limit]
           Q == PlanSingle(c)
           fit(q) == fits # {} /\ Aligned(step, q.range.resolution) /\ q.limit <= protection
<1>1. DcPlan(value, step, protection, wanted) = {made(q) : q \in {x \in Q : fit(x)}}
  BY DEF DcPlan
<1>2. /\ c \in Configurations /\ c.model = m /\ c.start = 0 /\ c.stop = value /\ c.pattern = "Linear"
      /\ c.compliance = protection /\ c.protection = protection /\ m \in DOMAIN Specs
  <2>1. step \in Nat
    OBVIOUS
  <2>2. Abs(value) \in Int
    BY DEF Abs
  <2>3. c \in Configurations
    BY <2>1, <2>2, DcConfiguration
  <2>4. c.model = m /\ c.start = 0 /\ c.stop = value /\ c.pattern = "Linear"
        /\ c.compliance = protection /\ c.protection = protection
    BY DEF Configurations
  <2>5. m \in DOMAIN Specs
    BY ConfigFacts
  <2> QED BY <2>3, <2>4, <2>5
<1> HIDE DEF c, Q, fit, made
<1>3. PICK q \in Q : fit(q) /\ p = made(q)
  BY <1>1
<1>4. PICK s \in Specs[m].ranges : SinglePlan(q, c, s)
  BY <1>2, <1>3, PlanFacts DEF Q
<1>5. /\ s \in SelectRange(m, Largest(c), protection) /\ protection > 0
      /\ q.range = s /\ q.limit = LimitInForce(c, s) /\ OnRange(c, s)
  BY <1>2, <1>4 DEF SinglePlan
<1>6. Largest(c) = Abs(value) /\ Abs(value) \in Nat
  BY <1>2 DEF Largest, Greater, Abs
<1>7. fits # {} /\ Aligned(step, s.resolution) /\ q.limit <= protection
  BY <1>3, <1>5 DEF fit
<1>8. /\ s.maximum \in Nat \ {0} /\ s.resolution \in Nat \ {0} /\ s.fixed \in Nat
      /\ \A r \in Specs[m].ranges : r.maximum \in Nat \ {0} /\ r.resolution \in Nat \ {0} /\ r.fixed \in Nat
  BY <1>2, ModelFacts
<1>9. /\ Abs(value) <= s.maximum /\ protection <= Specs[m].high /\ s.fixed <= HardwareLimit(m, protection)
  BY <1>2, <1>5, <1>6, RangeFacts
<1>10. HardwareLimit(m, protection) \in Nat
  BY <1>2, HardwareFacts
<1>11. q.limit = IF s.fixed # 0 THEN s.fixed ELSE HardwareLimit(m, protection)
  BY <1>2, <1>5 DEF LimitInForce
<1>12. s.fixed <= protection /\ q.limit \in Int
  BY <1>5, <1>7, <1>8, <1>10, <1>11
<1>13. Aligned(value, s.resolution)
  BY <1>2, <1>5 DEF OnRange
<1>14. CASE wanted = {}
  <2>1. p = [range |-> s, limit |-> q.limit]
    BY <1>3, <1>5, <1>14 DEF made
  <2> QED BY <1>7, <1>9, <1>12, <1>13, <2>1 DEF DcAccepted
<1>15. CASE wanted # {}
  <2>1. PICK r \in Specs[m].ranges : wanted = {r}
    BY <1>15
  <2>2. p = [range |-> r, limit |-> q.limit]
    BY <1>3, <2>1 DEF made
  <2>3. FixedRange(m, value, protection, r) # {} /\ Nudge(0, step, r) # {}
    BY <1>2, <1>7, <2>1
  <2>4. r.resolution \in Nat \ {0} /\ r.maximum \in Nat \ {0} /\ r.fixed \in Nat
    BY <1>8
  <2>5. r.fixed <= HardwareLimit(m, protection) /\ Nudge(0, value, r) # {}
    BY <2>3 DEF FixedRange
  <2>6. Aligned(value, r.resolution) /\ Abs(value) <= r.maximum /\ Aligned(step, r.resolution)
    BY <2>3, <2>4, <2>5, NudgeFacts
  <2>7. r \in Eligible(m, Largest(c), protection)
    BY <1>6, <1>9, <2>5, <2>6 DEF Eligible
  <2>8. s.maximum <= r.maximum
    BY <1>5, <2>7 DEF SelectRange
  <2>9. s = r \/ r.fixed <= s.fixed
    BY <1>2, <2>8, PlanningAssumption DEF PlanningAssumption
  <2>10. r.fixed <= protection
    BY <1>8, <1>12, <2>4, <2>9
  <2> QED BY <1>7, <1>12, <2>2, <2>6, <2>10 DEF DcAccepted
<1> QED BY <1>14, <1>15

\* It holds at the start and is kept by a change of the DC output.
LEMMA SetDcKeeps ==
    ASSUME PlannerInvariant, SetDc
    PROVE  PlannerInvariant'
<1>1. config \in Requests /\ config \in Configurations /\ PlanKept /\ \A d \in dc : Held(d)
  BY PlannerAssumption DEF PlannerInvariant, PlannerAssumption
<1> DEFINE planned(l, s, a, w) == DcPlan(l, s, a, w)
           started(l, s, a, w) == {[range |-> p.range, limit |-> p.limit, asked |-> a,
                                    step |-> s, level |-> l] : p \in planned(l, s, a, w)}
           held(l, s, w) == {d \in dc : Holds(d, l, s, w)}
           moved(l, s, a, w) == {[d EXCEPT !.level = l, !.step = s, !.asked = a] :
                        d \in {h \in held(l, s, w) : \E p \in planned(l, s, a, w) : h.asked = p.limit}}
<1>2. PICK value \in DcLevels, step \in {s \in DcLevels : s > 0},
           protection \in {config.protection, 10} \ {0},
           wanted \in {{}} \cup {{r} : r \in Specs[config.model].ranges} :
        dc' = IF planned(value, step, protection, wanted) = {}
                 \/ (dc # {} /\ held(value, step, wanted) = {} /\ wanted # {}) THEN {}
              ELSE IF held(value, step, wanted) # {} THEN moved(value, step, protection, wanted)
              ELSE started(value, step, protection, wanted)
  BY DEF SetDc
<1>3. config' = config /\ plan' = plan
  BY DEF SetDc
<1>4. value \in Int /\ step \in Int /\ step > 0 /\ protection \in Int
      /\ (wanted = {} \/ \E r \in Specs[config.model].ranges : wanted = {r})
  <2>1. DcLevels \subseteq Int /\ config.protection \in Int
    BY <1>1, PlannerAssumption, ConfigFacts DEF PlannerAssumption
  <2>2. value \in DcLevels /\ step \in DcLevels /\ step > 0
    OBVIOUS
  <2>3. protection = config.protection \/ protection = 10
    OBVIOUS
  <2>4. wanted = {} \/ \E r \in Specs[config.model].ranges : wanted = {r}
    OBVIOUS
  <2>5. value \in Int /\ step \in Int /\ step > 0
    BY <2>1, <2>2
  <2>6. protection \in Int
    BY <2>1, <2>3
  <2> QED BY <2>4, <2>5, <2>6, Zenon
<1> HIDE DEF planned
<1>5. ASSUME NEW p \in planned(value, step, protection, wanted) PROVE DcAccepted(p, value, step, protection)
  BY <1>1, <1>4, DcPlanFacts DEF planned
<1> HIDE DEF started, held, moved
<1>6. ASSUME NEW d \in started(value, step, protection, wanted) PROVE Held(d)
  <2>1. PICK p \in planned(value, step, protection, wanted) :
           d = [range |-> p.range, limit |-> p.limit, asked |-> protection, step |-> step, level |-> value]
    BY DEF started
  <2>2. DcAccepted(p, value, step, protection)
    BY <1>5
  <2> QED BY <1>4, <2>1, <2>2 DEF DcAccepted, Held
<1>7. ASSUME NEW d \in moved(value, step, protection, wanted) PROVE Held(d)
  <2>1. PICK h \in held(value, step, wanted) :
           /\ d = [h EXCEPT !.level = value, !.step = step, !.asked = protection]
           /\ \E p \in planned(value, step, protection, wanted) : h.asked = p.limit
    BY DEF moved
  <2>2. h \in dc /\ Holds(h, value, step, wanted) /\ Held(h)
    BY <1>1 DEF held
  <2>3. h.asked <= protection
    <3>1. PICK p \in planned(value, step, protection, wanted) : h.asked = p.limit
      BY <2>1
    <3>2. p.limit <= protection
      BY <1>5 DEF DcAccepted
    <3> QED BY <3>1, <3>2
  <2>4. h \in [range : Specs[config.model].ranges, limit : Int, asked : Int, step : Int, level : Int]
        /\ h.limit <= h.asked /\ h.range.fixed <= h.asked
    BY <2>2 DEF Held
  <2>5. h.range.resolution \in Nat \ {0} /\ h.range.fixed \in Nat
    <3>1. config.model \in DOMAIN Specs /\ h.range \in Specs[config.model].ranges
      BY <1>1, <2>4, ConfigFacts
    <3> QED BY <3>1, ModelFacts
  <2>6. Nudge(value, 0, h.range) # {} /\ Nudge(step, 0, h.range) # {}
    BY <2>2 DEF Holds
  <2>7. Aligned(value, h.range.resolution) /\ Abs(value) <= h.range.maximum
        /\ Aligned(step, h.range.resolution)
    BY <1>4, <2>5, <2>6, NudgeFacts
  <2>8. h.limit <= protection /\ h.range.fixed <= protection
    BY <1>4, <2>3, <2>4, <2>5
  <2>9. /\ d.range = h.range /\ d.limit = h.limit /\ d.asked = protection /\ d.step = step /\ d.level = value
        /\ d \in [range : Specs[config.model].ranges, limit : Int, asked : Int, step : Int, level : Int]
    BY <1>4, <2>1, <2>4
  <2> QED BY <2>7, <2>8, <2>9 DEF Held
<1>8. \A d \in dc' : Held(d)
  BY <1>2, <1>6, <1>7
<1>10. (\A d \in dc : Held(d))'
  BY <1>3, <1>8 DEF Held
<1> QED BY <1>1, <1>3, <1>10 DEF PlannerInvariant, PlanKept

\* The inductive invariant of the planner.
THEOREM PlannerInvariantHolds == PlannerSpec => []PlannerInvariant
<1>1. PlannerInit => PlannerInvariant
  BY DEF PlannerInit, PlannerInvariant, PlanKept
<1>2. ASSUME PlannerInvariant, [PlannerNext]_plannerVars PROVE PlannerInvariant'
  <2>1. CASE Plan
    <3>1. config' = config /\ dc' = dc
          /\ plan' = IF config.balanced THEN BalancedPlan(config) ELSE PlanSingle(config)
      BY <2>1 DEF Plan
    <3>2. PlanKept'
      BY <3>1 DEF PlanKept
    <3>3. (\A d \in dc : Held(d))'
      BY <1>2, <3>1 DEF PlannerInvariant, Held
    <3> QED BY <1>2, <3>1, <3>2, <3>3 DEF PlannerInvariant
  <2>2. CASE SetDc
    BY <1>2, <2>2, SetDcKeeps
  <2>3. CASE UNCHANGED plannerVars
    BY <1>2, <2>3 DEF plannerVars, PlannerInvariant, PlanKept, Held
  <2> QED BY <1>2, <2>1, <2>2, <2>3 DEF PlannerNext
<1> QED BY <1>1, <1>2, PTL DEF PlannerSpec

\* What the invariant says of a plan: it is one of the configuration's.
LEMMA PlannedFacts ==
    ASSUME PlannerInvariant, NEW p \in plan
    PROVE  /\ config \in Configurations
           /\ config.balanced => p \in BalancedPlan(config)
           /\ ~config.balanced => p \in PlanSingle(config)
BY PlannerAssumption DEF PlannerInvariant, PlanKept, PlannerAssumption

\* A DC output that is on is on the grid of its range and within the protection
\* asked for, through any series of changes (engine/source_dc.rs).
THEOREM PlannerDcOnGrid == PlannerSpec => []DcOnGrid
<1>1. PlannerInvariant => DcOnGrid
  BY DEF PlannerInvariant, Held, DcOnGrid
<1> QED BY <1>1, PlannerInvariantHolds, PTL

\* A balanced sweep keeps both sources on target, on their grids, within their
\* ranges and their ramps, at every level of it.
THEOREM PlannerPairExact == PlannerSpec => []PairExact
<1>1. ASSUME PlannerInvariant PROVE PairExact
  <2>1. ASSUME config.balanced, NEW p \in plan PROVE PairKept(p)
    BY <1>1, <2>1, PlannedFacts, PairsAreKept
  <2> QED BY <2>1 DEF PairExact, PairKept
<1> QED BY <1>1, PlannerInvariantHolds, PTL

\* The points of an accepted sweep: on the grid, within every limit, both ends met
\* exactly, its directions changing exactly where it turns.
THEOREM PlannerPointsExact == PlannerSpec => []PointsExact
<1>1. ASSUME PlannerInvariant PROVE PointsExact
  <2> SUFFICES ASSUME NEW p \in plan
               PROVE  LET grid == IF config.balanced THEN p.resolution ELSE p.range.resolution
                      IN  /\ Len(p.points) \in 1..MaxPoints
                          /\ \A i \in 1..Len(p.points) : Aligned(p.points[i], grid) /\ Abs(p.points[i]) <= config.limit
                          /\ PointsKept(p, config, Ceil(config.step, grid))
    BY DEF PointsExact, PointsKept, Turns
  <2>1. config \in Configurations /\ (config.balanced => p \in BalancedPlan(config))
        /\ (~config.balanced => p \in PlanSingle(config))
    BY <1>1, PlannedFacts
  <2>2. CASE config.balanced
    <3>1. Two(p, config)
      BY <2>1, <2>2, TwoFacts
    <3> DEFINE step == Ceil(config.step, p.resolution)
    <3>2. /\ p.directions = Directions(p.points) /\ BaseLike(p.points, config, step)
          /\ AllOn(p.points, p.resolution) /\ Len(p.points) \in 1..MaxPoints
          /\ \A i \in 1..Len(p.points) : Abs(p.points[i]) <= config.limit
      BY <3>1 DEF Two
    <3> HIDE DEF step
    <3>3. PointsKept(p, config, step)
      BY <2>1, <3>2, PointsAreKept
    <3> QED BY <2>2, <3>2, <3>3 DEF AllOn, Aligned, step
  <2>3. CASE ~config.balanced
    <3>1. PICK r \in Specs[config.model].ranges : SinglePlan(p, config, r)
      BY <2>1, <2>3, PlanFacts
    <3> DEFINE step == StepOf(config, r)
    <3>2. p.directions = Directions(p.points) /\ p.range = r
      BY <3>1 DEF SinglePlan
    <3>3. /\ BaseLike(p.points, config, step) /\ AllOn(p.points, r.resolution)
          /\ Len(p.points) \in 1..MaxPoints
          /\ \A i \in 1..Len(p.points) : Abs(p.points[i]) <= config.limit
      BY <2>1, <3>1, SinglePoints
    <3>4. step = Ceil(config.step, p.range.resolution)
      BY <3>2 DEF StepOf
    <3> HIDE DEF step
    <3>5. PointsKept(p, config, step)
      BY <2>1, <3>2, <3>3, PointsAreKept
    <3> QED BY <2>3, <3>2, <3>3, <3>4, <3>5 DEF AllOn, Aligned
  <2> QED BY <2>2, <2>3
<1> QED BY <1>1, PlannerInvariantHolds, PTL

\* The programmed protection never exceeds the one asked for by more than the
\* rounding of the setting; with two sources not at all.
THEOREM PlannerLimitKept == PlannerSpec => []LimitKept
<1>1. ASSUME PlannerInvariant PROVE LimitKept
  <2> SUFFICES ASSUME NEW p \in plan
               PROVE  IF config.balanced
                        THEN /\ p.plan2.limit <= config.protection2
                             /\ p.plan1.limit <= FirstProtection(config)
                        ELSE config.protection # 0 =>
                               \/ p.limit < config.protection + Specs[config.model].quantum
                               \/ p.limit <= Ceil(Specs[config.model].low, Specs[config.model].quantum)
    BY DEF LimitKept, FirstProtection
  <2>1. config \in Configurations /\ (config.balanced => p \in BalancedPlan(config))
        /\ (~config.balanced => p \in PlanSingle(config))
    BY <1>1, PlannedFacts
  <2>2. CASE config.balanced
    <3>1. Two(p, config)
      BY <2>1, <2>2, TwoFacts
    <3> QED BY <2>2, <3>1 DEF Two, Side
  <2>3. CASE ~config.balanced
    <3> SUFFICES ASSUME config.protection # 0
                 PROVE  \/ p.limit < config.protection + Specs[config.model].quantum
                        \/ p.limit <= Ceil(Specs[config.model].low, Specs[config.model].quantum)
      BY <2>3
    <3> DEFINE m == config.model
               a == config.protection
               h == HardwareLimit(m, a)
               low == Ceil(Specs[m].low, Specs[m].quantum)
               d == Specs[m].quantum
    <3>1. PICK r \in Specs[m].ranges : SinglePlan(p, config, r)
      BY <2>1, <2>3, PlanFacts
    <3>2. r \in SelectRange(m, Largest(config), a) /\ p.limit = LimitInForce(config, r)
      BY <3>1 DEF SinglePlan
    <3>3. m \in DOMAIN Specs /\ a \in Int
      BY <2>1, ConfigFacts
    <3>4. r.fixed \in Nat /\ r.fixed <= h
      BY <3>2, <3>3, RangeFacts, ModelFacts
    <3>5. h \in Nat /\ (h < a + d \/ h <= low)
      BY <3>3, HardwareFacts
    <3>6. p.limit = r.fixed \/ p.limit = h
      BY <3>2 DEF LimitInForce
    <3>7. d \in Nat \ {0} /\ Specs[m].low \in Nat
      BY <3>3, ModelFacts
    <3>8. low \in Nat
      BY <3>7, CeilFacts
    <3> HIDE DEF h, low, d, a
    <3>9. p.limit \in Nat /\ p.limit <= h
      BY <3>4, <3>5, <3>6
    <3>10. p.limit < a + d \/ p.limit <= low
      BY <3>3, <3>5, <3>7, <3>8, <3>9 DEF a
    <3> QED BY <3>10 DEF a, d, low
  <2> QED BY <2>2, <2>3
<1> QED BY <1>1, PlannerInvariantHolds, PTL

-----------------------------------------------------------------------------
(* What a balanced sweep relies on of its plan *)

\* A differential level that both sources can be set to exactly.
OnGrid(v) ==
    v \in Int /\ Exact(v, Drive.ratio[1], Drive.ratio[1] + Drive.ratio[2])
              /\ Exact(v, Drive.ratio[2], Drive.ratio[1] + Drive.ratio[2])

\* The planner's promises, for the plan that is driven.
LEMMA DriveFacts ==
    /\ Drive.ratio \in (Nat \ {0}) \X (Nat \ {0})
    /\ Drive.ramp \in Nat \ {0} /\ OnGrid(Drive.ramp)
    /\ Drive.points \in Seq(Int)
    /\ \A i \in 1..Count :
          /\ OnGrid(Drive.points[i])
          /\ <<Drive.plan1.points[i], Drive.plan2.points[i]>> = Pair(Drive.points[i], Drive.ratio)
<1>1. Drive \in BalancedPlan(Request) /\ Request \in Configurations
  BY BalancedAssumption DEF BalancedAssumption, Drive
<1>2. Request.ratio \in (Nat \ {0}) \X (Nat \ {0})
  BY <1>1, ConfigFacts
<1>3. /\ Drive.points \in Seq(Int) /\ Drive.ramp \in Nat \ {0} /\ Drive.ratio = Request.ratio
      /\ \A i \in 1..Len(Drive.points) :
           /\ Exact(Drive.points[i], Drive.ratio[1], Drive.ratio[1] + Drive.ratio[2])
           /\ Exact(Drive.points[i], Drive.ratio[2], Drive.ratio[1] + Drive.ratio[2])
           /\ <<Drive.plan1.points[i], Drive.plan2.points[i]>> = Pair(Drive.points[i], Drive.ratio)
      /\ Exact(Drive.ramp, Drive.ratio[1], Drive.ratio[1] + Drive.ratio[2])
      /\ Exact(Drive.ramp, Drive.ratio[2], Drive.ratio[1] + Drive.ratio[2])
  BY <1>1, PairsAreKept
<1>4. \A i \in 1..Count : Drive.points[i] \in Int
  BY <1>3 DEF Count
<1> QED BY <1>2, <1>3, <1>4 DEF OnGrid, Count
-----------------------------------------------------------------------------
(* The inductive invariant of a balanced sweep *)

\* The parts of `execute`.
Starting == {"begin", "setup", "configure", "first on", "second on"}
Moving == {"first", "second", "check", "wait", "convert"}
There == {"read", "verify", "save"}
Measuring == {"point"} \cup Moving \cup There
Judged == {"csv", "audit", "hashes", "manifest", "ended"}
Ending == {"collect", "settle"} \cup Judged

Phases == {"Ready", "Preparing", "Running", "CleaningUp", "Failed", "SourceLimitStop",
           "ComplianceStop", "Stopped", "Completed"}
Snapshot == [conn : [Roles -> Kinds \cup {"none"}], out : [Outputs -> OutputStates],
             held : [Outputs -> BOOLEAN], err : BOOLEAN, phase : Phases,
             phys : [Outputs -> BOOLEAN], missed : BOOLEAN]
Alerts == {"none", "source", "meter"}
Locals == [profile : BOOLEAN, guarded : BOOLEAN, at : Int, point : Nat \ {0}, hop : Nat \ {0},
           reading : Nat, polls : Nat, limited : BOOLEAN, armed : BOOLEAN, stopped : BOOLEAN,
           failed : BOOLEAN, alert : Alerts, lost : BOOLEAN]
Row == {"ok", "limit"}
Recordings == [rows : Seq(Row), points : Nat, csv : {"none", "open", "final"},
               audit : {"none", "open", "final"}, manifest : {"none", "in progress"} \cup Phases]

\* Both sources are connected, and are of one kind; a simulated one is never on.
Sound(S) ==
    /\ S \in Snapshot
    /\ S.conn["source"] \in Kinds /\ S.conn["source2"] = S.conn["source"]
    /\ ~Live(S, "source") => \A r \in Sweepers : ~S.phys[r]

TypeInv ==
    /\ pc \in Starting \cup Measuring \cup Ending
    /\ Sound(state) /\ run \in Locals /\ rec \in Recordings /\ level \in Int \X Int
    /\ pc \in (Starting \ {"begin"}) \cup Measuring \cup {"collect"} => ~state.err

\* What the measuring closure has noted while it runs.
OpenInv ==
    /\ pc \in Starting \cup Measuring \cup {"settle"} => ~run.failed /\ ~run.stopped
    /\ pc \in Starting \cup (Measuring \ {"save"}) => run.alert = "none" /\ ~run.limited
    /\ pc = "save" => run.alert = IF run.limited THEN "meter" ELSE "none"
    /\ pc \in Starting \cup {"settle"} => ~run.armed /\ run.point = 1 /\ run.at = 0
    /\ pc \notin {"audit", "hashes", "manifest", "ended"} => ~run.lost

\* The rows while points are measured, and afterwards.
AllRows == rec.rows = [i \in 1..Count |-> "ok"]
RowsInv ==
    /\ pc \in Starting => rec.rows = <<>>
    /\ pc \in Measuring => /\ Len(rec.rows) = run.point - 1 /\ run.point <= Count + 1
                           /\ \A i \in 1..Len(rec.rows) : rec.rows[i] = "ok"
    /\ pc \in Moving \cup There => run.point <= Count
    /\ pc = "collect" /\ ~run.failed /\ ~run.stopped /\ run.alert = "none" => AllRows
    /\ pc \in Judged /\ state.phase = "Completed" => AllRows
    /\ rec.manifest \notin {"none", "in progress"} =>
         /\ pc = "ended" /\ rec.points = Len(rec.rows)
         /\ rec.manifest = "Completed" => AllRows

\* What the verdict rests on.  A recording that failed is made good for in Hashes.
GateShut == Live(state, "gate") => ~state.phys["gate"] \/ state.missed
VerdictInv ==
    /\ pc \in Judged /\ state.phase # "Failed" =>
         /\ \A r \in Sweepers : state.out[r] = "Off" /\ ~state.phys[r]
         /\ ~state.err
         /\ pc # "csv" => rec.csv = "final"
         /\ pc \notin {"csv", "audit"} => rec.audit = "final" \/ (pc = "hashes" /\ run.lost)
         /\ pc = "ended" => rec.manifest = state.phase
    /\ pc \in Judged /\ state.phase \notin {"Completed", "Stopped"} =>
         GateShut \/ (pc \in {"audit", "hashes"} /\ run.lost)
    /\ pc \in Judged => state.out["source"] # "On"

\* Once the set-up has switched both outputs on they stay on while points are
\* measured, but for the one at the limit.
DrivenInv ==
    /\ Real /\ pc = "second on" => state.phys["source"]
    /\ Real /\ pc \in Measuring /\ run.armed /\ ~run.limited => BothOn

\* Where the two levels are on their way: at a differential level, or the first
\* source one move ahead of the second.
Stands(v) == level = Pair(v, Drive.ratio)
Before == IF run.hop = 1 THEN run.at ELSE Way[run.hop - 1]
Close == Gap * (Drive.ratio[1] + Drive.ratio[2]) <= Drive.ramp * Drive.ratio[1] * Drive.ratio[2]
LevelInv ==
    /\ OnGrid(run.at)
    /\ pc \in {"configure", "first on", "second on", "point"} \cup There => Stands(run.at)
    /\ pc \in There => run.at = Drive.points[run.point]
    /\ pc \in Moving => run.hop \in 1..Len(Way)
    /\ pc = "first" => Stands(Before)
    /\ pc = "second" => level = <<Pair(Way[run.hop], Drive.ratio)[1], Pair(Before, Drive.ratio)[2]>>
    /\ pc \in {"check", "wait", "convert"} => Stands(Way[run.hop])
    /\ run.armed /\ pc \in Ending => Close

Inv == TypeInv /\ OpenInv /\ RowsInv /\ VerdictInv /\ DrivenInv /\ LevelInv

-----------------------------------------------------------------------------
(* The instruments *)

\* T differs from S in the gate only.
GateOnly(S, T) ==
    /\ T \in Snapshot /\ T.conn = S.conn /\ T.err = S.err /\ T.phase = S.phase
    /\ \A r \in Sweepers : T.phys[r] = S.phys[r] /\ T.out[r] = S.out[r]

\* T differs from S in the sources, of which none was turned on.
SourcesOnly(S, T) ==
    /\ Sound(T) /\ T.conn = S.conn /\ T.err = S.err /\ T.phase = S.phase
    /\ T.phys["gate"] = S.phys["gate"] /\ T.missed = S.missed
    /\ \A r \in Sweepers : T.phys[r] => S.phys[r]

\* What every failure leaves of a snapshot.
After(S, T) == Sound(T) /\ T.conn = S.conn /\ T.err = S.err

\* Results of the helpers.
LEMMA Results ==
    \A S : Ok(S).ok = TRUE /\ Ok(S).s = S /\ Err(S).ok = FALSE /\ Err(S).s = S
BY DEF Ok, Err

\* A source's connection is one of a source.
LEMMA Names == "gate" \in Outputs /\ Sweepers = Outputs \ {"gate"} /\ Outputs \subseteq Roles
               /\ {"Off", "Unknown", "On"} = OutputStates
BY DEF Outputs, Sweepers, Roles, OutputStates

\* What is shown of the gate.
LEMMA ShownGate ==
    ASSUME NEW S \in Snapshot, NEW v \in OutputStates
    PROVE  /\ GateOnly(S, Shown(S, "gate", v)) /\ Shown(S, "gate", v).phys = S.phys
           /\ Shown(S, "gate", v).missed = S.missed
BY Names DEF Shown, Snapshot, GateOnly

\* A gate that is turned off, verified or not.
LEMMA GateTurnedOff ==
    ASSUME NEW S \in Snapshot
    PROVE  GateOnly(S, TurnedOff(S, "gate")) /\ ~TurnedOff(S, "gate").phys["gate"]
BY Names DEF TurnedOff, Known, Snapshot, GateOnly

\* A gate whose OFF could not be verified.
LEMMA GateMissed ==
    ASSUME NEW S \in Snapshot, NEW T \in Missed(S, "gate")
    PROVE  GateOnly(S, T) /\ T.missed
<1>1. PICK p \in {FALSE, S.phys["gate"]} : T = [S EXCEPT !.phys["gate"] = p, !.missed = S.missed \/ TRUE]
  BY DEF Missed
<1>2. p \in BOOLEAN
  BY Names DEF Snapshot
<1> QED BY <1>1, <1>2, Names DEF Snapshot, GateOnly

\* One change of the gate after another.
LEMMA GateTwice ==
    ASSUME NEW S, NEW T, NEW U, GateOnly(S, T), GateOnly(T, U)
    PROVE  GateOnly(S, U)
BY DEF GateOnly

\* force_off of the gate.
LEMMA ForceOffGate ==
    ASSUME NEW S \in Snapshot, NEW q \in ForceOff(S, "gate")
    PROVE  /\ GateOnly(S, q.s) /\ q.ok \in BOOLEAN
           /\ Live(S, "gate") => ~q.s.phys["gate"] \/ q.s.missed
<1> DEFINE g == "gate"
<1>0. {"Off", "Unknown"} \subseteq OutputStates
  BY DEF OutputStates
<1>1. CASE ~Live(S, g) /\ q = Ok(Shown(S, g, "Off"))
  BY <1>0, <1>1, ShownGate, Results
<1>2. CASE q = Ok(Shown(TurnedOff(S, g), g, "Off"))
  <2> DEFINE D == TurnedOff(S, g)
  <2>1. D \in Snapshot /\ GateOnly(S, D) /\ ~D.phys[g]
    BY GateTurnedOff DEF GateOnly
  <2> HIDE DEF D
  <2>2. GateOnly(D, Shown(D, g, "Off")) /\ Shown(D, g, "Off").phys = D.phys
    BY <1>0, <2>1, ShownGate
  <2>3. GateOnly(S, Shown(D, g, "Off"))
    BY <2>1, <2>2, GateTwice
  <2> QED BY <1>2, <2>1, <2>2, <2>3, Results DEF D
<1>3. ASSUME NEW T \in Missed(S, g), q = Err(Shown(T, g, "Unknown")) \/ q = Err(T)
      PROVE  GateOnly(S, q.s) /\ q.ok \in BOOLEAN /\ q.s.missed
  <2>1. T \in Snapshot /\ GateOnly(S, T) /\ T.missed
    BY GateMissed DEF GateOnly
  <2>2. GateOnly(T, Shown(T, g, "Unknown")) /\ Shown(T, g, "Unknown").missed = T.missed
    BY <1>0, <2>1, ShownGate
  <2>3. GateOnly(S, Shown(T, g, "Unknown"))
    BY <2>1, <2>2, GateTwice
  <2> QED BY <1>3, <2>1, <2>2, <2>3, Results
<1> QED BY <1>1, <1>2, <1>3 DEF ForceOff

\* shutdown_gate.
LEMMA ShutdownGateFacts ==
    ASSUME NEW S \in Snapshot, NEW q \in ShutdownGate(S)
    PROVE  /\ GateOnly(S, q.s) /\ q.ok \in BOOLEAN
           /\ Live(S, "gate") => ~q.s.phys["gate"] \/ q.s.missed
<1>1. CASE Connected(S, "gate")
  BY <1>1, ForceOffGate DEF ShutdownGate
<1>2. CASE ~Connected(S, "gate")
  BY <1>2, Results DEF ShutdownGate, GateOnly, Connected, Live
<1> QED BY <1>1, <1>2

\* gate::check that fails.
LEMMA GateFaultFacts ==
    ASSUME NEW S \in Snapshot, NEW T \in GateFault(S)
    PROVE  GateOnly(S, T)
<1>1. T = S \/ \E q \in ForceOff(S, "gate") : T = q.s \/ T = Shown(q.s, "gate", "Unknown")
  BY DEF GateFault, CheckFault, Outcomes, FailClosed, Err
<1>2. CASE T = S
  BY <1>2 DEF GateOnly
<1>3. ASSUME NEW q \in ForceOff(S, "gate"), T = q.s \/ T = Shown(q.s, "gate", "Unknown")
      PROVE  GateOnly(S, T)
  <2>1. q.s \in Snapshot /\ GateOnly(S, q.s)
    BY ForceOffGate DEF GateOnly
  <2>2. GateOnly(q.s, Shown(q.s, "gate", "Unknown"))
    BY <2>1, ShownGate, Names
  <2> QED BY <1>3, <2>1, <2>2, GateTwice
<1> QED BY <1>1, <1>2, <1>3

\* A change of the gate leaves the sources as they are.
LEMMA GateSound ==
    ASSUME NEW S, NEW T, Sound(S), GateOnly(S, T)
    PROVE  Sound(T) /\ After(S, T)
BY DEF Sound, GateOnly, After, Live

\* shutdown_sweep_sources: OFF to both.  Verified, both are off.
LEMMA SweepOffFacts ==
    ASSUME NEW S, Sound(S), NEW q \in SweepOff(S)
    PROVE  /\ SourcesOnly(S, q.s) /\ q.ok \in BOOLEAN /\ q.s.out["source"] # "On"
           /\ q.ok => \A r \in Sweepers : q.s.out[r] = "Off" /\ ~q.s.phys[r]
<1> DEFINE live == {r \in Sweepers : Live(S, r)}
           phys(V, W) == [r \in Outputs |-> S.phys[r] /\ r \notin V \cup W]
           held(V) == [r \in Outputs |-> S.held[r] /\ (r = "gate" \/ V # live)]
           out(V) == [r \in Outputs |->
                       CASE r = "source" -> IF V = live THEN "Off" ELSE "Unknown"
                         [] r = "source2" /\ Connected(S, r) ->
                              IF r \in V \/ ~Live(S, r) THEN "Off" ELSE "Unknown"
                         [] OTHER -> S.out[r]]
           result(V, W) ==
             [ok |-> V = live, s |-> [S EXCEPT !.phys = phys(V, W), !.held = held(V), !.out = out(V)]]
<1>1. SweepOff(S) = UNION {{result(V, W) : W \in SUBSET (live \ V)} : V \in SUBSET live}
  BY DEF SweepOff
<1>2. PICK V \in SUBSET live : \E W \in SUBSET (live \ V) : q = result(V, W)
  <2> HIDE DEF result, live
  <2> QED BY <1>1
<1>2a. PICK W \in SUBSET (live \ V) : q = result(V, W)
  BY <1>2
<1>3. S \in Snapshot /\ S.out \in [Outputs -> OutputStates] /\ S.phys \in [Outputs -> BOOLEAN]
      /\ S.held \in [Outputs -> BOOLEAN] /\ S.conn["source2"] \in Kinds
  BY DEF Sound, Snapshot
<1>4. phys(V, W) \in [Outputs -> BOOLEAN] /\ held(V) \in [Outputs -> BOOLEAN]
  BY <1>3
<1>5. Connected(S, "source2") /\ {"source", "source2", "gate"} = Outputs /\ Sweepers = {"source", "source2"}
  BY <1>3 DEF Connected, Kinds, Outputs, Sweepers
<1>6. out(V) \in [Outputs -> OutputStates]
  <2>1. out(V)["source"] \in OutputStates /\ out(V)["source2"] \in OutputStates
        /\ out(V)["gate"] \in OutputStates
    BY <1>3, <1>5 DEF OutputStates
  <2> QED BY <1>5, <2>1
<1>7. /\ q.ok = (V = live) /\ q.s \in Snapshot /\ q.s.conn = S.conn /\ q.s.err = S.err
      /\ q.s.phase = S.phase /\ q.s.missed = S.missed
      /\ q.s.phys = phys(V, W) /\ q.s.out = out(V)
  <2> DEFINE P == phys(V, W)
             H == held(V)
             O == out(V)
  <2>1. q = [ok |-> V = live, s |-> [S EXCEPT !.phys = P, !.held = H, !.out = O]]
    BY <1>2a
  <2>2. P \in [Outputs -> BOOLEAN] /\ H \in [Outputs -> BOOLEAN] /\ O \in [Outputs -> OutputStates]
    BY <1>4, <1>6
  <2> HIDE DEF P, H, O
  <2>3. /\ q.ok = (V = live) /\ q.s \in Snapshot /\ q.s.conn = S.conn /\ q.s.err = S.err
        /\ q.s.phase = S.phase /\ q.s.missed = S.missed /\ q.s.phys = P /\ q.s.out = O
    BY <1>3, <2>1, <2>2 DEF Snapshot
  <2> QED BY <2>3 DEF P, O
<1>8. \A r \in Sweepers : q.s.phys[r] => S.phys[r]
  BY <1>5, <1>7
<1>9. q.s.phys["gate"] = S.phys["gate"]
  <2>1. "gate" \notin V \cup W /\ S.phys["gate"] \in BOOLEAN
    BY <1>3, <1>5
  <2> QED BY <1>5, <1>7, <2>1
<1>10. Sound(q.s)
  BY <1>7, <1>8 DEF Sound, Live
<1>11. q.s.out["source"] # "On"
  BY <1>5, <1>7
<1>13. ASSUME q.ok PROVE \A r \in Sweepers : q.s.out[r] = "Off" /\ ~q.s.phys[r]
  <2>1. V = live
    BY <1>7, <1>13
  <2>2. q.s.out["source"] = "Off"
    BY <1>5, <1>7, <2>1
  <2>3. q.s.out["source2"] = "Off"
    BY <1>5, <1>7, <2>1
  <2>4. \A r \in Sweepers : ~q.s.phys[r]
    <3>1. \A r \in Sweepers : Live(S, r) \/ ~S.phys[r]
      BY <1>5 DEF Sound, Live
    <3> QED BY <1>5, <1>7, <2>1, <3>1
  <2> QED BY <1>5, <2>2, <2>3, <2>4
<1> QED BY <1>7, <1>8, <1>9, <1>10, <1>11, <1>13 DEF SourcesOnly

-----------------------------------------------------------------------------
(* The levels on the way *)

\* Whole ramp steps from a level both can be set to lead to others.
LEMMA GridStep ==
    ASSUME NEW v, OnGrid(v), NEW k \in Int
    PROVE  OnGrid(v + k * Drive.ramp)
<1> DEFINE a == Drive.ratio[1]
           b == Drive.ratio[2]
           s == Drive.ramp
<1>1. a \in Nat \ {0} /\ b \in Nat \ {0} /\ s \in Nat /\ OnGrid(s)
  BY DriveFacts
<1>2. v \in Int /\ Exact(v, a, a + b) /\ Exact(v, b, a + b) /\ Exact(s, a, a + b) /\ Exact(s, b, a + b)
  BY <1>1 DEF OnGrid
<1>3. OnGrid(v + k * s) <=> v + k * s \in Int /\ Exact(v + k * s, a, a + b) /\ Exact(v + k * s, b, a + b)
  BY DEF OnGrid
<1> HIDE DEF a, b, s
<1>4. a + b \in Nat \ {0} /\ a \in Int /\ b \in Int /\ s \in Int
  BY <1>1
<1>5. Exact(v + k * s, a, a + b) /\ Exact(v + k * s, b, a + b)
  BY <1>2, <1>4, ExactStep
<1> QED BY <1>2, <1>3, <1>4, <1>5 DEF s

\* The way to a point: levels of the grid, no more than one ramp step apart, the
\* last one the point itself, where the two plans say the same.
LEMMA WayFacts ==
    ASSUME OnGrid(run.at), run.point \in 1..Count
    PROVE  /\ Len(Way) \in Nat \ {0} /\ Way[Len(Way)] = Drive.points[run.point]
           /\ \A i \in 1..Len(Way) : OnGrid(Way[i]) /\ Next2(i) = Pair(Way[i], Drive.ratio)
           /\ Abs(Way[1] - run.at) <= Drive.ramp
           /\ \A i \in 2..Len(Way) : Abs(Way[i] - Way[i - 1]) <= Drive.ramp
<1> DEFINE w == Way
           from == run.at
           to == Drive.points[run.point]
           s == Drive.ramp
<1>1. from \in Int /\ OnGrid(to) /\ to \in Int /\ s \in Nat \ {0}
      /\ <<Drive.plan1.points[run.point], Drive.plan2.points[run.point]>> = Pair(to, Drive.ratio)
  BY DriveFacts DEF OnGrid
<1>2. w = WayTo(from, to, s)
  BY DEF Way, WayTo
<1>3. \A k \in Int : OnGrid(from + k * s)
  BY GridStep
<1>4. \A i \in Nat : Next2(i) = IF i = Len(w) THEN Pair(to, Drive.ratio) ELSE Pair(w[i], Drive.ratio)
  BY <1>1 DEF Next2
<1>5. w = Way /\ from = run.at /\ to = Drive.points[run.point] /\ s = Drive.ramp
  OBVIOUS
<1> HIDE DEF w, from, to, s
<1>6. /\ w \in Seq(Int) /\ Len(w) \in Nat \ {0} /\ w[Len(w)] = to
      /\ \A i \in 1..Len(w) - 1 : \E k \in Int : w[i] = from + k * s
      /\ Abs(w[1] - from) <= s
      /\ \A i \in 2..Len(w) : Abs(w[i] - w[i - 1]) <= s
  <2>1. LeadsTo(w, from, to, s)
    BY <1>1, <1>2, RampFacts
  <2> QED BY <2>1 DEF LeadsTo
<1>7. ASSUME NEW i \in 1..Len(w)
      PROVE  OnGrid(w[i]) /\ Next2(i) = Pair(w[i], Drive.ratio)
  <2>1. CASE i = Len(w)
    BY <1>1, <1>4, <1>6, <2>1
  <2>2. CASE i # Len(w)
    <3>1. i \in 1..Len(w) - 1
      BY <1>6, <2>2
    <3> QED BY <1>3, <1>4, <1>6, <2>2, <3>1
  <2> QED BY <2>1, <2>2
<1> QED BY <1>5, <1>6, <1>7

\* The two sources are at shares of two levels, of which the first source's may
\* be one ramp step ahead.
GapAt(l) == Abs(l[1] * Drive.ratio[2] + l[2] * Drive.ratio[1])
CloseAt(l) == GapAt(l) * (Drive.ratio[1] + Drive.ratio[2]) <= Drive.ramp * Drive.ratio[1] * Drive.ratio[2]
\* For any two levels: a ramp step apart, and matching where the targets are one.
LEMMA AheadCloseAt ==
    ASSUME NEW l, NEW v, NEW w, OnGrid(v), OnGrid(w), Abs(w - v) <= Drive.ramp,
           l = <<Pair(w, Drive.ratio)[1], Pair(v, Drive.ratio)[2]>>
    PROVE  l \in Int \X Int /\ CloseAt(l) /\ (v = w => GapAt(l) = 0)
<1> DEFINE a == Drive.ratio[1]
           b == Drive.ratio[2]
           s == Drive.ramp
<1>1. a \in Nat \ {0} /\ b \in Nat \ {0} /\ s \in Nat \ {0} /\ Drive.ratio = <<a, b>>
  BY DriveFacts
<1>2. /\ v \in Int /\ Exact(v, a, a + b) /\ Exact(v, b, a + b)
      /\ w \in Int /\ Exact(w, a, a + b) /\ Exact(w, b, a + b)
  BY DEF OnGrid
<1>3. (CloseAt(l) <=> Abs(l[1] * b + l[2] * a) * (a + b) <= s * a * b)
      /\ GapAt(l) = Abs(l[1] * b + l[2] * a) /\ Abs(w - v) <= s
      /\ l = <<Pair(w, <<a, b>>)[1], Pair(v, <<a, b>>)[2]>>
  BY <1>1 DEF CloseAt, GapAt
<1> HIDE DEF a, b, s
<1>4. PICK x, y \in Int : Pair(w, <<a, b>>) = <<x, y>> /\ x * (a + b) = w * a
  BY <1>1, <1>2, Shares
<1>5. PICK p, q \in Int : Pair(v, <<a, b>>) = <<p, q>> /\ q * (a + b) = -(v * b)
  BY <1>1, <1>2, Shares
<1>6. l = <<x, q>>
  BY <1>3, <1>4, <1>5
<1> DEFINE g == x * b + q * a
           d == w - v
           m == a * b
<1>7. g * (a + b) = d * m
  <2>1. g * (a + b) = (x * (a + b)) * b + (q * (a + b)) * a
    BY <1>1
  <2>2. (w * a) * b + (-(v * b)) * a = d * m
    BY <1>1, <1>2
  <2> QED BY <1>4, <1>5, <2>1, <2>2
<1>8. g \in Int /\ d \in Int /\ m \in Nat \ {0} /\ a + b \in Nat \ {0} /\ d = w - v /\ s * a * b = s * m
  BY <1>1, <1>2
<1> DEFINE t == a + b
<1>9. t = a + b /\ g = x * b + q * a
  OBVIOUS
<1> HIDE DEF g, d, m, t
<1>10. Abs(g) * t = Abs(d) * m
  <2>1. g * t = d * m /\ t \in Nat \ {0}
    BY <1>7, <1>8, <1>9
  <2>2. CASE d < 0
    <3>1. d * m < 0
      BY <1>8, <2>2
    <3>2. g < 0
      BY <1>8, <2>1, <3>1
    <3>3. (-g) * t = - (g * t) /\ (-d) * m = - (d * m)
      BY <1>8, <2>1
    <3> QED BY <1>8, <2>1, <2>2, <3>2, <3>3 DEF Abs
  <2>3. CASE d >= 0
    <3>1. d * m >= 0
      BY <1>8, <2>3
    <3>2. g >= 0
      BY <1>8, <2>1, <3>1
    <3> QED BY <1>8, <2>1, <2>3, <3>2 DEF Abs
  <2> QED BY <1>8, <2>2, <2>3
<1>11. Abs(d) \in Nat /\ Abs(d) <= s /\ Abs(g) \in Nat
  BY <1>3, <1>8, Distance
<1>12. Abs(d) * m <= s * m
  BY <1>1, <1>8, <1>11
<1>13. CloseAt(l)
  BY <1>3, <1>6, <1>8, <1>9, <1>10, <1>12
<1>14. ASSUME v = w PROVE GapAt(l) = 0
  <2>1. d = 0 /\ Abs(0) = 0
    BY <1>2, <1>8, <1>14 DEF Abs
  <2>2. Abs(g) * t = 0
    BY <1>8, <1>10, <2>1
  <2>3. Abs(g) = 0
    BY <1>8, <1>9, <1>11, <2>2
  <2> QED BY <1>3, <1>6, <1>9, <2>3
<1> QED BY <1>6, <1>13, <1>14

\* The same of the levels that are programmed.
LEMMA AheadClose ==
    ASSUME NEW v, NEW w, OnGrid(v), OnGrid(w), Abs(w - v) <= Drive.ramp,
           level = <<Pair(w, Drive.ratio)[1], Pair(v, Drive.ratio)[2]>>
    PROVE  level \in Int \X Int /\ Close /\ (v = w => Gap = 0)
BY AheadCloseAt DEF Close, Gap, CloseAt, GapAt

\* At one differential level the shares match.
LEMMA StandsClose ==
    ASSUME NEW v, OnGrid(v), Stands(v)
    PROVE  level \in Int \X Int /\ Gap = 0 /\ Close
<1>1. v \in Int /\ Drive.ramp \in Nat /\ Abs(v - v) = 0
  BY DriveFacts DEF OnGrid, Abs
<1>2. level = <<Pair(v, Drive.ratio)[1], Pair(v, Drive.ratio)[2]>>
  BY DEF Stands, Pair
<1> QED BY <1>1, <1>2, AheadClose

\* While the pair moves it is at a level, or between two neighbouring ones.
LEMMA MovingClose ==
    ASSUME Inv, pc \in Moving
    PROVE  /\ Close /\ run.point \in 1..Count /\ run.hop \in 1..Len(Way)
           /\ OnGrid(Before) /\ OnGrid(Way[run.hop]) /\ Abs(Way[run.hop] - Before) <= Drive.ramp
           /\ pc # "second" => Gap = 0
<1> USE DEF Inv
<1>1. run.point \in 1..Count /\ OnGrid(run.at)
  <2>1. run.point \in Nat \ {0} /\ run.point <= Count /\ OnGrid(run.at)
    BY DEF RowsInv, TypeInv, Locals, LevelInv
  <2>2. Count \in Nat
    BY DriveFacts DEF Count
  <2> QED BY <2>1, <2>2
<1>2. run.hop \in 1..Len(Way) /\ run.hop \in Nat \ {0}
  BY DEF LevelInv, TypeInv, Locals
<1>3. /\ Len(Way) \in Nat
      /\ \A i \in 1..Len(Way) : OnGrid(Way[i])
      /\ Abs(Way[1] - run.at) <= Drive.ramp
      /\ \A i \in 2..Len(Way) : Abs(Way[i] - Way[i - 1]) <= Drive.ramp
  BY <1>1, WayFacts
<1>4. OnGrid(Before) /\ OnGrid(Way[run.hop]) /\ Abs(Way[run.hop] - Before) <= Drive.ramp
  <2>1. CASE run.hop = 1
    BY <1>1, <1>2, <1>3, <2>1 DEF Before
  <2>2. CASE run.hop # 1
    <3>1. run.hop - 1 \in 1..Len(Way) /\ run.hop \in 2..Len(Way)
      BY <1>2, <1>3, <2>2
    <3> QED BY <1>2, <1>3, <2>2, <3>1 DEF Before
  <2> QED BY <2>1, <2>2
<1>5. CASE pc = "second"
  <2>1. level = <<Pair(Way[run.hop], Drive.ratio)[1], Pair(Before, Drive.ratio)[2]>>
    BY <1>5 DEF LevelInv
  <2> QED BY <1>1, <1>2, <1>4, <1>5, <2>1, AheadClose
<1>6. CASE pc # "second"
  <2>1. Stands(Before) \/ Stands(Way[run.hop])
    BY <1>6 DEF LevelInv, Moving
  <2> QED BY <1>1, <1>2, <1>4, <2>1, StandsClose
<1> QED BY <1>5, <1>6

-----------------------------------------------------------------------------
(* Ways to leave the measurement *)

\* The closure has ended, with an error or stopped.
Left ==
    /\ pc' = "collect" /\ run' \in Locals
    /\ run'.armed = run.armed /\ run'.lost = run.lost /\ run'.at = run.at
    /\ run'.failed \/ run'.stopped
\* The error returns.
LEMMA FailLeft == run \in Locals /\ Fail => Left
BY DEF Fail, Left, Locals

\* So does the stop.
LEMMA HaltLeft == run \in Locals /\ Halt => Left
BY DEF Halt, Left, Locals

\* OFF to both, then the error or the stop.
LEMMA OffFailsLeft ==
    ASSUME run \in Locals, Sound(state), OffFails
    PROVE  Left /\ After(state, state')
<1>1. PICK q \in SweepOff(state) : state' = q.s
  BY DEF OffFails, Outcomes
<1>2. SourcesOnly(state, q.s)
  BY SweepOffFacts
<1> QED BY <1>1, <1>2, FailLeft DEF OffFails, After, SourcesOnly

\* OFF to both, then a stop or what the stop turned into.
LEMMA OffStopsLeft ==
    ASSUME run \in Locals, Sound(state), NEW alert \in Alerts, OffStops(alert)
    PROVE  Left /\ After(state, state')
<1>1. PICK q \in SweepOff(state), lost \in BOOLEAN :
         /\ state' = q.s /\ pc' = "collect"
         /\ run' = [run EXCEPT !.alert = IF alert = "none" THEN @ ELSE alert,
                               !.stopped = q.ok /\ ~lost, !.failed = ~q.ok \/ lost]
  BY DEF OffStops
<1>2. SourcesOnly(state, q.s) /\ q.ok \in BOOLEAN
  BY SweepOffFacts
<1>3. Left
  <2> DEFINE x == IF alert = "none" THEN run.alert ELSE alert
             y == q.ok /\ ~lost
             z == ~q.ok \/ lost
  <2>1. run' = [run EXCEPT !.alert = x, !.stopped = y, !.failed = z] /\ pc' = "collect"
    BY <1>1
  <2>2. x \in Alerts /\ y \in BOOLEAN /\ z \in BOOLEAN /\ (y \/ z)
    BY <1>2 DEF Locals
  <2> HIDE DEF x, y, z
  <2> QED BY <2>1, <2>2 DEF Left, Locals
<1> QED BY <1>1, <1>2, <1>3 DEF After, SourcesOnly

\* Run::check, and the guard of the meter's range.
LEMMA TripsLeft ==
    ASSUME run \in Locals, Sound(state), CheckTrips \/ RangeTrips
    PROVE  Left /\ After(state, state')
<1>1. CASE OffFails
  BY <1>1, OffFailsLeft
<1>2. CASE OffStops("source")
  BY <1>2, OffStopsLeft DEF Alerts
<1>3. CASE state' \in UNION {Outcomes(SweepOff(T)) : T \in GateFault(state)} /\ Fail
  <2>1. PICK T \in GateFault(state) : \E q \in SweepOff(T) : state' = q.s
    BY <1>3 DEF Outcomes
  <2>2. GateOnly(state, T) /\ Sound(T) /\ After(state, T)
    BY GateFaultFacts, GateSound DEF Sound
  <2>3. SourcesOnly(T, state')
    BY <2>1, <2>2, SweepOffFacts
  <2> QED BY <1>3, <2>2, <2>3, FailLeft DEF After, SourcesOnly
<1> QED BY <1>1, <1>2, <1>3 DEF CheckTrips, RangeTrips

\* Leaving the measurement, however the sources were left, keeps the invariant.
LEMMA LeftInv ==
    ASSUME Inv, pc \in (Starting \ {"begin"}) \cup Measuring, Left, After(state, state'),
           level' \in Int \X Int, run.armed => Close',
           rec' \in Recordings, rec'.manifest = rec.manifest
    PROVE  Inv'
<1> USE DEF Inv
<1>1. pc' = "collect" /\ pc' \notin Starting \cup Measuring \cup Moving \cup There \cup Judged
  BY DEF Left, Starting, Measuring, Moving, There, Judged
<1>2. TypeInv'
  BY <1>1 DEF TypeInv, Left, After, Ending
<1>3. OpenInv'
  BY <1>1 DEF OpenInv, Left, Starting, Measuring, Moving, There
<1>4. RowsInv'
  <2>1. rec.manifest \in {"none", "in progress"}
    BY DEF RowsInv, Starting, Measuring, Moving, There
  <2> QED BY <1>1, <2>1 DEF RowsInv, Left
<1>5. VerdictInv' /\ DrivenInv'
  BY <1>1 DEF VerdictInv, DrivenInv
<1>6. LevelInv'
  <2>1. OnGrid(run'.at) = OnGrid(run.at)
    BY DEF Left
  <2>2. OnGrid(run.at)' = OnGrid(run'.at)
    BY DEF OnGrid, Drive
  <2> QED BY <1>1, <2>1, <2>2 DEF LevelInv, Left, Moving, There
<1> QED BY <1>2, <1>3, <1>4, <1>5, <1>6

\* With the levels as they are.
LEMMA LeftStill ==
    ASSUME Inv, pc \in (Starting \ {"begin"}) \cup Measuring, Left, After(state, state'),
           UNCHANGED <<level, rec>>
    PROVE  Inv'
<1> USE DEF Inv
<1>1. level \in Int \X Int /\ rec \in Recordings
  BY DEF TypeInv
<1>2. run.armed => Close
  <2>1. CASE run.armed
    <3>1. pc \in Measuring
      BY <2>1 DEF OpenInv
    <3>2. CASE pc \in {"point"} \cup There
      BY <3>2, StandsClose DEF LevelInv
    <3>3. CASE pc \in Moving
      BY <3>1, <3>3, MovingClose
    <3> QED BY <3>1, <3>2, <3>3 DEF Measuring
  <2> QED BY <2>1
<1>3. Close' = Close
  BY DEF Close, Gap, Drive
<1> QED BY <1>1, <1>2, <1>3, LeftInv


-----------------------------------------------------------------------------
(* The steps before the first point *)

\* The plan of a run stays what it is.
LEMMA SameDrive == Drive' = Drive /\ Count' = Count /\ Count \in Nat /\ Len(Drive.points) = Count
<1>1. Drive' = Drive
  BY DEF Drive
<1> QED BY <1>1, DriveFacts DEF Count

\* Before the first row.
LEMMA NoRows == <<>> \in Seq(Row) /\ Len(<<>>) = 0
OBVIOUS

\* While no place on the way changes, neither do the levels of it.
LEMMA SameWay ==
    ASSUME run'.at = run.at, run'.point = run.point
    PROVE  /\ Way' = Way /\ (run'.hop = run.hop => Before' = Before)
           /\ OnGrid(run.at)' = OnGrid(run.at)
<1>1. OnGrid(run.at)' = OnGrid(run.at)
  BY SameDrive DEF OnGrid
<1>2. Way' = Way
  <2> DEFINE to == Drive.points[run.point]
  <2>1. Drive.points[run.point]' = Drive.points[run.point] /\ Drive.ramp' = Drive.ramp
    BY SameDrive
  <2> QED BY <2>1 DEF Way
<1> QED BY <1>1, <1>2 DEF Before

\* Levels that are not programmed anew are as close as they were.
LEMMA SameLevel ==
    ASSUME level' = level
    PROVE  Close' = Close /\ Gap' = Gap /\ (run'.at = run.at => Stands(run.at)' = Stands(run.at))
BY SameDrive DEF Close, Gap, Stands

\* `execute` is refused, or it creates its recordings and begins.
LEMMA BeginInv == Inv /\ Begin => Inv'
<1> SUFFICES ASSUME Inv, Begin PROVE Inv'
  OBVIOUS
<1> USE DEF Inv
<1>1. /\ pc = "begin" /\ run' = run /\ level' = level /\ pc' \in {"settle", "setup"}
      /\ Sound(state') /\ state'.phys = state.phys /\ state'.conn = state.conn
      /\ rec' \in Recordings /\ rec'.rows = rec.rows
      /\ rec'.manifest \in {rec.manifest, "in progress"}
      /\ (pc' = "setup" => ~state'.err)
  <2> DEFINE csv == [rec EXCEPT !.csv = "open"]
             audit == [csv EXCEPT !.audit = "open"]
             announced == [state EXCEPT !.phase = "Preparing", !.err = FALSE]
             progress == [audit EXCEPT !.manifest = "in progress"]
  <2>1. /\ {rec, csv, audit, progress} \subseteq Recordings
        /\ \A c \in {csv, audit, progress} :
              c.rows = rec.rows /\ c.manifest \in {rec.manifest, "in progress"}
    BY DEF TypeInv, Recordings
  <2>2. Sound(announced) /\ announced.phys = state.phys /\ announced.conn = state.conn
        /\ ~announced.err
    BY DEF TypeInv, Sound, Snapshot, Phases, Live
  <2>3. /\ pc = "begin" /\ run' = run /\ level' = level /\ pc' \in {"settle", "setup"}
        /\ state' \in {state, announced} /\ (pc' = "setup" => state' = announced)
        /\ rec' \in {rec, csv, audit, progress}
    BY DEF Begin, Goto
  <2> HIDE DEF csv, audit, announced, progress
  <2> QED BY <2>1, <2>2, <2>3 DEF TypeInv
<1>2. TypeInv'
  BY <1>1 DEF TypeInv, Starting, Measuring, Moving, There, Ending, Judged
<1>3. OpenInv'
  BY <1>1 DEF OpenInv, Starting, Measuring, Moving, There
<1>4. RowsInv'
  BY <1>1 DEF RowsInv, Starting, Measuring, Moving, There, Judged
<1>5. VerdictInv' /\ DrivenInv'
  BY <1>1 DEF VerdictInv, DrivenInv, Judged, Measuring, Moving, There
<1>6. LevelInv'
  BY <1>1, SameWay DEF LevelInv, OpenInv, Starting, Moving, There
<1> QED BY <1>2, <1>3, <1>4, <1>5, <1>6

\* A level of zero is shared by two of zero.
LEMMA ZeroStands == OnGrid(0) /\ Pair(0, Drive.ratio) = <<0, 0>>
<1> DEFINE a == Drive.ratio[1]
           b == Drive.ratio[2]
<1>1. a \in Nat \ {0} /\ b \in Nat \ {0}
  BY DriveFacts
<1>2. Pair(0, Drive.ratio) = <<(0 * a) \div (a + b), ((-0) * b) \div (a + b)>>
  BY DEF Pair, Scaled
<1>3. OnGrid(0) <=> (0 * a) % (a + b) = 0 /\ (0 * b) % (a + b) = 0
  BY DEF OnGrid, Exact
<1> HIDE DEF a, b
<1>4. a + b \in Nat \ {0} /\ 0 * a = 0 /\ (-0) * b = 0 /\ 0 * b = 0
  BY <1>1
<1>5. 0 % (a + b) = 0 /\ 0 \div (a + b) = 0
  BY <1>4
<1> QED BY <1>2, <1>3, <1>4, <1>5

\* Run::setup: both are turned off, and set to zero; or it fails on the way.
LEMMA SetupInv == Inv /\ Setup => Inv'
<1> SUFFICES ASSUME Inv, Setup PROVE Inv'
  OBVIOUS
<1> USE DEF Inv
<1>1. PICK q \in SweepOff(state) :
        /\ state' = q.s
        /\ ~q.ok => Fail /\ UNCHANGED level
        /\ q.ok => \/ Goto("configure") /\ level' = <<0, 0>>
                   \/ Real /\ Fail /\ level' \in {level, <<0, level[2]>>, <<0, 0>>}
  BY DEF Setup
<1>2. pc = "setup" /\ rec' = rec /\ ~run.armed /\ run.at = 0
  BY DEF Setup, OpenInv, Starting
<1>3. SourcesOnly(state, state') /\ After(state, state')
  BY <1>1, SweepOffFacts DEF TypeInv, After, SourcesOnly
<1>4. CASE Fail
  <2>1. Left
    BY <1>4, FailLeft DEF TypeInv
  <2>2. level' \in Int \X Int
    BY <1>1, <1>2 DEF TypeInv, Fail, Goto
  <2> QED BY <1>2, <1>3, <2>1, <2>2, LeftInv DEF TypeInv, Starting
<1>5. CASE Goto("configure") /\ level' = <<0, 0>>
  <2>1. /\ pc' = "configure" /\ run' = run /\ rec' = rec /\ Sound(state') /\ ~state'.err
    BY <1>2, <1>3, <1>5 DEF Goto, SourcesOnly, TypeInv, Starting
  <2>2. TypeInv'
    <3>1. level' \in Int \X Int
      BY <1>5
    <3> QED BY <2>1, <3>1 DEF TypeInv, Starting
  <2>3. OpenInv'
    BY <1>2, <2>1 DEF OpenInv, Starting, Measuring, Moving, There
  <2>4. RowsInv'
    BY <1>2, <2>1 DEF RowsInv, Starting, Measuring, Moving, There, Judged
  <2>5. VerdictInv' /\ DrivenInv'
    BY <2>1 DEF VerdictInv, DrivenInv, Judged, Measuring, Moving, There
  <2>6. LevelInv'
    <3>1. Stands(run.at)'
      BY <1>2, <1>5, <2>1, ZeroStands, SameDrive DEF Stands
    <3> QED BY <2>1, <3>1, SameWay DEF LevelInv, Moving, There, Ending, Judged
  <2> QED BY <2>2, <2>3, <2>4, <2>5, <2>6
<1> QED BY <1>1, <1>4, <1>5

\* A step of the set-up that succeeds, or is cancelled.
Begun ==
    /\ pc \in {"configure", "first on", "second on"} /\ pc' \in {"first on", "second on", "point"}
    /\ Sound(state') /\ ~state'.err /\ UNCHANGED <<level, rec>>
    /\ \E armed \in BOOLEAN :
          /\ run' = [run EXCEPT !.armed = armed]
          /\ armed => pc' = "point" /\ (Live(state', "source") => BothOn')
    /\ pc' = "second on" /\ Live(state', "source") => state'.phys["source"]
\* Such a step keeps the invariant.
LEMMA StartedInv == Inv /\ Begun => Inv'
<1> SUFFICES ASSUME Inv, Begun PROVE Inv'
  OBVIOUS
<1> USE DEF Inv
<1>1. PICK armed \in BOOLEAN :
        /\ run' = [run EXCEPT !.armed = armed]
        /\ armed => pc' = "point" /\ (Live(state', "source") => BothOn')
  BY DEF Begun
<1>2. /\ run' \in Locals /\ run'.at = run.at /\ run'.point = run.point /\ run'.alert = run.alert
      /\ run'.hop = run.hop /\ run'.limited = run.limited /\ run'.failed = run.failed
      /\ run'.stopped = run.stopped /\ run'.lost = run.lost /\ run'.armed = armed
  BY <1>1 DEF TypeInv, Locals
<1>3. /\ pc \in {"configure", "first on", "second on"} /\ pc' \in {"first on", "second on", "point"}
      /\ Sound(state') /\ ~state'.err /\ level' = level /\ rec' = rec
      /\ pc' = "second on" /\ Live(state', "source") => state'.phys["source"]
  BY DEF Begun
<1>4. TypeInv'
  BY <1>2, <1>3 DEF TypeInv, Starting, Measuring
<1>5. OpenInv'
  BY <1>1, <1>2, <1>3 DEF OpenInv, Starting, Measuring, Moving, There
<1>6. RowsInv'
  <2>1. rec.rows = <<>> /\ run.point = 1
    BY <1>3 DEF RowsInv, OpenInv, Starting
  <2>2. Len(rec.rows) = 0 /\ Count' \in Nat
    BY <2>1, NoRows, SameDrive
  <2>3. rec.manifest \in {"none", "in progress"}
    BY <1>3 DEF RowsInv
  <2>4. pc' \notin Moving \cup There \cup Judged /\ pc' # "collect"
    BY <1>3 DEF Moving, There, Judged
  <2>5. Len(rec.rows) = run'.point - 1 /\ run'.point <= Count' + 1
        /\ \A i \in 1..Len(rec.rows) : rec.rows[i] = "ok"
    BY <1>2, <2>1, <2>2
  <2> QED BY <1>3, <2>1, <2>3, <2>4, <2>5 DEF RowsInv
<1>7. VerdictInv' /\ DrivenInv'
  BY <1>1, <1>2, <1>3 DEF VerdictInv, DrivenInv, Judged, Measuring, Moving, There, Real
<1>8. LevelInv'
  <2>1. Stands(run.at)'
    BY <1>2, <1>3, SameLevel DEF LevelInv
  <2> QED BY <1>2, <1>3, <2>1, SameWay DEF LevelInv, Moving, There, Ending, Judged
<1> QED BY <1>4, <1>5, <1>6, <1>7, <1>8

\* The rest of the set-up, and the announcement of outputs that are to be on.
LEMMA ConfigureInv == Inv /\ Configure => Inv'
<1> SUFFICES ASSUME Inv, Configure PROVE Inv'
  OBVIOUS
<1> USE DEF Inv
<1>1. pc = "configure" /\ rec' = rec /\ level' = level /\ run \in Locals /\ Sound(state)
      /\ state.err = FALSE /\ ~run.armed
  <2>1. state.err \in BOOLEAN
    BY DEF TypeInv, Sound, Snapshot
  <2> QED BY <2>1 DEF Configure, TypeInv, OpenInv, Starting
<1>2. CASE RangeTrips
  BY <1>1, <1>2, TripsLeft, LeftStill DEF Starting
<1>3. CASE Real /\ Fails
  <2>1. Left /\ After(state, state')
    BY <1>1, <1>3, FailLeft DEF Fails, After
  <2> QED BY <1>1, <2>1, LeftStill DEF Starting
<1>4. CASE /\ Goto(IF Cancelled THEN "point" ELSE "first on")
           /\ state' = IF Cancelled THEN [state EXCEPT !.phase = "Running"]
                       ELSE [state EXCEPT !.out["source"] = "Unknown", !.out["source2"] = "Unknown"]
  <2>1. pc' \in {"first on", "point"} /\ run' = run
    BY <1>4 DEF Goto
  <2>2. Sound([state EXCEPT !.phase = "Running"]) /\ ~[state EXCEPT !.phase = "Running"].err
    BY <1>1 DEF Sound, Snapshot, Phases, Live
  <2>3. LET S == [state EXCEPT !.out["source"] = "Unknown", !.out["source2"] = "Unknown"]
        IN  Sound(S) /\ ~S.err
    BY <1>1, Names DEF Sound, Snapshot, OutputStates, Live, Sweepers
  <2>4. Sound(state') /\ ~state'.err
    BY <1>4, <2>2, <2>3
  <2>5. run' = [run EXCEPT !.armed = FALSE]
    BY <1>1, <2>1 DEF Locals
  <2>6. Begun
    BY <1>1, <2>1, <2>4, <2>5 DEF Begun
  <2> QED BY <2>6, StartedInv
<1> QED BY <1>2, <1>3, <1>4 DEF Configure

\* An output that is switched on in a refused, an unconfirmed or a confirmed ON.
LEMMA SwitchedOn ==
    ASSUME Sound(state), NEW role \in Sweepers, NEW on \in BOOLEAN, on => Real
    PROVE  LET S == [state EXCEPT !.phys[role] = on] IN Sound(S) /\ After(state, S)
<1>1. state \in Snapshot /\ state.phys \in [Outputs -> BOOLEAN] /\ role \in Outputs
  BY Names DEF Sound, Snapshot
<1> DEFINE S == [state EXCEPT !.phys[role] = on]
<1>2. S \in Snapshot /\ S.conn = state.conn /\ S.err = state.err
      /\ \A r \in Sweepers : S.phys[r] = IF r = role THEN on ELSE state.phys[r]
  BY <1>1, Names DEF Snapshot
<1> HIDE DEF S
<1>3. Sound(S)
  BY <1>2 DEF Sound, Live, Real
<1> QED BY <1>2, <1>3 DEF After, S

\* An output of the pair that is turned on, is cancelled or fails to.
LEMMA TurnOnInv ==
    ASSUME Inv, NEW role \in Sweepers, NEW here, NEW next,
           \/ here = "first on" /\ role = "source" /\ next = "second on"
           \/ here = "second on" /\ role = "source2" /\ next = "point",
           TurnOn(here, role, next)
    PROVE  Inv'
<1> USE DEF Inv
<1>1. pc = here /\ here \in {"first on", "second on"} /\ next \in {"second on", "point"}
      /\ rec' = rec /\ level' = level /\ run \in Locals /\ Sound(state)
      /\ state.err = FALSE /\ run.armed = FALSE
  <2>1. pc = here /\ here \in {"first on", "second on"} /\ next \in {"second on", "point"}
        /\ rec' = rec /\ level' = level
    BY DEF TurnOn
  <2>2. state.err \in BOOLEAN /\ run.armed \in BOOLEAN
    BY DEF TypeInv, Sound, Snapshot, Locals
  <2> QED BY <2>1, <2>2 DEF TypeInv, OpenInv, Starting
<1>2. CASE /\ Goto("point")
           /\ state' = [state EXCEPT !.phase = "Running"]
  <2>1. Sound(state') /\ ~state'.err
    BY <1>1, <1>2 DEF Sound, Snapshot, Phases, Live
  <2>2. run' = [run EXCEPT !.armed = FALSE]
    BY <1>1, <1>2 DEF Locals, Goto
  <2>3. Begun
    BY <1>1, <1>2, <2>1, <2>2 DEF Begun, Goto
  <2> QED BY <2>3, StartedInv
<1>3. CASE /\ Real /\ Fail
           /\ \E on \in BOOLEAN :
                LET S == [state EXCEPT !.phys[role] = on]
                IN  state' \in {S} \cup Outcomes(SweepOff(S))
  <2>1. PICK on \in BOOLEAN : LET S == [state EXCEPT !.phys[role] = on]
                              IN  state' \in {S} \cup Outcomes(SweepOff(S))
    BY <1>3
  <2> DEFINE S == [state EXCEPT !.phys[role] = on]
  <2>2. Sound(S) /\ After(state, S)
    BY <1>1, <1>3, SwitchedOn
  <2>3. state' = S \/ \E q \in SweepOff(S) : state' = q.s
    BY <2>1 DEF Outcomes
  <2> HIDE DEF S
  <2>4. After(state, state')
    <3>1. CASE state' = S
      BY <2>2, <3>1
    <3>2. CASE \E q \in SweepOff(S) : state' = q.s
      <4>1. SourcesOnly(S, state')
        BY <2>2, <3>2, SweepOffFacts
      <4> QED BY <2>2, <4>1 DEF After, SourcesOnly
    <3> QED BY <2>3, <3>1, <3>2
  <2> QED BY <1>1, <1>3, <2>4, FailLeft, LeftStill DEF Starting
<1>4. CASE /\ pc' = next /\ run' = [run EXCEPT !.armed = next = "point"]
           /\ state' = [state EXCEPT !.phys[role] = Real,
                        !.out = [r \in Outputs |->
                                   IF r \in Sweepers /\ next = "point" THEN "On" ELSE @[r]],
                        !.phase = IF next = "point" THEN "Running" ELSE @]
  <2> DEFINE S == [state EXCEPT !.phys[role] = Real]
             out == [r \in Outputs |-> IF r \in Sweepers /\ next = "point" THEN "On" ELSE state.out[r]]
             phase == IF next = "point" THEN "Running" ELSE state.phase
  <2>1. Real \in BOOLEAN
    BY DEF Real, Live
  <2>2. Sound(S) /\ After(state, S) /\ S.conn = state.conn /\ S.err = state.err
    BY <1>1, <2>1, SwitchedOn DEF After
  <2>3. S.phys[role] = Real /\ \A r \in Sweepers \ {role} : S.phys[r] = state.phys[r]
    BY <1>1, Names DEF Sound, Snapshot
  <2>4. out \in [Outputs -> OutputStates] /\ phase \in Phases
    <3>1. state.out \in [Outputs -> OutputStates] /\ state.phase \in Phases
      BY <1>1 DEF Sound, Snapshot
    <3> QED BY <3>1 DEF OutputStates, Phases
  <2>5. state' = [S EXCEPT !.out = out, !.phase = phase]
    <3>1. state \in Snapshot /\ state.phys \in [Outputs -> BOOLEAN]
      BY <1>1 DEF Sound, Snapshot
    <3> QED BY <1>4, <3>1 DEF Snapshot
  <2> HIDE DEF S, out, phase
  <2>6. /\ Sound(state') /\ state'.phys = S.phys /\ state'.conn = S.conn /\ state'.err = S.err
    BY <2>2, <2>4, <2>5 DEF Sound, Snapshot, Live
  <2>7. Live(state', "source") <=> Real
    BY <2>2, <2>6 DEF Live, Real
  <2>8. next = "second on" /\ Real => state'.phys["source"]
    BY <2>3, <2>6
  <2>9. next = "point" /\ Real => BothOn'
    <3>1. CASE next = "point" /\ Real
      <4>1. state.phys["source"] /\ role = "source2" /\ Sweepers = {"source", "source2"}
        BY <1>1, <3>1 DEF DrivenInv, Sweepers
      <4> QED BY <2>3, <2>6, <3>1, <4>1 DEF BothOn
    <3> QED BY <3>1
  <2>10. Begun
    <3>1. /\ pc \in {"configure", "first on", "second on"} /\ pc' = next
          /\ next \in {"second on", "point"} /\ Sound(state') /\ ~state'.err
          /\ UNCHANGED <<level, rec>>
      BY <1>1, <1>4, <2>2, <2>6
    <3>2. run' = [run EXCEPT !.armed = (next = "point")] /\ (next = "point") \in BOOLEAN
      BY <1>4
    <3> HIDE DEF Real
    <3> QED BY <2>7, <2>8, <2>9, <3>1, <3>2 DEF Begun
  <2> QED BY <2>10, StartedInv
<1> QED BY <1>2, <1>3, <1>4 DEF TurnOn

-----------------------------------------------------------------------------
(* The steps of one point *)

\* A step within a point that leaves the instruments and the levels alone.
Onward ==
    /\ pc \in Measuring /\ pc' \in Measuring /\ UNCHANGED <<state, rec>> /\ level' \in Int \X Int
    /\ run' \in Locals
    /\ run'.alert = run.alert /\ run'.limited = run.limited /\ run'.armed = run.armed
    /\ run'.failed = run.failed /\ run'.stopped = run.stopped /\ run'.lost = run.lost
    /\ run'.point = run.point /\ (pc' # "point" => run.point <= Count)
\* Such a step keeps the invariant.
LEMMA OnwardInv == Inv /\ Onward /\ pc # "save" /\ LevelInv' => Inv'
<1> SUFFICES ASSUME Inv, Onward, pc # "save", LevelInv' PROVE Inv'
  OBVIOUS
<1> USE DEF Inv
<1>1. /\ pc \in Measuring /\ pc' \in Measuring /\ state' = state /\ rec' = rec
      /\ pc \notin Starting \cup Judged \cup {"collect", "settle"}
      /\ pc' \notin Starting \cup Judged \cup {"collect", "settle"}
  BY DEF Onward, Starting, Measuring, Moving, There, Judged
<1>2. TypeInv'
  BY <1>1 DEF TypeInv, Onward
<1>3. OpenInv'
  <2>1. run.alert = "none" /\ ~run.limited /\ ~run.failed /\ ~run.stopped /\ ~run.lost
    BY <1>1 DEF OpenInv, Judged
  <2> QED BY <1>1, <2>1 DEF OpenInv, Onward
<1>4. RowsInv'
  <2>1. rec.manifest \in {"none", "in progress"} /\ Len(rec.rows) = run.point - 1
        /\ run.point <= Count + 1 /\ \A i \in 1..Len(rec.rows) : rec.rows[i] = "ok"
    BY <1>1 DEF RowsInv, Judged
  <2>2. run'.point = run.point /\ Count' = Count /\ (pc' # "point" => run.point <= Count)
    BY SameDrive DEF Onward
  <2>3. pc' \in Moving \cup There => run'.point <= Count'
    BY <2>2 DEF Moving, There
  <2> QED BY <1>1, <2>1, <2>2, <2>3 DEF RowsInv
<1>5. VerdictInv'
  BY <1>1 DEF VerdictInv
<1>6. DrivenInv'
  BY <1>1 DEF DrivenInv, Onward, Real, BothOn, Starting
<1> QED BY <1>2, <1>3, <1>4, <1>5, <1>6

\* The first place of a way is where it starts.
LEMMA FirstBefore == run'.hop = 1 => Before' = run'.at
BY DEF Before

\* The loop over the points.
LEMMA PointInv == Inv /\ Point => Inv'
<1> SUFFICES ASSUME Inv, Point PROVE Inv'
  OBVIOUS
<1> USE DEF Inv
<1>1. pc = "point" /\ state' = state /\ rec' = rec /\ level' = level /\ run \in Locals
      /\ Sound(state) /\ Stands(run.at) /\ OnGrid(run.at) /\ rec.rows \in Seq(Row)
      /\ run.point \in Nat \ {0} /\ level \in Int \X Int
  BY DEF Point, TypeInv, LevelInv, Locals, Recordings
<1>2. CASE run.point > Count /\ Goto("collect")
  <2>1. pc' = "collect" /\ run' = run /\ pc' \notin Starting \cup Measuring \cup Judged \cup {"settle"}
    BY <1>2 DEF Goto, Starting, Measuring, Moving, There, Judged
  <2>2. AllRows
    <3>1. Len(rec.rows) = run.point - 1 /\ run.point <= Count + 1
          /\ \A i \in 1..Len(rec.rows) : rec.rows[i] = "ok"
      BY <1>1 DEF RowsInv, Measuring
    <3>2. Len(rec.rows) = Count /\ Count \in Nat
      BY <1>1, <1>2, <3>1, SameDrive
    <3>3. rec.rows = [i \in 1..Len(rec.rows) |-> rec.rows[i]]
      BY <1>1
    <3> QED BY <3>1, <3>2, <3>3 DEF AllRows
  <2>3. TypeInv' /\ OpenInv'
    BY <1>1, <2>1 DEF TypeInv, OpenInv, Ending, Judged, Measuring, Moving, There
  <2>4. RowsInv'
    <3>1. AllRows'
      BY <1>1, <2>2, SameDrive DEF AllRows
    <3> QED BY <1>1, <2>1, <3>1 DEF RowsInv, Measuring, Moving, There
  <2>5. VerdictInv' /\ DrivenInv'
    BY <2>1 DEF VerdictInv, DrivenInv
  <2>6. LevelInv'
    <3>1. Close'
      BY <1>1, StandsClose, SameLevel
    <3> QED BY <1>1, <2>1, <3>1, SameWay DEF LevelInv, Measuring, Moving, There
  <2> QED BY <2>3, <2>4, <2>5, <2>6
<1>3. CASE Halt
  BY <1>1, <1>3, HaltLeft, LeftStill DEF After, Measuring
<1>4. CASE run.point <= Count /\ pc' = "first" /\ run' = [run EXCEPT !.hop = 1]
  <2>1. /\ run' \in Locals /\ run'.at = run.at /\ run'.point = run.point /\ run'.hop = 1
        /\ run'.alert = run.alert /\ run'.limited = run.limited /\ run'.armed = run.armed
        /\ run'.failed = run.failed /\ run'.stopped = run.stopped /\ run'.lost = run.lost
    BY <1>1, <1>4 DEF Locals
  <2>2. Onward
    BY <1>1, <1>4, <2>1 DEF Onward, Measuring, Moving
  <2>3. LevelInv'
    <3>1. run.point \in 1..Count
      BY <1>1, <1>4, SameDrive
    <3>2. 1 \in 1..Len(Way)
      BY <1>1, <3>1, WayFacts
    <3>3. Stands(Before)'
      BY <1>1, <2>1, SameDrive, FirstBefore DEF Stands
    <3> QED BY <1>1, <1>4, <2>1, <3>2, <3>3, SameWay DEF LevelInv, There, Ending, Judged
  <2> QED BY <1>1, <2>2, <2>3, OnwardInv
<1> QED BY <1>2, <1>3, <1>4 DEF Point

\* The plan says the same of the next place as the shares of its level.
LEMMA NextPair ==
    ASSUME Inv, pc \in Moving
    PROVE  Next2(run.hop) = Pair(Way[run.hop], Drive.ratio)
<1>1. run.point \in 1..Count /\ run.hop \in 1..Len(Way) /\ OnGrid(run.at)
  BY MovingClose DEF Inv, LevelInv
<1> QED BY <1>1, WayFacts

\* A step between two writes that leaves the levels where the next step expects them.
LEMMA MovingInv ==
    ASSUME Inv, pc \in Moving, pc' \in Moving, UNCHANGED <<state, rec>>,
           run' = run, LevelInv', level' \in Int \X Int
    PROVE  Inv'
<1>1. Onward
  BY MovingClose DEF Onward, Measuring, Inv, TypeInv, Moving, There
<1> QED BY <1>1, OnwardInv DEF Moving

\* Run::set, the first source.
LEMMA SetFirstInv == Inv /\ SetFirst => Inv'
<1> SUFFICES ASSUME Inv, SetFirst PROVE Inv'
  OBVIOUS
<1> USE DEF Inv
<1>1. pc = "first" /\ rec' = rec /\ run \in Locals /\ rec \in Recordings /\ Sound(state)
      /\ level \in Int \X Int /\ pc \in Moving /\ pc \in Measuring
  BY DEF SetFirst, TypeInv, Moving, Measuring
<1> DEFINE ahead == [level EXCEPT ![1] = Next2(run.hop)[1]]
           x == Pair(Way[run.hop], Drive.ratio)
           y == Pair(Before, Drive.ratio)
<1>2. ahead = <<x[1], y[2]>>
  <2>1. Next2(run.hop) = x /\ level = y
    BY <1>1, NextPair DEF LevelInv, Stands
  <2> HIDE DEF x, y
  <2>2. level = <<level[1], level[2]>>
    BY <1>1
  <2> QED BY <2>1, <2>2
<1>3. ahead \in Int \X Int /\ CloseAt(ahead)
  BY <1>1, <1>2, MovingClose, AheadCloseAt
<1>4. CloseAt(level)
  BY <1>1, MovingClose DEF Close, CloseAt, Gap, GapAt
<1>5. (level' = ahead \/ level' = level) => level' \in Int \X Int /\ Close'
  BY <1>1, <1>3, <1>4, SameDrive DEF Close, CloseAt, Gap, GapAt
<1> HIDE DEF ahead
<1>6. CASE Halt /\ UNCHANGED <<state, level>>
  BY <1>1, <1>6, HaltLeft, LeftStill DEF After
<1>7. CASE level' = ahead /\ Goto("second") /\ UNCHANGED state
  <2>1. pc' = "second" /\ run' = run /\ pc' \in Moving
    BY <1>7 DEF Goto, Moving
  <2>2. LevelInv'
    <3>1. level' = <<Pair(Way[run.hop], Drive.ratio)[1], Pair(Before, Drive.ratio)[2]>>'
      BY <1>2, <1>7, <2>1, SameWay, SameDrive
    <3> QED BY <1>1, <2>1, <3>1, SameWay DEF LevelInv, Moving, There, Ending, Judged
  <2> QED BY <1>1, <1>5, <1>7, <2>1, <2>2, MovingInv
<1>8. CASE (level' = ahead \/ level' = level) /\ ((Fails) \/ OffFails)
  <2>1. Left /\ After(state, state')
    BY <1>1, <1>8, FailLeft, OffFailsLeft DEF Fails, After
  <2> QED BY <1>1, <1>5, <1>8, <2>1, LeftInv
<1> QED BY <1>6, <1>7, <1>8 DEF SetFirst, ahead

\* The second.
LEMMA SetSecondInv == Inv /\ SetSecond => Inv'
<1> SUFFICES ASSUME Inv, SetSecond PROVE Inv'
  OBVIOUS
<1> USE DEF Inv
<1>1. pc = "second" /\ rec' = rec /\ run \in Locals /\ rec \in Recordings /\ Sound(state)
      /\ level \in Int \X Int /\ pc \in Moving /\ pc \in Measuring
  BY DEF SetSecond, TypeInv, Moving, Measuring
<1> DEFINE there == Next2(run.hop)
           v == Way[run.hop]
<1>2. there = Pair(v, Drive.ratio) /\ OnGrid(v)
  BY <1>1, NextPair, MovingClose
<1>3. there \in Int \X Int /\ CloseAt(there)
  <2>1. there = <<Pair(v, Drive.ratio)[1], Pair(v, Drive.ratio)[2]>>
    BY <1>2 DEF Pair
  <2>2. Abs(v - v) <= Drive.ramp
    BY <1>2, DriveFacts DEF OnGrid, Abs
  <2> HIDE DEF there, v
  <2> QED BY <1>2, <2>1, <2>2, AheadCloseAt
<1>4. CloseAt(level)
  BY <1>1, MovingClose DEF Close, CloseAt, Gap, GapAt
<1>5. (level' = there \/ level' = level) => level' \in Int \X Int /\ Close'
  BY <1>1, <1>3, <1>4, SameDrive DEF Close, CloseAt, Gap, GapAt
<1> HIDE DEF there, v
<1>6. CASE OffStops("none") /\ UNCHANGED level
  BY <1>1, <1>6, OffStopsLeft, LeftStill DEF Alerts
<1>7. CASE level' = there /\ Goto("check") /\ UNCHANGED state
  <2>1. pc' = "check" /\ run' = run /\ pc' \in Moving
    BY <1>7 DEF Goto, Moving
  <2>2. LevelInv'
    <3>1. Stands(Way[run.hop])'
      BY <1>2, <1>7, <2>1, SameWay, SameDrive DEF Stands, v
    <3> QED BY <1>1, <2>1, <3>1, SameWay DEF LevelInv, Moving, There, Ending, Judged
  <2> QED BY <1>1, <1>5, <1>7, <2>1, <2>2, MovingInv
<1>8. CASE (level' = there \/ level' = level) /\ (Fails \/ OffFails)
  <2>1. Left /\ After(state, state')
    BY <1>1, <1>8, FailLeft, OffFailsLeft DEF Fails, After
  <2> QED BY <1>1, <1>5, <1>8, <2>1, LeftInv
<1> QED BY <1>6, <1>7, <1>8 DEF SetSecond, there

\* Run::check after a move.
LEMMA CheckInv == Inv /\ Check => Inv'
<1> SUFFICES ASSUME Inv, Check PROVE Inv'
  OBVIOUS
<1> USE DEF Inv
<1>1. pc = "check" /\ rec' = rec /\ level' = level /\ run \in Locals /\ Sound(state)
      /\ level \in Int \X Int /\ pc \in Moving /\ pc \in Measuring
  BY DEF Check, TypeInv, Moving, Measuring
<1>2. CASE CheckTrips
  BY <1>1, <1>2, TripsLeft, LeftStill
<1>3. CASE pc' = "wait" /\ run' = [run EXCEPT !.polls = 0] /\ UNCHANGED state
  <2>1. /\ run' \in Locals /\ run'.at = run.at /\ run'.point = run.point /\ run'.hop = run.hop
        /\ run'.alert = run.alert /\ run'.limited = run.limited /\ run'.armed = run.armed
        /\ run'.failed = run.failed /\ run'.stopped = run.stopped /\ run'.lost = run.lost
    BY <1>1, <1>3 DEF Locals
  <2>2. Onward
    BY <1>1, <1>3, <2>1, MovingClose DEF Onward, Measuring, Moving
  <2>3. LevelInv'
    <3>1. Stands(Way[run.hop])'
      BY <1>1, <2>1, SameWay, SameDrive DEF LevelInv, Stands
    <3> QED BY <1>1, <1>3, <2>1, <3>1, SameWay DEF LevelInv, Moving, There, Ending, Judged
  <2> QED BY <1>1, <2>2, <2>3, OnwardInv
<1> QED BY <1>2, <1>3 DEF Check

\* Run::wait: on the last place of the way the point is reached.
LEMMA WaitInv == Inv /\ Wait => Inv'
<1> SUFFICES ASSUME Inv, Wait PROVE Inv'
  OBVIOUS
<1> USE DEF Inv
<1>1. pc = "wait" /\ rec' = rec /\ level' = level /\ run \in Locals /\ Sound(state)
      /\ level \in Int \X Int /\ pc \in Moving /\ pc \in Measuring /\ run.hop \in Nat \ {0}
  BY DEF Wait, TypeInv, Moving, Measuring, Locals
<1>2. run.point \in 1..Count /\ run.hop \in 1..Len(Way) /\ Stands(Way[run.hop]) /\ OnGrid(run.at)
  BY <1>1, MovingClose DEF LevelInv
<1>3. Len(Way) \in Nat \ {0} /\ Way[Len(Way)] = Drive.points[run.point]
  BY <1>2, WayFacts
<1>4. CASE Halt /\ UNCHANGED state
  BY <1>1, <1>4, HaltLeft, LeftStill DEF After
<1>5. CASE CheckTrips
  BY <1>1, <1>5, TripsLeft, LeftStill
<1>6. CASE Goto("convert") /\ UNCHANGED state
  <2>1. pc' = "convert" /\ run' = run /\ pc' \in Moving
    BY <1>6 DEF Goto, Moving
  <2>2. LevelInv'
    <3>1. Stands(Way[run.hop])'
      BY <1>1, <1>2, <2>1, SameWay, SameDrive DEF Stands
    <3> QED BY <1>1, <2>1, <3>1, SameWay DEF LevelInv, Moving, There, Ending, Judged
  <2> QED BY <1>1, <1>6, <2>1, <2>2, MovingInv
<1>7. CASE run.hop < Len(Way) /\ pc' = "first" /\ run' = [run EXCEPT !.hop = @ + 1] /\ UNCHANGED state
  <2>1. /\ run' \in Locals /\ run'.at = run.at /\ run'.point = run.point /\ run'.hop = run.hop + 1
        /\ run'.alert = run.alert /\ run'.limited = run.limited /\ run'.armed = run.armed
        /\ run'.failed = run.failed /\ run'.stopped = run.stopped /\ run'.lost = run.lost
    BY <1>1, <1>7 DEF Locals
  <2>2. Onward
    BY <1>1, <1>2, <1>7, <2>1 DEF Onward, Measuring, Moving
  <2>3. LevelInv'
    <3>1. Way' = Way
      BY <2>1, SameWay
    <3>2. Before' = Way[run.hop] /\ run'.hop \in 1..Len(Way')
      BY <1>1, <1>2, <1>3, <1>7, <2>1, <3>1 DEF Before
    <3>3. Stands(Before)'
      BY <1>1, <1>2, <3>2, SameDrive DEF Stands
    <3> QED BY <1>1, <1>7, <2>1, <3>2, <3>3, SameWay DEF LevelInv, There, Ending, Judged
  <2> QED BY <1>1, <2>2, <2>3, OnwardInv
<1>8. CASE /\ ~(run.hop < Len(Way)) /\ UNCHANGED state /\ pc' = "read"
           /\ run' = [run EXCEPT !.reading = 1, !.at = Drive.points[run.point]]
  <2>1. OnGrid(Drive.points[run.point]) /\ Drive.points[run.point] \in Int
    BY <1>2, DriveFacts DEF OnGrid
  <2>2. /\ run' \in Locals /\ run'.at = Drive.points[run.point] /\ run'.point = run.point
        /\ run'.alert = run.alert /\ run'.limited = run.limited /\ run'.armed = run.armed
        /\ run'.failed = run.failed /\ run'.stopped = run.stopped /\ run'.lost = run.lost
    BY <1>1, <1>8, <2>1 DEF Locals
  <2>3. Onward
    BY <1>1, <1>2, <1>8, <2>2 DEF Onward, Measuring, Moving, There
  <2>4. LevelInv'
    <3>1. Way[run.hop] = Drive.points[run.point]
      BY <1>2, <1>3, <1>8
    <3>2. Stands(run.at)' /\ OnGrid(run.at)'
      BY <1>1, <1>2, <2>1, <2>2, <3>1, SameDrive DEF Stands, OnGrid
    <3>3. run'.at = (Drive.points[run.point])'
      BY <2>2, SameDrive
    <3> QED BY <1>8, <3>2, <3>3 DEF LevelInv, Moving, There, Ending, Judged
  <2> QED BY <1>1, <2>3, <2>4, OnwardInv
<1> QED BY <1>4, <1>5, <1>6, <1>7, <1>8 DEF Wait

\* Run::live_conversion.
LEMMA ConvertInv == Inv /\ Convert => Inv'
<1> SUFFICES ASSUME Inv, Convert PROVE Inv'
  OBVIOUS
<1> USE DEF Inv
<1>1. pc = "convert" /\ rec' = rec /\ level' = level /\ run \in Locals /\ Sound(state)
      /\ level \in Int \X Int /\ pc \in Moving /\ pc \in Measuring
  BY DEF Convert, TypeInv, Moving, Measuring
<1>2. CASE OffFails \/ OffStops("meter") \/ CheckTrips
  BY <1>1, <1>2, OffFailsLeft, OffStopsLeft, TripsLeft, LeftStill DEF Alerts
<1>3. CASE (Fail \/ Halt) /\ UNCHANGED state
  BY <1>1, <1>3, HaltLeft, FailLeft, LeftStill DEF After
<1>4. CASE pc' = "wait" /\ run' = [run EXCEPT !.polls = @ + 1] /\ UNCHANGED state
  <2>1. /\ run' \in Locals /\ run'.at = run.at /\ run'.point = run.point /\ run'.hop = run.hop
        /\ run'.alert = run.alert /\ run'.limited = run.limited /\ run'.armed = run.armed
        /\ run'.failed = run.failed /\ run'.stopped = run.stopped /\ run'.lost = run.lost
    BY <1>1, <1>4 DEF Locals
  <2>2. Onward
    BY <1>1, <1>4, <2>1, MovingClose DEF Onward, Measuring, Moving
  <2>3. LevelInv'
    <3>1. Stands(Way[run.hop])'
      BY <1>1, <2>1, SameWay, SameDrive DEF LevelInv, Stands
    <3> QED BY <1>1, <1>4, <2>1, <3>1, SameWay DEF LevelInv, Moving, There, Ending, Judged
  <2> QED BY <1>1, <2>2, <2>3, OnwardInv
<1> QED BY <1>2, <1>3, <1>4 DEF Convert, Fails

\* A step at the point that leaves the instruments and the levels alone.
LEMMA ThereInv ==
    ASSUME Inv, pc \in There \ {"save"}, pc' \in There, UNCHANGED <<state, rec, level>>,
           run' = run \/ (AverageCount \in Nat /\ run' = [run EXCEPT !.reading = @ + 1])
    PROVE  Inv'
<1> USE DEF Inv
<1>1. run \in Locals /\ Stands(run.at) /\ OnGrid(run.at) /\ run.at = Drive.points[run.point]
      /\ run.point <= Count /\ level \in Int \X Int /\ pc # "save"
  BY DEF TypeInv, LevelInv, RowsInv
<1>2. /\ run' \in Locals /\ run'.at = run.at /\ run'.point = run.point /\ run'.hop = run.hop
      /\ run'.alert = run.alert /\ run'.limited = run.limited /\ run'.armed = run.armed
      /\ run'.failed = run.failed /\ run'.stopped = run.stopped /\ run'.lost = run.lost
  BY <1>1 DEF Locals
<1>3. Onward
  BY <1>1, <1>2 DEF Onward, Measuring
<1>4. LevelInv'
  <2>1. Stands(run.at)' /\ (run.at = Drive.points[run.point])'
    BY <1>1, <1>2, SameDrive DEF Stands
  <2> QED BY <1>1, <1>2, <2>1, SameWay DEF LevelInv, Moving, There, Ending, Judged
<1> QED BY <1>1, <1>3, <1>4, OnwardInv

\* Run::reading: at the limit both sources are turned off, and the record is kept.
LEMMA ReadInv == Inv /\ Read => Inv'
<1> SUFFICES ASSUME Inv, Read PROVE Inv'
  OBVIOUS
<1> USE DEF Inv
<1>1. pc = "read" /\ rec' = rec /\ level' = level /\ run \in Locals /\ Sound(state)
      /\ level \in Int \X Int /\ pc \in There /\ pc \in Measuring /\ ~state.err
  BY DEF Read, TypeInv, There, Measuring
<1>2. CASE CheckTrips \/ OffFails
  BY <1>1, <1>2, TripsLeft, OffFailsLeft, LeftStill
<1>3. CASE (Fail \/ Halt) /\ UNCHANGED state
  BY <1>1, <1>3, HaltLeft, FailLeft, LeftStill DEF After
<1>4. CASE \E q \in SweepOff(state) :
             /\ state' = q.s
             /\ IF q.ok THEN pc' = "save" /\ run' = [run EXCEPT !.alert = "meter", !.limited = TRUE]
                ELSE pc' = "collect" /\ run' = [run EXCEPT !.alert = "meter", !.failed = TRUE]
  <2>1. PICK q \in SweepOff(state) :
             /\ state' = q.s
             /\ IF q.ok THEN pc' = "save" /\ run' = [run EXCEPT !.alert = "meter", !.limited = TRUE]
                ELSE pc' = "collect" /\ run' = [run EXCEPT !.alert = "meter", !.failed = TRUE]
    BY <1>4
  <2>2. SourcesOnly(state, state') /\ q.ok \in BOOLEAN
    BY <1>1, <2>1, SweepOffFacts
  <2>3. After(state, state')
    BY <2>2 DEF SourcesOnly, After
  <2>4. CASE pc' = "collect" /\ run' = [run EXCEPT !.alert = "meter", !.failed = TRUE]
    <3>1. Left
      BY <1>1, <2>4 DEF Left, Locals, Alerts
    <3> QED BY <1>1, <2>3, <3>1, LeftStill
  <2>5. CASE pc' = "save" /\ run' = [run EXCEPT !.alert = "meter", !.limited = TRUE]
    <3>1. /\ run' \in Locals /\ run'.at = run.at /\ run'.point = run.point /\ run'.hop = run.hop
          /\ run'.alert = "meter" /\ run'.limited /\ run'.armed = run.armed
          /\ run'.failed = run.failed /\ run'.stopped = run.stopped /\ run'.lost = run.lost
      BY <1>1, <2>5 DEF Locals, Alerts
    <3>2. TypeInv'
      BY <1>1, <2>3, <2>5, <3>1 DEF TypeInv, After, There, Measuring
    <3>3. OpenInv'
      BY <1>1, <2>5, <3>1 DEF OpenInv, Starting, Measuring, Moving, There
    <3>4. RowsInv'
      <4>1. rec.manifest \in {"none", "in progress"} /\ Len(rec.rows) = run.point - 1
            /\ run.point <= Count + 1 /\ run.point <= Count
            /\ \A i \in 1..Len(rec.rows) : rec.rows[i] = "ok"
        BY <1>1 DEF RowsInv
      <4>2. Count' = Count
        BY SameDrive
      <4> QED BY <1>1, <2>5, <3>1, <4>1, <4>2 DEF RowsInv, Starting, Judged
    <3>5. VerdictInv' /\ DrivenInv'
      BY <2>5, <3>1 DEF VerdictInv, DrivenInv, Judged
    <3>6. LevelInv'
      <4>1. Stands(run.at)' /\ (run.at = Drive.points[run.point])'
        BY <1>1, <3>1, SameDrive DEF Stands, LevelInv
      <4> QED BY <1>1, <2>5, <3>1, <4>1, SameWay DEF LevelInv, Moving, There, Ending, Judged
    <3> QED BY <3>2, <3>3, <3>4, <3>5, <3>6
  <2> QED BY <2>1, <2>4, <2>5
<1>5. CASE /\ UNCHANGED state
           /\ IF run.reading < AverageCount THEN pc' = "read" /\ run' = [run EXCEPT !.reading = @ + 1]
              ELSE Goto(IF Real THEN "verify" ELSE "save")
  <2>1. pc' \in There /\ (run' = run \/ run' = [run EXCEPT !.reading = @ + 1])
    BY <1>5 DEF Goto, There
  <2>2. AverageCount \in Nat
    BY BalancedAssumption
  <2> QED BY <1>1, <1>5, <2>1, <2>2, ThereInv
<1> QED BY <1>2, <1>3, <1>4, <1>5 DEF Read, Fails

\* The readback of both levels.
LEMMA VerifyInv == Inv /\ Verify => Inv'
<1> SUFFICES ASSUME Inv, Verify PROVE Inv'
  OBVIOUS
<1> USE DEF Inv
<1>1. pc = "verify" /\ rec' = rec /\ level' = level /\ run \in Locals /\ Sound(state)
      /\ pc \in There /\ pc \in Measuring
  BY DEF Verify, TypeInv, There, Measuring
<1>2. CASE CheckTrips \/ OffFails
  BY <1>1, <1>2, TripsLeft, OffFailsLeft, LeftStill
<1>3. CASE (Fail \/ Halt) /\ UNCHANGED state
  BY <1>1, <1>3, HaltLeft, FailLeft, LeftStill DEF After
<1>4. CASE Goto("save") /\ UNCHANGED state
  BY <1>1, <1>4, ThereInv DEF Goto, There
<1> QED BY <1>2, <1>3, <1>4 DEF Verify, Fails

\* A row that is appended to rows that are all of points within the limit.
LEMMA OneMoreRow ==
    ASSUME NEW s \in Seq(Row), \A i \in 1..Len(s) : s[i] = "ok"
    PROVE  Len(Append(s, "ok")) = Len(s) + 1 /\ \A i \in 1..Len(Append(s, "ok")) : Append(s, "ok")[i] = "ok"
<1>1. "ok" \in Row
  BY DEF Row
<1> QED BY <1>1

\* The row and the point of the audit, one after the other.
LEMMA SaveInv == Inv /\ Save => Inv'
<1> SUFFICES ASSUME Inv, Save PROVE Inv'
  OBVIOUS
<1> USE DEF Inv
<1> DEFINE kind == IF run.limited THEN "limit" ELSE "ok"
           row == [rec EXCEPT !.rows = Append(rec.rows, kind)]
           point == [rec EXCEPT !.rows = Append(rec.rows, kind), !.points = rec.points + 1]
<1>1. pc = "save" /\ state' = state /\ level' = level /\ run \in Locals /\ Sound(state)
      /\ rec \in Recordings /\ level \in Int \X Int /\ pc \in There /\ pc \in Measuring /\ ~state.err
  BY DEF Save, TypeInv, There, Measuring
<1>2. /\ Stands(run.at) /\ OnGrid(run.at) /\ rec.manifest \in {"none", "in progress"}
      /\ Len(rec.rows) = run.point - 1 /\ run.point <= Count
  BY <1>1 DEF LevelInv, RowsInv
<1>2b. \A i \in 1..Len(rec.rows) : rec.rows[i] = "ok"
  BY <1>1 DEF RowsInv
<1>2a. Close'
  <2>1. Stands(run.at) /\ OnGrid(run.at) /\ level' = level
    BY <1>1, <1>2
  <2>2. Close
    BY <2>1, StandsClose
  <2> QED BY <2>1, <2>2, SameLevel
<1>3. /\ row \in Recordings /\ row.manifest = rec.manifest
      /\ point \in Recordings /\ point.manifest = rec.manifest
      /\ point.rows = Append(rec.rows, kind)
  <2>1. rec.rows \in Seq(Row) /\ kind \in Row /\ rec.points \in Nat
    BY <1>1 DEF Recordings, Row
  <2>2. Append(rec.rows, kind) \in Seq(Row) /\ rec.points + 1 \in Nat
    BY <2>1
  <2> HIDE DEF kind
  <2> DEFINE longer == Append(rec.rows, kind)
             more == rec.points + 1
  <2> HIDE DEF longer, more
  <2>3. longer \in Seq(Row) /\ more \in Nat
    BY <2>2 DEF longer, more
  <2>4. [rec EXCEPT !.rows = longer] \in Recordings
        /\ [rec EXCEPT !.rows = longer].manifest = rec.manifest
    BY <1>1, <2>3 DEF Recordings
  <2>5. [rec EXCEPT !.rows = longer, !.points = more] \in Recordings
        /\ [rec EXCEPT !.rows = longer, !.points = more].manifest = rec.manifest
        /\ [rec EXCEPT !.rows = longer, !.points = more].rows = longer
    BY <1>1, <2>3 DEF Recordings
  <2> QED BY <2>4, <2>5 DEF longer, more
<1>4. \/ Fail /\ rec' \in {rec, row}
      \/ run.limited /\ Goto("collect") /\ rec' = point
      \/ /\ ~run.limited /\ pc' = "point" /\ run' = [run EXCEPT !.point = @ + 1]
         /\ rec' = point
  <2>1. [row EXCEPT !.points = @ + 1] = point
    BY <1>1 DEF Recordings
  <2> QED BY <2>1 DEF Save
<1> HIDE DEF row, point
<1>5. CASE Fail /\ rec' \in {rec, row}
  <2>1. Left /\ After(state, state')
    BY <1>1, <1>5, FailLeft DEF After
  <2> QED BY <1>1, <1>2a, <1>3, <1>5, <2>1, LeftInv
<1>6. CASE run.limited /\ Goto("collect") /\ rec' = point
  <2>1. pc' = "collect" /\ run' = run /\ run.alert = "meter"
        /\ pc' \notin Starting \cup Measuring \cup Judged \cup {"settle"}
    BY <1>1, <1>6 DEF Goto, Starting, Measuring, Moving, There, Judged, OpenInv
  <2>2. TypeInv'
    BY <1>1, <1>3, <1>6, <2>1 DEF TypeInv, Ending
  <2>3. OpenInv'
    BY <1>1, <2>1 DEF OpenInv, Measuring, Moving, There
  <2>4. RowsInv'
    BY <1>2, <1>3, <1>6, <2>1 DEF RowsInv, Measuring
  <2>5. VerdictInv' /\ DrivenInv'
    BY <2>1 DEF VerdictInv, DrivenInv
  <2>6. LevelInv'
    <3>1. run'.at = run.at /\ run'.point = run.point /\ pc' \notin Moving \cup There \cup {"configure", "first on", "second on", "point"}
      BY <2>1 DEF Measuring, Starting
    <3>2. OnGrid(run.at)'
      BY <1>2, <3>1, SameWay
    <3> QED BY <1>2a, <3>1, <3>2 DEF LevelInv, Moving
  <2> QED BY <2>2, <2>3, <2>4, <2>5, <2>6
<1>7. CASE /\ ~run.limited /\ pc' = "point" /\ run' = [run EXCEPT !.point = @ + 1]
           /\ rec' = point
  <2>1. /\ run' \in Locals /\ run'.at = run.at /\ run'.point = run.point + 1
        /\ run'.alert = run.alert /\ run'.limited = run.limited /\ run'.armed = run.armed
        /\ run'.failed = run.failed /\ run'.stopped = run.stopped /\ run'.lost = run.lost
        /\ run.point \in Nat \ {0}
    BY <1>1, <1>7 DEF Locals
  <2>2. TypeInv'
    BY <1>1, <1>3, <1>7, <2>1 DEF TypeInv, Measuring
  <2>3. OpenInv'
    BY <1>1, <1>7, <2>1 DEF OpenInv, Starting, Measuring, Moving, There
  <2>4. RowsInv'
    <3>1. rec'.rows = Append(rec.rows, "ok") /\ rec.rows \in Seq(Row) /\ "ok" \in Row
      BY <1>1, <1>3, <1>7 DEF Recordings, Row
    <3>2. Len(rec'.rows) = run'.point - 1 /\ \A i \in 1..Len(rec'.rows) : rec'.rows[i] = "ok"
      <4>1. Len(rec.rows) = run.point - 1 /\ run.point \in Int
        <5>1. run.point \in Nat \ {0}
          BY <2>1
        <5>2. Len(rec.rows) = run.point - 1
          BY <1>2
        <5>3. run.point \in Int
          BY <5>1
        <5> QED BY <5>2, <5>3
      <4>2. Len(Append(rec.rows, "ok")) = Len(rec.rows) + 1
            /\ \A i \in 1..Len(Append(rec.rows, "ok")) : Append(rec.rows, "ok")[i] = "ok"
        BY <1>2b, <3>1, OneMoreRow
      <4>3. run'.point - 1 = run.point
        BY <2>1, <4>1
      <4>4. (run.point - 1) + 1 = run.point
        BY <4>1
      <4> QED BY <3>1, <4>1, <4>2, <4>3, <4>4
    <3>3. run'.point <= Count' + 1
      <4>1. run.point <= Count /\ Count \in Nat /\ Count' = Count /\ run'.point = run.point + 1
            /\ run.point \in Nat
        BY <1>2, <2>1, SameDrive
      <4> QED BY <4>1
    <3>4. pc' \notin Starting \cup Moving \cup There \cup Judged \cup {"collect"}
      BY <1>7 DEF Starting, Moving, There, Judged
    <3> QED BY <1>2, <1>3, <1>7, <3>2, <3>3, <3>4 DEF RowsInv
  <2>5. VerdictInv' /\ DrivenInv'
    BY <1>1, <1>7, <2>1 DEF VerdictInv, DrivenInv, Judged, Real, BothOn
  <2>6. LevelInv'
    <3>1. Stands(run.at)' /\ OnGrid(run.at)'
      BY <1>1, <1>2, <2>1, SameDrive DEF Stands, OnGrid
    <3> QED BY <1>7, <3>1 DEF LevelInv, Moving, There, Ending, Judged
  <2> QED BY <2>2, <2>3, <2>4, <2>5, <2>6
<1> QED BY <1>4, <1>5, <1>6, <1>7

-----------------------------------------------------------------------------
(* Cleaning up, and the verdict *)

\* A step of the clean-up: the levels stay, and what the rows and the verdict
\* rest on is left to show.
LEMMA JudgedInv ==
    ASSUME Inv, pc \in Ending, pc' \in Judged, level' = level, Sound(state'), rec' \in Recordings,
           run' = run \/ run' = [run EXCEPT !.lost = TRUE],
           run'.lost => pc' \in {"audit", "hashes", "manifest", "ended"}, RowsInv', VerdictInv'
    PROVE  Inv'
<1> USE DEF Inv
<1>1. run \in Locals /\ level \in Int \X Int
  BY DEF TypeInv
<1>2. run' \in Locals /\ run'.at = run.at /\ run'.armed = run.armed
  BY <1>1 DEF Locals
<1>3. TypeInv'
  BY <1>1, <1>2 DEF TypeInv, Ending, Judged, Starting, Measuring, Moving, There
<1>4. OpenInv'
  BY <1>1, <1>2 DEF OpenInv, Judged, Starting, Measuring, Moving, There
<1>5. DrivenInv'
  BY DEF DrivenInv, Judged, Measuring, Moving, There
<1>6. LevelInv'
  <2>1. OnGrid(run.at)' /\ Close' = Close
    BY <1>2, SameDrive, SameLevel DEF LevelInv, OnGrid
  <2> QED BY <1>2, <2>1 DEF LevelInv, Ending, Judged, Measuring, Moving, There
<1> QED BY <1>3, <1>4, <1>5, <1>6

\* A verdict of the engine's.
LEMMA Verdicts ==
    ASSUME run \in Locals, NEW err \in BOOLEAN
    PROVE  /\ CompletionPhase(err) \in Phases
           /\ CompletionPhase(err) # "Failed" => ~err
           /\ CompletionPhase(err) \notin {"Completed", "Stopped"} => err \/ run.alert # "none"
           /\ CompletionPhase(err) = "Completed" => ~err /\ run.alert = "none" /\ ~run.stopped
BY DEF CompletionPhase, Phases, Locals, Alerts

\* Both sources are turned off, and after an error or a protection the gate too.
LEMMA CollectInv == Inv /\ Collect => Inv'
<1> SUFFICES ASSUME Inv, Collect PROVE Inv'
  OBVIOUS
<1> USE DEF Inv
<1>1. pc = "collect" /\ pc' = "csv" /\ run' = run /\ rec' = rec /\ level' = level /\ run \in Locals
      /\ Sound(state) /\ rec \in Recordings /\ pc \in Ending /\ pc' \in Judged /\ state.err = FALSE
      /\ ~run.lost
  <2>1. state.err \in BOOLEAN /\ pc = "collect" /\ run \in Locals
    BY DEF Collect, TypeInv, Sound, Snapshot
  <2> QED BY <2>1 DEF Collect, Goto, TypeInv, OpenInv, Ending, Judged
<1>2. PICK r \in SweepOff(state) :
        \E q \in IF run.failed \/ ~r.ok \/ run.alert # "none" THEN ShutdownGate(r.s) ELSE {Ok(r.s)} :
          LET err == run.failed \/ ~r.ok \/ ~q.ok
          IN  state' = [q.s EXCEPT !.err = @ \/ err, !.phase = CompletionPhase(q.s.err \/ err)]
  BY DEF Collect
<1>3. PICK q \in IF run.failed \/ ~r.ok \/ run.alert # "none" THEN ShutdownGate(r.s) ELSE {Ok(r.s)} :
          LET err == run.failed \/ ~r.ok \/ ~q.ok
          IN  state' = [q.s EXCEPT !.err = @ \/ err, !.phase = CompletionPhase(q.s.err \/ err)]
  BY <1>2
<1> DEFINE err == run.failed \/ ~r.ok \/ ~q.ok
<1>4. /\ SourcesOnly(state, r.s) /\ r.ok \in BOOLEAN /\ r.s.out["source"] # "On" /\ Sound(r.s)
      /\ r.ok => \A o \in Sweepers : r.s.out[o] = "Off" /\ ~r.s.phys[o]
      /\ r.s.conn = state.conn /\ r.s.err = FALSE
  BY <1>1, SweepOffFacts DEF SourcesOnly
<1>5. /\ Sound(q.s) /\ q.s.conn = state.conn /\ q.s.err = FALSE /\ q.ok \in BOOLEAN
      /\ \A o \in Sweepers : q.s.phys[o] = r.s.phys[o] /\ q.s.out[o] = r.s.out[o]
      /\ (err \/ run.alert # "none") /\ Live(q.s, "gate") => ~q.s.phys["gate"] \/ q.s.missed
  <2>1. CASE run.failed \/ ~r.ok \/ run.alert # "none"
    <3>1. q \in ShutdownGate(r.s) /\ r.s \in Snapshot
      BY <1>3, <1>4, <2>1 DEF Sound
    <3>2. GateOnly(r.s, q.s) /\ q.ok \in BOOLEAN
          /\ (Live(r.s, "gate") => ~q.s.phys["gate"] \/ q.s.missed)
      BY <3>1, ShutdownGateFacts
    <3>3. Sound(q.s)
      BY <1>4, <3>2, GateSound
    <3> QED BY <1>4, <3>2, <3>3 DEF GateOnly, Live
  <2>2. CASE ~(run.failed \/ ~r.ok \/ run.alert # "none")
    <3>1. q.s = r.s /\ q.ok = TRUE
      BY <1>3, <2>2, Results
    <3> QED BY <1>4, <2>2, <3>1
  <2> QED BY <2>1, <2>2
<1>6. err \in BOOLEAN /\ state' = [q.s EXCEPT !.err = err, !.phase = CompletionPhase(err)]
  <2>1. err \in BOOLEAN
    BY <1>1, <1>4, <1>5 DEF Locals
  <2>2. state' = [q.s EXCEPT !.err = q.s.err \/ err, !.phase = CompletionPhase(q.s.err \/ err)]
    BY <1>3
  <2> HIDE DEF err
  <2>3. (q.s.err \/ err) = err
    BY <1>5, <2>1
  <2> QED BY <2>1, <2>2, <2>3
<1>7. /\ err => run.failed \/ ~r.ok \/ ~q.ok
      /\ ~err => ~run.failed /\ r.ok
  OBVIOUS
<1> HIDE DEF err
<1>8. /\ CompletionPhase(err) \in Phases
      /\ CompletionPhase(err) # "Failed" => ~err
      /\ CompletionPhase(err) \notin {"Completed", "Stopped"} => err \/ run.alert # "none"
      /\ CompletionPhase(err) = "Completed" => ~err /\ run.alert = "none" /\ ~run.stopped
  BY <1>1, <1>6, Verdicts
<1>9. /\ Sound(state') /\ state'.conn = state.conn /\ state'.phys = q.s.phys /\ state'.out = q.s.out
      /\ state'.missed = q.s.missed /\ state'.err = err /\ state'.phase = CompletionPhase(err)
  <2> DEFINE phase == CompletionPhase(err)
  <2>1. phase \in Phases
    BY <1>8
  <2> HIDE DEF phase
  <2>2. state' = [q.s EXCEPT !.err = err, !.phase = phase]
    BY <1>6 DEF phase
  <2>3. /\ Sound(state') /\ state'.conn = q.s.conn /\ state'.phys = q.s.phys /\ state'.out = q.s.out
        /\ state'.missed = q.s.missed /\ state'.err = err /\ state'.phase = phase
    BY <1>5, <1>6, <2>1, <2>2 DEF Sound, Snapshot, Live
  <2> QED BY <1>5, <2>3 DEF phase
<1>10. RowsInv'
  <2>1. AllRows' = AllRows
    BY <1>1, SameDrive DEF AllRows
  <2>2. state'.phase = "Completed" => AllRows
    BY <1>1, <1>7, <1>8, <1>9 DEF RowsInv
  <2>3. rec.manifest \in {"none", "in progress"}
    BY <1>1 DEF RowsInv
  <2> QED BY <1>1, <2>1, <2>2, <2>3 DEF RowsInv, Starting, Measuring, Moving, There
<1>11. VerdictInv'
  <2>1. state'.phase # "Failed" => /\ \A o \in Sweepers : state'.out[o] = "Off" /\ ~state'.phys[o]
                                   /\ ~state'.err
    BY <1>4, <1>5, <1>7, <1>8, <1>9
  <2>2. state'.phase \notin {"Completed", "Stopped"} => GateShut'
    BY <1>5, <1>8, <1>9 DEF GateShut, Live
  <2>3. state'.out["source"] # "On"
    BY <1>4, <1>5, <1>9 DEF Sweepers
  <2> QED BY <1>1, <2>1, <2>2, <2>3 DEF VerdictInv
<1> QED BY <1>1, <1>9, <1>10, <1>11, JudgedInv

\* The snapshot of a run that failed.
LEMMA FailedState ==
    ASSUME Sound(state)
    PROVE  LET S == [state EXCEPT !.phase = "Failed"]
           IN  /\ Sound(S) /\ S.conn = state.conn /\ S.phys = state.phys /\ S.out = state.out
               /\ S.missed = state.missed /\ S.err = state.err /\ S.phase = "Failed"
BY DEF Sound, Snapshot, Phases, Live

\* The CSV file is made durable, or it is lost.
LEMMA CloseCsvInv == Inv /\ CloseCsv => Inv'
<1> SUFFICES ASSUME Inv, CloseCsv PROVE Inv'
  OBVIOUS
<1> USE DEF Inv
<1>1. pc = "csv" /\ pc' = "audit" /\ level' = level /\ run \in Locals
      /\ Sound(state) /\ rec \in Recordings /\ pc \in Ending /\ pc \in Judged /\ pc' \in Judged
      /\ ~run.lost /\ rec.manifest \in {"none", "in progress"}
  <2>1. pc = "csv"
    BY DEF CloseCsv
  <2> QED BY <2>1 DEF CloseCsv, TypeInv, OpenInv, RowsInv, Ending, Judged
<1>2. CASE rec' = [rec EXCEPT !.csv = "final"] /\ UNCHANGED <<state, run>>
  <2>1. rec' \in Recordings /\ rec'.rows = rec.rows /\ rec'.manifest = rec.manifest
        /\ rec'.csv = "final"
    BY <1>1, <1>2 DEF Recordings
  <2>2. RowsInv'
    <3>1. AllRows' = AllRows
      BY <2>1, SameDrive DEF AllRows
    <3> QED BY <1>1, <1>2, <2>1, <3>1 DEF RowsInv, Starting, Measuring, Moving, There
  <2>3. VerdictInv'
    BY <1>1, <1>2, <2>1 DEF VerdictInv, GateShut, Live
  <2> QED BY <1>1, <1>2, <2>1, <2>2, <2>3, JudgedInv
<1>3. CASE run' = [run EXCEPT !.lost = TRUE] /\ UNCHANGED rec /\ state' = [state EXCEPT !.phase = "Failed"]
  <2>1. /\ Sound(state') /\ state'.out = state.out /\ state'.phase = "Failed" /\ run'.lost
    BY <1>1, <1>3, FailedState DEF Locals
  <2>2. RowsInv'
    BY <1>1, <1>3, <2>1 DEF RowsInv, Starting, Measuring, Moving, There
  <2>3. VerdictInv'
    BY <1>1, <1>3, <2>1 DEF VerdictInv
  <2> QED BY <1>1, <1>3, <2>1, <2>2, <2>3, JudgedInv DEF Judged
<1> QED BY <1>2, <1>3 DEF CloseCsv

\* The audit.
LEMMA CloseAuditInv == Inv /\ CloseAudit => Inv'
<1> SUFFICES ASSUME Inv, CloseAudit PROVE Inv'
  OBVIOUS
<1> USE DEF Inv
<1>1. pc = "audit" /\ pc' = "hashes" /\ level' = level /\ state' = state /\ run \in Locals
      /\ Sound(state) /\ rec \in Recordings /\ pc \in Ending /\ pc \in Judged /\ pc' \in Judged
      /\ rec.manifest \in {"none", "in progress"}
  <2>1. pc = "audit"
    BY DEF CloseAudit
  <2> QED BY <2>1 DEF CloseAudit, TypeInv, RowsInv, Ending, Judged
<1>2. /\ rec' \in Recordings /\ rec'.rows = rec.rows /\ rec'.manifest = rec.manifest
      /\ rec'.csv = rec.csv
      /\ \/ rec'.audit = "final" /\ run' = run
         \/ run' = [run EXCEPT !.lost = TRUE] /\ run'.lost
  BY <1>1 DEF CloseAudit, Recordings, Locals
<1>3. RowsInv'
  <2>1. AllRows' = AllRows
    BY <1>2, SameDrive DEF AllRows
  <2> QED BY <1>1, <1>2, <2>1 DEF RowsInv, Starting, Measuring, Moving, There
<1>4. VerdictInv'
  BY <1>1, <1>2 DEF VerdictInv, GateShut, Live
<1> QED BY <1>1, <1>2, <1>3, <1>4, JudgedInv

\* A gate that is shut, and the failure that is noted.
LEMMA GateFailed ==
    ASSUME Sound(state), NEW q \in ShutdownGate(state),
           NEW T, T = [q.s EXCEPT !.err = TRUE, !.phase = "Failed"]
    PROVE  /\ Sound(T) /\ T.phase = "Failed" /\ T.conn = state.conn
           /\ Live(T, "gate") => ~T.phys["gate"] \/ T.missed
           /\ \A r \in Sweepers : T.out[r] = state.out[r] /\ T.phys[r] = state.phys[r]
<1>1. state \in Snapshot
  BY DEF Sound
<1>2. GateOnly(state, q.s) /\ (Live(state, "gate") => ~q.s.phys["gate"] \/ q.s.missed)
  BY <1>1, ShutdownGateFacts
<1>3. Sound(q.s) /\ q.s.conn = state.conn
      /\ \A r \in Sweepers : q.s.out[r] = state.out[r] /\ q.s.phys[r] = state.phys[r]
  BY <1>2, GateSound DEF GateOnly
<1>4. Sound(T) /\ T.phase = "Failed" /\ T.conn = q.s.conn /\ T.out = q.s.out /\ T.phys = q.s.phys
      /\ T.missed = q.s.missed
  BY <1>3 DEF Sound, Snapshot, Phases, Live
<1> QED BY <1>2, <1>3, <1>4 DEF Live

\* A gate that could not be shut fails the engine, and says so.
LEMMA GateFailedNow ==
    ASSUME Sound(state),
           state' \in {[q.s EXCEPT !.err = TRUE, !.phase = "Failed"] : q \in ShutdownGate(state)}
    PROVE  /\ Sound(state') /\ state'.phase = "Failed" /\ GateShut'
           /\ \A r \in Sweepers : state'.out[r] = state.out[r]
<1>1. PICK q \in ShutdownGate(state) : state' = [q.s EXCEPT !.err = TRUE, !.phase = "Failed"]
  OBVIOUS
<1> DEFINE T == [q.s EXCEPT !.err = TRUE, !.phase = "Failed"]
<1>2. /\ Sound(T) /\ T.phase = "Failed" /\ T.conn = state.conn
      /\ Live(T, "gate") => ~T.phys["gate"] \/ T.missed
      /\ \A r \in Sweepers : T.out[r] = state.out[r] /\ T.phys[r] = state.phys[r]
  BY GateFailed
<1>3. state' = T
  BY <1>1
<1> HIDE DEF T
<1> QED BY <1>2, <1>3 DEF GateShut

\* The hashes: what was lost, here or before, fails the run.
LEMMA HashesInv == Inv /\ Hashes => Inv'
<1> SUFFICES ASSUME Inv, Hashes PROVE Inv'
  OBVIOUS
<1> USE DEF Inv
<1>1. pc = "hashes" /\ pc' = "manifest" /\ level' = level /\ rec' = rec /\ run \in Locals
      /\ Sound(state) /\ rec \in Recordings /\ pc \in Ending /\ pc \in Judged /\ pc' \in Judged
      /\ rec.manifest \in {"none", "in progress"} /\ run.lost \in BOOLEAN
  <2>1. pc = "hashes" /\ run \in Locals
    BY DEF Hashes, TypeInv
  <2> QED BY <2>1 DEF Hashes, TypeInv, RowsInv, Ending, Judged, Locals
<1>2. PICK lost \in {run.lost, TRUE} :
        /\ run' = [run EXCEPT !.lost = lost]
        /\ state' \in IF ~lost THEN {state}
                      ELSE {[q.s EXCEPT !.err = TRUE, !.phase = "Failed"] : q \in ShutdownGate(state)}
  BY DEF Hashes
<1>3. AllRows' = AllRows
  BY <1>1, SameDrive DEF AllRows
<1>4. CASE lost
  <2>1. run' = [run EXCEPT !.lost = TRUE]
    BY <1>1, <1>2, <1>4
  <2>2. /\ Sound(state') /\ state'.phase = "Failed" /\ GateShut'
        /\ state'.out["source"] = state.out["source"]
    BY <1>1, <1>2, <1>4, GateFailedNow DEF Sweepers
  <2>3. RowsInv'
    BY <1>1, <2>2 DEF RowsInv, Starting, Measuring, Moving, There
  <2>4. VerdictInv'
    BY <1>1, <2>2 DEF VerdictInv
  <2> QED BY <1>1, <2>1, <2>2, <2>3, <2>4, JudgedInv DEF Judged
<1>5. CASE ~lost
  <2>1. run' = run /\ state' = state /\ ~run.lost
    BY <1>1, <1>2, <1>5 DEF Locals
  <2>2. RowsInv'
    BY <1>1, <1>3, <2>1 DEF RowsInv, Starting, Measuring, Moving, There
  <2>3. VerdictInv'
    BY <1>1, <2>1 DEF VerdictInv, GateShut, Live
  <2> QED BY <1>1, <2>1, <2>2, <2>3, JudgedInv DEF Judged
<1> QED BY <1>4, <1>5

\* The manifest names the verdict, or it is left and the run fails.
LEMMA ManifestInv == Inv /\ Manifest => Inv'
<1> SUFFICES ASSUME Inv, Manifest PROVE Inv'
  OBVIOUS
<1> USE DEF Inv
<1>1. pc = "manifest" /\ pc' = "ended" /\ level' = level /\ run' = run /\ run \in Locals
      /\ Sound(state) /\ rec \in Recordings /\ pc \in Ending /\ pc \in Judged /\ pc' \in Judged
      /\ rec.manifest \in {"none", "in progress"}
  <2>1. pc = "manifest"
    BY DEF Manifest
  <2> QED BY <2>1 DEF Manifest, Goto, TypeInv, RowsInv, Ending, Judged
<1>2. CASE PointsListed /\ rec' = [rec EXCEPT !.manifest = state.phase] /\ UNCHANGED state
  <2>1. state.phase \in Phases
    BY <1>1 DEF Sound, Snapshot
  <2>2. rec' \in Recordings /\ rec'.rows = rec.rows /\ rec'.points = rec.points
        /\ rec'.csv = rec.csv /\ rec'.audit = rec.audit /\ rec'.manifest = state.phase
    BY <1>1, <1>2, <2>1 DEF Recordings
  <2>3. RowsInv'
    <3>1. AllRows' = AllRows
      BY <2>2, SameDrive DEF AllRows
    <3> QED BY <1>1, <1>2, <2>2, <3>1 DEF RowsInv, PointsListed, Starting, Measuring, Moving, There
  <2>4. VerdictInv'
    BY <1>1, <1>2, <2>2 DEF VerdictInv, GateShut, Live
  <2> QED BY <1>1, <1>2, <2>2, <2>3, <2>4, JudgedInv
<1>3. CASE /\ UNCHANGED rec
           /\ state' \in {[q.s EXCEPT !.err = TRUE, !.phase = "Failed"] : q \in ShutdownGate(state)}
  <2>1. /\ Sound(state') /\ state'.phase = "Failed" /\ GateShut'
        /\ state'.out["source"] = state.out["source"]
    BY <1>1, <1>3, GateFailedNow DEF Sweepers
  <2>2. RowsInv'
    BY <1>1, <1>3, <2>1 DEF RowsInv, Starting, Measuring, Moving, There
  <2>3. VerdictInv'
    BY <1>1, <1>3, <2>1 DEF VerdictInv
  <2> QED BY <1>1, <1>3, <2>1, <2>2, <2>3, JudgedInv
<1> QED BY <1>2, <1>3 DEF Manifest

\* clean_output with two sources: both are turned off.
LEMMA CleanFacts ==
    ASSUME NEW S, Sound(S), NEW T \in CleanOutput(S)
    PROVE  Sound(T) /\ T.conn = S.conn /\ T.out["source"] # "On"
<1> DEFINE C == [S EXCEPT !.phase = "CleaningUp", !.out["source"] = "Unknown"]
<1>1. Connected(S, "source2")
  BY DEF Sound, Connected, Kinds
<1>2. Sound(C) /\ C.conn = S.conn
  BY Names DEF Sound, Snapshot, Phases, OutputStates, Live, Sweepers
<1>3. CleanOutput(S) = {IF q.ok THEN q.s ELSE [q.s EXCEPT !.err = TRUE] : q \in SweepOff(C)}
  BY <1>1 DEF CleanOutput, Connected
<1> HIDE DEF C
<1>3a. PICK q \in SweepOff(C) : T = IF q.ok THEN q.s ELSE [q.s EXCEPT !.err = TRUE]
  BY <1>3
<1>4. SourcesOnly(C, q.s) /\ q.s.out["source"] # "On"
  BY <1>2, SweepOffFacts
<1>5. Sound(q.s) /\ q.s.conn = C.conn
  BY <1>4 DEF SourcesOnly
<1>6. LET F == [q.s EXCEPT !.err = TRUE]
      IN  Sound(F) /\ F.conn = q.s.conn /\ F.out = q.s.out
  BY <1>5 DEF Sound, Snapshot, Live
<1> QED BY <1>2, <1>3a, <1>4, <1>5, <1>6

\* serve, when `execute` returns an error.
LEMMA SettleInv == Inv /\ Settle => Inv'
<1> SUFFICES ASSUME Inv, Settle PROVE Inv'
  OBVIOUS
<1> USE DEF Inv
<1>1. pc = "settle" /\ pc' = "ended" /\ level' = level /\ run' = run /\ rec' = rec
      /\ Sound(state) /\ rec \in Recordings /\ pc \in Ending /\ pc' \in Judged
      /\ rec.manifest \in {"none", "in progress"}
  <2>1. pc = "settle"
    BY DEF Settle
  <2> QED BY <2>1 DEF Settle, Goto, TypeInv, RowsInv, Ending, Judged
<1> DEFINE cleaned == IF Connected(state, "source2") /\ state.out["source"] # "Off"
                        THEN CleanOutput(state) ELSE {state}
<1>2. PICK T : T \in UNION {Outcomes(ShutdownGate(c)) : c \in cleaned}
               /\ state' = [T EXCEPT !.phase = "Failed", !.err = TRUE]
  BY DEF Settle, ErrorPath
<1>3. PICK c \in cleaned : T \in Outcomes(ShutdownGate(c))
  BY <1>2
<1>4. Sound(c) /\ c.conn = state.conn /\ c.out["source"] # "On"
  <2>1. CASE Connected(state, "source2") /\ state.out["source"] # "Off"
    <3>1. c \in CleanOutput(state)
      BY <1>3, <2>1
    <3> QED BY <1>1, <3>1, CleanFacts
  <2>2. CASE ~(Connected(state, "source2") /\ state.out["source"] # "Off")
    <3>1. c = state /\ Connected(state, "source2")
      BY <1>1, <1>3, <2>2 DEF Sound, Connected, Kinds
    <3> QED BY <1>1, <2>2, <3>1
  <2> QED BY <2>1, <2>2
<1> HIDE DEF cleaned
<1>5. PICK q \in ShutdownGate(c) : T = q.s
  BY <1>3 DEF Outcomes
<1>6. GateOnly(c, T) /\ (Live(c, "gate") => ~T.phys["gate"] \/ T.missed) /\ Sound(T)
  <2>1. c \in Snapshot
    BY <1>4 DEF Sound
  <2>2. GateOnly(c, T) /\ (Live(c, "gate") => ~T.phys["gate"] \/ T.missed)
    BY <1>5, <2>1, ShutdownGateFacts
  <2> QED BY <1>4, <2>2, GateSound
<1>7. /\ Sound(state') /\ state'.phase = "Failed" /\ state'.conn = T.conn /\ state'.out = T.out
      /\ state'.phys = T.phys /\ state'.missed = T.missed
  BY <1>2, <1>6 DEF Sound, Snapshot, Phases, Live
<1>8. GateShut' /\ state'.out["source"] # "On"
  BY <1>4, <1>6, <1>7 DEF GateShut, GateOnly, Live, Sweepers
<1>9. RowsInv'
  BY <1>1, <1>7 DEF RowsInv, Starting, Measuring, Moving, There
<1>10. VerdictInv'
  BY <1>1, <1>7, <1>8 DEF VerdictInv
<1>11. ~run.lost
  BY <1>1 DEF OpenInv
<1> QED BY <1>1, <1>7, <1>9, <1>10, <1>11, JudgedInv

-----------------------------------------------------------------------------
(* The theorems about a balanced sweep *)

\* A command of the control, or no step.
LEMMA StillInv == Inv /\ UNCHANGED <<state, pc, run, rec, level>> => Inv'
<1> SUFFICES ASSUME Inv, UNCHANGED <<state, pc, run, rec, level>> PROVE Inv'
  OBVIOUS
<1> USE DEF Inv
<1>1. state' = state /\ pc' = pc /\ run' = run /\ rec' = rec /\ level' = level
  OBVIOUS
<1>2. Count' = Count /\ Drive' = Drive /\ Way' = Way /\ Before' = Before
  BY <1>1, SameDrive, SameWay
<1>3. TypeInv' /\ OpenInv'
  BY <1>1 DEF TypeInv, OpenInv
<1>4. RowsInv'
  BY <1>1, <1>2 DEF RowsInv, AllRows
<1>5. VerdictInv' /\ DrivenInv'
  BY <1>1 DEF VerdictInv, DrivenInv, GateShut, Real, BothOn
<1>6. LevelInv'
  <2>1. \A v : Stands(v)' = Stands(v)
    BY <1>1, <1>2 DEF Stands
  <2>2. Close' = Close /\ OnGrid(run.at)' = OnGrid(run.at)
    BY <1>1, SameLevel, SameWay
  <2>3. Stands(run.at)' = Stands(run.at) /\ Stands(Before)' = Stands(Before)
        /\ Stands(Way[run.hop])' = Stands(Way[run.hop])
    BY <1>1, <1>2 DEF Stands
  <2> QED BY <1>1, <1>2, <2>2, <2>3 DEF LevelInv
<1> QED BY <1>3, <1>4, <1>5, <1>6

\* Before `execute` begins: instruments of one kind, in whatever state.
LEMMA InitInv == Init => Inv
<1> SUFFICES ASSUME Init PROVE Inv
  OBVIOUS
<1>1. PICK kind \in Kinds, gate \in BOOLEAN, bias \in BOOLEAN, reference \in BOOLEAN,
           on \in BOOLEAN, err \in BOOLEAN, profile \in BOOLEAN :
        /\ bias => gate
        /\ reference => profile
        /\ kind = "sim" => ~profile /\ ~on
        /\ state = InitState(kind, gate, bias, reference, on, err)
        /\ run = InitRun(profile, reference)
  BY DEF Init
<1>2. pc = "begin" /\ level = <<0, 0>>
      /\ rec = [rows |-> <<>>, points |-> 0, csv |-> "none", audit |-> "none", manifest |-> "none"]
  BY DEF Init
<1> DEFINE conn == [r \in Roles |-> CASE r = "gate" -> IF gate THEN kind ELSE "none"
                                      [] r = "reference" -> IF reference THEN kind ELSE "none"
                                      [] OTHER -> kind]
           out == [r \in Outputs |-> CASE r = "gate" -> IF bias THEN "On" ELSE "Off"
                                       [] OTHER -> IF on THEN "On" ELSE "Off"]
           held == [r \in Outputs |-> IF r = "gate" THEN bias ELSE on]
           phys == [r \in Outputs |-> IF r = "gate" THEN bias /\ kind = "live" ELSE on]
<1>3. state = [conn |-> conn, out |-> out, held |-> held, err |-> err, phase |-> "Ready",
               phys |-> phys, missed |-> FALSE]
  BY <1>1 DEF InitState
<1>4. /\ conn \in [Roles -> Kinds \cup {"none"}] /\ out \in [Outputs -> OutputStates]
      /\ held \in [Outputs -> BOOLEAN] /\ phys \in [Outputs -> BOOLEAN]
  BY DEF OutputStates
<1>5. /\ conn["source"] = kind /\ conn["source2"] = kind
      /\ kind # "live" => \A r \in Sweepers : ~phys[r]
  BY <1>1 DEF Roles, Outputs, Meters, Kinds, Sweepers
<1> HIDE DEF conn, out, held, phys
<1>6. Sound(state)
  <2>1. state \in Snapshot
    BY <1>3, <1>4 DEF Snapshot, Phases
  <2> QED BY <1>3, <1>5, <2>1 DEF Sound, Live
<1>7. run \in Locals /\ run.at = 0 /\ run.point = 1 /\ ~run.failed /\ ~run.stopped /\ ~run.limited
      /\ ~run.armed /\ ~run.lost /\ run.alert = "none"
  BY <1>1 DEF InitRun, Locals, Alerts
<1>8. rec \in Recordings /\ rec.rows = <<>> /\ rec.manifest = "none"
  BY <1>2, NoRows DEF Recordings
<1>9. TypeInv
  BY <1>2, <1>6, <1>7, <1>8 DEF TypeInv, Starting, Measuring, Moving, There
<1>10. OpenInv
  BY <1>2, <1>7 DEF OpenInv, Starting
<1>11. RowsInv
  BY <1>2, <1>8 DEF RowsInv, Measuring, Moving, There, Judged
<1>12. VerdictInv /\ DrivenInv
  BY <1>2 DEF VerdictInv, DrivenInv, Measuring, Moving, There, Judged
<1>13. LevelInv
  BY <1>2, <1>7, ZeroStands DEF LevelInv, Moving, There
<1> QED BY <1>9, <1>10, <1>11, <1>12, <1>13 DEF Inv

\* Every step keeps it.
LEMMA NextInv == Inv /\ [Next]_vars => Inv'
<1> SUFFICES ASSUME Inv, [Next]_vars PROVE Inv'
  OBVIOUS
<1>1. CASE FirstOn
  BY <1>1, TurnOnInv DEF FirstOn, Sweepers
<1>2. CASE SecondOn
  BY <1>2, TurnOnInv DEF SecondOn, Sweepers
<1>3. CASE RequestStop \/ Quiet \/ Heartbeat \/ UNCHANGED vars
  BY <1>3, StillInv DEF RequestStop, Quiet, Heartbeat, Reader, vars
<1>4. CASE Begin \/ Setup \/ Configure \/ Point \/ SetFirst \/ SetSecond \/ Check \/ Wait
  BY <1>4, BeginInv, SetupInv, ConfigureInv, PointInv, SetFirstInv, SetSecondInv, CheckInv, WaitInv
<1>5. CASE Convert \/ Read \/ Verify \/ Save \/ Collect \/ CloseCsv
  BY <1>5, ConvertInv, ReadInv, VerifyInv, SaveInv, CollectInv, CloseCsvInv
<1>6. CASE CloseAudit \/ Hashes \/ Manifest \/ Settle
  BY <1>6, CloseAuditInv, HashesInv, ManifestInv, SettleInv
<1> QED BY <1>1, <1>2, <1>3, <1>4, <1>5, <1>6 DEF Next, Execute

\* The inductive invariant of a balanced sweep over any plan: where the two levels
\* are on their way, what the rows say, and what every verdict rests on.
THEOREM BalancedInvariant == Spec => []Inv
<1>1. Init => Inv
  BY InitInv
<1>2. Inv /\ [Next]_vars => Inv'
  BY NextInv
<1> QED BY <1>1, <1>2, PTL DEF Spec

\* While both outputs are driven their levels are the shares of one level, or one
\* move apart, through every failure and stop (execute and Run::set).
THEOREM BalancedPairMoves == Spec => []PairMoves
<1>1. Inv => PairMoves
  <2> SUFFICES ASSUME Inv, BothOn, run.armed
               PROVE  /\ state.out["source"] = "On" /\ pc \notin {"second", "collect"} => Gap = 0
                      /\ Close
    BY DEF PairMoves, Close
  <2> USE DEF Inv
  <2>1. pc \in Measuring \cup Ending /\ pc # "settle"
    BY DEF TypeInv, OpenInv
  <2>2. CASE pc \in Moving
    BY <2>2, MovingClose DEF Moving
  <2>3. CASE pc \in {"point"} \cup There
    <3>1. Stands(run.at) /\ OnGrid(run.at)
      BY <2>3 DEF LevelInv
    <3> QED BY <3>1, StandsClose
  <2>4. CASE pc \in Ending
    BY <2>1, <2>4 DEF LevelInv, VerdictInv, Ending
  <2> QED BY <2>1, <2>2, <2>3, <2>4 DEF Measuring
<1> QED BY <1>1, BalancedInvariant, PTL

\* How the sweep ends is what really happened to outputs, gate and recordings.
THEOREM BalancedEndsTrue == Spec => []EndsTrue
<1>1. Inv => EndsTrue
  <2> SUFFICES ASSUME Inv PROVE EndsTrue
    OBVIOUS
  <2> USE DEF Inv
  <2>1. EndsClosed
    <3> SUFFICES ASSUME pc = "ended" PROVE EndsClosed
      BY DEF EndsClosed
    <3>1. pc \in Judged
      BY DEF Judged
    <3>2. state.phase # "Failed" =>
             /\ \A r \in Sweepers : state.out[r] = "Off" /\ ~state.phys[r]
             /\ ~state.err /\ rec.csv = "final" /\ rec.audit = "final"
             /\ rec.manifest = state.phase
      BY <3>1 DEF VerdictInv
    <3>3. state.phase \notin {"Completed", "Stopped"} => GateShut
      BY <3>1 DEF VerdictInv
    <3> QED BY <3>2, <3>3 DEF EndsClosed, GateShut
  <2>2. ManifestTrue
    BY DEF RowsInv, AllRows, ManifestTrue
  <2>3. RowsDriven
    BY DEF DrivenInv, RowsDriven, Real, Measuring, There
  <2> QED BY <2>1, <2>2, <2>3 DEF EndsTrue
<1> QED BY <1>1, BalancedInvariant, PTL
=============================================================================
