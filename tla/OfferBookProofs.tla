--------------------------- MODULE OfferBookProofs ---------------------------
(***************************************************************************)
(* Proofs about OfferBook, for every set of offers and orders: the two     *)
(* views of the book agree, an offer that is taken never comes back, and   *)
(* match_limit leaves no offer behind that fits; the amounts it takes and  *)
(* leaves add up, the largest offers come first, and the quote amounts are *)
(* those of the order's price but for roundings.                           *)
(***************************************************************************)
EXTENDS OfferBook, FiniteSetTheorems, SumTheorems, TLAPS

(* Floats, as fractions of natural numbers. *)

\* A rounding is off by at most one part in K: times K, it is between lo and hi times as much.
K == 2 * Least
lo == K - 1
hi == K + 1

\* They are positive.
LEMMA Bounds ==
    /\ K \in Nat /\ lo \in Nat /\ hi \in Nat
    /\ K >= 2 /\ lo >= 1 /\ lo = K - 1 /\ hi = K + 1 /\ K = 2 * Least
    /\ Least \in Nat /\ Least >= 1
BY PrecisionAssumption DEF K, lo, hi

\* What \div and % compute.
LEMMA Cut ==
    ASSUME NEW a \in Nat, NEW b \in Nat \ {0}
    PROVE  /\ a \div b \in Nat /\ a % b \in Nat
           /\ a = b * (a \div b) + (a % b) /\ a % b < b
OBVIOUS

\* A product grows with its factor.
LEMMA Monotone ==
    ASSUME NEW a \in Nat, NEW b \in Nat, NEW c \in Nat, a <= b
    PROVE  a * c <= b * c /\ a * c \in Nat /\ b * c \in Nat
<1>1. PICK e \in Nat : b = a + e
  <2>1. b - a \in Nat /\ b = a + (b - a)
    OBVIOUS
  <2> QED BY <2>1
<1>2. b * c = a * c + e * c /\ e * c \in Nat /\ a * c \in Nat
  BY <1>1
<1> QED BY <1>2

\* A common factor can be cancelled.
LEMMA Cancel ==
    ASSUME NEW a \in Nat, NEW b \in Nat, NEW c \in Nat \ {0}
    PROVE  /\ a * c <= b * c => a <= b
           /\ a * c < b * c => a < b
<1>1. a > b => a * c >= b * c + c
  <2> SUFFICES ASSUME a > b PROVE a * c >= b * c + c
    OBVIOUS
  <2>1. (b + 1) * c <= a * c
    BY Monotone
  <2>2. (b + 1) * c = b * c + c
    OBVIOUS
  <2> QED BY <2>1, <2>2
<1>2. a * c \in Nat /\ b * c \in Nat
  OBVIOUS
<1>3. a = b => a * c = b * c
  OBVIOUS
<1> QED BY <1>1, <1>2, <1>3

\* An integer is nearest to n / d when it is at most one half away.
LEMMA Nearest ==
    ASSUME NEW n \in Nat, NEW d \in Nat \ {0}
    PROVE  /\ nearest(n, d) \in Nat
           /\ 2 * (nearest(n, d) * d) <= 2 * n + d
           /\ 2 * n <= 2 * (nearest(n, d) * d) + d
<1> DEFINE q == n \div d  r == n % d
<1>1. q \in Nat /\ r \in Nat /\ n = d * q + r /\ r < d
  BY Cut
<1>2. nearest(n, d) = IF 2 * r > d \/ (2 * r = d /\ q % 2 = 1) THEN q + 1 ELSE q
  BY DEF nearest
<1> HIDE DEF q, r
<1>3. CASE nearest(n, d) = q /\ 2 * r <= d
  <2>1. nearest(n, d) * d = d * q
    BY <1>1, <1>3
  <2>2. d * q \in Nat
    BY <1>1
  <2> QED BY <1>1, <1>3, <2>1, <2>2
<1>4. CASE nearest(n, d) = q + 1 /\ 2 * r >= d
  <2>1. nearest(n, d) * d = d * q + d
    BY <1>1, <1>4
  <2>2. d * q \in Nat
    BY <1>1
  <2> QED BY <1>1, <1>4, <2>1, <2>2
<1> QED BY <1>1, <1>2, <1>3, <1>4

\* x is n / d but for one rounding.
Near(x, n, d) ==
    /\ x \in Nat \X (Nat \ {0})
    /\ K * x[1] * d <= hi * n * x[2]
    /\ lo * n * x[2] <= K * x[1] * d

\* A number within the range of floats is rounded to one that is near it.
LEMMA Rounded ==
    ASSUME NEW n \in Nat, NEW d \in Nat \ {0}, InRange(n, d)
    PROVE  Near(rounded(n, d), n, d) /\ (n > 0 => rounded(n, d)[1] > 0)
<1>1. CASE n = 0
  <2>1. rounded(n, d) = <<0, 1>>
    BY <1>1 DEF rounded
  <2>2. K * 0 * d = 0 /\ hi * 0 * 1 = 0 /\ lo * 0 * 1 = 0
    BY Bounds
  <2> QED BY <1>1, <2>1, <2>2 DEF Near
<1>2. CASE n # 0
  <2> DEFINE u == CHOOSE v \in Ulps : IsUlp(v, n, d)
  <2>1. u \in Ulps /\ IsUlp(u, n, d)
    BY <1>2 DEF InRange
  <2>2. rounded(n, d) = <<nearest(n * u[2], d * u[1]) * u[1], u[2]>>
    BY <1>2 DEF rounded
  <2> HIDE DEF u
  <2>3. PICK a \in Nat \ {0}, b \in Nat \ {0} : u = <<a, b>>
    BY <2>1, PrecisionAssumption
  <2> DEFINE N == n * b  D == d * a  m == nearest(N, D)
  <2>4. N \in Nat /\ D \in Nat \ {0}
    <3>1. \A i, j \in Nat \ {0} : i * j \in Nat \ {0}
      OBVIOUS
    <3> QED BY <1>2, <3>1
  <2>5. m \in Nat /\ 2 * (m * D) <= 2 * N + D /\ 2 * N <= 2 * (m * D) + D
    BY <2>4, Nearest
  <2>6. Least * a * d <= N
    BY <2>1, <2>3 DEF IsUlp
  <2>7. Least * D = Least * a * d
    BY Bounds
  <2>8. Least * D \in Nat /\ Least * D <= N
    BY <2>4, <2>6, <2>7, Bounds
  <2>9. K * (m * D) <= hi * N /\ lo * N <= K * (m * D)
    <3> HIDE DEF N, D, m
    <3> DEFINE p == m * D
    <3>1. p \in Nat
      BY <2>4, <2>5
    <3> HIDE DEF p
    <3>2. 2 * p <= 2 * N + D /\ 2 * N <= 2 * p + D
      BY <2>5 DEF p
    <3>3. 2 * p * Least <= (2 * N + D) * Least /\ 2 * N * Least <= (2 * p + D) * Least
      BY <2>4, <3>1, <3>2, Bounds, Monotone
    <3>4. /\ 2 * p * Least = K * p /\ (2 * N + D) * Least = K * N + Least * D
          /\ 2 * N * Least = K * N /\ (2 * p + D) * Least = K * p + Least * D
          /\ hi * N = K * N + N /\ lo * N + N = K * N
      BY <2>4, <3>1, Bounds
    <3>5. K * p \in Nat /\ K * N \in Nat /\ lo * N \in Nat
      BY <2>4, <3>1, Bounds
    <3>6. K * p <= hi * N /\ lo * N <= K * p
      BY <2>4, <2>8, <3>3, <3>4, <3>5
    <3> QED BY <3>6 DEF p
  <2>10. m > 0
    <3>1. lo * N >= 1
      <4>1. N \in Nat \ {0} /\ lo \in Nat \ {0}
        BY <2>8, <2>4, Bounds, <1>2
      <4> HIDE DEF N
      <4> QED BY <4>1
    <3> HIDE DEF m, N, D
    <3>2. ASSUME m = 0 PROVE FALSE
      <4>1. m * D = 0
        BY <2>4, <3>2
      <4>2. K * 0 = 0
        BY Bounds
      <4>3. lo * N <= 0
        BY <2>9, <4>1, <4>2
      <4>4. lo * N \in Nat
        BY <2>4, Bounds
      <4> QED BY <3>1, <4>3, <4>4
    <3> QED BY <2>5, <3>2
  <2>11. rounded(n, d) = <<m * a, b>>
    BY <2>2, <2>3
  <2>12. K * (m * a) * d = K * (m * D) /\ hi * n * b = hi * N /\ lo * n * b = lo * N
    <3> HIDE DEF m
    <3> QED BY <2>5, Bounds
  <2>13. m * a \in Nat /\ m * a > 0
    BY <2>5, <2>10
  <2> HIDE DEF m, N, D
  <2> QED BY <2>9, <2>11, <2>12, <2>13 DEF Near
<1> QED BY <1>1, <1>2

\* A product of positive numbers is positive.
LEMMA PosProduct == \A i, j \in Nat \ {0} : i * j \in Nat \ {0}
OBVIOUS

\* Ratios of amounts, of floats and of their quotient, one after the other: the inequalities are
\* multiplied, and what the floats have in common is cancelled.
LEMMA Chain ==
    ASSUME NEW q \in Nat, NEW b \in Nat, NEW n \in Nat, NEW d \in Nat,
           NEW q1 \in Nat, NEW b1 \in Nat, NEW x \in Nat, NEW p1 \in Nat,
           NEW q2 \in Nat \ {0}, NEW b2 \in Nat \ {0}, NEW y \in Nat \ {0}, NEW p2 \in Nat \ {0},
           NEW u1 \in Nat, NEW u2 \in Nat, NEW u3 \in Nat, NEW u4 \in Nat,
           NEW v1 \in Nat, NEW v2 \in Nat, NEW v3 \in Nat, NEW v4 \in Nat,
           u1 * q * q2 <= v1 * q1,
           u2 * q1 * b2 * y <= v2 * x * q2 * b1,
           u3 * b1 <= v3 * b * b2,
           u4 * p1 * d <= v4 * n * p2,
           x * p2 = p1 * y
    PROVE  (u1 * u2 * u3 * u4) * (q * d) <= (v1 * v2 * v3 * v4) * (b * n)
<1> DEFINE e1 == (u1 * q * q2) * (u2 * b2 * y * p2 * d * u3 * u4)
           e2 == (v1 * q1) * (u2 * b2 * y * p2 * d * u3 * u4)
           e3 == (v2 * x * q2 * b1) * (v1 * p2 * d * u3 * u4)
           e4 == (v3 * b * b2) * (v1 * v2 * p1 * y * q2 * d * u4)
           e5 == (v4 * n * p2) * (v1 * v2 * v3 * b * b2 * y * q2)
           w == b2 * y * p2 * q2
           left == (u1 * u2 * u3 * u4) * (q * d)
           right == (v1 * v2 * v3 * v4) * (b * n)
<1>1. e1 <= e2
  BY Monotone
<1>2. e2 <= e3
  <2>1. (u2 * q1 * b2 * y) * (v1 * p2 * d * u3 * u4) <= e3
    BY Monotone
  <2>2. e2 = (u2 * q1 * b2 * y) * (v1 * p2 * d * u3 * u4)
    OBVIOUS
  <2> QED BY <2>1, <2>2
<1>3. e3 <= e4
  <2>1. (u3 * b1) * (v1 * v2 * p1 * y * q2 * d * u4) <= e4
    BY Monotone
  <2>2. e3 = (v1 * v2 * q2 * b1 * d * u3 * u4) * (x * p2)
    OBVIOUS
  <2>3. (u3 * b1) * (v1 * v2 * p1 * y * q2 * d * u4) = (v1 * v2 * q2 * b1 * d * u3 * u4) * (p1 * y)
    OBVIOUS
  <2> QED BY <2>1, <2>2, <2>3
<1>4. e4 <= e5
  <2>1. (u4 * p1 * d) * (v1 * v2 * v3 * b * b2 * y * q2) <= e5
    BY Monotone
  <2>2. e4 = (u4 * p1 * d) * (v1 * v2 * v3 * b * b2 * y * q2)
    OBVIOUS
  <2> QED BY <2>1, <2>2
<1>5. e1 \in Nat /\ e2 \in Nat /\ e3 \in Nat /\ e4 \in Nat /\ e5 \in Nat
  OBVIOUS
<1>6. e1 = left * w /\ e5 = right * w
  OBVIOUS
<1>7. w \in Nat \ {0} /\ left \in Nat /\ right \in Nat
  BY PosProduct
<1> HIDE DEF e1, e2, e3, e4, e5, left, right, w
<1>8. left * w <= right * w
  BY <1>1, <1>2, <1>3, <1>4, <1>5, <1>6
<1>9. left <= right
  BY <1>7, <1>8, Cancel
<1> QED BY <1>9 DEF left, right

\* Three inequalities, multiplied.
LEMMA Product ==
    ASSUME NEW a1 \in Nat, NEW a2 \in Nat, NEW a3 \in Nat,
           NEW b1 \in Nat, NEW b2 \in Nat, NEW b3 \in Nat, a1 <= b1, a2 <= b2, a3 <= b3
    PROVE  a1 * a2 * a3 <= b1 * b2 * b3
<1>1. a1 * a2 <= b1 * a2 /\ a2 * b1 <= b2 * b1
  BY Monotone
<1>2. a1 * a2 <= b1 * b2 /\ a1 * a2 \in Nat /\ b1 * b2 \in Nat
  <2>1. b1 * a2 = a2 * b1 /\ b2 * b1 = b1 * b2 /\ a1 * a2 \in Nat /\ b1 * b2 \in Nat /\ a2 * b1 \in Nat
    OBVIOUS
  <2> QED BY <1>1, <2>1
<1>3. (a1 * a2) * a3 <= (b1 * b2) * a3 /\ a3 * (b1 * b2) <= b3 * (b1 * b2)
  BY <1>2, Monotone
<1> DEFINE e1 == a1 * a2 * a3  e2 == (b1 * b2) * a3  e3 == b1 * b2 * b3
<1>4. e1 \in Nat /\ e2 \in Nat /\ e3 \in Nat
  OBVIOUS
<1>5. e1 <= e2 /\ e2 <= e3
  <2>1. a3 * (b1 * b2) = e2 /\ b3 * (b1 * b2) = e3
    OBVIOUS
  <2> QED BY <1>3, <2>1
<1> HIDE DEF e1, e2, e3
<1>6. e1 <= e3
  BY <1>4, <1>5
<1> QED BY <1>6 DEF e1, e3

\* Three roundings of a rest are within the bounds for four.
LEMMA Cubes == lo * lo * hi <= K * K * K /\ K * K * K <= lo * hi * hi
<1>1. K \in Nat /\ K >= 2 /\ lo = K - 1 /\ hi = K + 1
  BY Bounds
<1>2. lo * lo * hi = K * K * K - K * K - K + 1
  BY <1>1
<1>3. lo * hi * hi = K * K * K + K * K - K - 1
  BY <1>1
<1>4. K * K >= 2 * K /\ K * K \in Nat /\ K * K * K \in Nat
  <2>1. 2 * K <= K * K
    BY <1>1, Monotone
  <2> QED BY <1>1, <2>1
<1> QED BY <1>1, <1>2, <1>3, <1>4

\* What is left of four roundings, two of them in either direction, or two of each kind.
LEMMA Squares ==
    ASSUME NEW i \in Nat, NEW j \in Nat
    PROVE  /\ lower * i \in Nat /\ upper * j \in Nat
           /\ (lo * lo * K * K) * i <= (K * K * hi * hi) * j => lower * i <= upper * j
           /\ (lo * K * K * lo) * i <= (K * hi * hi * K) * j => lower * i <= upper * j
<1>1. lower = lo * lo /\ upper = hi * hi
  BY DEF lower, upper, lo, hi, K
<1>2. /\ (lo * lo * K * K) * i = (lo * lo * i) * (K * K) /\ (K * K * hi * hi) * j = (hi * hi * j) * (K * K)
      /\ (lo * K * K * lo) * i = (lo * lo * i) * (K * K) /\ (K * hi * hi * K) * j = (hi * hi * j) * (K * K)
      /\ lo * lo * i \in Nat /\ hi * hi * j \in Nat
  BY Bounds
<1>3. K * K \in Nat \ {0}
  BY Bounds, PosProduct
<1>4. lower * i = lo * lo * i /\ upper * j = hi * hi * j
  BY <1>1
<1> QED BY <1>2, <1>3, <1>4, Cancel

\* An offer whose price is the float of the order's has the price that was asked for, but for
\* four roundings.
LEMMA AtPrice ==
    ASSUME NEW f \in Published, NEW r \in Orders, Equal(price(f), order_price(r))
    PROVE  /\ lower * (f.quote * r.price[2]) <= upper * (f.base * r.price[1])
           /\ lower * (f.base * r.price[1]) <= upper * (f.quote * r.price[2])
<1> DEFINE Q == float(f.quote)  B == float(f.base)  X == price(f)  P == order_price(r)
           q == f.quote  b == f.base  n == r.price[1]  d == r.price[2]
<1>1. q \in Nat /\ b \in Nat \ {0} /\ n \in Nat \ {0} /\ d \in Nat \ {0}
  BY PublishedAssumption, OrdersAssumption
<1>2. Near(Q, q, 1) /\ Near(B, b, 1) /\ B[1] > 0 /\ Near(P, n, d) /\ P[1] > 0
  <2>1. InRange(q, 1) /\ InRange(b, 1) /\ InRange(n, d)
    BY RangeAssumption
  <2> QED BY <1>1, <2>1, Rounded DEF float, order_price
<1>3. Near(X, Q[1] * B[2], Q[2] * B[1])
  <2>1. Q[1] * B[2] \in Nat /\ Q[2] * B[1] \in Nat \ {0}
    <3>1. Q[1] \in Nat /\ Q[2] \in Nat \ {0} /\ B[1] \in Nat \ {0} /\ B[2] \in Nat \ {0}
      BY <1>2 DEF Near
    <3> HIDE DEF Q, B
    <3> QED BY <3>1, PosProduct
  <2>2. InRange(Q[1] * B[2], Q[2] * B[1])
    BY RangeAssumption
  <2> QED BY <2>1, <2>2, Rounded DEF price, quotient
<1>4. X[1] * P[2] = P[1] * X[2]
  BY DEF Equal
<1> HIDE DEF Q, B, X, P, q, b, n, d
<1>5. PICK q1 \in Nat, q2 \in Nat \ {0} : Q = <<q1, q2>>
  BY <1>2 DEF Near
<1>6. PICK b1 \in Nat \ {0}, b2 \in Nat \ {0} : B = <<b1, b2>>
  BY <1>2 DEF Near
<1>7. PICK p1 \in Nat \ {0}, p2 \in Nat \ {0} : P = <<p1, p2>>
  BY <1>2 DEF Near
<1>8. PICK x \in Nat, y \in Nat \ {0} : X = <<x, y>>
  BY <1>3 DEF Near
<1>9. x * p2 = p1 * y /\ x # 0
  <2>1. x * p2 = p1 * y
    BY <1>4, <1>7, <1>8
  <2>2. p1 * y # 0 /\ 0 * p2 = 0
    BY PosProduct
  <2> QED BY <2>1, <2>2
<1>10. /\ K * q1 <= hi * q * q2 /\ lo * q * q2 <= K * q1
       /\ K * b1 <= hi * b * b2 /\ lo * b * b2 <= K * b1
  <2>1. /\ K * q1 * 1 <= hi * q * q2 /\ lo * q * q2 <= K * q1 * 1
        /\ K * b1 * 1 <= hi * b * b2 /\ lo * b * b2 <= K * b1 * 1
    BY <1>2, <1>5, <1>6 DEF Near
  <2>2. K * q1 * 1 = K * q1 /\ K * b1 * 1 = K * b1
    BY Bounds
  <2> QED BY <2>1, <2>2
<1>11. K * p1 * d <= hi * n * p2 /\ lo * n * p2 <= K * p1 * d
  BY <1>2, <1>7 DEF Near
<1>12. K * x * (q2 * b1) <= hi * (q1 * b2) * y /\ lo * (q1 * b2) * y <= K * x * (q2 * b1)
  BY <1>3, <1>5, <1>6, <1>8 DEF Near
<1>13. /\ K * x * (q2 * b1) = K * x * q2 * b1 /\ lo * (q1 * b2) * y = lo * q1 * b2 * y
       /\ K * x * (q2 * b1) = K * b1 * q2 * x /\ hi * (q1 * b2) * y = hi * y * b2 * q1
  BY Bounds
<1>14. lower * (q * d) <= upper * (b * n)
  <2>1. (lo * lo * K * K) * (q * d) <= (K * K * hi * hi) * (b * n)
    BY <1>1, <1>9, <1>10, <1>11, <1>12, <1>13, Bounds, Chain
  <2> QED BY <1>1, <2>1, Squares
<1>15. lower * (b * n) <= upper * (q * d)
  <2>1. p2 * x = y * p1
    <3>1. p2 * x = x * p2 /\ y * p1 = p1 * y
      OBVIOUS
    <3> QED BY <1>9, <3>1
  <2>3. K * p1 * d = K * d * p1 /\ lo * n * p2 = lo * p2 * n
    BY <1>1, Bounds
  <2>2. (lo * K * K * lo) * (b * n) <= (K * hi * hi * K) * (q * d)
    BY <1>1, <1>9, <1>10, <1>11, <1>12, <1>13, <2>1, <2>3, Bounds, Chain
  <2> QED BY <1>1, <2>2, Squares
<1> QED BY <1>14, <1>15 DEF q, b, n, d

\* The float of a product is at most three roundings above it.
LEMMA ProductAbove ==
    ASSUME NEW a \in Nat, NEW n \in Nat, NEW d \in Nat, NEW z \in Nat, NEW w \in Nat,
           NEW a1 \in Nat \ {0}, NEW a2 \in Nat \ {0}, NEW p1 \in Nat \ {0}, NEW p2 \in Nat \ {0},
           K * z * (a2 * p2) <= hi * (a1 * p1) * w,
           K * a1 <= hi * a * a2, K * p1 * d <= hi * n * p2
    PROVE  (K * K * K) * (z * d) <= (hi * hi * hi) * (a * n * w)
<1> DEFINE left == (K * K * K) * (z * d)  right == (hi * hi * hi) * (a * n * w)
           v == a1 * p1 * a2 * p2
<1>1. (K * z * (a2 * p2)) * (K * a1) * (K * p1 * d) <= (hi * (a1 * p1) * w) * (hi * a * a2) * (hi * n * p2)
  BY Bounds, Product
<1>2. (K * z * (a2 * p2)) * (K * a1) * (K * p1 * d) = left * v
  BY Bounds
<1>3. (hi * (a1 * p1) * w) * (hi * a * a2) * (hi * n * p2) = right * v
  BY Bounds
<1>4. left \in Nat /\ right \in Nat /\ v \in Nat \ {0}
  BY Bounds, PosProduct
<1> HIDE DEF left, right, v
<1>5. left * v <= right * v
  BY <1>1, <1>2, <1>3
<1>6. left <= right
  BY <1>4, <1>5, Cancel
<1> QED BY <1>6 DEF left, right

\* The float of a product is at most three roundings below it.
LEMMA ProductBelow ==
    ASSUME NEW a \in Nat, NEW n \in Nat, NEW d \in Nat, NEW z \in Nat, NEW w \in Nat,
           NEW a1 \in Nat \ {0}, NEW a2 \in Nat \ {0}, NEW p1 \in Nat \ {0}, NEW p2 \in Nat \ {0},
           lo * (a1 * p1) * w <= K * z * (a2 * p2),
           lo * a * a2 <= K * a1, lo * n * p2 <= K * p1 * d
    PROVE  (lo * lo * lo) * (a * n * w) <= (K * K * K) * (z * d)
<1> DEFINE left == (lo * lo * lo) * (a * n * w)  right == (K * K * K) * (z * d)
           v == a1 * p1 * a2 * p2
<1>1. (lo * (a1 * p1) * w) * (lo * a * a2) * (lo * n * p2) <= (K * z * (a2 * p2)) * (K * a1) * (K * p1 * d)
  BY Bounds, Product
<1>2. (K * z * (a2 * p2)) * (K * a1) * (K * p1 * d) = right * v
  BY Bounds
<1>3. (lo * (a1 * p1) * w) * (lo * a * a2) * (lo * n * p2) = left * v
  BY Bounds
<1>4. left \in Nat /\ right \in Nat /\ v \in Nat \ {0}
  BY Bounds, PosProduct
<1> HIDE DEF left, right, v
<1>5. left * v <= right * v
  BY <1>1, <1>2, <1>3
<1>6. left <= right
  BY <1>4, <1>5, Cancel
<1> QED BY <1>6 DEF left, right

\* What is cut off leaves no more than there was.
LEMMA CutBelow ==
    ASSUME NEW a \in Nat, NEW n \in Nat, NEW d \in Nat, NEW z \in Nat, NEW w \in Nat \ {0}, NEW m \in Nat,
           m * w <= z, (K * K * K) * (z * d) <= (hi * hi * hi) * (a * n * w)
    PROVE  lower * (m * d) <= upper * (a * n)
<1> DEFINE k == K * K * K  i == m * d  j == a * n  x == lo * lo * hi
<1>1. k \in Nat /\ i \in Nat /\ j \in Nat /\ x \in Nat /\ x <= k
  BY Bounds, Cubes
<1>2. (m * w) * (k * d) <= z * (k * d)
  BY Bounds, Monotone
<1>3. (m * w) * (k * d) = (k * i) * w /\ z * (k * d) = k * (z * d)
  BY Bounds
<1>4. (hi * hi * hi) * (a * n * w) = ((hi * hi * hi) * j) * w
  BY Bounds
<1>5. x * i <= k * i /\ x * i = (lo * lo * i) * hi /\ (hi * hi * hi) * j = (hi * hi * j) * hi
  <2>1. x * i <= k * i
    BY <1>1, Monotone
  <2>2. x * i = (lo * lo * i) * hi /\ (hi * hi * hi) * j = (hi * hi * j) * hi
    BY <1>1, Bounds
  <2> QED BY <2>1, <2>2
<1>6. /\ k * i \in Nat /\ (hi * hi * hi) * j \in Nat /\ lo * lo * i \in Nat /\ hi * hi * j \in Nat
      /\ (k * i) * w \in Nat /\ k * (z * d) \in Nat /\ ((hi * hi * hi) * j) * w \in Nat
  BY <1>1, Bounds
<1> HIDE DEF k, i, j, x
<1>7. (k * i) * w <= ((hi * hi * hi) * j) * w
  BY <1>2, <1>3, <1>4, <1>6 DEF k
<1>8. k * i <= (hi * hi * hi) * j
  BY <1>6, <1>7, Cancel
<1>9. (lo * lo * i) * hi <= (hi * hi * j) * hi
  <2> DEFINE e1 == (lo * lo * i) * hi  e2 == k * i  e3 == (hi * hi * j) * hi
  <2>1. e1 \in Nat /\ e2 \in Nat /\ e3 \in Nat /\ e1 <= e2 /\ e2 <= e3
    BY <1>5, <1>6, <1>8, Bounds
  <2> HIDE DEF e1, e2, e3
  <2>2. e1 <= e3
    BY <2>1
  <2> QED BY <2>2 DEF e1, e3
<1>10. lo * lo * i <= hi * hi * j
  BY <1>6, <1>9, Cancel, Bounds
<1>11. lower = lo * lo /\ upper = hi * hi
  BY DEF lower, upper, lo, hi, K
<1> QED BY <1>10, <1>11 DEF i, j

\* Less than one unit is cut off.
LEMMA CutAbove ==
    ASSUME NEW a \in Nat, NEW n \in Nat, NEW d \in Nat \ {0}, NEW z \in Nat, NEW w \in Nat \ {0}, NEW m \in Nat,
           z < (m + 1) * w, (lo * lo * lo) * (a * n * w) <= (K * K * K) * (z * d)
    PROVE  lower * (a * n) < upper * ((m + 1) * d)
<1> DEFINE k == K * K * K  i == (m + 1) * d  j == a * n  x == lo * hi * hi
<1>1. k \in Nat \ {0} /\ i \in Nat /\ j \in Nat /\ x \in Nat /\ k <= x
  BY Bounds, Cubes, PosProduct
<1>2. z * (k * d) < ((m + 1) * w) * (k * d)
  <2>1. k * d \in Nat \ {0} /\ (m + 1) * w \in Nat
    BY <1>1, PosProduct
  <2> HIDE DEF k
  <2>2. (z + 1) * (k * d) <= ((m + 1) * w) * (k * d)
    BY <2>1, Monotone
  <2>3. (z + 1) * (k * d) = z * (k * d) + k * d /\ z * (k * d) \in Nat /\ ((m + 1) * w) * (k * d) \in Nat
    BY <2>1
  <2> QED BY <2>1, <2>2, <2>3
<1>3. ((m + 1) * w) * (k * d) = (k * i) * w /\ z * (k * d) = k * (z * d)
  BY Bounds
<1>4. (lo * lo * lo) * (a * n * w) = ((lo * lo * lo) * j) * w
  BY Bounds
<1>5. k * i <= x * i /\ x * i = (hi * hi * i) * lo /\ (lo * lo * lo) * j = (lo * lo * j) * lo
  <2>1. k * i <= x * i
    BY <1>1, Monotone
  <2>2. x * i = (hi * hi * i) * lo /\ (lo * lo * lo) * j = (lo * lo * j) * lo
    BY <1>1, Bounds
  <2> QED BY <2>1, <2>2
<1>6. /\ k * i \in Nat /\ (lo * lo * lo) * j \in Nat /\ lo * lo * j \in Nat /\ hi * hi * i \in Nat
      /\ (k * i) * w \in Nat /\ k * (z * d) \in Nat /\ ((lo * lo * lo) * j) * w \in Nat
  BY <1>1, Bounds
<1> HIDE DEF k, i, j, x
<1>7. ((lo * lo * lo) * j) * w < (k * i) * w
  BY <1>2, <1>3, <1>4, <1>6 DEF k
<1>8. (lo * lo * lo) * j < k * i
  BY <1>6, <1>7, Cancel
<1>9. (lo * lo * j) * lo < (hi * hi * i) * lo
  <2> DEFINE e1 == (lo * lo * j) * lo  e2 == k * i  e3 == (hi * hi * i) * lo
  <2>1. e1 \in Nat /\ e2 \in Nat /\ e3 \in Nat /\ e1 < e2 /\ e2 <= e3
    BY <1>5, <1>6, <1>8, Bounds
  <2> HIDE DEF e1, e2, e3
  <2>2. e1 < e3
    BY <2>1
  <2> QED BY <2>2 DEF e1, e3
<1>10. lo * lo * j < hi * hi * i
  BY <1>6, <1>9, Cancel, Bounds
<1>11. lower = lo * lo /\ upper = hi * hi
  BY DEF lower, upper, lo, hi, K
<1> QED BY <1>10, <1>11 DEF i, j

\* The quote amount of a rest is that of the price that was asked for, but for three roundings
\* and less than one unit.
LEMMA RestAtPrice ==
    ASSUME NEW r \in Orders, NEW a \in 1 .. r.amount
    PROVE  LET rest == quote_amount(a, order_price(r)) IN
           /\ rest \in Nat
           /\ lower * (rest * r.price[2]) <= upper * (a * r.price[1])
           /\ lower * (a * r.price[1]) < upper * ((rest + 1) * r.price[2])
<1> DEFINE A == float(a)  P == order_price(r)  Z == product(A, P)
           n == r.price[1]  d == r.price[2]  m == quote_amount(a, P)
<1>1. a \in Nat \ {0} /\ n \in Nat \ {0} /\ d \in Nat \ {0}
  BY OrdersAssumption
<1>2. Near(A, a, 1) /\ A[1] > 0 /\ Near(P, n, d) /\ P[1] > 0
  <2>1. InRange(a, 1) /\ InRange(n, d)
    BY RangeAssumption
  <2> QED BY <1>1, <2>1, Rounded DEF float, order_price
<1>3. Near(Z, A[1] * P[1], A[2] * P[2])
  <2>1. A[1] * P[1] \in Nat /\ A[2] * P[2] \in Nat \ {0}
    <3>1. A[1] \in Nat \ {0} /\ A[2] \in Nat \ {0} /\ P[1] \in Nat \ {0} /\ P[2] \in Nat \ {0}
      BY <1>2 DEF Near
    <3> HIDE DEF A, P
    <3> QED BY <3>1, PosProduct
  <2>2. InRange(A[1] * P[1], A[2] * P[2])
    BY RangeAssumption
  <2> QED BY <2>1, <2>2, Rounded DEF product
<1>4. m = Z[1] \div Z[2]
  BY DEF quote_amount
<1> HIDE DEF A, P, Z, n, d, m
<1>5. PICK a1 \in Nat \ {0}, a2 \in Nat \ {0} : A = <<a1, a2>>
  BY <1>2 DEF Near
<1>6. PICK p1 \in Nat \ {0}, p2 \in Nat \ {0} : P = <<p1, p2>>
  BY <1>2 DEF Near
<1>7. PICK z \in Nat, w \in Nat \ {0} : Z = <<z, w>>
  BY <1>3 DEF Near
<1>8. m \in Nat /\ m * w <= z /\ z < (m + 1) * w
  <2>1. m = z \div w
    BY <1>4, <1>7
  <2>2. m \in Nat /\ z = w * m + (z % w) /\ z % w < w /\ z % w \in Nat
    BY <2>1, Cut
  <2>3. m * w = w * m /\ (m + 1) * w = w * m + w /\ w * m \in Nat
    BY <2>2
  <2> QED BY <2>2, <2>3
<1>9. K * a1 <= hi * a * a2 /\ lo * a * a2 <= K * a1
  <2>1. K * a1 * 1 <= hi * a * a2 /\ lo * a * a2 <= K * a1 * 1
    BY <1>2, <1>5 DEF Near
  <2>2. K * a1 * 1 = K * a1
    BY Bounds
  <2> QED BY <2>1, <2>2
<1>10. K * p1 * d <= hi * n * p2 /\ lo * n * p2 <= K * p1 * d
  BY <1>2, <1>6 DEF Near
<1>11. K * z * (a2 * p2) <= hi * (a1 * p1) * w /\ lo * (a1 * p1) * w <= K * z * (a2 * p2)
  BY <1>3, <1>5, <1>6, <1>7 DEF Near
<1>12. (K * K * K) * (z * d) <= (hi * hi * hi) * (a * n * w)
  BY <1>1, <1>9, <1>10, <1>11, Bounds, ProductAbove
<1>13. (lo * lo * lo) * (a * n * w) <= (K * K * K) * (z * d)
  BY <1>1, <1>9, <1>10, <1>11, Bounds, ProductBelow
<1>14. lower * (m * d) <= upper * (a * n)
  BY <1>1, <1>8, <1>12, CutBelow
<1>15. lower * (a * n) < upper * ((m + 1) * d)
  BY <1>1, <1>8, <1>13, CutAbove
<1> QED BY <1>8, <1>14, <1>15 DEF m, n, d, P

-----------------------------------------------------------------------------
(* The book. *)

\* With distinct ids, the key of the sorted view tells offers apart as the id does.
LEMMA KeyIsId ==
    ASSUME NEW f \in Published, NEW g \in Published
    PROVE  SameKey(f, g) <=> f = g
BY DistinctIds DEF SameKey, Equal

\* Publishing an offer adds it to both views.
LEMMA Inserted ==
    ASSUME TypeOK, ViewsAgree, NEW f \in Published, insert_offer(f)
    PROVE  /\ offer_entries' \in [Types -> SUBSET Published]
           /\ offer_entries_by_id' \in [Types -> [Ids -> Published \cup {None}]]
           /\ ViewsAgree'
           /\ \A t \in Types : offer_entries'[t] \subseteq offer_entries[t] \cup {f}
<1> DEFINE old == offer_entries[f.type]
<1>1. f.type \in Types /\ f.id \in Ids
  BY PublishedAssumption DEF Ids
<1>2. without(old, f) \cup {f} = old \cup {f}
  BY <1>1, KeyIsId DEF TypeOK, without
<1>3. offer_entries' = [offer_entries EXCEPT ![f.type] = old \cup {f}]
  BY <1>1, <1>2 DEF insert_offer, TypeOK
<1>4. offer_entries' \in [Types -> SUBSET Published]
  BY <1>1, <1>3 DEF TypeOK
<1>5. offer_entries_by_id' \in [Types -> [Ids -> Published \cup {None}]]
  BY <1>1 DEF insert_offer, TypeOK
<1>6. ASSUME NEW t \in Types, NEW g \in Published
      PROVE  /\ g \in offer_entries'[t] <=> offer_entries_by_id'[t][g.id] = g
             /\ g \in offer_entries'[t] => g.type = t
  <2>1. g.id \in Ids
    BY DEF Ids
  <2>2. CASE t = f.type /\ g.id = f.id
    <3>1. g = f
      BY <2>2, DistinctIds
    <3>2. offer_entries_by_id'[t][g.id] = f
      BY <1>1, <2>2 DEF insert_offer, TypeOK
    <3> QED
      BY <1>1, <1>3, <2>2, <3>1, <3>2 DEF TypeOK
  <2>3. CASE ~ (t = f.type /\ g.id = f.id)
    <3>1. offer_entries_by_id'[t][g.id] = offer_entries_by_id[t][g.id]
      BY <1>1, <2>1, <2>3 DEF insert_offer, TypeOK
    <3>2. g \in offer_entries'[t] <=> g \in offer_entries[t]
      BY <1>1, <1>3, <2>3 DEF TypeOK
    <3> QED
      BY <3>1, <3>2 DEF ViewsAgree
  <2> QED
    BY <2>2, <2>3
<1>7. ASSUME NEW t \in Types, NEW id \in Ids, offer_entries_by_id'[t][id] # None
      PROVE  offer_entries_by_id'[t][id].id = id
  <2>1. CASE t = f.type /\ id = f.id
    BY <1>1, <2>1 DEF insert_offer, TypeOK
  <2>2. CASE ~ (t = f.type /\ id = f.id)
    <3>1. offer_entries_by_id'[t][id] = offer_entries_by_id[t][id]
      BY <1>1, <2>2 DEF insert_offer, TypeOK
    <3> QED
      BY <1>7, <3>1 DEF ViewsAgree
  <2> QED
    BY <2>1, <2>2
<1>8. ViewsAgree'
  BY <1>6, <1>7 DEF ViewsAgree
<1> QED
  BY <1>1, <1>3, <1>4, <1>5, <1>8 DEF TypeOK

\* Removing an id removes its offer, and nothing else, from both views.
LEMMA Removed ==
    ASSUME TypeOK, ViewsAgree, NEW id \in Ids, contains(id), remove_offer(id)
    PROVE  /\ offer_entries' \in [Types -> SUBSET Published]
           /\ offer_entries_by_id' \in [Types -> [Ids -> Published \cup {None}]]
           /\ ViewsAgree'
           /\ \A t \in Types : offer_entries'[t] = {e \in offer_entries[t] : e.id # id}
<1> DEFINE u == IF offer_entries_by_id["BUY"][id] # None THEN "BUY" ELSE "SELL"
           f == offer_entries_by_id[u][id]
<1>1. u \in Types /\ f # None
  BY DEF contains, Types
<1>2. f \in Published
  BY <1>1, NoneAssumption DEF TypeOK
<1>3. f.id = id /\ f \in offer_entries[u]
  BY <1>1, <1>2 DEF ViewsAgree
<1>4. offer_entries' = [offer_entries EXCEPT ![u] = @ \ {f}]
  <2>1. without(offer_entries[u], f) = offer_entries[u] \ {f}
    BY <1>1, <1>2, KeyIsId DEF TypeOK, without
  <2> QED
    BY <2>1, <1>1 DEF remove_offer, TypeOK
<1>5. offer_entries_by_id' = [offer_entries_by_id EXCEPT ![u][id] = None]
  BY DEF remove_offer
<1>6. /\ offer_entries' \in [Types -> SUBSET Published]
      /\ offer_entries_by_id' \in [Types -> [Ids -> Published \cup {None}]]
  BY <1>1, <1>4, <1>5 DEF TypeOK
<1>7. ASSUME NEW t \in Types
      PROVE  offer_entries'[t] = {e \in offer_entries[t] : e.id # id}
  \* An offer is in the view of its type, so the id is in one view only.
  <2>1. \A e \in offer_entries[t] : e \in Published /\ e.type = t
    BY DEF ViewsAgree, TypeOK
  <2>2. \A e \in offer_entries[t] : e.id = id => e = f /\ t = u
    BY <1>1, <1>2, <1>3, <2>1, DistinctIds DEF ViewsAgree
  <2>3. CASE t = u
    BY <1>1, <1>3, <1>4, <2>2, <2>3 DEF TypeOK
  <2>4. CASE t # u
    BY <1>1, <1>4, <2>2, <2>4 DEF TypeOK
  <2> QED
    BY <2>3, <2>4
<1>8. ASSUME NEW t \in Types, NEW g \in Published
      PROVE  /\ g \in offer_entries'[t] <=> offer_entries_by_id'[t][g.id] = g
             /\ g \in offer_entries'[t] => g.type = t
  <2>1. g.id \in Ids
    BY DEF Ids
  <2>2. CASE g.id = id
    <3>1. g = f
      BY <1>2, <1>3, <2>2, DistinctIds
    <3>2. offer_entries_by_id'[t][id] # g
      <4>1. CASE t = u
        BY <1>1, <1>2, <1>5, <3>1, <4>1 DEF TypeOK
      <4>2. CASE t # u
        <5>1. offer_entries_by_id'[t][id] = offer_entries_by_id[t][id]
          BY <1>1, <1>5, <4>2 DEF TypeOK
        <5>2. g \notin offer_entries[t]
          BY <1>1, <1>2, <1>3, <3>1, <4>2 DEF ViewsAgree
        <5> QED
          BY <2>2, <5>1, <5>2 DEF ViewsAgree
      <4> QED
        BY <4>1, <4>2
    <3> QED
      BY <1>7, <2>2, <3>2
  <2>3. CASE g.id # id
    <3>1. offer_entries_by_id'[t][g.id] = offer_entries_by_id[t][g.id]
      BY <1>1, <1>5, <2>1, <2>3 DEF TypeOK
    <3> QED
      BY <1>7, <2>3, <3>1 DEF ViewsAgree
  <2> QED
    BY <2>2, <2>3
<1>9. ASSUME NEW t \in Types, NEW i \in Ids, offer_entries_by_id'[t][i] # None
      PROVE  offer_entries_by_id'[t][i].id = i
  <2>1. offer_entries_by_id'[t][i] = offer_entries_by_id[t][i]
    BY <1>1, <1>5, <1>9 DEF TypeOK
  <2> QED
    BY <1>9, <2>1 DEF ViewsAgree
<1> QED
  BY <1>6, <1>7, <1>8, <1>9 DEF ViewsAgree

-----------------------------------------------------------------------------
(* The inductive invariant. *)

\* While match_limit runs, it goes through the offers of the book at the order's price,
\* each once; what it has passed is taken or does not fit.
LoopInv ==
    pc = "match" =>
        /\ In(matching_offers) = get_offers_by_price(order.type, order_price(order))
        /\ \A j, k \in DOMAIN matching_offers : matching_offers[j] = matching_offers[k] => j = k
        /\ next <= Len(matching_offers) + 1
        /\ \A k \in DOMAIN take_offers : \E j \in 1 .. next - 1 : take_offers[k] = matching_offers[j]
        /\ \A j, k \in DOMAIN take_offers : take_offers[j] = take_offers[k] => j = k
        /\ \A j \in 1 .. next - 1 :
              matching_offers[j] \in In(take_offers) \/ matching_offers[j].base > amount_left

IInv == /\ TypeOK /\ ViewsAgree /\ BookExcludesOwn /\ LoopInv
        /\ TakesAreInBook /\ TakesAtPrice /\ NothingFits

\* A sorted list of a set holds each element once.
LEMMA SortedOnce ==
    ASSUME NEW S, IsFiniteSet(S), NEW s \in Sorted(S)
    PROVE  /\ s \in Seq(S) /\ Len(s) = Cardinality(S)
           /\ In(s) = S
           /\ \A j, k \in DOMAIN s : s[j] = s[k] => j = k
<1> DEFINE n == Cardinality(S)
<1>1. n \in Nat
  BY FS_CardinalityType
<1>2. s \in [1 .. n -> S] /\ In(s) = S
  BY DEF Sorted
<1>3. s \in Surjection(1 .. n, S)
  BY <1>2 DEF Surjection, In
<1>4. IsFiniteSet(1 .. n) /\ Cardinality(1 .. n) = n
  BY <1>1, FS_Interval
<1>5. s \in Injection(1 .. n, S)
  BY <1>3, <1>4, FS_SurjSameCardinalityImpliesInj
<1> QED
  BY <1>1, <1>2, <1>5 DEF Injection, IsInjective
-----------------------------------------------------------------------------
\* Initially the book is empty and no order is processed.
LEMMA InvInit == Init => IInv
<1> SUFFICES ASSUME Init PROVE IInv
  OBVIOUS
<1> USE DEF Init
<1>1. TypeOK
  BY DEF TypeOK
<1>2. ViewsAgree
  <2>1. \A f \in Published : f.id \in Ids /\ f # None
    BY NoneAssumption DEF Ids
  <2> QED
    BY <2>1 DEF ViewsAgree
<1> QED
  BY <1>1, <1>2 DEF IInv, BookExcludesOwn, LoopInv, TakesAreInBook, TakesAtPrice, NothingFits

\* An offer is read from its message as it was written into it.
LEMMA Received ==
    ASSUME NEW f \in Published
    PROVE  entry_from(offer_msg(f)) = f
<1>1. f \in [id : {f.id}, type : Types, base : Nat \ {0}, quote : Nat]
  BY PublishedAssumption
<1>2. CASE f.type = "SELL"
  BY <1>1, <1>2 DEF entry_from, offer_msg, get_offer_type, Types
<1>3. CASE f.type = "BUY"
  BY <1>1, <1>3 DEF entry_from, offer_msg, get_offer_type, Types
<1> QED
  BY <1>1, <1>2, <1>3 DEF Types

\* A step that inserts or removes an entry between two orders.
LEMMA IdleStep ==
    ASSUME IInv, pc = "idle",
           \/ \E f \in Published : OfferPublished(f) \/ PublishRaises(f)
           \/ \E id \in Ids : EntryTimeout(id)
    PROVE  IInv'
<1>1. TypeOK' /\ ViewsAgree' /\ BookExcludesOwn' /\ pc' \in {"idle", "raised"}
  <2>1. ASSUME NEW f \in Published, OfferPublished(f) \/ PublishRaises(f)
        PROVE  TypeOK' /\ ViewsAgree' /\ BookExcludesOwn' /\ pc' \in {"idle", "raised"}
    <3>1. /\ offer_entries' \in [Types -> SUBSET Published]
          /\ offer_entries_by_id' \in [Types -> [Ids -> Published \cup {None}]]
          /\ ViewsAgree'
          /\ \A t \in Types : offer_entries'[t] \subseteq offer_entries[t] \cup {f}
      <4>1. insert_offer(f)
        BY <2>1, Received DEF OfferPublished, PublishRaises
      <4> QED
        BY <4>1, Inserted DEF IInv
    <3>2. TypeOK'
      BY <2>1, <3>1 DEF OfferPublished, PublishRaises, IInv, TypeOK, local
    <3>3. BookExcludesOwn'
      BY <2>1, <3>1 DEF OfferPublished, PublishRaises, IInv, BookExcludesOwn
    <3> QED
      BY <2>1, <3>1, <3>2, <3>3 DEF OfferPublished, PublishRaises
  <2>2. ASSUME NEW id \in Ids, EntryTimeout(id)
        PROVE  TypeOK' /\ ViewsAgree' /\ BookExcludesOwn' /\ pc' \in {"idle", "raised"}
    <3>1. /\ offer_entries' \in [Types -> SUBSET Published]
          /\ offer_entries_by_id' \in [Types -> [Ids -> Published \cup {None}]]
          /\ ViewsAgree'
          /\ \A t \in Types : offer_entries'[t] = {e \in offer_entries[t] : e.id # id}
      BY <2>2, Removed DEF EntryTimeout, IInv
    <3>2. TypeOK'
      BY <2>2, <3>1 DEF EntryTimeout, IInv, TypeOK, local
    <3>3. BookExcludesOwn'
      BY <2>2, <3>1 DEF EntryTimeout, IInv, BookExcludesOwn
    <3> QED
      BY <2>2, <3>1, <3>2, <3>3 DEF EntryTimeout
  <2> QED
    BY <2>1, <2>2
<1> QED
  BY <1>1 DEF IInv, LoopInv, TakesAreInBook, TakesAtPrice, NothingFits

\* match_limit starts with the matching offers of the book, each once.
LEMMA StartStep ==
    ASSUME IInv, NEW r \in Orders, NewLimitOrder(r)
    PROVE  IInv'
<1> DEFINE S == get_offers_by_price(r.type, order_price(r))
<1>1. r.type \in Types /\ r.amount \in Nat /\ opposite(r.type) \in Types
  BY OrdersAssumption DEF Types, opposite
<1>2. S \subseteq Published /\ IsFiniteSet(S)
  <2>1. S \subseteq Published
    BY <1>1 DEF get_offers_by_price, IInv, TypeOK
  <2> QED
    BY <2>1, FiniteAssumption, FS_Subset
<1>3. /\ matching_offers' \in Seq(S)
      /\ In(matching_offers') = S
      /\ \A j, k \in DOMAIN matching_offers' : matching_offers'[j] = matching_offers'[k] => j = k
  BY <1>2, SortedOnce DEF NewLimitOrder
<1>4. UNCHANGED <<offer_entries, offer_entries_by_id, offers, made>>
  BY DEF NewLimitOrder, book
<1>5. TypeOK'
  <2>1. matching_offers' \in Seq(Published)
    BY <1>2, <1>3
  <2> QED
    BY <1>1, <1>4, <2>1, NoneAssumption DEF NewLimitOrder, IInv, TypeOK
<1>6. ViewsAgree' /\ BookExcludesOwn'
  BY <1>4 DEF NewLimitOrder, IInv, ViewsAgree, BookExcludesOwn
<1>7. LoopInv'
  <2>1. In(matching_offers)' = get_offers_by_price(order.type, order_price(order))'
    BY <1>3, <1>4 DEF NewLimitOrder, get_offers_by_price, In
  <2> QED
    BY <1>3, <2>1 DEF NewLimitOrder, LoopInv
<1>8. TakesAtPrice'
  BY <1>1 DEF NewLimitOrder, TakesAtPrice
<1> QED
  BY <1>5, <1>6, <1>7, <1>8 DEF NewLimitOrder, IInv, TakesAreInBook, NothingFits
\* One round of the loop of match_limit.
LEMMA LoopStep ==
    ASSUME IInv, MatchOffer \/ SkipOffer
    PROVE  IInv'
<1> DEFINE f == matching_offers[next]
<1>1. /\ pc = "match" /\ pc' = "match"
      /\ next \in DOMAIN matching_offers
      /\ next \in Nat \ {0} /\ next' = next + 1
      /\ UNCHANGED <<offer_entries, offer_entries_by_id, offers, made, order, matching_offers>>
  BY DEF MatchOffer, SkipOffer, IInv, TypeOK, book
<1>2. f \in Published /\ f.base \in Nat \ {0}
  BY <1>1, PublishedAssumption DEF IInv, TypeOK
<1>3. f \in In(matching_offers) /\ f.type = opposite(order.type) /\ Equal(price(f), order_price(order))
  <2>1. f \in In(matching_offers)
    BY <1>1 DEF In
  <2>2. opposite(order.type) \in Types
    BY DEF opposite, Types
  <2>3. f \in offer_entries[opposite(order.type)] /\ Equal(price(f), order_price(order))
    BY <1>1, <2>1 DEF IInv, LoopInv, get_offers_by_price
  <2> QED
    BY <1>2, <2>1, <2>2, <2>3 DEF IInv, ViewsAgree
<1>4. ViewsAgree' /\ BookExcludesOwn'
  BY <1>1 DEF IInv, ViewsAgree, BookExcludesOwn
<1>5. In(matching_offers)' = get_offers_by_price(order.type, order_price(order))'
  BY <1>1 DEF IInv, LoopInv, In, get_offers_by_price
<1>6. CASE MatchOffer
  <2>1. /\ take_offers' = Append(take_offers, f)
        /\ amount_left' = amount_left - f.base
        /\ amount_left >= f.base
    BY <1>6 DEF MatchOffer
  <2>2. /\ amount_left \in Nat /\ amount_left' \in Nat /\ amount_left' <= amount_left
        /\ take_offers \in Seq(Published) /\ take_offers' \in Seq(Published)
        /\ order \in Orders /\ order.amount \in Nat
    BY <1>1, <1>2, <2>1, OrdersAssumption DEF IInv, TypeOK
  <2>3. TypeOK'
    BY <1>1, <2>2 DEF IInv, TypeOK
  <2>4. /\ DOMAIN take_offers' = DOMAIN take_offers \cup {Len(take_offers) + 1}
        /\ \A k \in DOMAIN take_offers : take_offers'[k] = take_offers[k]
        /\ take_offers'[Len(take_offers) + 1] = f
        /\ Len(take_offers) + 1 \notin DOMAIN take_offers
    BY <1>2, <2>1, <2>2
  <2>5. \A k \in DOMAIN take_offers : take_offers[k] # f
    BY <1>1 DEF IInv, LoopInv, TypeOK
  <2>6. \A k \in DOMAIN take_offers' :
            \E j \in 1 .. next' - 1 : take_offers'[k] = matching_offers'[j]
    <3>1. \A k \in DOMAIN take_offers : \E j \in 1 .. next - 1 : take_offers[k] = matching_offers[j]
      BY <1>1 DEF IInv, LoopInv
    <3> QED
      BY <1>1, <2>4, <3>1
  <2>7. \A j, k \in DOMAIN take_offers' : take_offers'[j] = take_offers'[k] => j = k
    BY <1>1, <2>4, <2>5 DEF IInv, LoopInv
  <2>8. In(take_offers') = In(take_offers) \cup {f}
    BY <2>4 DEF In
  <2>9. \A j \in 1 .. next' - 1 :
            matching_offers'[j] \in In(take_offers') \/ matching_offers'[j].base > amount_left'
    <3> SUFFICES ASSUME NEW j \in 1 .. next' - 1
                 PROVE  matching_offers[j] \in In(take_offers') \/ matching_offers[j].base > amount_left'
      BY <1>1
    <3>1. CASE j = next
      BY <2>8, <3>1
    <3>2. CASE j \in 1 .. next - 1
      <4>1. matching_offers[j].base \in Nat
        <5>1. matching_offers[j] \in Published
          BY <1>1, <3>2 DEF IInv, TypeOK
        <5> QED
          BY <5>1, PublishedAssumption
      <4> QED
        BY <1>1, <2>2, <2>8, <3>2, <4>1 DEF IInv, LoopInv
    <3> QED
      BY <1>1, <3>1, <3>2
  <2>10. LoopInv'
    <3>1. next' <= Len(matching_offers') + 1
      BY <1>1 DEF IInv, TypeOK
    <3> QED
      BY <1>1, <1>5, <2>6, <2>7, <2>9, <3>1 DEF IInv, LoopInv, In
  <2>11. TakesAtPrice'
    BY <1>1, <1>3, <2>2, <2>4 DEF IInv, TakesAtPrice
  <2> QED
    BY <1>1, <1>4, <2>3, <2>10, <2>11 DEF IInv, TakesAreInBook, NothingFits
<1>7. CASE SkipOffer
  <2>1. UNCHANGED <<take_offers, amount_left>> /\ amount_left < f.base
    BY <1>7 DEF SkipOffer
  <2>2. TypeOK'
    BY <1>1, <2>1 DEF IInv, TypeOK
  <2>3. \A j \in 1 .. next' - 1 :
            matching_offers'[j] \in In(take_offers') \/ matching_offers'[j].base > amount_left'
    <3> SUFFICES ASSUME NEW j \in 1 .. next' - 1
                 PROVE  matching_offers[j] \in In(take_offers) \/ matching_offers[j].base > amount_left
      BY <1>1, <2>1
    <3>1. CASE j = next
      BY <1>2, <2>1, <3>1 DEF IInv, TypeOK
    <3>2. CASE j \in 1 .. next - 1
      BY <1>1, <3>2 DEF IInv, LoopInv
    <3> QED
      BY <1>1, <3>1, <3>2
  <2>4. LoopInv'
    <3>1. next' <= Len(matching_offers') + 1
      BY <1>1 DEF IInv, TypeOK
    <3>2. \A k \in DOMAIN take_offers' :
              \E j \in 1 .. next' - 1 : take_offers'[k] = matching_offers'[j]
      BY <1>1, <2>1 DEF IInv, LoopInv
    <3> QED
      BY <1>1, <1>5, <2>1, <2>3, <3>1, <3>2 DEF IInv, LoopInv, In
  <2>5. TakesAtPrice'
    BY <1>1, <2>1 DEF IInv, TakesAtPrice
  <2> QED
    BY <1>1, <1>4, <2>2, <2>4, <2>5 DEF IInv, TakesAreInBook, NothingFits
<1> QED
  BY <1>6, <1>7
\* match_limit returns: everything has been passed.
LEMMA MatchedStep ==
    ASSUME IInv, Matched
    PROVE  IInv'
<1>1. /\ pc = "match" /\ pc' = "take" /\ next > Len(matching_offers) /\ next' = 1
      /\ UNCHANGED <<offer_entries, offer_entries_by_id, offers, made, order, matching_offers,
                     take_offers, amount_left>>
  BY DEF Matched, book
<1>2. TypeOK'
  BY <1>1 DEF IInv, TypeOK
<1>3. ViewsAgree' /\ BookExcludesOwn' /\ LoopInv' /\ TakesAtPrice'
  BY <1>1 DEF IInv, ViewsAgree, BookExcludesOwn, LoopInv, TakesAtPrice
<1>4. next = Len(matching_offers) + 1
  BY <1>1 DEF IInv, TypeOK, LoopInv
<1>5. \A k \in DOMAIN take_offers : take_offers[k] \in offer_entries[opposite(order.type)]
  <2> SUFFICES ASSUME NEW k \in DOMAIN take_offers
               PROVE  take_offers[k] \in offer_entries[opposite(order.type)]
    OBVIOUS
  <2>1. PICK j \in 1 .. next - 1 : take_offers[k] = matching_offers[j]
    BY <1>1 DEF IInv, LoopInv
  <2>2. j \in DOMAIN matching_offers
    BY <1>4, <2>1 DEF IInv, TypeOK
  <2>3. take_offers[k] \in In(matching_offers)
    BY <2>1, <2>2 DEF In
  <2> QED
    BY <1>1, <2>3 DEF IInv, LoopInv, get_offers_by_price
<1>6. TakesAreInBook'
  <2>1. \A k \in DOMAIN take_offers : take_offers[k] \in Published
    BY DEF IInv, TypeOK
  <2>2. \A j, k \in DOMAIN take_offers : take_offers[j].id = take_offers[k].id => j = k
    BY <1>1, <2>1, DistinctIds DEF IInv, LoopInv
  <2>3. DOMAIN take_offers = 1 .. Len(take_offers)
    BY DEF IInv, TypeOK
  <2> QED
    BY <1>1, <1>5, <2>2, <2>3 DEF TakesAreInBook
<1>7. NothingFits'
  <2> SUFFICES ASSUME NEW f \in Skipped PROVE f.base > amount_left
    BY <1>1 DEF NothingFits, Skipped, In
  <2>1. PICK j \in DOMAIN matching_offers : f = matching_offers[j]
    BY DEF Skipped, In
  <2>2. j \in 1 .. next - 1
    BY <1>4 DEF IInv, TypeOK
  <2> QED
    BY <1>1, <2>1, <2>2 DEF IInv, LoopInv, Skipped
<1> QED
  BY <1>2, <1>3, <1>6, <1>7 DEF IInv

\* An entry becomes an offer of the node and leaves the book.
LEMMA TakeStep ==
    ASSUME IInv, TakeOffer
    PROVE  IInv'
<1> DEFINE f == take_offers[next]
<1>1. /\ pc = "take" /\ pc' = "take" /\ next' = next + 1
      /\ next \in 1 .. Len(take_offers)
      /\ offers' = offers \cup {f.id}
      /\ contains(f.id) /\ remove_offer(f.id)
      /\ UNCHANGED <<made, order, matching_offers, take_offers, amount_left>>
  BY DEF TakeOffer, IInv, TypeOK
<1>2. f \in Published /\ f.id \in Ids
  BY <1>1 DEF IInv, TypeOK, Ids
<1>3. /\ offer_entries' \in [Types -> SUBSET Published]
      /\ offer_entries_by_id' \in [Types -> [Ids -> Published \cup {None}]]
      /\ ViewsAgree'
      /\ \A t \in Types : offer_entries'[t] = {e \in offer_entries[t] : e.id # f.id}
  BY <1>1, <1>2, Removed DEF IInv
<1>4. TypeOK'
  BY <1>1, <1>2, <1>3 DEF IInv, TypeOK
<1>5. BookExcludesOwn'
  BY <1>1, <1>3 DEF IInv, BookExcludesOwn
<1>6. TakesAreInBook'
  <2>1. opposite(order.type) \in Types
    BY DEF opposite, Types
  <2>2. ASSUME NEW k \in next + 1 .. Len(take_offers)
        PROVE  take_offers[k] \in offer_entries'[opposite(order.type)]
    <3>1. k \in next .. Len(take_offers) /\ k \in 1 .. Len(take_offers) /\ k # next
      BY <1>1 DEF IInv, TypeOK
    <3>2. take_offers[k] \in offer_entries[opposite(order.type)] /\ take_offers[k].id # f.id
      BY <1>1, <3>1 DEF IInv, TakesAreInBook
    <3> QED
      BY <1>3, <2>1, <3>2
  <2> QED
    BY <1>1, <2>2 DEF IInv, TakesAreInBook
<1>7. TakesAtPrice' /\ NothingFits' /\ LoopInv'
  BY <1>1 DEF IInv, TakesAtPrice, NothingFits, Skipped, In, LoopInv
<1> QED
  BY <1>3, <1>4, <1>5, <1>6, <1>7 DEF IInv

\* The order is cut short: the entry is the one exception of BookExcludesOwn.
LEMMA RaiseStep ==
    ASSUME IInv, TakeRaises
    PROVE  IInv'
<1>1. /\ pc = "take" /\ pc' = "raised" /\ next \in 1 .. Len(take_offers)
      /\ offers' = offers \cup {take_offers[next].id}
      /\ UNCHANGED <<offer_entries, offer_entries_by_id, made, order, matching_offers,
                     take_offers, amount_left, next>>
  BY DEF TakeRaises, IInv, TypeOK, book, local
<1>2. take_offers[next] \in Published /\ take_offers[next].id \in Ids
  BY <1>1 DEF IInv, TypeOK, Ids
<1>3. TypeOK'
  BY <1>1, <1>2 DEF IInv, TypeOK
<1>4. BookExcludesOwn'
  <2> SUFFICES ASSUME NEW t \in Types, NEW f \in offer_entries[t], f.id \in offers'
               PROVE  f = take_offers[next]
    BY <1>1 DEF BookExcludesOwn
  <2>1. f \in Published /\ f.id \notin offers
    BY <1>1 DEF IInv, TypeOK, BookExcludesOwn
  <2> QED
    BY <1>1, <1>2, <2>1, DistinctIds
<1>5. ViewsAgree'
  BY <1>1 DEF IInv, ViewsAgree
<1> QED
  BY <1>1, <1>3, <1>4, <1>5 DEF IInv, LoopInv, TakesAreInBook, TakesAtPrice, NothingFits

\* The order is done.
LEMMA ReturnStep ==
    ASSUME IInv, MakeOffer \/ NothingLeft
    PROVE  IInv'
<1>1. /\ pc = "take" /\ pc' = "idle" /\ order' = None /\ matching_offers' = <<>>
      /\ take_offers' = <<>> /\ amount_left' = 0 /\ next' = 1
      /\ UNCHANGED <<offer_entries, offer_entries_by_id, offers>>
  BY DEF MakeOffer, NothingLeft, Return, book
<1>2. \A m \in made' : m.type \in Types /\ m.base \in Nat \ {0} /\ m.quote \in Nat
  <2>1. CASE NothingLeft
    BY <2>1 DEF NothingLeft, IInv, TypeOK
  <2>2. CASE MakeOffer
    <3>1. order \in Orders /\ amount_left \in Nat \ {0}
      BY <1>1, <2>2 DEF MakeOffer, IInv, TypeOK
    <3>2. order.type \in Types /\ order.amount \in Nat
      BY <3>1, OrdersAssumption
    <3>3. amount_left \in 1 .. order.amount
      BY <1>1, <3>1, <3>2 DEF IInv, TakesAtPrice
    <3>4. quote_amount(amount_left, order_price(order)) \in Nat
      BY <3>1, <3>3, RestAtPrice
    <3> QED
      BY <2>2, <3>1, <3>2, <3>4 DEF MakeOffer, IInv, TypeOK
  <2> QED
    BY <2>1, <2>2
<1>3. TypeOK'
  BY <1>1, <1>2 DEF IInv, TypeOK
<1>4. ViewsAgree' /\ BookExcludesOwn'
  BY <1>1 DEF IInv, ViewsAgree, BookExcludesOwn
<1> QED
  BY <1>1, <1>3, <1>4 DEF IInv, LoopInv, TakesAreInBook, TakesAtPrice, NothingFits

\* A step that changes nothing.
LEMMA StutterStep ==
    ASSUME IInv, UNCHANGED vars
    PROVE  IInv'
<1> USE DEF vars, book, local
<1>1. TypeOK' /\ ViewsAgree' /\ BookExcludesOwn'
  BY DEF IInv, TypeOK, ViewsAgree, BookExcludesOwn
<1>2. LoopInv'
  BY DEF IInv, LoopInv, get_offers_by_price, In
<1>3. TakesAreInBook' /\ TakesAtPrice' /\ NothingFits'
  BY DEF IInv, TakesAreInBook, TakesAtPrice, NothingFits, Skipped, In
<1> QED
  BY <1>1, <1>2, <1>3 DEF IInv

\* Every step of the node on its book keeps the invariant.
LEMMA InvStep == IInv /\ [Next]_vars => IInv'
<1> SUFFICES ASSUME IInv, [Next]_vars PROVE IInv'
  OBVIOUS
<1>1. CASE \/ \E f \in Published : OfferPublished(f) \/ PublishRaises(f)
           \/ \E id \in Ids : EntryTimeout(id)
  BY <1>1, IdleStep DEF OfferPublished, PublishRaises, EntryTimeout
<1>2. CASE \E r \in Orders : NewLimitOrder(r)
  BY <1>2, StartStep
<1>3. CASE MatchOffer \/ SkipOffer
  BY <1>3, LoopStep
<1>4. CASE Matched
  BY <1>4, MatchedStep
<1>5. CASE TakeOffer
  BY <1>5, TakeStep
<1>6. CASE TakeRaises
  BY <1>6, RaiseStep
<1>7. CASE MakeOffer \/ NothingLeft
  BY <1>7, ReturnStep
<1>8. CASE UNCHANGED vars
  BY <1>8, StutterStep
<1> QED
  BY <1>1, <1>2, <1>3, <1>4, <1>5, <1>6, <1>7, <1>8 DEF Next

\* The inductive invariant holds in every state.
THEOREM BookInvariant == Spec => []IInv
BY InvInit, InvStep, PTL DEF Spec

\* The sorted view and the dictionary of the book hold the same offers.
THEOREM BookViewsAgree == Spec => []ViewsAgree
<1>1. IInv => ViewsAgree
  BY DEF IInv
<1> QED
  BY BookInvariant, <1>1, PTL

\* An offer that was taken is not in the book, unless its order was cut short there.
THEOREM TakenLeavesBook == Spec => []BookExcludesOwn
<1>1. IInv => BookExcludesOwn
  BY DEF IInv
<1> QED
  BY BookInvariant, <1>1, PTL

\* process_order finds in the book what match_limit has chosen.
THEOREM TakesFound == Spec => []TakesAreInBook
<1>1. IInv => TakesAreInBook
  BY DEF IInv
<1> QED
  BY BookInvariant, <1>1, PTL

\* match_limit takes only at the order's price, and leaves no matching offer that fits.
THEOREM MatchLimitCorrect == Spec => [](TakesAtPrice /\ NothingFits)
<1>1. IInv => TakesAtPrice /\ NothingFits
  BY DEF IInv
<1> QED
  BY BookInvariant, <1>1, PTL

\* In every exchange each side pays what the maker's message says of it: Match works out
\* the payment of the maker from its own offer and that of the taker from the entry it has
\* read, and the two agree with ask and bid of the message (PaymentsComplement).
THEOREM Complement == Spec => []PaymentsComplement
<1>1. IInv => PaymentsComplement
  <2> SUFFICES ASSUME IInv, NEW f \in Exchanged
               PROVE  /\ sends("MAKER", f) = offer_msg(f).bid
                      /\ sends("TAKER", entry_from(offer_msg(f))) = offer_msg(f).ask
    BY DEF PaymentsComplement
  <2>1. f.type \in Types
    BY PublishedAssumption DEF Exchanged, IInv, TypeOK
  <2>2. CASE f.type = "SELL"
    BY <2>2 DEF sends, entry_from, offer_msg, get_offer_type
  <2>3. CASE f.type = "BUY"
    BY <2>3 DEF sends, entry_from, offer_msg, get_offer_type
  <2> QED
    BY <2>1, <2>2, <2>3 DEF Types
<1> QED
  BY BookInvariant, <1>1, PTL

\* The book, the offers the node takes and makes and the variables of process_order keep
\* their types; amount_left never becomes negative.
THEOREM BookTypes == Spec => []TypeOK
<1>1. IInv => TypeOK
  BY DEF IInv
<1> QED
  BY BookInvariant, <1>1, PTL

-----------------------------------------------------------------------------
(* The amounts of match_limit. *)

\* Totals are natural numbers, and one more offer adds its amount.
LEMMA Totals ==
    ASSUME NEW T \in SUBSET Published
    PROVE  /\ Total({}) = 0 /\ Total(T) \in Nat
           /\ QuoteTotal({}) = 0 /\ QuoteTotal(T) \in Nat
           /\ \A f \in Published \ T : /\ Total(T \cup {f}) = f.base + Total(T)
                                       /\ QuoteTotal(T \cup {f}) = f.quote + QuoteTotal(T)
<1> DEFINE Bases == [f \in Published |-> f.base]
           Quotes == [f \in Published |-> f.quote]
<1>1. Bases \in [Published -> Nat] /\ Quotes \in [Published -> Nat]
  BY PublishedAssumption
<1>2. \A f \in Published : Bases[f] = f.base /\ Quotes[f] = f.quote
  OBVIOUS
<1>3. \A S : Total(S) = SumFunctionOnSet(Bases, S) /\ QuoteTotal(S) = SumFunctionOnSet(Quotes, S)
  BY DEF Total, QuoteTotal
<1> HIDE DEF Bases, Quotes
<1>4. /\ SumFunctionOnSet(Bases, {}) = 0 /\ SumFunctionOnSet(Bases, T) \in Nat
      /\ SumFunctionOnSet(Quotes, {}) = 0 /\ SumFunctionOnSet(Quotes, T) \in Nat
  BY <1>1, FiniteAssumption, SumSteps
<1>5. ASSUME NEW f \in Published \ T
      PROVE  /\ SumFunctionOnSet(Bases, T \cup {f}) = f.base + SumFunctionOnSet(Bases, T)
             /\ SumFunctionOnSet(Quotes, T \cup {f}) = f.quote + SumFunctionOnSet(Quotes, T)
  <2>1. T \cup {f} \in SUBSET Published /\ f \in T \cup {f} /\ (T \cup {f}) \ {f} = T
    OBVIOUS
  <2>2. /\ SumFunctionOnSet(Bases, T \cup {f}) = Bases[f] + SumFunctionOnSet(Bases, (T \cup {f}) \ {f})
        /\ SumFunctionOnSet(Quotes, T \cup {f}) = Quotes[f] + SumFunctionOnSet(Quotes, (T \cup {f}) \ {f})
    BY <1>1, <2>1, FiniteAssumption, SumSteps
  <2> QED BY <1>2, <2>1, <2>2
<1> QED BY <1>3, <1>4, <1>5

\* The offer f does not fit beside the offers taken that are as large.
Displaced(f) == f.base + Total({g \in In(take_offers) : g.base >= f.base}) > order.amount

\* What match_limit has taken so far and what is left of the order make up its amount, and
\* the quote amounts of what it has taken are at the order's price, within its roundings; the
\* offers come largest first, and one that was passed did not fit beside those before it.
Priced(quote, base) ==
    /\ lower * (quote * order.price[2]) <= upper * (base * order.price[1])
    /\ lower * (base * order.price[1]) <= upper * (quote * order.price[2])
AmountInv ==
    /\ pc \in {"match", "take"} =>
          /\ Total(In(take_offers)) + amount_left = order.amount
          /\ Priced(QuoteTotal(In(take_offers)), Total(In(take_offers)))
    /\ pc = "match" =>
          /\ \A j, k \in DOMAIN matching_offers :
                j < k => matching_offers[j].base >= matching_offers[k].base
          /\ \A j \in 1 .. next - 1 :
                matching_offers[j] \in In(take_offers) \/ Displaced(matching_offers[j])
    /\ pc = "take" => \A f \in Skipped : Displaced(f)

\* The bounds of the roundings are natural numbers.
LEMMA Factors == lower \in Nat /\ upper \in Nat
<1>1. lower = lo * lo /\ upper = hi * hi
  BY DEF lower, upper, lo, hi, K
<1> QED BY <1>1, Bounds

\* Amounts at the order's price are so together: roundings are relative.
LEMMA PricedSum ==
    ASSUME NEW a \in Nat, NEW b \in Nat, NEW c \in Nat, NEW e \in Nat,
           order.price[1] \in Nat, order.price[2] \in Nat, Priced(a, b), Priced(c, e)
    PROVE  Priced(a + c, b + e)
<1> DEFINE n == order.price[1]  d == order.price[2]
<1>1. /\ lower * (a * d) <= upper * (b * n) /\ lower * (b * n) <= upper * (a * d)
      /\ lower * (c * d) <= upper * (e * n) /\ lower * (e * n) <= upper * (c * d)
  BY DEF Priced
<1> HIDE DEF n, d
<1>2. n \in Nat /\ d \in Nat
  BY DEF n, d
<1>3. /\ lower * ((a + c) * d) = lower * (a * d) + lower * (c * d)
      /\ upper * ((b + e) * n) = upper * (b * n) + upper * (e * n)
      /\ lower * ((b + e) * n) = lower * (b * n) + lower * (e * n)
      /\ upper * ((a + c) * d) = upper * (a * d) + upper * (c * d)
  BY <1>2, Factors
<1>4. /\ lower * (a * d) \in Nat /\ lower * (c * d) \in Nat /\ upper * (b * n) \in Nat
      /\ upper * (e * n) \in Nat /\ lower * (b * n) \in Nat /\ lower * (e * n) \in Nat
      /\ upper * (a * d) \in Nat /\ upper * (c * d) \in Nat
  BY <1>2, Factors
<1>5. /\ lower * ((a + c) * d) <= upper * ((b + e) * n)
      /\ lower * ((b + e) * n) <= upper * ((a + c) * d)
  BY <1>1, <1>3, <1>4
<1> QED BY <1>5 DEF Priced, n, d

\* Initially no order is processed.
LEMMA AmountInit == Init => AmountInv
BY DEF Init, AmountInv

\* What In says of a list that grows.
LEMMA InAppended ==
    ASSUME NEW S, NEW s \in Seq(S), NEW f \in S
    PROVE  In(Append(s, f)) = In(s) \cup {f} /\ In(s) \subseteq S
<1>1. /\ DOMAIN Append(s, f) = DOMAIN s \cup {Len(s) + 1}
      /\ \A k \in DOMAIN s : Append(s, f)[k] = s[k] /\ s[k] \in S
      /\ Append(s, f)[Len(s) + 1] = f
  OBVIOUS
<1> QED BY <1>1 DEF In

\* An order starts with its whole amount left and the offers sorted.
LEMMA AmountStart ==
    ASSUME IInv, NEW r \in Orders, NewLimitOrder(r)
    PROVE  AmountInv'
<1>1. /\ pc' = "match" /\ order' = r /\ take_offers' = <<>> /\ amount_left' = r.amount /\ next' = 1
      /\ matching_offers' \in Sorted(get_offers_by_price(r.type, order_price(r)))
  BY DEF NewLimitOrder
<1>2. In(take_offers') = {}
  BY <1>1 DEF In
<1>3. r.amount \in Nat /\ r.price[1] \in Nat /\ r.price[2] \in Nat
  BY OrdersAssumption
<1>4. Total({}) = 0 /\ QuoteTotal({}) = 0
  BY Totals
<1>5. \A j, k \in DOMAIN matching_offers' :
          j < k => matching_offers'[j].base >= matching_offers'[k].base
  BY <1>1 DEF Sorted
<1>6. /\ Total(In(take_offers')) + amount_left' = order'.amount
      /\ Priced(QuoteTotal(In(take_offers)), Total(In(take_offers)))'
  <2>1. /\ 0 * r.price[2] = 0 /\ 0 * r.price[1] = 0 /\ 0 + r.amount = r.amount
        /\ lower * 0 = 0 /\ upper * 0 = 0
    BY <1>3, Factors
  <2>2. QuoteTotal(In(take_offers))' = 0 /\ Total(In(take_offers))' = 0
    BY <1>2, <1>4 DEF QuoteTotal, Total
  <2> QED BY <1>1, <1>2, <1>4, <2>1, <2>2 DEF Priced
<1> QED BY <1>1, <1>5, <1>6 DEF AmountInv, In

\* The offer of this round: it has not been taken yet, and those that have are as large.
LEMMA ThisRound ==
    ASSUME IInv, AmountInv, pc = "match", next <= Len(matching_offers)
    PROVE  LET f == matching_offers[next] IN
           /\ f \in Published \ In(take_offers) /\ f.base \in Nat /\ f.quote \in Nat
           /\ Equal(price(f), order_price(order))
           /\ \A g \in In(take_offers) : g \in Published /\ g.base \in Nat /\ g.base >= f.base
<1> DEFINE f == matching_offers[next]
<1>1. next \in DOMAIN matching_offers /\ next \in Nat \ {0} /\ f \in Published /\ f \in In(matching_offers)
  BY DEF IInv, TypeOK, In
<1>2. ASSUME NEW g \in In(take_offers)
      PROVE  g \in Published /\ g # f /\ g.base >= f.base
  <2>1. PICK k \in DOMAIN take_offers : g = take_offers[k]
    BY DEF In
  <2>2. PICK j \in 1 .. next - 1 : g = matching_offers[j]
    BY <2>1 DEF IInv, LoopInv
  <2>3. j \in DOMAIN matching_offers /\ j < next /\ j # next
    BY <1>1, <2>2 DEF IInv, TypeOK
  <2>4. g.base >= f.base
    BY <1>1, <2>2, <2>3 DEF AmountInv
  <2> QED BY <1>1, <2>1, <2>2, <2>3, <2>4 DEF IInv, LoopInv, TypeOK
<1>3. \A g \in Published : g.base \in Nat /\ g.quote \in Nat
  BY PublishedAssumption
<1>4. Equal(price(f), order_price(order))
  BY <1>1 DEF IInv, LoopInv, get_offers_by_price
<1> QED BY <1>1, <1>2, <1>3, <1>4

\* An offer that was passed does not fit beside larger offers, whatever smaller one is taken.
LEMMA StillDisplaced ==
    ASSUME NEW f, NEW g, Displaced(f), ~ g.base >= f.base,
           In(take_offers') = In(take_offers) \cup {g}, order' = order
    PROVE  Displaced(f)'
<1>1. {h \in In(take_offers') : h.base >= f.base} = {h \in In(take_offers) : h.base >= f.base}
  OBVIOUS
<1> QED BY <1>1 DEF Displaced, In

\* A round of the loop takes the offer if it fits and passes it otherwise.
LEMMA AmountLoop ==
    ASSUME IInv, AmountInv, MatchOffer \/ SkipOffer
    PROVE  AmountInv'
<1> DEFINE f == matching_offers[next]
           T == In(take_offers)
<1>1. /\ pc = "match" /\ pc' = "match" /\ next <= Len(matching_offers) /\ next' = next + 1
      /\ order' = order /\ matching_offers' = matching_offers /\ next \in Nat
  BY DEF MatchOffer, SkipOffer, IInv, TypeOK
<1>2. /\ f \in Published \ T /\ f.base \in Nat /\ f.quote \in Nat /\ Equal(price(f), order_price(order))
      /\ \A g \in T : g \in Published /\ g.base \in Nat /\ g.base >= f.base
  BY <1>1, ThisRound
<1>3. /\ amount_left \in Nat /\ take_offers \in Seq(Published) /\ order \in Orders
      /\ order.amount \in Nat /\ order.price[1] \in Nat /\ order.price[2] \in Nat
  BY <1>1, OrdersAssumption DEF IInv, TypeOK
<1>4. T \in SUBSET Published
  BY <1>2
<1>5. /\ Total(T) \in Nat /\ QuoteTotal(T) \in Nat
      /\ Total(T \cup {f}) = f.base + Total(T) /\ QuoteTotal(T \cup {f}) = f.quote + QuoteTotal(T)
  BY <1>2, <1>4, Totals
<1>6. Total(T) + amount_left = order.amount
      /\ Priced(QuoteTotal(T), Total(T))
  BY <1>1 DEF AmountInv
<1>7. \A j, k \in DOMAIN matching_offers' :
          j < k => matching_offers'[j].base >= matching_offers'[k].base
  BY <1>1 DEF AmountInv
<1>8. CASE MatchOffer
  <2>1. /\ take_offers' = Append(take_offers, f) /\ amount_left' = amount_left - f.base
        /\ amount_left >= f.base
    BY <1>8 DEF MatchOffer
  <2>2. In(take_offers') = T \cup {f}
    BY <1>2, <1>3, <2>1, InAppended
  <2>3. Total(In(take_offers')) + amount_left' = order.amount
    BY <1>2, <1>3, <1>5, <1>6, <2>1, <2>2
  <2>4. Priced(QuoteTotal(In(take_offers')), Total(In(take_offers')))
    <3>1. Priced(f.quote, f.base)
      BY <1>2, <1>3, AtPrice DEF Priced
    <3>2. Priced(QuoteTotal(T) + f.quote, Total(T) + f.base)
      BY <1>2, <1>3, <1>5, <1>6, <3>1, PricedSum
    <3>3. QuoteTotal(T) + f.quote = QuoteTotal(T \cup {f}) /\ Total(T) + f.base = Total(T \cup {f})
      BY <1>2, <1>5
    <3> QED BY <2>2, <3>2, <3>3
  <2>5. ASSUME NEW j \in 1 .. next' - 1
        PROVE  matching_offers[j] \in In(take_offers') \/ Displaced(matching_offers[j])'
    <3>1. CASE j = next
      BY <2>2, <3>1
    <3>2. CASE j \in 1 .. next - 1 /\ matching_offers[j] \in T
      BY <2>2, <3>2
    <3>3. CASE j \in 1 .. next - 1 /\ matching_offers[j] \notin T
      <4>1. Displaced(matching_offers[j]) /\ matching_offers[j].base > amount_left
        BY <1>1, <3>3 DEF AmountInv, IInv, LoopInv
      <4>2. matching_offers[j].base \in Nat
        <5>1. j \in DOMAIN matching_offers
          BY <1>1, <3>3 DEF IInv, TypeOK
        <5>2. matching_offers[j] \in Published
          BY <5>1 DEF IInv, TypeOK
        <5> QED BY <5>2, PublishedAssumption
      <4>3. ~ f.base >= matching_offers[j].base
        BY <1>2, <1>3, <2>1, <4>1, <4>2
      <4> QED BY <1>1, <2>2, <4>1, <4>3, StillDisplaced
    <3> QED BY <1>1, <3>1, <3>2, <3>3
  <2> QED BY <1>1, <1>7, <2>3, <2>4, <2>5 DEF AmountInv, Priced
<1>9. CASE SkipOffer
  <2>1. take_offers' = take_offers /\ amount_left' = amount_left /\ amount_left < f.base
    BY <1>9 DEF SkipOffer
  <2>2. Displaced(f)
    <3>1. {g \in T : g.base >= f.base} = T
      BY <1>2
    <3>2. f.base + Total(T) > order.amount
      BY <1>2, <1>3, <1>5, <1>6, <2>1
    <3> QED BY <3>1, <3>2 DEF Displaced
  <2>3. \A g : Displaced(g)' <=> Displaced(g)
    BY <1>1, <2>1 DEF Displaced, In
  <2>4. ASSUME NEW j \in 1 .. next' - 1
        PROVE  matching_offers[j] \in In(take_offers') \/ Displaced(matching_offers[j])'
    <3>1. j = next \/ j \in 1 .. next - 1
      BY <1>1
    <3> QED BY <1>1, <2>1, <2>2, <2>3, <3>1 DEF AmountInv
  <2> QED BY <1>1, <1>6, <1>7, <2>1, <2>4 DEF AmountInv, Priced
<1> QED BY <1>8, <1>9

\* When match_limit returns, every offer that is not taken has been passed.
LEMMA AmountMatched ==
    ASSUME IInv, AmountInv, Matched
    PROVE  AmountInv'
<1>1. /\ pc = "match" /\ pc' = "take" /\ next > Len(matching_offers)
      /\ UNCHANGED <<order, matching_offers, take_offers, amount_left>>
  BY DEF Matched
<1>2. \A g : Displaced(g)' <=> Displaced(g)
  BY <1>1 DEF Displaced, In
<1>3. ASSUME NEW f \in Skipped PROVE Displaced(f)
  <2>1. PICK j \in DOMAIN matching_offers : f = matching_offers[j]
    BY DEF Skipped, In
  <2>2. j \in 1 .. next - 1
    BY <1>1 DEF IInv, TypeOK
  <2> QED BY <1>1, <2>1, <2>2 DEF AmountInv, Skipped
<1>4. Skipped' = Skipped
  BY <1>1 DEF Skipped, In
<1>5. In(take_offers') = In(take_offers)
  BY <1>1
<1> QED BY <1>1, <1>2, <1>3, <1>4, <1>5 DEF AmountInv, Priced

\* Every step keeps the amounts; after match_limit they are left alone.
LEMMA AmountStep == IInv /\ AmountInv /\ [Next]_vars => AmountInv'
<1> SUFFICES ASSUME IInv, AmountInv, [Next]_vars PROVE AmountInv'
  OBVIOUS
<1>1. CASE \E r \in Orders : NewLimitOrder(r)
  BY <1>1, AmountStart
<1>2. CASE MatchOffer \/ SkipOffer
  BY <1>2, AmountLoop
<1>3. CASE Matched
  BY <1>3, AmountMatched
<1>4. CASE pc' \notin {"match", "take"}
  BY <1>4 DEF AmountInv
<1>5. CASE pc' = "take" /\ pc = "take" /\ UNCHANGED <<order, matching_offers, take_offers, amount_left>>
  <2>1. (\A g : Displaced(g)' <=> Displaced(g)) /\ Skipped' = Skipped
    BY <1>5 DEF Displaced, In, Skipped
  <2> QED BY <1>5, <2>1 DEF AmountInv, Priced
<1>6. CASE UNCHANGED <<pc, order, matching_offers, take_offers, amount_left, next>>
  <2>1. (\A g : Displaced(g)' <=> Displaced(g)) /\ Skipped' = Skipped
    BY <1>6 DEF Displaced, In, Skipped
  <2> QED BY <1>6, <2>1 DEF AmountInv, Priced
<1>7. (\E f \in Published : OfferPublished(f)) \/ (\E id \in Ids : EntryTimeout(id)) \/ UNCHANGED vars
        => UNCHANGED <<pc, order, matching_offers, take_offers, amount_left, next>>
  BY DEF OfferPublished, EntryTimeout, vars, local
<1>8. TakeOffer => pc' = "take" /\ pc = "take" /\ UNCHANGED <<order, matching_offers, take_offers, amount_left>>
  BY DEF TakeOffer
<1>9. (\E f \in Published : PublishRaises(f)) \/ TakeRaises \/ MakeOffer \/ NothingLeft
        => pc' \notin {"match", "take"}
  BY DEF PublishRaises, TakeRaises, MakeOffer, NothingLeft, Return
<1> QED BY <1>1, <1>2, <1>3, <1>4, <1>5, <1>6, <1>7, <1>8, <1>9 DEF Next

\* The amounts are right in every state.
THEOREM AmountInvariant == Spec => [](IInv /\ AmountInv)
<1>1. IInv /\ AmountInv /\ [Next]_vars => (IInv /\ AmountInv)'
  BY InvStep, AmountStep
<1> QED BY InvInit, AmountInit, <1>1, PTL DEF Spec

\* What match_limit takes and what it leaves of an order are the amount of the order
\* (AmountConserved).
THEOREM MatchConservesAmount == Spec => []AmountConserved
<1>1. AmountInv => AmountConserved
  BY DEF AmountInv, AmountConserved
<1> QED BY AmountInvariant, <1>1, PTL

\* match_limit takes the largest offers first: one that it passes does not fit beside the
\* taken offers that are at least as large (LargestFirst).
THEOREM MatchTakesLargestFirst == Spec => []LargestFirst
<1>1. AmountInv => LargestFirst
  BY DEF AmountInv, LargestFirst, Displaced
<1> QED BY AmountInvariant, <1>1, PTL

\* The offers an order takes and the offer it makes of the rest are together its amount at
\* the price that was asked for, but for roundings relative to the whole and less than one
\* unit (RestWithinRounding).
THEOREM RestIsWithinRounding == Spec => RestWithinRounding
<1> DEFINE Goal ==
          \E m \in made' :
              LET total == QuoteTotal(In(take_offers)) + m.quote
                  priced == order.amount * order.price[1] IN
              /\ m.type = order.type /\ m.base = amount_left
              /\ lower * (total * order.price[2]) <= upper * priced
              /\ lower * priced < upper * ((total + 1) * order.price[2])
<1>1. IInv /\ AmountInv /\ [Next]_vars => [pc = "take" /\ pc' = "idle" /\ amount_left > 0 => Goal]_vars
  <2> SUFFICES ASSUME IInv, AmountInv, Next, pc = "take", pc' = "idle", amount_left > 0
               PROVE  Goal
    OBVIOUS
  <2>1. amount_left \in Nat \ {0} /\ order \in Orders
    BY DEF IInv, TypeOK
  <2>2. MakeOffer
    BY <2>1 DEF Next, OfferPublished, PublishRaises, EntryTimeout, NewLimitOrder, MatchOffer,
       SkipOffer, Matched, TakeOffer, TakeRaises, NothingLeft
  <2> DEFINE a == QuoteTotal(In(take_offers))  b == Total(In(take_offers))
             n == order.price[1]  d == order.price[2]
             rest == quote_amount(amount_left, order_price(order))
             made_offer == [id |-> None, type |-> order.type, base |-> amount_left, quote |-> rest]
  <2>3. made_offer \in made'
    BY <2>2 DEF MakeOffer
  <2>4. order.amount \in Nat /\ n \in Nat /\ d \in Nat \ {0}
    BY <2>1, OrdersAssumption
  <2>5. a \in Nat /\ b \in Nat
    <3>1. In(take_offers) \in SUBSET Published
      BY DEF IInv, TypeOK, In
    <3> QED BY <3>1, Totals
  <2>6. b + amount_left = order.amount
    BY DEF AmountInv
  <2>7. lower * (a * d) <= upper * (b * n) /\ lower * (b * n) <= upper * (a * d)
    BY DEF AmountInv, Priced
  <2>8. /\ rest \in Nat
        /\ lower * (rest * d) <= upper * (amount_left * n)
        /\ lower * (amount_left * n) < upper * ((rest + 1) * d)
    <3>1. amount_left \in 1 .. order.amount
      BY <2>1, <2>4, <2>5, <2>6
    <3> QED BY <2>1, <3>1, RestAtPrice
  <2>9. /\ lower * ((a + rest) * d) <= upper * (order.amount * n)
        /\ lower * (order.amount * n) < upper * ((a + rest + 1) * d)
    <3> HIDE DEF a, b, n, d, rest
    <3>1. order.amount * n = (b + amount_left) * n
      BY <2>6
    <3>2. /\ lower * ((a + rest) * d) = lower * (a * d) + lower * (rest * d)
          /\ upper * ((b + amount_left) * n) = upper * (b * n) + upper * (amount_left * n)
          /\ lower * ((b + amount_left) * n) = lower * (b * n) + lower * (amount_left * n)
          /\ upper * ((a + rest + 1) * d) = upper * (a * d) + upper * ((rest + 1) * d)
      BY <2>1, <2>4, <2>5, <2>8, Factors
    <3>3. /\ lower * (a * d) \in Nat /\ lower * (rest * d) \in Nat /\ upper * (b * n) \in Nat
          /\ upper * (amount_left * n) \in Nat /\ lower * (b * n) \in Nat
          /\ lower * (amount_left * n) \in Nat /\ upper * (a * d) \in Nat
          /\ upper * ((rest + 1) * d) \in Nat
      BY <2>1, <2>4, <2>5, <2>8, Factors
    <3> QED BY <2>7, <2>8, <3>1, <3>2, <3>3
  <2> WITNESS made_offer \in made'
  <2> QED BY <2>9
<1> QED BY AmountInvariant, <1>1, PTL DEF Spec, RestWithinRounding

=============================================================================
