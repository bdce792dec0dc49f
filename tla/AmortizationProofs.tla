------------------------- MODULE AmortizationProofs -------------------------
(***************************************************************************)
(* For any terms and any resolution of the calculator: the instalments of  *)
(* a loan are the sum of their parts, nothing of the principal is left at  *)
(* the end, equal shares and annuities repay it once if rounding is small  *)
(* against it and end with an instalment like the others, and the stored   *)
(* rows are within their rounding of it.                                   *)
(***************************************************************************)
EXTENDS Amortization, SumTheorems, SequenceTheorems, TLAPS

-----------------------------------------------------------------------------
(* Rounding.                                                                 *)

(* A product with a positive factor keeps the order. *)
LEMMA TimesKeepsOrder ==
  ASSUME NEW d \in Nat, NEW m \in Int, NEW n \in Int, m <= n
  PROVE  d * m \in Int /\ d * n \in Int /\ d * m <= d * n
  <1>1. n - m \in Nat /\ d * (n - m) \in Nat
    OBVIOUS
  <1>2. d * (n - m) = d * n - d * m
    OBVIOUS
  <1> QED
    BY <1>1, <1>2

(* A positive factor on both sides may be left out. *)
LEMMA LeaveOutFactor ==
  ASSUME NEW d \in Nat \ {0}, NEW m \in Int, NEW n \in Int, d * m <= d * n
  PROVE  m <= n
  <1> SUFFICES ASSUME n + 1 <= m PROVE FALSE
    OBVIOUS
  <1>1. d * (n + 1) <= d * m /\ d * m \in Int
    BY TimesKeepsOrder
  <1>2. d * (n + 1) = d * n + d /\ d * n \in Int
    OBVIOUS
  <1> QED
    BY <1>1, <1>2

(* Quotient and remainder. *)
LEMMA Division ==
  ASSUME NEW n \in Int, NEW d \in Nat \ {0}
  PROVE  /\ n \div d \in Int /\ n % d \in 0..(d - 1)
         /\ n = d * (n \div d) + (n % d)
  OBVIOUS

(* A rounded quotient is a whole number, at most half a divisor away from the quotient. *)
LEMMA HalfEvenIs ==
  ASSUME NEW n \in Int, NEW d \in Nat \ {0}, NEW q, q = HalfEven(n, d)
  PROVE  /\ q \in Int /\ d * q \in Int
         /\ 2 * (d * q - n) <= d /\ 2 * (n - d * q) <= d
         /\ n \div d <= q
  <1> DEFINE k == n \div d  r == n % d
  <1>1. k \in Int /\ r \in 0..(d - 1) /\ n = d * k + r
    BY Division
  <1>2. q = k \/ q = k + 1
    BY DEF HalfEven
  <1>3. d * k \in Int /\ d * (k + 1) = d * k + d
    BY <1>1
  <1>4. ASSUME q = k PROVE 2 * r <= d
    <2>1. ~(2 * r > d)
      BY <1>1, <1>4 DEF HalfEven
    <2> QED
      BY <1>1, <2>1
  <1>5. ASSUME q = k + 1 PROVE 2 * r >= d
    <2>1. 2 * r > d \/ 2 * r = d
      BY <1>1, <1>5 DEF HalfEven
    <2> QED
      BY <1>1, <2>1
  <1> HIDE DEF k, r
  <1>6. CASE q = k
    BY <1>1, <1>3, <1>4, <1>6 DEF k
  <1>7. CASE q = k + 1
    BY <1>1, <1>3, <1>5, <1>7 DEF k
  <1> QED
    BY <1>2, <1>6, <1>7

(* What is at least a multiple of the divisor does not round below that multiple. *)
LEMMA HalfEvenAtLeast ==
  ASSUME NEW n \in Int, NEW d \in Nat \ {0}, NEW m \in Int, d * m <= n
  PROVE  m <= HalfEven(n, d)
  <1> DEFINE k == n \div d  r == n % d
  <1>1. k \in Int /\ r \in 0..(d - 1) /\ n = d * k + r
    BY Division
  <1>2. k <= HalfEven(n, d) /\ HalfEven(n, d) \in Int
    BY HalfEvenIs
  <1> HIDE DEF k, r
  <1>3. m <= k
    <2> SUFFICES ASSUME k + 1 <= m PROVE FALSE
      BY <1>1
    <2>1. d * (k + 1) <= d * m
      BY <1>1, TimesKeepsOrder
    <2>2. d * (k + 1) = d * k + d /\ d * k \in Int /\ d * m \in Int
      BY <1>1
    <2> QED
      BY <1>1, <2>1, <2>2
  <1> QED
    BY <1>1, <1>2, <1>3

(* An amount rounds to an amount. *)
LEMMA HalfEvenNat ==
  ASSUME NEW n \in Nat, NEW d \in Nat \ {0}
  PROVE  HalfEven(n, d) \in Nat
  <1>1. d * 0 <= n
    OBVIOUS
  <1>2. 0 <= HalfEven(n, d)
    BY <1>1, HalfEvenAtLeast
  <1> QED
    BY <1>2, HalfEvenIs

(* A multiple of the divisor is not rounded at all. *)
LEMMA HalfEvenExact ==
  ASSUME NEW m \in Int, NEW d \in Nat \ {0}
  PROVE  HalfEven(d * m, d) = m
  <1> DEFINE n == d * m  q == HalfEven(n, d)
  <1>1. n \in Int
    OBVIOUS
  <1>2. q \in Int /\ 2 * (d * q - n) <= d /\ 2 * (n - d * q) <= d /\ d * q \in Int
    BY <1>1, HalfEvenIs
  <1>3. m <= q
    BY <1>1, HalfEvenAtLeast
  <1> HIDE DEF q
  <1>4. q <= m
    <2> SUFFICES ASSUME m + 1 <= q PROVE FALSE
      BY <1>2
    <2>1. d * (m + 1) <= d * q /\ d * (m + 1) = d * m + d
      BY <1>2, TimesKeepsOrder
    <2> QED
      BY <1>1, <1>2, <2>1
  <1> QED
    BY <1>2, <1>3, <1>4 DEF q

-----------------------------------------------------------------------------
(* Powers.                                                                   *)

(* The function a power is read from. *)
Powers(b, n, f) == f = [i \in 0..n |-> IF i = 0 THEN 1 ELSE b * f[i - 1]]

(* There is such a function, and its values are whole numbers. *)
LEMMA PowersExist ==
  ASSUME NEW b \in Int, NEW n \in Nat
  PROVE  \E f : Powers(b, n, f) /\ \A i \in 0..n : f[i] \in Int
  <1> DEFINE T == {m \in Nat : \E f : Powers(b, m, f) /\ \A i \in 0..m : f[i] \in Int}
  <1>1. 0 \in T
    <2> DEFINE f == [i \in 0..0 |-> 1]
    <2>1. 0..0 = {0}
      OBVIOUS
    <2>2. Powers(b, 0, f) /\ \A i \in 0..0 : f[i] \in Int
      BY <2>1 DEF Powers
    <2> QED
      BY <2>2
  <1>2. ASSUME NEW m \in Nat, m \in T
        PROVE  m + 1 \in T
    <2>1. PICK f : Powers(b, m, f) /\ \A i \in 0..m : f[i] \in Int
      BY <1>2
    <2>2. \A i \in 0..m : f[i] = IF i = 0 THEN 1 ELSE b * f[i - 1]
      BY <2>1 DEF Powers
    <2>3. PICK g : g = [i \in 0..(m + 1) |-> IF i = m + 1 THEN b * f[m] ELSE f[i]]
      OBVIOUS
    <2>4. ASSUME NEW i \in 0..(m + 1)
          PROVE  g[i] = (IF i = 0 THEN 1 ELSE b * g[i - 1]) /\ g[i] \in Int
      <3>1. CASE i = m + 1
        <4>1. i # 0 /\ g[i] = b * f[m] /\ i - 1 = m /\ m \in 0..(m + 1) /\ m # m + 1
          BY <2>3, <3>1
        <4>2. g[i - 1] = f[m]
          BY <2>3, <4>1
        <4>3. f[m] \in Int
          BY <2>1
        <4> QED
          BY <4>1, <4>2, <4>3
      <3>2. CASE i # m + 1
        <4>1. i \in 0..m /\ g[i] = f[i] /\ f[i] \in Int
          BY <2>1, <2>3, <3>2
        <4>2. CASE i = 0
          BY <2>2, <4>1, <4>2
        <4>3. CASE i # 0
          <5>1. i - 1 \in 0..(m + 1) /\ i - 1 # m + 1
            BY <4>1, <4>3
          <5>2. g[i - 1] = f[i - 1]
            BY <2>3, <5>1
          <5> QED
            BY <2>2, <4>1, <4>3, <5>2
        <4> QED
          BY <4>2, <4>3
      <3> QED
        BY <3>1, <3>2
    <2>5. Powers(b, m + 1, g)
      <3>1. g = [i \in 0..(m + 1) |-> g[i]]
        BY <2>3
      <3> QED
        BY <2>4, <3>1 DEF Powers
    <2> QED
      BY <2>4, <2>5
  <1>3. Nat \subseteq T
    <2> HIDE DEF T
    <2> QED
      BY <1>1, <1>2, EveryNumber
  <1> QED
    BY <1>3

(* Two of them agree as far as they both go. *)
LEMMA PowersAgree ==
  ASSUME NEW b, NEW n \in Nat, NEW k \in Nat, k <= n, NEW f, NEW g, Powers(b, n, f), Powers(b, k, g)
  PROVE  f[k] = g[k]
  <1> DEFINE T == {m \in Nat : m <= k => f[m] = g[m]}
  <1>1. /\ \A i \in 0..n : f[i] = IF i = 0 THEN 1 ELSE b * f[i - 1]
        /\ \A i \in 0..k : g[i] = IF i = 0 THEN 1 ELSE b * g[i - 1]
    BY DEF Powers
  <1>2. 0 \in T
    BY <1>1
  <1>3. ASSUME NEW m \in Nat, m \in T
        PROVE  m + 1 \in T
    <2> SUFFICES ASSUME m + 1 <= k PROVE f[m + 1] = g[m + 1]
      OBVIOUS
    <2>1. f[m] = g[m]
      BY <1>3
    <2>2. m + 1 \in 0..n /\ m + 1 \in 0..k /\ m + 1 # 0 /\ (m + 1) - 1 = m
      OBVIOUS
    <2>3. f[m + 1] = b * f[m] /\ g[m + 1] = b * g[m]
      BY <1>1, <2>2
    <2> QED
      BY <2>1, <2>3
  <1>4. Nat \subseteq T
    <2> HIDE DEF T
    <2> QED
      BY <1>2, <1>3, EveryNumber
  <1> QED
    BY <1>4

(* A power is a whole number, and one factor more multiplies once more. *)
LEMMA PowerIs ==
  ASSUME NEW b \in Int, NEW n \in Nat
  PROVE  /\ Power(b, 0) = 1 /\ Power(b, n) \in Int
         /\ Power(b, n + 1) = b * Power(b, n)
  <1> DEFINE F(k) == CHOOSE f : Powers(b, k, f)
  <1>1. ASSUME NEW k \in Nat
        PROVE  Power(b, k) = F(k)[k] /\ Powers(b, k, F(k))
    <2>1. \E f : Powers(b, k, f)
      BY PowersExist
    <2>2. Powers(b, k, F(k))
      BY <2>1
    <2>3. Power(b, k) = F(k)[k]
      BY DEF Power, Powers
    <2> QED
      BY <2>2, <2>3
  <1>2. PICK f : Powers(b, n + 1, f) /\ \A i \in 0..(n + 1) : f[i] \in Int
    BY PowersExist
  <1>3. ASSUME NEW k \in Nat, k <= n + 1
        PROVE  Power(b, k) = f[k]
    <2>1. Power(b, k) = F(k)[k] /\ Powers(b, k, F(k))
      BY <1>1
    <2> HIDE DEF F
    <2> QED
      BY <1>2, <1>3, <2>1, PowersAgree
  <1>4. \A i \in 0..(n + 1) : f[i] = IF i = 0 THEN 1 ELSE b * f[i - 1]
    BY <1>2 DEF Powers
  <1>5. f[0] = 1 /\ f[n + 1] = b * f[n] /\ f[n] \in Int
    <2>1. 0 \in 0..(n + 1) /\ n \in 0..(n + 1) /\ n + 1 \in 0..(n + 1) /\ n + 1 # 0 /\ (n + 1) - 1 = n
      OBVIOUS
    <2> QED
      BY <1>2, <1>4, <2>1
  <1>6. Power(b, 0) = f[0] /\ Power(b, n) = f[n] /\ Power(b, n + 1) = f[n + 1]
    BY <1>3
  <1> QED
    BY <1>5, <1>6

(* Powers of a positive number are positive. *)
LEMMA PowerPositive ==
  ASSUME NEW b \in Nat \ {0}, NEW n \in Nat
  PROVE  Power(b, n) \in Nat \ {0}
  <1> DEFINE T == {m \in Nat : Power(b, m) \in Nat \ {0}}
  <1>1. 0 \in T
    BY PowerIs
  <1>2. ASSUME NEW m \in Nat, m \in T
        PROVE  m + 1 \in T
    <2>1. Power(b, m) \in Nat \ {0}
      BY <1>2
    <2>2. Power(b, m + 1) = b * Power(b, m)
      BY PowerIs
    <2>3. \A x \in Nat \ {0} : b * x \in Nat \ {0}
      OBVIOUS
    <2> QED
      BY <2>1, <2>2, <2>3
  <1>3. Nat \subseteq T
    <2> HIDE DEF T
    <2> QED
      BY <1>1, <1>2, EveryNumber
  <1> QED
    BY <1>3

(* A larger base has larger powers. *)
LEMMA PowerGrows ==
  ASSUME NEW b \in Nat \ {0}, NEW c \in Nat \ {0}, b <= c, NEW n \in Nat
  PROVE  Power(b, n) <= Power(c, n)
  <1> DEFINE T == {m \in Nat : Power(b, m) <= Power(c, m)}
  <1>1. 0 \in T
    BY PowerIs
  <1>2. ASSUME NEW m \in Nat, m \in T
        PROVE  m + 1 \in T
    <2>1. Power(b, m) \in Nat /\ Power(c, m) \in Nat /\ Power(b, m) <= Power(c, m)
      BY <1>2, PowerPositive
    <2>2. Power(b, m + 1) = b * Power(b, m) /\ Power(c, m + 1) = c * Power(c, m)
      BY PowerIs
    <2>3. b * Power(b, m) <= b * Power(c, m)
      BY <2>1, TimesKeepsOrder
    <2>4. b * Power(c, m) <= c * Power(c, m)
      <3>1. Power(c, m) * b <= Power(c, m) * c
        BY <2>1, TimesKeepsOrder
      <3>2. \A x \in Nat : x * b = b * x /\ x * c = c * x /\ b * x \in Int /\ c * x \in Int
        OBVIOUS
      <3> QED
        BY <2>1, <3>1, <3>2
    <2>5. \A x, y \in Nat : b * x \in Int /\ b * y \in Int /\ c * y \in Int
      OBVIOUS
    <2>6. b * Power(b, m) \in Int /\ b * Power(c, m) \in Int /\ c * Power(c, m) \in Int
      BY <2>1, <2>5
    <2> QED
      BY <2>2, <2>3, <2>4, <2>6
  <1>3. Nat \subseteq T
    <2> HIDE DEF T
    <2> QED
      BY <1>1, <1>2, EveryNumber
  <1> QED
    BY <1>3

-----------------------------------------------------------------------------
(* Annuities.                                                                *)

(* The annuity starts ahead: over all instalments but the last, its rounding cannot take more than the
   principal.  S is the resolution, r the rate, y the interest of the first period, x the annuity and
   W the power of the rate, each with one factor S. *)
LEMMA AnnuityBound ==
  ASSUME NEW S \in Nat \ {0}, NEW r \in Nat \ {0}, NEW W \in Nat, NEW x \in Nat, NEW y \in Nat,
         2 * (W * x - S * x) - 2 * (W * y) <= S * W, 2 * (S * W) <= r * x
  PROVE  (2 * W + 1) * (2 * (x - y) + S) <= (2 * (S + r)) * (2 * x + S)
  <1>1. PICK wx \in Int, wy \in Int, sx \in Int, sw \in Int, rx \in Int, rs \in Int, ss \in Int :
          /\ wx = W * x /\ wy = W * y /\ sx = S * x /\ sw = S * W /\ rx = r * x /\ rs = r * S /\ ss = S * S
    OBVIOUS
  <1>2. (2 * W + 1) * (2 * (x - y) + S) = 4 * wx - 4 * wy + 2 * sw + 2 * x - 2 * y + S
    BY <1>1
  <1>3. (2 * (S + r)) * (2 * x + S) = 4 * sx + 2 * ss + 4 * rx + 2 * rs
    BY <1>1
  <1>4. 2 * (wx - sx) - 2 * wy <= sw /\ 2 * sw <= rx
    BY <1>1
  <1>5. x <= rx /\ S <= rs /\ 0 <= ss /\ 0 <= rx
    <2>1. \A a \in Nat : a <= r * a
      <3> TAKE a \in Nat
      <3>1. a * 1 <= a * r
        BY TimesKeepsOrder
      <3> QED
        BY <3>1
    <2>2. \A a, b \in Nat : a * b \in Nat
      OBVIOUS
    <2>3. S * S \in Nat /\ r * x \in Nat
      BY <2>2
    <2> QED
      BY <1>1, <2>1, <2>3
  <1> QED
    BY <1>1, <1>2, <1>3, <1>4, <1>5

(* The annuity as it is rounded, before the first instalment. *)
LEMMA StartsAhead ==
  ASSUME NEW S \in Nat \ {0}, NEW r \in Nat \ {0}, NEW P \in Nat, NEW W \in Nat, W - S \in Nat \ {0},
         NEW p \in Nat, NEW q \in Nat \ {0}, W = HalfEven((S + r) * p, q),
         NEW N \in Nat, N = HalfEven(P * r * W, S * S),
         NEW E \in Nat, E = HalfEven(N * S, W - S), 2 * W <= r * E
  PROVE  p * (2 * (S * E - r * P) + S) <= q * (2 * (S * E) + S)
  <1>1. PICK x \in Nat : x = S * E
    <2>1. \A a, b \in Nat : a * b \in Nat
      OBVIOUS
    <2> QED
      BY <2>1
  <1>2. PICK y \in Nat : y = r * P
    <2>1. \A a, b \in Nat : a * b \in Nat
      OBVIOUS
    <2> QED
      BY <2>1
  <1>3. 2 * ((S * S) * N - W * y) <= S * S /\ (S * S) * N \in Int /\ W * y \in Int
    <2>1. \A a, b \in Nat : a * b \in Nat
      OBVIOUS
    <2>2. P * r * W = W * y /\ W * y \in Nat /\ S * S \in Nat \ {0}
      BY <1>2, <2>1
    <2>3. PICK m \in Nat : m = W * y
      BY <2>2
    <2>4. PICK d \in Nat \ {0} : d = S * S
      BY <2>2
    <2>5. N = HalfEven(m, d)
      BY <2>2, <2>3, <2>4
    <2>6. d * N \in Int /\ 2 * (d * N - m) <= d
      BY <2>5, HalfEvenIs
    <2> QED
      BY <2>2, <2>3, <2>4, <2>6
  <1>4. 2 * ((W - S) * E - N * S) <= W - S
    <2>1. N * S \in Int
      OBVIOUS
    <2> QED
      BY <2>1, HalfEvenIs
  <1>5. S * (2 * ((W - S) * E - N * S)) <= S * (W - S)
    <2>1. 2 * ((W - S) * E - N * S) \in Int /\ W - S \in Int
      OBVIOUS
    <2> QED
      BY <1>4, <2>1, TimesKeepsOrder
  <1>6. S * (2 * ((W - S) * E - N * S)) = 2 * (W * x - S * x) - 2 * ((S * S) * N)
    BY <1>1
  <1>7. S * (W - S) = S * W - S * S
    OBVIOUS
  <1>8. 2 * (W * x - S * x) - 2 * (W * y) <= S * W
    <2>1. W * x \in Int /\ S * x \in Int /\ S * W \in Int /\ S * S \in Int
      BY <1>1
    <2> QED
      BY <1>3, <1>5, <1>6, <1>7, <2>1
  <1>9. 2 * (S * W) <= r * x
    <2>1. S * (2 * W) <= S * (r * E)
      BY TimesKeepsOrder
    <2>2. S * (2 * W) = 2 * (S * W) /\ S * (r * E) = r * x
      BY <1>1
    <2> QED
      BY <2>1, <2>2
  <1>10. PICK z \in Int : z = 2 * (x - y) + S
    BY <1>1, <1>2
  <1>11. PICK Q \in Nat : Q = 2 * x + S
    BY <1>1
  <1>12. PICK A \in Nat \ {0} : A = 2 * (S + r)
    OBVIOUS
  <1>13. (2 * W + 1) * z <= A * Q
    BY <1>1, <1>2, <1>8, <1>9, <1>10, <1>11, <1>12, AnnuityBound
  <1>14. A * p <= q * (2 * W + 1) /\ A * p \in Nat /\ q * (2 * W + 1) \in Nat
    <2>1. (S + r) * p \in Int
      OBVIOUS
    <2>2. 2 * ((S + r) * p - q * W) <= q /\ q * W \in Int
      BY <2>1, HalfEvenIs
    <2>3. A * p = 2 * ((S + r) * p) /\ q * (2 * W + 1) = 2 * (q * W) + q
      BY <1>12
    <2>4. \A a, b \in Nat : a * b \in Nat
      OBVIOUS
    <2>5. A * p \in Nat /\ q * (2 * W + 1) \in Nat
      BY <2>4
    <2> QED
      BY <2>1, <2>2, <2>3, <2>5
  <1>15. p * z <= q * Q
    <2>1. CASE z <= 0
      <3>1. p * z <= p * 0
        BY <2>1, TimesKeepsOrder
      <3>2. \A a, b \in Nat : a * b \in Nat
        OBVIOUS
      <3>3. q * Q \in Nat /\ p * 0 = 0 /\ p * z \in Int
        BY <3>2
      <3> QED
        BY <3>1, <3>3
    <2>2. CASE z > 0
      <3>1. z * (A * p) <= z * (q * (2 * W + 1))
        BY <1>14, <2>2, TimesKeepsOrder
      <3>2. q * ((2 * W + 1) * z) <= q * (A * Q)
        BY <1>13, TimesKeepsOrder
      <3>3. /\ z * (A * p) = A * (p * z) /\ q * (A * Q) = A * (q * Q)
            /\ z * (q * (2 * W + 1)) = q * ((2 * W + 1) * z)
        OBVIOUS
      <3>4. p * z \in Int /\ q * Q \in Int
        OBVIOUS
      <3>5. A * (p * z) \in Int /\ A * (q * Q) \in Int /\ q * ((2 * W + 1) * z) \in Int
        OBVIOUS
      <3>6. A * (p * z) <= q * ((2 * W + 1) * z)
        BY <3>1, <3>3, Zenon
      <3>7. q * ((2 * W + 1) * z) <= A * (q * Q)
        BY <3>2, <3>3, Zenon
      <3>8. \A i, j, k \in Int : i <= j /\ j <= k => i <= k
        OBVIOUS
      <3>9. A * (p * z) <= A * (q * Q)
        BY <3>5, <3>6, <3>7, <3>8, Zenon
      <3> QED
        BY <3>4, <3>9, LeaveOutFactor
    <2> QED
      BY <2>1, <2>2
  <1> QED
    BY <1>1, <1>2, <1>10, <1>11, <1>15

(* An instalment does not fall back: its rounding weighs less than the interest it saves. *)
LEMMA StaysAhead ==
  ASSUME NEW S \in Nat \ {0}, NEW r \in Nat, NEW E \in Nat, NEW b \in Nat,
         NEW I \in Int, I = HalfEven(b * r, S), NEW c \in Int, c = b - (E - I),
         NEW p \in Nat, NEW q \in Nat,
         ((S + r) * p) * (2 * (S * E - r * b) + S) <= (S * q) * (2 * (S * E) + S)
  PROVE  p * (2 * (S * E - r * c) + S) <= q * (2 * (S * E) + S)
  <1>1. b * r \in Int
    OBVIOUS
  <1>2. 2 * (b * r - S * I) <= S /\ S * I \in Int
    BY <1>1, HalfEvenIs
  <1>3. PICK z \in Int : z = 2 * (S * E - r * b) + S
    OBVIOUS
  <1>4. PICK t \in Int : t = 2 * (S * E - r * c) + S
    OBVIOUS
  <1>5. PICK Q \in Int : Q = 2 * (S * E) + S
    OBVIOUS
  <1>6. S * t <= (S + r) * z
    <2>1. (S + r) * z - S * t = r * (S - 2 * (b * r - S * I))
      BY <1>3, <1>4
    <2>2. r * (S - 2 * (b * r - S * I)) \in Nat
      <3>1. S - 2 * (b * r - S * I) \in Nat
        BY <1>1, <1>2
      <3>2. \A a \in Nat : r * a \in Nat
        OBVIOUS
      <3> QED
        BY <3>1, <3>2
    <2>3. (S + r) * z \in Int /\ S * t \in Int
      OBVIOUS
    <2> QED
      BY <2>1, <2>2, <2>3
  <1>7. p * (S * t) <= p * ((S + r) * z)
    BY <1>6, TimesKeepsOrder
  <1>8. ((S + r) * p) * z <= (S * q) * Q
    BY <1>3, <1>5
  <1>9. /\ p * (S * t) = S * (p * t) /\ p * ((S + r) * z) = ((S + r) * p) * z
        /\ (S * q) * Q = S * (q * Q)
    OBVIOUS
  <1>10. p * t \in Int /\ q * Q \in Int
    OBVIOUS
  <1>11. S * (p * t) \in Int /\ ((S + r) * p) * z \in Int /\ S * (q * Q) \in Int
    OBVIOUS
  <1>12. S * (p * t) <= S * (q * Q)
    BY <1>7, <1>8, <1>9, <1>11
  <1>13. p * t <= q * Q
    BY <1>10, <1>12, LeaveOutFactor
  <1> QED
    BY <1>4, <1>5, <1>13

(* An instalment that is ahead leaves no less than nothing. *)
LEMMA AheadLeaves ==
  ASSUME NEW S \in Nat \ {0}, NEW r \in Nat \ {0}, NEW E \in Nat, NEW b \in Int,
         NEW p \in Nat \ {0}, NEW q \in Nat \ {0}, q <= p,
         p * (2 * (S * E - r * b) + S) <= q * (2 * (S * E) + S)
  PROVE  b >= 0
  <1>1. PICK x \in Nat : x = S * E
    <2>1. \A a, d \in Nat : a * d \in Nat
      OBVIOUS
    <2> QED
      BY <2>1
  <1>2. PICK y \in Int : y = r * b
    OBVIOUS
  <1>3. PICK Q \in Nat : Q = 2 * x + S
    BY <1>1
  <1>4. p * (Q - 2 * y) <= q * Q
    <2>1. Q - 2 * y = 2 * (S * E - r * b) + S
      BY <1>1, <1>2, <1>3
    <2> QED
      BY <1>1, <1>3, <2>1
  <1>5. q * Q <= p * Q
    <2>1. Q * q <= Q * p
      BY TimesKeepsOrder
    <2> QED
      BY <2>1
  <1>6. p * (Q - 2 * y) <= p * Q
    <2>1. p * (Q - 2 * y) \in Int /\ q * Q \in Int /\ p * Q \in Int
      OBVIOUS
    <2> QED
      BY <1>4, <1>5, <2>1
  <1>7. Q - 2 * y <= Q
    BY <1>6, LeaveOutFactor
  <1>8. r * 0 <= r * b
    BY <1>2, <1>7
  <1> QED
    BY <1>8, LeaveOutFactor

(* An instalment drifts from the annuity by its own rounding and no more, to either side. *)
LEMMA StaysLevel ==
  ASSUME NEW S \in Nat \ {0}, NEW r \in Nat, NEW E \in Nat, NEW b \in Nat,
         NEW I \in Int, I = HalfEven(b * r, S), NEW c \in Int, c = b - (E - I),
         NEW p \in Nat, NEW q \in Nat, NEW C \in Int,
         2 * (((S + r) * p) * (S * E - r * b) - (S * q) * (S * S * E)) + S * ((S + r) * p) <= (S * q) * C,
         2 * ((S * q) * (S * S * E) - ((S + r) * p) * (S * E - r * b)) + S * ((S + r) * p) <= (S * q) * C
  PROVE  /\ 2 * (p * (S * E - r * c) - q * (S * S * E)) + S * p <= q * C
         /\ 2 * (q * (S * S * E) - p * (S * E - r * c)) + S * p <= q * C
  <1>1. b * r \in Int
    OBVIOUS
  <1>2. 2 * (S * I - b * r) <= S /\ 2 * (b * r - S * I) <= S /\ S * I \in Int
    BY <1>1, HalfEvenIs
  <1>3. PICK d \in Int : d = S * I - b * r
    BY <1>1, <1>2
  <1>4. PICK z \in Int : z = S * E - r * b
    OBVIOUS
  <1>5. PICK t \in Int : t = S * E - r * c
    OBVIOUS
  <1>6. PICK y \in Int : y = q * (S * S * E)
    OBVIOUS
  <1>7. PICK g \in Nat : g = p * r
    <2>1. \A i, j \in Nat : i * j \in Nat
      OBVIOUS
    <2> QED
      BY <2>1
  <1>8. PICK A \in Int, B \in Int, u \in Int, v \in Int : A = ((S + r) * p) * z /\ B = p * t /\ u = S * p /\ v = q * C
    OBVIOUS
  <1>9. S * t = (S + r) * z - r * d
    BY <1>3, <1>4, <1>5
  <1>10. S * B = A - g * d
    <2>1. S * B = p * (S * t) /\ A = p * ((S + r) * z) /\ g * d = p * (r * d)
      BY <1>7, <1>8
    <2>2. p * ((S + r) * z - r * d) = p * ((S + r) * z) - p * (r * d)
      OBVIOUS
    <2> QED
      BY <1>9, <2>1, <2>2
  <1>11. g * (2 * d) <= g * S /\ g * (2 * (-d)) <= g * S
    <2>1. 2 * d <= S /\ 2 * (-d) <= S
      BY <1>1, <1>2, <1>3
    <2> QED
      BY <2>1, TimesKeepsOrder
  <1>12. g * d \in Int /\ g * S \in Int /\ g * (2 * d) = 2 * (g * d) /\ g * (2 * (-d)) = -(2 * (g * d))
    OBVIOUS
  <1>13. S * ((S + r) * p) = S * u + g * S /\ (S * q) * (S * S * E) = S * y /\ (S * q) * C = S * v
    BY <1>6, <1>7, <1>8
  <1>14. 2 * (A - S * y) + (S * u + g * S) <= S * v /\ 2 * (S * y - A) + (S * u + g * S) <= S * v
    BY <1>4, <1>8, <1>13
  <1>15. S * u \in Int /\ S * v \in Int /\ S * y \in Int /\ S * B \in Int
    OBVIOUS
  <1>16. /\ S * (2 * (B - y) + u) = 2 * (S * B) - 2 * (S * y) + S * u
         /\ S * (2 * (y - B) + u) = 2 * (S * y) - 2 * (S * B) + S * u
    OBVIOUS
  <1>17. S * (2 * (B - y) + u) <= S * v /\ S * (2 * (y - B) + u) <= S * v
    BY <1>10, <1>11, <1>12, <1>14, <1>15, <1>16
  <1>18. 2 * (B - y) + u <= v /\ 2 * (y - B) + u <= v
    <2>1. 2 * (B - y) + u \in Int /\ 2 * (y - B) + u \in Int
      OBVIOUS
    <2> QED
      BY <1>17, <2>1, LeaveOutFactor
  <1> QED
    BY <1>5, <1>6, <1>8, <1>18

(* What the annuity is away from a level one before the first instalment. *)
LEMMA StartsLevel ==
  ASSUME NEW S \in Nat \ {0}, NEW r \in Nat \ {0}, NEW P \in Nat, NEW W \in Nat, W - S \in Nat \ {0},
         NEW p \in Nat, NEW q \in Nat \ {0}, W = HalfEven((S + r) * p, q),
         NEW N \in Nat, N = HalfEven(P * r * W, S * S),
         NEW E \in Nat, E = HalfEven(N * S, W - S)
  PROVE  /\ 2 * (((S + r) * p) * (S * E - r * P) - q * (S * S * E)) + S * ((S + r) * p)
              <= q * (S * (2 * W + E + 1))
         /\ 2 * (q * (S * S * E) - ((S + r) * p) * (S * E - r * P)) + S * ((S + r) * p)
              <= q * (S * (2 * W + E + 1))
  <1>1. PICK y \in Nat : y = r * P
    <2>1. \A a, b \in Nat : a * b \in Nat
      OBVIOUS
    <2> QED
      BY <2>1
  <1>2. PICK x \in Nat, s \in Nat, w \in Nat : x = S * E /\ s = S * S /\ w = S * W
    <2>1. \A a, b \in Nat : a * b \in Nat
      OBVIOUS
    <2>2. S * E \in Nat /\ S * S \in Nat /\ S * W \in Nat
      BY <2>1
    <2> QED
      BY <2>2, Zenon
  <1>3. PICK X \in Nat : X = S * x
    <2>1. \A a, b \in Nat : a * b \in Nat
      OBVIOUS
    <2> QED
      BY <2>1
  <1>4. PICK z \in Int : z = x - y
    OBVIOUS
  <1>5. PICK o \in Nat : o = W * y
    <2>1. \A a, b \in Nat : a * b \in Nat
      OBVIOUS
    <2> QED
      BY <2>1
  <1>6. PICK M \in Int : M = s * N /\ 2 * (M - o) <= s /\ 2 * (o - M) <= s
    <2>1. P * r * W = o
      BY <1>1, <1>5
    <2>2. s \in Nat \ {0} /\ s * N \in Int
      BY <1>2
    <2>3. N = HalfEven(o, s)
      BY <1>2, <2>1
    <2>4. 2 * (s * N - o) <= s /\ 2 * (o - s * N) <= s
      BY <2>2, <2>3, HalfEvenIs
    <2> QED
      BY <2>2, <2>4
  <1>7. 2 * (W * x - X) - 2 * M <= w - s /\ 2 * M - 2 * (W * x - X) <= w - s
    <2>1. N * S \in Int
      OBVIOUS
    <2>2. 2 * ((W - S) * E - N * S) <= W - S /\ 2 * (N * S - (W - S) * E) <= W - S
      BY <2>1, HalfEvenIs
    <2>3. 2 * ((W - S) * E - N * S) \in Int /\ 2 * (N * S - (W - S) * E) \in Int /\ W - S \in Int
      BY <2>1
    <2>4. /\ S * (2 * ((W - S) * E - N * S)) <= S * (W - S)
          /\ S * (2 * (N * S - (W - S) * E)) <= S * (W - S)
      BY <2>2, <2>3, TimesKeepsOrder
    <2>5. S * ((W - S) * E) = W * x - X /\ S * (N * S) = M /\ S * (W - S) = w - s
      <3>1. S * ((W - S) * E) = W * (S * E) - S * (S * E)
        OBVIOUS
      <3>2. S * (W - S) = S * W - S * S
        OBVIOUS
      <3>3. S * (N * S) = (S * S) * N
        OBVIOUS
      <3>4. S * ((W - S) * E) = W * x - X
        BY <1>2, <1>3, <3>1, Zenon
      <3>5. S * (W - S) = w - s
        BY <1>2, <3>2, Zenon
      <3>6. S * (N * S) = M
        BY <1>2, <1>6, <3>3, Zenon
      <3> QED
        BY <3>4, <3>5, <3>6
    <2>6. /\ S * (2 * ((W - S) * E - N * S)) = 2 * (S * ((W - S) * E)) - 2 * (S * (N * S))
          /\ S * (2 * (N * S - (W - S) * E)) = 2 * (S * (N * S)) - 2 * (S * ((W - S) * E))
      OBVIOUS
    <2> QED
      BY <2>4, <2>5, <2>6, Zenon
  <1>8. PICK e \in Int : e = W * z - X
    OBVIOUS
  <1>9. 2 * e <= w /\ 2 * (-e) <= w
    <2>1. W * z = W * x - o /\ W * x \in Int
      BY <1>4, <1>5
    <2> QED
      BY <1>6, <1>7, <1>8, <2>1
  <1>10. 2 * z <= S * (2 * E + 1) /\ 2 * (-z) <= S * (2 * E + 1)
    <2>1. S * (2 * E + 1) = 2 * x + S
      BY <1>2
    <2>2. z <= x
      BY <1>4
    <2>3. 2 * (-z) <= S
      <3>1. W * (2 * (-z)) = 2 * (-e) - 2 * X
        BY <1>8
      <3>2. W * S = w /\ X >= 0
        BY <1>2
      <3>3. W * (2 * (-z)) <= W * S
        BY <1>9, <3>1, <3>2
      <3>4. W \in Nat \ {0} /\ 2 * (-z) \in Int
        OBVIOUS
      <3> QED
        BY <3>3, <3>4, LeaveOutFactor
    <2> QED
      BY <2>1, <2>2, <2>3
  <1>11. PICK a \in Int, k \in Int : a = (S + r) * p /\ k = a - q * W /\ 2 * k <= q /\ 2 * (-k) <= q
    <2>1. (S + r) * p \in Int
      OBVIOUS
    <2>2. 2 * ((S + r) * p - q * W) <= q /\ 2 * (q * W - (S + r) * p) <= q /\ q * W \in Int
      BY <2>1, HalfEvenIs
    <2> QED
      BY <2>1, <2>2
  <1>12. PICK h \in Int : h = S * (2 * E + 1)
    OBVIOUS
  <1>13. 2 * (2 * (k * z)) <= q * h /\ 2 * (2 * (k * (-z))) <= q * h
    <2>1. ASSUME NEW m \in Int, 2 * m <= h, 2 * (-m) <= h
          PROVE  2 * (2 * (k * m)) <= q * h
      <3>1. CASE m >= 0
        <4>1. m * (2 * k) <= m * q
          BY <1>11, <3>1, TimesKeepsOrder
        <4>2. q * (2 * m) <= q * h
          BY <2>1, TimesKeepsOrder
        <4>3. m * (2 * k) = 2 * (k * m) /\ q * (2 * m) = 2 * (m * q) /\ k * m \in Int /\ m * q \in Int /\ q * h \in Int
          OBVIOUS
        <4> QED
          BY <4>1, <4>2, <4>3
      <3>2. CASE m <= 0
        <4>1. (-m) * (2 * (-k)) <= (-m) * q
          BY <1>11, <3>2, TimesKeepsOrder
        <4>2. q * (2 * (-m)) <= q * h
          BY <2>1, TimesKeepsOrder
        <4>3. /\ (-m) * (2 * (-k)) = 2 * (k * m) /\ q * (2 * (-m)) = 2 * ((-m) * q)
              /\ k * m \in Int /\ (-m) * q \in Int /\ q * h \in Int
          OBVIOUS
        <4> QED
          BY <4>1, <4>2, <4>3
      <3> QED
        BY <3>1, <3>2
    <2>2. 2 * z <= h /\ 2 * (-z) <= h /\ -z \in Int /\ -(-z) = z
      BY <1>10, <1>12
    <2> QED
      BY <2>1, <2>2
  <1>14. q * (2 * e) <= q * w /\ q * (2 * (-e)) <= q * w
    BY <1>9, TimesKeepsOrder
  <1>15. S * (2 * k) <= S * q
    BY <1>11, TimesKeepsOrder
  <1>16. PICK kz \in Int, qe \in Int, qw \in Int, qX \in Int, Sk \in Int, Sq \in Int, qh \in Int :
           /\ kz = k * z /\ qe = q * e /\ qw = q * w /\ qX = q * X /\ Sk = S * k /\ Sq = S * q /\ qh = q * h
    OBVIOUS
  <1>17. 4 * kz <= qh /\ -(4 * kz) <= qh /\ 2 * qe <= qw /\ -(2 * qe) <= qw /\ 2 * Sk <= Sq
    <2>1. k * (-z) = -kz /\ q * (2 * e) = 2 * qe /\ q * (2 * (-e)) = -(2 * qe) /\ S * (2 * k) = 2 * Sk
      BY <1>16
    <2> QED
      BY <1>13, <1>14, <1>15, <1>16, <2>1
  <1>18. a * z = kz + qe + qX
    <2>1. a * z = k * z + q * (W * z)
      BY <1>11
    <2>2. q * (W * z) = q * e + q * X
      BY <1>8
    <2> QED
      BY <1>16, <2>1, <2>2
  <1>19. S * a = Sk + qw
    BY <1>2, <1>11, <1>16
  <1>20. q * (S * (2 * W + E + 1)) \in Int /\ 2 * (q * (S * (2 * W + E + 1))) = 4 * qw + qh + Sq
    <2>1. 2 * (S * (2 * W + E + 1)) = 4 * w + h + S
      BY <1>2, <1>12
    <2>2. 2 * (q * (S * (2 * W + E + 1))) = q * (4 * w + h + S)
      BY <2>1
    <2>3. q * (4 * w + h + S) = 4 * (q * w) + q * h + q * S
      OBVIOUS
    <2> QED
      BY <1>16, <2>2, <2>3
  <1>21. q * (S * S * E) = qX /\ S * E - r * P = z
    BY <1>1, <1>2, <1>3, <1>4, <1>16
  <1>22. PICK G \in Int : G = q * (S * (2 * W + E + 1))
    BY <1>20
  <1>23. 2 * ((kz + qe + qX) - qX) + (Sk + qw) <= G /\ 2 * (qX - (kz + qe + qX)) + (Sk + qw) <= G
    BY <1>17, <1>20, <1>22
  <1> QED
    BY <1>11, <1>18, <1>19, <1>21, <1>22, <1>23

(* Balance and interest before the last instalment, against an annuity that has stayed level. *)
LEMMA EndsLevel ==
  ASSUME NEW S \in Nat \ {0}, NEW r \in Nat \ {0}, NEW E \in Nat, NEW W \in Nat, NEW b \in Nat,
         NEW I \in Int, I = HalfEven(b * r, S), NEW d \in Int, d = b + I - E,
         2 * ((S + r) * (S * E - r * b) - S * S * E) + S * (S + r) <= S * (2 * W + E + 1),
         2 * (S * S * E - (S + r) * (S * E - r * b)) + S * (S + r) <= S * (2 * W + E + 1)
  PROVE  2 * (r * d) <= 2 * W + E /\ -(2 * (r * d)) <= 2 * W + E
  <1>1. b * r \in Int
    OBVIOUS
  <1>2. 2 * (S * I - b * r) <= S /\ 2 * (b * r - S * I) <= S /\ S * I \in Int
    BY <1>1, HalfEvenIs
  <1>3. PICK f \in Int : f = S * I - b * r
    BY <1>1, <1>2
  <1>4. PICK g \in Int : g = S * S * E - (S + r) * (S * E - r * b)
    OBVIOUS
  <1>5. S * (r * d) = g + r * f
    BY <1>3, <1>4
  <1>6. r * (2 * f) <= r * S /\ r * (2 * (-f)) <= r * S
    <2>1. 2 * f <= S /\ 2 * (-f) <= S
      BY <1>1, <1>2, <1>3
    <2> QED
      BY <2>1, TimesKeepsOrder
  <1>7. PICK x \in Int, y \in Int, s \in Int, rs \in Int : x = r * d /\ y = r * f /\ s = S * S /\ rs = r * S
    OBVIOUS
  <1>8. PICK C \in Int : C = 2 * W + E + 1
    OBVIOUS
  <1>9. 2 * y <= rs /\ -(2 * y) <= rs
    <2>1. r * (2 * f) = 2 * y /\ r * (2 * (-f)) = -(2 * y)
      BY <1>7
    <2> QED
      BY <1>6, <1>7, <2>1
  <1>10. S * C \in Int /\ 2 * (-g) + s + rs <= S * C /\ 2 * g + s + rs <= S * C
    <2>1. S * (S + r) = s + rs
      BY <1>7
    <2>2. (S + r) * (S * E - r * b) - S * S * E = -g
      BY <1>4
    <2> QED
      BY <1>4, <1>7, <1>8, <2>1, <2>2
  <1>11. S * (2 * x + S) <= S * C /\ S * (S - 2 * x) <= S * C
    <2>1. S * x = g + y
      BY <1>5, <1>7
    <2>2. S * (2 * x + S) = 2 * (S * x) + s /\ S * (S - 2 * x) = s - 2 * (S * x)
      BY <1>7
    <2> QED
      BY <1>9, <1>10, <2>1, <2>2
  <1>12. 2 * x + S <= C /\ S - 2 * x <= C
    <2>1. 2 * x + S \in Int /\ S - 2 * x \in Int
      OBVIOUS
    <2> QED
      BY <1>11, <2>1, LeaveOutFactor
  <1> QED
    BY <1>7, <1>8, <1>12
-----------------------------------------------------------------------------
(* The terms, and the amounts that are worked out from them.                 *)

(* The terms the calculation is given are terms. *)
LEMMA DtoIs ==
  ASSUME caller \in Caller, loan \in Terms
  PROVE  Dto \in Terms
  <1> DEFINE unit == Scale \div Minor
  <1>1. unit \in Nat
    <2>1. unit \in Int /\ Scale = Minor * unit
      BY Division, AmortizationAssumption
    <2>2. ~(unit + 1 <= 0)
      <3> SUFFICES ASSUME unit + 1 <= 0 PROVE FALSE
        OBVIOUS
      <3>1. unit <= 0
        BY <2>1
      <3>2. Minor * unit <= Minor * 0
        BY <2>1, <3>1, TimesKeepsOrder, AmortizationAssumption
      <3> QED
        BY <2>1, <3>2, AmortizationAssumption
    <2> QED
      BY <2>1, <2>2
  <1>2. loan.principal \in Nat /\ Scale \in Nat
    BY AmortizationAssumption DEF Terms
  <1>3. loan.principal * unit \in Nat /\ loan.principal * Scale \in Nat
    <2>1. \A x, y \in Nat : x * y \in Nat
      OBVIOUS
    <2> HIDE DEF unit
    <2> QED
      BY <1>1, <1>2, <2>1
  <1> DEFINE major == loan.principal * unit  exact == loan.principal * Scale
  <1>4. /\ caller = "quote" => Dto = [loan EXCEPT !.principal = major]
        /\ caller = "preview" =>
             Dto = [loan EXCEPT !.principal = exact, !.charge = 0, !.rateType = "declining_balance"]
        /\ caller = "disburse" =>
             Dto = [loan EXCEPT !.principal = major, !.rateType = "declining_balance"]
    BY DEF Dto
  <1>5. major \in Nat /\ exact \in Nat
    BY <1>3
  <1> HIDE DEF major, exact
  <1>6. [loan EXCEPT !.principal = major] \in Terms
    BY <1>5 DEF Terms
  <1>7. [loan EXCEPT !.principal = exact, !.charge = 0, !.rateType = "declining_balance"] \in Terms
    BY <1>5 DEF Terms
  <1>8. [loan EXCEPT !.principal = major, !.rateType = "declining_balance"] \in Terms
    BY <1>5 DEF Terms
  <1> QED
    BY <1>4, <1>6, <1>7, <1>8, Zenon DEF Caller

(* The periodic rate is an amount, and one over the years of a loan is positive. *)
LEMMA RateIs ==
  ASSUME caller \in Caller, loan \in Terms
  PROVE  PeriodicRate \in Nat
  <1>1. Dto.rate \in Nat /\ Dto.frequency \in Frequency
    BY DtoIs DEF Terms
  <1>2. PeriodsPerYear(Dto.frequency) \in Nat \ {0}
    BY <1>1 DEF PeriodsPerYear, Frequency
  <1>3. HalfEven(Dto.rate, 100) \in Nat
    BY <1>1, HalfEvenNat
  <1> QED
    BY <1>2, <1>3, HalfEvenNat DEF PeriodicRate

(* The tenor that is left after the grace, for terms that were not refused. *)
LEMMA TenorIs ==
  ASSUME caller \in Caller, loan \in Terms, ~Invalid
  PROVE  /\ Dto.tenor \in Nat \ {0} /\ Dto.period \in Nat /\ Dto.principal \in Nat
         /\ Dto.period < Dto.tenor
         /\ ActiveTenor = Dto.tenor - Dto.period /\ ActiveTenor \in Nat \ {0}
  BY DtoIs DEF Terms, Invalid, ActiveTenor

(* A product, rounded. *)
LEMMA MultiplyNat ==
  ASSUME NEW a \in Nat, NEW b \in Nat
  PROVE  Multiply(a, b) \in Nat
  <1>1. a * b \in Nat
    OBVIOUS
  <1> QED
    BY <1>1, HalfEvenNat, AmortizationAssumption DEF Multiply

(* The charge, and what an instalment bears of it. *)
LEMMA ChargeIs ==
  ASSUME caller \in Caller, loan \in Terms, ~Invalid
  PROVE  ChargeAmount \in Nat /\ EmiCharge \in Nat
  <1>1. Dto.charge \in Nat /\ Dto.principal \in Nat
    BY DtoIs DEF Terms
  <1>2. Percent(Dto.charge) \in Nat
    BY <1>1, HalfEvenNat DEF Percent
  <1>3. ChargeAmount \in Nat
    BY <1>1, <1>2, MultiplyNat DEF ChargeAmount
  <1>4. HalfEven(ChargeAmount, ActiveTenor) \in Nat
    BY <1>3, TenorIs, HalfEvenNat
  <1> QED
    BY <1>3, <1>4 DEF EmiCharge

(* A rate above zero grows with its power, so that the annuity divides by a positive number. *)
LEMMA RatePowIs ==
  ASSUME caller \in Caller, loan \in Terms, ~Invalid, PeriodicRate # 0
  PROVE  RatePow \in Nat /\ RatePow - Scale \in Nat \ {0}
  <1> DEFINE c == Scale + PeriodicRate  k == ActiveTenor - 1
             d == Power(Scale, k)  n == Power(c, ActiveTenor)
  <1>1. Scale \in Nat \ {0} /\ c \in Nat \ {0} /\ Scale + 1 <= c /\ k \in Nat
    BY RateIs, TenorIs, AmortizationAssumption
  <1>2. d \in Nat \ {0} /\ n \in Nat /\ Power(c, k) \in Nat
    BY <1>1, TenorIs, PowerPositive
  <1>3. n = c * Power(c, k)
    <2>1. k + 1 = ActiveTenor
      BY TenorIs
    <2>2. Power(c, k + 1) = c * Power(c, k)
      BY <1>1, PowerIs
    <2> QED
      BY <2>1, <2>2
  <1>4. d <= Power(c, k)
    BY <1>1, PowerGrows
  <1> HIDE DEF c, k, d, n
  <1>5. c * d <= n
    BY <1>1, <1>2, <1>3, <1>4, TimesKeepsOrder
  <1>6. d * c <= n
    BY <1>1, <1>2, <1>5
  <1>7. c <= HalfEven(n, d) /\ HalfEven(n, d) \in Nat
    BY <1>1, <1>2, <1>6, HalfEvenAtLeast, HalfEvenNat
  <1>8. RatePow = HalfEven(n, d)
    BY DEF RatePow, n, d, c, k
  <1> QED
    BY <1>1, <1>7, <1>8

(* What an active instalment takes. *)
LEMMA EmiIs ==
  ASSUME caller \in Caller, loan \in Terms, ~Invalid
  PROVE  PrincipalShare \in Nat /\ FlatInterest \in Nat /\ Emi \in Nat
  <1>1. Dto.principal \in Nat /\ ActiveTenor \in Nat \ {0} /\ PeriodicRate \in Nat
    BY TenorIs, RateIs
  <1>2. PrincipalShare \in Nat
    BY <1>1, HalfEvenNat DEF PrincipalShare
  <1>3. FlatInterest \in Nat
    BY <1>1, MultiplyNat DEF FlatInterest
  <1>4. ASSUME PeriodicRate # 0 PROVE Annuity \in Nat
    <2>1. RatePow \in Nat /\ RatePow - Scale \in Nat \ {0} /\ Scale \in Nat \ {0}
      BY <1>4, RatePowIs, AmortizationAssumption
    <2>2. \A x, y \in Nat : x * y \in Nat
      OBVIOUS
    <2>3. \A x, y \in Nat \ {0} : x * y \in Nat \ {0}
      OBVIOUS
    <2>4. Dto.principal * PeriodicRate * RatePow \in Nat /\ Scale * Scale \in Nat \ {0}
      BY <1>1, <2>1, <2>2, <2>3
    <2>5. HalfEven(Dto.principal * PeriodicRate * RatePow, Scale * Scale) \in Nat
      BY <2>4, HalfEvenNat
    <2>6. HalfEven(Dto.principal * PeriodicRate * RatePow, Scale * Scale) * Scale \in Nat
      BY <2>1, <2>2, <2>5
    <2> QED
      BY <2>1, <2>6, HalfEvenNat DEF Annuity, Divide
  <1> QED
    BY <1>2, <1>3, <1>4 DEF Emi

-----------------------------------------------------------------------------
(* The inductive invariant.                                                  *)

Row == [principal : Int, interest : Int, total : Int, left : Int, charge : Int]

Typed ==
  /\ caller \in Caller /\ loan \in Application
  /\ phase \in {"asked", "loop", "returned", "stored", "refused"}
  /\ balance \in Nat /\ totalInterest \in Int /\ repaid \in Int
  /\ schedules \in Seq(Row)

(* How far the calculation is. *)
Progress ==
  /\ ~Worked => schedules = <<>> /\ totalInterest = 0 /\ repaid = 0
  /\ Worked => ~Invalid /\ Len(schedules) <= Dto.tenor
  /\ phase \in {"returned", "stored"} => Len(schedules) = Dto.tenor
  /\ phase = "stored" => stored = [i \in DOMAIN schedules |-> ScheduleRow(schedules[i])]
  /\ phase = "stored" => caller = "disburse"

(* The sums so far. *)
Shares == SumFunction([i \in DOMAIN schedules |-> schedules[i].principal])
PartsAddUp == \A i \in DOMAIN schedules :
  schedules[i].total = schedules[i].principal + schedules[i].interest + schedules[i].charge
SumsKept == Totals = repaid + totalInterest + Charges /\ Shares = repaid

(* The instalments after the grace period bear the charge, those in it repay nothing. *)
Active(k) == IF k <= Dto.period THEN 0 ELSE k - Dto.period
InTurn == \A i \in DOMAIN schedules :
  IF i <= Dto.period THEN schedules[i].charge = 0 /\ schedules[i].principal = 0
  ELSE schedules[i].charge = EmiCharge
Charged == Worked => \A i \in DOMAIN schedules : schedules[i].charge \in {0, EmiCharge}
TurnsKept == Worked /\ Regular => InTurn /\ Charges = EmiCharge * Active(Len(schedules))

(* What is not repaid is left, and in the end nothing is. *)
LeftKept ==
  Worked =>
    /\ balance + repaid >= Dto.principal
    /\ Len(schedules) = Dto.tenor => balance = 0 /\ schedules[Dto.tenor].left = 0

IInv == Typed /\ Progress /\ PartsAddUp /\ SumsKept /\ Charged /\ TurnsKept /\ LeftKept

(* A loan that is repaid in equal shares, and one that is repaid by an annuity.  The amounts are
   large enough for what rounding adds to the instalments before the last not to take more than
   the principal. *)
EqualShares == Dto.rateType = "flat" \/ PeriodicRate = 0
Enough ==
  IF EqualShares THEN ActiveTenor * (ActiveTenor - 1) <= 2 * Dto.principal
  ELSE 2 * RatePow <= PeriodicRate * Emi

(* The annuity of the instalments to come, the last one excepted, does not take more than balance b,
   if k of them are behind: what an instalment repays grows like a power of the rate. *)
Ahead(k, b) ==
  Power(Scale + PeriodicRate, ActiveTenor - 1 - k) * (2 * (Scale * Emi - PeriodicRate * b) + Scale)
    <= Power(Scale, ActiveTenor - 1 - k) * (2 * (Scale * Emi) + Scale)

(* How much is repaid, of paid, once k instalments after the grace are behind, and b left. *)
Kept(k, b, paid) ==
  b = Dto.principal - paid /\ IF EqualShares THEN paid = k * PrincipalShare ELSE Ahead(k, b)

(* What is repaid before the last instalment is taken off the principal, and the last repays the rest. *)
Exact ==
  Worked /\ Regular /\ Enough =>
    IF Len(schedules) = Dto.tenor THEN repaid = Dto.principal
    ELSE Kept(Active(Len(schedules)), balance, repaid)

(* What one turn of the loop adds. *)
Turn(e) ==
  /\ phase = "loop" /\ Len(schedules) < Dto.tenor
  /\ schedules' = Append(schedules, e)
  /\ balance' = e.left /\ totalInterest' = totalInterest + e.interest /\ repaid' = repaid + e.principal
  /\ UNCHANGED <<caller, loan, phase, stored>>
TurnParts(e) ==
  /\ e.charge \in {0, EmiCharge}
  /\ e.total = e.principal + e.interest + e.charge
  /\ e.left \in Nat /\ e.left >= balance - e.principal
  /\ Number = Dto.tenor => e.left = 0 /\ e.principal = balance
TurnShare(e) ==
  Regular => IF Number <= Dto.period THEN e.charge = 0 /\ e.principal = 0 /\ e.left = balance
             ELSE e.charge = EmiCharge
TurnPrincipal(e) ==
  Regular /\ Dto.period < Number /\ Number < Dto.tenor =>
    /\ e.left = LeftAfter(e.principal)
    /\ e.principal = IF EqualShares THEN PrincipalShare ELSE Emi - Multiply(balance, PeriodicRate)

TurnTotal(e) ==
  Regular /\ Dto.period < Number =>
    e.total = IF Number < Dto.tenor THEN Emi + EmiCharge ELSE balance + Interest + EmiCharge

(* The calculation keeps the terms. *)
LEMMA SameTerms ==
  ASSUME caller' = caller, loan' = loan
  PROVE  /\ Dto' = Dto /\ Invalid' = Invalid /\ Regular' = Regular
         /\ ActiveTenor' = ActiveTenor /\ EmiCharge' = EmiCharge /\ ChargeAmount' = ChargeAmount
         /\ PrincipalShare' = PrincipalShare /\ PeriodicRate' = PeriodicRate
         /\ EqualShares' = EqualShares /\ Enough' = Enough
         /\ \A k : Active(k)' = Active(k)
         /\ \A k, b : Ahead(k, b)' = Ahead(k, b)
  <1>1. Dto' = Dto
    BY DEF Dto
  <1>2. ActiveTenor' = ActiveTenor /\ PeriodicRate' = PeriodicRate /\ ChargeAmount' = ChargeAmount
    BY <1>1 DEF ActiveTenor, PeriodicRate, ChargeAmount
  <1>3. EmiCharge' = EmiCharge /\ PrincipalShare' = PrincipalShare
    BY <1>1, <1>2 DEF EmiCharge, PrincipalShare
  <1>4. Invalid' = Invalid /\ Regular' = Regular /\ EqualShares' = EqualShares
    BY <1>1, <1>2 DEF Invalid, Regular, EqualShares
  <1>5. RatePow' = RatePow /\ Emi' = Emi
    BY <1>1, <1>2, <1>3 DEF RatePow, Emi, FlatInterest, Annuity, RatePow
  <1>6. \A k : Active(k)' = Active(k)
    BY <1>1 DEF Active
  <1>7. Enough' = Enough
    BY <1>1, <1>2, <1>4, <1>5 DEF Enough
  <1>8. \A k, b : Ahead(k, b)' = Ahead(k, b)
    BY <1>2, <1>5 DEF Ahead
  <1> QED
    BY <1>1, <1>2, <1>3, <1>4, <1>6, <1>7, <1>8

(* The interest of an instalment is a whole number, and without a rate there is none. *)
LEMMA InterestIs ==
  ASSUME IInv, Worked
  PROVE  Interest \in Int /\ (PeriodicRate = 0 => Interest = 0 /\ FlatInterest = 0)
  <1>1. caller \in Caller /\ loan \in Terms /\ ~Invalid /\ balance \in Nat
    BY AmortizationAssumption DEF IInv, Typed, Progress
  <1>2. PeriodicRate \in Nat /\ FlatInterest \in Nat /\ Dto.principal \in Nat
    BY <1>1, RateIs, EmiIs, TenorIs
  <1>3. Multiply(balance, PeriodicRate) \in Nat
    BY <1>1, <1>2, MultiplyNat
  <1>4. ASSUME PeriodicRate = 0, NEW x \in Nat PROVE Multiply(x, PeriodicRate) = 0
    <2>1. x * PeriodicRate = Scale * 0
      BY <1>4, AmortizationAssumption
    <2>2. HalfEven(Scale * 0, Scale) = 0
      BY HalfEvenExact, AmortizationAssumption
    <2> QED
      BY <2>1, <2>2 DEF Multiply
  <1>5. PeriodicRate = 0 => Multiply(balance, PeriodicRate) = 0 /\ FlatInterest = 0
    BY <1>1, <1>2, <1>4 DEF FlatInterest
  <1> QED
    BY <1>2, <1>3, <1>5 DEF Interest

(* Each turn of the loop adds an instalment. *)
LEMMA GraceIsTurn ==
  ASSUME IInv, Grace
  PROVE  \E e \in Row : Turn(e) /\ TurnParts(e) /\ TurnShare(e) /\ TurnPrincipal(e) /\ TurnTotal(e)
  <1>1. Worked /\ phase = "loop"
    BY DEF Grace, Push, Worked
  <1>2. /\ caller \in Caller /\ loan \in Terms /\ ~Invalid /\ balance \in Nat
        /\ schedules \in Seq(Row) /\ Len(schedules) \in Nat
    BY <1>1, AmortizationAssumption DEF IInv, Typed, Progress
  <1>3. Dto.tenor \in Nat \ {0} /\ Dto.period \in Nat /\ Dto.period < Dto.tenor
    BY <1>2, TenorIs
  <1>4. Number <= Dto.period /\ Number \in Nat /\ Number = Len(schedules) + 1
    BY <1>2 DEF Grace, IsMoratorium, Number
  <1>5. Interest \in Int
    BY <1>1, InterestIs
  <1> DEFINE i == IF Dto.moratorium = "principal_and_interest" THEN 0 ELSE Interest
             e == [principal |-> 0, interest |-> i, total |-> i + 0, left |-> balance, charge |-> 0]
  <1>6. i \in Int
    BY <1>5
  <1>7. /\ schedules' = Append(schedules, e) /\ balance' = balance
        /\ totalInterest' = totalInterest + i /\ repaid' = repaid + 0
        /\ UNCHANGED <<caller, loan, phase, stored>>
    BY DEF Grace, Push
  <1> HIDE DEF i
  <1>8. e \in Row
    BY <1>2, <1>6 DEF Row
  <1>9. Turn(e)
    BY <1>1, <1>3, <1>4, <1>7 DEF Turn
  <1>10. TurnParts(e)
    BY <1>2, <1>3, <1>4, <1>6 DEF TurnParts
  <1>11. TurnShare(e) /\ TurnPrincipal(e) /\ TurnTotal(e)
    BY <1>3, <1>4 DEF TurnShare, TurnPrincipal, TurnTotal
  <1> HIDE DEF e
  <1> QED
    BY <1>8, <1>9, <1>10, <1>11

(* An instalment before the last. *)
LEMMA InstalmentIsTurn ==
  ASSUME IInv, Instalment
  PROVE  \E e \in Row : Turn(e) /\ TurnParts(e) /\ TurnShare(e) /\ TurnPrincipal(e) /\ TurnTotal(e)
  <1>1. Worked /\ phase = "loop"
    BY DEF Instalment, Push, Worked
  <1>2. /\ caller \in Caller /\ loan \in Terms /\ ~Invalid /\ balance \in Nat
        /\ schedules \in Seq(Row) /\ Len(schedules) \in Nat
    BY <1>1, AmortizationAssumption DEF IInv, Typed, Progress
  <1>3. Dto.tenor \in Nat \ {0} /\ Dto.period \in Nat /\ Dto.period < Dto.tenor
    BY <1>2, TenorIs
  <1>4. Number < Dto.tenor /\ Number \in Nat /\ Number = Len(schedules) + 1 /\ ~IsMoratorium(Number)
    BY <1>2 DEF Instalment, Number
  <1>5. Regular => ~(Number <= Dto.period)
    BY <1>3, <1>4 DEF Regular, IsMoratorium
  <1>6. /\ Interest \in Int /\ PrincipalShare \in Nat /\ FlatInterest \in Nat /\ Emi \in Nat
        /\ EmiCharge \in Nat /\ (PeriodicRate = 0 => Interest = 0 /\ FlatInterest = 0)
    BY <1>1, <1>2, InterestIs, EmiIs, ChargeIs
  <1>7. Principal \in Int /\ Principal + Interest = Emi
    <2>1. CASE Dto.rateType = "flat"
      BY <1>6, <2>1 DEF Principal, Interest, Emi
    <2>2. CASE Dto.rateType # "flat"
      BY <1>6, <2>2 DEF Principal
    <2> QED
      BY <2>1, <2>2
  <1>8. Principal = IF EqualShares THEN PrincipalShare ELSE Emi - Multiply(balance, PeriodicRate)
    <2>1. CASE Dto.rateType = "flat"
      BY <2>1 DEF EqualShares, Principal
    <2>2. CASE Dto.rateType # "flat" /\ PeriodicRate = 0
      BY <1>6, <2>2 DEF EqualShares, Principal, Emi
    <2>3. CASE Dto.rateType # "flat" /\ PeriodicRate # 0
      BY <2>3 DEF EqualShares, Principal, Interest
    <2> QED
      BY <2>1, <2>2, <2>3
  <1>9. LeftAfter(Principal) \in Nat /\ LeftAfter(Principal) >= balance - Principal
    BY <1>2, <1>7 DEF LeftAfter
  <1> DEFINE e == [principal |-> Principal, interest |-> Interest, total |-> Emi + EmiCharge,
                   left |-> LeftAfter(Principal), charge |-> EmiCharge]
  <1>10. /\ schedules' = Append(schedules, e) /\ balance' = LeftAfter(Principal)
         /\ totalInterest' = totalInterest + Interest /\ repaid' = repaid + Principal
         /\ UNCHANGED <<caller, loan, phase, stored>>
    BY DEF Instalment, Push
  <1>11. e \in Row
    BY <1>6, <1>7, <1>9 DEF Row
  <1>12. Turn(e)
    BY <1>1, <1>3, <1>4, <1>10 DEF Turn
  <1>13. TurnParts(e)
    BY <1>3, <1>4, <1>6, <1>7, <1>9 DEF TurnParts
  <1>14. TurnShare(e) /\ TurnPrincipal(e) /\ TurnTotal(e)
    BY <1>4, <1>5, <1>8 DEF TurnShare, TurnPrincipal, TurnTotal
  <1> HIDE DEF e
  <1> QED
    BY <1>11, <1>12, <1>13, <1>14

(* The last instalment takes the balance. *)
LEMMA LastIsTurn ==
  ASSUME IInv, LastInstalment
  PROVE  \E e \in Row : Turn(e) /\ TurnParts(e) /\ TurnShare(e) /\ TurnPrincipal(e) /\ TurnTotal(e)
  <1>1. Worked /\ phase = "loop"
    BY DEF LastInstalment, Push, Worked
  <1>2. /\ caller \in Caller /\ loan \in Terms /\ ~Invalid /\ balance \in Nat
        /\ schedules \in Seq(Row) /\ Len(schedules) \in Nat
    BY <1>1, AmortizationAssumption DEF IInv, Typed, Progress
  <1>3. Dto.tenor \in Nat \ {0} /\ Dto.period \in Nat /\ Dto.period < Dto.tenor
    BY <1>2, TenorIs
  <1>4. Number = Dto.tenor /\ Number = Len(schedules) + 1
    BY DEF LastInstalment, Number
  <1>5. Interest \in Int /\ EmiCharge \in Nat
    BY <1>1, <1>2, InterestIs, ChargeIs
  <1> DEFINE e == [principal |-> balance, interest |-> Interest, total |-> (balance + Interest) + EmiCharge,
                   left |-> 0, charge |-> EmiCharge]
  <1>6. /\ schedules' = Append(schedules, e) /\ balance' = 0
        /\ totalInterest' = totalInterest + Interest /\ repaid' = repaid + balance
        /\ UNCHANGED <<caller, loan, phase, stored>>
    BY DEF LastInstalment, Push, PrincipalAtTheEnd
  <1>7. e \in Row
    BY <1>2, <1>5 DEF Row
  <1>8. Turn(e)
    BY <1>1, <1>2, <1>4, <1>6 DEF Turn
  <1>9. TurnParts(e)
    BY <1>2, <1>5 DEF TurnParts
  <1>10. TurnShare(e) /\ TurnPrincipal(e) /\ TurnTotal(e)
    BY <1>3, <1>4 DEF TurnShare, TurnPrincipal, TurnTotal
  <1> HIDE DEF e
  <1> QED
    BY <1>7, <1>8, <1>9, <1>10

-----------------------------------------------------------------------------
(* The sums grow with the instalments.                                       *)

(* A sum over one place more. *)
LEMMA SumOfMore ==
  ASSUME NEW n \in Nat, NEW f, NEW g, DOMAIN f = 1..n, DOMAIN g = 1..(n + 1),
         \A i \in 1..n : f[i] \in Int /\ g[i] = f[i], g[n + 1] \in Int
  PROVE  SumFunction(g) = g[n + 1] + SumFunction(f)
  <1>1. IsFiniteSet(1..n) /\ n + 1 \notin 1..n /\ (1..n) \cup {n + 1} = 1..(n + 1)
    BY UpToFinite
  <1>2. \A i \in (1..n) \cup {n + 1} : g[i] \in Int
    OBVIOUS
  <1>3. SumFunctionOnSet(g, (1..n) \cup {n + 1}) = g[n + 1] + SumFunctionOnSet(g, 1..n)
    BY <1>1, <1>2, SumAdd
  <1>4. \A i \in 1..n : f[i] = g[i] /\ f[i] \in Int
    OBVIOUS
  <1>5. SumFunctionOnSet(f, 1..n) = SumFunctionOnSet(g, 1..n)
    BY <1>1, <1>4, SumSame
  <1>6. SumFunctionOnSet(g, 1..(n + 1)) = g[n + 1] + SumFunctionOnSet(f, 1..n)
    BY <1>1, <1>3, <1>5, Zenon
  <1> QED
    BY <1>6, Zenon DEF SumFunction

(* The sums are whole numbers. *)
LEMMA SumsAreInt ==
  ASSUME schedules \in Seq(Row)
  PROVE  Charges \in Int /\ Totals \in Int /\ Shares \in Int
  <1>1. DOMAIN schedules = 1..Len(schedules) /\ IsFiniteSet(DOMAIN schedules)
    BY UpToFinite
  <1>2. \A i \in DOMAIN schedules : schedules[i] \in Row
    OBVIOUS
  <1>3. ASSUME NEW f, DOMAIN f = DOMAIN schedules, \A i \in DOMAIN schedules : f[i] \in Int
        PROVE  SumFunction(f) \in Int
    BY <1>1, <1>3, SumType DEF SumFunction
  <1>4. Charges \in Int
    <2> DEFINE f == [i \in DOMAIN schedules |-> schedules[i].charge]
    <2>1. DOMAIN f = DOMAIN schedules /\ \A i \in DOMAIN schedules : f[i] \in Int
      BY <1>2 DEF Row
    <2> HIDE DEF f
    <2>2. SumFunction(f) \in Int
      BY <1>3, <2>1
    <2> QED
      BY <2>2 DEF f, Charges
  <1>5. Totals \in Int
    <2> DEFINE f == [i \in DOMAIN schedules |-> schedules[i].total]
    <2>1. DOMAIN f = DOMAIN schedules /\ \A i \in DOMAIN schedules : f[i] \in Int
      BY <1>2 DEF Row
    <2> HIDE DEF f
    <2>2. SumFunction(f) \in Int
      BY <1>3, <2>1
    <2> QED
      BY <2>2 DEF f, Totals
  <1>6. Shares \in Int
    <2> DEFINE f == [i \in DOMAIN schedules |-> schedules[i].principal]
    <2>1. DOMAIN f = DOMAIN schedules /\ \A i \in DOMAIN schedules : f[i] \in Int
      BY <1>2 DEF Row
    <2> HIDE DEF f
    <2>2. SumFunction(f) \in Int
      BY <1>3, <2>1
    <2> QED
      BY <2>2 DEF f, Shares
  <1> QED
    BY <1>4, <1>5, <1>6

(* With an instalment more, the rows before it stay as they are. *)
LEMMA AppendIs ==
  ASSUME NEW s \in Seq(Row), NEW e \in Row, NEW t, t = Append(s, e)
  PROVE  /\ t \in Seq(Row) /\ Len(t) = Len(s) + 1 /\ Len(s) \in Nat
         /\ DOMAIN s = 1..Len(s) /\ DOMAIN t = 1..(Len(s) + 1)
         /\ t[Len(s) + 1] = e /\ \A i \in 1..Len(s) : t[i] = s[i] /\ s[i] \in Row
  OBVIOUS

(* A turn adds its parts to the sums. *)
LEMMA TurnAdds ==
  ASSUME schedules \in Seq(Row), NEW e \in Row, Turn(e)
  PROVE  /\ Charges' = e.charge + Charges
         /\ Totals' = e.total + Totals
         /\ Shares' = e.principal + Shares
  <1> DEFINE n == Len(schedules)
  <1>1. /\ n \in Nat /\ DOMAIN schedules = 1..n /\ DOMAIN schedules' = 1..(n + 1)
        /\ schedules'[n + 1] = e /\ \A i \in 1..n : schedules'[i] = schedules[i] /\ schedules[i] \in Row
    BY AppendIs DEF Turn
  <1>2. e.charge \in Int /\ e.total \in Int /\ e.principal \in Int
    BY DEF Row
  <1>3. n + 1 \in 1..(n + 1) /\ \A i \in 1..n : i \in 1..(n + 1)
    BY <1>1
  <1> HIDE DEF n
  <1>4. Charges' = e.charge + Charges
    <2>1. PICK f : f = [i \in DOMAIN schedules |-> schedules[i].charge]
      OBVIOUS
    <2>2. PICK g : g = [i \in DOMAIN schedules' |-> schedules'[i].charge]
      OBVIOUS
    <2>3. /\ DOMAIN f = 1..n /\ DOMAIN g = 1..(n + 1) /\ g[n + 1] = e.charge
          /\ \A i \in 1..n : f[i] \in Int /\ g[i] = f[i]
      BY <1>1, <1>3, <2>1, <2>2 DEF Row
    <2>4. SumFunction(g) = g[n + 1] + SumFunction(f)
      BY <1>1, <1>2, <2>3, SumOfMore
    <2> QED
      BY <2>1, <2>2, <2>3, <2>4 DEF Charges
  <1>5. Totals' = e.total + Totals
    <2>1. PICK f : f = [i \in DOMAIN schedules |-> schedules[i].total]
      OBVIOUS
    <2>2. PICK g : g = [i \in DOMAIN schedules' |-> schedules'[i].total]
      OBVIOUS
    <2>3. /\ DOMAIN f = 1..n /\ DOMAIN g = 1..(n + 1) /\ g[n + 1] = e.total
          /\ \A i \in 1..n : f[i] \in Int /\ g[i] = f[i]
      BY <1>1, <1>3, <2>1, <2>2 DEF Row
    <2>4. SumFunction(g) = g[n + 1] + SumFunction(f)
      BY <1>1, <1>2, <2>3, SumOfMore
    <2> QED
      BY <2>1, <2>2, <2>3, <2>4 DEF Totals
  <1>6. Shares' = e.principal + Shares
    <2>1. PICK f : f = [i \in DOMAIN schedules |-> schedules[i].principal]
      OBVIOUS
    <2>2. PICK g : g = [i \in DOMAIN schedules' |-> schedules'[i].principal]
      OBVIOUS
    <2>3. /\ DOMAIN f = 1..n /\ DOMAIN g = 1..(n + 1) /\ g[n + 1] = e.principal
          /\ \A i \in 1..n : f[i] \in Int /\ g[i] = f[i]
      BY <1>1, <1>3, <2>1, <2>2 DEF Row
    <2>4. SumFunction(g) = g[n + 1] + SumFunction(f)
      BY <1>1, <1>2, <2>3, SumOfMore
    <2> QED
      BY <2>1, <2>2, <2>3, <2>4 DEF Shares
  <1> QED
    BY <1>4, <1>5, <1>6

(* A turn keeps the invariant. *)
LEMMA TurnKeeps ==
  ASSUME IInv, NEW e \in Row, Turn(e), TurnParts(e), TurnShare(e)
  PROVE  IInv'
  <1>1. /\ caller' = caller /\ loan' = loan /\ phase' = phase /\ phase = "loop"
        /\ balance' = e.left /\ totalInterest' = totalInterest + e.interest /\ repaid' = repaid + e.principal
    BY DEF Turn
  <1>2. /\ caller \in Caller /\ loan \in Terms /\ ~Invalid /\ balance \in Nat
        /\ totalInterest \in Int /\ repaid \in Int /\ schedules \in Seq(Row)
    BY <1>1, AmortizationAssumption DEF IInv, Typed, Progress, Worked
  <1>3. /\ e.principal \in Int /\ e.interest \in Int /\ e.total \in Int /\ e.charge \in Int
        /\ e.total = e.principal + e.interest + e.charge
        /\ e.left \in Nat /\ e.left >= balance - e.principal
        /\ Number = Dto.tenor => e.left = 0 /\ e.principal = balance
    BY DEF Row, TurnParts
  <1>4. /\ schedules' \in Seq(Row) /\ Len(schedules') = Len(schedules) + 1 /\ Len(schedules) \in Nat
        /\ DOMAIN schedules = 1..Len(schedules) /\ DOMAIN schedules' = 1..(Len(schedules) + 1)
        /\ schedules'[Len(schedules) + 1] = e
        /\ \A i \in 1..Len(schedules) : schedules'[i] = schedules[i] /\ schedules[i] \in Row
    BY <1>2, AppendIs DEF Turn
  <1>5. /\ Dto' = Dto /\ Invalid' = Invalid /\ Regular' = Regular /\ EmiCharge' = EmiCharge
        /\ \A k : Active(k)' = Active(k)
    BY <1>1, SameTerms
  <1>6. Dto.tenor \in Nat \ {0} /\ Dto.period \in Nat /\ Dto.principal \in Nat /\ Dto.period < Dto.tenor
    BY <1>2, TenorIs
  <1>7. Len(schedules) < Dto.tenor /\ Number = Len(schedules) + 1
    BY DEF Turn, Number
  <1>8. Typed'
    BY <1>1, <1>2, <1>3, <1>4 DEF IInv, Typed
  <1>9. Progress'
    <2>1. Worked' /\ phase' = "loop"
      BY <1>1 DEF Worked
    <2>2. ~Invalid' /\ Len(schedules') <= Dto'.tenor
      BY <1>2, <1>4, <1>5, <1>6, <1>7
    <2> QED
      BY <2>1, <2>2 DEF Progress
  <1>10. PartsAddUp'
    <2>1. PartsAddUp
      BY DEF IInv
    <2> SUFFICES ASSUME NEW i \in 1..(Len(schedules) + 1)
                 PROVE  schedules'[i].total = schedules'[i].principal + schedules'[i].interest + schedules'[i].charge
      BY <1>4 DEF PartsAddUp
    <2>2. CASE i = Len(schedules) + 1
      BY <1>3, <1>4, <2>2
    <2>3. CASE i # Len(schedules) + 1
      <3>1. i \in 1..Len(schedules)
        BY <1>4, <2>3
      <3> QED
        BY <1>4, <2>1, <3>1 DEF PartsAddUp
    <2> QED
      BY <2>2, <2>3
  <1>11. Charges' = e.charge + Charges /\ Totals' = e.total + Totals /\ Shares' = e.principal + Shares
    BY <1>2, TurnAdds
  <1>12. Charges \in Int /\ Totals \in Int /\ Shares \in Int
    BY <1>2, SumsAreInt
  <1>13. SumsKept'
    <2>1. Totals = repaid + totalInterest + Charges /\ Shares = repaid
      BY DEF IInv, SumsKept
    <2>2. Totals' = repaid' + totalInterest' + Charges'
      <3>1. /\ e.principal \in Int /\ e.interest \in Int /\ e.charge \in Int
            /\ repaid \in Int /\ totalInterest \in Int /\ Charges \in Int
        BY <1>2, <1>3, <1>12
      <3>2. /\ Totals' = (e.principal + e.interest + e.charge) + (repaid + totalInterest + Charges)
            /\ repaid' = repaid + e.principal /\ totalInterest' = totalInterest + e.interest
            /\ Charges' = e.charge + Charges
        BY <1>1, <1>3, <1>11, <2>1
      <3> QED
        BY <3>1, <3>2
    <2>3. Shares' = repaid'
      BY <1>1, <1>2, <1>3, <1>11, <1>12, <2>1
    <2> QED
      BY <2>2, <2>3 DEF SumsKept
  <1>14. TurnsKept'
    <2> SUFFICES ASSUME Regular
                 PROVE  InTurn' /\ Charges' = EmiCharge * Active(Len(schedules) + 1)
      BY <1>4, <1>5 DEF TurnsKept
    <2>1. InTurn /\ Charges = EmiCharge * Active(Len(schedules))
      BY <1>1 DEF IInv, TurnsKept, Worked
    <2>2. IF Number <= Dto.period THEN e.charge = 0 /\ e.principal = 0 ELSE e.charge = EmiCharge
      BY DEF TurnShare
    <2>3. InTurn'
      <3> SUFFICES ASSUME NEW i \in 1..(Len(schedules) + 1)
                   PROVE  IF i <= Dto.period THEN schedules'[i].charge = 0 /\ schedules'[i].principal = 0
                          ELSE schedules'[i].charge = EmiCharge
        BY <1>4, <1>5 DEF InTurn
      <3>1. CASE i = Len(schedules) + 1
        BY <1>4, <1>7, <2>2, <3>1
      <3>2. CASE i # Len(schedules) + 1
        <4>1. i \in 1..Len(schedules)
          BY <1>4, <3>2
        <4> QED
          BY <1>4, <2>1, <4>1 DEF InTurn
      <3> QED
        BY <3>1, <3>2
    <2>4. EmiCharge \in Nat
      BY <1>2, ChargeIs
    <2>5. CASE Number <= Dto.period
      BY <1>4, <1>6, <1>7, <1>11, <1>12, <2>1, <2>2, <2>3, <2>5 DEF Active
    <2>6. CASE ~(Number <= Dto.period)
      <3>1. Active(Len(schedules)) \in Nat /\ Active(Len(schedules) + 1) = Active(Len(schedules)) + 1
        BY <1>4, <1>6, <1>7, <2>6 DEF Active
      <3>2. \A x \in Nat : EmiCharge * (x + 1) = EmiCharge * x + EmiCharge /\ EmiCharge * x \in Int
        BY <2>4
      <3>3. EmiCharge * Active(Len(schedules) + 1) = EmiCharge * Active(Len(schedules)) + EmiCharge
        BY <3>1, <3>2
      <3>4. Charges' = EmiCharge + Charges
        BY <1>11, <2>2, <2>6
      <3> QED
        BY <1>12, <2>1, <2>3, <2>4, <3>3, <3>4
    <2> QED
      BY <2>5, <2>6
  <1>15. Charged'
    <2>1. \A i \in 1..Len(schedules) : schedules[i].charge \in {0, EmiCharge}
      BY <1>1, <1>4 DEF IInv, Charged, Worked
    <2>2. e.charge \in {0, EmiCharge}
      BY DEF TurnParts
    <2> SUFFICES ASSUME NEW i \in 1..(Len(schedules) + 1)
                 PROVE  schedules'[i].charge \in {0, EmiCharge}
      BY <1>4, <1>5 DEF Charged
    <2>3. CASE i = Len(schedules) + 1
      BY <1>4, <2>2, <2>3
    <2>4. CASE i # Len(schedules) + 1
      <3>1. i \in 1..Len(schedules)
        BY <1>4, <2>4
      <3> QED
        BY <1>4, <2>1, <3>1
    <2> QED
      BY <2>3, <2>4
  <1>16. LeftKept'
    <2>1. balance + repaid >= Dto.principal
      BY <1>1 DEF IInv, LeftKept, Worked
    <2>2. balance' + repaid' >= Dto'.principal
      <3>1. e.left \in Int /\ e.principal \in Int /\ balance \in Int /\ repaid \in Int /\ Dto.principal \in Int
        BY <1>2, <1>3, <1>6
      <3>2. e.left >= balance - e.principal
        BY <1>3
      <3>3. e.left + (repaid + e.principal) >= Dto.principal
        BY <2>1, <3>1, <3>2
      <3> QED
        BY <1>1, <1>5, <3>3
    <2>3. ASSUME Len(schedules') = Dto'.tenor
          PROVE  balance' = 0 /\ schedules'[Dto'.tenor].left = 0
      BY <1>1, <1>3, <1>4, <1>5, <1>7, <2>3
    <2> QED
      BY <2>2, <2>3 DEF LeftKept
  <1> QED
    BY <1>8, <1>9, <1>10, <1>13, <1>14, <1>15, <1>16 DEF IInv

-----------------------------------------------------------------------------
(* The steps around the loop.                                                *)

(* Nothing is added up at the start. *)
LEMMA NothingAdded ==
  ASSUME schedules = <<>>
  PROVE  Charges = 0 /\ Totals = 0 /\ Shares = 0
  <1>1. ASSUME NEW f, DOMAIN f = {} PROVE SumFunction(f) = 0
    BY <1>1, SumEmpty, Zenon DEF SumFunction
  <1>2. DOMAIN schedules = {}
    OBVIOUS
  <1> QED
    BY <1>1, <1>2 DEF Charges, Totals, Shares

(* A calculation that is asked for has added nothing. *)
LEMMA InitKeeps ==
  ASSUME Init
  PROVE  IInv
  <1>1. schedules = <<>> /\ totalInterest = 0 /\ repaid = 0 /\ balance = 0 /\ phase = "asked" /\ ~Worked
    BY DEF Init, Worked
  <1>2. Typed /\ Progress
    BY <1>1 DEF Init, Typed, Progress
  <1>3. PartsAddUp /\ SumsKept
    BY <1>1, NothingAdded DEF PartsAddUp, SumsKept
  <1> QED
    BY <1>1, <1>2, <1>3 DEF IInv, Charged, TurnsKept, LeftKept

(* What a step that leaves the instalments alone does not change. *)
LEMMA SameSums ==
  ASSUME schedules' = schedules
  PROVE  Charges' = Charges /\ Totals' = Totals /\ Shares' = Shares /\ PartsAddUp' = PartsAddUp
  BY DEF Charges, Totals, Shares, PartsAddUp

(* The loop begins with the whole principal. *)
LEMMA BeginKeeps ==
  ASSUME IInv, Begin
  PROVE  IInv'
  <1>1. /\ phase = "asked" /\ phase' = "loop" /\ ~Invalid /\ balance' = Dto.principal
        /\ caller' = caller /\ loan' = loan /\ totalInterest' = totalInterest
        /\ schedules' = schedules /\ stored' = stored /\ repaid' = repaid
    BY DEF Begin
  <1>2. schedules = <<>> /\ totalInterest = 0 /\ repaid = 0
    BY <1>1 DEF IInv, Progress, Worked
  <1>3. caller \in Caller /\ loan \in Terms
    BY AmortizationAssumption DEF IInv, Typed
  <1>4. Dto.tenor \in Nat \ {0} /\ Dto.period \in Nat /\ Dto.principal \in Nat
    BY <1>1, <1>3, TenorIs
  <1>5. Dto' = Dto /\ Invalid' = Invalid /\ EmiCharge' = EmiCharge /\ \A k : Active(k)' = Active(k)
    BY <1>1, SameTerms
  <1>6. Charges' = 0 /\ Totals' = 0 /\ Shares' = 0 /\ PartsAddUp'
    BY <1>1, <1>2, SameSums, NothingAdded DEF PartsAddUp
  <1>7. Typed'
    BY <1>1, <1>4 DEF IInv, Typed
  <1>8. Progress'
    BY <1>1, <1>2, <1>4, <1>5 DEF Progress, Worked
  <1>9. SumsKept'
    BY <1>1, <1>2, <1>6 DEF SumsKept
  <1>10. TurnsKept'
    <2>1. Active(0) = 0 /\ EmiCharge \in Nat
      BY <1>1, <1>3, <1>4, ChargeIs DEF Active
    <2>2. InTurn' /\ Len(schedules') = 0
      BY <1>1, <1>2 DEF InTurn
    <2> QED
      BY <1>5, <1>6, <2>1, <2>2 DEF TurnsKept
  <1>11. LeftKept'
    BY <1>1, <1>2, <1>4, <1>5 DEF LeftKept
  <1>12. Charged'
    BY <1>1, <1>2 DEF Charged
  <1> QED
    BY <1>6, <1>7, <1>8, <1>9, <1>10, <1>11, <1>12 DEF IInv

(* The other steps leave the instalments alone. *)
LEMMA QuietKeeps ==
  ASSUME IInv, Refuse \/ Return \/ Store \/ UNCHANGED vars
  PROVE  IInv'
  <1>1. /\ caller' = caller /\ loan' = loan /\ balance' = balance /\ totalInterest' = totalInterest
        /\ schedules' = schedules /\ repaid' = repaid
    BY DEF Refuse, Return, Store, vars
  <1>2. /\ Worked' = Worked
        /\ phase' \in {"asked", "loop", "returned", "stored", "refused"}
    BY DEF Refuse, Return, Store, vars, Worked, IInv, Typed
  <1>3. /\ Dto' = Dto /\ Invalid' = Invalid /\ Regular' = Regular /\ EmiCharge' = EmiCharge
        /\ \A k : Active(k)' = Active(k)
    BY <1>1, SameTerms
  <1>4. Charges' = Charges /\ Totals' = Totals /\ Shares' = Shares /\ PartsAddUp' = PartsAddUp
    BY <1>1, SameSums
  <1>5. Typed'
    BY <1>1, <1>2 DEF IInv, Typed
  <1>6. Progress'
    <2>1. /\ ~Worked' => schedules' = <<>> /\ totalInterest' = 0 /\ repaid' = 0
          /\ Worked' => ~Invalid' /\ Len(schedules') <= Dto'.tenor
      BY <1>1, <1>2, <1>3 DEF IInv, Progress
    <2>2. phase' \in {"returned", "stored"} => Len(schedules') = Dto'.tenor
      <3>1. CASE Return
        <4>1. Worked /\ Len(schedules) + 1 > Dto.tenor
          BY <3>1 DEF Return, Worked, Number
        <4>2. Len(schedules) <= Dto.tenor /\ Len(schedules) \in Nat /\ Dto.tenor \in Nat
          BY <4>1, TenorIs, AmortizationAssumption DEF IInv, Progress, Typed
        <4> QED
          BY <1>1, <1>3, <4>1, <4>2
      <3>2. CASE Refuse
        BY <3>2 DEF Refuse
      <3>3. CASE Store \/ UNCHANGED vars
        BY <1>1, <1>3, <3>3 DEF Store, vars, IInv, Progress
      <3> QED
        BY <3>1, <3>2, <3>3
    <2>3. phase' = "stored" => /\ stored' = [i \in DOMAIN schedules' |-> ScheduleRow(schedules'[i])]
                               /\ caller' = "disburse"
      <3>1. CASE Return \/ Refuse
        BY <3>1 DEF Return, Refuse
      <3>2. CASE Store
        BY <1>1, <3>2 DEF Store
      <3>3. CASE UNCHANGED vars
        BY <1>1, <3>3 DEF vars, IInv, Progress
      <3> QED
        BY <3>1, <3>2, <3>3
    <2> QED
      BY <2>1, <2>2, <2>3 DEF Progress
  <1>7. PartsAddUp' /\ SumsKept'
    BY <1>1, <1>4 DEF IInv, SumsKept
  <1>8. TurnsKept'
    <2>1. InTurn' = InTurn
      BY <1>1, <1>3 DEF InTurn
    <2> QED
      BY <1>1, <1>2, <1>3, <1>4, <2>1 DEF IInv, TurnsKept
  <1>9. LeftKept'
    BY <1>1, <1>2, <1>3 DEF IInv, LeftKept
  <1>10. Charged'
    BY <1>1, <1>2, <1>3 DEF IInv, Charged
  <1> QED
    BY <1>5, <1>6, <1>7, <1>8, <1>9, <1>10 DEF IInv

(* A step is a turn of the loop, its begin or a step that leaves the instalments alone. *)
LEMMA StepIs ==
  ASSUME IInv, [Next]_vars
  PROVE  \/ Begin
         \/ Refuse \/ Return \/ Store \/ UNCHANGED vars
         \/ \E e \in Row : Turn(e) /\ TurnParts(e) /\ TurnShare(e) /\ TurnPrincipal(e) /\ TurnTotal(e)
  BY GraceIsTurn, InstalmentIsTurn, LastIsTurn DEF Next

(* The invariant holds throughout. *)
THEOREM Invariance == Spec => []IInv
  <1>1. Init => IInv
    BY InitKeeps
  <1>2. IInv /\ [Next]_vars => IInv'
    BY StepIs, BeginKeeps, QuietKeeps, TurnKeeps
  <1> QED
    BY <1>1, <1>2, PTL DEF Spec

-----------------------------------------------------------------------------
(* The instalments and their sums.                                           *)

(* Every instalment is the sum of its parts, the totals come to principal, interest and charges, and
   the charges by instalment come to the charge but for half of the last decimal in each
   (calculateLoanRepayment), for all terms and any resolution of the calculator. *)
THEOREM InstalmentsAreSums == Spec => []InstalmentsAddUp
  <1>1. ASSUME IInv PROVE InstalmentsAddUp
    <2>1. \A i \in DOMAIN schedules :
            LET e == schedules[i] IN e.total = e.principal + e.interest + e.charge
      BY <1>1 DEF IInv, PartsAddUp
    <2>2. Totals = repaid + totalInterest + Charges
      BY <1>1 DEF IInv, SumsKept
    <2>3. ASSUME phase = "returned", Regular, Dto.chargeTime = "installment"
          PROVE  2 * Distance(Charges, ChargeAmount) <= ActiveTenor
      <3>1. Worked
        BY <2>3 DEF Worked
      <3>2. /\ caller \in Caller /\ loan \in Terms /\ ~Invalid
            /\ Len(schedules) = Dto.tenor /\ Charges = EmiCharge * Active(Len(schedules))
        BY <1>1, <2>3, <3>1, AmortizationAssumption DEF IInv, Typed, Progress, TurnsKept
      <3>3. /\ Dto.tenor \in Nat /\ Dto.period \in Nat /\ Dto.period < Dto.tenor
            /\ ActiveTenor = Dto.tenor - Dto.period /\ ActiveTenor \in Nat \ {0}
            /\ ChargeAmount \in Nat /\ EmiCharge \in Nat
        BY <3>2, TenorIs, ChargeIs
      <3>4. Charges = EmiCharge * ActiveTenor
        BY <3>2, <3>3 DEF Active
      <3>5. EmiCharge = HalfEven(ChargeAmount, ActiveTenor)
        BY <2>3 DEF EmiCharge
      <3>6. /\ ActiveTenor * EmiCharge \in Int
            /\ 2 * (ActiveTenor * EmiCharge - ChargeAmount) <= ActiveTenor
            /\ 2 * (ChargeAmount - ActiveTenor * EmiCharge) <= ActiveTenor
        BY <3>3, <3>5, HalfEvenIs
      <3>7. Charges = ActiveTenor * EmiCharge
        BY <3>3, <3>4
      <3> QED
        BY <3>3, <3>6, <3>7 DEF Distance
    <2> QED
      BY <2>1, <2>2, <2>3 DEF InstalmentsAddUp
  <1> QED
    BY <1>1, Invariance, PTL

(* What a calculation that has returned owes the principal, whatever the terms. *)
NothingLeft ==
  phase \in {"returned", "stored"} =>
    balance = 0 /\ schedules[Len(schedules)].left = 0 /\ repaid >= Dto.principal

(* No calculation returns with principal left over, or with instalments that repay less than the
   principal, for all terms, with any rounding of the annuity (the last instalment of
   calculateLoanRepayment takes the balance). *)
THEOREM NothingIsLeft == Spec => []NothingLeft
  <1>1. ASSUME IInv PROVE NothingLeft
    <2> SUFFICES ASSUME phase \in {"returned", "stored"}
                 PROVE  balance = 0 /\ schedules[Len(schedules)].left = 0 /\ repaid >= Dto.principal
      BY DEF NothingLeft
    <2>1. Worked /\ Len(schedules) = Dto.tenor
      BY <1>1 DEF Worked, IInv, Progress
    <2>2. balance = 0 /\ schedules[Dto.tenor].left = 0 /\ balance + repaid >= Dto.principal /\ repaid \in Int
      BY <1>1, <2>1 DEF IInv, LeftKept, Typed
    <2> QED
      BY <2>1, <2>2
  <1> QED
    BY <1>1, Invariance, PTL

-----------------------------------------------------------------------------
(* The principal is repaid once.                                             *)

(* All shares but the last fit into the principal, as large as they may have been rounded. *)
LEMMA SharesFit ==
  ASSUME caller \in Caller, loan \in Terms, ~Invalid, EqualShares, Enough, NEW k \in Nat, k <= ActiveTenor - 1
  PROVE  k * PrincipalShare \in Nat /\ k * PrincipalShare <= Dto.principal
  <1>1. Dto.principal \in Nat /\ ActiveTenor \in Nat \ {0} /\ PrincipalShare \in Nat
    BY TenorIs, EmiIs
  <1>2. PICK p \in Nat : p = Dto.principal
    BY <1>1
  <1>3. PICK n \in Nat \ {0} : n = ActiveTenor
    BY <1>1
  <1>4. PICK s \in Nat : s = PrincipalShare
    BY <1>1
  <1>5. s = HalfEven(p, n)
    BY <1>2, <1>3, <1>4 DEF PrincipalShare
  <1>6. n * s \in Int /\ 2 * (n * s - p) <= n
    BY <1>5, HalfEvenIs
  <1>7. n * (n - 1) <= 2 * p /\ n - 1 \in Nat
    BY <1>2, <1>3 DEF Enough
  <1>8. (n - 1) * s <= p
    <2>1. (n - 1) * (2 * (n * s)) <= (n - 1) * (2 * p + n)
      BY <1>6, <1>7, TimesKeepsOrder
    <2>2. (n - 1) * (2 * (n * s)) = n * (2 * ((n - 1) * s))
      OBVIOUS
    <2>3. (n - 1) * (2 * p + n) = n * (2 * p) - 2 * p + n * (n - 1)
      OBVIOUS
    <2>4. n * (2 * ((n - 1) * s)) <= n * (2 * p)
      <3>1. n * (2 * p) \in Int /\ n * (n - 1) \in Int
        OBVIOUS
      <3> QED
        BY <1>7, <2>1, <2>2, <2>3, <3>1
    <2>5. 2 * ((n - 1) * s) \in Int /\ 2 * p \in Int /\ (n - 1) * s \in Int
      BY <1>7
    <2>6. 2 * ((n - 1) * s) <= 2 * p
      BY <2>4, <2>5, LeaveOutFactor
    <2> QED
      BY <2>5, <2>6
  <1>9. k * s <= (n - 1) * s
    <2>1. s * k <= s * (n - 1)
      BY <1>3, <1>7, TimesKeepsOrder
    <2> QED
      BY <2>1
  <1>10. k * s \in Nat /\ (n - 1) * s \in Int
    BY <1>7
  <1> QED
    BY <1>2, <1>4, <1>8, <1>9, <1>10

(* What the annuity is worked out from, for a loan that is repaid by one. *)
LEMMA AnnuityIs ==
  ASSUME caller \in Caller, loan \in Terms, ~Invalid, ~EqualShares
  PROVE  /\ PeriodicRate \in Nat \ {0} /\ Emi \in Nat /\ Emi = Annuity
         /\ RatePow \in Nat /\ RatePow - Scale \in Nat \ {0}
         /\ Scale \in Nat \ {0} /\ Dto.principal \in Nat /\ ActiveTenor - 1 \in Nat
  <1>1. Dto.rateType # "flat" /\ PeriodicRate # 0
    BY DEF EqualShares
  <1>2. PeriodicRate \in Nat /\ Emi \in Nat /\ Dto.principal \in Nat /\ ActiveTenor \in Nat \ {0}
    BY RateIs, EmiIs, TenorIs
  <1>3. Emi = Annuity
    BY <1>1 DEF Emi
  <1>4. RatePow \in Nat /\ RatePow - Scale \in Nat \ {0}
    BY <1>1, RatePowIs
  <1> QED
    BY <1>1, <1>2, <1>3, <1>4, AmortizationAssumption

(* The annuity is ahead when nothing is repaid yet. *)
LEMMA AheadAtFirst ==
  ASSUME caller \in Caller, loan \in Terms, ~Invalid, ~EqualShares, Enough
  PROVE  Ahead(0, Dto.principal)
  <1>1. PICK S \in Nat \ {0} : S = Scale
    BY AnnuityIs
  <1>2. PICK r \in Nat \ {0} : r = PeriodicRate
    BY AnnuityIs
  <1>3. PICK W \in Nat : W = RatePow /\ W - S \in Nat \ {0}
    BY <1>1, AnnuityIs
  <1>4. PICK P \in Nat : P = Dto.principal
    BY AnnuityIs
  <1>5. PICK E \in Nat : E = Emi
    BY AnnuityIs
  <1>6. PICK n \in Nat : n = ActiveTenor - 1 /\ ActiveTenor = n + 1 /\ ActiveTenor - 1 - 0 = n
    BY TenorIs
  <1>7. PICK p \in Nat : p = Power(S + r, n) /\ Power(S + r, n + 1) = (S + r) * p
    <2>1. S + r \in Nat \ {0} /\ S + r \in Int
      OBVIOUS
    <2>2. Power(S + r, n) \in Nat \ {0}
      BY <2>1, PowerPositive
    <2>3. Power(S + r, n + 1) = (S + r) * Power(S + r, n)
      BY <2>1, PowerIs
    <2> QED
      BY <2>2, <2>3
  <1>8. PICK q \in Nat \ {0} : q = Power(S, n)
    BY PowerPositive
  <1>9. W = HalfEven((S + r) * p, q)
    BY <1>1, <1>2, <1>3, <1>6, <1>7, <1>8 DEF RatePow
  <1>10. PICK N \in Nat : N = HalfEven(P * r * W, S * S)
    <2>1. \A a, b \in Nat : a * b \in Nat
      OBVIOUS
    <2>2. \A a, b \in Nat \ {0} : a * b \in Nat \ {0}
      OBVIOUS
    <2>3. P * r * W \in Nat /\ S * S \in Nat \ {0}
      BY <2>1, <2>2
    <2> QED
      BY <2>3, HalfEvenNat
  <1>11. E = HalfEven(N * S, W - S)
    <2>1. Emi = Annuity
      BY AnnuityIs
    <2> QED
      BY <1>1, <1>2, <1>3, <1>4, <1>5, <1>10, <2>1 DEF Annuity, Divide
  <1>12. 2 * W <= r * E
    BY <1>2, <1>3, <1>5 DEF Enough
  <1>13. p * (2 * (S * E - r * P) + S) <= q * (2 * (S * E) + S)
    BY <1>3, <1>9, <1>10, <1>11, <1>12, StartsAhead
  <1> QED
    BY <1>1, <1>2, <1>4, <1>5, <1>6, <1>7, <1>8, <1>13 DEF Ahead

(* It stays ahead over an instalment that is not the last, which therefore takes no more than is left. *)
LEMMA AheadOfTurn ==
  ASSUME caller \in Caller, loan \in Terms, ~Invalid, ~EqualShares,
         NEW k \in Nat, k + 1 <= ActiveTenor - 1, NEW b \in Nat, Ahead(k, b),
         NEW c \in Int, c = b - (Emi - Multiply(b, PeriodicRate))
  PROVE  c >= 0 /\ Ahead(k + 1, c)
  <1>1. PICK S \in Nat \ {0} : S = Scale
    BY AnnuityIs
  <1>2. PICK r \in Nat \ {0} : r = PeriodicRate
    BY AnnuityIs
  <1>3. PICK E \in Nat : E = Emi
    BY AnnuityIs
  <1>4. PICK m \in Nat : m = ActiveTenor - 1 - (k + 1) /\ ActiveTenor - 1 - k = m + 1
    <2>1. ActiveTenor \in Nat
      BY TenorIs
    <2>2. ActiveTenor - 1 - (k + 1) \in Nat /\ ActiveTenor - 1 - k = (ActiveTenor - 1 - (k + 1)) + 1
      BY <2>1
    <2> QED
      BY <2>2
  <1>5. PICK p \in Nat \ {0} : p = Power(S + r, m) /\ Power(S + r, m + 1) = (S + r) * p
    <2>1. S + r \in Nat \ {0} /\ S + r \in Int
      OBVIOUS
    <2>2. Power(S + r, m) \in Nat \ {0}
      BY <2>1, PowerPositive
    <2>3. Power(S + r, m + 1) = (S + r) * Power(S + r, m)
      BY <2>1, PowerIs
    <2> QED
      BY <2>2, <2>3
  <1>6. PICK q \in Nat \ {0} : q = Power(S, m) /\ Power(S, m + 1) = S * q
    <2>1. Power(S, m) \in Nat \ {0}
      BY PowerPositive
    <2>2. Power(S, m + 1) = S * Power(S, m)
      BY PowerIs
    <2> QED
      BY <2>1, <2>2
  <1>7. q <= p
    <2>1. S + r \in Nat \ {0} /\ S <= S + r
      OBVIOUS
    <2> QED
      BY <1>5, <1>6, <2>1, PowerGrows
  <1>8. PICK I \in Int : I = HalfEven(b * r, S)
    <2>1. b * r \in Int
      OBVIOUS
    <2> QED
      BY <2>1, HalfEvenIs
  <1>9. c = b - (E - I)
    BY <1>1, <1>2, <1>3, <1>8 DEF Multiply
  <1>10. ((S + r) * p) * (2 * (S * E - r * b) + S) <= (S * q) * (2 * (S * E) + S)
    BY <1>1, <1>2, <1>3, <1>4, <1>5, <1>6 DEF Ahead
  <1>11. p * (2 * (S * E - r * c) + S) <= q * (2 * (S * E) + S)
    BY <1>8, <1>9, <1>10, StaysAhead
  <1>12. c >= 0
    BY <1>7, <1>11, AheadLeaves
  <1>13. Ahead(k + 1, c)
    BY <1>1, <1>2, <1>3, <1>4, <1>5, <1>6, <1>11 DEF Ahead
  <1> QED
    BY <1>12, <1>13

(* One instalment more, of a loan that has repaid what it should, repays what it should. *)
LEMMA OneMore ==
  ASSUME caller \in Caller, loan \in Terms, ~Invalid, Enough,
         NEW k \in Nat, k + 1 <= ActiveTenor - 1, NEW b \in Nat, NEW paid \in Int, Kept(k, b, paid),
         NEW p \in Int, NEW c, c = IF b < p THEN 0 ELSE b - p,
         p = IF EqualShares THEN PrincipalShare ELSE Emi - Multiply(b, PeriodicRate)
  PROVE  Kept(k + 1, c, paid + p)
  <1>1. Dto.principal \in Nat /\ PrincipalShare \in Nat /\ Emi \in Nat /\ PeriodicRate \in Nat
    BY TenorIs, EmiIs, RateIs
  <1>2. b = Dto.principal - paid
    BY DEF Kept
  <1>3. CASE EqualShares
    <2>1. paid = k * PrincipalShare /\ p = PrincipalShare
      BY <1>3 DEF Kept
    <2>2. (k + 1) * PrincipalShare \in Nat /\ (k + 1) * PrincipalShare <= Dto.principal
      BY <1>3, SharesFit
    <2>3. (k + 1) * PrincipalShare = k * PrincipalShare + PrincipalShare /\ k * PrincipalShare \in Int
      BY <1>1
    <2>4. paid + p = (k + 1) * PrincipalShare
      BY <2>1, <2>3
    <2>5. c = b - p
      BY <1>1, <1>2, <2>1, <2>2, <2>4
    <2>6. c = Dto.principal - (paid + p)
      BY <1>1, <1>2, <2>5
    <2> QED
      BY <1>3, <2>4, <2>6 DEF Kept
  <1>4. CASE ~EqualShares
    <2>1. Ahead(k, b) /\ p = Emi - Multiply(b, PeriodicRate)
      BY <1>4 DEF Kept
    <2>2. b - p \in Int /\ b - p = b - (Emi - Multiply(b, PeriodicRate))
      BY <2>1
    <2>3. b - p >= 0 /\ Ahead(k + 1, b - p)
      BY <1>4, <2>1, <2>2, AheadOfTurn
    <2>4. c = b - p
      BY <2>3
    <2>5. c = Dto.principal - (paid + p)
      BY <1>1, <1>2, <2>4
    <2>6. Ahead(k + 1, c)
      BY <2>3, <2>4, Zenon
    <2> QED
      BY <1>4, <2>5, <2>6 DEF Kept
  <1> QED
    BY <1>3, <1>4

(* The terms stay, and with them what should be repaid. *)
LEMMA SameKept ==
  ASSUME caller' = caller, loan' = loan
  PROVE  \A k, b, paid : Kept(k, b, paid)' = Kept(k, b, paid)
  BY SameTerms DEF Kept

(* A turn of the loop repays no more than is left, and the last one the rest. *)
LEMMA TurnKeepsExact ==
  ASSUME IInv, Exact, NEW e \in Row, Turn(e), TurnParts(e), TurnShare(e), TurnPrincipal(e)
  PROVE  Exact'
  <1>1. /\ caller' = caller /\ loan' = loan /\ Worked
        /\ balance' = e.left /\ repaid' = repaid + e.principal
    BY DEF Turn, Worked
  <1>2. /\ caller \in Caller /\ loan \in Terms /\ ~Invalid /\ balance \in Nat /\ repaid \in Int
        /\ schedules \in Seq(Row)
    BY <1>1, AmortizationAssumption DEF IInv, Typed, Progress
  <1>3. Len(schedules') = Len(schedules) + 1 /\ Len(schedules) \in Nat
    BY <1>2, AppendIs DEF Turn
  <1>4. /\ Dto' = Dto /\ Regular' = Regular /\ Enough' = Enough
        /\ \A k : Active(k)' = Active(k)
        /\ \A k, b, paid : Kept(k, b, paid)' = Kept(k, b, paid)
    BY <1>1, SameTerms, SameKept
  <1>5. /\ Dto.tenor \in Nat \ {0} /\ Dto.period \in Nat /\ Dto.principal \in Nat /\ Dto.period < Dto.tenor
        /\ ActiveTenor = Dto.tenor - Dto.period
    BY <1>2, TenorIs
  <1>6. Len(schedules) < Dto.tenor /\ Number = Len(schedules) + 1
    BY DEF Turn, Number
  <1> SUFFICES ASSUME Regular, Enough
               PROVE  IF Len(schedules') = Dto.tenor THEN repaid' = Dto.principal
                      ELSE Kept(Active(Len(schedules')), balance', repaid')
    BY <1>4 DEF Exact
  <1> DEFINE a == Active(Len(schedules))
  <1>7. Kept(a, balance, repaid)
    BY <1>1, <1>2, <1>3, <1>6 DEF Exact
  <1>8. e.principal \in Int /\ balance = Dto.principal - repaid
    BY <1>7 DEF Kept, Row
  <1>9. CASE Number = Dto.tenor
    <2>1. e.principal = balance
      BY <1>9 DEF TurnParts
    <2>2. repaid' = Dto.principal
      BY <1>1, <1>2, <1>5, <1>8, <2>1
    <2> QED
      BY <1>3, <1>6, <1>9, <2>2
  <1>10. CASE Number <= Dto.period
    <2>1. e.principal = 0 /\ e.left = balance
      BY <1>10 DEF TurnShare
    <2>2. Active(Len(schedules')) = a /\ Len(schedules') # Dto.tenor
      BY <1>3, <1>5, <1>6, <1>10 DEF Active
    <2>3. balance' = balance /\ repaid' = repaid
      BY <1>1, <1>2, <2>1
    <2> HIDE DEF a
    <2>4. Kept(Active(Len(schedules')), balance', repaid')
      BY <1>7, <2>2, <2>3, Zenon
    <2> QED
      BY <2>2, <2>4
  <1>11. CASE Dto.period < Number /\ Number < Dto.tenor
    <2>1. /\ e.left = LeftAfter(e.principal)
          /\ e.principal = IF EqualShares THEN PrincipalShare ELSE Emi - Multiply(balance, PeriodicRate)
      BY <1>11 DEF TurnPrincipal
    <2>2. Active(Len(schedules')) = a + 1 /\ a \in Nat /\ a + 1 <= ActiveTenor - 1 /\ Len(schedules') # Dto.tenor
      BY <1>3, <1>5, <1>6, <1>11 DEF Active
    <2>3. e.left = IF balance < e.principal THEN 0 ELSE balance - e.principal
      BY <2>1 DEF LeftAfter
    <2> HIDE DEF a
    <2>4. Kept(a + 1, e.left, repaid + e.principal)
      BY <1>2, <1>7, <1>8, <2>1, <2>2, <2>3, OneMore
    <2>5. Kept(Active(Len(schedules')), balance', repaid')
      BY <1>1, <2>2, <2>4, Zenon
    <2> QED
      BY <2>2, <2>5
  <1>12. Number <= Dto.period \/ Number = Dto.tenor \/ (Dto.period < Number /\ Number < Dto.tenor)
    BY <1>3, <1>5, <1>6
  <1> QED
    BY <1>9, <1>10, <1>11, <1>12

(* The loop begins with nothing repaid. *)
LEMMA BeginKeepsExact ==
  ASSUME IInv, Begin
  PROVE  Exact'
  <1>1. /\ phase = "asked" /\ ~Invalid /\ balance' = Dto.principal /\ caller' = caller /\ loan' = loan
        /\ schedules' = schedules /\ repaid' = repaid
    BY DEF Begin
  <1>2. schedules = <<>> /\ repaid = 0 /\ caller \in Caller /\ loan \in Terms
    BY <1>1, AmortizationAssumption DEF IInv, Typed, Progress, Worked
  <1>3. Dto.tenor \in Nat \ {0} /\ Dto.period \in Nat /\ Dto.principal \in Nat /\ PrincipalShare \in Nat
    BY <1>1, <1>2, TenorIs, EmiIs
  <1>4. /\ Dto' = Dto /\ Enough' = Enough /\ \A k : Active(k)' = Active(k)
        /\ \A k, b, paid : Kept(k, b, paid)' = Kept(k, b, paid)
    BY <1>1, SameTerms, SameKept
  <1>5. Len(schedules') = 0 /\ Active(Len(schedules')) = 0 /\ Len(schedules') # Dto.tenor
    BY <1>1, <1>2, <1>3 DEF Active
  <1>6. ASSUME Enough PROVE Kept(0, Dto.principal, 0)
    <2>1. Dto.principal = Dto.principal - 0 /\ 0 * PrincipalShare = 0
      BY <1>3
    <2>2. ~EqualShares => Ahead(0, Dto.principal)
      BY <1>1, <1>2, <1>6, AheadAtFirst
    <2> QED
      BY <2>1, <2>2, Zenon DEF Kept
  <1>7. ASSUME Enough PROVE Kept(Active(Len(schedules')), balance', repaid')
    BY <1>1, <1>2, <1>5, <1>6, <1>7, Zenon
  <1> QED
    BY <1>4, <1>5, <1>7 DEF Exact

(* No step loses what should be repaid. *)
LEMMA StepKeepsExact ==
  ASSUME IInv, Exact, [Next]_vars
  PROVE  Exact'
  <1>1. CASE Refuse \/ Return \/ Store \/ UNCHANGED vars
    <2>1. /\ caller' = caller /\ loan' = loan /\ balance' = balance
          /\ schedules' = schedules /\ repaid' = repaid
      BY <1>1 DEF Refuse, Return, Store, vars
    <2>2. Worked' = Worked
      BY <1>1 DEF Refuse, Return, Store, vars, Worked
    <2>3. /\ Dto' = Dto /\ Regular' = Regular /\ Enough' = Enough
          /\ \A k : Active(k)' = Active(k)
          /\ \A k, b, paid : Kept(k, b, paid)' = Kept(k, b, paid)
      BY <2>1, SameTerms, SameKept
    <2> QED
      BY <2>1, <2>2, <2>3 DEF Exact
  <1> QED
    BY <1>1, BeginKeepsExact, StepIs, TurnKeepsExact

(* The instalments repay the principal exactly once, for all terms whose amounts are large enough for what
   rounding adds to the instalments before the last (calculateLoanRepayment).  Equal shares, n of them,
   need half of n * (n - 1) of the calculator's last decimals; an annuity needs twice the power of the rate
   in its own interest. *)
THEOREM LoansRepaidOnce == Spec => [](Enough => PrincipalRepaidOnce)
  <1>1. Init => Exact
    BY DEF Init, Exact, Worked
  <1>2. IInv /\ Exact /\ [Next]_vars => Exact'
    BY StepKeepsExact
  <1>3. IInv /\ NothingLeft /\ Exact => (Enough => PrincipalRepaidOnce)
    <2> SUFFICES ASSUME IInv, NothingLeft, Exact, Enough, phase \in {"returned", "stored"}, Regular
                 PROVE  repaid = Dto.principal
      BY DEF PrincipalRepaidOnce, NothingLeft
    <2>1. Worked /\ Len(schedules) = Dto.tenor
      BY DEF Worked, IInv, Progress
    <2> QED
      BY <2>1 DEF Exact
  <1> QED
    BY <1>1, <1>2, <1>3, Invariance, NothingIsLeft, PTL DEF Spec

-----------------------------------------------------------------------------
(* The instalments are level.                                                *)

(* How far the annuity is from what its balance calls for, k instalments behind and the others
   to come, blown up to whole numbers. *)
Drift(k, b) ==
  Power(Scale + PeriodicRate, ActiveTenor - k) * (Scale * Emi - PeriodicRate * b)
    - Power(Scale, ActiveTenor - 1 - k) * (Scale * Scale * Emi)

(* The drift leaves room for the rounding of the instalments to come: what an instalment adds to it
   is what the power of the rate loses. *)
Room(k) == Power(Scale, ActiveTenor - 1 - k) * (Scale * (2 * RatePow + Emi + 1))
               - Scale * Power(Scale + PeriodicRate, ActiveTenor - k)
Level(k, b) == 2 * Drift(k, b) <= Room(k) /\ -(2 * Drift(k, b)) <= Room(k)

(* What rounding adds up to at most, d of it, in the last instalment. *)
Near(d) ==
  IF EqualShares THEN 2 * d <= ActiveTenor /\ -(2 * d) <= ActiveTenor
  ELSE 2 * (PeriodicRate * d) <= 2 * RatePow + Emi /\ -(2 * (PeriodicRate * d)) <= 2 * RatePow + Emi

(* The instalments between the grace and the last are the same, the annuity drifts by its rounding,
   and the last instalment is near the others. *)
Steady ==
  Worked /\ Regular /\ Enough =>
    /\ \A i \in DOMAIN schedules :
         Dto.period < i /\ i < Dto.tenor => schedules[i].total = Emi + EmiCharge
    /\ Len(schedules) < Dto.tenor /\ ~EqualShares => Level(Active(Len(schedules)), balance)
    /\ Len(schedules) = Dto.tenor => Near(schedules[Dto.tenor].total - (Emi + EmiCharge))

(* The terms stay, and with them what is level and what is near. *)
LEMMA SameLevel ==
  ASSUME caller' = caller, loan' = loan
  PROVE  /\ Emi' = Emi
         /\ \A k, b : Level(k, b)' = Level(k, b)
         /\ \A d : Near(d)' = Near(d)
  <1>1. Dto' = Dto /\ ActiveTenor' = ActiveTenor /\ PeriodicRate' = PeriodicRate
        /\ PrincipalShare' = PrincipalShare /\ EqualShares' = EqualShares
    BY SameTerms
  <1>2. RatePow' = RatePow
    BY <1>1 DEF RatePow
  <1>3. Emi' = Emi
    BY <1>1, <1>2 DEF Emi, FlatInterest, Annuity
  <1>4. \A k, b : Drift(k, b)' = Drift(k, b)
    BY <1>1, <1>3 DEF Drift
  <1>5. \A k : Room(k)' = Room(k)
    BY <1>1, <1>2, <1>3 DEF Room
  <1>6. \A k, b : Level(k, b)' = Level(k, b)
    BY <1>4, <1>5 DEF Level
  <1>7. \A d : Near(d)' = Near(d)
    BY <1>1, <1>2, <1>3 DEF Near
  <1> QED
    BY <1>3, <1>6, <1>7

(* The powers a loan with m instalments to come before the last is worked out with. *)
LEMMA LevelPowers ==
  ASSUME NEW S \in Nat \ {0}, NEW r \in Nat \ {0}, NEW m \in Nat
  PROVE  /\ Power(S + r, m) \in Nat \ {0} /\ Power(S, m) \in Nat \ {0}
         /\ Power(S + r, m + 1) = (S + r) * Power(S + r, m)
         /\ Power(S, m + 1) = S * Power(S, m)
  <1>1. S + r \in Nat \ {0} /\ S + r \in Int
    OBVIOUS
  <1>2. Power(S + r, m) \in Nat \ {0} /\ Power(S, m) \in Nat \ {0}
    BY <1>1, PowerPositive
  <1>3. Power(S + r, m + 1) = (S + r) * Power(S + r, m)
    BY <1>1, PowerIs
  <1>4. Power(S, m + 1) = S * Power(S, m)
    BY PowerIs
  <1> QED
    BY <1>2, <1>3, <1>4

(* What being level says, in terms of the powers. *)
LEMMA LevelIs ==
  ASSUME NEW k, NEW b \in Nat, NEW S \in Nat \ {0}, S = Scale, NEW r \in Nat \ {0}, r = PeriodicRate,
         NEW E \in Nat, E = Emi, NEW W \in Nat, W = RatePow,
         NEW p \in Nat, p = Power(S + r, ActiveTenor - k), NEW q \in Nat, q = Power(S, ActiveTenor - 1 - k)
  PROVE  Level(k, b) <=>
           /\ 2 * (p * (S * E - r * b) - q * (S * S * E)) + S * p <= q * (S * (2 * W + E + 1))
           /\ 2 * (q * (S * S * E) - p * (S * E - r * b)) + S * p <= q * (S * (2 * W + E + 1))
  <1>1. Drift(k, b) = p * (S * E - r * b) - q * (S * S * E)
    BY DEF Drift
  <1>2. Room(k) = q * (S * (2 * W + E + 1)) - S * p
    BY DEF Room
  <1>3. PICK x \in Int, y \in Int, a \in Int, c \in Int :
          x = p * (S * E - r * b) /\ y = q * (S * S * E) /\ a = S * p /\ c = q * (S * (2 * W + E + 1))
    OBVIOUS
  <1>4. Level(k, b) <=> 2 * (x - y) <= c - a /\ -(2 * (x - y)) <= c - a
    BY <1>1, <1>2, <1>3, Zenon DEF Level
  <1>5. Level(k, b) <=> 2 * (x - y) + a <= c /\ 2 * (y - x) + a <= c
    BY <1>4
  <1> QED
    BY <1>3, <1>5, Zenon

(* The annuity is level when nothing is repaid yet. *)
LEMMA LevelAtFirst ==
  ASSUME caller \in Caller, loan \in Terms, ~Invalid, ~EqualShares
  PROVE  Level(0, Dto.principal)
  <1>1. PICK S \in Nat \ {0} : S = Scale
    BY AnnuityIs
  <1>2. PICK r \in Nat \ {0} : r = PeriodicRate
    BY AnnuityIs
  <1>3. PICK W \in Nat : W = RatePow /\ W - S \in Nat \ {0}
    BY <1>1, AnnuityIs
  <1>4. PICK P \in Nat : P = Dto.principal
    BY AnnuityIs
  <1>5. PICK E \in Nat : E = Emi
    BY AnnuityIs
  <1>6. PICK n \in Nat : n = ActiveTenor - 1 /\ ActiveTenor - 0 = n + 1 /\ ActiveTenor - 1 - 0 = n /\ ActiveTenor = n + 1
    BY TenorIs
  <1>7. PICK p \in Nat : p = Power(S + r, n) /\ Power(S + r, n + 1) = (S + r) * p
    BY LevelPowers
  <1>8. PICK q \in Nat \ {0} : q = Power(S, n)
    BY LevelPowers
  <1>9. W = HalfEven((S + r) * p, q)
    BY <1>1, <1>2, <1>3, <1>6, <1>7, <1>8 DEF RatePow
  <1>10. PICK N \in Nat : N = HalfEven(P * r * W, S * S)
    <2>1. \A a, b \in Nat : a * b \in Nat
      OBVIOUS
    <2>2. \A a, b \in Nat \ {0} : a * b \in Nat \ {0}
      OBVIOUS
    <2>3. P * r * W \in Nat /\ S * S \in Nat \ {0}
      BY <2>1, <2>2
    <2> QED
      BY <2>3, HalfEvenNat
  <1>11. E = HalfEven(N * S, W - S)
    <2>1. Emi = Annuity
      BY AnnuityIs
    <2> QED
      BY <1>1, <1>2, <1>3, <1>4, <1>5, <1>10, <2>1 DEF Annuity, Divide
  <1>12. /\ 2 * (((S + r) * p) * (S * E - r * P) - q * (S * S * E)) + S * ((S + r) * p)
              <= q * (S * (2 * W + E + 1))
         /\ 2 * (q * (S * S * E) - ((S + r) * p) * (S * E - r * P)) + S * ((S + r) * p)
              <= q * (S * (2 * W + E + 1))
    BY <1>3, <1>9, <1>10, <1>11, StartsLevel
  <1>13. PICK u \in Nat : u = (S + r) * p
    <2>1. \A a, b \in Nat : a * b \in Nat
      OBVIOUS
    <2> QED
      BY <2>1
  <1>14. u = Power(S + r, ActiveTenor - 0) /\ q = Power(S, ActiveTenor - 1 - 0)
    BY <1>6, <1>7, <1>8, <1>13, Zenon
  <1>15. /\ 2 * (u * (S * E - r * P) - q * (S * S * E)) + S * u <= q * (S * (2 * W + E + 1))
         /\ 2 * (q * (S * S * E) - u * (S * E - r * P)) + S * u <= q * (S * (2 * W + E + 1))
    BY <1>12, <1>13, Zenon
  <1>16. Level(0, P)
    BY <1>1, <1>2, <1>3, <1>5, <1>14, <1>15, LevelIs
  <1> QED
    BY <1>4, <1>16, Zenon

(* An instalment that is not the last keeps it level. *)
LEMMA LevelOfTurn ==
  ASSUME caller \in Caller, loan \in Terms, ~Invalid, ~EqualShares,
         NEW k \in Nat, k + 1 <= ActiveTenor - 1, NEW b \in Nat, Level(k, b),
         NEW c \in Nat, c = b - (Emi - Multiply(b, PeriodicRate))
  PROVE  Level(k + 1, c)
  <1>1. PICK S \in Nat \ {0} : S = Scale
    BY AnnuityIs
  <1>2. PICK r \in Nat \ {0} : r = PeriodicRate
    BY AnnuityIs
  <1>3. PICK E \in Nat : E = Emi
    BY AnnuityIs
  <1>4. PICK W \in Nat : W = RatePow
    BY AnnuityIs
  <1>5. PICK m \in Nat : /\ m = ActiveTenor - 1 - (k + 1) /\ ActiveTenor - 1 - k = m + 1
                         /\ ActiveTenor - (k + 1) = m + 1 /\ ActiveTenor - k = (m + 1) + 1
    <2>1. ActiveTenor \in Nat
      BY TenorIs
    <2>2. /\ ActiveTenor - 1 - (k + 1) \in Nat /\ ActiveTenor - 1 - k = (ActiveTenor - 1 - (k + 1)) + 1
          /\ ActiveTenor - (k + 1) = (ActiveTenor - 1 - (k + 1)) + 1
          /\ ActiveTenor - k = ((ActiveTenor - 1 - (k + 1)) + 1) + 1
      BY <2>1
    <2> QED
      BY <2>2
  <1>6. PICK p \in Nat : p = Power(S + r, m + 1) /\ Power(S + r, (m + 1) + 1) = (S + r) * p
    <2>1. PICK j \in Nat : j = m + 1
      OBVIOUS
    <2>2. Power(S + r, j) \in Nat \ {0}
      BY LevelPowers
    <2>3. Power(S + r, j + 1) = (S + r) * Power(S + r, j)
      BY LevelPowers
    <2> QED
      BY <2>1, <2>2, <2>3
  <1>7. PICK q \in Nat : q = Power(S, m) /\ Power(S, m + 1) = S * q
    <2>1. Power(S, m) \in Nat \ {0} /\ Power(S, m + 1) = S * Power(S, m)
      BY LevelPowers, Zenon
    <2> QED
      BY <2>1
  <1>8. PICK u \in Nat, v \in Nat : u = (S + r) * p /\ v = S * q
    <2>1. \A x, y \in Nat : x * y \in Nat
      OBVIOUS
    <2>2. (S + r) * p \in Nat /\ S * q \in Nat
      BY <2>1
    <2> QED
      BY <2>2, Zenon
  <1>9. PICK I \in Int : I = HalfEven(b * r, S)
    <2>1. b * r \in Int
      OBVIOUS
    <2> QED
      BY <2>1, HalfEvenIs
  <1>10. c = b - (E - I)
    BY <1>1, <1>2, <1>3, <1>9 DEF Multiply
  <1>11. u = Power(S + r, ActiveTenor - k) /\ v = Power(S, ActiveTenor - 1 - k)
    BY <1>5, <1>6, <1>7, <1>8, Zenon
  <1>12. /\ 2 * (u * (S * E - r * b) - v * (S * S * E)) + S * u <= v * (S * (2 * W + E + 1))
         /\ 2 * (v * (S * S * E) - u * (S * E - r * b)) + S * u <= v * (S * (2 * W + E + 1))
    BY <1>1, <1>2, <1>3, <1>4, <1>11, LevelIs
  <1>13. PICK C \in Int : C = S * (2 * W + E + 1)
    OBVIOUS
  <1>14. /\ 2 * (((S + r) * p) * (S * E - r * b) - (S * q) * (S * S * E)) + S * ((S + r) * p) <= (S * q) * C
         /\ 2 * ((S * q) * (S * S * E) - ((S + r) * p) * (S * E - r * b)) + S * ((S + r) * p) <= (S * q) * C
    BY <1>8, <1>12, <1>13, Zenon
  <1>15. /\ 2 * (p * (S * E - r * c) - q * (S * S * E)) + S * p <= q * C
         /\ 2 * (q * (S * S * E) - p * (S * E - r * c)) + S * p <= q * C
    <2>1. c \in Int /\ r \in Nat
      OBVIOUS
    <2> QED
      BY <1>9, <1>10, <1>14, <2>1, StaysLevel, Zenon
  <1>16. p = Power(S + r, ActiveTenor - (k + 1)) /\ q = Power(S, ActiveTenor - 1 - (k + 1))
    BY <1>5, <1>6, <1>7, Zenon
  <1> QED
    BY <1>1, <1>2, <1>3, <1>4, <1>13, <1>15, <1>16, LevelIs

(* The last instalment is near a level one. *)
LEMMA LastIsNear ==
  ASSUME caller \in Caller, loan \in Terms, ~Invalid, ~EqualShares,
         NEW k \in Nat, k = ActiveTenor - 1, NEW b \in Nat, Level(k, b),
         NEW d \in Int, d = b + Multiply(b, PeriodicRate) - Emi
  PROVE  Near(d)
  <1>1. PICK S \in Nat \ {0} : S = Scale
    BY AnnuityIs
  <1>2. PICK r \in Nat \ {0} : r = PeriodicRate
    BY AnnuityIs
  <1>3. PICK E \in Nat : E = Emi
    BY AnnuityIs
  <1>4. PICK W \in Nat : W = RatePow
    BY AnnuityIs
  <1>5. ActiveTenor - k = 1 /\ ActiveTenor - 1 - k = 0
    BY TenorIs
  <1>6. Power(S, 0) = 1
    BY PowerIs
  <1>7. Power(S + r, 1) = S + r
    <2>1. Power(S + r, 0 + 1) = (S + r) * Power(S + r, 0) /\ Power(S + r, 0) = 1
      <3>1. S + r \in Int
        OBVIOUS
      <3> QED
        BY <3>1, PowerIs
    <2> QED
      BY <2>1
  <1>8. PICK p \in Nat, q \in Nat : p = S + r /\ q = 1
    OBVIOUS
  <1>9. p = Power(S + r, ActiveTenor - k) /\ q = Power(S, ActiveTenor - 1 - k)
    BY <1>5, <1>6, <1>7, <1>8, Zenon
  <1>10. /\ 2 * (p * (S * E - r * b) - q * (S * S * E)) + S * p <= q * (S * (2 * W + E + 1))
         /\ 2 * (q * (S * S * E) - p * (S * E - r * b)) + S * p <= q * (S * (2 * W + E + 1))
    BY <1>1, <1>2, <1>3, <1>4, <1>9, LevelIs
  <1>11. PICK y \in Int, C \in Int : y = S * S * E /\ C = S * (2 * W + E + 1)
    OBVIOUS
  <1>12. q * y = y /\ q * C = C
    BY <1>8
  <1>13. /\ 2 * (p * (S * E - r * b) - y) + S * p <= C
         /\ 2 * (y - p * (S * E - r * b)) + S * p <= C
    BY <1>10, <1>11, <1>12, Zenon
  <1>14. /\ 2 * ((S + r) * (S * E - r * b) - S * S * E) + S * (S + r) <= S * (2 * W + E + 1)
         /\ 2 * (S * S * E - (S + r) * (S * E - r * b)) + S * (S + r) <= S * (2 * W + E + 1)
    BY <1>8, <1>11, <1>13, Zenon
  <1>15. PICK I \in Int : I = HalfEven(b * r, S)
    <2>1. b * r \in Int
      OBVIOUS
    <2> QED
      BY <2>1, HalfEvenIs
  <1>16. d = b + I - E
    BY <1>1, <1>2, <1>3, <1>15 DEF Multiply
  <1>17. 2 * (r * d) <= 2 * W + E /\ -(2 * (r * d)) <= 2 * W + E
    BY <1>14, <1>15, <1>16, EndsLevel
  <1> QED
    BY <1>2, <1>3, <1>4, <1>17, Zenon DEF Near

(* The last of equal shares is near the others. *)
LEMMA LastShareIsNear ==
  ASSUME caller \in Caller, loan \in Terms, ~Invalid, EqualShares,
         NEW b \in Nat, b = Dto.principal - (ActiveTenor - 1) * PrincipalShare
  PROVE  Near(b - PrincipalShare)
  <1>1. PICK P \in Nat, n \in Nat \ {0}, s \in Nat : P = Dto.principal /\ n = ActiveTenor /\ s = PrincipalShare
    BY TenorIs, EmiIs
  <1>2. s = HalfEven(P, n)
    BY <1>1 DEF PrincipalShare
  <1>3. n * s \in Int /\ 2 * (n * s - P) <= n /\ 2 * (P - n * s) <= n
    BY <1>2, HalfEvenIs
  <1>4. b - s = P - n * s
    <2>1. b = P - (n - 1) * s
      BY <1>1
    <2> QED
      BY <1>3, <2>1
  <1>5. 2 * (b - s) <= n /\ -(2 * (b - s)) <= n
    BY <1>3, <1>4
  <1> QED
    BY <1>1, <1>5 DEF Near

(* The interest of an instalment, in equal shares and in an annuity. *)
LEMMA LevelInterest ==
  ASSUME caller \in Caller, loan \in Terms, ~Invalid, balance \in Nat, Interest \in Int,
         PeriodicRate = 0 => Interest = 0 /\ FlatInterest = 0
  PROVE  /\ EqualShares => Emi = PrincipalShare + Interest
         /\ ~EqualShares => Interest = Multiply(balance, PeriodicRate)
  <1>1. PrincipalShare \in Nat /\ FlatInterest \in Nat
    BY EmiIs
  <1>2. CASE Dto.rateType = "flat"
    BY <1>1, <1>2 DEF EqualShares, Emi, Interest
  <1>3. CASE Dto.rateType # "flat"
    BY <1>1, <1>3 DEF EqualShares, Emi, Interest
  <1> QED
    BY <1>2, <1>3

(* A turn keeps the instalments level. *)
LEMMA TurnKeepsSteady ==
  ASSUME IInv, Exact, Steady, Exact',
         NEW e \in Row, Turn(e), TurnParts(e), TurnShare(e), TurnPrincipal(e), TurnTotal(e)
  PROVE  Steady'
  <1>1. /\ caller' = caller /\ loan' = loan /\ Worked /\ Worked'
        /\ balance' = e.left /\ repaid' = repaid + e.principal
    BY DEF Turn, Worked
  <1>2. /\ caller \in Caller /\ loan \in Terms /\ ~Invalid /\ balance \in Nat /\ repaid \in Int
        /\ schedules \in Seq(Row)
    BY <1>1, AmortizationAssumption DEF IInv, Typed, Progress
  <1> DEFINE n == Len(schedules)
  <1>3. /\ n \in Nat /\ Len(schedules') = n + 1 /\ DOMAIN schedules = 1..n /\ DOMAIN schedules' = 1..(n + 1)
        /\ schedules'[n + 1] = e /\ \A i \in 1..n : schedules'[i] = schedules[i]
    BY <1>2, AppendIs DEF Turn
  <1>4. /\ Dto' = Dto /\ Regular' = Regular /\ Enough' = Enough /\ EmiCharge' = EmiCharge
        /\ EqualShares' = EqualShares /\ Emi' = Emi
        /\ \A k : Active(k)' = Active(k)
        /\ \A k, b, paid : Kept(k, b, paid)' = Kept(k, b, paid)
        /\ \A k, b : Level(k, b)' = Level(k, b)
        /\ \A d : Near(d)' = Near(d)
    BY <1>1, SameTerms, SameKept, SameLevel
  <1>5. /\ Dto.tenor \in Nat \ {0} /\ Dto.period \in Nat /\ Dto.principal \in Nat /\ Dto.period < Dto.tenor
        /\ ActiveTenor = Dto.tenor - Dto.period
    BY <1>2, TenorIs
  <1>6. n < Dto.tenor /\ Number = n + 1
    BY DEF Turn, Number
  <1>7. /\ Interest \in Int /\ Emi \in Nat /\ EmiCharge \in Nat /\ PrincipalShare \in Nat
        /\ EqualShares => Emi = PrincipalShare + Interest
        /\ ~EqualShares => Interest = Multiply(balance, PeriodicRate)
    BY <1>1, <1>2, InterestIs, EmiIs, ChargeIs, LevelInterest
  <1> SUFFICES ASSUME Regular, Enough
               PROVE  /\ \A i \in DOMAIN schedules' :
                           Dto.period < i /\ i < Dto.tenor => schedules'[i].total = Emi + EmiCharge
                      /\ Len(schedules') < Dto.tenor /\ ~EqualShares =>
                           Level(Active(Len(schedules')), balance')
                      /\ Len(schedules') = Dto.tenor =>
                           Near(schedules'[Dto.tenor].total - (Emi + EmiCharge))
    BY <1>4 DEF Steady
  <1> DEFINE a == Active(n)
  <1>8. Kept(a, balance, repaid) /\ (~EqualShares => Level(a, balance))
    BY <1>1, <1>3, <1>5, <1>6 DEF Exact, Steady
  <1>9. \A i \in DOMAIN schedules' :
          Dto.period < i /\ i < Dto.tenor => schedules'[i].total = Emi + EmiCharge
    <2>1. \A i \in 1..n : Dto.period < i /\ i < Dto.tenor => schedules[i].total = Emi + EmiCharge
      BY <1>1, <1>3 DEF Steady
    <2>2. Dto.period < n + 1 /\ n + 1 < Dto.tenor => e.total = Emi + EmiCharge
      BY <1>6 DEF TurnTotal
    <2>3. \A i \in 1..(n + 1) : i \in 1..n \/ i = n + 1
      BY <1>3
    <2> QED
      BY <1>3, <2>1, <2>2, <2>3, Zenon
  <1>10. ASSUME n + 1 < Dto.tenor, ~EqualShares
         PROVE  Level(Active(n + 1), balance')
    <2>1. CASE n + 1 <= Dto.period
      <3>1. e.left = balance
        BY <1>6, <2>1 DEF TurnShare
      <3>2. Active(n + 1) = a /\ balance' = balance
        BY <1>1, <1>3, <1>5, <2>1, <3>1 DEF Active
      <3> QED
        BY <1>8, <1>10, <3>2, Zenon
    <2>2. CASE Dto.period < n + 1
      <3>1. Active(n + 1) = a + 1 /\ a \in Nat /\ a + 1 <= ActiveTenor - 1
        BY <1>3, <1>5, <1>10, <2>2 DEF Active
      <3>2. e.principal = Emi - Multiply(balance, PeriodicRate)
        BY <1>6, <1>10, <2>2 DEF TurnPrincipal
      <3>3. Kept(Active(n + 1), balance', repaid')
        BY <1>1, <1>3, <1>4, <1>5, <1>6, <1>10 DEF Exact
      <3>4. balance' = Dto.principal - repaid' /\ balance = Dto.principal - repaid
        BY <1>8, <3>3 DEF Kept
      <3>5. e.left \in Nat /\ e.principal \in Int
        BY DEF TurnParts, Row
      <3>6. balance' = balance - e.principal /\ balance' \in Nat
        BY <1>1, <1>2, <1>5, <3>4, <3>5
      <3>7. balance' = balance - (Emi - Multiply(balance, PeriodicRate))
        BY <3>2, <3>6, Zenon
      <3> HIDE DEF a
      <3>8. Level(a, balance)
        BY <1>8, <1>10
      <3>9. PICK c \in Nat : c = balance'
        BY <3>6
      <3>10. Level(a + 1, c)
        BY <1>2, <1>10, <3>1, <3>7, <3>8, <3>9, LevelOfTurn
      <3> QED
        BY <3>1, <3>9, <3>10, Zenon
    <2> QED
      BY <1>3, <1>5, <2>1, <2>2
  <1>11. ASSUME n + 1 = Dto.tenor
         PROVE  Near(e.total - (Emi + EmiCharge))
    <2>1. Dto.period < n + 1 /\ a = ActiveTenor - 1 /\ a \in Nat
      BY <1>3, <1>5, <1>11 DEF Active
    <2>2. e.total = balance + Interest + EmiCharge
      BY <1>5, <1>6, <1>11, <2>1 DEF TurnTotal
    <2>3. e.total - (Emi + EmiCharge) = balance + Interest - Emi
      BY <1>2, <1>7, <2>2
    <2>4. CASE EqualShares
      <3>1. balance = Dto.principal - (ActiveTenor - 1) * PrincipalShare
        BY <1>8, <2>1, <2>4 DEF Kept
      <3>2. Near(balance - PrincipalShare)
        BY <1>2, <2>4, <3>1, LastShareIsNear
      <3>3. balance + Interest - Emi = balance - PrincipalShare
        BY <1>2, <1>7, <2>4
      <3> QED
        BY <2>3, <3>2, <3>3, Zenon
    <2>5. CASE ~EqualShares
      <3>1. Level(a, balance) /\ Interest = Multiply(balance, PeriodicRate)
        BY <1>7, <1>8, <2>5
      <3>2. PICK d \in Int : d = balance + Interest - Emi
        BY <1>2, <1>7
      <3>3. d = balance + Multiply(balance, PeriodicRate) - Emi
        BY <3>1, <3>2, Zenon
      <3> HIDE DEF a
      <3>4. Near(d)
        BY <1>2, <2>1, <2>5, <3>1, <3>3, LastIsNear
      <3> QED
        BY <2>3, <3>2, <3>4, Zenon
    <2> QED
      BY <2>4, <2>5
  <1>12. Len(schedules') = Dto.tenor => schedules'[Dto.tenor] = e
    BY <1>3, Zenon
  <1> QED
    BY <1>3, <1>9, <1>10, <1>11, <1>12

(* The loop begins level. *)
LEMMA BeginKeepsSteady ==
  ASSUME IInv, Begin
  PROVE  Steady'
  <1>1. /\ phase = "asked" /\ ~Invalid /\ balance' = Dto.principal /\ caller' = caller /\ loan' = loan
        /\ schedules' = schedules
    BY DEF Begin
  <1>2. schedules = <<>> /\ caller \in Caller /\ loan \in Terms
    BY <1>1, AmortizationAssumption DEF IInv, Typed, Progress, Worked
  <1>3. Dto.tenor \in Nat \ {0} /\ Dto.period \in Nat
    BY <1>1, <1>2, TenorIs
  <1>4. /\ Dto' = Dto /\ EqualShares' = EqualShares /\ \A k : Active(k)' = Active(k)
        /\ \A k, b : Level(k, b)' = Level(k, b)
    BY <1>1, SameTerms, SameLevel
  <1>5. Len(schedules') = 0 /\ Active(Len(schedules')) = 0 /\ Len(schedules') # Dto.tenor /\ DOMAIN schedules' = {}
    BY <1>1, <1>2, <1>3 DEF Active
  <1>6. ~EqualShares => Level(Active(Len(schedules')), balance')
    <2>1. ~EqualShares => Level(0, Dto.principal)
      BY <1>1, <1>2, LevelAtFirst
    <2> QED
      BY <1>1, <1>5, <2>1, Zenon
  <1> QED
    BY <1>4, <1>5, <1>6 DEF Steady

(* No step leaves the level. *)
LEMMA StepKeepsSteady ==
  ASSUME IInv, Exact, Steady, [Next]_vars
  PROVE  Steady'
  <1>1. CASE Refuse \/ Return \/ Store \/ UNCHANGED vars
    <2>1. caller' = caller /\ loan' = loan /\ balance' = balance /\ schedules' = schedules
      BY <1>1 DEF Refuse, Return, Store, vars
    <2>2. Worked' = Worked
      BY <1>1 DEF Refuse, Return, Store, vars, Worked
    <2>3. /\ Dto' = Dto /\ Regular' = Regular /\ Enough' = Enough /\ EqualShares' = EqualShares
          /\ EmiCharge' = EmiCharge /\ Emi' = Emi
          /\ \A k : Active(k)' = Active(k)
          /\ \A k, b : Level(k, b)' = Level(k, b)
          /\ \A d : Near(d)' = Near(d)
      BY <2>1, SameTerms, SameLevel
    <2> QED
      BY <2>1, <2>2, <2>3 DEF Steady
  <1>2. ASSUME NEW e \in Row, Turn(e), TurnParts(e), TurnShare(e), TurnPrincipal(e), TurnTotal(e)
        PROVE  Steady'
    <2>1. Exact'
      BY StepKeepsExact
    <2> QED
      BY <1>2, <2>1, TurnKeepsSteady
  <1> QED
    BY <1>1, <1>2, BeginKeepsSteady, StepIs

(* The last instalment is near the one before it. *)
LastIsNearTheOthers ==
  phase \in {"returned", "stored"} /\ Regular /\ ActiveTenor >= 2
    => Near(schedules[Dto.tenor].total - schedules[Dto.tenor - 1].total)

(* The last instalment, which takes what the rounding left over, is as far from the one before it as half
   of the last decimal for each of the equal shares, or, for an annuity at rate r with power w,
   as (2w + emi) / 2r: the sum of all roundings, each grown at the rate (calculateLoanRepayment). *)
THEOREM InstalmentsAreLevel == Spec => [](Enough => LastIsNearTheOthers)
  <1>1. Init => Exact /\ Steady
    BY DEF Init, Exact, Steady, Worked
  <1>2. IInv /\ Exact /\ Steady /\ [Next]_vars => Exact' /\ Steady'
    BY StepKeepsExact, StepKeepsSteady
  <1>3. IInv /\ Steady => (Enough => LastIsNearTheOthers)
    <2> SUFFICES ASSUME IInv, Steady, Enough, phase \in {"returned", "stored"}, Regular, ActiveTenor >= 2
                 PROVE  Near(schedules[Dto.tenor].total - schedules[Dto.tenor - 1].total)
      BY DEF LastIsNearTheOthers
    <2>1. Worked /\ Len(schedules) = Dto.tenor /\ caller \in Caller /\ loan \in Terms /\ ~Invalid
          /\ schedules \in Seq(Row)
      BY AmortizationAssumption DEF Worked, IInv, Progress, Typed
    <2>2. /\ Dto.tenor \in Nat \ {0} /\ Dto.period \in Nat /\ ActiveTenor = Dto.tenor - Dto.period
      BY <2>1, TenorIs
    <2>3. Dto.tenor - 1 \in DOMAIN schedules /\ Dto.period < Dto.tenor - 1 /\ Dto.tenor - 1 < Dto.tenor
      BY <2>1, <2>2
    <2>4. schedules[Dto.tenor - 1].total = Emi + EmiCharge
      BY <2>1, <2>3 DEF Steady
    <2>5. Near(schedules[Dto.tenor].total - (Emi + EmiCharge))
      BY <2>1 DEF Steady
    <2> QED
      BY <2>4, <2>5, Zenon
  <1> QED
    BY <1>1, <1>2, <1>3, Invariance, PTL DEF Spec

(* The resolution of the calculator is fine enough for the accuracy asked for: what rounding adds to the last
   instalment weighs less than that part of the principal. *)
Fine ==
  IF EqualShares THEN Accuracy * ActiveTenor < 2 * Dto.principal
  ELSE Accuracy * (2 * RatePow + Emi) < 2 * (PeriodicRate * Dto.principal)

(* A number and its negative bound its distance from nothing. *)
LEMMA DistanceWithin ==
  ASSUME NEW a \in Nat, NEW f \in Nat \ {0}, NEW x \in Int, NEW y \in Int, NEW m \in Int, NEW P \in Nat,
         f * (x - y) <= m, -(f * (x - y)) <= m, a * m < f * P
  PROVE  a * Distance(x, y) < P
  <1>1. PICK d \in Nat : d = Distance(x, y) /\ (d = x - y \/ d = -(x - y))
    <2>1. CASE x < y
      <3>1. Distance(x, y) = y - x /\ y - x \in Nat /\ y - x = -(x - y)
        BY <2>1 DEF Distance
      <3> QED
        BY <3>1
    <2>2. CASE ~(x < y)
      <3>1. Distance(x, y) = x - y /\ x - y \in Nat
        BY <2>2 DEF Distance
      <3> QED
        BY <3>1
    <2> QED
      BY <2>1, <2>2
  <1>2. f * d <= m
    BY <1>1
  <1>3. a * (f * d) <= a * m /\ a * (f * d) \in Int /\ a * m \in Int
    <2>1. f * d \in Int
      OBVIOUS
    <2> QED
      BY <1>2, <2>1, TimesKeepsOrder
  <1>4. ~(P <= a * d)
    <2> SUFFICES ASSUME P <= a * d PROVE FALSE
      OBVIOUS
    <2>1. a * d \in Int
      OBVIOUS
    <2>2. f * P <= f * (a * d)
      BY <2>1, TimesKeepsOrder
    <2>3. f * (a * d) = a * (f * d) /\ f * P \in Int
      OBVIOUS
    <2> QED
      BY <1>3, <2>2, <2>3
  <1>5. a * d \in Int
    OBVIOUS
  <1> QED
    BY <1>1, <1>4, <1>5

(* The instalments of every loan are level up to the accuracy asked for, if the amounts are large enough for the
   calculator's resolution (the last instalment of calculateLoanRepayment). *)
THEOREM LoansAreLevel == Spec => [](Enough /\ Fine => LastLikeTheOthers)
  <1>1. ASSUME IInv, Enough => LastIsNearTheOthers
        PROVE  Enough /\ Fine => LastLikeTheOthers
    <2> SUFFICES ASSUME Enough, Fine, phase = "returned", Regular, ActiveTenor >= 2
                 PROVE  Accuracy * Distance(schedules[Dto.tenor].total, schedules[Dto.tenor - 1].total)
                          < Dto.principal
      BY DEF LastLikeTheOthers
    <2>1. Worked /\ Len(schedules) = Dto.tenor /\ caller \in Caller /\ loan \in Terms /\ ~Invalid
          /\ schedules \in Seq(Row)
      BY <1>1, AmortizationAssumption DEF Worked, IInv, Progress, Typed
    <2>2. /\ Dto.tenor \in Nat \ {0} /\ Dto.period \in Nat /\ ActiveTenor = Dto.tenor - Dto.period
          /\ Dto.principal \in Nat
      BY <2>1, TenorIs
    <2>3. Dto.tenor - 1 \in DOMAIN schedules /\ Dto.tenor \in DOMAIN schedules
      BY <2>1, <2>2
    <2>4. schedules[Dto.tenor].total \in Int /\ schedules[Dto.tenor - 1].total \in Int
      <3>1. schedules[Dto.tenor] \in Row /\ schedules[Dto.tenor - 1] \in Row
        BY <2>1, <2>3
      <3> QED
        BY <3>1 DEF Row
    <2>5. PICK x \in Int, y \in Int : x = schedules[Dto.tenor].total /\ y = schedules[Dto.tenor - 1].total
      BY <2>4, Zenon
    <2>6. Near(x - y)
      BY <1>1, <2>5 DEF LastIsNearTheOthers
    <2>7. PICK a \in Nat, P \in Nat : a = Accuracy /\ P = Dto.principal
      BY <2>2, AmortizationAssumption
    <2>8. CASE EqualShares
      <3>1. PICK n \in Int : n = ActiveTenor
        BY <2>2
      <3>2. 2 * (x - y) <= n /\ -(2 * (x - y)) <= n /\ a * n < 2 * P
        BY <2>6, <2>7, <2>8, <3>1 DEF Near, Fine
      <3>3. a * Distance(x, y) < P
        <4>1. PICK f \in Nat \ {0} : f = 2
          OBVIOUS
        <4>2. f * (x - y) <= n /\ -(f * (x - y)) <= n /\ a * n < f * P
          BY <3>2, <4>1, Zenon
        <4> QED
          BY <4>2, DistanceWithin
      <3> QED
        BY <2>5, <2>7, <3>3, Zenon
    <2>9. CASE ~EqualShares
      <3>1. PICK r \in Nat \ {0}, w \in Nat, E \in Nat : r = PeriodicRate /\ w = RatePow /\ E = Emi
        BY <2>1, <2>9, AnnuityIs
      <3>2. /\ 2 * (r * (x - y)) <= 2 * w + E /\ -(2 * (r * (x - y))) <= 2 * w + E
            /\ a * (2 * w + E) < 2 * (r * P)
        BY <2>6, <2>7, <2>9, <3>1 DEF Near, Fine
      <3>3. PICK f \in Nat \ {0}, m \in Int : f = 2 * r /\ m = 2 * w + E
        OBVIOUS
      <3>4. f * (x - y) = 2 * (r * (x - y)) /\ f * P = 2 * (r * P)
        BY <3>3
      <3>5. f * (x - y) <= m /\ -(f * (x - y)) <= m /\ a * m < f * P
        BY <3>2, <3>3, <3>4, Zenon
      <3>6. a * Distance(x, y) < P
        BY <3>5, DistanceWithin
      <3> QED
        BY <2>5, <2>7, <3>6, Zenon
    <2> QED
      BY <2>8, <2>9
  <1> QED
    BY <1>1, Invariance, InstalmentsAreLevel, PTL

-----------------------------------------------------------------------------
(* The stored rows.                                                          *)

(* An amount and its parts, rounded one by one, are at most one unit apart. *)
LEMMA RoundedParts ==
  ASSUME NEW p \in Int, NEW i \in Int
  PROVE  Distance(ToMinor(p + i), ToMinor(p) + ToMinor(i)) <= 1
  <1> DEFINE t == ToMinor(p + i)  q == ToMinor(p)  r == ToMinor(i)
  <1>1. Scale \in Nat \ {0} /\ Minor \in Nat \ {0}
    BY AmortizationAssumption
  <1>2. p * Minor \in Int /\ i * Minor \in Int /\ (p + i) * Minor = p * Minor + i * Minor
    BY <1>1
  <1>3. (p + i) * Minor \in Int
    BY <1>2
  <1>4. /\ t \in Int /\ Scale * t \in Int
        /\ 2 * (Scale * t - (p + i) * Minor) <= Scale /\ 2 * ((p + i) * Minor - Scale * t) <= Scale
    BY <1>1, <1>3, HalfEvenIs DEF ToMinor
  <1>5. /\ q \in Int /\ Scale * q \in Int
        /\ 2 * (Scale * q - p * Minor) <= Scale /\ 2 * (p * Minor - Scale * q) <= Scale
    BY <1>1, <1>2, HalfEvenIs DEF ToMinor
  <1>6. /\ r \in Int /\ Scale * r \in Int
        /\ 2 * (Scale * r - i * Minor) <= Scale /\ 2 * (i * Minor - Scale * r) <= Scale
    BY <1>1, <1>2, HalfEvenIs DEF ToMinor
  <1> HIDE DEF t, q, r
  <1>7. /\ 2 * (Scale * t - Scale * q - Scale * r) <= 3 * Scale
        /\ 2 * (Scale * q + Scale * r - Scale * t) <= 3 * Scale
    BY <1>1, <1>2, <1>4, <1>5, <1>6
  <1>8. /\ Scale * (2 * (t - q - r)) = 2 * (Scale * t - Scale * q - Scale * r)
        /\ Scale * (2 * (q + r - t)) = 2 * (Scale * q + Scale * r - Scale * t)
        /\ 3 * Scale = Scale * 3
    BY <1>1, <1>4, <1>5, <1>6
  <1>9. 2 * (t - q - r) <= 3
    <2>1. 2 * (t - q - r) \in Int /\ Scale * (2 * (t - q - r)) <= Scale * 3
      BY <1>4, <1>5, <1>6, <1>7, <1>8
    <2> QED
      BY <1>1, <2>1, LeaveOutFactor
  <1>10. 2 * (q + r - t) <= 3
    <2>1. 2 * (q + r - t) \in Int /\ Scale * (2 * (q + r - t)) <= Scale * 3
      BY <1>4, <1>5, <1>6, <1>7, <1>8
    <2> QED
      BY <1>1, <2>1, LeaveOutFactor
  <1>11. Distance(t, q + r) <= 1
    BY <1>4, <1>5, <1>6, <1>9, <1>10 DEF Distance
  <1> QED
    BY <1>11 DEF t, q, r

(* Principals, rounded one by one, come to within half a unit each of their sum, if those of the
   grace period are zero. *)
LEMMA RoundedShares ==
  ASSUME NEW n \in Nat, NEW g \in Nat, g <= n, NEW f, NEW h,
         \A i \in 1..n : f[i] \in Int /\ h[i] = ToMinor(f[i]) /\ (i <= g => f[i] = 0),
         NEW sum, sum = SumFunctionOnSet(f, 1..n), NEW rounded, rounded = SumFunctionOnSet(h, 1..n)
  PROVE  /\ sum \in Int /\ rounded \in Int
         /\ 2 * (Scale * rounded - Minor * sum) <= Scale * (n - g)
         /\ 2 * (Minor * sum - Scale * rounded) <= Scale * (n - g)
  <1> DEFINE F(k) == SumFunctionOnSet(f, 1..k)  H(k) == SumFunctionOnSet(h, 1..k)
             late(k) == IF k <= g THEN 0 ELSE k - g
             T == {k \in Nat : k <= n =>
                     /\ F(k) \in Int /\ H(k) \in Int
                     /\ 2 * (Scale * H(k) - Minor * F(k)) <= Scale * late(k)
                     /\ 2 * (Minor * F(k) - Scale * H(k)) <= Scale * late(k)}
  <1>1. Scale \in Nat \ {0} /\ Minor \in Nat \ {0}
    BY AmortizationAssumption
  <1>2. 0 \in T
    <2>1. 1..0 = {}
      OBVIOUS
    <2>2. F(0) = 0 /\ H(0) = 0
      BY <2>1, SumEmpty
    <2>3. late(0) = 0 /\ Scale * 0 = 0 /\ Minor * 0 = 0
      BY <1>1
    <2> HIDE DEF F, H, late
    <2>4. 2 * (Scale * H(0) - Minor * F(0)) = 0 /\ 2 * (Minor * F(0) - Scale * H(0)) = 0
      BY <2>2, <2>3
    <2> QED
      BY <2>2, <2>3, <2>4
  <1>3. ASSUME NEW k \in Nat, k \in T PROVE k + 1 \in T
    <2> SUFFICES ASSUME k + 1 <= n
                 PROVE  /\ F(k + 1) \in Int /\ H(k + 1) \in Int
                        /\ 2 * (Scale * H(k + 1) - Minor * F(k + 1)) <= Scale * late(k + 1)
                        /\ 2 * (Minor * F(k + 1) - Scale * H(k + 1)) <= Scale * late(k + 1)
      OBVIOUS
    <2>1. /\ F(k) \in Int /\ H(k) \in Int
          /\ 2 * (Scale * H(k) - Minor * F(k)) <= Scale * late(k)
          /\ 2 * (Minor * F(k) - Scale * H(k)) <= Scale * late(k)
      BY <1>3
    <2> DEFINE p == f[k + 1]  q == h[k + 1]
    <2>2. k + 1 \in 1..n /\ p \in Int /\ q = ToMinor(p) /\ (k + 1 <= g => p = 0)
      OBVIOUS
    <2>3. p * Minor \in Int /\ Minor * p = p * Minor
      BY <1>1, <2>2
    <2>4. /\ q \in Int /\ Scale * q \in Int
          /\ 2 * (Scale * q - p * Minor) <= Scale /\ 2 * (p * Minor - Scale * q) <= Scale
      BY <1>1, <2>2, <2>3, HalfEvenIs DEF ToMinor
    <2>5. p = 0 => q = 0
      <3>1. p = 0 => p * Minor = Scale * 0
        BY <1>1
      <3> QED
        BY <1>1, <2>2, <3>1, HalfEvenExact DEF ToMinor
    <2>6. IsFiniteSet(1..k) /\ k + 1 \notin 1..k /\ (1..k) \cup {k + 1} = 1..(k + 1)
      BY UpToFinite
    <2>7. \A i \in (1..k) \cup {k + 1} : i \in 1..n
      OBVIOUS
    <2>8. F(k + 1) = p + F(k)
      <3>1. \A i \in (1..k) \cup {k + 1} : f[i] \in Int
        BY <2>7
      <3>2. SumFunctionOnSet(f, (1..k) \cup {k + 1}) = f[k + 1] + SumFunctionOnSet(f, 1..k)
        BY <2>6, <3>1, SumAdd
      <3> QED
        BY <2>6, <3>2
    <2>9. H(k + 1) = q + H(k)
      <3>1. \A i \in (1..k) \cup {k + 1} : h[i] \in Int
        <4> TAKE i \in (1..k) \cup {k + 1}
        <4>1. f[i] \in Int /\ h[i] = ToMinor(f[i])
          BY <2>7
        <4>2. f[i] * Minor \in Int
          BY <1>1, <4>1
        <4> QED
          BY <1>1, <4>1, <4>2, HalfEvenIs DEF ToMinor
      <3>2. SumFunctionOnSet(h, (1..k) \cup {k + 1}) = h[k + 1] + SumFunctionOnSet(h, 1..k)
        BY <2>6, <3>1, SumAdd
      <3> QED
        BY <2>6, <3>2
    <2>10. IF k + 1 <= g THEN late(k + 1) = 0 /\ late(k) = 0 ELSE late(k + 1) = late(k) + 1 /\ late(k) \in Nat
      OBVIOUS
    <2> HIDE DEF F, H, late, p, q
    <2>11. /\ Scale * H(k + 1) = Scale * q + Scale * H(k) /\ Scale * H(k) \in Int
           /\ Minor * F(k + 1) = p * Minor + Minor * F(k) /\ Minor * F(k) \in Int
      <3>1. \A d \in Nat : \A x, y \in Int : d * (x + y) = d * x + d * y /\ d * x \in Int
        OBVIOUS
      <3>2. Scale \in Nat /\ Minor \in Nat
        BY <1>1
      <3>3. Scale * H(k + 1) = Scale * q + Scale * H(k) /\ Scale * H(k) \in Int
        BY <2>1, <2>4, <2>9, <3>1, <3>2
      <3>4. Minor * F(k + 1) = Minor * p + Minor * F(k) /\ Minor * F(k) \in Int
        BY <2>1, <2>2, <2>8, <3>1, <3>2
      <3> QED
        BY <2>3, <3>3, <3>4
    <2>12. F(k + 1) \in Int /\ H(k + 1) \in Int
      BY <2>1, <2>2, <2>4, <2>8, <2>9
    <2>13. CASE k + 1 <= g
      <3>1. F(k + 1) = F(k) /\ H(k + 1) = H(k) /\ late(k + 1) = late(k)
        BY <2>1, <2>2, <2>5, <2>8, <2>9, <2>10, <2>13
      <3> QED
        BY <2>1, <3>1
    <2>14. CASE ~(k + 1 <= g)
      <3>1. Scale * late(k + 1) = Scale * late(k) + Scale /\ Scale * late(k) \in Int
        BY <1>1, <2>10, <2>14
      <3>2. PICK a \in Int, b \in Int, u \in Int, v \in Int, z \in Int :
              /\ a = Scale * q /\ b = Scale * H(k) /\ u = p * Minor /\ v = Minor * F(k)
              /\ z = Scale * late(k)
        BY <2>3, <2>4, <2>11, <3>1
      <3>3. Scale * H(k + 1) = a + b /\ Minor * F(k + 1) = u + v /\ Scale * late(k + 1) = z + Scale
        BY <2>11, <3>1, <3>2
      <3>4. /\ 2 * (a - u) <= Scale /\ 2 * (u - a) <= Scale
            /\ 2 * (b - v) <= z /\ 2 * (v - b) <= z
        BY <2>1, <2>4, <3>2
      <3>5. 2 * ((a + b) - (u + v)) <= z + Scale /\ 2 * ((u + v) - (a + b)) <= z + Scale
        BY <1>1, <3>4
      <3> QED
        BY <2>12, <3>3, <3>5
    <2> QED
      BY <2>13, <2>14
  <1>4. n \in T
    <2> HIDE DEF T
    <2> QED
      BY <1>2, <1>3, EveryNumber
  <1>5. late(n) = n - g
    OBVIOUS
  <1> HIDE DEF late
  <1> QED
    BY <1>4, <1>5

(* The rows disburseLoan stores come, as far as the instalments repay the principal once, to what is paid out
   within half a unit per row, and without a charge each row's total to its parts within one unit, for
   all terms and any number of decimals. *)
THEOREM StoredRowsAddUp == Spec => [](PrincipalRepaidOnce => StoredAddsUp)
  <1>1. ASSUME IInv, PrincipalRepaidOnce PROVE StoredAddsUp
    <2> SUFFICES ASSUME phase = "stored"
                 PROVE  /\ Regular => 2 * Distance(StoredShare, loan.principal) <= ActiveTenor
                        /\ EmiCharge = 0 =>
                             \A i \in DOMAIN stored :
                               Distance(stored[i].total, stored[i].principal + stored[i].interest) <= 1
      BY DEF StoredAddsUp
    <2>1. Worked
      BY DEF Worked
    <2>2. /\ caller = "disburse" /\ caller \in Caller /\ loan \in Terms /\ ~Invalid
          /\ schedules \in Seq(Row) /\ Len(schedules) = Dto.tenor /\ repaid \in Int
          /\ stored = [i \in DOMAIN schedules |-> ScheduleRow(schedules[i])]
      BY <1>1, <2>1, AmortizationAssumption DEF IInv, Typed, Progress
    <2>3. /\ Dto.tenor \in Nat /\ Dto.period \in Nat /\ Dto.period < Dto.tenor
          /\ ActiveTenor = Dto.tenor - Dto.period
      BY <2>2, TenorIs
    <2>4. DOMAIN schedules = 1..Dto.tenor /\ DOMAIN stored = 1..Dto.tenor
      BY <2>2
    <2>5. \A i \in 1..Dto.tenor : schedules[i] \in Row /\ stored[i] = ScheduleRow(schedules[i])
      BY <2>2, <2>4
    <2>6. ASSUME Regular PROVE 2 * Distance(StoredShare, loan.principal) <= ActiveTenor
      <3>1. PICK f : f = [i \in DOMAIN schedules |-> schedules[i].principal]
        OBVIOUS
      <3>2. PICK h : h = [i \in DOMAIN stored |-> stored[i].principal]
        OBVIOUS
      <3>3. PICK n \in Nat : n = Dto.tenor
        BY <2>3
      <3>4. PICK g \in Nat : g = Dto.period
        BY <2>3
      <3>5. \A i \in 1..n : f[i] \in Int /\ h[i] = ToMinor(f[i]) /\ (i <= g => f[i] = 0)
        <4> TAKE i \in 1..n
        <4>1. i \in DOMAIN schedules /\ i \in DOMAIN stored
          BY <2>4, <3>3
        <4>2. f[i] = schedules[i].principal /\ h[i] = stored[i].principal
          BY <3>1, <3>2, <4>1
        <4>3. schedules[i].principal \in Int
          BY <2>5, <3>3 DEF Row
        <4>4. stored[i].principal = ToMinor(schedules[i].principal)
          <5>1. stored[i] = ScheduleRow(schedules[i])
            BY <2>4, <2>5, <4>1
          <5> QED
            BY <5>1 DEF ScheduleRow
        <4>5. i <= g => schedules[i].principal = 0
          BY <1>1, <2>1, <2>6, <3>4, <4>1 DEF IInv, TurnsKept, InTurn
        <4> QED
          BY <4>2, <4>3, <4>4, <4>5
      <3> DEFINE sum == SumFunctionOnSet(f, 1..n)  rounded == SumFunctionOnSet(h, 1..n)
      <3>6. /\ sum \in Int /\ rounded \in Int
            /\ 2 * (Scale * rounded - Minor * sum) <= Scale * (n - g)
            /\ 2 * (Minor * sum - Scale * rounded) <= Scale * (n - g)
        <4>1. g <= n
          BY <2>3, <3>3, <3>4
        <4> QED
          BY <3>5, <4>1, RoundedShares
      <3>7. sum = Shares /\ rounded = StoredShare
        <4>1. DOMAIN f = 1..n /\ DOMAIN h = 1..n
          BY <2>4, <3>1, <3>2, <3>3
        <4>2. SumFunction(f) = sum /\ SumFunction(h) = rounded
          BY <4>1, Zenon DEF SumFunction
        <4> QED
          BY <3>1, <3>2, <4>2 DEF Shares, StoredShare
      <3> HIDE DEF sum, rounded
      <3>8. sum = Dto.principal
        <4>1. Shares = repaid
          BY <1>1 DEF IInv, SumsKept
        <4>2. repaid = Dto.principal
          BY <1>1, <2>6 DEF PrincipalRepaidOnce
        <4> QED
          BY <3>7, <4>1, <4>2
      <3>9. Minor * sum = Scale * loan.principal /\ loan.principal \in Nat
        <4> DEFINE unit == Scale \div Minor
        <4>1. Scale \in Nat \ {0} /\ Minor \in Nat \ {0} /\ loan.principal \in Nat
          BY <2>2, AmortizationAssumption DEF Terms
        <4>2. unit \in Int /\ Scale = Minor * unit
          BY Division, AmortizationAssumption
        <4>3. Dto.principal = loan.principal * unit
          BY <2>2 DEF Dto, Terms
        <4> HIDE DEF unit
        <4>4. Minor * (loan.principal * unit) = (Minor * unit) * loan.principal
          BY <4>1, <4>2
        <4> QED
          BY <3>8, <4>1, <4>2, <4>3, <4>4
      <3>10. Scale \in Nat \ {0} /\ n - g = ActiveTenor
        BY <2>3, <3>3, <3>4, AmortizationAssumption
      <3>11. /\ Scale * (2 * (rounded - loan.principal)) = 2 * (Scale * rounded - Scale * loan.principal)
             /\ Scale * (2 * (loan.principal - rounded)) = 2 * (Scale * loan.principal - Scale * rounded)
        BY <3>6, <3>9, <3>10
      <3>12. 2 * (rounded - loan.principal) <= n - g
        <4>1. 2 * (rounded - loan.principal) \in Int /\ n - g \in Int
          BY <3>6, <3>9
        <4>2. Scale * (2 * (rounded - loan.principal)) <= Scale * (n - g)
          BY <3>6, <3>9, <3>11
        <4> QED
          BY <3>10, <4>1, <4>2, LeaveOutFactor
      <3>13. 2 * (loan.principal - rounded) <= n - g
        <4>1. 2 * (loan.principal - rounded) \in Int /\ n - g \in Int
          BY <3>6, <3>9
        <4>2. Scale * (2 * (loan.principal - rounded)) <= Scale * (n - g)
          BY <3>6, <3>9, <3>11
        <4> QED
          BY <3>10, <4>1, <4>2, LeaveOutFactor
      <3>14. 2 * Distance(rounded, loan.principal) <= n - g
        BY <3>6, <3>9, <3>12, <3>13 DEF Distance
      <3> QED
        BY <3>7, <3>10, <3>14
    <2>7. ASSUME EmiCharge = 0, NEW i \in DOMAIN stored
          PROVE  Distance(stored[i].total, stored[i].principal + stored[i].interest) <= 1
      <3>1. i \in DOMAIN schedules /\ schedules[i] \in Row /\ stored[i] = ScheduleRow(schedules[i])
        BY <2>4, <2>5
      <3>2. /\ schedules[i].charge = 0
            /\ schedules[i].total = schedules[i].principal + schedules[i].interest + schedules[i].charge
        BY <1>1, <2>1, <2>7, <3>1 DEF IInv, Charged, PartsAddUp
      <3>3. schedules[i].principal \in Int /\ schedules[i].interest \in Int
        BY <3>1 DEF Row
      <3>4. schedules[i].total = schedules[i].principal + schedules[i].interest
        BY <3>2, <3>3
      <3>5. /\ stored[i].total = ToMinor(schedules[i].principal + schedules[i].interest)
            /\ stored[i].principal = ToMinor(schedules[i].principal)
            /\ stored[i].interest = ToMinor(schedules[i].interest)
        BY <3>1, <3>4 DEF ScheduleRow
      <3> QED
        BY <3>3, <3>5, RoundedParts
    <2> QED
      BY <2>6, <2>7
  <1> QED
    BY <1>1, Invariance, PTL

(* So they do for all terms whose amounts are large enough to be repaid once. *)
THEOREM StoredLoansAddUp == Spec => [](Enough => StoredAddsUp)
  BY LoansRepaidOnce, StoredRowsAddUp, PTL

=============================================================================
