--------------------------- MODULE PipelineProofs ---------------------------
(***************************************************************************)
(* Proofs about the pipeline, for every word width, memory size, register  *)
(* number, program and reset behaviour.                                    *)
(***************************************************************************)
EXTENDS PipelineProperties, WellFoundedInduction, TLAPS

----------------------------------------------------------------------------
(* Words: what the arithmetic of the processor yields.  The widths are any *)
(* that PowersOfTwo and MemShape allow.                                    *)

\* Induction over the naturals, on a set.
LEMMA Induction ==
    ASSUME NEW S \in SUBSET Nat, 0 \in S, \A n \in Nat : n \in S => n + 1 \in S
    PROVE  S = Nat
<1> SUFFICES ASSUME Nat \ S # {} PROVE FALSE
  OBVIOUS
<1>1. PICK x \in Nat \ S : \A y \in Nat \ S : <<y, x>> \notin OpToRel(<, Nat)
  BY WFMin, NatLessThanWellFounded
<1>2. \A y \in Nat \ S : ~ (y < x)
  BY <1>1 DEF OpToRel
<1>3. x - 1 \in Nat /\ x - 1 \in S /\ (x - 1) + 1 = x
  BY <1>2
<1>4. (x - 1) + 1 \in S
  BY <1>3
<1> QED
  BY <1>3, <1>4

\* What a word of digits adds up to, digit by digit.
LowDigits(w, b, digit, low) ==
    low = [n \in 0 .. w |-> IF n = 0 THEN 0 ELSE low[n - 1] + digit[n - 1] * 2^(b * (n - 1))]

\* The recursion of Assemble has a solution.
LEMMA AssembleDefined ==
    ASSUME NEW w \in Nat, NEW b, NEW digit
    PROVE  \E low : LowDigits(w, b, digit, low)
<1> DEFINE S == {n \in Nat : \E low : LowDigits(n, b, digit, low)}
<1>1. 0 \in S
  <2>1. LowDigits(0, b, digit, [n \in 0 .. 0 |-> 0])
    BY DEF LowDigits
  <2> QED
    BY <2>1
<1>2. ASSUME NEW n \in Nat, n \in S PROVE n + 1 \in S
  <2>1. PICK low : LowDigits(n, b, digit, low)
    BY <1>2
  <2> DEFINE new == [k \in 0 .. n + 1 |->
                        IF k <= n THEN low[k] ELSE low[n] + digit[n] * 2^(b * n)]
  <2>2. \A k \in 0 .. n + 1 :
           new[k] = IF k = 0 THEN 0 ELSE new[k - 1] + digit[k - 1] * 2^(b * (k - 1))
    <3> TAKE k \in 0 .. n + 1
    <3>1. CASE k \in 0 .. n
      BY <2>1, <3>1 DEF LowDigits
    <3>2. CASE k = n + 1
      BY <3>2
    <3> QED
      BY <3>1, <3>2
  <2>3. LowDigits(n + 1, b, digit, new)
    BY <2>2 DEF LowDigits
  <2> QED
    BY <2>3
<1> HIDE DEF S
<1>3. S = Nat
  BY <1>1, <1>2, Induction DEF S
<1> QED
  BY <1>3 DEF S

\* The function that Assemble chooses is that one.
LEMMA AssembleIs ==
    ASSUME NEW w \in Nat, NEW b, NEW digit
    PROVE  \E low : LowDigits(w, b, digit, low) /\ Assemble(w, b, digit) = low[w]
  BY AssembleDefined DEF LowDigits, Assemble

\* The powers of two up to the width of a word.
LEMMA Powers ==
    ASSUME NEW m \in 0 .. DATA_WIDTH, NEW n \in 0 .. DATA_WIDTH, m <= n
    PROVE  2^m \in Nat \ {0} /\ 2^m <= 2^n /\ 2^n = 2^m * 2^(n - m)
<1>1. n - m \in 0 .. DATA_WIDTH /\ m + (n - m) = n
  BY PowersOfTwo
<1>2. 2^m \in Nat \ {0} /\ 2^(n - m) \in Nat \ {0} /\ 2^n = 2^m * 2^(n - m)
  BY <1>1, PowersOfTwo
<1>3. \A p, q \in Nat \ {0} : p <= p * q
  OBVIOUS
<1> QED
  BY <1>2, <1>3

\* One more digit d in front of l.
LEMMA NextDigit ==
    ASSUME NEW B \in Nat \ {0}, NEW P \in Nat \ {0}, NEW d \in 0 .. B - 1, NEW l \in 0 .. P - 1
    PROVE  l + d * P \in 0 .. B * P - 1
<1>1. (B - 1 - d) * P \in Nat /\ d * P \in Nat
  OBVIOUS
<1>2. (B - 1 - d) * P = B * P - P - d * P
  OBVIOUS
<1> QED
  BY <1>1, <1>2

\* The first n of w digits of b bits are a number of b * n bits.
LEMMA LowRange ==
    ASSUME NEW w \in Nat, NEW b \in Nat, b * w <= DATA_WIDTH,
           NEW digit \in [0 .. w - 1 -> 0 .. 2^b - 1], NEW low, LowDigits(w, b, digit, low),
           NEW n \in 0 .. w
    PROVE  low[n] \in 0 .. 2^(b * n) - 1
<1> DEFINE S == {k \in Nat : k <= w => low[k] \in 0 .. 2^(b * k) - 1}
<1>1. 0 \in S
  BY PowersOfTwo DEF LowDigits
<1>2. ASSUME NEW k \in Nat, k \in S PROVE k + 1 \in S
  <2> SUFFICES ASSUME k + 1 <= w PROVE low[k + 1] \in 0 .. 2^(b * (k + 1)) - 1
    OBVIOUS
  <2>1. low[k + 1] = low[k] + digit[k] * 2^(b * k)
    BY DEF LowDigits
  <2>2. low[k] \in 0 .. 2^(b * k) - 1 /\ digit[k] \in 0 .. 2^b - 1
    BY <1>2
  <2>3. b * k \in Nat /\ b * (k + 1) = b + b * k /\ b * (k + 1) <= b * w
    OBVIOUS
  <2>4. b \in 0 .. DATA_WIDTH /\ b * k \in 0 .. DATA_WIDTH /\ b + b * k <= DATA_WIDTH
    BY <2>3, PowersOfTwo
  <2>5. 2^(b * (k + 1)) = 2^b * 2^(b * k) /\ 2^b \in Nat \ {0} /\ 2^(b * k) \in Nat \ {0}
    BY <2>3, <2>4, PowersOfTwo
  <2>6. low[k] + digit[k] * 2^(b * k) \in 0 .. 2^b * 2^(b * k) - 1
    BY <2>2, <2>5, NextDigit
  <2> QED
    BY <2>1, <2>5, <2>6
<1> HIDE DEF S
<1>3. S = Nat
  BY <1>1, <1>2, Induction DEF S
<1>4. n \in S
  BY <1>3
<1> QED
  BY <1>4 DEF S

\* w digits of b bits are a number of b * w bits.
LEMMA AssembleRange ==
    ASSUME NEW w \in Nat, NEW b \in Nat, b * w <= DATA_WIDTH,
           NEW digit \in [0 .. w - 1 -> 0 .. 2^b - 1]
    PROVE  Assemble(w, b, digit) \in 0 .. 2^(b * w) - 1
<1>1. PICK low : LowDigits(w, b, digit, low) /\ Assemble(w, b, digit) = low[w]
  BY AssembleIs
<1>2. \A n \in 0 .. w : low[n] \in 0 .. 2^(b * n) - 1
  BY <1>1, LowRange
<1>3. w \in 0 .. w
  OBVIOUS
<1> QED
  BY <1>1, <1>2, <1>3

----------------------------------------------------------------------------
(* Digits cut out of a number by division and remainder.                   *)

\* A number is zero if its multiple by P is less than P in size.
LEMMA SmallMultiple ==
    ASSUME NEW P \in Nat \ {0}, NEW d \in Int, d * P < P, 0 - P < d * P
    PROVE  d = 0
<1>1. d >= 1 => d * P >= P
  OBVIOUS
<1>2. d <= 0 - 1 => d * P <= 0 - P
  OBVIOUS
<1> QED
  BY <1>1, <1>2

\* Quotient and rest are what they are multiplied and added from.
LEMMA Quotient ==
    ASSUME NEW P \in Nat \ {0}, NEW l \in 0 .. P - 1, NEW q \in Int
    PROVE  (l + q * P) \div P = q /\ (l + q * P) % P = l
<1> DEFINE x == l + q * P
           k == x \div P
           r == x % P
<1>1. x \in Int /\ k \in Int /\ r \in 0 .. P - 1 /\ x = k * P + r
  OBVIOUS
<1> HIDE DEF k, r
<1>2. (k - q) * P = l - r
  <2>1. (k - q) * P = k * P - q * P
    BY <1>1
  <2> QED
    BY <1>1, <2>1
<1>3. (k - q) * P < P /\ 0 - P < (k - q) * P
  BY <1>1, <1>2
<1>4. k - q = 0
  BY <1>1, <1>3, SmallMultiple
<1>5. k = q /\ r = l
  BY <1>1, <1>4
<1> QED
  BY <1>5 DEF k, r

\* A number and its rest end in the same digit.
Divides(m, N)     == \E K \in Nat \ {0} : N = m * K
SameRest(x, N, m) == (x % N) % m = x % m

\* The rest modulo a multiple of m does not change the rest modulo m.
LEMMA LowRest ==
    ASSUME NEW m \in Nat \ {0}, NEW N \in Nat \ {0}, Divides(m, N), NEW x \in Int
    PROVE  SameRest(x, N, m)
<1> DEFINE r == x % N
           q == x \div N
           s == r % m
           t == r \div m
<1>1. PICK K \in Nat \ {0} : N = m * K
  BY DEF Divides
<1>2. r \in Int /\ q \in Int /\ x = q * N + r
  OBVIOUS
<1>3. s \in 0 .. m - 1 /\ t \in Int /\ r = t * m + s
  <2>1. r \in Int
    BY <1>2
  <2> HIDE DEF r, q
  <2> QED
    BY <2>1
<1> HIDE DEF r, q, s, t
<1>4. x = s + (t + q * K) * m /\ t + q * K \in Int
  <2>1. q * N = (q * K) * m /\ q * K \in Int
    BY <1>1, <1>2
  <2>2. (t + q * K) * m = t * m + (q * K) * m
    BY <1>3, <2>1
  <2>3. (q * K) * m \in Int /\ t * m \in Int
    BY <1>3, <2>1
  <2> QED
    BY <1>2, <1>3, <2>1, <2>2, <2>3
<1> DEFINE u == t + q * K
<1>5. u \in Int /\ x = s + u * m
  BY <1>4
<1> HIDE DEF u
<1>6. (s + u * m) % m = s
  BY <1>3, <1>5, Quotient
<1> QED
  BY <1>5, <1>6 DEF s, r, SameRest

\* Two factors of a power of two that is in range.
LEMMA Shifted ==
    ASSUME NEW b \in Nat, NEW i \in Nat, NEW j \in Nat, b * (i + j) <= DATA_WIDTH
    PROVE  /\ 2^(b * (i + j)) = 2^(b * i) * 2^(b * j)
           /\ 2^(b * i) \in Nat \ {0} /\ 2^(b * j) \in Nat \ {0}
<1>1. b * (i + j) = b * i + b * j /\ b * i \in Nat /\ b * j \in Nat
  OBVIOUS
<1>2. b * i \in 0 .. DATA_WIDTH /\ b * j \in 0 .. DATA_WIDTH /\ b * i + b * j <= DATA_WIDTH
  BY <1>1, PowersOfTwo
<1> QED
  BY <1>1, <1>2, PowersOfTwo

\* The middle digit m of x, between l below it and q above it.
Parts(x, l, m, q, P, Q) ==
    /\ P \in Nat \ {0} /\ Q \in Nat \ {0} /\ l \in 0 .. P - 1 /\ m \in 0 .. Q - 1 /\ q \in Nat
    /\ x = l + m * P + q * (P * Q)

\* A division and a rest cut the middle digit out.
LEMMA Middle ==
    ASSUME NEW x, NEW l, NEW m, NEW q, NEW P, NEW Q, Parts(x, l, m, q, P, Q)
    PROVE  (x \div P) % Q = m
<1>1. P \in Nat \ {0} /\ Q \in Nat \ {0} /\ l \in 0 .. P - 1 /\ m \in 0 .. Q - 1 /\ q \in Nat
  BY DEF Parts
<1>2. x = l + m * P + q * (P * Q)
  BY DEF Parts
<1>3. m * P + q * (P * Q) = (m + q * Q) * P /\ m * P \in Int /\ q * (P * Q) \in Int
  BY <1>1
<1>4. m + q * Q \in Int
  BY <1>1
<1>5. (l + (m + q * Q) * P) \div P = m + q * Q
  BY <1>1, <1>4, Quotient
<1>6. (m + q * Q) % Q = m
  BY <1>1, Quotient
<1>7. l + m * P + q * (P * Q) = l + (m + q * Q) * P
  BY <1>1, <1>3
<1> QED
  BY <1>2, <1>5, <1>6, <1>7

\* Digits whose number is in range, and what a digit counts.
Digits(w, b, digit) == b * w <= DATA_WIDTH /\ digit \in [0 .. w - 1 -> 0 .. 2^b - 1]
Weight(b, n)        == 2^(b * n)
Cut(digit, k, m)    == [i \in 0 .. m - 1 |-> digit[i + k]]

\* The weights of the digits of a number of w digits of b bits.
LEMMA Weights ==
    ASSUME NEW w \in Nat, NEW b \in Nat, NEW digit, Digits(w, b, digit),
           NEW i \in Nat, NEW j \in Nat, i + j <= w
    PROVE  /\ Weight(b, i + j) = Weight(b, i) * Weight(b, j)
           /\ Weight(b, i) \in Nat \ {0} /\ Weight(b, j) \in Nat \ {0}
<1>1. b * (i + j) <= b * w /\ b * (i + j) \in Nat /\ b * w \in Nat
  OBVIOUS
<1>3. b * w <= DATA_WIDTH /\ DATA_WIDTH \in Nat
  BY PowersOfTwo DEF Digits
<1>2. b * (i + j) <= DATA_WIDTH
  BY <1>1, <1>3
<1> QED
  BY <1>2, Shifted DEF Weight

\* Some of its digits.
LEMMA SomeDigits ==
    ASSUME NEW w \in Nat, NEW b \in Nat, NEW digit, Digits(w, b, digit),
           NEW k \in Nat, NEW m \in Nat, k + m <= w
    PROVE  Digits(m, b, Cut(digit, k, m))
<1>1. \A i \in 0 .. m - 1 : i + k \in 0 .. w - 1
  OBVIOUS
<1>2. \A i \in 0 .. m - 1 : digit[i + k] \in 0 .. 2^b - 1
  BY <1>1 DEF Digits
<1>3. b * m <= b * w /\ b * m \in Nat /\ b * w \in Nat
  OBVIOUS
<1>4. b * m <= DATA_WIDTH
  BY <1>3, PowersOfTwo DEF Digits
<1> QED
  BY <1>2, <1>4 DEF Digits, Cut

\* How a number grows by its digits.
LEMMA DigitStep ==
    ASSUME NEW w \in Nat, NEW b \in Nat, NEW digit, NEW low, LowDigits(w, b, digit, low)
    PROVE  /\ low[0] = 0
           /\ \A j \in 0 .. w - 1 : low[j + 1] = low[j] + digit[j] * Weight(b, j)
<1>1. 0 \in 0 .. w
  OBVIOUS
<1>2. low[0] = 0
  BY <1>1 DEF LowDigits
<1>3. ASSUME NEW j \in 0 .. w - 1
      PROVE  low[j + 1] = low[j] + digit[j] * Weight(b, j)
  <2>1. j + 1 \in 0 .. w /\ j + 1 - 1 = j /\ j + 1 # 0
    OBVIOUS
  <2>2. low[j + 1] = low[j + 1 - 1] + digit[j + 1 - 1] * 2^(b * (j + 1 - 1))
    BY <2>1 DEF LowDigits
  <2> QED
    BY <2>1, <2>2 DEF Weight
<1> QED
  BY <1>2, <1>3

\* The first digits of a number, and a digit.
LEMMA DigitRange ==
    ASSUME NEW w \in Nat, NEW b \in Nat, NEW digit, Digits(w, b, digit),
           NEW low, LowDigits(w, b, digit, low)
    PROVE  /\ \A n \in 0 .. w : low[n] \in 0 .. Weight(b, n) - 1 /\ low[n] \in Nat
           /\ \A n \in 0 .. w - 1 : digit[n] \in Nat
<1>1. \A n \in 0 .. w : low[n] \in 0 .. 2^(b * n) - 1
  BY LowRange DEF Digits
<1>2. \A n \in 0 .. w - 1 : digit[n] \in 0 .. 2^b - 1
  BY DEF Digits
<1>3. \A n \in 0 .. w - 1 : digit[n] \in Nat
  BY <1>2
<1>4. \A n \in 0 .. w : low[n] \in Nat
  BY <1>1
<1> QED
  BY <1>1, <1>3, <1>4 DEF Weight

\* A digit more, in front of p and of the number it is cut from.
LEMMA CutMore ==
    ASSUME NEW l \in Nat, NEW P \in Nat, NEW R \in Nat, NEW p \in Nat, NEW d \in Nat
    PROVE  (l + p * P) + d * (P * R) = l + (p + d * R) * P
<1>1. (p + d * R) * P = p * P + (d * R) * P
  OBVIOUS
<1>2. (d * R) * P = d * (P * R)
  OBVIOUS
<1>3. p * P \in Nat /\ d * (P * R) \in Nat
  OBVIOUS
<1> QED
  BY <1>1, <1>2, <1>3

\* One step of the next lemma.
LEMMA OneMore ==
    ASSUME NEW l \in Nat, NEW P \in Nat, NEW R \in Nat, NEW p \in Nat, NEW d \in Nat,
           NEW W, W = P * R, NEW l1, l1 = l + p * P, NEW l2, l2 = l1 + d * W,
           NEW p2, p2 = p + d * R
    PROVE  l2 = l + p2 * P
  BY CutMore

\* Two sums of the same digits, of which one began k digits earlier.
Sums(k, m, digit, Z, low, part) ==
    /\ Z[k] \in Nat /\ low[k] \in Nat /\ part[0] = 0
    /\ \A j \in 0 .. m : Z[k + j] = Z[k] * Z[j] /\ Z[j] \in Nat /\ part[j] \in Nat
    /\ \A j \in 0 .. m - 1 : /\ digit[k + j] \in Nat
                             /\ low[k + (j + 1)] = low[k + j] + digit[k + j] * Z[k + j]
                             /\ part[j + 1] = part[j] + digit[k + j] * Z[j]

\* The longer sum is the sum of its low digits and of the shorter one, moved up.
LEMMA PartSums ==
    ASSUME NEW k \in Nat, NEW m \in Nat, NEW digit, NEW Z, NEW low, NEW part,
           Sums(k, m, digit, Z, low, part)
    PROVE  low[k + m] = low[k] + part[m] * Z[k]
<1> DEFINE S == {j \in Nat : j <= m => low[k + j] = low[k] + part[j] * Z[k]}
<1>1. 0 \in S
  <2>1. Z[k] \in Nat /\ low[k] \in Nat /\ part[0] = 0
    BY DEF Sums
  <2>2. low[k + 0] = low[k] + part[0] * Z[k]
    BY <2>1
  <2> QED
    BY <2>2
<1>2. ASSUME NEW j \in Nat, j \in S PROVE j + 1 \in S
  <2> SUFFICES ASSUME j + 1 <= m PROVE low[k + (j + 1)] = low[k] + part[j + 1] * Z[k]
    OBVIOUS
  <2>1. j \in 0 .. m - 1 /\ j \in 0 .. m /\ j <= m
    OBVIOUS
  <2>2. low[k + j] = low[k] + part[j] * Z[k]
    BY <1>2, <2>1
  <2> HIDE DEF S
  <2>3. /\ Z[k + j] = Z[k] * Z[j] /\ Z[j] \in Nat /\ part[j] \in Nat
        /\ Z[k] \in Nat /\ low[k] \in Nat
    BY <2>1 DEF Sums
  <2>4. digit[k + j] \in Nat /\ low[k + (j + 1)] = low[k + j] + digit[k + j] * Z[k + j]
        /\ part[j + 1] = part[j] + digit[k + j] * Z[j]
    BY <2>1 DEF Sums
  <2> QED
    BY <2>2, <2>3, <2>4, OneMore
<1> HIDE DEF S
<1>3. \A j \in Nat : j \in S
  BY <1>1, <1>2, Induction DEF S
<1>4. m \in S
  BY <1>3
<1> QED
  BY <1>4 DEF S

\* A number from its digits at k, taken apart.
LEMMA FromDigit ==
    ASSUME NEW w \in Nat, NEW b \in Nat, NEW digit, Digits(w, b, digit),
           NEW low, LowDigits(w, b, digit, low),
           NEW k \in Nat, NEW m \in Nat, k + m <= w,
           NEW part, LowDigits(m, b, Cut(digit, k, m), part)
    PROVE  low[k + m] = low[k] + part[m] * Weight(b, k)
<1> DEFINE Z == [n \in 0 .. w |-> Weight(b, n)]
<1>0. Digits(m, b, Cut(digit, k, m))
  BY SomeDigits
<1>1. \A n \in 0 .. w : Z[n] = Weight(b, n)
  OBVIOUS
<1> HIDE DEF Z
<1>2. \A j \in 0 .. m : Z[k + j] = Z[k] * Z[j] /\ Z[j] \in Nat /\ Z[k] \in Nat
  <2> TAKE j \in 0 .. m
  <2>1. j \in Nat /\ k + j <= w /\ k + j \in 0 .. w /\ j \in 0 .. w /\ k \in 0 .. w
    OBVIOUS
  <2>2. /\ Weight(b, k + j) = Weight(b, k) * Weight(b, j)
        /\ Weight(b, k) \in Nat \ {0} /\ Weight(b, j) \in Nat \ {0}
    BY <2>1, Weights
  <2> QED
    BY <1>1, <2>1, <2>2
<1>3. \A n \in 0 .. m : part[n] \in Nat
  BY <1>0, DigitRange
<1>4. low[k] \in Nat /\ k \in 0 .. w /\ Z[k] \in Nat
  <2>1. k \in 0 .. w /\ 0 \in 0 .. m
    OBVIOUS
  <2> QED
    BY <2>1, <1>2, DigitRange
<1>5. part[0] = 0
  BY DigitStep
<1>6. \A j \in 0 .. m - 1 : /\ digit[k + j] \in Nat
                            /\ low[k + (j + 1)] = low[k + j] + digit[k + j] * Z[k + j]
                            /\ part[j + 1] = part[j] + digit[k + j] * Z[j]
  <2> TAKE j \in 0 .. m - 1
  <2>1. /\ k + j \in 0 .. w - 1 /\ k + j + 1 = k + (j + 1) /\ j + k = k + j
        /\ k + j \in 0 .. w /\ j \in 0 .. w
    OBVIOUS
  <2>2. digit[k + j] \in Nat
    BY <2>1, DigitRange
  <2>3. Cut(digit, k, m)[j] = digit[k + j]
    BY <2>1 DEF Cut
  <2>4. low[k + j + 1] = low[k + j] + digit[k + j] * Weight(b, k + j)
    BY <2>1, DigitStep
  <2>5. part[j + 1] = part[j] + Cut(digit, k, m)[j] * Weight(b, j)
    BY DigitStep
  <2> QED
    BY <1>1, <2>1, <2>2, <2>3, <2>4, <2>5
<1>7. Sums(k, m, digit, Z, low, part)
  <2>1. \A j \in 0 .. m : Z[k + j] = Z[k] * Z[j] /\ Z[j] \in Nat /\ part[j] \in Nat
    BY <1>2, <1>3
  <2> QED
    BY <1>4, <1>5, <1>6, <2>1 DEF Sums
<1>8. low[k + m] = low[k] + part[m] * Z[k]
  BY <1>7, PartSums
<1> QED
  BY <1>1, <1>4, <1>8

\* What is above the first n digits is a multiple.
LEMMA AboveDigit ==
    ASSUME NEW w \in Nat, NEW b \in Nat, NEW digit, Digits(w, b, digit),
           NEW low, LowDigits(w, b, digit, low), NEW n \in 0 .. w
    PROVE  \E q \in Nat : low[w] = low[n] + q * Weight(b, n)
<1>1. PICK m \in Nat : n + m = w
  <2>1. w - n \in Nat /\ n + (w - n) = w
    OBVIOUS
  <2> QED
    BY <2>1
<1>2. n \in Nat /\ n + m <= w /\ m \in 0 .. m
  BY <1>1
<1>3. Digits(m, b, Cut(digit, n, m))
  BY <1>2, SomeDigits
<1>4. PICK part : LowDigits(m, b, Cut(digit, n, m), part)
  BY AssembleDefined
<1>5. low[n + m] = low[n] + part[m] * Weight(b, n)
  BY <1>2, <1>4, FromDigit
<1>6. part[m] \in Nat
  BY <1>2, <1>3, <1>4, DigitRange
<1> QED
  BY <1>1, <1>5, <1>6

\* Digits k .. k + m - 1 of a number, by division and remainder.
LEMMA CutDigits ==
    ASSUME NEW w \in Nat, NEW b \in Nat, NEW digit, Digits(w, b, digit),
           NEW k \in Nat, NEW m \in Nat, k + m <= w
    PROVE  (Assemble(w, b, digit) \div Weight(b, k)) % Weight(b, m)
              = Assemble(m, b, Cut(digit, k, m))
<1>1. PICK low : LowDigits(w, b, digit, low) /\ Assemble(w, b, digit) = low[w]
  BY AssembleIs
<1>2. PICK part : /\ LowDigits(m, b, Cut(digit, k, m), part)
                  /\ Assemble(m, b, Cut(digit, k, m)) = part[m]
  BY AssembleIs
<1>3. Digits(m, b, Cut(digit, k, m))
  BY SomeDigits
<1>4. /\ Weight(b, k + m) = Weight(b, k) * Weight(b, m)
      /\ Weight(b, k) \in Nat \ {0} /\ Weight(b, m) \in Nat \ {0}
  BY Weights
<1>5. low[k + m] = low[k] + part[m] * Weight(b, k)
  BY <1>1, <1>2, FromDigit
<1>6. k + m \in 0 .. w /\ m \in 0 .. m /\ k \in 0 .. w
  OBVIOUS
<1>7. PICK q \in Nat : low[w] = low[k + m] + q * Weight(b, k + m)
  BY <1>1, <1>6, AboveDigit
<1>8. part[m] \in 0 .. Weight(b, m) - 1
  BY <1>2, <1>3, <1>6, DigitRange
<1>9. low[k] \in 0 .. Weight(b, k) - 1
  BY <1>1, <1>6, DigitRange
<1>10. low[w] = low[k] + part[m] * Weight(b, k) + q * (Weight(b, k) * Weight(b, m))
  BY <1>4, <1>5, <1>7
<1>11. (low[w] \div Weight(b, k)) % Weight(b, m) = part[m]
  <2> DEFINE x == low[w]
             P == Weight(b, k)
             Q == Weight(b, m)
             l == low[k]
             d == part[m]
  <2>1. Parts(x, l, d, q, P, Q)
    BY <1>4, <1>8, <1>9, <1>10 DEF Parts
  <2> HIDE DEF x, P, Q, l, d
  <2>2. (x \div P) % Q = d
    BY <2>1, Middle
  <2> QED
    BY <2>2 DEF x, P, Q, d
<1> QED
  BY <1>1, <1>2, <1>11
----------------------------------------------------------------------------
\* The sizes of a word and of its halves.
LEMMA WordSizes ==
    /\ WORDS \in Nat /\ WORDS >= 256
    /\ HALF_WIDTH \in 1 .. DATA_WIDTH /\ HALF_WORDS \in Nat \ {0}
    /\ HALF_WORDS * HALF_WORDS = WORDS
<1>1. HALF_WIDTH \in 1 .. DATA_WIDTH /\ HALF_WIDTH + HALF_WIDTH = DATA_WIDTH
  BY PowersOfTwo DEF HALF_WIDTH
<1>2. DATA_WIDTH >= 8
  BY MemShape
<1>3. 2^2 = 4 /\ 2^4 = 16 /\ 2^8 = 256
  <2>1. 2^(1 + 1) = 2^1 * 2^1 /\ 2^(2 + 2) = 2^2 * 2^2 /\ 2^(4 + 4) = 2^4 * 2^4
    BY <1>2, PowersOfTwo
  <2> QED
    BY <2>1, PowersOfTwo
<1>4. 2^8 <= 2^DATA_WIDTH /\ 2^DATA_WIDTH \in Nat
  <2>1. 8 <= DATA_WIDTH /\ 8 \in 0 .. DATA_WIDTH /\ DATA_WIDTH \in 0 .. DATA_WIDTH
    BY <1>2, PowersOfTwo
  <2>2. \A m \in 0 .. DATA_WIDTH : m <= DATA_WIDTH => 2^m <= 2^DATA_WIDTH /\ 2^DATA_WIDTH \in Nat
    BY <2>1, PowersOfTwo, Powers
  <2> QED
    BY <2>1, <2>2
<1>5. 2^HALF_WIDTH \in Nat \ {0} /\ 2^HALF_WIDTH * 2^HALF_WIDTH = 2^DATA_WIDTH
  BY <1>1, PowersOfTwo
<1> QED
  BY <1>1, <1>3, <1>4, <1>5 DEF WORDS, HALF_WORDS

\* A number of w bits is extended to a word.
LEMMA Extended ==
    ASSUME NEW w \in 1 .. DATA_WIDTH, NEW x \in 0 .. 2^w - 1
    PROVE  Sext(w, x) \in Word /\ Zext(w, x) \in Word
<1>1. 2^w \in Nat \ {0} /\ 2^w <= 2^DATA_WIDTH /\ 2^(w - 1) \in Nat
  <2>1. w \in 0 .. DATA_WIDTH /\ w - 1 \in 0 .. DATA_WIDTH /\ DATA_WIDTH \in 0 .. DATA_WIDTH
    BY PowersOfTwo
  <2> QED
    BY <2>1, Powers
<1>2. 2^DATA_WIDTH \in Nat
  BY PowersOfTwo
<1> QED
  BY <1>1, <1>2 DEF Sext, Zext, Word, WORDS

\* Bits make a number of as many bits.
LEMMA Bits ==
    ASSUME NEW w \in 1 .. DATA_WIDTH, NEW digit \in [0 .. w - 1 -> {0, 1}]
    PROVE  Assemble(w, 1, digit) \in 0 .. 2^w - 1
<1>1. w \in Nat /\ 1 \in Nat /\ 1 * w = w /\ 1 * w <= DATA_WIDTH
  BY PowersOfTwo
<1>2. digit \in [0 .. w - 1 -> 0 .. 2^1 - 1]
  BY PowersOfTwo
<1>3. Assemble(w, 1, digit) \in 0 .. 2^(1 * w) - 1
  BY <1>1, <1>2, AssembleRange
<1> QED
  BY <1>1, <1>3

\* A bit of a word is 0 or 1.
LEMMA BitRange == ASSUME NEW x \in Int, NEW i \in 0 .. DATA_WIDTH PROVE BitAt(x, i) \in {0, 1}
<1>1. 2^i \in Nat \ {0}
  BY PowersOfTwo
<1>2. \A p \in Nat \ {0} : (x \div p) % 2 \in {0, 1}
  OBVIOUS
<1> QED
  BY <1>1, <1>2 DEF BitAt

\* The first bits of a number, in reverse, are a number of as many bits.
LEMMA ReversedRange ==
    ASSUME NEW w \in 1 .. DATA_WIDTH, NEW x \in Int
    PROVE  Reversed(w, x) \in 0 .. 2^w - 1
<1>1. \A i \in 0 .. w - 1 : w - 1 - i \in 0 .. DATA_WIDTH
  BY PowersOfTwo
<1>2. [i \in 0 .. w - 1 |-> BitAt(x, w - 1 - i)] \in [0 .. w - 1 -> {0, 1}]
  BY <1>1, BitRange
<1> QED
  BY <1>2, Bits DEF Reversed

\* A word built bit by bit is a word.
LEMMA Bitwise2Range ==
    ASSUME NEW A, NEW B, NEW sums PROVE Bitwise2(A, B, sums) \in Word
<1>1. DATA_WIDTH \in 1 .. DATA_WIDTH
  BY PowersOfTwo
<1> QED
  BY <1>1, Bits DEF Bitwise2, Word, WORDS

\* Both widths of the adder wrap around inside their width.
LEMMA AddRange ==
    ASSUME NEW A \in Word, NEW B \in Word, NEW op
    PROVE  Add32(A, B, op) \in 0 .. HALF_WORDS - 1 /\ Add64(A, B, op) \in Word
<1>1. Rhs(B, op) \in Int
  BY WordSizes DEF Rhs, Word
<1>2. Low(A) + Low(Rhs(B, op)) \in Int /\ High(A) + High(Rhs(B, op)) \in Int
  BY <1>1, WordSizes DEF Low, High, Word
<1>3. Add32(A, B, op) \in 0 .. HALF_WORDS - 1 /\ Carry(A, B, op) \in Int
  BY <1>2, WordSizes DEF Add32, Carry
<1>4. (High(A) + High(Rhs(B, op)) + Carry(A, B, op)) % HALF_WORDS \in 0 .. HALF_WORDS - 1
  BY <1>2, <1>3, WordSizes
<1>5. Add64(A, B, op) \in 0 .. HALF_WORDS * HALF_WORDS - 1
  BY <1>3, <1>4, NextDigit, WordSizes DEF Add64
<1> QED
  BY <1>3, <1>5, WordSizes DEF Word

\* A shift of a word, either way and either width, is a word.
LEMMA ShiftRange ==
    ASSUME NEW A \in Word, NEW B \in Word, NEW op
    PROVE  Shift64(A, B, op) \in Word
<1>1. DATA_WIDTH \in 1 .. DATA_WIDTH /\ A \in Int /\ B \in Int
  BY PowersOfTwo, WordSizes DEF Word
<1>2. Low(A) \in 0 .. HALF_WORDS - 1
  BY <1>1, WordSizes DEF Low
<1>3. Reversed(DATA_WIDTH, A) \in Word
  BY <1>1, ReversedRange DEF Word, WORDS
<1>4. Reversed(HALF_WIDTH, A) \in 0 .. HALF_WORDS - 1
  BY <1>1, ReversedRange, WordSizes DEF HALF_WORDS
<1>5. \A x \in 0 .. HALF_WORDS - 1 : Zext(HALF_WIDTH, x) \in Word /\ Sext(HALF_WIDTH, x) \in Word
  BY Extended, WordSizes DEF HALF_WORDS
<1>6. Reversed(HALF_WIDTH, A) \in Word
  BY <1>4, <1>5 DEF Zext
<1>7. Shed(A, op) \in Word
  BY <1>2, <1>3, <1>5, <1>6 DEF Shed
<1>8. Fillbit(A, op) \in {0, 1}
  <2>1. DATA_WIDTH - 1 \in 0 .. DATA_WIDTH /\ HALF_WIDTH - 1 \in 0 .. DATA_WIDTH
    BY WordSizes, PowersOfTwo
  <2> QED
    BY <1>1, <2>1, BitRange DEF Fillbit
<1>9. Shamt(B, op) \in 0 .. DATA_WIDTH
  BY <1>1, WordSizes, PowersOfTwo DEF Shamt
<1>10. Shift(A, B, op) \in Word
  <2>1. 2^Shamt(B, op) \in Nat \ {0}
    BY <1>9, PowersOfTwo
  <2>2. Shed(A, op) - Fillbit(A, op) * WORDS \in Int
    BY <1>7, <1>8, WordSizes DEF Word
  <2>3. (Shed(A, op) - Fillbit(A, op) * WORDS) \div 2^Shamt(B, op) \in Int
    BY <2>1, <2>2
  <2> QED
    BY <2>3, WordSizes DEF Shift, Word
<1>11. Reversed(DATA_WIDTH, Shift(A, B, op)) \in Word
  BY <1>1, <1>10, ReversedRange, WordSizes DEF Word, WORDS
<1> QED
  BY <1>6, <1>10, <1>11 DEF Shift64

\* The result of the ALU is a word, whatever the operation.
LEMMA AluRange ==
    ASSUME NEW A \in Word, NEW B \in Word, NEW op
    PROVE  AluC(A, B, op) \in Word
<1>1. 0 \in Word /\ AluCmp(A, B, op) \in Word
  BY WordSizes DEF Word, AluCmp
<1>2. \A x \in 0 .. HALF_WORDS - 1 : Sext(HALF_WIDTH, x) \in Word
  BY Extended, WordSizes DEF HALF_WORDS
<1>3. Low(Shift64(A, B, op)) \in 0 .. HALF_WORDS - 1
  BY ShiftRange, WordSizes DEF Low, Word
<1> QED
  BY <1>1, <1>2, <1>3, AddRange, ShiftRange, Bitwise2Range DEF AluC

----------------------------------------------------------------------------
(* The memory                                                              *)

\* No access is wider than a word.
LEMMA Widths ==
    ASSUME NEW wid
    PROVE  /\ Bytes(wid) \in {1, 2, 4, 8} /\ BYTE * Bytes(wid) \in 1 .. DATA_WIDTH
           /\ \A i \in 0 .. Bytes(wid) - 1 : BYTE * i \in 0 .. DATA_WIDTH
<1>1. Bytes(wid) \in {1, 2, 4, 8}
  BY DEF Bytes
<1>2. \A i \in 0 .. 8 : BYTE * i \in 0 .. DATA_WIDTH /\ (i > 0 => BYTE * i > 0)
  BY MemShape
<1> QED
  BY <1>1, <1>2

Contents == [PAddrs -> 0 .. 2^BYTE - 1]

\* Every address is folded into the memory.
LEMMA Physical == ASSUME NEW a \in Int PROVE PAddr(a) \in PAddrs
<1>1. 2^RAM_SIZE \in Nat \ {0}
  BY MemShape, PowersOfTwo
<1> QED
  BY <1>1 DEF PAddr, PAddrs

\* The memory is a number of doublewords.
LEMMA Doublewords == \E K \in Nat \ {0} : 2^RAM_SIZE = 8 * K
<1>1. 3 \in 0 .. DATA_WIDTH /\ RAM_SIZE - 3 \in 0 .. DATA_WIDTH /\ 3 + (RAM_SIZE - 3) = RAM_SIZE
      /\ RAM_SIZE <= DATA_WIDTH /\ 1 \in 0 .. DATA_WIDTH /\ 2 \in 0 .. DATA_WIDTH
  BY MemShape, PowersOfTwo
<1>2. 2^3 = 8
  <2>1. 2^(1 + 1) = 2^1 * 2^1 /\ 2^(1 + 2) = 2^1 * 2^2
    BY <1>1, PowersOfTwo
  <2> QED
    BY <2>1, PowersOfTwo
<1>3. 2^RAM_SIZE = 2^3 * 2^(RAM_SIZE - 3) /\ 2^(RAM_SIZE - 3) \in Nat \ {0}
  BY <1>1, PowersOfTwo
<1> QED
  BY <1>2, <1>3

\* The lowest bits of an address are those of the physical one.
LEMMA SameLowBits ==
    ASSUME NEW a \in Nat
    PROVE  /\ PAddr(a) \in PAddrs /\ PAddr(a) \in Nat
           /\ PAddr(a) % 8 = a % 8 /\ PAddr(a) % 4 = a % 4
<1>1. 2^RAM_SIZE \in Nat \ {0} /\ Divides(8, 2^RAM_SIZE) /\ Divides(4, 2^RAM_SIZE)
  <2>1. PICK K \in Nat \ {0} : 2^RAM_SIZE = 8 * K
    BY Doublewords
  <2>2. 2 * K \in Nat \ {0} /\ 8 * K = 4 * (2 * K) /\ 8 * K \in Nat \ {0}
    OBVIOUS
  <2>3. Divides(8, 8 * K)
    BY DEF Divides
  <2>4. Divides(4, 8 * K)
    BY <2>2 DEF Divides
  <2> QED
    BY <2>1, <2>2, <2>3, <2>4
<1>2. SameRest(a, 2^RAM_SIZE, 8) /\ SameRest(a, 2^RAM_SIZE, 4)
  <2>1. 8 \in Nat \ {0} /\ 4 \in Nat \ {0} /\ a \in Int
    OBVIOUS
  <2> QED
    BY <1>1, <2>1, LowRest
<1>3. a % 2^RAM_SIZE \in 0 .. 2^RAM_SIZE - 1
  BY <1>1
<1> QED
  BY <1>1, <1>2, <1>3 DEF PAddr, PAddrs, SameRest
\* n bytes of the memory are a number of as many bits.
LEMMA RawRange ==
    ASSUME NEW r \in Contents, NEW addr \in Int, NEW n \in {1, 2, 4, 8}
    PROVE  /\ [i \in 0 .. n - 1 |-> r[(PAddr(addr) + i) % 2^RAM_SIZE]]
                 \in [0 .. n - 1 -> 0 .. 2^BYTE - 1]
           /\ Raw(r, addr, n) \in 0 .. 2^(BYTE * n) - 1
<1> DEFINE bytes == [i \in 0 .. n - 1 |-> r[(PAddr(addr) + i) % 2^RAM_SIZE]]
<1>1. n \in Nat /\ BYTE \in Nat /\ BYTE * n <= DATA_WIDTH
  BY MemShape
<1>2. \A i \in 0 .. n - 1 : (PAddr(addr) + i) % 2^RAM_SIZE \in PAddrs
  <2> TAKE i \in 0 .. n - 1
  <2>1. PAddr(addr) + i \in Int
    BY <1>1, Physical DEF PAddrs
  <2> QED
    BY <2>1, Physical DEF PAddr
<1>3. bytes \in [0 .. n - 1 -> 0 .. 2^BYTE - 1]
  BY <1>2 DEF Contents
<1>4. Raw(r, addr, n) \in 0 .. 2^(BYTE * n) - 1
  <2> HIDE DEF bytes
  <2>1. Assemble(n, BYTE, bytes) \in 0 .. 2^(BYTE * n) - 1
    BY <1>1, <1>3, AssembleRange
  <2> QED
    BY <2>1 DEF Raw, bytes
<1> QED
  BY <1>3, <1>4

\* A load returns a word.
LEMMA ReadRange ==
    ASSUME NEW r \in Contents, NEW addr \in Word, NEW wid
    PROVE  MemRead(r, addr, wid) \in Word
<1> DEFINE n == Bytes(wid)
<1>1. addr \in Int /\ n \in {1, 2, 4, 8} /\ BYTE * n \in 1 .. DATA_WIDTH
  BY Widths, WordSizes DEF Word
<1> HIDE DEF n
<1>2. Raw(r, addr, n) \in 0 .. 2^(BYTE * n) - 1
  BY <1>1, RawRange
<1>3. Sext(BYTE * n, Raw(r, addr, n)) \in Word /\ Zext(BYTE * n, Raw(r, addr, n)) \in Word
  BY <1>1, <1>2, Extended
<1> QED
  BY <1>3, WordSizes DEF MemRead, Word, n

\* n bytes inside a doubleword, cut out of it.
LEMMA LaneRead ==
    ASSUME NEW r \in Contents, NEW a \in Nat, NEW n \in {1, 2, 4, 8}, (a % 8) + n <= 8
    PROVE  (Raw(r, 8 * (PAddr(a) \div 8), 8) \div Weight(BYTE, a % 8)) % Weight(BYTE, n)
              = Raw(r, a, n)
<1> DEFINE p == PAddr(a)
           k == a % 8
           d == 8 * (p \div 8)
           bytes == [i \in 0 .. 7 |-> r[(PAddr(d) + i) % 2^RAM_SIZE]]
<1>1. p \in Nat /\ p \in 0 .. 2^RAM_SIZE - 1 /\ p % 8 = k /\ k \in 0 .. 7
  BY SameLowBits DEF PAddrs
<1>2. d \in Nat /\ d <= p /\ p = d + k
  <2> HIDE DEF p, k
  <2> QED
    BY <1>1
<1>3. 2^RAM_SIZE \in Nat \ {0}
  BY MemShape, PowersOfTwo
<1>4. PAddr(d) = d
  <2> HIDE DEF p, d
  <2>1. d \in 0 .. 2^RAM_SIZE - 1
    BY <1>1, <1>2, <1>3
  <2>2. \A P \in Nat \ {0} : \A x \in 0 .. P - 1 : x % P = x
    OBVIOUS
  <2> QED
    BY <1>3, <2>1, <2>2 DEF PAddr
<1> HIDE DEF p, d, k
<1>5. Digits(8, BYTE, bytes) /\ Raw(r, d, 8) = Assemble(8, BYTE, bytes)
  <2>1. bytes \in [0 .. 7 -> 0 .. 2^BYTE - 1]
    <3>1. \A i \in 0 .. 7 : r[(PAddr(d) + i) % 2^RAM_SIZE] \in 0 .. 2^BYTE - 1
      <4> TAKE i \in 0 .. 7
      <4>1. PAddr(d) + i \in Int
        BY <1>2, <1>4
      <4>2. (PAddr(d) + i) % 2^RAM_SIZE \in PAddrs
        BY <4>1, Physical DEF PAddr
      <4> QED
        BY <4>2 DEF Contents
    <3> QED
      BY <3>1
  <2>2. BYTE * 8 <= DATA_WIDTH
    BY MemShape
  <2>3. Raw(r, d, 8) = Assemble(8, BYTE, bytes)
    BY DEF Raw
  <2> QED
    BY <2>1, <2>2, <2>3 DEF Digits
<1>6. Cut(bytes, k, n) = [i \in 0 .. n - 1 |-> r[(PAddr(a) + i) % 2^RAM_SIZE]]
  <2>1. ASSUME NEW i \in 0 .. n - 1
        PROVE  bytes[i + k] = r[(PAddr(a) + i) % 2^RAM_SIZE]
    <3>1. i + k \in 0 .. 7 /\ PAddr(d) + (i + k) = PAddr(a) + i
      BY <1>1, <1>2, <1>4 DEF p, k
    <3> QED
      BY <3>1
  <2> HIDE DEF bytes
  <2> QED
    BY <2>1 DEF Cut
<1> HIDE DEF bytes
<1>7. (Assemble(8, BYTE, bytes) \div Weight(BYTE, k)) % Weight(BYTE, n)
         = Assemble(n, BYTE, Cut(bytes, k, n))
  <2>1. k \in Nat /\ n \in Nat /\ BYTE \in Nat /\ k + n <= 8
    BY <1>1, MemShape DEF k
  <2> QED
    BY <1>5, <2>1, CutDigits
<1>8. Raw(r, a, n) = Assemble(n, BYTE, Cut(bytes, k, n))
  BY <1>6 DEF Raw
<1> QED
  BY <1>5, <1>7, <1>8 DEF k, d, p

\* The n bytes at p, which is a multiple of n, by their doubleword and lane.
ByLanes(x, p, n) ==
    /\ (x \div 8 = p \div 8 /\ x % 8 \in {k + (p % 8) : k \in 0 .. n - 1} \cap (0 .. 7))
          <=> x - p \in 0 .. n - 1
    /\ x - p \in 0 .. n - 1 => (x % 8) % n = x - p

\* The byte enables select the bytes that start at an aligned address.
LEMMA Lanes ==
    ASSUME NEW p \in Nat, NEW x \in Nat, NEW n \in {1, 2, 4, 8}, p % n = 0
    PROVE  ByLanes(x, p, n)
<1>1. x % 8 \in {k + (p % 8) : k \in 0 .. n - 1} \cap (0 .. 7)
        <=> (x % 8) - (p % 8) \in 0 .. n - 1
  <2>1. x % 8 \in 0 .. 7 /\ p % 8 \in 0 .. 7
    OBVIOUS
  <2>2. (x % 8) - (p % 8) \in 0 .. n - 1 => x % 8 = ((x % 8) - (p % 8)) + (p % 8)
    OBVIOUS
  <2> QED
    BY <2>1, <2>2
<1> DEFINE X == x \div 8
           y == x % 8
           D == p \div 8
           q == p % 8
<1>2. X \in Int /\ D \in Int /\ y \in 0 .. 7 /\ q \in 0 .. 7 /\ x = 8 * X + y /\ p = 8 * D + q
  OBVIOUS
<1>3. q % n = 0
  OBVIOUS
<1> HIDE DEF X, y, D, q
<1>4. (X = D /\ y - q \in 0 .. n - 1) <=> x - p \in 0 .. n - 1
  <2>1. X = D => y - q = x - p
    BY <1>2
  <2>2. x - p \in 0 .. n - 1 => X = D
    BY <1>2, <1>3
  <2> QED
    BY <2>1, <2>2
<1>5. X = D /\ y - q \in 0 .. n - 1 => y % n = y - q
  BY <1>2, <1>3
<1>6. X = D => y - q = x - p
  BY <1>2
<1>7. y \in {k + q : k \in 0 .. n - 1} \cap (0 .. 7) <=> y - q \in 0 .. n - 1
  BY <1>1 DEF y, q
<1>8. X = D /\ y \in {k + q : k \in 0 .. n - 1} \cap (0 .. 7) <=> x - p \in 0 .. n - 1
  BY <1>4, <1>7
<1>9. x - p \in 0 .. n - 1 => y % n = x - p
  BY <1>4, <1>5, <1>6
<1> QED
  BY <1>8, <1>9, Zenon DEF X, D, y, q, ByLanes

\* A store leaves bytes in the memory.
LEMMA WriteRange ==
    ASSUME NEW r \in Contents, NEW addr, NEW wid, NEW wdata \in Word
    PROVE  MemWrite(r, addr, wid, wdata) \in Contents
<1>1. 2^BYTE \in Nat \ {0} /\ wdata \in Int
  BY MemShape, PowersOfTwo, WordSizes DEF Word
<1>2. \A i \in 0 .. Bytes(wid) - 1 : (wdata \div 2^(BYTE * i)) % 2^BYTE \in 0 .. 2^BYTE - 1
  <2> TAKE i \in 0 .. Bytes(wid) - 1
  <2>1. 2^(BYTE * i) \in Nat \ {0}
    BY Widths, PowersOfTwo
  <2>2. wdata \div 2^(BYTE * i) \in Int
    BY <1>1, <2>1
  <2> QED
    BY <1>1, <2>2
<1> QED
  BY <1>2 DEF MemWrite, Contents

----------------------------------------------------------------------------
(* The decoder                                                             *)

\* What the bits of Enable say about each other and about SpecInst.
LEMMA DecodeShape ==
    ASSUME NEW inst
    PROVE  /\ ("MWRITE" \in Enables(inst)) <=> (SpecInst(inst) = "S_STORE")
           /\ "MWRITE" \in Enables(inst) => /\ "RD" \notin Enables(inst)
                                            /\ "MREAD" \notin Enables(inst)
                                            /\ "RS2" \in Enables(inst)
  BY DEF Enables, EnableSignals, SpecInst, WritesRd, ReadsRs1, ReadsRs2, Opcodes

\* The empty word names register 0 three times.
LEMMA ZeroRegs == HasRegs(ZeroInst)
  BY CpuAssumption DEF HasRegs, ZeroInst

\* Whatever is fetched, its register fields are in range.
LEMMA FetchRegs ==
    ASSUME \A a \in CodeAddrs : HasRegs(rom[a]), NEW x
    PROVE  HasRegs(Fetch(x))
  BY ZeroRegs DEF Fetch, FetchIllegal

----------------------------------------------------------------------------
(* Control signals keep their range                                        *)

\* At power-on every control signal is in range.
LEMMA InitControl == Init => ControlOK
  BY PowerOnAssumption, ZeroRegs, CpuAssumption
  DEF Init, CpuInit, ControlOK, BitSet, HasRegs, Instructions, ZeroIfid, ZeroIdex, ZeroExmem,
      ZeroMem1mem2, ZeroMem2mem3, ZeroMemwb

\* No edge, also under reset, takes a control signal out of its range, if the
\* memory answers a fetch with an instruction.
LEMMA ControlStep ==
    ASSUME ControlOK, FetchEdge, StageEdge, GprEdge, Pin, rom' = rom, HasRegs(rinst')
    PROVE  ControlOK'
<1>1. rst' \in BitSet
  BY CpuAssumption DEF Pin, BitSet
<1>2. /\ flush_persistence' \in BitSet /\ stall_persistence' \in BitSet
      /\ HasRegs(inst_delay')
  BY ZeroRegs DEF FetchEdge, ControlOK, BitSet, Bit, inst_safe
<1>3. /\ ifid'.enable \in BitSet /\ HasRegs(ifid'.Inst)
      /\ idex'.enable \in BitSet /\ idex'.RS1 \in Regs /\ idex'.RS2 \in Regs
  <2>1. HasRegs(ifid_in.Inst) /\ ifid_in.enable \in BitSet
    BY ZeroRegs DEF ControlOK, ifid_in, inst_safe, BitSet, Bit
  <2>2. /\ idex_in.enable \in BitSet
        /\ idex_in.RS1 \in Regs /\ idex_in.RS2 \in Regs
    BY DEF ControlOK, idex_in, HasRegs
  <2> QED
    BY <2>1, <2>2, ZeroRegs, CpuAssumption
    DEF StageEdge, ifid_next, idex_next, ControlOK, ZeroIfid, ZeroIdex, BitSet
<1>4. /\ exmem'.Reg_WEn \in BitSet /\ exmem'.Mem_REn \in BitSet
      /\ exmem'.Mem_WEn \in BitSet /\ exmem'.RS2 \in Regs
  BY CpuAssumption DEF StageEdge, exmem_next, ControlOK, exmem_in, ZeroExmem, BitSet, Bit
<1>5. /\ mem1mem2'.Reg_WEn \in BitSet /\ mem1mem2'.Mem_REn \in BitSet
      /\ mem2mem3'.Reg_WEn \in BitSet /\ mem2mem3'.Mem_REn \in BitSet
      /\ memwb'.Reg_WEn \in BitSet
  BY DEF StageEdge, ControlOK, mem1mem2_in, mem2mem3_in, memwb_in,
         ZeroMem1mem2, ZeroMem2mem3, ZeroMemwb, BitSet
<1>6. DOMAIN gprs' = Regs
  BY DEF GprEdge, ControlOK
<1> QED
  BY <1>1, <1>2, <1>3, <1>4, <1>5, <1>6 DEF ControlOK, HasRegs

\* The simulated memory does.
LEMMA NextControl == ControlOK /\ [Next]_vars => ControlOK'
<1>1. ControlOK /\ UNCHANGED vars => ControlOK'
  BY DEF ControlOK, vars, cpuVars, memVars, fetchVars, stageVars, HasRegs
<1>2. ASSUME ControlOK, Next PROVE ControlOK'
  <2>1. FetchEdge /\ MemEdge /\ StageEdge /\ GprEdge /\ Pin /\ rom' = rom
    BY <1>2 DEF Next, ResetEdge, RunEdge, Edge, CpuEdge
  <2>2. HasRegs(rinst')
    BY <1>2, <2>1, FetchRegs DEF MemEdge, ControlOK
  <2> QED
    BY <1>2, <2>1, <2>2, ControlStep
<1> QED
  BY <1>1, <1>2

\* Every one-bit signal is 0 or 1 and every register number that a stage
\* carries is one of the register file's (the structs of pipeline_pkg.sv).
THEOREM ControlInRange == Spec => []ControlOK
  BY InitControl, NextControl, PTL DEF Spec

----------------------------------------------------------------------------
(* Every register keeps its width                                          *)

RomOK == \A a \in CodeAddrs : rom[a] \in Instructions

\* What the decoder makes of an instruction.
LEMMA Decoded ==
    ASSUME NEW inst \in Instructions
    PROVE  /\ Imm(inst) \in Word /\ Enables(inst) \subseteq EnableSignals
           /\ AluOp(inst) \in AluOps /\ SpecInst(inst) \in SpecInsts
           /\ inst.rs1 \in Regs /\ inst.rs2 \in Regs /\ inst.rd \in Regs
           /\ inst.funct3 \in 0 .. 7
<1>1. inst.funct3 \in 0 .. 7 /\ inst.imm \in Word /\ inst.rs1 \in Regs /\ inst.rs2 \in Regs /\ inst.rd \in Regs
  BY DEF Instructions
<1>2. Imm(inst) \in Word
  BY <1>1, WordSizes DEF Imm, Word
<1>3. AluOp(inst) \in AluOps
  BY DEF AluOp, AluOps, AluOfFunct3, AluOfBranch
<1>4. SpecInst(inst) \in SpecInsts
  BY DEF SpecInst, SpecInsts
<1> QED
  BY <1>1, <1>2, <1>3, <1>4 DEF Enables

\* The word of a bubble decodes to an instruction.
LEMMA ZeroIsInstruction == ZeroInst \in Instructions
  BY CpuAssumption, WordSizes DEF ZeroInst, Instructions, Word, Opcodes

\* Whatever the pc, the fetch gives an instruction.
LEMMA Fetched == ASSUME RomOK, NEW a PROVE Fetch(a) \in Instructions
  BY ZeroIsInstruction DEF RomOK, Fetch, FetchIllegal

\* The next address wraps around inside the width.
LEMMA NextAddress == ASSUME NEW a \in Word PROVE Plus4(a) \in Word
  BY WordSizes DEF Plus4, Word

\* Whatever the bypass network selects is a word.
LEMMA Selected ==
    ASSUME TypeOK, NEW source, NEW own \in Word
    PROVE  Mux(source, own) \in Word /\ WB_Data \in Word
  BY DEF TypeOK, Mux, WB_Data

\* What EX and the store path compute are words.
LEMMA ExRange ==
    ASSUME TypeOK
    PROVE  /\ alu_C \in Word /\ pcn_ex \in Word /\ memwrite_mem1 \in Word
           /\ exmem_in.Store_Data \in Word
<1>1. idex.Data1 \in Word /\ idex.Data2 \in Word /\ idex.Imm \in Word /\ idex.PC \in Word
      /\ exmem.Store_Data \in Word
  BY DEF TypeOK
<1>2. ExMuxAluA \in Word /\ ExMuxAluB \in Word
  BY <1>1, WordSizes DEF ExMuxAluA, ExMuxAluB, Word
<1>3. alu_A \in Word /\ alu_B \in Word /\ Rs1_BrJl \in Word
  BY <1>1, <1>2, Selected DEF alu_A, alu_B, Rs1_BrJl
<1>4. alu_C \in Word
  BY <1>3, AluRange DEF alu_C
<1>5. none_taken \in Word
  BY <1>1, NextAddress DEF none_taken
<1>6. \A a, b \in Word : (a + b) % WORDS \in Word
  BY WordSizes DEF Word
<1>7. \A t \in Word : t - (t % 2) \in Word
  BY WordSizes DEF Word
<1>8. imme_dst \in Word /\ reg_dst \in Word
  BY <1>1, <1>3, <1>6, <1>7 DEF imme_dst, reg_dst
<1>9. pcn_ex \in Word
  BY <1>5, <1>8 DEF pcn_ex, pcn, taken
<1>10. memwrite_mem1 \in Word /\ exmem_in.Store_Data \in Word
  BY <1>1, Selected DEF memwrite_mem1, exmem_in
<1> QED
  BY <1>4, <1>9, <1>10

\* The ranges hold at power-on.
LEMMA InitTypes == Init => TypeOK /\ RomOK
<1> SUFFICES ASSUME Init PROVE TypeOK /\ RomOK
  OBVIOUS
<1>1. 0 \in Word /\ 0 \in Regs
  BY CpuAssumption, WordSizes DEF Word
<1>2. RomOK /\ gprs \in [Regs -> Word] /\ ram \in [PAddrs -> 0 .. 2^BYTE - 1]
  BY PowerOnAssumption DEF Init, CpuInit, RomOK
<1>3. ifid \in [PC : Word, Inst : Instructions, enable : BitSet]
  BY <1>1, ZeroIsInstruction DEF Init, CpuInit, ZeroIfid, BitSet
<1>4. idex \in [PC : Word, Imm : Word, RS1 : Regs, RS2 : Regs, RD : Regs,
                 Data1 : Word, Data2 : Word, Enable : SUBSET EnableSignals,
                 ALUOp : AluOps, SpecInst : SpecInsts, Detail : 0 .. 7,
                 enable : BitSet]
  BY <1>1 DEF Init, CpuInit, ZeroIdex, BitSet, AluOps, SpecInsts
<1> QED
  BY <1>1, <1>2, <1>3, <1>4, ZeroIsInstruction
  DEF Init, CpuInit, TypeOK, BitSet, ZeroExmem, ZeroMem1mem2, ZeroMem2mem3, ZeroMemwb

\* Every edge keeps them, if the memory answers with an instruction, a word and
\* bytes.
LEMMA TypesStep ==
    ASSUME TypeOK, RomOK, PcEdge, FetchEdge, StageEdge, GprEdge, CommitEdge, ExceptionEdge,
           MonitorEdge, Pin, rom' = rom, rinst' \in Instructions,
           illegal_access' \in BitSet, rdata' \in Word, ram' \in Contents
    PROVE  TypeOK' /\ RomOK'
<1>0. 0 \in Word /\ 0 \in Regs /\ RESET_PC \in Word
  BY CpuAssumption, WordSizes DEF Word
<1>1. rst' \in BitSet /\ RomOK'
  BY CpuAssumption DEF Pin, BitSet, RomOK
<1>2. pc' \in Word /\ commit_pc' \in Word /\ pc_delayed' \in Word
  BY <1>0, ExRange, NextAddress DEF PcEdge, new_pc, CommitEdge, FetchEdge, TypeOK
<1>3. state' \in {"RST", "NORMAL", "HALT", "ERROR"}
  BY DEF MonitorEdge, nstate
<1>4. exceptions' \subseteq {"DecodeError", "MemAccessError", "ECALL", "EBREAK"}
  <2>1. EnvException(ifid.Inst) \subseteq {"ECALL", "EBREAK"}
    BY DEF EnvException
  <2>2. ~ (illegal_access = 1 /\ ifid_in.enable = 1 /\ ~ fetch_error_safe)
    BY DEF ifid_in, fetch_error_safe, Bit
  <2> QED
    BY <2>1, <2>2 DEF ExceptionEdge, RaisedExceptions
<1>5. inst_safe \in Instructions /\ inst_delay' \in Instructions
  BY ZeroIsInstruction DEF inst_safe, TypeOK, FetchEdge
<1>6. flush_persistence' \in BitSet /\ stall_persistence' \in BitSet
  BY DEF FetchEdge, Bit, BitSet, TypeOK
<1>7. gprs' \in [Regs -> Word]
  BY DEF GprEdge, TypeOK
<1>8. ifid' \in [PC : Word, Inst : Instructions, enable : BitSet]
  BY <1>0, <1>5, ZeroIsInstruction
  DEF StageEdge, ifid_next, ifid_in, ZeroIfid, Bit, BitSet, TypeOK
<1>9. idex' \in [PC : Word, Imm : Word, RS1 : Regs, RS2 : Regs, RD : Regs,
                  Data1 : Word, Data2 : Word, Enable : SUBSET EnableSignals,
                  ALUOp : AluOps, SpecInst : SpecInsts, Detail : 0 .. 7,
                  enable : BitSet]
  <2>1. ifid.Inst \in Instructions /\ ifid.PC \in Word /\ ifid.enable \in BitSet
    BY DEF TypeOK
  <2>2. \A r \in Regs : GprRead(r) \in Word
    BY DEF GprRead, TypeOK
  <2>3. CASE idex' = idex_in
    BY <2>1, <2>2, <2>3, Decoded DEF idex_in
  <2>4. CASE idex' = ZeroIdex
    BY <1>0, <2>4 DEF ZeroIdex, AluOps, SpecInsts, BitSet
  <2> QED
    BY <2>3, <2>4 DEF StageEdge, idex_next
<1>10. exmem' \in [ALU_Result : Word, Store_Data : Word, RS2 : Regs, RD_Addr : Regs,
                   Reg_WEn : BitSet, Mem_REn : BitSet, Mem_WEn : BitSet,
                   Detail : 0 .. 7, enable : BitSet]
  <2>1. CASE exmem' = exmem_in
    BY <2>1, ExRange DEF exmem_in, TypeOK, Bit, BitSet
  <2>2. CASE exmem' = ZeroExmem
    BY <1>0, <2>2 DEF ZeroExmem, BitSet
  <2> QED
    BY <2>1, <2>2 DEF StageEdge, exmem_next
<1>11. /\ mem1mem2' \in [RD_Addr : Regs, ALU_Result : Word, Reg_WEn : BitSet,
                          Mem_REn : BitSet, enable : BitSet]
       /\ mem2mem3' \in [RD_Addr : Regs, ALU_Result : Word, Reg_WEn : BitSet,
                          Mem_REn : BitSet, enable : BitSet, MemRead : Word]
  BY <1>0
  DEF StageEdge, mem1mem2_in, mem2mem3_in, ZeroMem1mem2, ZeroMem2mem3, TypeOK, BitSet
<1>12. memwb' \in [RD_Addr : Regs, WB_Data : Word, Reg_WEn : BitSet, enable : BitSet]
  BY <1>0 DEF StageEdge, memwb_in, WB_Data, ZeroMemwb, TypeOK, BitSet
<1> QED
  BY <1>1, <1>2, <1>3, <1>4, <1>5, <1>6, <1>7, <1>8, <1>9, <1>10, <1>11, <1>12
  DEF TypeOK, Contents

\* The simulated memory does.
LEMMA NextTypes == TypeOK /\ RomOK /\ [Next]_vars => TypeOK' /\ RomOK'
<1>1. TypeOK /\ RomOK /\ UNCHANGED vars => TypeOK' /\ RomOK'
  BY DEF TypeOK, RomOK, vars, cpuVars, memVars, fetchVars, stageVars
<1>2. ASSUME TypeOK, RomOK, Next PROVE TypeOK' /\ RomOK'
  <2>1. /\ PcEdge /\ FetchEdge /\ MemEdge /\ StageEdge /\ GprEdge /\ CommitEdge
        /\ ExceptionEdge /\ MonitorEdge /\ Pin /\ rom' = rom
    BY <1>2 DEF Next, ResetEdge, RunEdge, Edge, CpuEdge
  <2>2. rinst' \in Instructions /\ illegal_access' \in BitSet
    BY <1>2, <2>1, Fetched DEF MemEdge, Bit, BitSet
  <2>3. rdata' \in Word
    BY <1>2, <2>1, ReadRange DEF Contents, MemEdge, TypeOK
  <2>4. ram' \in Contents
    BY <1>2, <2>1, WriteRange, ExRange DEF Contents, MemEdge, TypeOK
  <2> QED
    BY <1>2, <2>1, <2>2, <2>3, <2>4, TypesStep
<1> QED
  BY <1>1, <1>2

\* Every flip-flop holds a value of its width at every edge, whatever the word
\* width, the program and the resets: no adder, shifter, extension, byte lane or
\* bypass lets a carry, a sign or a byte run over (the structs of pipeline_pkg.sv).
THEOREM TypesOK == Spec => []TypeOK
<1>1. Spec => [](TypeOK /\ RomOK)
  BY InitTypes, NextTypes, PTL DEF Spec
<1> QED
  BY <1>1, PTL

----------------------------------------------------------------------------
(* The bypass network                                                      *)

\* The multiplexer in front of EX picks the value of the youngest older
\* write, if no load is among the candidates in MEM1 and MEM2.
LEMMA MuxIsRegValue ==
    ASSUME ControlOK, NEW r, NEW own,
           ~ LoadBehindEx(r), ~ LoadBehindMem1(r), own = gprs[r]
    PROVE  Mux(BehindEx(r), own) = RegValue(r)
  BY DEF ControlOK, BitSet, LoadBehindEx, LoadBehindMem1, Mux, BehindEx, BehindMem1,
         HasResult, WritesReg, RegValue, OlderValue, Mem1Value, Mem2Value

\* The one in MEM1 does, or keeps what the store brought along.
LEMMA MuxIsOlderValue ==
    ASSUME ControlOK, NEW r, NEW own, ~ LoadBehindMem1(r), own = OlderValue(r)
    PROVE  Mux(BehindMem1(r), own) = OlderValue(r)
  BY DEF ControlOK, BitSet, LoadBehindMem1, Mux, BehindMem1,
         HasResult, WritesReg, OlderValue, Mem2Value

\* The bypass network delivers what an instruction-by-instruction machine would.
LEMMA BypassOperands == BypassInv => OperandsCurrent
<1> SUFFICES ASSUME BypassInv PROVE OperandsCurrent
  OBVIOUS
<1> USE DEF BypassInv
<1>1. ASSUME "RS1" \in idex.Enable, idex.RS1 # 0
      PROVE  alu_A = RegValue(idex.RS1) /\ Rs1_BrJl = RegValue(idex.RS1)
  <2>1. Mux(BehindEx(idex.RS1), idex.Data1) = RegValue(idex.RS1)
    BY <1>1, MuxIsRegValue DEF NoLoadUse, DataFresh
  <2> QED
    BY <1>1, <2>1 DEF alu_A, Rs1_BrJl, Forward_A, ExMuxAluA
<1>2. ASSUME "RS2" \in idex.Enable, idex.RS2 # 0
      PROVE  IF "MWRITE" \in idex.Enable
             THEN exmem_in.Store_Data = RegValue(idex.RS2) /\ alu_B = idex.Imm
             ELSE alu_B = RegValue(idex.RS2)
  <2>1. Mux(BehindEx(idex.RS2), idex.Data2) = RegValue(idex.RS2)
    BY <1>2, MuxIsRegValue DEF NoLoadUse, DataFresh
  <2>2. CASE "MWRITE" \in idex.Enable
    BY <1>2, <2>1, <2>2
    DEF StoreShape, alu_B, Forward_B, Forward_Store, ExMuxAluB, exmem_in
  <2>3. CASE "MWRITE" \notin idex.Enable
    <3>1. ExMuxAluB = idex.Data2
      BY <1>2, <2>3 DEF StoreShape, ExMuxAluB
    <3>2. Forward_Store = "NO_FWD" /\ Forward_B = BehindEx(idex.RS2)
      BY <1>2, <2>3 DEF Forward_Store, Forward_B
    <3>3. Mux("NO_FWD", idex.Data2) = idex.Data2
      BY DEF Mux
    <3> QED
      BY <2>1, <2>3, <3>1, <3>2, <3>3 DEF alu_B
  <2> QED
    BY <2>2, <2>3
<1> QED
  BY <1>1, <1>2 DEF OperandsCurrent

\* The data of a store in MEM1 is current.
LEMMA BypassStore == BypassInv => StoreDataCurrent
  BY MuxIsOlderValue
  DEF BypassInv, StoreDataCurrent, memwrite_mem1, Forward_RS2, NoLoadUse, StoreFresh

\* An empty pipeline has nothing to forward.
LEMMA InitBypass == Init => BypassInv
<1> SUFFICES ASSUME Init PROVE BypassInv
  OBVIOUS
<1>1. ControlOK
  BY InitControl
<1>2. StoreShape /\ NoLoadUse /\ StoreFresh
  BY DEF Init, CpuInit, StoreShape, NoLoadUse, StoreFresh, ZeroIdex, ZeroExmem
<1>3. DataFresh /\ gprs[0] = 0
  BY PowerOnAssumption DEF Init, CpuInit, DataFresh, ZeroIdex
<1> QED
  BY <1>1, <1>2, <1>3 DEF BypassInv

\* The memory answers the load in MEM1 with what the program stored.
Delivers == exmem.Mem_REn = 1 => rdata' = MemRead(ram, exmem.ALU_Result, exmem.Detail)

\* One edge moves every value in flight one register on: the view from MEM1
\* after it is the view from EX before it.  A register that no load in MEM1
\* writes does not depend on the memory.
LEMMA ValuesMoveOn ==
    ASSUME ControlOK, StageEdge, GprEdge, rst = 0, NEW r \in Regs \ {0},
           LoadBehindEx(r) => Delivers
    PROVE  OlderValue(r)' = RegValue(r)
<1>1. /\ mem1mem2' = mem1mem2_in /\ mem2mem3' = mem2mem3_in /\ memwb' = memwb_in
  BY DEF StageEdge
<1>2. WritesReg(mem1mem2, r)' <=> WritesReg(exmem, r)
  BY <1>1 DEF WritesReg, mem1mem2_in
<1>3. WritesReg(mem2mem3, r)' <=> WritesReg(mem1mem2, r)
  BY <1>1 DEF WritesReg, mem2mem3_in
<1>4. WritesReg(memwb, r)' <=> WritesReg(mem2mem3, r)
  BY <1>1 DEF WritesReg, memwb_in
<1>5. WritesReg(exmem, r) => Mem2Value' = Mem1Value
  BY <1>1 DEF Mem2Value, Mem1Value, mem1mem2_in, Delivers, LoadBehindEx, WritesReg
<1>6. WB_Data' = Mem2Value
  BY <1>1 DEF Mem2Value, WB_Data, mem2mem3_in
<1>7. memwb'.WB_Data = WB_Data
  BY <1>1 DEF memwb_in
<1>8. gprs'[r] = IF WritesReg(memwb, r) THEN memwb.WB_Data ELSE gprs[r]
  BY DEF GprEdge, WritesReg, ControlOK
<1> QED
  BY <1>2, <1>3, <1>4, <1>5, <1>6, <1>7, <1>8 DEF OlderValue, RegValue

\* What the decoder says of a store survives ID/EX and EX/MEM.
LEMMA NextStoreShape ==
    ASSUME StoreShape, StageEdge PROVE StoreShape'
<1>1. idex' = ZeroIdex \/ idex' = idex_in
  BY DEF StageEdge, idex_next
<1>2. exmem' = ZeroExmem \/ exmem' = exmem_in
  BY DEF StageEdge, exmem_next
<1>3. /\ ("MWRITE" \in idex'.Enable) <=> (idex'.SpecInst = "S_STORE")
      /\ "MWRITE" \in idex'.Enable => /\ "RD" \notin idex'.Enable
                                      /\ "MREAD" \notin idex'.Enable
                                      /\ "RS2" \in idex'.Enable
  BY <1>1, DecodeShape DEF idex_in, ZeroIdex
<1>4. exmem'.Mem_WEn = 1 => exmem'.Reg_WEn = 0 /\ exmem'.Mem_REn = 0
  BY <1>2 DEF exmem_in, ZeroExmem, StoreShape, Bit
<1> QED
  BY <1>3, <1>4 DEF StoreShape

\* The write-first register file makes the reads of ID as fresh as the file
\* itself after the edge, and x0 stays 0.
LEMMA NextDataFresh ==
    ASSUME ControlOK, gprs[0] = 0, StageEdge, GprEdge
    PROVE  DataFresh' /\ gprs'[0] = 0
<1>1. gprs'[0] = 0
  BY CpuAssumption DEF GprEdge, ControlOK
<1>2. CASE idex' = ZeroIdex
  BY <1>1, <1>2 DEF ZeroIdex, DataFresh
<1>3. CASE idex' = idex_in
  <2>1. ASSUME NEW r \in Regs PROVE GprRead(r) = gprs'[r]
    BY DEF GprRead, GprEdge, ControlOK
  <2> QED
    BY <1>1, <1>3, <2>1 DEF idex_in, DataFresh, ControlOK, HasRegs
<1> QED
  BY <1>1, <1>2, <1>3 DEF StageEdge, idex_next

\* A reader leaves ID only when no load ahead of it is in EX, MEM1 or MEM2.
LEMMA NextNoLoadUse ==
    ASSUME NoLoadUse, StageEdge PROVE NoLoadUse'
<1>1. \A r : LoadBehindEx(r)' => "MREAD" \in idex.Enable /\ idex.RD = r
  BY DEF StageEdge, exmem_next, LoadBehindEx, exmem_in, ZeroExmem, Bit
<1>2. \A r : LoadBehindMem1(r)' => LoadBehindEx(r)
  BY DEF StageEdge, LoadBehindEx, LoadBehindMem1, mem1mem2_in, ZeroMem1mem2
<1>3. ASSUME NEW r \in {idex'.RS1, idex'.RS2} \ {0}
      PROVE  ~ LoadBehindEx(r)' /\ ~ LoadBehindMem1(r)'
  <2>1. idex' = idex_in /\ ~ stall
    BY <1>3 DEF StageEdge, idex_next, ZeroIdex
  <2>2. r = ifid.Inst.rs1 \/ r = ifid.Inst.rs2
    BY <2>1 DEF idex_in
  <2> QED
    BY <1>1, <1>2, <1>3, <2>1, <2>2 DEF stall, LoadHazard, LoadBehindEx
<1>4. ASSUME exmem'.Mem_WEn = 1, exmem'.RS2 # 0
      PROVE  ~ LoadBehindMem1(exmem.RS2)'
  <2>1. exmem'.RS2 = idex.RS2
    BY <1>4 DEF StageEdge, exmem_next, exmem_in, ZeroExmem
  <2> QED
    BY <1>2, <1>4, <2>1 DEF NoLoadUse, LoadBehindMem1
<1> QED
  BY <1>3, <1>4 DEF NoLoadUse

\* The data that a store takes out of EX is current in MEM1.
LEMMA NextStoreFresh ==
    ASSUME BypassInv, StageEdge, GprEdge PROVE StoreFresh'
<1> SUFFICES ASSUME exmem'.Mem_WEn = 1, exmem'.RS2 # 0
             PROVE  exmem'.Store_Data = OlderValue(exmem.RS2)'
  BY DEF StoreFresh
<1>1. rst = 0 /\ exmem' = exmem_in
  BY DEF StageEdge, exmem_next, ZeroExmem, BypassInv, ControlOK, BitSet
<1>2. exmem'.RS2 = idex.RS2 /\ "MWRITE" \in idex.Enable
  BY <1>1 DEF exmem_in, Bit
<1>3. exmem'.Store_Data = RegValue(idex.RS2)
  BY <1>1, <1>2, BypassOperands DEF OperandsCurrent, BypassInv, StoreShape
<1>4. PICK r \in Regs \ {0} : r = idex.RS2
  BY <1>2 DEF BypassInv, ControlOK
<1>5. OlderValue(r)' = RegValue(r)
  BY <1>1, <1>4, ValuesMoveOn DEF BypassInv, NoLoadUse
<1>6. OlderValue(exmem.RS2)' = OlderValue(r)'
  BY <1>2, <1>4 DEF OlderValue, WritesReg
<1> QED
  BY <1>3, <1>4, <1>5, <1>6

\* The invariant of the bypass network is inductive, whatever the memory answers.
LEMMA BypassStep ==
    ASSUME BypassInv, ControlOK', StageEdge, GprEdge PROVE BypassInv'
  BY NextStoreShape, NextDataFresh, NextNoLoadUse, NextStoreFresh DEF BypassInv

\* Every step of the processor keeps it.
LEMMA NextBypass == BypassInv /\ [Next]_vars => BypassInv'
<1> SUFFICES ASSUME BypassInv, [Next]_vars PROVE BypassInv'
  OBVIOUS
<1>1. ControlOK'
  BY NextControl DEF BypassInv
<1>2. CASE UNCHANGED vars
  BY <1>1, <1>2
  DEF BypassInv, vars, cpuVars, memVars, fetchVars, stageVars, StoreShape, DataFresh,
      NoLoadUse, LoadBehindEx, LoadBehindMem1, StoreFresh, OlderValue, Mem2Value,
      WB_Data, WritesReg
<1>3. CASE Next
  <2>1. StageEdge /\ GprEdge
    BY <1>3 DEF Next, ResetEdge, RunEdge, Edge, CpuEdge
  <2> QED
    BY <1>1, <2>1, BypassStep
<1> QED
  BY <1>2, <1>3

\* Whatever the program and whenever it is reset, every operand in EX and
\* every stored word is current (Forward.sv, Stall.sv, the EX and MEM1
\* multiplexers of CPU.sv).
THEOREM BypassCorrect == Spec => []BypassInv
  BY InitBypass, NextBypass, PTL DEF Spec

\* Whatever the program and whenever it is reset, an instruction in EX reads
\* the youngest older write of each of its registers (Forward.sv, Stall.sv).
THEOREM OperandsAlwaysCurrent == Spec => []OperandsCurrent
  BY BypassCorrect, BypassOperands, PTL

\* A store writes to memory the youngest older write of its data register
\* (Forward_Store and Forward_RS2, CPU.sv:225-233 and 345-354).
THEOREM StoreDataAlwaysCurrent == Spec => []StoreDataCurrent
  BY BypassCorrect, BypassStore, PTL

----------------------------------------------------------------------------
(* Fetch: flushes, stalls, the pairing of an instruction with its address  *)

\* An empty ID never stalls: register 0 is exempt and its fields are 0.
LEMMA EmptyIdNeverStalls == ifid = ZeroIfid => ~ stall /\ StallTicks = 0
  BY DEF ZeroIfid, ZeroInst, stall, LoadHazard, StallTicks

\* Nothing has been redirected at power-on.
LEMMA InitFlushed == Init => FlushedFrontEnd
  BY DEF Init, CpuInit, FlushedFrontEnd

\* The cycle after a redirect has an empty ID, and so no stall.
LEMMA NextFlushed ==
    ControlOK /\ FlushedFrontEnd /\ [Next]_vars => FlushedFrontEnd'
<1> SUFFICES ASSUME ControlOK, FlushedFrontEnd, [Next]_vars,
                    flush_persistence' = 1
             PROVE  (ifid = ZeroIfid)'
  <2>1. (ifid = ZeroIfid)' => (~ stall)'
    BY EmptyIdNeverStalls, PTL
  <2> QED
    BY <2>1 DEF FlushedFrontEnd
<1>1. CASE UNCHANGED vars
  BY <1>1 DEF vars, cpuVars, fetchVars, stageVars, FlushedFrontEnd, ZeroIfid, ZeroInst
<1>2. CASE Next
  <2>1. FetchEdge /\ StageEdge
    BY <1>2 DEF Next, ResetEdge, RunEdge, Edge, CpuEdge
  <2>2. rst # 1 /\ (prediction_failed \/ (stall /\ flush_persistence = 1))
    BY <2>1 DEF FetchEdge
  <2>3. prediction_failed
    BY <2>2 DEF FlushedFrontEnd
  <2> QED
    BY <2>1, <2>3 DEF StageEdge, ifid_next, flush_if, flush_id, ZeroIfid, ZeroInst
<1> QED
  BY <1>1, <1>2

\* After a redirect ID is empty, so the stall and the redirect logic never
\* pull the slot behind ID in two directions (CPU.sv:35-47, IFID.sv).
THEOREM FlushEmptiesFrontEnd == Spec => []FlushedFrontEnd
<1>1. Init => ControlOK /\ FlushedFrontEnd
  BY InitControl, InitFlushed
<1>2. (ControlOK /\ FlushedFrontEnd) /\ [Next]_vars => (ControlOK /\ FlushedFrontEnd)'
  BY NextControl, NextFlushed
<1> QED
  BY <1>1, <1>2, PTL DEF Spec

\* A load that stalls ID has moved one register on after every edge.
LEMMA StallStep == Next => (StallTicks > 0 => StallTicks' < StallTicks)
<1> SUFFICES ASSUME Next, StallTicks > 0 PROVE StallTicks' < StallTicks
  OBVIOUS
<1>1. StageEdge
  BY DEF Next, ResetEdge, RunEdge, Edge, CpuEdge
<1>2. CASE (ifid = ZeroIfid)'
  <2>1. (StallTicks = 0)'
    BY <1>2, EmptyIdNeverStalls, PTL
  <2> QED
    BY <2>1
<1>3. CASE ~ (ifid = ZeroIfid)'
  <2>1. rst # 1 /\ ~ flush_if /\ stall
    BY <1>1, <1>3 DEF StageEdge, ifid_next, StallTicks, stall
  <2>2. ifid' = ifid /\ idex' = ZeroIdex /\ exmem' = exmem_in /\ mem1mem2' = mem1mem2_in
    BY <1>1, <2>1 DEF StageEdge, ifid_next, idex_next, exmem_next
  <2>3. ~ LoadHazard("MREAD" \in idex.Enable, idex.RD)'
    BY <2>2 DEF LoadHazard, ZeroIdex
  <2>4. LoadHazard(exmem.Mem_REn = 1, exmem.RD_Addr)'
            => LoadHazard("MREAD" \in idex.Enable, idex.RD)
    BY <2>2 DEF LoadHazard, exmem_in, Bit
  <2>5. LoadHazard(mem1mem2.Mem_REn = 1, mem1mem2.RD_Addr)'
            => LoadHazard(exmem.Mem_REn = 1, exmem.RD_Addr)
    BY <2>2 DEF LoadHazard, mem1mem2_in
  <2> QED
    BY <2>3, <2>4, <2>5 DEF StallTicks
<1> QED
  BY <1>2, <1>3

\* No stall lasts more than three cycles, whatever is fetched behind it
\* (Stall.sv, IDEX.sv).
THEOREM StallsArePaidOff == Spec => StallShrinks
  BY StallStep, PTL DEF Spec, StallShrinks

\* SlotsHoldTheirInst, of all slots or only of those at a legal pc.
Holds(every, a, inst)   == every \/ ~ FetchIllegal(a) => inst = Fetch(a)
SlotsHold(every) ==
    /\ ifid_in.enable = 1 => Holds(every, ifid_in.PC, ifid_in.Inst)
    /\ ifid.enable = 1 => Holds(every, ifid.PC, ifid.Inst)
    /\ idex.enable = 1 /\ (every \/ ~ FetchIllegal(idex.PC)) => IsDecoded(Fetch(idex.PC))

\* At power-on no slot is valid.
LEMMA InitSlots == Init => SlotsHoldTheirInst
  BY DEF Init, CpuInit, SlotsHoldTheirInst, ifid_in, ZeroIfid, ZeroIdex, Bit

\* A held slot keeps its word in inst_delay, a new one gets it from rinst, and
\* the release of rst finds the word of address 0 waiting.
LEMMA SlotsStep ==
    ASSUME NEW CONSTANT every, SlotsHold(every), ControlOK, FetchEdge, StageEdge, Pin,
           rom' = rom, Holds(every, pc, rinst')
    PROVE  SlotsHold(every)'
<1>1. \A x : Fetch(x)' = Fetch(x) /\ FetchIllegal(x)' = FetchIllegal(x)
  BY DEF Fetch, FetchIllegal
<1>2. \A x, y : Holds(every, x, y)' = Holds(every, x, y)
  BY <1>1 DEF Holds
<1>3. ASSUME (ifid_in.enable = 1)'
      PROVE  Holds(every, ifid_in'.PC, ifid_in'.Inst)
  <2>1. (rst' = 0 /\ flush_persistence' = 0 /\ ~ prediction_failed) \/ rst = 1
    BY <1>3 DEF ifid_in, Bit, FetchEdge
  <2>2. rst' = 0 /\ flush_persistence' = 0
    BY <1>3 DEF ifid_in, Bit
  <2>3. /\ ifid_in'.PC = pc_delayed'
        /\ ifid_in'.Inst = IF stall_persistence' = 1 THEN inst_delay' ELSE rinst'
    BY <2>2 DEF ifid_in, inst_safe
  <2>4. CASE rst = 1
    <3>1. PAddr(pc) = PAddr(0)
      BY <2>2, <2>4 DEF Pin
    <3>2. pc_delayed' = 0 /\ stall_persistence' = 0
      BY <2>4 DEF FetchEdge
    <3> QED
      BY <2>3, <3>1, <3>2 DEF Holds, Fetch, FetchIllegal
  <2>5. CASE rst # 1 /\ stall
    <3>1. flush_persistence = 0 /\ rst = 0
      BY <2>1, <2>2, <2>5 DEF FetchEdge, ControlOK, BitSet
    <3>2. /\ pc_delayed' = pc_delayed /\ stall_persistence' = 1
          /\ inst_delay' = IF stall_persistence = 1 THEN inst_delay ELSE rinst
      BY <2>5, <3>1 DEF FetchEdge, Bit, inst_safe
    <3> QED
      BY <2>3, <3>1, <3>2 DEF SlotsHold, ifid_in, Bit, inst_safe
  <2>6. CASE rst # 1 /\ ~ stall
    <3>1. pc_delayed' = pc /\ stall_persistence' = 0
      BY <2>6 DEF FetchEdge, Bit
    <3> QED
      BY <2>3, <3>1
  <2> QED
    BY <2>4, <2>5, <2>6
<1>4. ASSUME ifid'.enable = 1 PROVE Holds(every, ifid'.PC, ifid'.Inst)
  <2>1. ifid' = ifid \/ ifid' = ifid_in
    BY <1>4 DEF StageEdge, ifid_next, ZeroIfid
  <2> QED
    BY <1>4, <2>1 DEF SlotsHold
<1>5. ASSUME idex'.enable = 1, every \/ ~ FetchIllegal(idex'.PC)
      PROVE  IsDecoded(Fetch(idex.PC))'
  <2>1. idex' = idex_in
    BY <1>5 DEF StageEdge, idex_next, ZeroIdex
  <2>2. ifid.Inst = Fetch(ifid.PC) /\ idex'.PC = ifid.PC
    BY <1>5, <2>1 DEF SlotsHold, Holds, idex_in
  <2>3. Fetch(idex.PC)' = ifid.Inst
    BY <2>2 DEF Fetch
  <2> QED
    BY <2>1, <2>3 DEF IsDecoded, idex_in
<1> QED
  BY <1>1, <1>2, <1>3, <1>4, <1>5 DEF SlotsHold

\* A flip-flop that keeps its value keeps its slot's word.
LEMMA StutterSlots ==
    ASSUME NEW CONSTANT every, SlotsHold(every), UNCHANGED vars
    PROVE  SlotsHold(every)'
<1>1. \A x : Fetch(x)' = Fetch(x) /\ FetchIllegal(x)' = FetchIllegal(x)
  BY DEF Fetch, FetchIllegal, vars
<1>2. \A x, y : Holds(every, x, y)' = Holds(every, x, y)
  BY <1>1 DEF Holds
<1>3. ifid_in' = ifid_in /\ ifid' = ifid /\ idex' = idex
  BY DEF vars, cpuVars, memVars, fetchVars, stageVars, ifid_in, inst_safe
<1>4. \A x : IsDecoded(x)' = IsDecoded(x)
  BY <1>3 DEF IsDecoded
<1> QED
  BY <1>1, <1>2, <1>3, <1>4 DEF SlotsHold

\* Every slot holds its word, or every slot with a legal pc does, which is less.
LEMMA SlotsAgree ==
    /\ SlotsHoldTheirInst <=> SlotsHold(TRUE)
    /\ SlotsHoldTheirInst => SlotsHold(FALSE)
  BY DEF SlotsHoldTheirInst, SlotsHold, Holds

\* The simulated memory answers every fetch as Fetch says.
LEMMA NextSlots ==
    SlotsHoldTheirInst /\ ControlOK /\ [Next]_vars => SlotsHoldTheirInst'
<1>1. SlotsHoldTheirInst /\ UNCHANGED vars => SlotsHoldTheirInst'
  BY DEF vars, cpuVars, memVars, fetchVars, stageVars, SlotsHoldTheirInst,
         IsDecoded, ifid_in, inst_safe, Fetch
<1>2. ASSUME SlotsHoldTheirInst, ControlOK, Next PROVE SlotsHoldTheirInst'
  <2>1. FetchEdge /\ MemEdge /\ StageEdge /\ Pin /\ rom' = rom
    BY <1>2 DEF Next, ResetEdge, RunEdge, Edge, CpuEdge
  <2>2. Holds(TRUE, pc, rinst')
    BY <2>1 DEF MemEdge, Holds
  <2>3. SlotsHold(TRUE)'
    BY <1>2, <2>1, <2>2, SlotsStep, SlotsAgree
  <2> QED
    BY <2>3, SlotsAgree, PTL
<1> QED
  BY <1>1, <1>2

\* Through every mixture of stalls, redirects, monitor holds and resets, what a
\* stage executes is the word at the address it carries (CPU.sv:27-103).
THEOREM InstAndPcStayTogether == Spec => []SlotsHoldTheirInst
<1>1. Init => ControlOK /\ SlotsHoldTheirInst
  BY InitControl, InitSlots
<1>2. (ControlOK /\ SlotsHoldTheirInst) /\ [Next]_vars
        => (ControlOK /\ SlotsHoldTheirInst)'
  BY NextControl, NextSlots
<1> QED
  BY <1>1, <1>2, PTL DEF Spec

\* One edge: a redirect starts a new sequence, a stall keeps the old one, any
\* other edge extends it.
LEMMA OrderStep ==
    ASSUME ControlOK, Next, rst = 0, rst' = 0, state = "NORMAL", ~ FrontFlush, InOrder
    PROVE  InOrder'
<1>1. FetchEdge /\ StageEdge /\ PcEdge
  BY DEF Next, ResetEdge, RunEdge, Edge, CpuEdge
<1>2. CASE prediction_failed
  <2>1. flush_persistence' = 1 /\ ifid' = ZeroIfid /\ idex' = ZeroIdex
    BY <1>1, <1>2 DEF FetchEdge, StageEdge, ifid_next, idex_next, flush_if, flush_id
  <2> QED
    BY <2>1 DEF InOrder, ZeroIfid, ZeroIdex
<1>3. CASE ~ prediction_failed /\ stall
  <2>1. /\ idex' = ZeroIdex /\ ifid' = ifid /\ pc' = pc
        /\ pc_delayed' = pc_delayed /\ flush_persistence' = flush_persistence
    BY <1>1, <1>3 DEF FetchEdge, StageEdge, ifid_next, idex_next, PcEdge,
                      FrontFlush, new_pc
  <2> QED
    BY <2>1 DEF InOrder, NextInEx, NextInId, ZeroIdex
<1>4. CASE ~ prediction_failed /\ ~ stall
  <2>1. /\ idex' = idex_in /\ ifid' = ifid_in /\ pc' = Plus4(pc)
        /\ pc_delayed' = pc /\ flush_persistence' = 0
    BY <1>1, <1>4 DEF FetchEdge, StageEdge, ifid_next, idex_next, PcEdge,
                      FrontFlush, flush_if, new_pc
  <2>2. NextInEx' = NextInId
    BY <2>1 DEF NextInEx, NextInId, ifid_in, Bit, ControlOK, BitSet
  <2>3. idex'.enable = ifid.enable /\ idex'.PC = ifid.PC
    BY <2>1 DEF idex_in
  <2>4. idex'.enable = 1 => NextInEx' = Plus4(idex'.PC)
    BY <2>2, <2>3 DEF InOrder
  <2>5. ifid'.enable = 1 => NextInId' = Plus4(ifid'.PC)
    BY <2>1 DEF InOrder, NextInId, ifid_in, Bit
  <2>6. flush_persistence' = 0 => pc' = Plus4(pc_delayed')
    BY <2>1
  <2> QED
    BY <2>4, <2>5, <2>6 DEF InOrder, Plus4
<1> QED
  BY <1>2, <1>3, <1>4

\* Stalls and redirects neither drop nor repeat an instruction (CPU.sv:27-103,
\* 539-613).
THEOREM ProgramOrder == Spec => OrderKept
<1>1. Spec => []ControlOK
  BY ControlInRange
<1>2. ControlOK /\ [Next]_vars
        => [rst = 0 /\ rst' = 0 /\ state = "NORMAL" /\ ~ FrontFlush /\ InOrder
              => InOrder']_vars
  BY OrderStep
<1> QED
  BY <1>1, <1>2, PTL DEF Spec, OrderKept

----------------------------------------------------------------------------
(* The pipeline implements the one-instruction-at-a-time machine of module *)
(* Isa, for every word width, memory, register number, program and reset   *)
(* behaviour: each clock edge is one step of that machine or none.         *)

----------------------------------------------------------------------------
(* The front end: which instruction is next                                *)

\* Without a redirect and without an exception flush, EX takes what was next
\* behind it, however the stages in between are stalled or emptied.
LEMMA FrontStep ==
    ASSUME ControlOK, FetchEdge, StageEdge, PcEdge, rst = 0, ~ flush_if
    PROVE  AbsPC' = NextInEx
<1>1. ~ flush_id /\ ~ prediction_failed
  BY DEF flush_if, flush_id
<1>2. CASE stall
  <2>1. /\ idex' = ZeroIdex /\ ifid' = ifid /\ pc_delayed' = pc_delayed
        /\ flush_persistence' = flush_persistence /\ pc' = pc
    BY <1>1, <1>2 DEF FetchEdge, StageEdge, ifid_next, idex_next, PcEdge, new_pc
  <2> QED
    BY <2>1 DEF AbsPC, NextInEx, NextInId, ZeroIdex
<1>3. CASE ~ stall
  <2>1. /\ idex' = idex_in /\ ifid' = ifid_in /\ pc_delayed' = pc
        /\ flush_persistence' = 0
    BY <1>1, <1>3 DEF FetchEdge, StageEdge, ifid_next, idex_next
  <2>2. idex'.enable = ifid.enable /\ idex'.PC = ifid.PC
    BY <2>1 DEF idex_in
  <2>3. NextInEx' = NextInId
    BY <2>1 DEF NextInEx, NextInId, ifid_in, Bit, ControlOK, BitSet
  <2> QED
    BY <2>2, <2>3 DEF AbsPC, NextInEx
<1> QED
  BY <1>2, <1>3

\* A redirect that the monitor lets through empties the front end, and the
\* target is next.
LEMMA RedirectStep ==
    ASSUME ControlOK, FetchEdge, StageEdge, PcEdge, rst = 0, prediction_failed,
           state = "NORMAL"
    PROVE  AbsPC' = pcn_ex
<1>1. /\ flush_persistence' = 1 /\ ifid' = ZeroIfid /\ idex' = ZeroIdex /\ pc' = pcn_ex
  BY DEF FetchEdge, StageEdge, ifid_next, idex_next, PcEdge, new_pc, flush_if,
         flush_id
<1> QED
  BY <1>1 DEF AbsPC, NextInEx, NextInId, ZeroIfid, ZeroIdex

----------------------------------------------------------------------------
(* The back end: registers and memory                                      *)

\* What the instruction in EX is going to write, if a load finds m.
ExValue(m) == IF "MREAD" \in idex.Enable THEN MemRead(m, alu_C, idex.Detail) ELSE alu_C

\* One edge adds the write of the instruction in EX to the registers.
LEMMA RegsStep ==
    ASSUME BypassInv, BypassInv', Delivers, StageEdge, GprEdge, rst = 0
    PROVE  AbsRegs' = [r \in Regs |-> IF r # 0 /\ "RD" \in idex.Enable /\ r = idex.RD
                                      THEN ExValue(ram') ELSE AbsRegs[r]]
<1>1. exmem' = exmem_in
  BY DEF StageEdge, exmem_next
<1>2. Mem1Value' = ExValue(ram')
  BY <1>1 DEF Mem1Value, ExValue, exmem_in, Bit
<1>3. ASSUME NEW r \in Regs \ {0}
      PROVE  RegValue(r)' = IF "RD" \in idex.Enable /\ r = idex.RD
                            THEN ExValue(ram') ELSE RegValue(r)
  <2>1. WritesReg(exmem, r)' <=> "RD" \in idex.Enable /\ r = idex.RD
    BY <1>1 DEF WritesReg, exmem_in, Bit
  <2>2. OlderValue(r)' = RegValue(r)
    BY ValuesMoveOn DEF BypassInv
  <2>3. RegValue(r)' = IF WritesReg(exmem, r)' THEN Mem1Value' ELSE OlderValue(r)'
    BY DEF RegValue
  <2> QED
    BY <1>2, <2>1, <2>2, <2>3
<1>4. gprs'[0] = 0 /\ gprs[0] = 0
  BY DEF BypassInv
<1>5. AbsRegs' = [r \in Regs |-> IF r = 0 THEN gprs'[0] ELSE RegValue(r)']
  BY DEF AbsRegs
<1>6. \A r \in Regs : AbsRegs[r] = IF r = 0 THEN gprs[0] ELSE RegValue(r)
  BY DEF AbsRegs
<1> QED
  BY <1>3, <1>4, <1>5, <1>6

\* MEM1 finds the store that was in EX.
LEMMA StoreMovesOn ==
    ASSUME BypassInv, StageEdge, rst = 0
    PROVE  /\ exmem'.Mem_REn = 0 /\ exmem'.Mem_WEn = 1 <=> "MWRITE" \in idex.Enable
           /\ exmem'.ALU_Result = alu_C /\ exmem'.Detail = idex.Detail
  BY DEF StageEdge, exmem_next, exmem_in, Bit, BypassInv, StoreShape

\* One edge adds the store in EX to the memory.
LEMMA MemStep ==
    ASSUME BypassInv, StageEdge, rst = 0
    PROVE  AbsMem' = IF "MWRITE" \in idex.Enable
                     THEN MemWrite(ram', alu_C, idex.Detail, memwrite_mem1') ELSE ram'
<1>1. AbsMem' = IF exmem'.Mem_REn = 0 /\ exmem'.Mem_WEn = 1
                THEN MemWrite(ram', exmem'.ALU_Result, exmem'.Detail, memwrite_mem1')
                ELSE ram'
  BY DEF AbsMem
<1> QED
  BY <1>1, StoreMovesOn

\* An empty EX changes no register.
LEMMA EmptyStep ==
    ASSUME BypassInv, BypassInv', Delivers, StageEdge, GprEdge, rst = 0, idex.Enable = {}
    PROVE  AbsRegs' = AbsRegs
<1>1. AbsRegs' = [r \in Regs |-> AbsRegs[r]]
  BY RegsStep
<1>2. AbsRegs = [r \in Regs |-> AbsRegs[r]]
  BY DEF AbsRegs
<1> QED
  BY <1>1, <1>2

----------------------------------------------------------------------------
(* The instruction in EX                                                   *)

\* An instruction that nothing excuses in EX: what it means for the decoder,
\* the operands and the data that a store will carry.
Running == /\ BypassInv /\ SlotsHold(FALSE)
           /\ rst = 0 /\ idex.enable = 1
           /\ ~ X0Hazard /\ ~ LinkHazard /\ ~ Trap

\* EX and the abstract machine look at the same instruction.
LEMMA SameInst ==
    ASSUME Running
    PROVE  /\ PAddr(AbsPC) \in CodeAddrs /\ AbsPC = idex.PC
           /\ ISA!inst = Fetch(idex.PC) /\ IsDecoded(ISA!inst)
           /\ ~ DecodeError(ISA!inst) /\ ISA!inst.opcode \in Opcodes \ {"Env"}
           /\ ISA!inst.rs1 \in Regs /\ ISA!inst.rs2 \in Regs
<1>1. AbsPC = idex.PC
  BY DEF Running, AbsPC
<1>2. ~ DecodeError(Fetch(idex.PC)) /\ Fetch(idex.PC).opcode # "Env"
  BY DEF Running, Trap
<1>3. ~ FetchIllegal(idex.PC)
  BY <1>2 DEF DecodeError, Fetch, ZeroInst, Opcodes
<1>4. IsDecoded(Fetch(idex.PC))
  BY <1>3 DEF Running, SlotsHold
<1>5. ISA!inst = Fetch(idex.PC)
  BY <1>1, <1>3 DEF ISA!inst, Fetch
<1> QED
  BY <1>1, <1>2, <1>3, <1>4, <1>5
  DEF FetchIllegal, DecodeError, Running, BypassInv, ControlOK, IsDecoded

\* The operands that the abstract machine reads are on the inputs of the ALU
\* and of the jump adder.
LEMMA SameRs1 ==
    ASSUME Running, "RS1" \in idex.Enable
    PROVE  alu_A = ISA!Rs1 /\ Rs1_BrJl = ISA!Rs1
<1>1. idex.RS1 = ISA!inst.rs1 /\ idex.RS1 \in Regs
  BY SameInst DEF IsDecoded
<1>2. CASE idex.RS1 # 0
  BY <1>1, <1>2, BypassOperands
  DEF Running, OperandsCurrent, ISA!Rs1, ISA!Operand, AbsRegs
<1>3. CASE idex.RS1 = 0
  <2>1. Mux(BehindEx(0), 0) = 0
    BY <1>3 DEF Running, X0Hazard
  <2>2. idex.Data1 = 0
    BY <1>3 DEF Running, BypassInv, DataFresh
  <2> QED
    BY <1>1, <1>3, <2>1, <2>2
    DEF alu_A, Rs1_BrJl, Forward_A, ExMuxAluA, ISA!Rs1, ISA!Operand
<1> QED
  BY <1>2, <1>3

\* The same for the second register of all but the stores.
LEMMA SameRs2 ==
    ASSUME Running, "RS2" \in idex.Enable, "MWRITE" \notin idex.Enable
    PROVE  alu_B = ISA!Rs2
<1>1. idex.RS2 = ISA!inst.rs2 /\ idex.RS2 \in Regs
  BY SameInst DEF IsDecoded
<1>2. CASE idex.RS2 # 0
  BY <1>1, <1>2, BypassOperands
  DEF Running, OperandsCurrent, ISA!Rs2, ISA!Operand, AbsRegs
<1>3. CASE idex.RS2 = 0
  <2>1. Mux(BehindEx(0), 0) = 0 /\ Mux("NO_FWD", 0) = 0
    BY <1>3 DEF Running, X0Hazard, Mux
  <2>2. idex.Data2 = 0
    BY <1>3 DEF Running, BypassInv, DataFresh
  <2>3. Forward_Store = "NO_FWD" /\ Forward_B = BehindEx(0) /\ ExMuxAluB = 0
    BY <1>3, <2>2
    DEF Forward_Store, Forward_B, ExMuxAluB, Running, BypassInv, StoreShape
  <2> QED
    BY <1>1, <1>3, <2>1, <2>3 DEF alu_B, ISA!Rs2, ISA!Operand
<1> QED
  BY <1>2, <1>3

\* The immediate, or the 4 of a link, is on the second input.
LEMMA SameImm ==
    ASSUME Running, "RS2" \notin idex.Enable \/ "MWRITE" \in idex.Enable
    PROVE  alu_B = IF idex.SpecInst \in {"S_JAL", "S_JALR"} THEN 4 ELSE idex.Imm
<1>1. CASE "RS2" \notin idex.Enable
  BY <1>1 DEF alu_B, Forward_Store, Forward_B, ExMuxAluB, Running, BypassInv, StoreShape
<1>2. CASE "MWRITE" \in idex.Enable
  BY <1>2 DEF alu_B, Forward_Store, Forward_B, ExMuxAluB, Running, BypassInv, StoreShape
<1> QED
  BY <1>1, <1>2

\* Two looks at x0, one edge apart, both see 0 or the load that the first one
\* could not see.
LEMMA ZeroMovesOn ==
    ASSUME ControlOK, StageEdge, rst = 0, Mux(BehindEx(0), 0) = 0,
           ~ (LoadBehindMem1(0) /\ rdata # 0)
    PROVE  Mux(BehindMem1(0), 0)' = 0
<1>1. /\ mem1mem2' = mem1mem2_in /\ mem2mem3' = mem2mem3_in /\ memwb' = memwb_in
  BY DEF StageEdge
<1>2. /\ HasResult(mem1mem2, 0)' <=> HasResult(exmem, 0)
      /\ WritesReg(mem2mem3, 0)' <=> WritesReg(mem1mem2, 0)
      /\ WritesReg(memwb, 0)' <=> WritesReg(mem2mem3, 0)
  BY <1>1 DEF HasResult, WritesReg, mem1mem2_in, mem2mem3_in, memwb_in
<1>3. /\ mem1mem2'.ALU_Result = exmem.ALU_Result
      /\ WB_Data' = Mem2Value /\ memwb'.WB_Data = WB_Data
  BY <1>1 DEF WB_Data, Mem2Value, mem1mem2_in, mem2mem3_in, memwb_in
<1>4. CASE HasResult(exmem, 0)
  <2>1. exmem.ALU_Result = 0
    BY <1>4 DEF Mux, BehindEx
  <2> QED
    BY <1>2, <1>3, <1>4, <2>1 DEF Mux, BehindMem1
<1>5. CASE ~ HasResult(exmem, 0) /\ WritesReg(mem1mem2, 0)
  <2>1. Mem2Value = 0
    BY <1>5 DEF Mux, BehindEx, BehindMem1, HasResult, WritesReg, LoadBehindMem1,
                Mem2Value, ControlOK, BitSet
  <2> QED
    BY <1>2, <1>3, <1>5, <2>1 DEF Mux, BehindMem1
<1>6. CASE ~ HasResult(exmem, 0) /\ ~ WritesReg(mem1mem2, 0)
  <2>1. WritesReg(mem2mem3, 0) => WB_Data = 0
    BY <1>6 DEF Mux, BehindEx, BehindMem1, HasResult
  <2> QED
    BY <1>2, <1>3, <1>6, <2>1 DEF Mux, BehindMem1
<1> QED
  BY <1>4, <1>5, <1>6

\* A store writes the register that the abstract machine reads.
LEMMA SameStoreData ==
    ASSUME Running, BypassInv', StageEdge, GprEdge, "MWRITE" \in idex.Enable
    PROVE  memwrite_mem1' = ISA!Rs2
<1>1. idex.RS2 = ISA!inst.rs2 /\ idex.RS2 \in Regs
  BY SameInst DEF IsDecoded
<1>2. rst = 0 /\ exmem' = exmem_in /\ exmem'.Mem_WEn = 1 /\ exmem'.RS2 = idex.RS2
  BY DEF StageEdge, exmem_next, Running, exmem_in, Bit
<1>3. "RS2" \in idex.Enable
  BY DEF Running, BypassInv, StoreShape
<1>4. CASE idex.RS2 # 0
  <2>1. PICK r \in Regs \ {0} : r = idex.RS2
    BY <1>1, <1>4
  <2>2. memwrite_mem1' = OlderValue(r)'
    <3>1. StoreDataCurrent'
      BY BypassStore, PTL
    <3> QED
      BY <1>2, <1>4, <2>1, <3>1 DEF StoreDataCurrent, OlderValue, WritesReg
  <2>3. OlderValue(r)' = RegValue(r)
    BY <1>2, <2>1, ValuesMoveOn DEF Running, BypassInv, NoLoadUse
  <2> QED
    BY <1>1, <1>4, <2>1, <2>2, <2>3 DEF ISA!Rs2, ISA!Operand, AbsRegs
<1>5. CASE idex.RS2 = 0
  <2>1. Mux(BehindEx(0), 0) = 0 /\ ~ (LoadBehindMem1(0) /\ rdata # 0)
    BY <1>3, <1>5 DEF Running, X0Hazard
  <2>2. Mux(BehindMem1(0), 0)' = 0
    BY <1>2, <2>1, ZeroMovesOn DEF Running, BypassInv
  <2>3. exmem'.Store_Data = 0
    BY <1>2, <1>5, <2>1
    DEF exmem_in, Forward_Store, Running, BypassInv, DataFresh
  <2> QED
    BY <1>1, <1>2, <1>5, <2>2, <2>3
    DEF memwrite_mem1, Forward_RS2, Mux, BehindMem1, HasResult, WritesReg, ISA!Rs2,
        ISA!Operand
<1> QED
  BY <1>4, <1>5

----------------------------------------------------------------------------
(* The effect of the instruction                                           *)

\* LUI's operation passes the second operand through.
LEMMA CopyB == \A A, B : AluC(A, B, "ALU_COPY_B") = B
  BY DEF AluC

\* Data addresses and the additions of AUIPC and of the links are ALU_ADD.
LEMMA AddOps ==
    ASSUME NEW inst, inst.opcode \in {"Load", "Store", "Jal", "Jalr", "Auipc"}
    PROVE  AluOp(inst) = "ALU_ADD"
  BY DEF AluOp

\* A load and a store use the address that the abstract machine computes.
LEMMA SameAddress ==
    ASSUME Running, ISA!inst.opcode \in {"Load", "Store"}
    PROVE  alu_C = ISA!Address
<1>1. IsDecoded(ISA!inst)
  BY SameInst
<1>2. "RS1" \in idex.Enable /\ ("RS2" \notin idex.Enable \/ "MWRITE" \in idex.Enable)
  BY <1>1 DEF IsDecoded, Enables, EnableSignals, ReadsRs1, ReadsRs2, Opcodes
<1>3. alu_A = ISA!Rs1
  BY <1>2, SameRs1
<1>4. alu_B = ISA!inst.imm
  BY <1>1, <1>2, SameImm DEF IsDecoded, SpecInst, Imm
<1> QED
  BY <1>1, <1>3, <1>4, AddOps DEF alu_C, IsDecoded, ISA!Address, ISA!Add

\* What EX will write is what the abstract machine writes.
LEMMA SameResult ==
    ASSUME Running, ISA!inst.opcode \in WritesRd, ISA!inst.rd # 0
    PROVE  ExValue(AbsMem) = ISA!Result
<1> DEFINE op == ISA!inst.opcode
<1>1. IsDecoded(ISA!inst) /\ AbsPC = idex.PC
  BY SameInst
<1>2. op # "Jalr"
  BY <1>1 DEF IsDecoded, SpecInst, Running, LinkHazard
<1>3. CASE op \in {"Rty", "R64ty"}
  <2>1. /\ "RS1" \in idex.Enable /\ "RS2" \in idex.Enable
        /\ "MREAD" \notin idex.Enable /\ "MWRITE" \notin idex.Enable
    BY <1>1, <1>3 DEF IsDecoded, Enables, EnableSignals, ReadsRs1, ReadsRs2, Opcodes
  <2>2. alu_A = ISA!Rs1 /\ alu_B = ISA!Rs2
    BY <2>1, SameRs1, SameRs2
  <2> QED
    BY <1>1, <1>3, <2>1, <2>2 DEF ExValue, alu_C, IsDecoded, ISA!Result
<1>4. CASE op \in {"Ity", "I64ty"}
  <2>1. /\ "RS1" \in idex.Enable /\ "RS2" \notin idex.Enable
        /\ "MREAD" \notin idex.Enable
    BY <1>1, <1>4 DEF IsDecoded, Enables, EnableSignals, ReadsRs1, ReadsRs2, Opcodes
  <2>2. alu_A = ISA!Rs1
    BY <2>1, SameRs1
  <2>3. alu_B = ISA!inst.imm
    BY <1>1, <1>4, <2>1, SameImm DEF IsDecoded, SpecInst, Imm
  <2> QED
    BY <1>1, <1>4, <2>1, <2>2, <2>3 DEF ExValue, alu_C, IsDecoded, ISA!Result
<1>5. CASE op = "Load"
  <2>1. "MREAD" \in idex.Enable
    BY <1>1, <1>5 DEF IsDecoded, Enables, EnableSignals
  <2> QED
    BY <1>1, <1>5, <2>1, SameAddress DEF ExValue, IsDecoded, ISA!Result
<1>6. CASE op \in {"Jal", "Auipc", "Lui"}
  <2>1. /\ "RS1" \notin idex.Enable /\ "RS2" \notin idex.Enable
        /\ "MREAD" \notin idex.Enable
    BY <1>1, <1>6 DEF IsDecoded, Enables, EnableSignals, ReadsRs1, ReadsRs2, Opcodes
  <2>2. alu_B = IF op = "Jal" THEN 4 ELSE ISA!inst.imm
    BY <1>1, <1>6, <2>1, SameImm DEF IsDecoded, SpecInst, Imm
  <2>3. op # "Lui" => alu_A = idex.PC
    BY <1>1, <1>6, <2>1 DEF alu_A, Forward_A, Mux, ExMuxAluA, IsDecoded, SpecInst
  <2>4. CASE op = "Lui"
    <3>1. AluOp(ISA!inst) = "ALU_COPY_B"
      BY <2>4 DEF AluOp
    <3> QED
      BY <1>1, <2>1, <2>2, <2>4, <3>1, CopyB DEF ExValue, alu_C, IsDecoded, ISA!Result
  <2>5. CASE op # "Lui"
    <3>1. AluOp(ISA!inst) = "ALU_ADD"
      BY <1>6, <2>5, AddOps
    <3> QED
      BY <1>1, <1>6, <2>1, <2>2, <2>3, <2>5, <3>1
      DEF ExValue, alu_C, IsDecoded, ISA!Result, ISA!Add
  <2> QED
    BY <2>4, <2>5
<1> QED
  BY <1>2, <1>3, <1>4, <1>5, <1>6 DEF WritesRd, Opcodes

\* The abstract machine can execute it.
LEMMA Executes == ASSUME Running PROVE ISA!Executable
<1>1. IsDecoded(ISA!inst) /\ ISA!inst = Fetch(idex.PC)
  BY SameInst
<1> QED
  BY <1>1, SameInst, SameAddress DEF ISA!Executable, Running, Trap, StoreUnaligned

\* One edge has the effect of the instruction in EX on registers and memory.
LEMMA EffectStep ==
    ASSUME Running, BypassInv', Delivers, StageEdge, GprEdge, ram' = AbsMem
    PROVE  ISA!Effect
<1>1. /\ IsDecoded(ISA!inst) /\ ISA!inst = Fetch(idex.PC)
      /\ ISA!inst.opcode \in Opcodes \ {"Env"}
  BY SameInst
<1>2. ISA!Executable
  BY Executes
<1>3. AbsRegs' = IF ISA!inst.opcode \in WritesRd /\ ISA!inst.rd # 0
                 THEN [AbsRegs EXCEPT ![ISA!inst.rd] = ISA!Result] ELSE AbsRegs
  <2>1. AbsRegs' = [r \in Regs |-> IF r # 0 /\ "RD" \in idex.Enable /\ r = idex.RD
                                   THEN ExValue(AbsMem) ELSE AbsRegs[r]]
    BY RegsStep DEF Running
  <2>2. "RD" \in idex.Enable <=> ISA!inst.opcode \in WritesRd
    BY <1>1 DEF IsDecoded, Enables, EnableSignals
  <2>3. idex.RD = ISA!inst.rd
    BY <1>1 DEF IsDecoded
  <2>4. AbsRegs = [r \in Regs |-> AbsRegs[r]]
    BY DEF AbsRegs
  <2> QED
    BY <2>1, <2>2, <2>3, <2>4, SameResult
<1>4. AbsMem' = IF ISA!inst.opcode = "Store"
                THEN MemWrite(AbsMem, ISA!Address, ISA!inst.funct3, ISA!Rs2) ELSE AbsMem
  <2>1. "MWRITE" \in idex.Enable <=> ISA!inst.opcode = "Store"
    BY <1>1 DEF IsDecoded, Enables, EnableSignals
  <2> QED
    BY <1>1, <2>1, MemStep, SameAddress, SameStoreData DEF Running, IsDecoded
<1> QED
  BY <1>2, <1>3, <1>4 DEF ISA!Effect

----------------------------------------------------------------------------
(* The next instruction                                                    *)

\* The pc that EX computes is the abstract machine's.
LEMMA SameTarget == Running => pcn_ex = ISA!Target
<1> SUFFICES ASSUME Running PROVE pcn_ex = ISA!Target
  OBVIOUS
<1> DEFINE op == ISA!inst.opcode
<1>1. IsDecoded(ISA!inst) /\ AbsPC = idex.PC /\ ~ DecodeError(ISA!inst)
  BY SameInst
<1>2. none_taken = ISA!Sum(AbsPC, 4)
  BY <1>1 DEF none_taken, Plus4, ISA!Sum
<1>3. op \in {"Jal", "Branch"} => imme_dst = ISA!Sum(AbsPC, ISA!inst.imm)
  BY <1>1 DEF imme_dst, IsDecoded, Imm, ISA!Sum
<1>4. CASE op = "Jal"
  BY <1>1, <1>3, <1>4 DEF pcn_ex, pcn, taken, IsDecoded, SpecInst, ISA!Target
<1>5. CASE op = "Jalr"
  <2>1. "RS1" \in idex.Enable
    BY <1>1, <1>5 DEF IsDecoded, Enables, EnableSignals, ReadsRs1, Opcodes
  <2>2. reg_dst = ISA!JalrTarget
    BY <1>1, <1>5, <2>1, SameRs1 DEF reg_dst, IsDecoded, Imm, ISA!JalrTarget, ISA!Sum
  <2> QED
    BY <1>1, <1>5, <2>2 DEF pcn_ex, pcn, taken, IsDecoded, SpecInst, ISA!Target
<1>6. CASE op = "Branch"
  <2>1. /\ "RS1" \in idex.Enable /\ "RS2" \in idex.Enable
        /\ "MWRITE" \notin idex.Enable
    BY <1>1, <1>6 DEF IsDecoded, Enables, EnableSignals, ReadsRs1, ReadsRs2, Opcodes
  <2>2. cmp = AluCmp(ISA!Rs1, ISA!Rs2, AluOfBranch(ISA!inst.funct3))
    BY <1>1, <1>6, <2>1, SameRs1, SameRs2 DEF cmp, IsDecoded, AluOp
  <2>3. take_branch(idex.Detail, cmp) <=> ISA!Taken
    <3>1. ISA!inst.funct3 \notin {2, 3}
      BY <1>1, <1>6 DEF DecodeError
    <3> QED
      BY <1>1, <2>2, <3>1 DEF take_branch, AluCmp, Compare, AluOfBranch, ISA!Taken,
                              ISA!SignedLess, IsDecoded
  <2> QED
    BY <1>1, <1>2, <1>3, <1>6, <2>3
    DEF pcn_ex, pcn, taken, IsDecoded, SpecInst, ISA!Target
<1>7. CASE op \notin {"Jal", "Jalr", "Branch"}
  BY <1>1, <1>2, <1>7 DEF pcn_ex, pcn, IsDecoded, SpecInst, ISA!Target
<1> QED
  BY <1>4, <1>5, <1>6, <1>7

\* Without a reason for "control", the next instruction is the right one.
LEMMA TargetStep ==
    ASSUME Running, FetchEdge, StageEdge, PcEdge,
           ~ LostRedirect, ~ FrontFlush, ~ OutOfOrder
    PROVE  AbsPC' = ISA!Target
<1>1. CASE prediction_failed
  BY <1>1, RedirectStep, SameTarget DEF Running, BypassInv, LostRedirect
<1>2. CASE ~ prediction_failed
  <2>1. pcn_ex = Plus4(idex.PC) /\ NextInEx = Plus4(idex.PC) /\ ~ flush_if
    BY <1>2 DEF Running, prediction_failed, none_taken, OutOfOrder, FrontFlush
  <2> QED
    BY <2>1, FrontStep, SameTarget DEF Running, BypassInv
<1> QED
  BY <1>1, <1>2

----------------------------------------------------------------------------
(* The refinement                                                          *)

\* Power-on promises nothing, so every power-on state is allowed.
LEMMA InitIsa == Init => ISA!Init
  BY DEF Init, ISA!Init, Fault, NoPromise

\* Every clock edge is a step of the abstract machine or leaves it alone.
LEMMA NextIsa ==
    ASSUME BypassInv, BypassInv', SlotsHoldTheirInst, Next
    PROVE  [ISA!Next]_<<AbsPC, AbsRegs, AbsMem>>
<1>1. FetchEdge /\ Delivers /\ StageEdge /\ GprEdge /\ PcEdge /\ ram' = AbsMem
  BY DEF Next, ResetEdge, RunEdge, Edge, CpuEdge, MemEdge, Delivers, AbsMem
<1>2. rst \in {0, 1} /\ idex.enable \in {0, 1}
  BY DEF BypassInv, ControlOK, BitSet
<1>3. CASE rst = 1 \/ Ghost
  BY <1>3 DEF Fault, NoPromise, ISA!Next
<1>4. CASE rst = 0 /\ idex.enable = 0 /\ ~ Ghost
  <2>1. idex.Enable = {} /\ ~ flush_if
    BY <1>4 DEF Ghost, flush_if, flush_id, prediction_failed
  <2>2. AbsPC' = AbsPC
    BY <1>1, <1>4, <2>1, FrontStep DEF BypassInv, AbsPC
  <2> QED
    BY <1>1, <1>4, <2>1, <2>2, EmptyStep, MemStep
<1>5. CASE rst = 0 /\ idex.enable = 1 /\ (X0Hazard \/ LinkHazard \/ Trap)
  <2>1. Fault = "data"
    BY <1>5 DEF Fault, NoPromise
  <2> QED
    BY <2>1 DEF ISA!Next
<1>6. CASE rst = 0 /\ idex.enable = 1 /\ ~ (X0Hazard \/ LinkHazard \/ Trap)
  <2>1. Running
    BY <1>6, SlotsAgree DEF Running
  <2>2. ISA!Effect
    BY <1>1, <2>1, EffectStep
  <2>3. CASE LostRedirect \/ FrontFlush \/ OutOfOrder
    <3>1. Fault = "control"
      BY <1>6, <2>3 DEF Fault, NoPromise, EffectOnly, Ghost
    <3> QED
      BY <2>2, <3>1 DEF ISA!Next
  <2>4. CASE ~ (LostRedirect \/ FrontFlush \/ OutOfOrder)
    BY <1>1, <2>1, <2>2, <2>4, TargetStep DEF ISA!Next, ISA!Execute
  <2> QED
    BY <2>3, <2>4
<1> QED
  BY <1>2, <1>3, <1>4, <1>5, <1>6

\* A flip-flop that keeps its value keeps the abstract state.
LEMMA StutterIsa == UNCHANGED vars => UNCHANGED <<AbsPC, AbsRegs, AbsMem>>
<1> SUFFICES ASSUME UNCHANGED vars PROVE UNCHANGED <<AbsPC, AbsRegs, AbsMem>>
  OBVIOUS
<1> USE DEF vars, cpuVars, memVars, fetchVars, stageVars
<1>1. AbsPC' = AbsPC
  BY DEF AbsPC, NextInEx, NextInId
<1>2. AbsRegs' = AbsRegs
  BY DEF AbsRegs, RegValue, OlderValue, Mem1Value, Mem2Value, WB_Data, WritesReg
<1>3. AbsMem' = AbsMem
  BY DEF AbsMem, memwrite_mem1, Mux, Forward_RS2, BehindMem1, HasResult, WritesReg,
         WB_Data
<1> QED
  BY <1>1, <1>2, <1>3

\* The pipeline implements the sequential machine.
THEOREM PipelineImplementsIsa == Spec => ImplementsIsa
<1>1. [Next]_vars /\ BypassInv /\ BypassInv' /\ SlotsHoldTheirInst
        => [ISA!Next]_<<AbsPC, AbsRegs, AbsMem>>
  BY NextIsa, StutterIsa
<1> QED
  BY <1>1, InitIsa, BypassCorrect, InstAndPcStayTogether, PTL
  DEF Spec, ImplementsIsa, ISA!Spec
=============================================================================
