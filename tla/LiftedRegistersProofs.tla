----------------------- MODULE LiftedRegistersProofs -----------------------
(***************************************************************************)
(* Proofs about LiftedRegisters for bytes of every radix, any set of       *)
(* registers and any instructions that can be encoded: the types, the      *)
(* registers after every step, and the flags.  Registers are compared byte *)
(* by byte; what is computed is compared as numbers, of which Wrap and     *)
(* Unsigned are the two directions.                                        *)
(***************************************************************************)
EXTENDS LiftedRegisters, Arithmetic, FiniteSetTheorems

(* Place gives the powers of Radix, which are not zero. *)
LEMMA Places ==
  /\ Place[0] = 1 /\ Place[1] = Radix
  /\ \A i \in 1 .. 16 : Place[i] = Radix * Place[i - 1]
  /\ \A i \in 0 .. 16 : Place[i] \in Nat /\ Place[i] > 0
<1> DEFINE m == 16
<1>1. m \in Nat /\ Radix \in Nat /\ Radix > 0
  BY BytesAssumption
<1>2. Place = CHOOSE f : Powers(f, m, Radix)
  BY DEF Place, Powers
<1> HIDE DEF m
<1>3. Powers(Place, m, Radix)
  BY <1>1, <1>2, PowersExist
<1>4. /\ Place[0] = 1 /\ \A i \in 1 .. m : Place[i] = Radix * Place[i - 1]
      /\ \A i \in 0 .. m : Place[i] \in Nat /\ Place[i] > 0
  BY <1>1, <1>3, PowersFacts
<1>5. Place[1] = Radix * Place[0]
  BY <1>4 DEF m
<1> QED BY <1>1, <1>4, <1>5 DEF m

(* A place above a place. *)
LEMMA PlaceProduct ==
  ASSUME NEW i \in 0 .. 8, NEW j \in 0 .. 8
  PROVE  Place[i + j] = Place[i] * Place[j]
<1> DEFINE m == 8
           S == {k \in 0 .. m : Place[i + k] = Place[i] * Place[k]}
<1>1. 0 \in S
  BY Places
<1>2. ASSUME NEW k \in 0 .. m - 1, k \in S PROVE k + 1 \in S
  <2>1. i + (k + 1) \in 1 .. 16 /\ k + 1 \in 1 .. 16 /\ (i + (k + 1)) - 1 = i + k
        /\ (k + 1) - 1 = k
    OBVIOUS
  <2>2. Place[i + (k + 1)] = Radix * Place[i + k] /\ Place[k + 1] = Radix * Place[k]
    BY <2>1, Places
  <2>3. Place[i] \in Nat /\ Place[k] \in Nat /\ Place[i + k] = Place[i] * Place[k]
    BY <1>2, Places
  <2> DEFINE p == Place[i]
             q == Place[k]
  <2>4. p \in Nat /\ q \in Nat
    BY <2>3
  <2> HIDE DEF p, q
  <2>5. Radix * (p * q) = p * (Radix * q)
    BY <2>4, BytesAssumption
  <2> QED BY <2>2, <2>3, <2>5 DEF p, q
<1>3. 0 .. m \subseteq S
  <2>1. m \in Nat
    OBVIOUS
  <2> HIDE DEF S, m
  <2> QED BY <1>1, <1>2, <2>1, UpTo
<1> QED BY <1>3

(* The size of a value. *)
LEMMA SizeOf ==
  ASSUME NEW n \in 1 .. 16, NEW x \in Value(n)
  PROVE  DOMAIN x = 0 .. n - 1 /\ Size(x) = n
<1>1. DOMAIN x = 0 .. n - 1
  BY DEF Value
<1>2. \A a, b \in Int : a <= b => Cardinality(a .. b) = b - a + 1
  BY FS_Interval
<1>3. 0 \in Int /\ n - 1 \in Int /\ 0 <= n - 1
  OBVIOUS
<1>4. Cardinality(0 .. n - 1) = n - 1 - 0 + 1
  BY <1>2, <1>3
<1> QED BY <1>1, <1>4 DEF Size

(* What the bytes of x below the n-th make. *)
Sum(x) == CHOOSE f : f = [n \in 0 .. Size(x) |-> IF n = 0 THEN 0
                            ELSE f[n - 1] + x[n - 1] * Place[n - 1]]

(* The number of a value, one byte after the other. *)
LEMMA SumSteps ==
  ASSUME NEW n \in 1 .. 16, NEW x \in Value(n)
  PROVE  /\ Unsigned(x) = Sum(x)[n] /\ Sum(x)[0] = 0
         /\ \A i \in 1 .. n : /\ Sum(x)[i] = Sum(x)[i - 1] + x[i - 1] * Place[i - 1]
                              /\ x[i - 1] \in 0 .. Radix - 1
         /\ \A i \in 0 .. n : Sum(x)[i] \in 0 .. Place[i] - 1
<1> DEFINE Sums(f) == f = [i \in 0 .. n |-> IF i = 0 THEN 0
                             ELSE f[i - 1] + x[i - 1] * Place[i - 1]]
           b == 0
           step == [p \in (1 .. n) \X Nat |-> p[2] + x[p[1] - 1] * Place[p[1] - 1]]
<1>0. Size(x) = n
  BY SizeOf
<1>1. ASSUME NEW i \in 1 .. n
      PROVE  x[i - 1] \in 0 .. Radix - 1 /\ x[i - 1] * Place[i - 1] \in Nat
  <2>1. x[i - 1] \in 0 .. Radix - 1
    BY DEF Value, Byte
  <2>2. Place[i - 1] \in Nat
    BY Places
  <2> QED BY <2>1, <2>2, BytesAssumption
<1>2. step \in StepFunctions(n, Nat)
  <2> SUFFICES ASSUME NEW p \in (1 .. n) \X Nat
        PROVE p[2] + x[p[1] - 1] * Place[p[1] - 1] \in Nat
    BY DEF StepFunctions
  <2>1. p[1] \in 1 .. n /\ p[2] \in Nat
    OBVIOUS
  <2>2. x[p[1] - 1] * Place[p[1] - 1] \in Nat
    BY <1>1, <2>1
  <2> QED BY <2>1, <2>2
<1>3. \A i \in 1 .. n, v \in Nat : step[<<i, v>>] = v + x[i - 1] * Place[i - 1]
  OBVIOUS
<1>4. b \in Nat /\ n \in Nat
  OBVIOUS
<1>5. \E f : DefinedBy(f, n, Nat, b, step)
  <2> HIDE DEF step, b
  <2> QED BY <1>2, <1>4, Recursion
<1>6. PICK f : DefinedBy(f, n, Nat, b, step)
  BY <1>5
<1>7. Sums(f)
  <2>1. ASSUME NEW i \in 1 .. n
        PROVE  f[i] = f[i - 1] + x[i - 1] * Place[i - 1]
    <3> HIDE DEF step
    <3>1. i - 1 \in 0 .. n /\ f[i - 1] \in Nat /\ f[i] = step[<<i, f[i - 1]>>]
      BY <1>6 DEF DefinedBy
    <3> QED BY <1>3, <3>1
  <2> QED BY <1>6, <2>1 DEF DefinedBy
<1> DEFINE g == CHOOSE f1 : Sums(f1)
<1>8. Sums(g)
  <2> HIDE DEF Sums
  <2> QED BY <1>7
<1>9. Sum(x) = g
  BY <1>0 DEF Sum
<1>10. Unsigned(x) = g[n]
  BY <1>0 DEF Unsigned
<1> HIDE DEF g
<1>11. g[0] = 0 /\ \A i \in 1 .. n : g[i] = g[i - 1] + x[i - 1] * Place[i - 1]
  BY <1>8
<1> DEFINE S == {i \in 0 .. n : g[i] \in 0 .. Place[i] - 1}
<1>12. 0 \in S
  BY <1>11, Places
<1>13. ASSUME NEW i \in 0 .. n - 1, i \in S PROVE i + 1 \in S
  <2> DEFINE l == g[i]
             p == Place[i]
             c == x[i]
  <2>1. i + 1 \in 1 .. n /\ i + 1 \in 1 .. 16 /\ (i + 1) - 1 = i
    OBVIOUS
  <2>2. g[i + 1] = l + c * p /\ Place[i + 1] = Radix * p
    BY <2>1, <1>11, Places
  <2>3. c \in 0 .. Radix - 1
    BY <1>1, <2>1
  <2>4. p \in Nat /\ p > 0 /\ l \in 0 .. p - 1
    <3>1. i \in 0 .. 16
      OBVIOUS
    <3> QED BY <1>13, <3>1, Places
  <2> HIDE DEF l, p, c
  <2>5. p * c + p <= p * Radix /\ p * c \in Nat
    BY <2>3, <2>4, NextMultiple, BytesAssumption
  <2>6. l + c * p \in 0 .. Radix * p - 1
    BY <2>3, <2>4, <2>5, BytesAssumption
  <2> QED BY <2>1, <2>2, <2>6
<1>14. 0 .. n \subseteq S
  <2> HIDE DEF S
  <2> QED BY <1>4, <1>12, <1>13, UpTo
<1>15. \A i \in 0 .. n : g[i] \in 0 .. Place[i] - 1
  BY <1>14
<1> QED BY <1>1, <1>9, <1>10, <1>11, <1>15

(* The number of a value. *)
LEMMA UnsignedType ==
  ASSUME NEW n \in 1 .. 16, NEW x \in Value(n)
  PROVE  Unsigned(x) \in 0 .. Place[n] - 1
BY SumSteps

(* Values that have the same number are the same. *)
LEMMA UnsignedInjective ==
  ASSUME NEW n \in 1 .. 16, NEW x \in Value(n), NEW y \in Value(n), Unsigned(x) = Unsigned(y)
  PROVE  x = y
<1> DEFINE S == {k \in 0 .. n : /\ Sum(x)[n - k] = Sum(y)[n - k]
                                /\ \A i \in 0 .. n - 1 : i >= n - k => x[i] = y[i]}
<1>1. 0 \in S
  BY SumSteps
<1>2. ASSUME NEW k \in 0 .. n - 1, k \in S PROVE k + 1 \in S
  <2> DEFINE i == n - k
             p == Place[i - 1]
             l == Sum(x)[i - 1]
             m == Sum(y)[i - 1]
             a == x[i - 1]
             b == y[i - 1]
  <2>0. i \in 1 .. n /\ n - (k + 1) = i - 1 /\ i - 1 \in 0 .. n /\ i - 1 \in 0 .. 16
    OBVIOUS
  <2>1. Sum(x)[i] = l + a * p /\ Sum(y)[i] = m + b * p /\ Sum(x)[i] = Sum(y)[i]
    <3> HIDE DEF i
    <3>1. Sum(x)[i] = l + a * p
      BY <2>0, SumSteps
    <3>2. Sum(y)[i] = m + b * p
      BY <2>0, SumSteps
    <3> QED BY <3>1, <3>2, <1>2 DEF i
  <2>2. l \in 0 .. p - 1 /\ m \in 0 .. p - 1 /\ p \in Nat /\ p > 0 /\ a \in Int /\ b \in Int
    <3> HIDE DEF i
    <3>1. p \in Nat /\ p > 0
      BY <2>0, Places
    <3>2. l \in 0 .. p - 1 /\ m \in 0 .. p - 1
      BY <2>0, SumSteps
    <3>3. a \in Int /\ b \in Int
      BY <2>0, SumSteps
    <3> QED BY <3>1, <3>2, <3>3
  <2>3. \A j \in 0 .. n - 1 : j >= i => x[j] = y[j]
    BY <1>2
  <2> HIDE DEF p, l, m, a, b
  <2>4. p * a + l = p * b + m
    BY <2>1, <2>2
  <2>5. (p * a + l) \div p = a /\ (p * a + l) % p = l
    BY <2>2, DivisionUnique
  <2>6. (p * b + m) \div p = b /\ (p * b + m) % p = m
    BY <2>2, DivisionUnique
  <2>7. a = b /\ l = m
    BY <2>4, <2>5, <2>6
  <2>8. \A j \in 0 .. n - 1 : j >= i - 1 => j = i - 1 \/ j >= i
    BY <2>0
  <2> QED BY <2>0, <2>3, <2>7, <2>8 DEF a, b, l, m
<1>3. 0 .. n \subseteq S
  <2>1. n \in Nat
    OBVIOUS
  <2> HIDE DEF S
  <2> QED BY <1>1, <1>2, <2>1, UpTo
<1>4. n \in S
  BY <1>3
<1>5. \A i \in 0 .. n - 1 : x[i] = y[i]
  BY <1>4
<1> QED BY <1>5 DEF Value

(* Values of numbers. *)
LEMMA WrapType ==
  ASSUME NEW k \in Int, NEW n \in 1 .. 16
  PROVE  Wrap(k, n) \in Value(n)
<1> SUFFICES ASSUME NEW i \in 0 .. n - 1 PROVE (k \div Place[i]) % Radix \in 0 .. Radix - 1
  BY DEF Wrap, Value, Byte
<1>1. Place[i] \in Nat /\ Place[i] > 0
  BY Places
<1>2. k \div Place[i] \in Int
  BY <1>1, Division
<1> QED BY <1>2, BytesAssumption, Division

(* A number is wrapped to its remainder. *)
LEMMA UnsignedWrap ==
  ASSUME NEW k \in Int, NEW n \in 1 .. 16
  PROVE  Unsigned(Wrap(k, n)) = k % Place[n]
<1> DEFINE x == Wrap(k, n)
           S == {i \in 0 .. n : Sum(x)[i] = k % Place[i]}
<1>0. x \in Value(n) /\ \A i \in 0 .. n - 1 : x[i] = (k \div Place[i]) % Radix
  BY WrapType DEF Wrap
<1> HIDE DEF x
<1>1. 0 \in S
  <2>1. Sum(x)[0] = 0
    BY <1>0, SumSteps
  <2> QED BY <2>1, Places
<1>2. ASSUME NEW i \in 0 .. n - 1, i \in S PROVE i + 1 \in S
  <2> DEFINE p == Place[i]
             c == x[i]
  <2>1. i + 1 \in 1 .. n /\ i + 1 \in 1 .. 16 /\ (i + 1) - 1 = i
    OBVIOUS
  <2>2. Sum(x)[i + 1] = (k % p) + c * p /\ Place[i + 1] = Radix * p
    <3>1. Sum(x)[i + 1] = Sum(x)[i] + x[i] * Place[i]
      BY <2>1, <1>0, SumSteps
    <3>2. Place[i + 1] = Radix * Place[i]
      BY <2>1, Places
    <3> QED BY <3>1, <3>2, <1>2
  <2>3. c = (k \div p) % Radix /\ p \in Nat /\ p > 0
    <3>1. i \in 0 .. 16
      OBVIOUS
    <3> QED BY <1>0, <3>1, Places
  <2> HIDE DEF p, c
  <2>4. k % (p * Radix) = p * ((k \div p) % Radix) + (k % p)
    <3>1. Radix \in Nat /\ Radix > 0
      BY BytesAssumption
    <3> QED BY <2>3, <3>1, DivisionByProduct
  <2>5. c \in Int /\ k % p \in Int
    <3>1. k \div p \in Int /\ k % p \in Int
      BY <2>3, Division
    <3> QED BY <3>1, <2>3, BytesAssumption, Division
  <2>6. p * Radix = Radix * p
    BY <2>3, BytesAssumption
  <2>7. (k % p) + c * p = p * c + (k % p)
    BY <2>3, <2>5
  <2> QED BY <2>1, <2>2, <2>3, <2>4, <2>6, <2>7
<1>3. 0 .. n \subseteq S
  <2>1. n \in Nat
    OBVIOUS
  <2> HIDE DEF S
  <2> QED BY <1>1, <1>2, <2>1, UpTo
<1>4. Unsigned(x) = Sum(x)[n] /\ n \in S
  BY <1>0, <1>3, SumSteps
<1> QED BY <1>4 DEF x

(* Numbers are wrapped alike when they have the same remainder. *)
LEMMA WrapsAlike ==
  ASSUME NEW k \in Int, NEW l \in Int, NEW n \in 1 .. 16
  PROVE  Wrap(k, n) = Wrap(l, n) <=> k % Place[n] = l % Place[n]
BY WrapType, UnsignedWrap, UnsignedInjective

(* A value is what its number is wrapped to. *)
LEMMA WrapUnsigned ==
  ASSUME NEW n \in 1 .. 16, NEW x \in Value(n)
  PROVE  Wrap(Unsigned(x), n) = x
<1> DEFINE k == Unsigned(x)
           p == Place[n]
<1>1. k \in 0 .. p - 1 /\ p \in Nat /\ p > 0
  BY UnsignedType, Places
<1>2. Unsigned(Wrap(k, n)) = k % p /\ Wrap(k, n) \in Value(n)
  BY <1>1, UnsignedWrap, WrapType
<1>3. k % p = k
  <2> HIDE DEF k, p
  <2> QED BY <1>1
<1> QED BY <1>2, <1>3, UnsignedInjective

(***************************************************************************)
(* Parts of values, and values made of parts.                              *)
(***************************************************************************)

(* Places grow, and are even. *)
LEMMA PlaceGrows ==
  ASSUME NEW i \in 0 .. 8, NEW j \in 0 .. 8
  PROVE  Place[i] <= Place[i + j]
<1> DEFINE p == Place[i]
           q == Place[j]
<1>1. p \in Nat /\ q \in Nat /\ q > 0
  <2>1. i \in 0 .. 16 /\ j \in 0 .. 16
    OBVIOUS
  <2> QED BY <2>1, Places
<1>2. Place[i + j] = p * q
  BY PlaceProduct
<1> HIDE DEF p, q
<1>3. p * (q - 1) \in Nat /\ p * (q - 1) = p * q - p
  BY <1>1
<1> QED BY <1>1, <1>2, <1>3 DEF p

(* Numbers that fit are wrapped to themselves. *)
LEMMA Fits ==
  ASSUME NEW n \in 1 .. 16, NEW k \in 0 .. Place[n] - 1
  PROVE  Unsigned(Wrap(k, n)) = k
<1> DEFINE p == Place[n]
<1>1. p \in Nat /\ p > 0 /\ k \in 0 .. p - 1
  BY Places
<1>2. Unsigned(Wrap(k, n)) = k % p
  BY <1>1, UnsignedWrap
<1> HIDE DEF p
<1>3. k % p = k
  BY <1>1
<1> QED BY <1>2, <1>3

(* The last byte tells which half of the numbers a value is in. *)
LEMMA NegativeMeans ==
  ASSUME NEW n \in 1 .. 16, NEW x \in Value(n)
  PROVE  Negative(x) <=> 2 * Unsigned(x) >= Place[n]
<1> DEFINE p == Place[n - 1]
           l == Sum(x)[n - 1]
           c == x[n - 1]
<1>1. Unsigned(x) = l + c * p /\ Place[n] = Radix * p
  <2>1. Unsigned(x) = Sum(x)[n] /\ Sum(x)[n] = Sum(x)[n - 1] + x[n - 1] * Place[n - 1]
    BY SumSteps
  <2>2. Place[n] = Radix * Place[n - 1]
    BY Places
  <2> QED BY <2>1, <2>2
<1>2. l \in 0 .. p - 1 /\ p \in Nat /\ p > 0 /\ c \in 0 .. Radix - 1
  <2>1. n - 1 \in 0 .. n /\ n - 1 \in 0 .. 16
    OBVIOUS
  <2>2. Sum(x)[n - 1] \in 0 .. Place[n - 1] - 1
    BY <2>1, SumSteps
  <2>3. x[n - 1] \in 0 .. Radix - 1
    BY SumSteps
  <2> QED BY <2>1, <2>2, <2>3, Places
<1>3. Negative(x) <=> 2 * c >= Radix
  BY SizeOf DEF Negative
<1> HIDE DEF p, l, c
<1>4. CASE 2 * c >= Radix
  <2>1. p * (2 * c - Radix) \in Nat /\ p * (2 * c - Radix) = 2 * (c * p) - Radix * p
    BY <1>2, <1>4, BytesAssumption
  <2>2. c * p \in Nat /\ Radix * p \in Nat /\ l \in Nat
    BY <1>2, BytesAssumption
  <2> DEFINE v == c * p
             w == Radix * p
  <2> HIDE DEF v, w
  <2>3. v \in Nat /\ w \in Nat /\ 2 * v - w \in Nat
    BY <2>1, <2>2 DEF v, w
  <2>4. 2 * (l + v) >= w
    BY <2>2, <2>3
  <2> QED BY <1>1, <1>3, <1>4, <2>4 DEF v, w
<1>5. CASE 2 * c < Radix
  <2>1. 2 * c <= Radix - 2
    <3>1. PICK h \in Int : Radix = 2 * h
      BY BytesAssumption
    <3> QED BY <3>1, <1>2, <1>5
  <2>2. p * (Radix - 2 - 2 * c) \in Nat
        /\ p * (Radix - 2 - 2 * c) = Radix * p - 2 * p - 2 * (c * p)
    BY <1>2, <2>1, BytesAssumption
  <2>3. c * p \in Int /\ Radix * p \in Int
    BY <1>2, BytesAssumption
  <2>4. 2 * (l + c * p) < Radix * p
    BY <1>2, <2>2, <2>3
  <2>5. ~ (2 * c >= Radix)
    <3>1. 2 * c \in Int /\ Radix \in Int
      BY <1>2, BytesAssumption
    <3> QED BY <1>5, <3>1
  <2>6. ~ (2 * (l + c * p) >= Radix * p)
    <3>1. 2 * (l + c * p) \in Int /\ Radix * p \in Int
      BY <1>2, <2>3
    <3> DEFINE v == 2 * (l + c * p)
               w == Radix * p
    <3> HIDE DEF v, w
    <3>2. v \in Int /\ w \in Int /\ v < w
      BY <2>4, <3>1 DEF v, w
    <3>3. ~ (v >= w)
      BY <3>2
    <3> QED BY <3>3 DEF v, w
  <2> QED BY <1>1, <1>3, <2>5, <2>6
<1>6. 2 * c >= Radix \/ 2 * c < Radix
  <2>1. 2 * c \in Int /\ Radix \in Int
    BY <1>2, BytesAssumption
  <2> QED BY <2>1
<1> QED BY <1>4, <1>5, <1>6

(* Numbers with a sign. *)
LEMMA SignedIs ==
  ASSUME NEW n \in 1 .. 16, NEW x \in Value(n)
  PROVE  /\ Signed(x) = IF Negative(x) THEN Unsigned(x) - Place[n] ELSE Unsigned(x)
         /\ Signed(x) \in Int /\ -Place[n] <= 2 * Signed(x) /\ 2 * Signed(x) < Place[n]
         /\ Signed(x) % Place[n] = Unsigned(x)
         /\ Negative(x) <=> Signed(x) < 0
<1> DEFINE p == Place[n]
           u == Unsigned(x)
           s == Signed(x)
           neg == Negative(x)
<1>1. p \in Nat /\ p > 0 /\ u \in 0 .. p - 1
  BY Places, UnsignedType
<1>2. s = u - (IF neg THEN p ELSE 0)
  BY SizeOf DEF Signed
<1>3. neg <=> 2 * u >= p
  BY NegativeMeans
<1> HIDE DEF p, u, s, neg
<1>4. u % p = u
  BY <1>1
<1>5. (u + p * (-1)) % p = u % p
  <2>1. -1 \in Int
    OBVIOUS
  <2> QED BY <1>1, <2>1, PlusMultiple
<1>6. u + p * (-1) = u - p
  BY <1>1
<1>7. s % p = u
  BY <1>2, <1>4, <1>5, <1>6, <1>1
<1>8. s = (IF neg THEN u - p ELSE u) /\ s \in Int /\ -p <= 2 * s /\ 2 * s < p
      /\ (neg <=> s < 0)
  BY <1>1, <1>2, <1>3
<1> QED BY <1>7, <1>8 DEF p, u, s, neg

(* Numbers with a sign that fit are wrapped to themselves. *)
LEMMA FitsSigned ==
  ASSUME NEW n \in 1 .. 16, NEW k \in Int, -Place[n] <= 2 * k, 2 * k < Place[n]
  PROVE  Signed(Wrap(k, n)) = k
<1> DEFINE p == Place[n]
           x == Wrap(k, n)
           s == Signed(x)
           u == Unsigned(x)
<1>1. p \in Nat /\ p > 0 /\ -p <= 2 * k /\ 2 * k < p /\ x \in Value(n)
  BY Places, WrapType
<1>2. u = k % p
  BY UnsignedWrap
<1>3. s = (IF Negative(x) THEN u - p ELSE u) /\ (Negative(x) <=> 2 * u >= p)
  BY <1>1, SignedIs, NegativeMeans
<1> HIDE DEF p, x, s, u
<1>4. CASE k >= 0
  <2>1. k % p = k
    BY <1>1, <1>4
  <2> QED BY <1>1, <1>2, <1>3, <2>1 DEF s, x
<1>5. CASE k < 0
  <2>1. k + p * 1 \in 0 .. p - 1 /\ k + p * 1 = k + p
    BY <1>1, <1>5
  <2>2. (k + p * 1) % p = k % p
    <3>1. 1 \in Int
      OBVIOUS
    <3> QED BY <1>1, <3>1, PlusMultiple
  <2>3. (k + p) % p = k + p
    BY <1>1, <2>1
  <2> QED BY <1>1, <1>2, <1>3, <1>5, <2>1, <2>2, <2>3 DEF s, x
<1> QED BY <1>4, <1>5

(* Extended and shortened values. *)
LEMMA ExtendType ==
  ASSUME NEW n \in 1 .. 16, NEW m \in 1 .. 16, NEW x \in Value(n)
  PROVE  /\ \A fill \in Byte : Extend(x, m, fill) \in Value(m)
         /\ ZeroExtend(x, m) \in Value(m) /\ SignExtend(x, m) \in Value(m)
<1>1. ASSUME NEW fill \in Byte PROVE Extend(x, m, fill) \in Value(m)
  BY SizeOf DEF Extend, Value
<1>2. 0 \in Byte /\ Radix - 1 \in Byte
  BY BytesAssumption DEF Byte
<1> QED BY <1>1, <1>2 DEF ZeroExtend, SignExtend

(* To its own size a value is not extended. *)
LEMMA ExtendSame ==
  ASSUME NEW n \in 1 .. 16, NEW x \in Value(n)
  PROVE  /\ \A fill : Extend(x, n, fill) = x
         /\ ZeroExtend(x, n) = x /\ SignExtend(x, n) = x
<1>1. \A fill : Extend(x, n, fill) = x
  BY SizeOf DEF Extend, Value
<1> QED BY <1>1 DEF ZeroExtend, SignExtend

(* Shortening what a number is wrapped to. *)
LEMMA ExtendWrap ==
  ASSUME NEW n \in 1 .. 16, NEW m \in 1 .. n, NEW k \in Int
  PROVE  ZeroExtend(Wrap(k, n), m) = Wrap(k, m)
<1>1. DOMAIN Wrap(k, n) = 0 .. n - 1
  BY DEF Wrap
<1>2. \A i \in 0 .. m - 1 : i \in 0 .. n - 1
  OBVIOUS
<1> QED BY <1>1, <1>2 DEF ZeroExtend, Extend, Wrap

(* Zeros put before a number leave it as it is. *)
LEMMA ZeroExtendIs ==
  ASSUME NEW n \in 1 .. 8, NEW m \in n .. 8, NEW x \in Value(n)
  PROVE  ZeroExtend(x, m) = Wrap(Unsigned(x), m) /\ Unsigned(ZeroExtend(x, m)) = Unsigned(x)
<1> DEFINE u == Unsigned(x)
           w == Wrap(u, n)
<1>1. u \in 0 .. Place[n] - 1 /\ w = x
  BY UnsignedType, WrapUnsigned
<1>2. DOMAIN x = 0 .. n - 1
  BY DEF Value
<1>3. ASSUME NEW i \in 0 .. m - 1
      PROVE  (IF i \in 0 .. n - 1 THEN x[i] ELSE 0) = (u \div Place[i]) % Radix
  <2>1. CASE i \in 0 .. n - 1
    <3>1. w[i] = (u \div Place[i]) % Radix
      BY <2>1 DEF Wrap
    <3> QED BY <1>1, <2>1, <3>1
  <2>2. CASE i \notin 0 .. n - 1
    <3>1. i - n \in 0 .. 8 /\ n \in 0 .. 8 /\ n + (i - n) = i
      BY <2>2
    <3>2. Place[n] <= Place[i]
      BY <3>1, PlaceGrows
    <3> DEFINE p == Place[i]
    <3>3. p \in Nat /\ p > 0 /\ u \in 0 .. p - 1
      <4>1. i \in 0 .. 16 /\ n \in 0 .. 16
        BY <3>1
      <4> QED BY <1>1, <3>2, <4>1, Places
    <3> HIDE DEF p, u
    <3>4. u \div p = 0
      <4>1. u = p * 0 + u
        BY <3>3
      <4> QED BY <3>3
    <3>5. 0 % Radix = 0
      BY BytesAssumption
    <3> QED BY <2>2, <3>4, <3>5 DEF p
  <2> QED BY <2>1, <2>2
<1>4. ZeroExtend(x, m) = Wrap(u, m)
  BY <1>2, <1>3 DEF ZeroExtend, Extend, Wrap
<1>5. u \in 0 .. Place[m] - 1
  <2>1. n \in 0 .. 8 /\ m - n \in 0 .. 8 /\ n + (m - n) = m
    OBVIOUS
  <2>2. Place[n] <= Place[m]
    BY <2>1, PlaceGrows
  <2>3. n \in 0 .. 16 /\ m \in 0 .. 16
    OBVIOUS
  <2> QED BY <1>1, <2>2, <2>3, Places
<1>6. Unsigned(Wrap(u, m)) = u
  <2> HIDE DEF u
  <2>1. m \in 1 .. 16
    OBVIOUS
  <2> QED BY <1>5, <2>1, Fits
<1> QED BY <1>4, <1>6

(* No bytes but zeros make zero. *)
LEMMA ZeroIs ==
  ASSUME NEW n \in 1 .. 16, NEW x \in Value(n)
  PROVE  /\ Zeros(n) \in Value(n) /\ Wrap(0, n) = Zeros(n) /\ Unsigned(Zeros(n)) = 0
         /\ Unsigned(x) = 0 <=> x = Zeros(n)
<1>1. 0 \in Byte /\ \A i \in 0 .. 16 : (0 \div Place[i]) % Radix = 0
  <2> SUFFICES ASSUME NEW i \in 0 .. 16 PROVE (0 \div Place[i]) % Radix = 0
    BY BytesAssumption DEF Byte
  <2> DEFINE p == Place[i]
  <2>1. p \in Nat /\ p > 0
    BY Places
  <2> HIDE DEF p
  <2>2. 0 \div p = 0
    BY <2>1
  <2>3. 0 % Radix = 0
    BY BytesAssumption
  <2> QED BY <2>2, <2>3 DEF p
<1>2. Zeros(n) \in Value(n)
  BY <1>1 DEF Zeros, Value
<1>3. Wrap(0, n) = Zeros(n)
  BY <1>1 DEF Wrap, Zeros
<1>4. Unsigned(Zeros(n)) = 0
  <2>1. 0 \in 0 .. Place[n] - 1
    BY Places
  <2> QED BY <1>3, <2>1, Fits
<1> QED BY <1>2, <1>3, <1>4, UnsignedInjective

(* Two values, one above the other. *)
Join(lo, hi, n) == [i \in 0 .. 2 * n - 1 |-> IF i < n THEN lo[i] ELSE hi[i - n]]

(* Two values, one above the other, are a value of both sizes. *)
LEMMA JoinIs ==
  ASSUME NEW n \in 1 .. 8, NEW lo \in Value(n), NEW hi \in Value(n)
  PROVE  /\ Join(lo, hi, n) \in Value(2 * n)
         /\ Join(lo, hi, n) = Wrap(Unsigned(lo) + Place[n] * Unsigned(hi), 2 * n)
<1> DEFINE a == Unsigned(lo)
           b == Unsigned(hi)
           p == Place[n]
           k == a + p * b
<1>1. a \in 0 .. p - 1 /\ b \in 0 .. p - 1 /\ p \in Nat /\ p > 0
  BY UnsignedType, Places
<1>2. \A i \in 0 .. n - 1 : lo[i] = (a \div Place[i]) % Radix /\ hi[i] = (b \div Place[i]) % Radix
  <2>1. Wrap(a, n) = lo /\ Wrap(b, n) = hi
    BY WrapUnsigned
  <2> QED BY <2>1 DEF Wrap
<1>3. Join(lo, hi, n) \in Value(2 * n)
  BY DEF Join, Value
<1>4. ASSUME NEW i \in 0 .. 2 * n - 1
      PROVE  (IF i < n THEN lo[i] ELSE hi[i - n]) = (k \div Place[i]) % Radix
  <2>1. CASE i < n
    <3> DEFINE q == Place[i]
               r == Place[n - i - 1]
    <3>1. i \in 0 .. 8 /\ n - i \in 0 .. 8 /\ i + (n - i) = n /\ n - i \in 1 .. 16
          /\ n - i - 1 \in 0 .. 16 /\ i \in 0 .. 16
      BY <2>1
    <3>2. p = q * Place[n - i] /\ Place[n - i] = Radix * r
      BY <3>1, PlaceProduct, Places
    <3>3. q \in Nat /\ q > 0 /\ r \in Nat
      BY <3>1, Places
    <3> HIDE DEF a, b, p, q, r
    <3>4. k = a + q * (Radix * (r * b)) /\ Radix * (r * b) \in Int /\ r * b \in Int
      BY <1>1, <3>2, <3>3, BytesAssumption
    <3>5. (a + q * (Radix * (r * b))) \div q = (a \div q) + Radix * (r * b)
      <4> DEFINE y == Radix * (r * b)
      <4>1. y \in Int
        BY <3>4
      <4> HIDE DEF y
      <4>2. (a + q * y) \div q = (a \div q) + y
        BY <1>1, <3>3, <4>1, PlusMultiple
      <4> QED BY <4>2 DEF y
    <3>6. ((a \div q) + Radix * (r * b)) % Radix = (a \div q) % Radix
      <4>1. a \div q \in Int
        BY <1>1, <3>3, Division
      <4>2. Radix \in Nat /\ Radix > 0
        BY BytesAssumption
      <4> DEFINE y == r * b
                 z == a \div q
      <4>3. y \in Int /\ z \in Int
        BY <3>4, <4>1
      <4> HIDE DEF y, z
      <4>4. (z + Radix * y) % Radix = z % Radix
        BY <4>2, <4>3, PlusMultiple
      <4> QED BY <4>4 DEF y, z
    <3>7. lo[i] = (a \div q) % Radix
      BY <1>2, <2>1 DEF q
    <3> HIDE DEF k
    <3> QED BY <2>1, <3>4, <3>5, <3>6, <3>7 DEF q
  <2>2. CASE ~ (i < n)
    <3> DEFINE j == i - n
               q == Place[j]
    <3>1. j \in 0 .. n - 1 /\ j \in 0 .. 8 /\ n \in 0 .. 8 /\ n + j = i /\ j \in 0 .. 16
      BY <2>2
    <3>2. Place[i] = p * q /\ q \in Nat /\ q > 0
      <4> HIDE DEF j
      <4> QED BY <3>1, PlaceProduct, Places
    <3>3. hi[j] = (b \div q) % Radix
      BY <1>2, <3>1
    <3> HIDE DEF a, b, p, q, j
    <3>4. k = p * b + a
      BY <1>1
    <3>5. k \div p = b /\ k \in Int
      BY <1>1, <3>4, DivisionUnique
    <3>6. k \div (p * q) = (k \div p) \div q
      BY <1>1, <3>2, <3>5, DivisionByProduct
    <3> HIDE DEF k
    <3> QED BY <2>2, <3>2, <3>3, <3>5, <3>6 DEF j
  <2> QED BY <2>1, <2>2
<1>5. Join(lo, hi, n) = Wrap(k, 2 * n)
  <2> HIDE DEF k
  <2> QED BY <1>4 DEF Join, Wrap
<1> QED BY <1>3, <1>5

(* Its number. *)
LEMMA JoinUnsigned ==
  ASSUME NEW n \in 1 .. 8, NEW lo \in Value(n), NEW hi \in Value(n)
  PROVE  Unsigned(Join(lo, hi, n)) = Unsigned(lo) + Place[n] * Unsigned(hi)
<1> DEFINE a == Unsigned(lo)
           b == Unsigned(hi)
           p == Place[n]
           k == a + p * b
<1>1. a \in 0 .. p - 1 /\ b \in 0 .. p - 1 /\ p \in Nat /\ p > 0
  BY UnsignedType, Places
<1>2. Place[2 * n] = p * p
  <2>1. n \in 0 .. 8 /\ n + n = 2 * n
    OBVIOUS
  <2>2. Place[n + n] = Place[n] * Place[n]
    BY <2>1, PlaceProduct
  <2> QED BY <2>1, <2>2
<1>3. k \in 0 .. p * p - 1
  <2> HIDE DEF a, b, p
  <2>1. p * b + p <= p * p /\ p * b \in Nat
    BY <1>1, NextMultiple
  <2>2. p * p \in Nat
    BY <1>1
  <2> QED BY <1>1, <2>1, <2>2
<1>4. 2 * n \in 1 .. 16 /\ k \in 0 .. Place[2 * n] - 1
  BY <1>2, <1>3
<1>5. Unsigned(Wrap(k, 2 * n)) = k
  <2> HIDE DEF k
  <2> QED BY <1>4, Fits
<1> QED BY <1>5, JoinIs

(***************************************************************************)
(* Views, and the types of what the handlers compute.                      *)
(***************************************************************************)

(* The parts of registers. *)
LEMMA ViewsAre ==
  /\ \A v \in Views : /\ v.reg \in Regs /\ v.size \in Sizes
                      /\ v.low = 0 \/ (v.low = 1 /\ v.size = 1)
                      /\ v = View(v.reg, v.low, v.size)
  /\ \A r \in Regs : High(r) \in Views /\ \A n \in Sizes : Low(r, n) \in Views
  /\ \A r, l, n : View(r, l, n).reg = r /\ View(r, l, n).low = l /\ View(r, l, n).size = n
<1>1. ASSUME NEW v \in Views
      PROVE  /\ v.reg \in Regs /\ v.size \in Sizes
             /\ v.low = 0 \/ (v.low = 1 /\ v.size = 1)
             /\ v = View(v.reg, v.low, v.size)
  <2>1. \/ \E r \in Regs, n \in {1, 2, 4, 8} : v = View(r, 0, n)
        \/ \E r \in Regs : v = View(r, 1, 1)
    BY DEF Views
  <2>2. CASE \E r \in Regs, n \in {1, 2, 4, 8} : v = View(r, 0, n)
    <3>1. PICK r \in Regs, n \in {1, 2, 4, 8} : v = View(r, 0, n)
      BY <2>2
    <3>2. v.reg = r /\ v.low = 0 /\ v.size = n
      BY <3>1 DEF View
    <3> QED BY <3>1, <3>2 DEF Sizes
  <2>3. CASE \E r \in Regs : v = View(r, 1, 1)
    <3>1. PICK r \in Regs : v = View(r, 1, 1)
      BY <2>3
    <3>2. v.reg = r /\ v.low = 1 /\ v.size = 1
      BY <3>1 DEF View
    <3> QED BY <3>1, <3>2 DEF Sizes
  <2> QED BY <2>1, <2>2, <2>3
<1>2. \A r \in Regs : High(r) \in Views /\ \A n \in Sizes : Low(r, n) \in Views
  BY DEF Views, Low, High, Sizes
<1>3. \A r, l, n : View(r, l, n).reg = r /\ View(r, l, n).low = l /\ View(r, l, n).size = n
  BY DEF View
<1> QED BY <1>1, <1>2, <1>3

(* Parts of a register by name. *)
LEMMA PartsAre ==
  ASSUME NEW r, NEW n
  PROVE  /\ Low(r, n).reg = r /\ Low(r, n).low = 0 /\ Low(r, n).size = n
         /\ High(r).reg = r /\ High(r).low = 1 /\ High(r).size = 1
         /\ Above(Low(r, n)).reg = r /\ Above(Low(r, n)).low = 4 /\ Above(Low(r, n)).size = n
BY DEF Low, High, View, Above

(* Sizes are small numbers. *)
LEMMA SizesAre ==
  \A n \in Sizes : n \in Int /\ n \in 1 .. 8 /\ n \in 1 .. 16 /\ 2 * n \in 1 .. 16
BY DEF Sizes

(* What a view shows is a value. *)
LEMMA ReadType ==
  ASSUME NEW q \in [Regs -> Quad], NEW v \in Views
  PROVE  Read(q, v) \in Value(v.size)
<1>1. v.reg \in Regs /\ v.size \in Sizes /\ (v.low = 0 \/ (v.low = 1 /\ v.size = 1))
  BY ViewsAre
<1>2. \A i \in 0 .. v.size - 1 : i + v.low \in 0 .. 7
  BY <1>1 DEF Sizes
<1> QED BY <1>1, <1>2 DEF Read, Quad, Value

(* What is written may have any size. *)
LEMMA MovType ==
  ASSUME NEW q \in [Regs -> Quad], NEW v, v.reg \in Regs, v.low \in Int, v.size \in 1 .. 8,
         NEW m \in 1 .. 16, NEW x \in Value(m)
  PROVE  Mov(q, v, x) \in [Regs -> Quad] /\ Movsx(q, v, x) \in [Regs -> Quad]
<1> DEFINE n == v.size
<1>1. n \in 1 .. 16
  OBVIOUS
<1>2. ZeroExtend(x, n) \in Value(n) /\ SignExtend(x, n) \in Value(n)
  <2> HIDE DEF n
  <2> QED BY <1>1, ExtendType
<1>3. ASSUME NEW y \in Value(n) PROVE MovWith(q, v, y) \in [Regs -> Quad]
  <2> DEFINE f == [i \in 0 .. 7 |-> IF i - v.low \in 0 .. v.size - 1 THEN y[i - v.low]
                                    ELSE q[v.reg][i]]
  <2>1. f \in Quad
    BY <1>3 DEF Quad, Value
  <2>2. MovWith(q, v, y) = [q EXCEPT ![v.reg] = f]
    BY DEF MovWith
  <2> HIDE DEF f
  <2> QED BY <2>1, <2>2
<1> QED BY <1>2, <1>3 DEF Mov, Movsx

(* store_operand leaves registers. *)
LEMMA StoreOperandType ==
  ASSUME NEW q \in [Regs -> Quad], NEW v \in Views, NEW m \in 1 .. 16, NEW x \in Value(m)
  PROVE  StoreOperand(q, v, x) \in [Regs -> Quad]
<1>1. v.reg \in Regs /\ v.low \in Int /\ v.size \in 1 .. 8
  BY ViewsAre DEF Sizes
<1>2. CASE v.size # 4
  BY <1>1, <1>2, MovType DEF StoreOperand
<1>3. CASE v.size = 4
  <2>1. v = Low(v.reg, 4)
    BY <1>3, ViewsAre DEF Low
  <2>2. Above(v).reg = v.reg /\ Above(v).low \in Int /\ Above(v).size \in 1 .. 8
    BY <2>1, <1>3, PartsAre
  <2>3. Zeros(1) \in Value(1) /\ 1 \in 1 .. 16
    BY ZeroIs, BytesAssumption DEF Zeros, Value, Byte
  <2>4. ClearAbove(q, v) \in [Regs -> Quad]
    BY <1>1, <2>2, <2>3, MovType DEF ClearAbove
  <2> QED BY <1>1, <1>3, <2>4, MovType DEF StoreOperand
<1> QED BY <1>2, <1>3

(* Clearing the four upper bytes leaves registers. *)
LEMMA ClearAboveType ==
  ASSUME NEW q \in [Regs -> Quad], NEW r \in Regs
  PROVE  ClearAbove(q, Low(r, 4)) \in [Regs -> Quad]
<1>1. Zeros(1) \in Value(1) /\ 1 \in 1 .. 16
  BY BytesAssumption DEF Zeros, Value, Byte
<1>2. Above(Low(r, 4)).reg \in Regs /\ Above(Low(r, 4)).low \in Int /\ Above(Low(r, 4)).size \in 1 .. 8
  BY PartsAre
<1> QED BY <1>1, <1>2, MovType DEF ClearAbove

(* Quotients and remainders are numbers. *)
LEMMA QuotientType ==
  ASSUME NEW a \in Int, NEW b \in Int, b # 0
  PROVE  Quotient(a, b) \in Int /\ Remainder(a, b) \in Int
<1>1. Abs(a) \in Int /\ Abs(b) \in Nat /\ Abs(b) > 0
  BY DEF Abs
<1>2. Abs(a) \div Abs(b) \in Int
  BY <1>1, Division
<1>3. Quotient(a, b) \in Int
  BY <1>2 DEF Quotient
<1> QED BY <1>3 DEF Remainder

(***************************************************************************)
(* The processor names the same bytes.                                     *)
(***************************************************************************)
(* Both machines have the same bytes and operands. *)
LEMMA NativeBytes ==
  /\ Native!Idle = Idle /\ Native!Place = Place /\ Native!None = None /\ Native!Rip = Rip
  /\ Native!Flags = Flags
  /\ \A x : /\ Native!Size(x) = Size(x) /\ Native!Unsigned(x) = Unsigned(x)
            /\ Native!Signed(x) = Signed(x) /\ Native!Negative(x) = Negative(x)
            /\ Native!Bit(x) = Bit(x) /\ Native!Abs(x) = Abs(x)
  /\ \A k, n : /\ Native!Wrap(k, n) = Wrap(k, n) /\ Native!Value(n) = Value(n)
               /\ Native!Zeros(n) = Zeros(n) /\ Native!ZeroExtend(k, n) = ZeroExtend(k, n)
               /\ Native!SignExtend(k, n) = SignExtend(k, n)
               /\ Native!Low(k, n) = Low(k, n) /\ Native!High(k) = High(k)
               /\ Native!Read(k, n) = Read(k, n)
               /\ Native!Quotient(k, n) = Quotient(k, n)
               /\ Native!Remainder(k, n) = Remainder(k, n)
  /\ Native!Dst = Dst /\ Native!Src = Src /\ Native!N = N
<1>1. Native!Place = Place
  BY DEF Native!Place, Place
<1>2. \A x : Native!Size(x) = Size(x)
  BY DEF Native!Size, Size, Cardinality, Native!Cardinality
<1>3. \A x : Native!Negative(x) = Negative(x)
  BY <1>2 DEF Native!Negative, Negative
<1>4. \A x : Native!Unsigned(x) = Unsigned(x)
  BY <1>2 DEF Native!Unsigned, Unsigned, Native!Place, Place
<1>5. \A x : Native!Signed(x) = Signed(x)
  BY <1>1, <1>2, <1>3, <1>4 DEF Native!Signed, Signed
<1>6. \A k, n : /\ Native!Wrap(k, n) = Wrap(k, n) /\ Native!Value(n) = Value(n)
                /\ Native!Zeros(n) = Zeros(n)
  BY DEF Native!Wrap, Wrap, Native!Place, Place, Native!Value, Value, Native!Byte, Byte,
         Native!Zeros, Zeros
<1>7. \A k, n : /\ Native!ZeroExtend(k, n) = ZeroExtend(k, n)
                /\ Native!SignExtend(k, n) = SignExtend(k, n)
  BY <1>3 DEF Native!ZeroExtend, ZeroExtend, Native!SignExtend, SignExtend,
              Native!Extend, Extend
<1>8. \A k, n : /\ Native!Low(k, n) = Low(k, n) /\ Native!High(k) = High(k)
                /\ Native!Read(k, n) = Read(k, n)
  BY DEF Native!Low, Low, Native!High, High, Native!View, View, Native!Read, Read
<1>9. \A k : Native!Abs(k) = Abs(k) /\ Native!Bit(k) = Bit(k)
  BY DEF Native!Abs, Abs, Native!Bit, Bit
<1>10. \A k, n : /\ Native!Quotient(k, n) = Quotient(k, n)
                 /\ Native!Remainder(k, n) = Remainder(k, n)
  BY <1>9 DEF Native!Quotient, Quotient, Native!Remainder, Remainder
<1>11. Native!Dst = Dst /\ Native!Src = Src /\ Native!N = N
  BY <1>8 DEF Native!Dst, Dst, Native!Src, Src, Native!N, N, LoadOperand
<1>12. /\ Native!Idle = Idle /\ Native!None = None /\ Native!Rip = Rip
       /\ Native!Flags = Flags
  BY DEF Native!Idle, Idle, Native!None, None, Native!Rip, Rip, Native!Flags, Flags
<1> QED BY <1>1, <1>2, <1>3, <1>4, <1>5, <1>6, <1>7, <1>8, <1>9, <1>10, <1>11, <1>12

(***************************************************************************)
(* The instruction about to be executed.                                   *)
(***************************************************************************)
TwoOperand == {"mov", "xchg", "xadd", "cmpxchg", "mul", "imul1", "div", "idiv", "imul",
               "imul3", "bswap"}

(* What the operands of an instruction are. *)
LEMMA Shapes ==
  ASSUME TypeOK, insn # Idle
  PROVE  /\ insn.op \in TwoOperand =>
              /\ insn.dst \in Views /\ insn.src \in Views /\ insn.dst.size = insn.src.size
         /\ insn.op \in {"imul", "imul3", "bswap"} => insn.dst.size > 1
         /\ insn.op = "imul3" => insn.imm \in Int
         /\ insn.op \in {"movzx", "movsx", "movsxd"} =>
              /\ insn.dst \in Views /\ insn.src \in Views /\ insn.src.size < insn.dst.size
         /\ insn.op = "lea" => insn \in Addresses
<1>1. Encodable(insn)
  BY RegistersAssumption DEF TypeOK
<1>3. \A v \in Operands({8}) : v \in Views /\ v.size = 8
  BY DEF Operands
<1>4. \A v \in Operands({4}) : v \in Views /\ v.size = 4
  BY DEF Operands
<1>5. \A n, v : v \in Operands({n}) => v \in Views /\ v.size = n
  BY DEF Operands
<1>6. \A a, b, c, v : /\ v \in Operands({a, b, c}) => v \in Views
                      /\ v \in Operands({a, b}) => v \in Views
  BY DEF Operands
<1>7. \A i \in Addresses : i.op = "lea"
  BY DEF Addresses
<1>8. /\ 1 \in Int /\ 2 > 1 /\ 4 > 1 /\ 8 > 1 /\ 4 < 8
  OBVIOUS
<1>9. CASE \E n \in Sizes :
             insn \in [op : {"mov", "xchg", "xadd", "cmpxchg", "mul", "imul1", "div", "idiv"},
                      dst : Operands({n}), src : Operands({n})]
  <2>1. PICK n \in Sizes :
          insn \in [op : {"mov", "xchg", "xadd", "cmpxchg", "mul", "imul1", "div", "idiv"},
                   dst : Operands({n}), src : Operands({n})]
    BY <1>9
  <2>2. insn.dst \in Operands({n}) /\ insn.src \in Operands({n})
        /\ insn.op \in {"mov", "xchg", "xadd", "cmpxchg", "mul", "imul1", "div", "idiv"}
    BY <2>1
  <2> QED BY <2>2, <1>5
<1>10. CASE \E n \in {2, 4, 8} :
              \/ insn \in [op : {"imul", "bswap"}, dst : Operands({n}), src : Operands({n})]
              \/ insn \in [op : {"imul3"}, dst : Operands({n}), src : Operands({n}), imm : Int]
  <2>1. PICK n \in {2, 4, 8} :
              \/ insn \in [op : {"imul", "bswap"}, dst : Operands({n}), src : Operands({n})]
              \/ insn \in [op : {"imul3"}, dst : Operands({n}), src : Operands({n}), imm : Int]
    BY <1>10
  <2>2. insn.dst \in Operands({n}) /\ insn.src \in Operands({n})
        /\ insn.op \in {"imul", "imul3", "bswap"} /\ (insn.op = "imul3" => insn.imm \in Int)
    BY <2>1
  <2> QED BY <2>2, <1>5, <1>8
<1>11. CASE /\ insn \in [op : {"movzx", "movsx"}, dst : Operands({2, 4, 8}), src : Operands({1, 2})]
            /\ insn.src.size < insn.dst.size
  <2>1. insn.dst \in Operands({2, 4, 8}) /\ insn.src \in Operands({1, 2})
        /\ insn.op \in {"movzx", "movsx"}
    BY <1>11
  <2> QED BY <2>1, <1>6, <1>11 DEF TwoOperand
<1>12. CASE insn \in [op : {"movsxd"}, dst : Operands({8}), src : Operands({4})]
  <2>1. insn.dst \in Operands({8}) /\ insn.src \in Operands({4}) /\ insn.op = "movsxd"
    BY <1>12
  <2> QED BY <2>1, <1>3, <1>4, <1>8 DEF TwoOperand
<1>13. CASE insn \in [op : {"cbw", "cwde", "cdqe", "cwd", "cdq", "cqo"}]
  BY <1>13 DEF TwoOperand
<1>14. CASE insn \in Addresses
  BY <1>7, <1>14 DEF TwoOperand
<1> QED BY <1>1, <1>9, <1>10, <1>11, <1>12, <1>13, <1>14 DEF Encodable

(* The parts of the state. *)
LEMMA StateTypes ==
  ASSUME TypeOK
  PROVE  /\ regs \in [Regs -> Quad] /\ flag \in Flags
         /\ \A v \in Views : Read(regs, v) \in Value(v.size)
BY ReadType DEF TypeOK

(* Operands have the values of their size. *)
LEMMA OperandTypes ==
  ASSUME TypeOK, insn # Idle, insn.op \in TwoOperand
  PROVE  /\ insn.dst \in Views /\ insn.src \in Views
         /\ N \in Sizes /\ N \in 1 .. 8 /\ N \in 1 .. 16 /\ 2 * N \in 1 .. 16
         /\ insn.dst.size = N /\ insn.src.size = N
         /\ Dst \in Value(N) /\ Src \in Value(N)
         /\ Read(regs, Low(Rax, N)) \in Value(N) /\ Read(regs, Low(Rdx, N)) \in Value(N)
         /\ Read(regs, High(Rax)) \in Value(1)
<1>1. insn.dst \in Views /\ insn.src \in Views /\ insn.dst.size = N /\ insn.src.size = N
  BY Shapes DEF N
<1>2. N \in Sizes
  BY <1>1, ViewsAre
<1>3. Low(Rax, N) \in Views /\ Low(Rdx, N) \in Views /\ High(Rax) \in Views
  BY <1>2, ViewsAre, BytesAssumption
<1>4. Low(Rax, N).size = N /\ Low(Rdx, N).size = N /\ High(Rax).size = 1
  BY PartsAre
<1> QED BY <1>1, <1>2, <1>3, <1>4, SizesAre, StateTypes DEF Dst, Src, LoadOperand

(***************************************************************************)
(* The inductive invariant: besides the types, that no instruction is      *)
(* executed that raises an exception.  Without it a quotient has no type.  *)
(***************************************************************************)

(* An instruction that raises an exception is not executed. *)
NoFault == insn # Idle => ~Native!Faults

IInv == TypeOK /\ NoFault

Divisions == {"div", "idiv"}

(* An instruction that divides does not divide by zero. *)
LEMMA DivisorIs ==
  ASSUME IInv, insn # Idle, insn.op \in Divisions
  PROVE  /\ Native!Divisor = IF insn.op = "idiv" THEN Signed(Src) ELSE Unsigned(Src)
         /\ Native!Divisor \in Int /\ Native!Divisor # 0
         /\ \A x : Native!AsNumber(x) = IF insn.op = "idiv" THEN Signed(x) ELSE Unsigned(x)
<1>1. \A x : Native!AsNumber(x) = IF insn.op = "idiv" THEN Signed(x) ELSE Unsigned(x)
  BY NativeBytes DEF Native!AsNumber, Divisions
<1>2. Native!Divisor = IF insn.op = "idiv" THEN Signed(Src) ELSE Unsigned(Src)
  BY <1>1, NativeBytes DEF Native!Divisor
<1>3. Src \in Value(N) /\ N \in 1 .. 16
  BY OperandTypes DEF IInv, Divisions, TwoOperand
<1>4. Signed(Src) \in Int /\ Unsigned(Src) \in Int
  BY <1>3, SignedIs, UnsignedType, Places
<1>5. Native!Divisor # 0
  BY DEF IInv, NoFault, Native!Faults, Divisions
<1> QED BY <1>1, <1>2, <1>4, <1>5

(***************************************************************************)
(* Type correctness, handler by handler.                                   *)
(***************************************************************************)
LeavesTypes == regs' \in [Regs -> Quad] /\ flag' \in Flags /\ insn' = Idle /\ left' = left

(* MOV and its like keep the types. *)
LEMMA MoveType ==
  ASSUME IInv, Move \/ MoveSigned PROVE LeavesTypes
<1>1. insn # Idle /\ insn.op \in {"mov", "movzx", "movsx", "movsxd"} /\ insn' = Idle
      /\ left' = left /\ flag' = flag
  BY DEF Move, MoveSigned, Handle
<1>2. insn.dst \in Views /\ insn.src \in Views
  BY <1>1, Shapes DEF IInv, TwoOperand
<1>3. Src \in Value(insn.src.size) /\ insn.src.size \in 1 .. 16 /\ insn.dst.size \in 1 .. 16
  BY <1>2, StateTypes, ViewsAre, SizesAre DEF IInv, Src, LoadOperand
<1>4. SignExtend(Src, insn.dst.size) \in Value(insn.dst.size)
  BY <1>3, ExtendType
<1>5. regs' \in [Regs -> Quad]
  BY <1>2, <1>3, <1>4, StateTypes, StoreOperandType DEF IInv, Move, MoveSigned
<1> QED BY <1>1, <1>5, StateTypes DEF IInv, LeavesTypes

(* XCHG and BSWAP keep the types. *)
LEMMA SwapType ==
  ASSUME IInv, Xchg \/ Bswap PROVE LeavesTypes
<1>1. insn # Idle /\ insn.op \in {"xchg", "bswap"} /\ insn' = Idle
      /\ left' = left /\ flag' = flag
  BY DEF Xchg, Bswap, Handle
<1>2. /\ insn.dst \in Views /\ insn.src \in Views /\ N \in 1 .. 16
      /\ Dst \in Value(N) /\ Src \in Value(N) /\ insn.dst.size = N
  BY <1>1, OperandTypes DEF IInv, TwoOperand
<1>3. CASE Xchg
  <2>1. StoreOperand(regs, insn.dst, Src) \in [Regs -> Quad]
    BY <1>2, StateTypes, StoreOperandType DEF IInv
  <2>2. StoreOperand(StoreOperand(regs, insn.dst, Src), insn.src, Dst) \in [Regs -> Quad]
    BY <1>2, <2>1, StoreOperandType
  <2> QED BY <1>1, <1>3, <2>2, StateTypes DEF IInv, LeavesTypes, Xchg
<1>4. CASE Bswap
  <2> DEFINE x == IF insn.dst.size = 2 THEN Zeros(2)
                  ELSE [i \in 0 .. insn.dst.size - 1 |-> Dst[insn.dst.size - 1 - i]]
  <2>1. x \in Value(N)
    <3>1. CASE N = 2
      BY <1>2, <3>1, BytesAssumption DEF Zeros, Value, Byte
    <3>2. CASE N # 2
      BY <1>2, <3>2 DEF Value
    <3> QED BY <3>1, <3>2
  <2>2. regs' = StoreOperand(regs, insn.dst, x)
    BY <1>4 DEF Bswap
  <2> HIDE DEF x
  <2>3. regs' \in [Regs -> Quad]
    BY <1>2, <2>1, <2>2, StateTypes, StoreOperandType DEF IInv
  <2> QED BY <1>1, <2>3, StateTypes DEF IInv, LeavesTypes
<1> QED BY <1>3, <1>4

(* Parts of the accumulator. *)
LEMMA PairParts ==
  ASSUME NEW n \in Sizes
  PROVE  /\ Low(Rax, n) \in Views /\ Low(Rdx, n) \in Views
         /\ Low(Rax, n).reg \in Regs /\ Low(Rax, n).low \in Int /\ Low(Rax, n).size \in 1 .. 8
         /\ Low(Rdx, n).reg \in Regs /\ Low(Rdx, n).low \in Int /\ Low(Rdx, n).size \in 1 .. 8
         /\ High(Rax).reg \in Regs /\ High(Rax).low \in Int /\ High(Rax).size \in 1 .. 8
BY ViewsAre, PartsAre, SizesAre, BytesAssumption

(* Conversions keep the types. *)
LEMMA ConvertType ==
  ASSUME IInv, Convert PROVE LeavesTypes
<1>1. CASE \E op \in {"cwd", "cdq", "cqo"}, n \in {2, 4, 8} : Cx(op, n)
  <2>1. PICK op \in {"cwd", "cdq", "cqo"}, n \in {2, 4, 8} : Cx(op, n)
    BY <1>1
  <2>2. n \in Sizes /\ n \in 1 .. 16
    BY DEF Sizes
  <2> DEFINE sign == Wrap(Bit(Negative(Read(regs, Low(Rax, n)))), n)
  <2>3. sign \in Value(n)
    BY <2>2, WrapType DEF Bit
  <2>4. regs' = Mov(regs, Low(Rdx, n), Negated(sign))
    BY <2>1 DEF Cx
  <2> HIDE DEF sign
  <2>5. Negated(sign) \in Value(n)
    <3>1. Size(sign) = n /\ -Unsigned(sign) \in Int
      BY <2>2, <2>3, SizeOf, UnsignedType, Places
    <3> QED BY <2>2, <3>1, WrapType DEF Negated
  <2>6. regs' \in [Regs -> Quad]
    BY <2>2, <2>4, <2>5, PairParts, MovType, StateTypes DEF IInv
  <2> QED BY <2>1, <2>6, StateTypes DEF Cx, Handle, LeavesTypes, IInv
<1>2. CASE \E op \in {"cbw", "cwde", "cdqe"}, n \in {1, 2, 4} : Cxe(op, n)
  <2>1. PICK op \in {"cbw", "cwde", "cdqe"}, n \in {1, 2, 4} : Cxe(op, n)
    BY <1>2
  <2>2. n \in Sizes /\ n \in 1 .. 16 /\ 2 * n \in Sizes
    BY DEF Sizes
  <2>3. Read(regs, Low(Rax, n)) \in Value(n)
    BY <2>2, PairParts, PartsAre, StateTypes DEF IInv
  <2>4. regs' = Movsx(regs, Low(Rax, 2 * n), Read(regs, Low(Rax, n)))
    BY <2>1 DEF Cxe
  <2> DEFINE m == 2 * n
  <2> HIDE DEF m
  <2>5. regs' \in [Regs -> Quad]
    <3>1. m \in Sizes /\ regs' = Movsx(regs, Low(Rax, m), Read(regs, Low(Rax, n)))
      BY <2>2, <2>4 DEF m
    <3> QED BY <2>2, <2>3, <3>1, PairParts, MovType, StateTypes DEF IInv
  <2> QED BY <2>1, <2>5, StateTypes DEF Cxe, Handle, LeavesTypes, IInv
<1> QED BY <1>1, <1>2 DEF Convert

(* The parts of an address. *)
LEMMA AddressParts ==
  ASSUME IInv, insn # Idle, insn.op = "lea"
  PROVE  /\ insn.dst \in Views /\ insn.dst.size \in {2, 4, 8}
         /\ insn.scale \in Sizes /\ insn.disp \in Int
         /\ 2 * insn.disp \in -Place[4] .. Place[4] - 1
         /\ insn.base = Rip => insn.index = None
         /\ insn.base \in Wholes /\ insn.index \in Wholes => insn.base.size = insn.index.size
         /\ insn.base \in {None, Rip} \cup Wholes /\ insn.index \in {None} \cup Wholes
         /\ \A v \in Wholes : /\ v \in Views /\ v.size \in {4, 8}
                              /\ v # None /\ v # Rip
<1>1. insn \in Addresses
  BY Shapes DEF IInv
<1>2. ASSUME NEW v \in Wholes PROVE v \in Views /\ v.size \in {4, 8} /\ v # None /\ v # Rip
  <2>1. PICK r \in Regs, n \in {4, 8} : v = Low(r, n)
    BY DEF Wholes
  <2>2. v \in Views /\ v.size = n
    BY <2>1, ViewsAre, PartsAre DEF Sizes
  <2>3. DOMAIN v = {"reg", "low", "size"}
    BY <2>1 DEF Low, View
  <2>4. DOMAIN None = {"none"} /\ DOMAIN Rip = {"rip"}
    BY DEF None, Rip
  <2>5. "none" \notin {"reg", "low", "size"} /\ "rip" \notin {"reg", "low", "size"}
    OBVIOUS
  <2> QED BY <2>2, <2>3, <2>4, <2>5
<1> QED BY <1>1, <1>2 DEF Addresses, Operands

(* What is added up. *)
LEMMA TermTypes ==
  ASSUME IInv
  PROVE  /\ Unsigned(NextRip) \in 0 .. Place[8] - 1 /\ NextRip \in Value(8)
         /\ \A v \in Views : Unsigned(Read(regs, v)) \in 0 .. Place[v.size] - 1
<1>1. NextRip \in Value(8)
  BY RegistersAssumption DEF Quad, Value
<1>2. \A v \in Views : Unsigned(Read(regs, v)) \in 0 .. Place[v.size] - 1
  BY StateTypes, UnsignedType, ViewsAre, SizesAre DEF IInv
<1>3. 8 \in 1 .. 16
  OBVIOUS
<1> QED BY <1>1, <1>2, <1>3, UnsignedType

(* LEA keeps the types. *)
LEMMA LeaType ==
  ASSUME IInv, Lea PROVE LeavesTypes
<1>1. insn # Idle /\ insn.op = "lea" /\ insn' = Idle /\ left' = left /\ flag' = flag
  BY DEF Lea, Handle
<1>2. PICK address \in GetDisp : regs' = StoreOperand(regs, insn.dst, address)
  BY DEF Lea
<1>3. \E n \in 1 .. 16 : address \in Value(n)
  <2>1. CASE insn.index = None /\ insn.disp = 0
    <3>1. CASE insn.base \in {None, Rip}
      <4>1. address \in Unknown
        BY <1>2, <2>1, <3>1 DEF GetDisp
      <4>2. address \in Value(8) /\ 8 \in 1 .. 16
        BY <4>1, RegistersAssumption DEF Quad, Value
      <4> QED BY <4>2
    <3>2. CASE insn.base \notin {None, Rip}
      <4>1. address = Read(regs, insn.base)
        BY <1>2, <2>1, <3>2 DEF GetDisp, LoadOperand
      <4>2. insn.base \in Views
        BY <1>1, <3>2, AddressParts
      <4> QED BY <4>1, <4>2, StateTypes, ViewsAre, SizesAre DEF IInv
    <3> QED BY <3>1, <3>2
  <2>2. CASE ~(insn.index = None /\ insn.disp = 0)
    <3> DEFINE a == IF insn.index = None THEN 0 ELSE insn.scale * Unsigned(Reg2Op(insn.index))
               b == IF insn.base = None THEN 0 ELSE Unsigned(Reg2Op(insn.base))
    <3>1. address = Wrap(a + b + insn.disp, 8)
      BY <1>2, <2>2 DEF GetDisp
    <3>2. \A r \in {Rip} \cup Wholes : Unsigned(Reg2Op(r)) \in Int
      BY <1>1, TermTypes, AddressParts, ViewsAre, SizesAre, Places DEF Reg2Op, LoadOperand
    <3>3. a \in Int
      <4>1. insn.scale \in Int
        BY <1>1, AddressParts, SizesAre
      <4> QED BY <1>1, <3>2, <4>1, AddressParts
    <3>4. b \in Int
      BY <1>1, <3>2, AddressParts
    <3>5. a + b + insn.disp \in Int
      <4> HIDE DEF a, b
      <4> QED BY <1>1, <3>3, <3>4, AddressParts
    <3> HIDE DEF a, b
    <3>6. 8 \in 1 .. 16
      OBVIOUS
    <3> QED BY <3>1, <3>5, <3>6, WrapType
  <2> QED BY <2>1, <2>2
<1>4. regs' \in [Regs -> Quad]
  BY <1>1, <1>2, <1>3, AddressParts, StateTypes, StoreOperandType DEF IInv
<1> QED BY <1>1, <1>4, StateTypes DEF IInv, LeavesTypes

(* XADD and CMPXCHG keep the types. *)
LEMMA ExchangeType ==
  ASSUME IInv, Xadd \/ Cmpxchg PROVE LeavesTypes
<1>1. insn # Idle /\ insn.op \in {"xadd", "cmpxchg"} /\ insn' = Idle /\ left' = left
  BY DEF Xadd, Cmpxchg, Handle
<1>2. /\ insn.dst \in Views /\ insn.src \in Views /\ N \in 1 .. 16
      /\ Dst \in Value(N) /\ Src \in Value(N) /\ insn.dst.size = N
  BY <1>1, OperandTypes DEF IInv, TwoOperand
<1>3. CASE Xadd
  <2> DEFINE tmp == Wrap(Unsigned(Dst) + Unsigned(Src), N)
  <2>1. tmp \in Value(N)
    <3>1. Unsigned(Dst) + Unsigned(Src) \in Int
      BY <1>2, UnsignedType, Places
    <3> QED BY <1>2, <3>1, WrapType
  <2>2. flag' = FlagsOfAdd(Dst, Src, tmp)
        /\ regs' = StoreOperand(StoreOperand(regs, insn.dst, tmp), insn.src, Src)
    BY <1>3 DEF Xadd
  <2> HIDE DEF tmp
  <2>3. StoreOperand(regs, insn.dst, tmp) \in [Regs -> Quad]
    BY <1>2, <2>1, StateTypes, StoreOperandType DEF IInv
  <2>4. regs' \in [Regs -> Quad]
    BY <1>2, <2>2, <2>3, StoreOperandType
  <2>5. flag' \in Flags
    BY <2>2 DEF FlagsOfAdd, Flags, Bit
  <2> QED BY <1>1, <2>4, <2>5 DEF LeavesTypes
<1>4. CASE Cmpxchg
  <2> DEFINE lhs == ZeroExtend(Dst, 8)
             q == Mov(regs, Low(Rax, 8), lhs)
  <2>1. lhs \in Value(8) /\ 8 \in 1 .. 16 /\ 8 \in Sizes
    BY <1>2, ExtendType DEF Sizes
  <2>2. q \in [Regs -> Quad]
    <3> HIDE DEF lhs
    <3> QED BY <2>1, PairParts, MovType, StateTypes DEF IInv
  <2>3. \E x \in Value(N) : regs' = StoreOperand(q, insn.dst, x)
    BY <1>2, <1>4 DEF Cmpxchg
  <2>4. flag' \in Flags
    BY <1>4, StateTypes DEF Cmpxchg, IInv, Flags, Bit
  <2> HIDE DEF q
  <2>5. regs' \in [Regs -> Quad]
    BY <1>2, <2>2, <2>3, StoreOperandType
  <2> QED BY <1>1, <2>4, <2>5 DEF LeavesTypes
<1> QED BY <1>3, <1>4

(* Writing two halves leaves registers. *)
LEMMA ToPairType ==
  ASSUME TypeOK, N \in Sizes, NEW lo \in Value(N), NEW hi \in Value(N)
  PROVE  ToPair(lo, hi) \in [Regs -> Quad]
<1> DEFINE q == Mov(Mov(regs, Low(Rax, N), lo), Low(Rdx, N), hi)
<1>0. N \in 1 .. 16
  BY SizesAre
<1>1. Mov(regs, Low(Rax, N), lo) \in [Regs -> Quad]
  BY <1>0, PairParts, MovType, StateTypes
<1>2. q \in [Regs -> Quad]
  BY <1>0, <1>1, PairParts, MovType
<1>3. ToPair(lo, hi) = IF N = 4 THEN ClearAbove(ClearAbove(q, Low(Rax, 4)), Low(Rdx, 4)) ELSE q
  BY DEF ToPair
<1> HIDE DEF q
<1>4. ClearAbove(q, Low(Rax, 4)) \in [Regs -> Quad]
  BY <1>2, ClearAboveType, BytesAssumption
<1>5. ClearAbove(ClearAbove(q, Low(Rax, 4)), Low(Rdx, 4)) \in [Regs -> Quad]
  BY <1>4, ClearAboveType, BytesAssumption
<1> QED BY <1>2, <1>3, <1>5

(* Products have types whatever is multiplied. *)
LEMMA ProductTypes ==
  ASSUME NEW a \in Int, NEW b \in Int, NEW n \in 1 .. 8
  PROVE  /\ LowPart(a, b, n) \in Value(n) /\ HighPart(a, b, n) \in Value(n)
         /\ a * b \in Int /\ (a * b) \div Place[n] \in Int
<1>1. a * b \in Int /\ n \in 1 .. 16 /\ n \in 0 .. 16
  OBVIOUS
<1>2. (a * b) \div Place[n] \in Int
  BY <1>1, Places, Division
<1> QED BY <1>1, <1>2, WrapType DEF LowPart, HighPart

(* Setting CF and OF leaves flags. *)
LEMMA OverflowType ==
  ASSUME TypeOK, NEW hi, NEW p, \/ Overflow(hi)
                               \/ flag' = [flag EXCEPT !.CF = Bit(p), !.OF = Bit(p)]
  PROVE  flag' \in Flags
<1>1. PICK b \in 0 .. 1 : flag' = [flag EXCEPT !.CF = b, !.OF = b]
  <2>1. \A c : Bit(c) \in 0 .. 1
    BY DEF Bit
  <2> QED BY <2>1 DEF Overflow
<1> QED BY <1>1, StateTypes DEF Flags

(* MUL and IMUL of one operand keep the types. *)
LEMMA MultiplyType ==
  ASSUME IInv, Mul \/ Imul1 PROVE LeavesTypes
<1>1. insn # Idle /\ insn.op \in {"mul", "imul1"} /\ insn' = Idle /\ left' = left
  BY DEF Mul, Imul1, MultiplyByte, MultiplyPair, Handle
<1>2. /\ N \in Sizes /\ N \in 1 .. 8 /\ N \in 1 .. 16
      /\ Src \in Value(N) /\ Read(regs, Low(Rax, N)) \in Value(N)
  BY <1>1, OperandTypes DEF IInv, TwoOperand
<1>3. \A x \in Value(N) : Signed(x) \in Int /\ Unsigned(x) \in Int
  BY <1>2, SignedIs, UnsignedType, Places
<1>4. CASE MultiplyByte("mul", Unsigned) \/ MultiplyByte("imul1", Signed)
  <2>0. N = 1 /\ 2 \in 1 .. 8 /\ 2 \in 1 .. 16 /\ 1 \in 1 .. 16 /\ 2 \in Sizes
    BY <1>4 DEF MultiplyByte, Sizes
  <2> DEFINE al == ZeroExtend(Read(regs, Low(Rax, 1)), 2)
  <2>1. al \in Value(2)
    BY <1>2, <2>0, ExtendType
  <2>2. Signed(al) \in Int /\ Unsigned(al) \in Int
    BY <2>0, <2>1, SignedIs, UnsignedType, Places
  <2>3. \E a \in Int, b \in Int : /\ regs' = Mov(regs, Low(Rax, 2), LowPart(a, b, 2))
                                  /\ Overflow(Wrap(LowPart(a, b, 2)[1], 1))
    BY <1>3, <1>2, <1>4, <2>2 DEF MultiplyByte
  <2>4. PICK a \in Int, b \in Int : /\ regs' = Mov(regs, Low(Rax, 2), LowPart(a, b, 2))
                                    /\ Overflow(Wrap(LowPart(a, b, 2)[1], 1))
    BY <2>3
  <2>5. LowPart(a, b, 2) \in Value(2)
    BY <2>0, ProductTypes
  <2>6. regs' \in [Regs -> Quad]
    BY <2>0, <2>4, <2>5, PairParts, MovType, StateTypes DEF IInv
  <2>7. flag' \in Flags
    BY <2>4, OverflowType DEF IInv
  <2> QED BY <1>1, <2>6, <2>7 DEF LeavesTypes
<1>5. CASE MultiplyPair("mul", Unsigned) \/ MultiplyPair("imul1", Signed)
  <2>1. \E a \in Int, b \in Int : /\ regs' = ToPair(LowPart(a, b, N), HighPart(a, b, N))
                                  /\ Overflow(HighPart(a, b, N))
    BY <1>3, <1>2, <1>5 DEF MultiplyPair
  <2>2. regs' \in [Regs -> Quad]
    <3>1. PICK a \in Int, b \in Int : regs' = ToPair(LowPart(a, b, N), HighPart(a, b, N))
      BY <2>1
    <3>2. LowPart(a, b, N) \in Value(N) /\ HighPart(a, b, N) \in Value(N)
      BY <1>2, ProductTypes
    <3> QED BY <1>2, <3>1, <3>2, ToPairType DEF IInv
  <2>3. flag' \in Flags
    BY <2>1, OverflowType DEF IInv
  <2> QED BY <1>1, <2>2, <2>3 DEF LeavesTypes
<1> QED BY <1>4, <1>5 DEF Mul, Imul1

(* IMUL of two and three operands keeps the types. *)
LEMMA ImulType ==
  ASSUME IInv, Imul PROVE LeavesTypes
<1>1. insn # Idle /\ insn.op \in {"imul", "imul3"} /\ insn' = Idle /\ left' = left
  BY DEF Imul, ImulTo, Handle
<1>2. /\ N \in 1 .. 8 /\ N \in 1 .. 16 /\ insn.dst \in Views
      /\ Src \in Value(N) /\ Dst \in Value(N)
  BY <1>1, OperandTypes DEF IInv, TwoOperand
<1>3. insn.op = "imul3" => Wrap(insn.imm, N) \in Value(N)
  BY <1>1, <1>2, Shapes, WrapType DEF IInv
<1>4. \A x \in Value(N) : Unsigned(x) \in Int
  BY <1>2, UnsignedType, Places
<1>5. PICK x \in Value(N), y \in Value(N) : ImulTo(insn.op, x, y)
  BY <1>1, <1>2, <1>3 DEF Imul, ImulTo, Handle
<1>6. LowPart(Unsigned(x), Unsigned(y), N) \in Value(N)
  BY <1>2, <1>4, ProductTypes
<1>7. regs' \in [Regs -> Quad]
  BY <1>2, <1>5, <1>6, StateTypes, StoreOperandType DEF IInv, ImulTo
<1>8. flag' \in Flags
  BY <1>5, OverflowType DEF IInv, ImulTo
<1> QED BY <1>1, <1>7, <1>8 DEF LeavesTypes

(* What is divided. *)
LEMMA DividendType ==
  ASSUME IInv, insn # Idle, insn.op \in Divisions
  PROVE  /\ N > 1 => \A x \in {Join(Read(regs, Low(Rax, N)), Read(regs, Low(Rdx, N)), N)} :
                       Signed(x) \in Int /\ Unsigned(x) \in Int
         /\ N = 1 => \A x \in {Extend(Read(regs, Low(Rax, 1)), 2, 0)} :
                       Signed(x) \in Int /\ Unsigned(x) \in Int
<1>1. /\ N \in 1 .. 8 /\ N \in 1 .. 16 /\ 2 * N \in 1 .. 16
      /\ Read(regs, Low(Rax, N)) \in Value(N) /\ Read(regs, Low(Rdx, N)) \in Value(N)
  BY OperandTypes DEF IInv, TwoOperand, Divisions
<1>2. \A n \in 1 .. 16 : \A x : x \in Value(n) => Signed(x) \in Int /\ Unsigned(x) \in Int
  BY SignedIs, UnsignedType, Places
<1>3. Join(Read(regs, Low(Rax, N)), Read(regs, Low(Rdx, N)), N) \in Value(2 * N)
  BY <1>1, JoinIs
<1>4. N = 1 => Extend(Read(regs, Low(Rax, 1)), 2, 0) \in Value(2)
  <2>1. 0 \in Byte /\ 2 \in 1 .. 16
    BY BytesAssumption DEF Byte
  <2> QED BY <1>1, <2>1, ExtendType
<1> QED BY <1>1, <1>2, <1>3, <1>4

(* DIV and IDIV keep the types. *)
LEMMA DivideType ==
  ASSUME IInv, Divide PROVE LeavesTypes
<1>1. insn # Idle /\ insn.op \in Divisions /\ insn' = Idle /\ left' = left /\ flag' \in Flags
  BY DEF Divide, DivideByte, DividePair, Handle, Divisions
<1>2. N \in Sizes /\ N \in 1 .. 8 /\ N \in 1 .. 16 /\ Src \in Value(N)
  BY <1>1, OperandTypes DEF IInv, TwoOperand, Divisions
<1>3. insn.op = "idiv" => Signed(Src) \in Int /\ Signed(Src) # 0
  BY <1>1, DivisorIs
<1>4. insn.op = "div" => Unsigned(Src) \in Int /\ Unsigned(Src) # 0
  BY <1>1, DivisorIs
<1>5. \A a \in Int, b \in Int : b # 0 => /\ Wrap(Quotient(a, b), N) \in Value(N)
                                        /\ Wrap(Remainder(a, b), N) \in Value(N)
  BY <1>2, QuotientType, WrapType
<1>6. CASE DivideByte("div", Unsigned) \/ DivideByte("idiv", Signed)
  <2>0. N = 1 /\ 1 \in Sizes /\ 1 \in 1 .. 16
    BY <1>6 DEF DivideByte, Sizes
  <2> DEFINE x == Extend(Read(regs, Low(Rax, 1)), 2, 0)
  <2>1. Signed(x) \in Int /\ Unsigned(x) \in Int
    BY <1>1, <2>0, DividendType
  <2> HIDE DEF x
  <2>2. PICK a \in Int, b \in Int : /\ b # 0
          /\ regs' = Mov(Mov(regs, Low(Rax, 1), Wrap(Quotient(a, b), 1)), High(Rax),
                         Wrap(Remainder(a, b), 1))
    BY <1>3, <1>4, <1>6, <2>1 DEF DivideByte, Handle, x
  <2>3. Mov(regs, Low(Rax, 1), Wrap(Quotient(a, b), 1)) \in [Regs -> Quad]
    BY <1>5, <2>0, <2>2, PairParts, MovType, StateTypes DEF IInv
  <2>4. regs' \in [Regs -> Quad]
    BY <1>5, <2>0, <2>2, <2>3, PairParts, MovType
  <2> QED BY <1>1, <2>4 DEF LeavesTypes
<1>7. CASE DividePair("div", Unsigned) \/ DividePair("idiv", Signed)
  <2> DEFINE x == Join(Read(regs, Low(Rax, N)), Read(regs, Low(Rdx, N)), N)
  <2>0. N > 1
    BY <1>7 DEF DividePair
  <2>1. Signed(x) \in Int /\ Unsigned(x) \in Int
    BY <1>1, <2>0, DividendType
  <2>2. \E a \in Int, b \in Int : /\ b # 0
          /\ regs' = ToPair(Wrap(Quotient(a, b), N), Wrap(Remainder(a, b), N))
    BY <1>3, <1>4, <1>7, <2>1 DEF DividePair, Handle, Join
  <2>3. regs' \in [Regs -> Quad]
    BY <1>2, <1>5, <2>2, ToPairType DEF IInv
  <2> QED BY <1>1, <2>3 DEF LeavesTypes
<1> QED BY <1>6, <1>7 DEF Divide

(* The invariant holds at first. *)
LEMMA InitTypes == Init => IInv
BY RegistersAssumption DEF Init, IInv, TypeOK, NoFault

(* Every step keeps the invariant. *)
LEMMA StepTypes == IInv /\ [Next]_vars => IInv'
<1> SUFFICES ASSUME IInv, [Next]_vars PROVE IInv'
  OBVIOUS
<1>1. CASE Fetch
  <2>1. regs' = regs /\ flag' = flag /\ insn' \in Insns /\ left > 0 /\ left' = left - 1
        /\ ~Native!Faults'
    BY <1>1 DEF Fetch
  <2>2. left' \in 0 .. Steps
    <3>1. left \in 0 .. Steps /\ Steps \in Nat
      BY RegistersAssumption DEF IInv, TypeOK
    <3> QED BY <2>1, <3>1
  <2>3. TypeOK'
    BY <2>1, <2>2 DEF IInv, TypeOK
  <2> QED BY <2>1, <2>3 DEF IInv, NoFault
<1>2. CASE Execute
  <2>1. LeavesTypes
    BY <1>2, MoveType, SwapType, ConvertType, LeaType, ExchangeType, MultiplyType, ImulType,
       DivideType DEF Execute
  <2> QED BY <2>1 DEF LeavesTypes, IInv, TypeOK, NoFault
<1>3. CASE UNCHANGED vars
  <2>1. Native!Faults' = Native!Faults
    BY <1>3 DEF vars, Native!Faults, Native!Divisor, Native!Dividend, Native!AsNumber,
       Native!Accumulator, Native!Half, Native!Src, Native!N
  <2>2. TypeOK'
    BY <1>3 DEF vars, IInv, TypeOK
  <2> QED BY <1>3, <2>1, <2>2 DEF vars, IInv, NoFault
<1> QED BY <1>1, <1>2, <1>3 DEF Next

(* Registers stay eight bytes each and flags stay bits, for bytes of every *)
(* radix and any registers: every handler writes values that fit the part  *)
(* of a register they go to (amd64.cpp:139-160, misc.cpp:130-217,          *)
(* arithmetic.cpp:205-552, 800-842, 877-920, comparison.cpp:75-95).        *)
THEOREM RegisterTypes == Spec => []TypeOK
<1>1. IInv => TypeOK
  BY DEF IInv
<1> QED BY <1>1, InitTypes, StepTypes, PTL DEF Spec

(***************************************************************************)
(* Registers byte by byte: when VTIL writes what the processor writes.     *)
(***************************************************************************)

(* Registers are the same if all their bytes are. *)
LEMMA SameBytes ==
  ASSUME NEW q \in [Regs -> Quad], NEW s \in [Regs -> Quad],
         \A r \in Regs, i \in 0 .. 7 : q[r][i] = s[r][i]
  PROVE  q = s
<1>1. \A r \in Regs : q[r] = s[r]
  BY DEF Quad
<1> QED BY <1>1

(* What mov writes, byte by byte. *)
LEMMA MovWithBytes ==
  ASSUME NEW q \in [Regs -> Quad], NEW v, v.reg \in Regs, v.low \in Int, v.size \in 1 .. 8,
         NEW x, NEW r \in Regs, NEW i \in 0 .. 7
  PROVE  MovWith(q, v, x)[r][i] =
           IF r = v.reg /\ i - v.low \in 0 .. v.size - 1 THEN x[i - v.low] ELSE q[r][i]
<1> DEFINE f == [j \in 0 .. 7 |-> IF j - v.low \in 0 .. v.size - 1 THEN x[j - v.low]
                                  ELSE q[v.reg][j]]
<1>1. MovWith(q, v, x) = [q EXCEPT ![v.reg] = f]
  BY DEF MovWith
<1>2. f[i] = IF i - v.low \in 0 .. v.size - 1 THEN x[i - v.low] ELSE q[v.reg][i]
  OBVIOUS
<1> HIDE DEF f
<1>3. MovWith(q, v, x)[r] = IF r = v.reg THEN f ELSE q[r]
  BY <1>1
<1> QED BY <1>2, <1>3

(* What the processor writes, byte by byte. *)
LEMMA PutBytes ==
  ASSUME NEW q \in [Regs -> Quad], NEW v \in Views, NEW x \in Value(v.size)
  PROVE  /\ Native!Put(q, v, x) \in [Regs -> Quad]
         /\ \A r \in Regs, i \in 0 .. 7 :
              Native!Put(q, v, x)[r][i] =
                IF r = v.reg /\ i - v.low \in 0 .. v.size - 1 THEN x[i - v.low]
                ELSE IF r = v.reg /\ v.size = 4 /\ i > 3 THEN 0 ELSE q[r][i]
<1> DEFINE f == [i \in 0 .. 7 |->
                   CASE i \in v.low .. v.low + v.size - 1 -> x[i - v.low]
                     [] v.size = 4 /\ i > 3               -> 0
                     [] OTHER                             -> q[v.reg][i]]
<1>1. Native!Put(q, v, x) = [q EXCEPT ![v.reg] = f]
  BY DEF Native!Put
<1>2. v.reg \in Regs /\ v.size \in Sizes /\ (v.low = 0 \/ (v.low = 1 /\ v.size = 1))
  BY ViewsAre
<1>3. v.size \in Int /\ v.low \in Int
  BY <1>2 DEF Sizes
<1>4. ASSUME NEW i \in 0 .. 7
      PROVE  /\ f[i] = IF i - v.low \in 0 .. v.size - 1 THEN x[i - v.low]
                       ELSE IF v.size = 4 /\ i > 3 THEN 0 ELSE q[v.reg][i]
             /\ f[i] \in Byte
  <2>1. i \in v.low .. v.low + v.size - 1 <=> i - v.low \in 0 .. v.size - 1
    BY <1>3
  <2>2. CASE i \in v.low .. v.low + v.size - 1
    <3>1. ~ (v.size = 4 /\ i > 3)
      BY <1>2, <2>2
    <3>2. f[i] = x[i - v.low]
      BY <2>2, <3>1
    <3> QED BY <2>1, <2>2, <3>2 DEF Value
  <2>3. CASE i \notin v.low .. v.low + v.size - 1
    <3>1. 0 \in Byte /\ q[v.reg][i] \in Byte
      BY <1>2, BytesAssumption DEF Byte, Quad
    <3> QED BY <2>1, <2>3, <3>1
  <2> QED BY <2>2, <2>3
<1>5. f \in Quad
  BY <1>4 DEF Quad
<1> HIDE DEF f
<1>6. Native!Put(q, v, x) \in [Regs -> Quad]
  BY <1>1, <1>2, <1>5
<1>7. \A r \in Regs : Native!Put(q, v, x)[r] = IF r = v.reg THEN f ELSE q[r]
  BY <1>1, <1>2
<1> QED BY <1>4, <1>6, <1>7

(* The operands of a register file: lows are integers. *)
LEMMA ViewParts ==
  ASSUME NEW v \in Views
  PROVE  /\ v.reg \in Regs /\ v.low \in {0, 1} /\ v.size \in {1, 2, 4, 8} /\ v.low \in Int
         /\ v.low = 1 => v.size = 1
         /\ v.size \in 1 .. 8 /\ v.size \in 1 .. 16
BY ViewsAre DEF Sizes

(* mov leaves what the processor leaves, if it clears nothing else. *)
LEMMA MovOrPut ==
  ASSUME NEW q \in [Regs -> Quad], NEW v \in Views, NEW x \in Value(v.size)
  PROVE  MovWith(q, v, x) = Native!Put(q, v, x)
           <=> (v.size = 4 => Read(q, Above(v)) = Zeros(4))
<1>0. /\ v.reg \in Regs /\ v.low \in {0, 1} /\ v.size \in {1, 2, 4, 8} /\ v.low \in Int
      /\ v.low = 1 => v.size = 1
      /\ v.size \in 1 .. 8 /\ v.size \in 1 .. 16
  BY ViewParts
<1>1. MovWith(q, v, x) \in [Regs -> Quad]
  <2>1. Mov(q, v, x) = MovWith(q, v, x)
    BY <1>0, ExtendSame DEF Mov
  <2>2. Mov(q, v, x) \in [Regs -> Quad]
    BY <1>0, MovType
  <2> QED BY <2>1, <2>2
<1>2. Native!Put(q, v, x) \in [Regs -> Quad]
  BY PutBytes
<1>3. \A r \in Regs, i \in 0 .. 7 :
        MovWith(q, v, x)[r][i] =
           IF r = v.reg /\ i - v.low \in 0 .. v.size - 1 THEN x[i - v.low] ELSE q[r][i]
  BY <1>0, MovWithBytes
<1>4. \A r \in Regs, i \in 0 .. 7 :
              Native!Put(q, v, x)[r][i] =
                IF r = v.reg /\ i - v.low \in 0 .. v.size - 1 THEN x[i - v.low]
                ELSE IF r = v.reg /\ v.size = 4 /\ i > 3 THEN 0 ELSE q[r][i]
  BY PutBytes
<1>5. CASE v.size # 4
  BY <1>1, <1>2, <1>3, <1>4, <1>5, SameBytes
<1>6. CASE v.size = 4
  <2>1. v.low = 0
    BY <1>0, <1>6
  <2>2. Above(v).reg = v.reg /\ Above(v).low = 4 /\ Above(v).size = 4
    BY <1>6, <2>1, ViewsAre DEF Above, View
  <2>3. Read(q, Above(v)) = [i \in 0 .. 3 |-> q[v.reg][i + 4]]
    BY <2>2 DEF Read
  <2>4. Read(q, Above(v)) = Zeros(4) <=> \A i \in 4 .. 7 : q[v.reg][i] = 0
    <3>1. Zeros(4) = [i \in 0 .. 3 |-> 0]
      BY DEF Zeros
    <3>2. ASSUME Read(q, Above(v)) = Zeros(4), NEW i \in 4 .. 7 PROVE q[v.reg][i] = 0
      <4>1. i - 4 \in 0 .. 3 /\ (i - 4) + 4 = i
        OBVIOUS
      <4> QED BY <2>3, <3>1, <3>2, <4>1
    <3>3. ASSUME \A i \in 4 .. 7 : q[v.reg][i] = 0 PROVE Read(q, Above(v)) = Zeros(4)
      <4>1. \A i \in 0 .. 3 : i + 4 \in 4 .. 7
        OBVIOUS
      <4> QED BY <2>3, <3>1, <3>3, <4>1
    <3> QED BY <3>2, <3>3
  <2>5. MovWith(q, v, x) = Native!Put(q, v, x) => \A i \in 4 .. 7 : q[v.reg][i] = 0
    <3> SUFFICES ASSUME MovWith(q, v, x) = Native!Put(q, v, x), NEW i \in 4 .. 7
                 PROVE q[v.reg][i] = 0
      OBVIOUS
    <3>1. i \in 0 .. 7 /\ i > 3 /\ i - v.low \notin 0 .. v.size - 1
      BY <1>6, <2>1
    <3>2. MovWith(q, v, x)[v.reg][i] = q[v.reg][i]
      BY <1>0, <1>3, <3>1
    <3>3. Native!Put(q, v, x)[v.reg][i] = 0
      BY <1>0, <1>4, <1>6, <3>1
    <3> QED BY <3>2, <3>3
  <2>6. (\A i \in 4 .. 7 : q[v.reg][i] = 0) => MovWith(q, v, x) = Native!Put(q, v, x)
    <3> SUFFICES ASSUME \A i \in 4 .. 7 : q[v.reg][i] = 0
                 PROVE  MovWith(q, v, x) = Native!Put(q, v, x)
      OBVIOUS
    <3>1. ASSUME NEW r \in Regs, NEW i \in 0 .. 7
          PROVE  MovWith(q, v, x)[r][i] = Native!Put(q, v, x)[r][i]
      <4>1. i > 3 => q[v.reg][i] = 0
        OBVIOUS
      <4> QED BY <1>3, <1>4, <4>1
    <3> QED BY <1>1, <1>2, <3>1, SameBytes
  <2> QED BY <1>6, <2>4, <2>5, <2>6
<1> QED BY <1>5, <1>6

(* store_operand writes what the processor writes. *)
LEMMA StoreIsPut ==
  ASSUME NEW q \in [Regs -> Quad], NEW v \in Views, NEW m \in 1 .. 16, NEW x \in Value(m)
  PROVE  /\ ZeroExtend(x, v.size) \in Value(v.size)
         /\ StoreOperand(q, v, x) = Native!Put(q, v, ZeroExtend(x, v.size))
         /\ m = v.size => StoreOperand(q, v, x) = Native!Put(q, v, x)
<1> DEFINE y == ZeroExtend(x, v.size)
<1>0. /\ v.reg \in Regs /\ v.low \in {0, 1} /\ v.size \in {1, 2, 4, 8} /\ v.low \in Int
      /\ v.low = 1 => v.size = 1
      /\ v.size \in 1 .. 8 /\ v.size \in 1 .. 16
  BY ViewParts
<1>1. y \in Value(v.size) /\ (m = v.size => y = x)
  BY <1>0, ExtendType, ExtendSame
<1>2. \A p : Mov(p, v, x) = MovWith(p, v, y)
  BY DEF Mov
<1> HIDE DEF y
<1>3. CASE v.size # 4
  <2>1. StoreOperand(q, v, x) = MovWith(q, v, y)
    BY <1>2, <1>3 DEF StoreOperand
  <2>2. MovWith(q, v, y) = Native!Put(q, v, y)
    BY <1>1, <1>3, MovOrPut
  <2>3. StoreOperand(q, v, x) = Native!Put(q, v, y)
    BY <2>1, <2>2
  <2> QED BY <1>1, <2>3 DEF y
<1>4. CASE v.size = 4
  <2> DEFINE p == ClearAbove(q, v)
             w == Above(v)
  <2>1. v.low = 0 /\ v = Low(v.reg, 4)
    BY <1>0, <1>4, ViewsAre DEF Low
  <2>2. w.reg = v.reg /\ w.low = 4 /\ w.size = 4
    BY <2>1, PartsAre
  <2>3. p \in [Regs -> Quad]
    BY <1>0, <2>1, ClearAboveType
  <2>4. \A r \in Regs, i \in 0 .. 7 : p[r][i] = IF r = v.reg /\ i > 3 THEN 0 ELSE q[r][i]
    <3>1. ZeroExtend(Zeros(1), w.size) = [i \in 0 .. 3 |-> 0]
      <4>1. ZeroExtend(Zeros(1), 4) = [i \in 0 .. 3 |-> 0]
        BY DEF ZeroExtend, Extend, Zeros
      <4> QED BY <2>2, <4>1
    <3>2. p = MovWith(q, w, [i \in 0 .. 3 |-> 0])
      BY <3>1 DEF ClearAbove, Mov
    <3>3. w.reg \in Regs /\ w.low \in Int /\ w.size \in 1 .. 8
      BY <1>0, <2>2
    <3> DEFINE z == [i \in 0 .. 3 |-> 0]
    <3>4. ASSUME NEW r \in Regs, NEW i \in 0 .. 7
          PROVE  p[r][i] = IF r = w.reg /\ i - w.low \in 0 .. w.size - 1 THEN z[i - w.low] ELSE q[r][i]
      <4> HIDE DEF z, w, p
      <4> QED BY <3>2, <3>3, MovWithBytes DEF z
    <3> HIDE DEF p, w
    <3> QED BY <2>2, <3>4
  <2>5. StoreOperand(q, v, x) = MovWith(p, v, y)
    BY <1>2, <1>4 DEF StoreOperand
  <2> HIDE DEF p, w
  <2>6. MovWith(p, v, y) \in [Regs -> Quad] /\ Native!Put(q, v, y) \in [Regs -> Quad]
    <3>1. Mov(p, v, x) \in [Regs -> Quad]
      BY <1>0, <2>3, MovType
    <3> QED BY <1>1, <1>2, <3>1, PutBytes
  <2>7. ASSUME NEW r \in Regs, NEW i \in 0 .. 7
        PROVE  MovWith(p, v, y)[r][i] = Native!Put(q, v, y)[r][i]
    <3>1. MovWith(p, v, y)[r][i] =
            IF r = v.reg /\ i - v.low \in 0 .. v.size - 1 THEN y[i - v.low] ELSE p[r][i]
      BY <1>0, <2>3, MovWithBytes
    <3>2. Native!Put(q, v, y)[r][i] =
            IF r = v.reg /\ i - v.low \in 0 .. v.size - 1 THEN y[i - v.low]
            ELSE IF r = v.reg /\ v.size = 4 /\ i > 3 THEN 0 ELSE q[r][i]
      BY <1>1, PutBytes
    <3> QED BY <1>4, <2>4, <3>1, <3>2
  <2> QED BY <1>1, <2>5, <2>6, <2>7, SameBytes DEF y
<1> QED BY <1>1, <1>3, <1>4 DEF y

(* The second of two writes to one part is the one that is left. *)
LEMMA PutTwice ==
  ASSUME NEW q \in [Regs -> Quad], NEW v \in Views, NEW x \in Value(v.size),
         NEW y \in Value(v.size)
  PROVE  Native!Put(Native!Put(q, v, x), v, y) = Native!Put(q, v, y)
<1> DEFINE p == Native!Put(q, v, x)
<1>1. p \in [Regs -> Quad]
  BY PutBytes
<1>2. \A r \in Regs, i \in 0 .. 7 :
        p[r][i] = IF r = v.reg /\ i - v.low \in 0 .. v.size - 1 THEN x[i - v.low]
                  ELSE IF r = v.reg /\ v.size = 4 /\ i > 3 THEN 0 ELSE q[r][i]
  BY PutBytes
<1> HIDE DEF p
<1>3. \A r \in Regs, i \in 0 .. 7 : Native!Put(p, v, y)[r][i] = Native!Put(q, v, y)[r][i]
  BY <1>1, <1>2, PutBytes
<1>4. Native!Put(p, v, y) \in [Regs -> Quad] /\ Native!Put(q, v, y) \in [Regs -> Quad]
  BY <1>1, PutBytes
<1> QED BY <1>3, <1>4, SameBytes DEF p

(* Writes to two parts of one size may be done in any order. *)
LEMMA PutsCommute ==
  ASSUME NEW q \in [Regs -> Quad], NEW v \in Views, NEW w \in Views, v # w,
         v.size = w.size, NEW x \in Value(v.size), NEW y \in Value(v.size)
  PROVE  Native!Put(Native!Put(q, v, x), w, y) = Native!Put(Native!Put(q, w, y), v, x)
<1> DEFINE p == Native!Put(q, v, x)
           s == Native!Put(q, w, y)
           a(r, i) == r = v.reg /\ i - v.low \in 0 .. v.size - 1
           b(r, i) == r = w.reg /\ i - w.low \in 0 .. w.size - 1
<1>1. p \in [Regs -> Quad] /\ s \in [Regs -> Quad]
  BY PutBytes
<1>2. \A r \in Regs, i \in 0 .. 7 :
        p[r][i] = IF a(r, i) THEN x[i - v.low]
                  ELSE IF r = v.reg /\ v.size = 4 /\ i > 3 THEN 0 ELSE q[r][i]
  BY PutBytes
<1>3. \A r \in Regs, i \in 0 .. 7 :
        s[r][i] = IF b(r, i) THEN y[i - w.low]
                  ELSE IF r = w.reg /\ w.size = 4 /\ i > 3 THEN 0 ELSE q[r][i]
  BY PutBytes
<1> HIDE DEF p, s
<1>4. \A r \in Regs, i \in 0 .. 7 :
        Native!Put(p, w, y)[r][i] = IF b(r, i) THEN y[i - w.low]
                  ELSE IF r = w.reg /\ w.size = 4 /\ i > 3 THEN 0 ELSE p[r][i]
  BY <1>1, PutBytes
<1>5. \A r \in Regs, i \in 0 .. 7 :
        Native!Put(s, v, x)[r][i] = IF a(r, i) THEN x[i - v.low]
                  ELSE IF r = v.reg /\ v.size = 4 /\ i > 3 THEN 0 ELSE s[r][i]
  BY <1>1, PutBytes
<1>6. v.reg = w.reg => v.size = 1 /\ v.low # w.low /\ v.low \in {0, 1} /\ w.low \in {0, 1}
  BY ViewParts, ViewsAre
<1>7. ASSUME NEW r \in Regs, NEW i \in 0 .. 7
      PROVE  /\ ~ (a(r, i) /\ b(r, i))
             /\ (r = v.reg /\ v.size = 4 => r # w.reg) /\ (r = w.reg /\ w.size = 4 => r # v.reg)
  BY <1>6
<1>8. \A r \in Regs, i \in 0 .. 7 : Native!Put(p, w, y)[r][i] = Native!Put(s, v, x)[r][i]
  <2> SUFFICES ASSUME NEW r \in Regs, NEW i \in 0 .. 7
               PROVE  Native!Put(p, w, y)[r][i] = Native!Put(s, v, x)[r][i]
    OBVIOUS
  <2>1. a(r, i) => r = v.reg
    OBVIOUS
  <2>2. b(r, i) => r = w.reg
    OBVIOUS
  <2> HIDE DEF a, b
  <2> QED BY <1>2, <1>3, <1>4, <1>5, <1>7, <2>1, <2>2
<1>9. Native!Put(p, w, y) \in [Regs -> Quad] /\ Native!Put(s, v, x) \in [Regs -> Quad]
  BY <1>1, PutBytes
<1> QED BY <1>8, <1>9, SameBytes DEF p, s

(* Different values leave different registers. *)
LEMMA PutInjective ==
  ASSUME NEW q \in [Regs -> Quad], NEW v \in Views, NEW x \in Value(v.size),
         NEW y \in Value(v.size)
  PROVE  Native!Put(q, v, x) = Native!Put(q, v, y) <=> x = y
<1> SUFFICES ASSUME Native!Put(q, v, x) = Native!Put(q, v, y) PROVE x = y
  OBVIOUS
<1>0. v.reg \in Regs /\ v.low \in {0, 1} /\ v.size \in {1, 2, 4, 8} /\ (v.low = 1 => v.size = 1)
  BY ViewParts
<1>1. ASSUME NEW i \in 0 .. v.size - 1 PROVE x[i] = y[i]
  <2>1. i + v.low \in 0 .. 7 /\ (i + v.low) - v.low = i
    BY <1>0
  <2>2. Native!Put(q, v, x)[v.reg][i + v.low] = x[i]
    BY <1>0, <2>1, PutBytes
  <2>3. Native!Put(q, v, y)[v.reg][i + v.low] = y[i]
    BY <1>0, <2>1, PutBytes
  <2> QED BY <2>2, <2>3
<1> DEFINE d == 0 .. v.size - 1
<1>2. x \in [d -> Byte] /\ y \in [d -> Byte]
  BY DEF Value
<1>3. \A i \in d : x[i] = y[i]
  BY <1>1
<1> HIDE DEF d
<1> QED BY <1>2, <1>3

(***************************************************************************)
(* Moves, conversions and exchanges.                                       *)
(***************************************************************************)

(* The step does to the registers what the processor does, exactly unless  *)
(* the instruction is one of the exceptions.                               *)
RegistersRight == regs' \in Native!Registers <=> ~WrongRegisters

(* The four moves of the processor. *)
LEMMA NativeMoves ==
  ASSUME insn.op \in {"mov", "movzx", "movsx", "movsxd"}
  PROVE  Native!Registers =
           {Native!Put(regs, insn.dst,
              IF insn.op \in {"mov", "movzx"} THEN ZeroExtend(Src, insn.dst.size)
                                              ELSE SignExtend(Src, insn.dst.size))}
BY NativeBytes DEF Native!Registers, Native!MoveOps, Native!ConvertOps, Native!Moved

(* The moves write what the processor writes. *)
LEMMA MoveRegisters ==
  ASSUME IInv, Move \/ MoveSigned PROVE RegistersRight
<1>1. insn # Idle /\ insn.op \in {"mov", "movzx", "movsx", "movsxd"}
  BY DEF Move, MoveSigned, Handle
<1>2. insn.dst \in Views /\ insn.src \in Views
  BY <1>1, Shapes DEF IInv, TwoOperand
<1>3. Src \in Value(insn.src.size) /\ insn.src.size \in 1 .. 16 /\ insn.dst.size \in 1 .. 16
  BY <1>2, StateTypes, ViewsAre, SizesAre DEF IInv, Src, LoadOperand
<1>4. ~WrongRegisters
  BY <1>1 DEF WrongRegisters
<1>5. regs \in [Regs -> Quad]
  BY StateTypes DEF IInv
<1>6. CASE Move
  <2>1. insn.op \in {"mov", "movzx"} /\ regs' = StoreOperand(regs, insn.dst, Src)
    BY <1>6 DEF Move, Handle
  <2>2. regs' = Native!Put(regs, insn.dst, ZeroExtend(Src, insn.dst.size))
    BY <1>2, <1>3, <1>5, <2>1, StoreIsPut
  <2> QED BY <1>1, <1>4, <2>1, <2>2, NativeMoves DEF RegistersRight
<1>7. CASE MoveSigned
  <2>1. /\ insn.op \in {"movsx", "movsxd"}
        /\ regs' = StoreOperand(regs, insn.dst, SignExtend(Src, insn.dst.size))
    BY <1>7 DEF MoveSigned, Handle
  <2>2. SignExtend(Src, insn.dst.size) \in Value(insn.dst.size)
    BY <1>3, ExtendType
  <2>3. regs' = Native!Put(regs, insn.dst, SignExtend(Src, insn.dst.size))
    BY <1>2, <1>3, <1>5, <2>1, <2>2, StoreIsPut
  <2> QED BY <1>1, <1>4, <2>1, <2>3, NativeMoves DEF RegistersRight
<1> QED BY <1>6, <1>7

(* XCHG does, also of two parts of one register. *)
LEMMA XchgRegisters ==
  ASSUME IInv, Xchg PROVE RegistersRight
<1>1. insn # Idle /\ insn.op = "xchg"
      /\ regs' = StoreOperand(StoreOperand(regs, insn.dst, Src), insn.src, Dst)
  BY DEF Xchg, Handle
<1>2. /\ insn.dst \in Views /\ insn.src \in Views /\ N \in 1 .. 16
      /\ Dst \in Value(N) /\ Src \in Value(N) /\ insn.dst.size = N /\ insn.src.size = N
  BY <1>1, OperandTypes DEF IInv, TwoOperand
<1>3. regs \in [Regs -> Quad]
  BY StateTypes DEF IInv
<1> DEFINE p == Native!Put(regs, insn.dst, Src)
<1>4. p = StoreOperand(regs, insn.dst, Src)
  BY <1>2, <1>3, StoreIsPut
<1>5. p \in [Regs -> Quad]
  BY <1>2, <1>3, PutBytes
<1>6. StoreOperand(p, insn.src, Dst) = Native!Put(p, insn.src, Dst)
  <2> HIDE DEF p
  <2> QED BY <1>2, <1>5, StoreIsPut
<1>7. Native!Put(p, insn.src, Dst) = Native!Put(Native!Put(regs, insn.src, Dst), insn.dst, Src)
  <2>1. CASE insn.dst # insn.src
    BY <1>2, <1>3, <2>1, PutsCommute
  <2>2. CASE insn.dst = insn.src
    BY <2>2 DEF Dst, Src
  <2> QED BY <2>1, <2>2
<1>8. Native!Registers = {Native!Put(Native!Put(regs, insn.src, Dst), insn.dst, Src)}
  BY <1>1, NativeBytes DEF Native!Registers, Native!MoveOps, Native!ConvertOps, Native!Exchanged
<1> QED BY <1>1, <1>4, <1>6, <1>7, <1>8 DEF RegistersRight, WrongRegisters

(* BSWAP does; two bytes may become anything, and become zero. *)
LEMMA BswapRegisters ==
  ASSUME IInv, Bswap PROVE RegistersRight
<1> DEFINE n == insn.dst.size
           x == IF n = 2 THEN Zeros(2) ELSE [i \in 0 .. n - 1 |-> Dst[n - 1 - i]]
<1>1. insn # Idle /\ insn.op = "bswap" /\ regs' = StoreOperand(regs, insn.dst, x)
  BY DEF Bswap, Handle
<1>2. /\ insn.dst \in Views /\ insn.src \in Views /\ N \in 1 .. 16 /\ N \in 1 .. 8
      /\ Dst \in Value(N) /\ insn.dst.size = N
  BY <1>1, OperandTypes DEF IInv, TwoOperand
<1>3. x \in Value(n)
  <2>1. CASE n = 2
    BY <2>1, BytesAssumption DEF Zeros, Value, Byte
  <2>2. CASE n # 2
    BY <1>2, <2>2 DEF Value
  <2> QED BY <2>1, <2>2
<1>4. regs' = Native!Put(regs, insn.dst, x)
  <2>1. n \in 1 .. 16
    BY <1>2
  <2> HIDE DEF x
  <2> QED BY <1>1, <1>2, <1>3, <2>1, StateTypes, StoreIsPut DEF IInv
<1>5. Native!Registers = Native!Swapped
  BY <1>1 DEF Native!Registers, Native!MoveOps, Native!ConvertOps
<1>6. x \in IF n = 2 THEN Value(2) ELSE {[i \in 0 .. n - 1 |-> Dst[n - 1 - i]]}
  BY <1>3
<1>7. Native!Swapped = {Native!Put(regs, insn.dst, y) :
        y \in IF n = 2 THEN Value(2) ELSE {[i \in 0 .. n - 1 |-> Dst[n - 1 - i]]}}
  BY NativeBytes DEF Native!Swapped
<1>8. regs' \in Native!Registers
  <2> HIDE DEF x
  <2> QED BY <1>4, <1>5, <1>6, <1>7
<1> QED BY <1>1, <1>8 DEF RegistersRight, WrongRegisters

(***************************************************************************)
(* Conversions.                                                            *)
(***************************************************************************)
(* The sign of a value, over n bytes. *)
Fill(x, n) == [i \in 0 .. n - 1 |-> IF Negative(x) THEN Radix - 1 ELSE 0]

(* It is what DEFINE_CX computes: the negated sign, as a number. *)
LEMMA FillIs ==
  ASSUME NEW n \in 1 .. 8, NEW x
  PROVE  /\ Fill(x, n) \in Value(n)
         /\ Negated(Wrap(Bit(Negative(x)), n)) = Fill(x, n)
<1>0. n \in 1 .. 16
  OBVIOUS
<1>1. Fill(x, n) \in Value(n)
  BY BytesAssumption DEF Fill, Value, Byte
<1> DEFINE b == Bit(Negative(x))
           w == Wrap(b, n)
<1>2. b \in 0 .. 1 /\ b = IF Negative(x) THEN 1 ELSE 0
  BY DEF Bit
<1>3. b \in 0 .. Place[n] - 1
  <2>1. 1 \in 0 .. 8 /\ n - 1 \in 0 .. 8 /\ 1 + (n - 1) = n
    OBVIOUS
  <2>2. Place[1] <= Place[n]
    BY <2>1, PlaceGrows
  <2>3. Place[1] = Radix /\ Place[n] \in Int /\ Radix \in Int /\ Radix > 1
    BY <1>0, Places, BytesAssumption
  <2> HIDE DEF b
  <2> QED BY <1>2, <2>2, <2>3
<1>4. w \in Value(n) /\ Unsigned(w) = b
  <2> HIDE DEF b
  <2> QED BY <1>0, <1>2, <1>3, WrapType, Fits
<1>5. Negated(w) = Wrap(-b, n)
  BY <1>0, <1>4, SizeOf DEF Negated
<1>6. ASSUME NEW i \in 0 .. n - 1
      PROVE  ((-b) \div Place[i]) % Radix = IF Negative(x) THEN Radix - 1 ELSE 0
  <2> DEFINE p == Place[i]
  <2>1. p \in Nat /\ p > 0
    <3>1. i \in 0 .. 16
      OBVIOUS
    <3> QED BY <3>1, Places
  <2> HIDE DEF p, b
  <2>2. CASE Negative(x)
    <3> DEFINE r == p - 1
               q == -1
               s == Radix - 1
    <3>1. r \in 0 .. p - 1 /\ q \in Int /\ -b = p * q + r
      BY <1>2, <2>1, <2>2
    <3>2. s \in 0 .. Radix - 1 /\ q = Radix * q + s /\ Radix \in Nat /\ Radix > 0
      BY BytesAssumption
    <3> HIDE DEF q, r, s
    <3>3. (p * q + r) \div p = q
      BY <2>1, <3>1, DivisionUnique
    <3>4. (Radix * q + s) % Radix = s
      BY <3>1, <3>2, DivisionUnique
    <3>5. ((-b) \div p) % Radix = s
      BY <3>1, <3>2, <3>3, <3>4
    <3> QED BY <2>2, <3>5 DEF s, p
  <2>3. CASE ~Negative(x)
    <3>1. -b = 0
      <4>1. b = 0
        BY <1>2, <2>3
      <4>2. b \in Int /\ 0 - b = 0
        BY <4>1
      <4>3. \A k \in Int : -k = 0 - k
        OBVIOUS
      <4> QED BY <4>2, <4>3
    <3>2. 0 \div p = 0 /\ 0 % Radix = 0
      BY <2>1, BytesAssumption
    <3>3. ((-b) \div p) % Radix = 0
      BY <3>1, <3>2
    <3> QED BY <2>3, <3>3 DEF p
  <2> QED BY <2>2, <2>3
<1>7. Wrap(-b, n) = Fill(x, n)
  <2> HIDE DEF b
  <2> QED BY <1>6 DEF Wrap, Fill
<1> QED BY <1>1, <1>5, <1>7

(* The upper half of a value extended to twice its size. *)
LEMMA UpperHalf ==
  ASSUME NEW n \in 1 .. 8, NEW x \in Value(n)
  PROVE  [i \in 0 .. n - 1 |-> SignExtend(x, 2 * n)[i + n]] = Fill(x, n)
<1>1. n \in 1 .. 16 /\ DOMAIN x = 0 .. n - 1
  BY DEF Value
<1>2. \A i \in 0 .. n - 1 : i + n \in 0 .. 2 * n - 1 /\ i + n \notin 0 .. n - 1
  OBVIOUS
<1>3. \A i \in 0 .. n - 1 : SignExtend(x, 2 * n)[i + n] = IF Negative(x) THEN Radix - 1 ELSE 0
  BY <1>1, <1>2 DEF SignExtend, Extend
<1> QED BY <1>3 DEF Fill

(* CWD and CQO write the sign; CDQ leaves what is above it. *)
LEMMA CxRegisters ==
  ASSUME IInv, Cx("cwd", 2) \/ Cx("cdq", 4) \/ Cx("cqo", 8)
  PROVE  RegistersRight
<1>1. PICK n \in {2, 4, 8} :
        /\ insn.op = CASE n = 2 -> "cwd" [] n = 4 -> "cdq" [] n = 8 -> "cqo"
        /\ Cx(insn.op, n)
  BY DEF Cx, Handle
<1>2. n \in Sizes /\ n \in 1 .. 8 /\ n \in 1 .. 16 /\ insn.op \in {"cwd", "cdq", "cqo"}
  BY <1>1 DEF Sizes
<1> DEFINE x == Read(regs, Low(Rax, n))
           v == Low(Rdx, n)
           f == Fill(x, n)
<1>3. x \in Value(n) /\ v \in Views /\ v.size = n /\ regs \in [Regs -> Quad]
  BY <1>2, PairParts, PartsAre, StateTypes DEF IInv
<1>4. f \in Value(n) /\ Negated(Wrap(Bit(Negative(x)), n)) = f
  BY <1>2, FillIs
<1>5. regs' = MovWith(regs, v, f)
  <2>1. regs' = Mov(regs, v, f)
    BY <1>1, <1>4 DEF Cx
  <2>2. ZeroExtend(f, v.size) = f
    BY <1>2, <1>3, <1>4, ExtendSame
  <2> QED BY <2>1, <2>2 DEF Mov
<1>6. Native!Registers = {Native!Put(regs, v, f)}
  <2>1. Native!From = Low(Rax, n)
    BY <1>1, NativeBytes DEF Native!From
  <2>2. Low(Rax, n).size = n
    BY PartsAre
  <2>3. Native!Converted =
          Native!Put(regs, Low(Rdx, n), [i \in 0 .. n - 1 |-> SignExtend(x, 2 * n)[i + n]])
    BY <1>2, <2>1, <2>2, NativeBytes DEF Native!Converted
  <2>4. [i \in 0 .. n - 1 |-> SignExtend(x, 2 * n)[i + n]] = f
    BY <1>2, <1>3, UpperHalf
  <2>5. Native!Registers = {Native!Converted}
    BY <1>2 DEF Native!Registers, Native!MoveOps, Native!ConvertOps
  <2> QED BY <2>3, <2>4, <2>5
<1>7. WrongRegisters <=> n = 4 /\ Read(regs, Above(v)) # Zeros(4)
  <2>1. CASE n = 4
    BY <1>1, <2>1 DEF WrongRegisters
  <2>2. CASE n # 4
    BY <1>1, <2>2 DEF WrongRegisters
  <2> QED BY <2>1, <2>2
<1> HIDE DEF x, f, v
<1>8. MovWith(regs, v, f) = Native!Put(regs, v, f)
        <=> (v.size = 4 => Read(regs, Above(v)) = Zeros(4))
  BY <1>3, <1>4, MovOrPut
<1> QED BY <1>3, <1>5, <1>6, <1>7, <1>8 DEF RegistersRight

(* CBW and CDQE extend the sign; CWDE leaves what is above it. *)
LEMMA CxeRegisters ==
  ASSUME IInv, Cxe("cbw", 1) \/ Cxe("cwde", 2) \/ Cxe("cdqe", 4)
  PROVE  RegistersRight
<1>1. PICK n \in {1, 2, 4} :
        /\ insn.op = CASE n = 1 -> "cbw" [] n = 2 -> "cwde" [] n = 4 -> "cdqe"
        /\ Cxe(insn.op, n)
  BY DEF Cxe, Handle
<1>2. n \in Sizes /\ n \in 1 .. 8 /\ n \in 1 .. 16 /\ insn.op \in {"cbw", "cwde", "cdqe"}
  BY <1>1 DEF Sizes
<1> DEFINE m == 2 * n
<1>3. m \in Sizes /\ m \in 1 .. 16 /\ m \in {2, 4, 8} /\ (m = 4 <=> n = 2)
  BY <1>1 DEF Sizes
<1> HIDE DEF m
<1> DEFINE x == Read(regs, Low(Rax, n))
           v == Low(Rax, m)
           f == SignExtend(x, m)
<1>4. x \in Value(n) /\ v \in Views /\ v.size = m /\ regs \in [Regs -> Quad]
  BY <1>2, <1>3, PairParts, PartsAre, StateTypes DEF IInv
<1>5. f \in Value(m)
  BY <1>2, <1>3, <1>4, ExtendType
<1>6. regs' = MovWith(regs, v, f)
  BY <1>1, <1>4 DEF Cxe, Movsx, m
<1>7. Native!Registers = {Native!Put(regs, v, f)}
  <2>1. Native!From = Low(Rax, n)
    BY <1>1, NativeBytes DEF Native!From
  <2>2. Low(Rax, n).size = n
    BY PartsAre
  <2>3. Native!Converted = Native!Put(regs, v, f)
    BY <1>2, <2>1, <2>2, NativeBytes DEF Native!Converted, m
  <2>4. Native!Registers = {Native!Converted}
    BY <1>2 DEF Native!Registers, Native!MoveOps, Native!ConvertOps
  <2> QED BY <2>3, <2>4
<1>8. WrongRegisters <=> m = 4 /\ Read(regs, Above(v)) # Zeros(4)
  <2>1. CASE m = 4
    BY <1>1, <1>3, <2>1 DEF WrongRegisters
  <2>2. CASE m # 4
    BY <1>1, <1>3, <2>2 DEF WrongRegisters
  <2> QED BY <2>1, <2>2
<1> HIDE DEF x, f, v
<1>9. MovWith(regs, v, f) = Native!Put(regs, v, f)
        <=> (v.size = 4 => Read(regs, Above(v)) = Zeros(4))
  BY <1>4, <1>5, MovOrPut
<1> QED BY <1>4, <1>6, <1>7, <1>8, <1>9 DEF RegistersRight

(***************************************************************************)
(* XADD.                                                                   *)
(***************************************************************************)
(* Only zero is its own double. *)
LEMMA Doubled ==
  ASSUME NEW n \in 1 .. 16, NEW x \in Value(n), Wrap(Unsigned(x) + Unsigned(x), n) = x
  PROVE  x = Zeros(n)
<1> DEFINE u == Unsigned(x)
           p == Place[n]
<1>1. u \in 0 .. p - 1 /\ p \in Nat /\ p > 0
  BY UnsignedType, Places
<1>2. u = (u + u) % p
  <2>1. u + u \in Int
    BY <1>1
  <2> DEFINE k == u + u
  <2> HIDE DEF k
  <2>2. Unsigned(Wrap(k, n)) = k % p
    BY <2>1, UnsignedWrap DEF k
  <2> QED BY <2>2 DEF k
<1>3. u = 0
  <2> HIDE DEF u, p
  <2>1. CASE u + u < p
    <3>1. (u + u) % p = u + u
      BY <1>1, <2>1
    <3> QED BY <1>1, <1>2, <3>1
  <2>2. CASE u + u >= p
    <3> DEFINE r == u + u - p
               q == 1
    <3>1. r \in 0 .. p - 1 /\ q \in Int /\ u + u = p * q + r
      BY <1>1, <2>2
    <3> HIDE DEF r, q
    <3>2. (p * q + r) % p = r
      BY <1>1, <3>1, DivisionUnique
    <3> QED BY <1>1, <1>2, <3>1, <3>2 DEF r
  <2> QED BY <1>1, <2>1, <2>2
<1> QED BY <1>3, ZeroIs

(* XADD is right where the source happens to end with the old destination. *)
LEMMA XaddRegisters ==
  ASSUME IInv, Xadd PROVE RegistersRight
<1> DEFINE t == Wrap(Unsigned(Dst) + Unsigned(Src), N)
           v == insn.dst
           w == insn.src
<1>1. insn # Idle /\ insn.op = "xadd"
      /\ regs' = StoreOperand(StoreOperand(regs, v, t), w, Src)
  BY DEF Xadd, Handle
<1>2. /\ v \in Views /\ w \in Views /\ N \in 1 .. 16
      /\ Dst \in Value(N) /\ Src \in Value(N) /\ v.size = N /\ w.size = N
  BY <1>1, OperandTypes DEF IInv, TwoOperand
<1>3. regs \in [Regs -> Quad]
  BY StateTypes DEF IInv
<1>4. t \in Value(N)
  <2>1. Unsigned(Dst) + Unsigned(Src) \in Int
    BY <1>2, UnsignedType, Places
  <2> QED BY <1>2, <2>1, WrapType
<1>5. Native!Registers = {Native!Put(Native!Put(regs, w, Dst), v, t)}
  BY <1>1, NativeBytes DEF Native!Registers, Native!MoveOps, Native!ConvertOps, Native!Sum
<1>6. WrongRegisters <=> Dst # IF v = w THEN Zeros(N) ELSE Src
  BY <1>1 DEF WrongRegisters
<1>7. v = w => Dst = Src /\ (t = Dst => Dst = Zeros(N))
  <2> SUFFICES ASSUME v = w PROVE Dst = Src /\ (t = Dst => Dst = Zeros(N))
    OBVIOUS
  <2>1. Dst = Src
    BY DEF Dst, Src
  <2> QED BY <1>2, <2>1, Doubled
<1>8. Dst = Zeros(N) /\ Src = Zeros(N) => t = Dst
  <2> SUFFICES ASSUME Dst = Zeros(N), Src = Zeros(N) PROVE t = Dst
    OBVIOUS
  <2>1. Unsigned(Dst) = 0 /\ Unsigned(Src) = 0 /\ Wrap(0, N) = Zeros(N)
    BY <1>2, ZeroIs
  <2> QED BY <2>1
<1> HIDE DEF t, v, w
<1> DEFINE p == Native!Put(regs, v, t)
<1>9. p \in [Regs -> Quad] /\ StoreOperand(regs, v, t) = p
  BY <1>2, <1>3, <1>4, PutBytes, StoreIsPut
<1> HIDE DEF p
<1>10. regs' = Native!Put(p, w, Src)
  BY <1>1, <1>2, <1>9, StoreIsPut
<1>11. CASE v = w
  <2>1. regs' = Native!Put(regs, v, Src)
    BY <1>2, <1>3, <1>4, <1>10, <1>11, PutTwice DEF p
  <2>2. Native!Put(Native!Put(regs, w, Dst), v, t) = Native!Put(regs, v, t)
    BY <1>2, <1>3, <1>4, <1>11, PutTwice
  <2>3. Native!Put(regs, v, Src) = Native!Put(regs, v, t) <=> Src = t
    BY <1>2, <1>3, <1>4, PutInjective
  <2> QED BY <1>5, <1>6, <1>7, <1>8, <1>11, <2>1, <2>2, <2>3 DEF RegistersRight
<1>12. CASE v # w
  <2>1. Native!Put(Native!Put(regs, w, Dst), v, t) = Native!Put(p, w, Dst)
    BY <1>2, <1>3, <1>4, <1>12, PutsCommute DEF p
  <2>2. Native!Put(p, w, Src) = Native!Put(p, w, Dst) <=> Src = Dst
    BY <1>2, <1>9, PutInjective
  <2> QED BY <1>5, <1>6, <1>10, <1>12, <2>1, <2>2 DEF RegistersRight
<1> QED BY <1>11, <1>12

(***************************************************************************)
(* Addresses.                                                              *)
(***************************************************************************)

(* The sum an address is made of. *)
AddressSum ==
  Native!Term(insn.base) + insn.scale * Native!Term(insn.index) + insn.disp

(* What an address is made of, on the processor. *)
LEMMA NativeTerms ==
  ASSUME IInv, insn # Idle, insn.op = "lea"
  PROVE  /\ Native!Term(None) = 0 /\ Native!Term(Rip) = Unsigned(NextRip)
         /\ \A v \in Wholes : Native!Term(v) = Unsigned(Read(regs, v))
         /\ \A v \in {None, Rip} \cup Wholes : Native!Term(v) \in Nat
         /\ \A v \in Wholes : Native!Term(v) < Place[v.size]
<1>0. None # Rip
  <2>1. DOMAIN None = {"none"} /\ DOMAIN Rip = {"rip"} /\ "none" \notin {"rip"}
    BY DEF None, Rip
  <2> QED BY <2>1
<1>1. Native!Term(None) = 0 /\ Native!Term(Rip) = Unsigned(NextRip)
  BY <1>0, NativeBytes DEF Native!Term
<1>2. \A v \in Wholes : v \in Views /\ v # None /\ v # Rip /\ v.size \in 0 .. 16
  BY AddressParts
<1>3. \A v \in Wholes : Native!Term(v) = Unsigned(Read(regs, v))
  BY <1>2, NativeBytes DEF Native!Term
<1>4. Unsigned(NextRip) \in Nat
  <2>1. 8 \in 0 .. 16
    OBVIOUS
  <2> QED BY <2>1, TermTypes, Places
<1>5. \A v \in Wholes : Unsigned(Read(regs, v)) \in 0 .. Place[v.size] - 1 /\ Place[v.size] \in Nat
  BY <1>2, TermTypes, Places
<1> QED BY <1>1, <1>3, <1>4, <1>5

(* The sum is a small one if registers of four bytes make it. *)
LEMMA SumType ==
  ASSUME IInv, insn # Idle, insn.op = "lea"
  PROVE  /\ AddressSum \in Int
         /\ Native!AddressSize \in {4, 8}
         /\ Native!AddressSize = 4 =>
              /\ -Place[4] <= 2 * AddressSum /\ 2 * AddressSum < 20 * Place[4]
<1> DEFINE a == Native!Term(insn.base)
           b == Native!Term(insn.index)
           c == insn.scale
           d == insn.disp
           p == Place[4]
<1>1. /\ insn.base = Rip => insn.index = None
      /\ insn.base \in Wholes /\ insn.index \in Wholes => insn.base.size = insn.index.size
      /\ insn.base \in {None, Rip} \cup Wholes /\ insn.index \in {None} \cup Wholes
      /\ \A v \in Wholes : v \in Views /\ v.size \in {4, 8} /\ v # None /\ v # Rip
  BY AddressParts
<1>2. c \in {1, 2, 4, 8} /\ d \in Int /\ 2 * d \in -p .. p - 1
  BY AddressParts DEF Sizes
<1>3. a \in Nat /\ b \in Nat
  BY <1>1, NativeTerms
<1>4. p \in Nat /\ p > 0
  <2>1. 4 \in 0 .. 16
    OBVIOUS
  <2> QED BY <2>1, Places
<1>5. AddressSum = a + c * b + d
  BY DEF AddressSum
<1>6. Native!AddressSize = IF \E v \in {insn.base, insn.index} \ {None, Rip} : v.size = 4
                           THEN 4 ELSE 8
  BY NativeBytes DEF Native!AddressSize
<1>7. ASSUME Native!AddressSize = 4 PROVE a < p /\ b < p
  <2>1. PICK v \in {insn.base, insn.index} \ {None, Rip} : v.size = 4
    BY <1>6, <1>7
  <2>2. v \in Wholes
    BY <1>1, <2>1
  <2>3. insn.base \in {None} \cup Wholes
    BY <1>1, <2>1, <2>2
  <2>4. \A w \in {insn.base, insn.index} : w = None \/ (w \in Wholes /\ w.size = 4)
    BY <1>1, <2>1, <2>2, <2>3
  <2>5. \A w \in {insn.base, insn.index} : Native!Term(w) < p
    <3> SUFFICES ASSUME NEW w \in {insn.base, insn.index} PROVE Native!Term(w) < p
      OBVIOUS
    <3>1. CASE w = None
      BY <1>4, <3>1, NativeTerms
    <3>2. CASE w \in Wholes /\ w.size = 4
      BY <3>2, NativeTerms
    <3> QED BY <2>4, <3>1, <3>2
  <2> QED BY <2>5
<1> HIDE DEF a, b, c, d, p
<1>8. a + c * b + d \in Int
  BY <1>2, <1>3
<1>9. ASSUME a < p, b < p PROVE -p <= 2 * (a + c * b + d) /\ 2 * (a + c * b + d) < 20 * p
  <2>1. CASE c = 1 BY <1>2, <1>3, <1>4, <1>9, <2>1
  <2>2. CASE c = 2 BY <1>2, <1>3, <1>4, <1>9, <2>2
  <2>3. CASE c = 4 BY <1>2, <1>3, <1>4, <1>9, <2>3
  <2>4. CASE c = 8 BY <1>2, <1>3, <1>4, <1>9, <2>4
  <2> QED BY <1>2, <2>1, <2>2, <2>3, <2>4
<1>10. Native!AddressSize \in {4, 8}
  BY <1>6
<1> QED BY <1>5, <1>7, <1>8, <1>9, <1>10 DEF p

(* An address of four bytes, widened, is the sum if that needs no more. *)
LEMMA WidenedAddress ==
  ASSUME NEW k \in Int, -Place[4] <= 2 * k, 2 * k < 20 * Place[4]
  PROVE  /\ ZeroExtend(Wrap(k, 4), 8) \in Value(8)
         /\ ZeroExtend(Wrap(k, 4), 8) = Wrap(k, 8) <=> k \in 0 .. Place[4] - 1
<1> DEFINE p == Place[4]
           r == k % p
<1>1. 4 \in 1 .. 8 /\ 8 \in 4 .. 8 /\ 4 \in 1 .. 16 /\ 8 \in 1 .. 16 /\ 4 \in 0 .. 8 /\ 4 + 4 = 8
  OBVIOUS
<1>2. p \in Nat /\ p >= 16
  <2>1. /\ Place[2] = Radix * Place[1] /\ Place[3] = Radix * Place[2]
        /\ Place[4] = Radix * Place[3] /\ Place[1] = Radix
    <3>1. /\ Place[2] = Radix * Place[2 - 1] /\ Place[3] = Radix * Place[3 - 1]
          /\ Place[4] = Radix * Place[4 - 1]
      <4>1. 2 \in 1 .. 16 /\ 3 \in 1 .. 16 /\ 4 \in 1 .. 16
        OBVIOUS
      <4> QED BY <4>1, Places
    <3> QED BY <3>1, Places
  <2>2. Radix \in Nat /\ Radix >= 2
    BY BytesAssumption
  <2>3. Radix * Radix >= 4 /\ Radix * Radix \in Nat
    BY <2>2
  <2>4. Radix * (Radix * Radix) >= 8 /\ Radix * (Radix * Radix) \in Nat
    BY <2>2, <2>3
  <2>5. Radix * (Radix * (Radix * Radix)) >= 16 /\ Radix * (Radix * (Radix * Radix)) \in Nat
    BY <2>2, <2>4
  <2> QED BY <2>1, <2>5
<1>3. Place[8] = p * p
  <2>1. Place[4 + 4] = Place[4] * Place[4]
    BY <1>1, PlaceProduct
  <2> QED BY <1>1, <2>1
<1>4. Wrap(k, 4) \in Value(4) /\ Unsigned(Wrap(k, 4)) = r
  BY <1>1, WrapType, UnsignedWrap
<1>5. ZeroExtend(Wrap(k, 4), 8) = Wrap(r, 8) /\ ZeroExtend(Wrap(k, 4), 8) \in Value(8)
  <2> DEFINE n == 4
             m == 8
             x == Wrap(k, n)
  <2>1. n \in 1 .. 8 /\ m \in n .. 8 /\ n \in 1 .. 16 /\ m \in 1 .. 16 /\ x \in Value(n) /\ Unsigned(x) = r
    BY <1>1, <1>4
  <2> HIDE DEF n, m, x, r
  <2>2. ZeroExtend(x, m) = Wrap(r, m) /\ ZeroExtend(x, m) \in Value(m)
    BY <2>1, ZeroExtendIs, ExtendType
  <2> QED BY <2>2 DEF n, m, x
<1>6. r \in 0 .. p - 1
  BY <1>2, Division
<1>7. Wrap(r, 8) = Wrap(k, 8) <=> r % Place[8] = k % Place[8]
  <2>1. r \in Int
    BY <1>6
  <2> HIDE DEF r
  <2> QED BY <1>1, <2>1, WrapsAlike
<1> DEFINE q == Place[8]
<1>8. q \in Nat /\ q >= 16 * p
  <2> HIDE DEF p
  <2>1. p * (p - 16) \in Nat /\ p * (p - 16) = p * p - 16 * p /\ p * p \in Nat
    BY <1>2
  <2> QED BY <1>2, <1>3, <2>1
<1>9. k % p = r /\ -p <= 2 * k /\ 2 * k < 20 * p
  OBVIOUS
<1> HIDE DEF p, q, r
<1>10. r % q = r
  BY <1>2, <1>6, <1>8
<1>11. k \in 0 .. p - 1 <=> r = k % q
  <2>1. CASE k >= 0
    <3>1. k % q = k
      BY <1>2, <1>8, <1>9, <2>1
    <3>2. k \in 0 .. p - 1 => r = k
      BY <1>2, <1>9
    <3> QED BY <1>6, <2>1, <3>1, <3>2
  <2>2. CASE k < 0
    <3> DEFINE j == k + q
               e == -1
    <3>1. j \in 0 .. q - 1 /\ e \in Int /\ k = q * e + j
      BY <1>2, <1>8, <1>9, <2>2
    <3>2. j >= p
      BY <1>2, <1>8, <1>9, <2>2
    <3> HIDE DEF j, e
    <3>3. k % q = j
      BY <1>8, <1>2, <3>1, DivisionUnique
    <3> QED BY <1>6, <1>2, <2>2, <3>1, <3>2, <3>3
  <2> QED BY <2>1, <2>2
<1> QED BY <1>5, <1>7, <1>10, <1>11 DEF p, q

(* LEA is right unless an address of 32-bit registers leaves 32 bits. *)
LEMMA LeaRegisters ==
  ASSUME IInv, Lea, ~Nowhere PROVE RegistersRight
<1> DEFINE v == insn.dst
           k == AddressSum
           s == Native!AddressSize
<1>1. insn # Idle /\ insn.op = "lea"
  BY DEF Lea, Handle
<1>2. PICK address \in GetDisp : regs' = StoreOperand(regs, v, address)
  BY DEF Lea
<1>3. /\ v \in Views /\ v.size \in {2, 4, 8} /\ v.size \in 1 .. 8 /\ v.size \in 1 .. 16
      /\ regs \in [Regs -> Quad]
  BY <1>1, AddressParts, StateTypes DEF IInv
<1>4. /\ k \in Int /\ s \in {4, 8} /\ s \in 1 .. 16
      /\ s = 4 => -Place[4] <= 2 * k /\ 2 * k < 20 * Place[4]
  BY <1>1, SumType
<1>5. Native!Registers = {Native!Put(regs, v, ZeroExtend(Wrap(k, s), v.size))}
  BY <1>1, NativeBytes DEF Native!Registers, Native!MoveOps, Native!ConvertOps,
       Native!Addressed, Native!Address, AddressSum
<1>6. WrongRegisters <=> v.size > s /\ k \notin 0 .. Place[4] - 1
  BY <1>1 DEF WrongRegisters, AddressSum
<1>7. CASE insn.index = None /\ insn.disp = 0
  <2>1. insn.base \in Wholes /\ address = Read(regs, insn.base)
    BY <1>1, <1>2, <1>7, AddressParts DEF Nowhere, GetDisp, LoadOperand
  <2>2. k = Unsigned(address)
    <3>1. Native!Term(insn.base) = Unsigned(address) /\ Native!Term(insn.index) = 0
      BY <1>1, <1>7, <2>1, NativeTerms
    <3>2. Unsigned(address) \in Int /\ insn.scale \in Int
      BY <1>1, <2>1, <3>1, NativeTerms, AddressParts, SizesAre
    <3>3. k = Native!Term(insn.base) + insn.scale * Native!Term(insn.index) + insn.disp
      BY DEF AddressSum
    <3> QED BY <1>7, <3>1, <3>2, <3>3
  <2>3. s = insn.base.size
    <3>1. s = IF \E w \in {insn.base, insn.index} \ {None, Rip} : w.size = 4 THEN 4 ELSE 8
      BY NativeBytes DEF Native!AddressSize
    <3>2. {insn.base, insn.index} \ {None, Rip} = {insn.base} /\ insn.base.size \in {4, 8}
      BY <1>1, <1>7, <2>1, AddressParts
    <3> HIDE DEF s
    <3> QED BY <3>1, <3>2
  <2>4. address \in Value(s)
    BY <1>1, <2>1, <2>3, AddressParts, StateTypes DEF IInv
  <2>5. Wrap(k, s) = address /\ k \in 0 .. Place[s] - 1
    BY <1>4, <2>2, <2>4, WrapUnsigned, UnsignedType
  <2>6. ~WrongRegisters
    <3> HIDE DEF k, s
    <3> QED BY <1>3, <1>4, <1>6, <2>5
  <2>7. regs' = Native!Put(regs, v, ZeroExtend(address, v.size))
    BY <1>2, <1>3, <1>4, <2>4, StoreIsPut
  <2> QED BY <1>5, <2>5, <2>6, <2>7 DEF RegistersRight
<1>8. CASE ~(insn.index = None /\ insn.disp = 0)
  <2> DEFINE a == IF insn.index = None THEN 0 ELSE insn.scale * Unsigned(Reg2Op(insn.index))
             b == IF insn.base = None THEN 0 ELSE Unsigned(Reg2Op(insn.base))
  <2>1. address = Wrap(a + b + insn.disp, 8)
    BY <1>2, <1>8 DEF GetDisp
  <2>2. insn.scale \in Int /\ insn.disp \in Int
    BY <1>1, AddressParts, SizesAre
  <2>3. a = insn.scale * Native!Term(insn.index)
    <3>1. CASE insn.index = None
      <4>1. Native!Term(insn.index) = 0
        BY <1>1, <3>1, NativeTerms
      <4>2. a = 0
        BY <3>1
      <4> HIDE DEF a
      <4> QED BY <2>2, <4>1, <4>2
    <3>2. CASE insn.index # None
      BY <1>1, <3>2, AddressParts, NativeTerms DEF Reg2Op, LoadOperand
    <3> QED BY <3>1, <3>2
  <2>4. b = Native!Term(insn.base)
    BY <1>1, AddressParts, NativeTerms DEF Reg2Op, LoadOperand
  <2>5. Native!Term(insn.base) \in Int /\ Native!Term(insn.index) \in Int
    BY <1>1, AddressParts, NativeTerms
  <2>6. a + b + insn.disp = k
    <3>1. k = Native!Term(insn.base) + insn.scale * Native!Term(insn.index) + insn.disp
      BY DEF AddressSum
    <3> DEFINE x == Native!Term(insn.base)
               y == insn.scale * Native!Term(insn.index)
               z == insn.disp
    <3>2. x \in Int /\ y \in Int /\ z \in Int
      BY <2>2, <2>5
    <3> HIDE DEF a, b, k
    <3>3. a = y /\ b = x /\ k = x + y + z
      BY <2>3, <2>4, <3>1
    <3> HIDE DEF x, y, z
    <3>4. y + x + z = x + y + z
      BY <3>2
    <3> QED BY <3>3, <3>4 DEF z
  <2> HIDE DEF a, b
  <2>7. address = Wrap(k, 8)
    BY <2>1, <2>6
  <2> HIDE DEF k
  <2>8. regs' = Native!Put(regs, v, Wrap(k, v.size)) /\ Wrap(k, v.size) \in Value(v.size)
    <3> DEFINE e == 8
    <3>1. e \in 1 .. 16 /\ v.size \in 1 .. e /\ address = Wrap(k, e)
      BY <1>3, <2>7
    <3> HIDE DEF e
    <3>2. address \in Value(e) /\ ZeroExtend(address, v.size) = Wrap(k, v.size)
      BY <1>4, <3>1, WrapType, ExtendWrap
    <3>3. regs' = Native!Put(regs, v, ZeroExtend(address, v.size))
      BY <1>2, <1>3, <3>1, <3>2, StoreIsPut
    <3>4. Wrap(k, v.size) \in Value(v.size)
      BY <1>3, <1>4, WrapType
    <3> QED BY <3>2, <3>3, <3>4
  <2>9. CASE v.size <= s
    <3>1. v.size \in 1 .. s
      BY <1>3, <2>9
    <3>2. ZeroExtend(Wrap(k, s), v.size) = Wrap(k, v.size)
      <4> HIDE DEF s
      <4> QED BY <1>4, <3>1, ExtendWrap
    <3>3. ~WrongRegisters
      <4>1. ~(v.size > s)
        <5> HIDE DEF s
        <5> QED BY <1>3, <1>4, <2>9
      <4> QED BY <1>6, <4>1
    <3> QED BY <1>5, <2>8, <3>2, <3>3 DEF RegistersRight
  <2>10. CASE ~(v.size <= s)
    <3>1. v.size = 8 /\ s = 4 /\ v.size > s
      <4> HIDE DEF s
      <4> QED BY <1>3, <1>4, <2>10
    <3>2. ZeroExtend(Wrap(k, 4), 8) \in Value(8)
          /\ (ZeroExtend(Wrap(k, 4), 8) = Wrap(k, 8) <=> k \in 0 .. Place[4] - 1)
      BY <1>4, <3>1, WidenedAddress
    <3>3. Native!Put(regs, v, ZeroExtend(Wrap(k, s), v.size)) = Native!Put(regs, v, Wrap(k, v.size))
            <=> ZeroExtend(Wrap(k, s), v.size) = Wrap(k, v.size)
      BY <1>3, <2>8, <3>1, <3>2, PutInjective
    <3>4. WrongRegisters <=> k \notin 0 .. Place[4] - 1
      BY <1>6, <3>1
    <3> QED BY <1>5, <2>8, <3>1, <3>2, <3>3, <3>4 DEF RegistersRight
  <2> QED BY <2>9, <2>10
<1> QED BY <1>7, <1>8

(***************************************************************************)
(* Pairs of halves.                                                        *)
(***************************************************************************)

(* Clearing the four bytes above a part of four. *)
LEMMA ClearAboveBytes ==
  ASSUME NEW q \in [Regs -> Quad], NEW v \in Regs
  PROVE  /\ ClearAbove(q, Low(v, 4)) \in [Regs -> Quad]
         /\ \A r \in Regs, i \in 0 .. 7 :
              ClearAbove(q, Low(v, 4))[r][i] = IF r = v /\ i > 3 THEN 0 ELSE q[r][i]
<1> DEFINE w == Above(Low(v, 4))
           z == [i \in 0 .. 3 |-> 0]
           p == ClearAbove(q, Low(v, 4))
<1>1. w.reg = v /\ w.low = 4 /\ w.size = 4
  BY PartsAre
<1>2. p = MovWith(q, w, z)
  <2>1. ZeroExtend(Zeros(1), 4) = z
    BY DEF ZeroExtend, Extend, Zeros
  <2> QED BY <1>1, <2>1 DEF ClearAbove, Mov
<1>3. w.reg \in Regs /\ w.low \in Int /\ w.size \in 1 .. 8
  BY <1>1
<1>4. ASSUME NEW r \in Regs, NEW i \in 0 .. 7
      PROVE  p[r][i] = IF r = v /\ i > 3 THEN 0 ELSE q[r][i]
  <2>1. p[r][i] = IF r = w.reg /\ i - w.low \in 0 .. w.size - 1 THEN z[i - w.low] ELSE q[r][i]
    <3> HIDE DEF z, w, p
    <3> QED BY <1>2, <1>3, MovWithBytes
  <2> HIDE DEF p, w
  <2> QED BY <1>1, <2>1
<1> QED BY <1>4, ClearAboveType

(* mov writes what the processor writes, but to four bytes. *)
LEMMA MovIsPut ==
  ASSUME NEW q \in [Regs -> Quad], NEW v \in Views, NEW x \in Value(v.size), v.size # 4
  PROVE  Mov(q, v, x) = Native!Put(q, v, x) /\ Native!Put(q, v, x) \in [Regs -> Quad]
<1>1. v.size \in 1 .. 16
  BY ViewParts
<1>2. Mov(q, v, x) = MovWith(q, v, x)
  BY <1>1, ExtendSame DEF Mov
<1> QED BY <1>2, MovOrPut, PutBytes

(* Results of two halves. *)
LEMMA ToPairIsPut ==
  ASSUME TypeOK, N \in Sizes, N > 1, NEW lo \in Value(N), NEW hi \in Value(N)
  PROVE  ToPair(lo, hi) = Native!PutPair(lo, hi)
<1> DEFINE v == Low(Rax, N)
           w == Low(Rdx, N)
           s == Native!Put(regs, v, lo)
<1>0. /\ v \in Views /\ w \in Views /\ v.size = N /\ w.size = N /\ v.reg = Rax /\ w.reg = Rdx
      /\ v.low = 0 /\ w.low = 0 /\ N \in {2, 4, 8} /\ N \in 1 .. 16 /\ N \in 1 .. 8
  BY PairParts, PartsAre DEF Sizes
<1>1. regs \in [Regs -> Quad] /\ Rax \in Regs /\ Rdx \in Regs /\ Rax # Rdx
  BY StateTypes, BytesAssumption
<1>2. Native!PutPair(lo, hi) = Native!Put(s, w, hi)
  BY <1>0, NativeBytes DEF Native!PutPair, Native!Half
<1>3. s \in [Regs -> Quad]
  BY <1>0, <1>1, PutBytes
<1>4. CASE N # 4
  <2>1. ToPair(lo, hi) = Mov(Mov(regs, v, lo), w, hi)
    BY <1>4 DEF ToPair
  <2>2. Mov(regs, v, lo) = s
    <3> HIDE DEF v
    <3> QED BY <1>0, <1>1, <1>4, MovIsPut
  <2>3. Mov(s, w, hi) = Native!Put(s, w, hi)
    <3> HIDE DEF s, w
    <3> QED BY <1>0, <1>3, <1>4, MovIsPut
  <2> QED BY <1>2, <2>1, <2>2, <2>3
<1>5. CASE N = 4
  <2> DEFINE a == Mov(regs, v, lo)
             b == Mov(a, w, hi)
             c == ClearAbove(b, Low(Rax, 4))
             d == ClearAbove(c, Low(Rdx, 4))
  <2>1. ToPair(lo, hi) = d
    BY <1>5 DEF ToPair
  <2>2. a = MovWith(regs, v, lo) /\ b = MovWith(a, w, hi)
    BY <1>0, ExtendSame DEF Mov
  <2> HIDE DEF v, w
  <2>3. a \in [Regs -> Quad]
    BY <1>0, <1>1, MovType
  <2>4. \A r \in Regs, i \in 0 .. 7 :
          a[r][i] = IF r = v.reg /\ i - v.low \in 0 .. v.size - 1 THEN lo[i - v.low]
                    ELSE regs[r][i]
    BY <1>0, <1>1, <2>2, MovWithBytes
  <2>5. /\ b \in [Regs -> Quad]
        /\ \A r \in Regs, i \in 0 .. 7 :
             b[r][i] = IF r = w.reg /\ i - w.low \in 0 .. w.size - 1 THEN hi[i - w.low]
                       ELSE a[r][i]
    <3>1. /\ hi \in Value(w.size) /\ w.reg \in Regs /\ w.low \in Int /\ w.size \in 1 .. 8
          /\ w \in Views
      BY <1>0, <1>1
    <3>2. b \in [Regs -> Quad]
      <4> HIDE DEF a
      <4> QED BY <2>3, <3>1, MovType
    <3>3. b = MovWith(a, w, hi)
      BY <2>2
    <3> HIDE DEF a, b
    <3>4. \A r \in Regs, i \in 0 .. 7 :
            MovWith(a, w, hi)[r][i] =
              IF r = w.reg /\ i - w.low \in 0 .. w.size - 1 THEN hi[i - w.low] ELSE a[r][i]
      BY <2>3, <3>1, MovWithBytes
    <3> QED BY <3>2, <3>3, <3>4
  <2>6. /\ c \in [Regs -> Quad]
        /\ \A r \in Regs, i \in 0 .. 7 : c[r][i] = IF r = Rax /\ i > 3 THEN 0 ELSE b[r][i]
    <3> HIDE DEF b
    <3> QED BY <1>1, <2>5, ClearAboveBytes
  <2>7. /\ d \in [Regs -> Quad]
        /\ \A r \in Regs, i \in 0 .. 7 : d[r][i] = IF r = Rdx /\ i > 3 THEN 0 ELSE c[r][i]
    <3> HIDE DEF c
    <3> QED BY <1>1, <2>6, ClearAboveBytes
  <2> HIDE DEF a, b, c, d
  <2>8. \A r \in Regs, i \in 0 .. 7 :
          s[r][i] = IF r = v.reg /\ i - v.low \in 0 .. v.size - 1 THEN lo[i - v.low]
                    ELSE IF r = v.reg /\ v.size = 4 /\ i > 3 THEN 0 ELSE regs[r][i]
    BY <1>0, <1>1, PutBytes
  <2> HIDE DEF s
  <2>9. /\ Native!Put(s, w, hi) \in [Regs -> Quad]
        /\ \A r \in Regs, i \in 0 .. 7 :
          Native!Put(s, w, hi)[r][i] =
                    IF r = w.reg /\ i - w.low \in 0 .. w.size - 1 THEN hi[i - w.low]
                    ELSE IF r = w.reg /\ w.size = 4 /\ i > 3 THEN 0 ELSE s[r][i]
    BY <1>0, <1>3, PutBytes
  <2>10. ASSUME NEW r \in Regs, NEW i \in 0 .. 7 PROVE d[r][i] = Native!Put(s, w, hi)[r][i]
    <3>1. i - 0 = i /\ (i \in 0 .. 3 <=> ~(i > 3))
      OBVIOUS
    <3>2. CASE r = Rax
      <4>1. d[r][i] = IF i > 3 THEN 0 ELSE lo[i]
        BY <1>0, <1>1, <1>5, <2>4, <2>5, <2>6, <2>7, <3>1, <3>2
      <4>2. Native!Put(s, w, hi)[r][i] = IF i > 3 THEN 0 ELSE lo[i]
        BY <1>0, <1>1, <1>5, <2>8, <2>9, <3>1, <3>2
      <4> QED BY <4>1, <4>2
    <3>3. CASE r = Rdx
      <4>1. d[r][i] = IF i > 3 THEN 0 ELSE hi[i]
        BY <1>0, <1>1, <1>5, <2>5, <2>6, <2>7, <3>1, <3>3
      <4>2. Native!Put(s, w, hi)[r][i] = IF i > 3 THEN 0 ELSE hi[i]
        BY <1>0, <1>1, <1>5, <2>9, <3>1, <3>3
      <4> QED BY <4>1, <4>2
    <3>4. CASE r \notin {Rax, Rdx}
      <4>1. d[r][i] = regs[r][i]
        BY <1>0, <2>4, <2>5, <2>6, <2>7, <3>4
      <4>2. Native!Put(s, w, hi)[r][i] = regs[r][i]
        BY <1>0, <2>8, <2>9, <3>4
      <4> QED BY <4>1, <4>2
    <3> QED BY <3>2, <3>3, <3>4
  <2> QED BY <1>2, <2>1, <2>7, <2>9, <2>10, SameBytes
<1> QED BY <1>4, <1>5

(* Two bytes of one register are a part of two. *)
LEMMA BytesJoin ==
  ASSUME NEW q \in [Regs -> Quad], NEW r \in Regs, NEW a \in Value(1), NEW b \in Value(1)
  PROVE  /\ Join(a, b, 1) \in Value(2)
         /\ Native!Put(Native!Put(q, Low(r, 1), a), High(r), b) =
              Native!Put(q, Low(r, 2), Join(a, b, 1))
<1> DEFINE v == Low(r, 1)
           h == High(r)
           w == Low(r, 2)
           j == Join(a, b, 1)
           s == Native!Put(q, v, a)
<1>1. /\ v \in Views /\ h \in Views /\ w \in Views /\ v.reg = r /\ h.reg = r /\ w.reg = r
      /\ v.low = 0 /\ h.low = 1 /\ w.low = 0 /\ v.size = 1 /\ h.size = 1 /\ w.size = 2
  BY ViewsAre, PartsAre DEF Sizes
<1>2. j \in Value(2) /\ j[0] = a[0] /\ j[1] = b[0]
  <2>1. j \in Value(2)
    <3>1. 1 \in 1 .. 8 /\ 2 * 1 = 2
      OBVIOUS
    <3>2. Join(a, b, 1) \in Value(2 * 1)
      BY <3>1, JoinIs
    <3> QED BY <3>1, <3>2
  <2> QED BY <2>1 DEF Join
<1> HIDE DEF v, h, w, j
<1>3. s \in [Regs -> Quad]
  BY <1>1, PutBytes
<1>4. \A t \in Regs, i \in 0 .. 7 : s[t][i] = IF t = r /\ i = 0 THEN a[0] ELSE q[t][i]
  <2> SUFFICES ASSUME NEW t \in Regs, NEW i \in 0 .. 7
               PROVE  s[t][i] = IF t = r /\ i = 0 THEN a[0] ELSE q[t][i]
    OBVIOUS
  <2>1. s[t][i] = IF t = v.reg /\ i - v.low \in 0 .. v.size - 1 THEN a[i - v.low]
                  ELSE IF t = v.reg /\ v.size = 4 /\ i > 3 THEN 0 ELSE q[t][i]
    BY <1>1, PutBytes
  <2>2. i - 0 \in 0 .. 1 - 1 <=> i = 0
    OBVIOUS
  <2> QED BY <1>1, <2>1, <2>2
<1> HIDE DEF s
<1>5. \A t \in Regs, i \in 0 .. 7 :
        Native!Put(s, h, b)[t][i] = IF t = r /\ i = 1 THEN b[0] ELSE s[t][i]
  <2> SUFFICES ASSUME NEW t \in Regs, NEW i \in 0 .. 7
               PROVE  Native!Put(s, h, b)[t][i] = IF t = r /\ i = 1 THEN b[0] ELSE s[t][i]
    OBVIOUS
  <2>0. h \in Views /\ b \in Value(h.size) /\ t \in Regs /\ i \in 0 .. 7
    BY <1>1
  <2>1. Native!Put(s, h, b)[t][i] =
          IF t = h.reg /\ i - h.low \in 0 .. h.size - 1 THEN b[i - h.low]
          ELSE IF t = h.reg /\ h.size = 4 /\ i > 3 THEN 0 ELSE s[t][i]
    BY <1>3, <2>0, PutBytes
  <2>2. i - 1 \in 0 .. 1 - 1 <=> i = 1
    OBVIOUS
  <2> QED BY <1>1, <2>1, <2>2
<1>6. \A t \in Regs, i \in 0 .. 7 :
        Native!Put(q, w, j)[t][i] = IF t = r /\ i \in {0, 1} THEN j[i] ELSE q[t][i]
  <2> SUFFICES ASSUME NEW t \in Regs, NEW i \in 0 .. 7
               PROVE  Native!Put(q, w, j)[t][i] = IF t = r /\ i \in {0, 1} THEN j[i] ELSE q[t][i]
    OBVIOUS
  <2>1. Native!Put(q, w, j)[t][i] =
          IF t = w.reg /\ i - w.low \in 0 .. w.size - 1 THEN j[i - w.low]
          ELSE IF t = w.reg /\ w.size = 4 /\ i > 3 THEN 0 ELSE q[t][i]
    BY <1>1, <1>2, PutBytes
  <2>2. (i - 0 \in 0 .. 2 - 1 <=> i \in {0, 1}) /\ i - 0 = i
    OBVIOUS
  <2> QED BY <1>1, <2>1, <2>2
<1>7. \A t \in Regs, i \in 0 .. 7 : Native!Put(s, h, b)[t][i] = Native!Put(q, w, j)[t][i]
  BY <1>2, <1>4, <1>5, <1>6
<1>8. Native!Put(s, h, b) \in [Regs -> Quad] /\ Native!Put(q, w, j) \in [Regs -> Quad]
  BY <1>1, <1>2, <1>3, PutBytes
<1> QED BY <1>2, <1>7, <1>8, SameBytes DEF s, v, h, w, j

(* Two halves are wrapped one by one. *)
LEMMA WrapHalves ==
  ASSUME NEW k \in Int
  PROVE  Join(Wrap(k, 1), Wrap(k \div Place[1], 1), 1) = Wrap(k, 2)
<1> DEFINE x == Wrap(k, 1)
           y == Wrap(k \div Place[1], 1)
           z == Wrap(k, 2)
<1>1. x[0] = (k \div Place[0]) % Radix
  BY DEF Wrap
<1>2. y[0] = ((k \div Place[1]) \div Place[0]) % Radix
  BY DEF Wrap
<1>3. z[0] = (k \div Place[0]) % Radix /\ z[1] = (k \div Place[1]) % Radix
  BY DEF Wrap
<1>4. (k \div Place[1]) \div Place[0] = k \div Place[1]
  <2> DEFINE m == k \div Place[1]
  <2>1. m \in Int
    <3>1. Place[1] \in Nat /\ Place[1] > 0
      BY Places, BytesAssumption
    <3> QED BY <3>1, Division
  <2> HIDE DEF m
  <2>2. m \div 1 = m
    BY <2>1
  <2> QED BY <2>2, Places DEF m
<1>5. x[0] = z[0] /\ y[0] = z[1]
  BY <1>1, <1>2, <1>3, <1>4
<1>6. z = [i \in 0 .. 1 |-> z[i]]
  <2>1. z = [i \in 0 .. 2 - 1 |-> (k \div Place[i]) % Radix]
    BY DEF Wrap
  <2> QED BY <2>1
<1>7. Join(x, y, 1) = [i \in 0 .. 1 |-> IF i < 1 THEN x[i] ELSE y[i - 1]]
  BY DEF Join
<1> HIDE DEF x, y, z
<1>8. \A i \in 0 .. 1 : (IF i < 1 THEN x[i] ELSE y[i - 1]) = z[i]
  BY <1>5
<1>9. Join(x, y, 1) = z
  BY <1>6, <1>7, <1>8
<1> QED BY <1>9 DEF x, y, z

(* Values of one byte joined in the same way are the same. *)
LEMMA JoinInjective ==
  ASSUME NEW a \in Value(1), NEW b \in Value(1), NEW c \in Value(1), NEW d \in Value(1)
  PROVE  Join(a, b, 1) = Join(c, d, 1) <=> a = c /\ b = d
<1> SUFFICES ASSUME Join(a, b, 1) = Join(c, d, 1) PROVE a = c /\ b = d
  OBVIOUS
<1>1. \A x, y : Join(x, y, 1)[0] = x[0] /\ Join(x, y, 1)[1] = y[0]
  BY DEF Join
<1>2. a[0] = c[0] /\ b[0] = d[0]
  BY <1>1
<1>3. \A x, y \in Value(1) : x[0] = y[0] => x = y
  <2> SUFFICES ASSUME NEW x \in Value(1), NEW y \in Value(1), x[0] = y[0] PROVE x = y
    OBVIOUS
  <2>1. \A i \in 0 .. 1 - 1 : i = 0
    OBVIOUS
  <2> QED BY <2>1 DEF Value
<1> QED BY <1>2, <1>3

(***************************************************************************)
(* Products.                                                               *)
(***************************************************************************)
(* How the processor reads the operands of multiplications and divisions. *)
LEMMA NativeNumbers ==
  ASSUME IInv, insn # Idle, insn.op \in {"mul", "imul1", "imul", "imul3", "div", "idiv"}
  PROVE  /\ \A x : Native!AsNumber(x) = IF insn.op \in {"mul", "div"} THEN Unsigned(x) ELSE Signed(x)
         /\ Native!Accumulator = Read(regs, Low(Rax, N))
         /\ Native!Accumulator \in Value(N) /\ Src \in Value(N) /\ Dst \in Value(N)
         /\ \A x \in Value(N) : Signed(x) \in Int /\ Unsigned(x) \in Int
<1>1. \A x : Native!AsNumber(x) = IF insn.op \in {"mul", "div"} THEN Unsigned(x) ELSE Signed(x)
  BY NativeBytes DEF Native!AsNumber
<1>2. Native!Accumulator = Read(regs, Low(Rax, N))
  BY NativeBytes DEF Native!Accumulator
<1>3. N \in 1 .. 16 /\ Read(regs, Low(Rax, N)) \in Value(N) /\ Src \in Value(N) /\ Dst \in Value(N)
  BY OperandTypes DEF IInv, TwoOperand
<1>4. \A x \in Value(N) : Signed(x) \in Int /\ Unsigned(x) \in Int
  BY <1>3, SignedIs, UnsignedType, Places
<1> QED BY <1>1, <1>2, <1>3, <1>4

(* The product of the processor, and where it goes. *)
LEMMA ProductIs ==
  ASSUME IInv, insn # Idle, insn.op \in {"mul", "imul1"}
  PROVE  /\ Native!Product =
              IF insn.op = "mul" THEN Unsigned(Native!Accumulator) * Unsigned(Src)
                                 ELSE Signed(Native!Accumulator) * Signed(Src)
         /\ Native!Product \in Int
         /\ Native!Registers = {Native!PutPair(Wrap(Native!Product, N),
                                               Wrap(Native!Product \div Place[N], N))}
<1>1. Native!Factors[1] = Native!Accumulator /\ Native!Factors[2] = Src
  BY NativeBytes DEF Native!Factors
<1>2. Native!Product =
        IF insn.op = "mul" THEN Unsigned(Native!Accumulator) * Unsigned(Src)
                           ELSE Signed(Native!Accumulator) * Signed(Src)
  BY <1>1, NativeNumbers DEF Native!Product
<1>3. Native!Product \in Int
  <2>1. /\ Unsigned(Native!Accumulator) \in Int /\ Unsigned(Src) \in Int
        /\ Signed(Native!Accumulator) \in Int /\ Signed(Src) \in Int
    BY NativeNumbers
  <2> QED BY <1>2, <2>1
<1>4. Native!Registers = {Native!PutPair(Wrap(Native!Product, N),
                                         Wrap(Native!Product \div Place[N], N))}
  BY NativeBytes DEF Native!Registers, Native!MoveOps, Native!ConvertOps
<1> QED BY <1>2, <1>3, <1>4

(* MUL and IMUL of one operand write both halves of the product. *)
LEMMA MultiplyPairRegisters ==
  ASSUME IInv, MultiplyPair("mul", Unsigned) \/ MultiplyPair("imul1", Signed)
  PROVE  RegistersRight
<1>1. insn # Idle /\ insn.op \in {"mul", "imul1"} /\ N > 1
  BY DEF MultiplyPair, Handle
<1>2. N \in Sizes /\ N \in 1 .. 16 /\ N \in 0 .. 16
  BY <1>1, OperandTypes DEF IInv, TwoOperand
<1>3. Native!Accumulator = Read(regs, Low(Rax, N))
  BY <1>1, NativeNumbers
<1> DEFINE P == Native!Product
<1>4. regs' = ToPair(Wrap(P, N), Wrap(P \div Place[N], N))
  BY <1>3, <1>1, ProductIs DEF MultiplyPair, Handle, LowPart, HighPart
<1>5. P \in Int /\ P \div Place[N] \in Int
  BY <1>1, <1>2, ProductIs, Places, Division
<1> HIDE DEF P
<1>6. Wrap(P, N) \in Value(N) /\ Wrap(P \div Place[N], N) \in Value(N)
  BY <1>2, <1>5, WrapType
<1>7. regs' = Native!PutPair(Wrap(P, N), Wrap(P \div Place[N], N))
  BY <1>1, <1>2, <1>4, <1>6, ToPairIsPut DEF IInv
<1>8. ~WrongRegisters
  BY <1>1 DEF WrongRegisters
<1> QED BY <1>1, <1>7, <1>8, ProductIs DEF RegistersRight, P

(* Adding what does not vanish changes a remainder. *)
LEMMA AddedRemainder ==
  ASSUME NEW n \in Nat, n > 0, NEW x \in Int, NEW s \in Int, (x + s) % n = x % n
  PROVE  s % n = 0
<1>1. /\ x \div n \in Int /\ (x + s) \div n \in Int
      /\ x = n * (x \div n) + (x % n) /\ x + s = n * ((x + s) \div n) + ((x + s) % n)
      /\ x % n \in Int
  BY Division
<1> DEFINE i == x \div n
           j == (x + s) \div n
           r == x % n
           d == j - i
           z == 0
<1>2. i \in Int /\ j \in Int /\ r \in Int /\ x = n * i + r /\ x + s = n * j + r
  BY <1>1
<1> HIDE DEF i, j, r
<1>3. d \in Int /\ z \in 0 .. n - 1 /\ s = n * d + z
  BY <1>2
<1> HIDE DEF d, z
<1>4. (n * d + z) % n = z
  BY <1>3, DivisionUnique
<1> QED BY <1>3, <1>4 DEF z

(* A multiple of Radix is lost in two bytes only if it is one of Radix^2. *)
LEMMA AddedByte ==
  ASSUME NEW x \in Int, NEW s \in Int
  PROVE  Wrap(x + Radix * s, 2) = Wrap(x, 2) <=> s % Radix = 0
<1> DEFINE r == Radix
           y == x + r * s
           p == r * r
<1>1. r \in Nat /\ r > 0 /\ y \in Int
  BY BytesAssumption
<1>2. Place[2] = p
  <2>1. 2 \in 1 .. 16
    OBVIOUS
  <2>2. Place[2] = Radix * Place[2 - 1]
    BY <2>1, Places
  <2> QED BY <2>2, Places
<1>3. Wrap(y, 2) = Wrap(x, 2) <=> y % p = x % p
  <2> HIDE DEF y, p
  <2>1. 2 \in 1 .. 16
    OBVIOUS
  <2> QED BY <1>1, <1>2, <2>1, WrapsAlike
<1> HIDE DEF r
<1>4. y % r = x % r /\ y \div r = (x \div r) + s
  BY <1>1, PlusMultiple
<1> HIDE DEF y
<1>5. /\ y % p = r * ((y \div r) % r) + (y % r)
      /\ x % p = r * ((x \div r) % r) + (x % r)
  BY <1>1, DivisionByProduct
<1> DEFINE a == (y \div r) % r
           b == (x \div r) % r
           c == x % r
<1>6. a \in Int /\ b \in Int /\ c \in Int /\ x \div r \in Int
  <2>1. x \div r \in Int /\ y \div r \in Int /\ x % r \in Int
    BY <1>1, Division
  <2> QED BY <1>1, <2>1, Division
<1>7. y % p = x % p <=> a = b
  <2>1. y % p = r * a + c /\ x % p = r * b + c
    BY <1>4, <1>5
  <2> HIDE DEF a, b, c, p
  <2>2. r * a + c = r * b + c => a = b
    BY <1>1, <1>6
  <2> QED BY <2>1, <2>2
<1>8. a = b <=> s % r = 0
  <2> DEFINE u == x \div r
  <2>1. u \in Int /\ a = (u + s) % r /\ b = u % r
    BY <1>4, <1>6
  <2> HIDE DEF u, a, b
  <2>2. a = b => s % r = 0
    BY <1>1, <2>1, AddedRemainder
  <2>3. s % r = 0 => a = b
    <3> SUFFICES ASSUME s % r = 0 PROVE a = b
      OBVIOUS
    <3> DEFINE t == s \div r
    <3>1. t \in Int /\ s = r * t
      BY <1>1, Division
    <3> HIDE DEF t
    <3>2. (u + r * t) % r = u % r
      BY <1>1, <2>1, <3>1, PlusMultiple
    <3> QED BY <2>1, <3>1, <3>2
  <2> QED BY <2>2, <2>3
<1> QED BY <1>3, <1>7, <1>8 DEF y, r

(* The low byte of a word of two without its sign. *)
LEMMA WidenedByte ==
  ASSUME NEW x \in Value(1)
  PROVE  /\ ZeroExtend(x, 2) \in Value(2) /\ Unsigned(ZeroExtend(x, 2)) = Unsigned(x)
         /\ Signed(ZeroExtend(x, 2)) = Unsigned(x)
         /\ Unsigned(x) \in 0 .. Radix - 1
<1> DEFINE y == ZeroExtend(x, 2)
<1>1. y \in Value(2) /\ y[1] = 0
  <2>1. 1 \in 1 .. 16 /\ 2 \in 1 .. 16 /\ 1 \notin 0 .. 1 - 1 /\ 1 \in 0 .. 2 - 1
    OBVIOUS
  <2>2. y \in Value(2)
    BY <2>1, ExtendType
  <2>3. DOMAIN x = 0 .. 1 - 1
    BY DEF Value
  <2>4. y[1] = IF 1 \in DOMAIN x THEN x[1] ELSE 0
    BY <2>1 DEF ZeroExtend, Extend
  <2> QED BY <2>1, <2>2, <2>3, <2>4
<1>2. Unsigned(y) = Unsigned(x)
  <2> DEFINE n == 1
             m == 2
  <2>1. n \in 1 .. 8 /\ m \in n .. 8 /\ x \in Value(n)
    OBVIOUS
  <2> HIDE DEF n, m
  <2>2. Unsigned(ZeroExtend(x, m)) = Unsigned(x)
    BY <2>1, ZeroExtendIs
  <2> QED BY <2>2 DEF m
<1>3. ~Negative(y)
  <2>1. 2 \in 1 .. 16
    OBVIOUS
  <2>2. Size(y) = 2
    BY <1>1, <2>1, SizeOf
  <2>3. Negative(y) <=> 2 * y[2 - 1] >= Radix
    BY <2>2 DEF Negative
  <2>4. y[2 - 1] = 0
    BY <1>1
  <2>5. ~ (2 * 0 >= Radix)
    BY BytesAssumption
  <2> QED BY <2>3, <2>4, <2>5
<1>4. Signed(y) = Unsigned(y)
  <2>1. 2 \in 1 .. 16
    OBVIOUS
  <2> HIDE DEF y
  <2> QED BY <1>1, <1>3, <2>1, SignedIs
<1>5. Unsigned(x) \in 0 .. Radix - 1
  <2>1. 1 \in 1 .. 16
    OBVIOUS
  <2>2. Unsigned(x) \in 0 .. Place[1] - 1
    BY <2>1, UnsignedType
  <2> QED BY <2>2, Places
<1> QED BY <1>1, <1>2, <1>4, <1>5

(* Of bytes IMUL is wrong just where AL is negative and its factor is not  *)
(* zero.                                                                   *)
LEMMA MultiplyByteRegisters ==
  ASSUME IInv, MultiplyByte("mul", Unsigned) \/ MultiplyByte("imul1", Signed)
  PROVE  RegistersRight
<1>1. insn # Idle /\ insn.op \in {"mul", "imul1"} /\ N = 1
  BY DEF MultiplyByte, Handle
<1> DEFINE P == Native!Product
           al == Read(regs, Low(Rax, 1))
           Q == IF insn.op = "mul" THEN Unsigned(al) * Unsigned(Src) ELSE Unsigned(al) * Signed(Src)
<1>2. al \in Value(1) /\ Src \in Value(1) /\ Native!Accumulator = al /\ P \in Int
  BY <1>1, NativeNumbers, ProductIs
<1>3. /\ Unsigned(al) \in Int /\ Unsigned(Src) \in Int /\ Signed(Src) \in Int
      /\ Signed(al) = (IF Negative(al) THEN Unsigned(al) - Radix ELSE Unsigned(al))
      /\ Signed(Src) % Radix = Unsigned(Src)
      /\ (Unsigned(Src) = 0 <=> Src = Zeros(1))
  <2>1. 1 \in 1 .. 16 /\ Place[1] = Radix
    BY Places
  <2>2. /\ Unsigned(al) \in Int /\ Unsigned(Src) \in Int /\ Signed(Src) \in Int
    BY <1>1, <1>2, NativeNumbers
  <2>3. Signed(al) = (IF Negative(al) THEN Unsigned(al) - Radix ELSE Unsigned(al))
    <3> HIDE DEF al
    <3> QED BY <1>2, <2>1, SignedIs
  <2>4. Signed(Src) % Radix = Unsigned(Src)
    BY <1>2, <2>1, SignedIs
  <2> QED BY <1>2, <2>1, <2>2, <2>3, <2>4, ZeroIs
<1>4. regs' = Mov(regs, Low(Rax, 2), Wrap(Q, 2))
  BY <1>2, <1>1, WidenedByte DEF MultiplyByte, Handle, LowPart
<1>5. P = IF insn.op = "mul" THEN Unsigned(al) * Unsigned(Src) ELSE Signed(al) * Signed(Src)
  BY <1>1, <1>2, ProductIs
<1> HIDE DEF al, P
<1>6. Q \in Int
  BY <1>3
<1>7. Q = P + Radix * (IF insn.op = "imul1" /\ Negative(al) THEN Signed(Src) ELSE 0)
  <2> DEFINE u == Unsigned(al)
             s == Signed(Src)
  <2>1. u \in Int /\ s \in Int /\ Radix \in Int
    BY <1>3, BytesAssumption
  <2>2. CASE insn.op = "imul1" /\ Negative(al)
    <3>1. P = (u - Radix) * s /\ Q = u * s
      BY <1>3, <1>5, <2>2
    <3> HIDE DEF u, s, Q
    <3>2. u * s = (u - Radix) * s + Radix * s
      BY <2>1
    <3> QED BY <2>2, <3>1, <3>2 DEF s
  <2>3. CASE ~(insn.op = "imul1" /\ Negative(al))
    <3>1. P = Q
      BY <1>1, <1>3, <1>5, <2>3
    <3> HIDE DEF Q
    <3>2. Q + Radix * 0 = Q
      BY <1>6, BytesAssumption
    <3> QED BY <2>3, <3>1, <3>2
  <2> QED BY <2>2, <2>3
<1> HIDE DEF Q
<1>8. Wrap(Q, 2) = Wrap(P, 2) <=> ~(insn.op = "imul1" /\ Negative(al) /\ Src # Zeros(1))
  <2> DEFINE e == IF insn.op = "imul1" /\ Negative(al) THEN Signed(Src) ELSE 0
  <2>1. e \in Int
    BY <1>3
  <2>2. Q = P + Radix * e
    BY <1>7
  <2>3. e % Radix = 0 <=> ~(insn.op = "imul1" /\ Negative(al) /\ Src # Zeros(1))
    <3>1. 0 % Radix = 0
      BY BytesAssumption
    <3> QED BY <1>3, <3>1
  <2> HIDE DEF e
  <2>4. Wrap(P + Radix * e, 2) = Wrap(P, 2) <=> e % Radix = 0
    BY <1>2, <2>1, AddedByte
  <2> QED BY <2>2, <2>3, <2>4
<1>9. WrongRegisters <=> insn.op = "imul1" /\ Negative(al) /\ Src # Zeros(1)
  BY <1>1 DEF WrongRegisters, al
<1>10. Native!Registers = {Native!Put(regs, Low(Rax, 2), Wrap(P, 2))}
  <2>1. Native!Registers = {Native!PutPair(Wrap(P, 1), Wrap(P \div Place[1], 1))}
    BY <1>1, ProductIs DEF P
  <2>2. Native!PutPair(Wrap(P, 1), Wrap(P \div Place[1], 1)) =
          Native!Put(Native!Put(regs, Low(Rax, 1), Wrap(P, 1)), High(Rax), Wrap(P \div Place[1], 1))
    BY <1>1, NativeBytes DEF Native!PutPair, Native!Half
  <2>3. Wrap(P, 1) \in Value(1) /\ Wrap(P \div Place[1], 1) \in Value(1)
    <3>1. P \div Place[1] \in Int /\ 1 \in 1 .. 16
      <4>1. Place[1] \in Nat /\ Place[1] > 0
        BY Places, BytesAssumption
      <4> QED BY <1>2, <4>1, Division
    <3> QED BY <1>2, <3>1, WrapType
  <2>4. regs \in [Regs -> Quad] /\ Rax \in Regs
    BY StateTypes, BytesAssumption DEF IInv
  <2>5. Native!PutPair(Wrap(P, 1), Wrap(P \div Place[1], 1)) =
          Native!Put(regs, Low(Rax, 2), Join(Wrap(P, 1), Wrap(P \div Place[1], 1), 1))
    BY <2>2, <2>3, <2>4, BytesJoin
  <2> QED BY <1>2, <2>1, <2>5, WrapHalves
<1>11. /\ Low(Rax, 2) \in Views /\ Low(Rax, 2).size = 2 /\ regs \in [Regs -> Quad]
       /\ Wrap(Q, 2) \in Value(2) /\ Wrap(P, 2) \in Value(2)
  <2>1. 2 \in Sizes /\ 2 \in 1 .. 16
    BY DEF Sizes
  <2> QED BY <1>2, <1>6, <2>1, PairParts, PartsAre, WrapType, StateTypes DEF IInv
<1> DEFINE v == Low(Rax, 2)
<1> HIDE DEF v
<1>12. regs' = Native!Put(regs, v, Wrap(Q, 2))
  <2>1. v \in Views /\ v.size = 2 /\ v.size # 4 /\ Wrap(Q, 2) \in Value(v.size)
    BY <1>11 DEF v
  <2> QED BY <1>4, <1>11, <2>1, MovIsPut DEF v
<1>13. Native!Put(regs, v, Wrap(Q, 2)) = Native!Put(regs, v, Wrap(P, 2))
         <=> Wrap(Q, 2) = Wrap(P, 2)
  <2>1. v \in Views /\ Wrap(Q, 2) \in Value(v.size) /\ Wrap(P, 2) \in Value(v.size)
    BY <1>11 DEF v
  <2> QED BY <1>11, <2>1, PutInjective
<1> QED BY <1>8, <1>9, <1>10, <1>12, <1>13 DEF RegistersRight, v

(***************************************************************************)
(* Products of two and three operands.                                     *)
(***************************************************************************)

(* The low half of a product does not depend on signs. *)
LEMMA UnsignedProducts ==
  ASSUME NEW n \in 1 .. 16, NEW x \in Value(n), NEW y \in Value(n)
  PROVE  Wrap(Unsigned(x) * Unsigned(y), n) = Wrap(Signed(x) * Signed(y), n)
<1> DEFINE p == Place[n]
           u == Unsigned(x)
           v == Unsigned(y)
           s == Signed(x)
           t == Signed(y)
<1>1. p \in Nat /\ p > 0 /\ u \in Int /\ v \in Int /\ s \in Int /\ t \in Int
  <2>1. n \in 0 .. 16
    OBVIOUS
  <2> QED BY <2>1, Places, UnsignedType, SignedIs
<1>2. PICK e \in {0, 1} : u = s + p * e
  <2>1. s = IF Negative(x) THEN u - p ELSE u
    BY SignedIs
  <2> HIDE DEF s, u, p
  <2>2. s + p * 0 = s /\ (u - p) + p * 1 = u
    BY <1>1
  <2> QED BY <2>1, <2>2
<1>3. PICK f \in {0, 1} : v = t + p * f
  <2>1. t = IF Negative(y) THEN v - p ELSE v
    BY SignedIs
  <2> HIDE DEF t, v, p
  <2>2. t + p * 0 = t /\ (v - p) + p * 1 = v
    BY <1>1
  <2> QED BY <2>1, <2>2
<1> HIDE DEF p, u, v, s, t
<1> DEFINE k == e * t + f * s + p * (e * f)
<1>4. k \in Int /\ s * t \in Int /\ u * v \in Int
  BY <1>1
<1>5. u * v = s * t + p * k
  BY <1>1, <1>2, <1>3
<1> HIDE DEF k
<1> DEFINE m == s * t
<1> HIDE DEF m
<1>6. m \in Int /\ u * v = m + p * k
  BY <1>4, <1>5 DEF m
<1>7. (m + p * k) % p = m % p
  BY <1>1, <1>4, <1>6, PlusMultiple
<1>8. Wrap(u * v, n) = Wrap(m, n)
  <2> DEFINE w == u * v
  <2>1. w \in Int /\ w % p = m % p
    BY <1>4, <1>6, <1>7
  <2> HIDE DEF w
  <2>2. Wrap(w, n) = Wrap(m, n)
    BY <1>6, <2>1, WrapsAlike DEF p
  <2> QED BY <2>2 DEF w
<1> QED BY <1>8 DEF m, u, v, s, t

(* The factors of IMUL of two and three operands. *)
LEMMA ImulFactors ==
  ASSUME IInv, insn # Idle, insn.op \in {"imul", "imul3"}
  PROVE  /\ N \in 1 .. 8 /\ N \in 1 .. 16 /\ N > 1
         /\ Native!Factors = IF insn.op = "imul" THEN <<Dst, Src>> ELSE <<Src, Wrap(insn.imm, N)>>
         /\ Native!Factors[1] \in Value(N) /\ Native!Factors[2] \in Value(N)
         /\ Native!Product = Signed(Native!Factors[1]) * Signed(Native!Factors[2])
         /\ Native!Product \in Int
<1>1. N \in 1 .. 8 /\ N \in 1 .. 16 /\ Dst \in Value(N) /\ Src \in Value(N) /\ insn.dst.size = N
  BY OperandTypes DEF IInv, TwoOperand
<1>2. N > 1 /\ (insn.op = "imul3" => insn.imm \in Int)
  BY <1>1, Shapes DEF IInv
<1>3. Native!Factors = IF insn.op = "imul" THEN <<Dst, Src>> ELSE <<Src, Wrap(insn.imm, N)>>
  BY NativeBytes DEF Native!Factors
<1>4. insn.op = "imul3" => Wrap(insn.imm, N) \in Value(N)
  BY <1>1, <1>2, WrapType
<1>5. Native!Factors[1] \in Value(N) /\ Native!Factors[2] \in Value(N)
  BY <1>1, <1>3, <1>4
<1>6. Native!Product = Signed(Native!Factors[1]) * Signed(Native!Factors[2])
  BY NativeNumbers DEF Native!Product
<1>7. Signed(Native!Factors[1]) \in Int /\ Signed(Native!Factors[2]) \in Int
  BY <1>1, <1>5, SignedIs
<1> QED BY <1>1, <1>2, <1>3, <1>5, <1>6, <1>7

(* IMUL of two and three operands writes the low half of the product. *)
LEMMA ImulRegisters ==
  ASSUME IInv, Imul PROVE RegistersRight
<1>1. insn # Idle /\ insn.op \in {"imul", "imul3"}
  BY DEF Imul, ImulTo, Handle
<1> DEFINE a == Native!Factors[1]
           b == Native!Factors[2]
<1>2. regs' = StoreOperand(regs, insn.dst, Wrap(Unsigned(a) * Unsigned(b), N))
  <2>1. Native!Factors = IF insn.op = "imul" THEN <<Dst, Src>> ELSE <<Src, Wrap(insn.imm, N)>>
    BY <1>1, ImulFactors
  <2>2. CASE ImulTo("imul", Dst, Src)
    BY <2>1, <2>2 DEF ImulTo, Handle, LowPart
  <2>3. CASE ImulTo("imul3", Src, Wrap(insn.imm, N))
    BY <2>1, <2>3 DEF ImulTo, Handle, LowPart
  <2> QED BY <2>2, <2>3 DEF Imul
<1>3. N \in 1 .. 16 /\ a \in Value(N) /\ b \in Value(N) /\ Native!Product = Signed(a) * Signed(b)
      /\ Native!Product \in Int
  BY <1>1, ImulFactors
<1>4. Wrap(Unsigned(a) * Unsigned(b), N) = Wrap(Native!Product, N)
  <2> HIDE DEF a, b
  <2> QED BY <1>3, UnsignedProducts
<1>5. regs' = Native!Put(regs, insn.dst, Wrap(Native!Product, N))
  <2> DEFINE x == Wrap(Native!Product, N)
  <2>1. insn.dst \in Views /\ insn.dst.size = N /\ regs \in [Regs -> Quad]
    BY <1>1, OperandTypes, StateTypes DEF IInv, TwoOperand
  <2>2. x \in Value(N)
    BY <1>3, WrapType
  <2> HIDE DEF x
  <2>3. StoreOperand(regs, insn.dst, x) = Native!Put(regs, insn.dst, x)
    BY <1>3, <2>1, <2>2, StoreIsPut
  <2> QED BY <1>2, <1>4, <2>3 DEF x
<1>6. Native!Registers = {Native!Put(regs, insn.dst, Wrap(Native!Product, N))}
  BY <1>1, NativeBytes DEF Native!Registers, Native!MoveOps, Native!ConvertOps
<1>7. ~WrongRegisters
  BY <1>1 DEF WrongRegisters
<1> QED BY <1>5, <1>6, <1>7 DEF RegistersRight

(***************************************************************************)
(* Quotients and remainders.                                               *)
(***************************************************************************)
(* The division of the processor, and where its outcome goes. *)
LEMMA NativeDivision ==
  ASSUME IInv, insn # Idle, insn.op \in {"div", "idiv"}
  PROVE  /\ N \in 1 .. 8 /\ N \in 1 .. 16 /\ N \in Sizes
         /\ N > 1 => Native!Dividend =
              Native!AsNumber(Join(Read(regs, Low(Rax, N)), Read(regs, Low(Rdx, N)), N))
         /\ N = 1 => Native!Dividend =
              Native!AsNumber(Join(Read(regs, Low(Rax, 1)), Read(regs, High(Rax)), 1))
         /\ Native!Dividend \in Int /\ Native!Divisor \in Int /\ Native!Divisor # 0
         /\ Quotient(Native!Dividend, Native!Divisor) \in Int
         /\ Remainder(Native!Dividend, Native!Divisor) \in Int
         /\ Native!AsNumber(Wrap(Quotient(Native!Dividend, Native!Divisor), N)) =
              Quotient(Native!Dividend, Native!Divisor)
         /\ Native!Registers =
              {Native!PutPair(Wrap(Quotient(Native!Dividend, Native!Divisor), N),
                              Wrap(Remainder(Native!Dividend, Native!Divisor), N))}
<1>1. /\ N \in 1 .. 8 /\ N \in 1 .. 16 /\ N \in Sizes /\ Read(regs, Low(Rax, N)) \in Value(N)
      /\ Read(regs, Low(Rdx, N)) \in Value(N) /\ Read(regs, High(Rax)) \in Value(1)
  BY OperandTypes DEF IInv, TwoOperand
<1>2. /\ N > 1 => Native!Dividend =
           Native!AsNumber(Join(Read(regs, Low(Rax, N)), Read(regs, Low(Rdx, N)), N))
      /\ N = 1 => Native!Dividend =
           Native!AsNumber(Join(Read(regs, Low(Rax, 1)), Read(regs, High(Rax)), 1))
  BY <1>1, NativeBytes DEF Native!Dividend, Native!Half, Native!Accumulator, Join
<1>3. Native!Divisor \in Int /\ Native!Divisor # 0
  BY DivisorIs DEF Divisions
<1>4. Native!Dividend \in Int
  <2>1. PICK h \in Value(N) : Native!Dividend = Native!AsNumber(Join(Read(regs, Low(Rax, N)), h, N))
    BY <1>1, <1>2
  <2> DEFINE j == Join(Read(regs, Low(Rax, N)), h, N)
  <2>2. j \in Value(2 * N) /\ 2 * N \in 1 .. 16
    BY <1>1, JoinIs
  <2> HIDE DEF j
  <2> DEFINE m == 2 * N
  <2> HIDE DEF m
  <2>3. m \in 1 .. 16 /\ j \in Value(m)
    BY <2>2 DEF m
  <2>4. Unsigned(j) \in Int /\ Signed(j) \in Int
    <3>1. Unsigned(j) \in 0 .. Place[m] - 1
      BY <2>3, UnsignedType
    <3>2. m \in 0 .. 16
      BY <2>3
    <3> QED BY <2>3, <3>1, <3>2, Places, SignedIs
  <2> QED BY <2>1, <2>4, NativeNumbers DEF j
<1>5. /\ Quotient(Native!Dividend, Native!Divisor) \in Int
      /\ Remainder(Native!Dividend, Native!Divisor) \in Int
  BY <1>3, <1>4, QuotientType
<1>6. Native!AsNumber(Wrap(Quotient(Native!Dividend, Native!Divisor), N)) =
        Quotient(Native!Dividend, Native!Divisor)
  <2>1. ~Native!Faults
    BY DEF IInv, NoFault
  <2> QED BY <2>1, NativeBytes DEF Native!Faults
<1>7. Native!Registers =
        {Native!PutPair(Wrap(Quotient(Native!Dividend, Native!Divisor), N),
                        Wrap(Remainder(Native!Dividend, Native!Divisor), N))}
  BY NativeBytes DEF Native!Registers, Native!MoveOps, Native!ConvertOps
<1> QED BY <1>1, <1>2, <1>3, <1>4, <1>5, <1>6, <1>7

(* DIV and IDIV write quotient and remainder. *)
LEMMA DividePairRegisters ==
  ASSUME IInv, DividePair("div", Unsigned) \/ DividePair("idiv", Signed)
  PROVE  RegistersRight
<1>1. insn # Idle /\ insn.op \in {"div", "idiv"} /\ N > 1
  BY DEF DividePair, Handle
<1> DEFINE a == Native!Dividend
           b == Native!Divisor
           lo == Wrap(Quotient(a, b), N)
           hi == Wrap(Remainder(a, b), N)
<1>2. regs' = ToPair(lo, hi)
  <2>1. b = IF insn.op = "idiv" THEN Signed(Src) ELSE Unsigned(Src)
    BY <1>1, DivisorIs DEF Divisions
  <2>2. a = IF insn.op = "idiv"
            THEN Signed(Join(Read(regs, Low(Rax, N)), Read(regs, Low(Rdx, N)), N))
            ELSE Unsigned(Join(Read(regs, Low(Rax, N)), Read(regs, Low(Rdx, N)), N))
    BY <1>1, NativeDivision, NativeNumbers
  <2> HIDE DEF a, b
  <2>3. CASE DividePair("div", Unsigned)
    BY <2>1, <2>2, <2>3 DEF DividePair, Handle, Join
  <2>4. CASE DividePair("idiv", Signed)
    BY <2>1, <2>2, <2>4 DEF DividePair, Handle, Join
  <2> QED BY <2>3, <2>4
<1>3. lo \in Value(N) /\ hi \in Value(N)
  BY <1>1, NativeDivision, WrapType
<1>4. regs' = Native!PutPair(lo, hi)
  <2> HIDE DEF lo, hi
  <2> QED BY <1>1, <1>2, <1>3, NativeDivision, ToPairIsPut DEF IInv
<1>5. ~WrongRegisters
  BY <1>1 DEF WrongRegisters
<1> QED BY <1>1, <1>4, <1>5, NativeDivision DEF RegistersRight

(***************************************************************************)
(* Quotients of bytes.                                                     *)
(***************************************************************************)

(* Numbers with the same remainder that are close are the same. *)
LEMMA SmallDifference ==
  ASSUME NEW n \in Nat, n > 0, NEW x \in Int, NEW y \in Int, x % n = y % n,
         -n < x - y, x - y < n
  PROVE  x = y
<1> DEFINE i == x \div n
           j == y \div n
           d == i - j
           r == x % n
<1>1. i \in Int /\ j \in Int /\ r \in Int /\ x = n * i + r /\ y = n * j + r
  BY Division
<1> HIDE DEF i, j, r
<1>2. d \in Int /\ x - y = n * d
  BY <1>1
<1> HIDE DEF d
<1>3. d = 0
  <2>1. d >= 1 => n * d >= n
    BY <1>2
  <2>2. d <= -1 => n * d <= -n
    BY <1>2
  <2> QED BY <1>2, <2>1, <2>2
<1> QED BY <1>2, <1>3

(* Division that rounds towards zero. *)
LEMMA QuotientIs ==
  ASSUME NEW a \in Int, NEW b \in Int, b # 0
  PROVE  /\ Quotient(a, b) \in Int /\ Remainder(a, b) \in Int
         /\ a = b * Quotient(a, b) + Remainder(a, b)
         /\ Abs(b) \in Nat /\ Abs(b) > 0
         /\ -Abs(b) < Remainder(a, b) /\ Remainder(a, b) < Abs(b)
         /\ a >= 0 => Remainder(a, b) >= 0
         /\ a >= 0 => \E m \in Nat : /\ Quotient(a, b) = m \/ Quotient(a, b) = 0 - m
                                     /\ b > 0 => Quotient(a, b) = m
                                     /\ Abs(b) * m <= a
<1> DEFINE n == Abs(b)
           c == Abs(a)
           m == c \div n
           t == c % n
           q == Quotient(a, b)
           r == Remainder(a, b)
<1>1. /\ n \in Nat /\ n > 0 /\ c \in Nat
      /\ n = (IF b < 0 THEN 0 - b ELSE b) /\ c = (IF a < 0 THEN 0 - a ELSE a)
  BY DEF Abs
<1>2. q = (IF (a < 0) = (b < 0) THEN 1 ELSE -1) * m
  BY DEF Quotient
<1>3. r = a - b * q
  BY DEF Remainder
<1> HIDE DEF n, c, q, r
<1>4. m \in Int /\ t \in 0 .. n - 1 /\ c = n * m + t
  <2>1. n \in Nat /\ n > 0 /\ c \in Int
    BY <1>1
  <2> QED BY <2>1, Division
<1> HIDE DEF m, t
<1>5. m \in Nat
  <2>1. m <= -1 => n * m <= -n
    BY <1>1, <1>4
  <2> QED BY <1>1, <1>4, <2>1
<1>6. q = IF (a < 0 /\ b < 0) \/ (~(a < 0) /\ ~(b < 0)) THEN m ELSE 0 - m
  <2>1. CASE (a < 0) = (b < 0)
    <3>1. (a < 0 /\ b < 0) \/ (~(a < 0) /\ ~(b < 0))
      BY <2>1
    <3>2. q = 1 * m
      BY <1>2, <2>1
    <3> QED BY <1>4, <3>1, <3>2
  <2>2. CASE (a < 0) # (b < 0)
    <3>1. ~((a < 0 /\ b < 0) \/ (~(a < 0) /\ ~(b < 0)))
      BY <2>2
    <3>2. q = (-1) * m
      BY <1>2, <2>2
    <3> QED BY <1>4, <3>1, <3>2
  <2> QED BY <2>1, <2>2
<1>7. q \in Int /\ r \in Int /\ a = b * q + r
  BY <1>3, <1>4, <1>6
<1>8. r = IF a < 0 THEN 0 - t ELSE t
  <2>1. CASE ~(a < 0) /\ ~(b < 0)
    BY <1>1, <1>3, <1>4, <1>6, <2>1
  <2>2. CASE ~(a < 0) /\ b < 0
    <3>1. q = 0 - m /\ n = 0 - b /\ c = a
      BY <1>1, <1>6, <2>2
    <3>2. b * (0 - m) = (0 - b) * m
      BY <1>4
    <3> QED BY <1>1, <1>3, <1>4, <2>2, <3>1, <3>2
  <2>3. CASE a < 0 /\ ~(b < 0)
    <3>1. q = 0 - m /\ n = b /\ c = 0 - a
      BY <1>1, <1>6, <2>3
    <3>2. b * (0 - m) = 0 - (b * m)
      BY <1>4
    <3> QED BY <1>1, <1>3, <1>4, <2>3, <3>1, <3>2
  <2>4. CASE a < 0 /\ b < 0
    <3>1. q = m /\ n = 0 - b /\ c = 0 - a
      BY <1>1, <1>6, <2>4
    <3>2. (0 - b) * m = 0 - (b * m)
      BY <1>4
    <3> QED BY <1>1, <1>3, <1>4, <2>4, <3>1, <3>2
  <2> QED BY <2>1, <2>2, <2>3, <2>4
<1>9. -n < r /\ r < n /\ (a >= 0 => r >= 0)
  BY <1>1, <1>4, <1>8
<1>10. a >= 0 => (q = m \/ q = 0 - m) /\ (b > 0 => q = m) /\ n * m <= a
  BY <1>1, <1>4, <1>6
<1> QED BY <1>1, <1>5, <1>7, <1>9, <1>10 DEF n, q, r

(* What a word of which the upper byte h is dropped divides to. *)
Alike(a, c, b) ==
  /\ (Quotient(a, b)) % Radix = (Quotient(c, b)) % Radix
  /\ (Remainder(a, b)) % Radix = (Remainder(c, b)) % Radix

(* Without sign, and with a quotient that fits, the upper byte has to be   *)
(* zero.                                                                   *)
LEMMA UnsignedQuotients ==
  ASSUME NEW c \in 0 .. Radix - 1, NEW h \in Int, NEW a \in Nat, a = c + Radix * h,
         NEW b \in 1 .. Radix - 1, Quotient(a, b) \in 0 .. Radix - 1
  PROVE  Alike(c, a, b) <=> h = 0
<1> DEFINE R == Radix
<1>0. R \in Nat /\ R > 1
  BY BytesAssumption
<1>1. ASSUME h = 0 PROVE Alike(c, a, b)
  <2>1. a = c
    BY <1>0, <1>1
  <2> QED BY <2>1 DEF Alike
<1>2. ASSUME Alike(c, a, b) PROVE h = 0
  <2> DEFINE q == Quotient(a, b)
             r == Remainder(a, b)
             p == Quotient(c, b)
             s == Remainder(c, b)
  <2>1. /\ q \in Int /\ r \in Int /\ a = b * q + r /\ r >= 0 /\ r < R
    <3>1. b \in Int /\ b # 0 /\ a \in Int /\ a >= 0 /\ b < R /\ Abs(b) = b
      BY <1>0 DEF Abs
    <3>2. /\ q \in Int /\ r \in Int /\ a = b * q + r /\ r >= 0 /\ r < Abs(b)
      <4> HIDE DEF q, r, R
      <4> QED BY <3>1, QuotientIs DEF q, r
    <3> HIDE DEF q, r, R
    <3> QED BY <1>0, <3>1, <3>2
  <2>2. /\ p \in Int /\ s \in Int /\ c = b * p + s /\ s >= 0 /\ s < R
        /\ p \in Nat /\ b * p <= c
    <3>1. b \in Int /\ b # 0 /\ c \in Int /\ c >= 0 /\ Abs(b) = b /\ b > 0 /\ b < R
      BY <1>0 DEF Abs
    <3>2. /\ p \in Int /\ s \in Int /\ c = b * p + s /\ s >= 0 /\ s < Abs(b)
          /\ \E m \in Nat : p = m /\ Abs(b) * m <= c
      <4> HIDE DEF p, s, R
      <4> QED BY <3>1, QuotientIs DEF p, s
    <3> HIDE DEF p, s, R
    <3> QED BY <1>0, <3>1, <3>2
  <2>3. q % R = p % R /\ r % R = s % R
    BY <1>2 DEF Alike
  <2>4. q \in 0 .. R - 1
    OBVIOUS
  <2> HIDE DEF q, r, p, s, R
  <2>5. p < R
    <3>1. b * p >= p
      BY <1>0, <2>2
    <3> QED BY <1>0, <2>2, <3>1 DEF R
  <2>6. q = p
    BY <1>0, <2>1, <2>2, <2>3, <2>4, <2>5, SmallDifference
  <2>7. r = s
    BY <1>0, <2>1, <2>2, <2>3, SmallDifference
  <2>8. R * h = 0
    <3>1. a = c
      BY <2>1, <2>2, <2>6, <2>7
    <3>2. R * h \in Int
      BY <1>0
    <3> QED BY <1>0, <3>1, <3>2 DEF R
  <2> QED BY <1>0, <2>8
<1> QED BY <1>1, <1>2

(* With sign it may be anything if the divisor is 1 or -1. *)
LEMMA SignedQuotients ==
  ASSUME NEW c \in 0 .. Radix - 1, NEW h \in Int, NEW a \in Int, a = c + Radix * h,
         NEW b \in Int, b # 0, -Radix <= 2 * b, 2 * b < Radix,
         -Radix <= 2 * Quotient(a, b), 2 * Quotient(a, b) < Radix
  PROVE  Alike(c, a, b) <=> h = 0 \/ Abs(b) = 1
<1> DEFINE R == Radix
           q == Quotient(a, b)
           r == Remainder(a, b)
           p == Quotient(c, b)
           s == Remainder(c, b)
           n == Abs(b)
<1>0. R \in Nat /\ R > 1
  BY BytesAssumption
<1>1. /\ q \in Int /\ r \in Int /\ a = b * q + r /\ -n < r /\ r < n
      /\ n \in Nat /\ n > 0 /\ n = (IF b < 0 THEN 0 - b ELSE b)
  <2>1. n = (IF b < 0 THEN 0 - b ELSE b)
    BY DEF Abs
  <2> HIDE DEF q, r, n
  <2> QED BY <2>1, QuotientIs DEF q, r, n
<1>2. /\ p \in Int /\ s \in Int /\ c = b * p + s /\ 0 <= s /\ s < n /\ -n < s
      /\ \E m \in Nat : (p = m \/ p = 0 - m) /\ n * m <= c
  <2>1. c \in Int /\ c >= 0
    BY <1>0
  <2> HIDE DEF p, s, n
  <2> QED BY <2>1, QuotientIs DEF p, s, n
<1>3. Alike(c, a, b) <=> (p % R = q % R) /\ (s % R = r % R)
  BY DEF Alike
<1>4. c \in 0 .. R - 1 /\ a = c + R * h /\ -R <= 2 * b /\ 2 * b < R /\ -R <= 2 * q /\ 2 * q < R
  OBVIOUS
<1> HIDE DEF R, q, r, p, s, n
<1>5. ASSUME h = 0 PROVE Alike(c, a, b)
  <2>1. a = c
    BY <1>0, <1>4, <1>5
  <2> QED BY <2>1 DEF Alike
<1>6. ASSUME n = 1 PROVE Alike(c, a, b)
  <2>1. r = 0 /\ s = 0
    BY <1>1, <1>2, <1>6
  <2>2. b = 1 \/ b = -1
    BY <1>1, <1>6
  <2> DEFINE k == b * h
  <2>3. k \in Int
    OBVIOUS
  <2>4. q = p + R * k
    <3>1. b * q = b * p + R * h
      BY <1>1, <1>2, <1>4, <2>1
    <3>2. CASE b = 1
      BY <1>0, <1>1, <1>2, <3>1, <3>2
    <3>3. CASE b = -1
      <4>1. (-1) * q = (-1) * p + R * h
        BY <3>1, <3>3
      <4>2. k = (-1) * h
        BY <3>3
      <4>3. R * ((-1) * h) = (-1) * (R * h)
        BY <1>0
      <4> DEFINE z == R * h
      <4>4. z \in Int
        BY <1>0
      <4> HIDE DEF z, k
      <4>5. q = p + (-1) * z
        BY <1>1, <1>2, <4>1, <4>4 DEF z
      <4> QED BY <4>2, <4>3, <4>5 DEF z
    <3> QED BY <2>2, <3>2, <3>3
  <2> HIDE DEF k
  <2>5. (p + R * k) % R = p % R
    <3>1. R > 0 /\ p \in Int
      BY <1>0, <1>2
    <3> QED BY <1>0, <2>3, <3>1, PlusMultiple
  <2> QED BY <1>3, <2>1, <2>4, <2>5
<1>7. ASSUME Alike(c, a, b), n # 1 PROVE h = 0
  <2>1. s = r
    <3>1. 2 * n <= R
      BY <1>0, <1>1, <1>4
    <3>2. -R < s - r /\ s - r < R
      BY <1>0, <1>1, <1>2, <3>1
    <3> QED BY <1>0, <1>1, <1>2, <1>3, <1>7, <3>2, SmallDifference
  <2>2. 2 * p < R /\ -R < 2 * p
    <3>1. PICK m \in Nat : (p = m \/ p = 0 - m) /\ n * m <= c
      BY <1>2
    <3>2. n * m >= 2 * m
      <4>1. n >= 2
        BY <1>1, <1>7
      <4>2. (n - 2) * m >= 0
        BY <1>1, <4>1
      <4>3. n * m = (n - 2) * m + 2 * m
        BY <1>1
      <4> QED BY <1>1, <4>2, <4>3
    <3>3. 2 * m < R
      BY <1>0, <1>1, <1>4, <3>1, <3>2
    <3> QED BY <1>0, <1>2, <3>1, <3>3
  <2>3. p = q
    <3>1. -R < p - q /\ p - q < R
      BY <1>0, <1>1, <1>2, <1>4, <2>2
    <3> QED BY <1>0, <1>1, <1>2, <1>3, <1>7, <3>1, SmallDifference
  <2>4. R * h = 0
    <3>1. a = c
      BY <1>1, <1>2, <2>1, <2>3
    <3>2. R * h \in Int
      BY <1>0
    <3> QED BY <1>0, <1>4, <3>1, <3>2
  <2> QED BY <1>0, <2>4
<1> QED BY <1>5, <1>6, <1>7 DEF n

(***************************************************************************)
(* The registers after every step.                                         *)
(***************************************************************************)

(* Of bytes DIV and IDIV are wrong just where AH was needed. *)
LEMMA DivideByteRegisters ==
  ASSUME IInv, DivideByte("div", Unsigned) \/ DivideByte("idiv", Signed)
  PROVE  RegistersRight
<1>1. insn # Idle /\ insn.op \in {"div", "idiv"} /\ N = 1
  BY DEF DivideByte, Handle
<1> DEFINE al == Read(regs, Low(Rax, 1))
           ah == Read(regs, High(Rax))
           a == Native!Dividend
           b == Native!Divisor
           c == Unsigned(al)
           h == IF insn.op = "idiv" THEN Signed(ah) ELSE Unsigned(ah)
           q == Wrap(Quotient(a, b), 1)
           r == Wrap(Remainder(a, b), 1)
           p == Wrap(Quotient(c, b), 1)
           s == Wrap(Remainder(c, b), 1)
<1>2. /\ al \in Value(1) /\ ah \in Value(1) /\ Src \in Value(1) /\ c \in 0 .. Radix - 1
      /\ regs \in [Regs -> Quad] /\ Rax \in Regs
  <2>1. al \in Value(1) /\ ah \in Value(1) /\ Src \in Value(1)
    BY <1>1, OperandTypes DEF IInv, TwoOperand
  <2>2. regs \in [Regs -> Quad] /\ Rax \in Regs
    BY StateTypes, BytesAssumption DEF IInv
  <2> QED BY <2>1, <2>2, WidenedByte
<1>3. /\ a \in Int /\ b \in Int /\ b # 0 /\ a = Native!AsNumber(Join(al, ah, 1))
      /\ Native!AsNumber(q) = Quotient(a, b)
      /\ Quotient(a, b) \in Int /\ Remainder(a, b) \in Int
      /\ Native!Registers = {Native!PutPair(q, r)}
  BY <1>1, NativeDivision
<1>4. b = IF insn.op = "idiv" THEN Signed(Src) ELSE Unsigned(Src)
  BY <1>1, DivisorIs DEF Divisions
<1>5. /\ \A x \in Value(1) :
           /\ Unsigned(x) \in 0 .. Radix - 1 /\ Signed(x) \in Int
           /\ -Radix <= 2 * Signed(x) /\ 2 * Signed(x) < Radix
           /\ Signed(x) = (IF Negative(x) THEN Unsigned(x) - Radix ELSE Unsigned(x))
           /\ Signed(x) % Radix = Unsigned(x)
           /\ Unsigned(x) = 0 <=> x = Zeros(1)
  <2> SUFFICES ASSUME NEW x \in Value(1)
               PROVE  /\ Unsigned(x) \in 0 .. Radix - 1 /\ Signed(x) \in Int
                      /\ -Radix <= 2 * Signed(x) /\ 2 * Signed(x) < Radix
                      /\ Signed(x) = (IF Negative(x) THEN Unsigned(x) - Radix ELSE Unsigned(x))
                      /\ Signed(x) % Radix = Unsigned(x)
                      /\ Unsigned(x) = 0 <=> x = Zeros(1)
    OBVIOUS
  <2>1. 1 \in 1 .. 16 /\ Place[1] = Radix
    BY Places
  <2>2. /\ Signed(x) = (IF Negative(x) THEN Unsigned(x) - Place[1] ELSE Unsigned(x))
        /\ Signed(x) \in Int /\ -Place[1] <= 2 * Signed(x) /\ 2 * Signed(x) < Place[1]
        /\ Signed(x) % Place[1] = Unsigned(x)
    BY <2>1, SignedIs
  <2>3. Unsigned(x) = 0 <=> x = Zeros(1)
    BY <2>1, ZeroIs
  <2> QED BY <2>1, <2>2, <2>3, WidenedByte
<1>6. /\ Quotient(c, b) \in Int /\ Remainder(c, b) \in Int
      /\ q \in Value(1) /\ r \in Value(1) /\ p \in Value(1) /\ s \in Value(1)
  <2>1. c \in Int /\ 1 \in 1 .. 16
    BY <1>2
  <2> HIDE DEF a, b, c
  <2>2. Quotient(c, b) \in Int /\ Remainder(c, b) \in Int
    BY <1>3, <2>1, QuotientType
  <2> QED BY <1>3, <2>1, <2>2, WrapType
<1>7. regs' = Mov(Mov(regs, Low(Rax, 1), p), High(Rax), s)
  <2>1. Unsigned(Extend(al, 2, 0)) = c /\ Signed(Extend(al, 2, 0)) = c
    BY <1>2, WidenedByte DEF ZeroExtend
  <2> HIDE DEF a, b, c, al
  <2>2. CASE DivideByte("div", Unsigned)
    BY <1>4, <2>1, <2>2 DEF DivideByte, Handle, al
  <2>3. CASE DivideByte("idiv", Signed)
    BY <1>4, <2>1, <2>3 DEF DivideByte, Handle, al
  <2> QED BY <2>2, <2>3
<1>8. h \in Int /\ (h = 0 <=> ah = Zeros(1))
  <2>1. 0 % Radix = 0
    BY BytesAssumption
  <2>2. Signed(ah) = 0 => Unsigned(ah) = 0
    BY <1>2, <1>5, <2>1
  <2>3. Unsigned(ah) = 0 => Signed(ah) = 0
    <3>1. Unsigned(ah) = 0 => ~Negative(ah)
      <4>1. Negative(ah) <=> 2 * Unsigned(ah) >= Place[1]
        <5>1. 1 \in 1 .. 16
          OBVIOUS
        <5> HIDE DEF ah
        <5> QED BY <1>2, <5>1, NegativeMeans
      <4>2. Place[1] = Radix /\ Radix > 0 /\ Radix \in Nat
        BY Places, BytesAssumption
      <4> QED BY <4>1, <4>2
    <3> QED BY <1>2, <1>5, <3>1
  <2>4. Signed(ah) \in Int /\ Unsigned(ah) \in Int
    BY <1>2, <1>5
  <2> QED BY <1>2, <1>5, <2>2, <2>3, <2>4
<1> HIDE DEF a, b, c, h, q, r, p, s, al, ah
<1>9. a = c + Radix * h /\ (insn.op = "div" => a \in Nat)
  <2> DEFINE j == Join(al, ah, 1)
             u == Unsigned(j)
  <2>1. j \in Value(2) /\ u = c + Radix * Unsigned(ah) /\ (Negative(j) <=> Negative(ah))
    <3>1. 1 \in 1 .. 8 /\ 2 * 1 = 2 /\ Place[1] = Radix
      BY Places
    <3>2. j \in Value(2 * 1) /\ u = Unsigned(al) + Place[1] * Unsigned(ah)
      BY <1>2, <3>1, JoinIs, JoinUnsigned
    <3>3. j \in Value(2)
      BY <3>1, <3>2
    <3>4. Size(j) = 2 /\ Size(ah) = 1
      <4>1. 1 \in 1 .. 16 /\ 2 \in 1 .. 16
        OBVIOUS
      <4> HIDE DEF j
      <4> QED BY <1>2, <3>3, <4>1, SizeOf
    <3>5. j[2 - 1] = ah[1 - 1]
      BY DEF Join
    <3> HIDE DEF j, u
    <3>6. Negative(j) <=> Negative(ah)
      BY <3>4, <3>5 DEF Negative
    <3> QED BY <3>1, <3>2, <3>3, <3>6 DEF c
  <2>2. Signed(j) = IF Negative(j) THEN u - Place[2] ELSE u
    <3>1. 2 \in 1 .. 16
      OBVIOUS
    <3> HIDE DEF j
    <3> QED BY <2>1, <3>1, SignedIs DEF u
  <2>3. Place[2] = Radix * Radix
    <3>1. 2 \in 1 .. 16
      OBVIOUS
    <3>2. Place[2] = Radix * Place[2 - 1]
      BY <3>1, Places
    <3> QED BY <3>2, Places
  <2>4. a = IF insn.op = "idiv" THEN Signed(j) ELSE u
    BY <1>1, <1>3, NativeNumbers
  <2> HIDE DEF j, u
  <2>5. CASE insn.op = "div"
    <3>1. h = Unsigned(ah) /\ h \in Nat /\ c \in Nat /\ Radix \in Nat
      BY <1>2, <1>5, <2>5, BytesAssumption DEF h
    <3>2. a = u
      BY <2>4, <2>5
    <3> QED BY <2>1, <3>1, <3>2
  <2>6. CASE insn.op = "idiv"
    <3>1. h = (IF Negative(ah) THEN Unsigned(ah) - Radix ELSE Unsigned(ah))
      BY <1>2, <1>5, <2>6 DEF h
    <3>2. a = IF Negative(ah) THEN (c + Radix * Unsigned(ah)) - Radix * Radix
              ELSE c + Radix * Unsigned(ah)
      <4>1. a = Signed(j)
        BY <2>4, <2>6
      <4>2. CASE Negative(ah)
        <5>1. Signed(j) = u - Place[2]
          BY <2>1, <2>2, <4>2
        <5>2. a = u - Place[2]
          BY <4>1, <5>1
        <5>3. u - Place[2] = (c + Radix * Unsigned(ah)) - Radix * Radix
          BY <2>1, <2>3, Zenon
        <5>4. a = (c + Radix * Unsigned(ah)) - Radix * Radix
          BY <5>2, <5>3, Zenon
        <5> QED BY <4>2, <5>4
      <4>3. CASE ~Negative(ah)
        <5>1. Signed(j) = u
          BY <2>1, <2>2, <4>3
        <5> QED BY <2>1, <4>1, <4>3, <5>1, Zenon
      <4> QED BY <4>2, <4>3
    <3>3. Unsigned(ah) \in Int /\ c \in Int /\ Radix \in Int
      BY <1>2, <1>5, BytesAssumption
    <3> DEFINE v == Unsigned(ah)
               w == Radix
    <3> HIDE DEF v, w
    <3>4. v \in Int /\ w \in Int
      BY <3>3 DEF v, w
    <3>5. w * (v - w) = w * v - w * w
      BY <3>4
    <3>6. a = (IF Negative(ah) THEN (c + w * v) - w * w ELSE c + w * v)
      BY <3>2 DEF v, w
    <3>7. h = (IF Negative(ah) THEN v - w ELSE v)
      BY <3>1 DEF v, w
    <3>8. CASE Negative(ah)
      <4>1. a = (c + w * v) - w * w /\ h = v - w
        BY <3>6, <3>7, <3>8
      <4>2. a = c + w * h
        BY <3>3, <3>4, <3>5, <4>1
      <4> QED BY <2>6, <4>2 DEF w
    <3>9. CASE ~Negative(ah)
      BY <2>6, <3>6, <3>7, <3>9 DEF w
    <3> QED BY <3>8, <3>9
  <2> QED BY <1>1, <2>5, <2>6
<1>10. q = p /\ r = s <=> Alike(c, a, b)
  <2>1. /\ q = p <=> (Quotient(c, b)) % Radix = (Quotient(a, b)) % Radix
        /\ r = s <=> (Remainder(c, b)) % Radix = (Remainder(a, b)) % Radix
    <3>1. 1 \in 1 .. 16 /\ Place[1] = Radix
      BY Places
    <3>2. \A k, l \in Int : Wrap(k, 1) = Wrap(l, 1) <=> k % Radix = l % Radix
      BY <3>1, WrapsAlike
    <3> QED BY <1>3, <1>6, <3>2 DEF q, r, p, s
  <2> QED BY <2>1 DEF Alike
<1>11. Alike(c, a, b) <=> ~WrongRegisters
  <2>1. CASE insn.op = "div"
    <3>1. b \in 1 .. Radix - 1
      <4>1. b \in 0 .. Radix - 1
        BY <1>2, <1>4, <1>5, <2>1
      <4> QED BY <1>3, <4>1
    <3>2. Quotient(a, b) \in 0 .. Radix - 1
      <4>1. Unsigned(q) = Quotient(a, b)
        BY <1>1, <1>3, <2>1, NativeNumbers
      <4> QED BY <1>5, <1>6, <4>1
    <3>3. Alike(c, a, b) <=> h = 0
      BY <1>2, <1>8, <1>9, <2>1, <3>1, <3>2, UnsignedQuotients
    <3>4. WrongRegisters <=> ah # Zeros(1)
      BY <1>1, <2>1 DEF WrongRegisters, ah
    <3> QED BY <1>8, <3>3, <3>4
  <2>2. CASE insn.op = "idiv"
    <3>1. -Radix <= 2 * b /\ 2 * b < Radix
      BY <1>2, <1>4, <1>5, <2>2
    <3>2. -Radix <= 2 * Quotient(a, b) /\ 2 * Quotient(a, b) < Radix
      <4>1. Signed(q) = Quotient(a, b)
        BY <1>1, <1>3, <2>2, NativeNumbers
      <4> QED BY <1>5, <1>6, <4>1
    <3>3. Alike(c, a, b) <=> h = 0 \/ Abs(b) = 1
      BY <1>2, <1>3, <1>8, <1>9, <3>1, <3>2, SignedQuotients
    <3>4. WrongRegisters <=> ah # Zeros(1) /\ Abs(b) # 1
      BY <1>1, <1>4, <2>2 DEF WrongRegisters, ah
    <3> QED BY <1>8, <3>3, <3>4
  <2> QED BY <1>1, <2>1, <2>2
<1> DEFINE v == Low(Rax, 1)
           w == High(Rax)
           x == Low(Rax, 2)
<1>12. /\ v \in Views /\ v.size = 1 /\ w \in Views /\ w.size = 1 /\ x \in Views /\ x.size = 2
  BY <1>2, ViewsAre, PartsAre DEF Sizes
<1> HIDE DEF v, w, x
<1>13. regs' = Native!Put(Native!Put(regs, v, p), w, s)
  <2>1. /\ Mov(regs, v, p) = Native!Put(regs, v, p)
        /\ Native!Put(regs, v, p) \in [Regs -> Quad]
    <3>1. v.size # 4 /\ p \in Value(v.size)
      BY <1>6, <1>12
    <3> QED BY <1>2, <1>12, <3>1, MovIsPut
  <2> DEFINE t == Native!Put(regs, v, p)
  <2> HIDE DEF t
  <2>2. t \in [Regs -> Quad] /\ w.size # 4 /\ s \in Value(w.size)
    BY <1>6, <1>12, <2>1 DEF t
  <2>3. Mov(t, w, s) = Native!Put(t, w, s)
    BY <1>12, <2>2, MovIsPut
  <2> QED BY <1>7, <2>1, <2>3 DEF t, v, w
<1>14. /\ Native!Put(Native!Put(regs, v, p), w, s) = Native!Put(regs, x, Join(p, s, 1))
       /\ Native!Put(Native!Put(regs, v, q), w, r) = Native!Put(regs, x, Join(q, r, 1))
       /\ Join(p, s, 1) \in Value(2) /\ Join(q, r, 1) \in Value(2)
  BY <1>2, <1>6, BytesJoin DEF v, w, x
<1>15. Native!PutPair(q, r) = Native!Put(Native!Put(regs, v, q), w, r)
  BY <1>1, NativeBytes DEF Native!PutPair, Native!Half, v, w
<1>16. regs' = Native!PutPair(q, r) <=> p = q /\ s = r
  <2> DEFINE i == Join(p, s, 1)
             j == Join(q, r, 1)
  <2>1. i \in Value(x.size) /\ j \in Value(x.size)
    BY <1>12, <1>14
  <2>2. i = j <=> p = q /\ s = r
    BY <1>6, JoinInjective
  <2>3. regs' = Native!Put(regs, x, i) /\ Native!PutPair(q, r) = Native!Put(regs, x, j)
    BY <1>13, <1>14, <1>15
  <2> HIDE DEF i, j
  <2>4. Native!Put(regs, x, i) = Native!Put(regs, x, j) <=> i = j
    BY <1>2, <1>12, <2>1, PutInjective
  <2> QED BY <2>2, <2>3, <2>4
<1>17. regs' \in Native!Registers <=> ~WrongRegisters
  <2>1. Native!Registers = {Native!PutPair(q, r)}
    BY <1>3
  <2> QED BY <1>10, <1>11, <1>16, <2>1
<1> QED BY <1>17 DEF RegistersRight

(* Every step but CMPXCHG and an address of nothing leaves the registers   *)
(* the processor may leave unless WrongRegisters holds, and then it does   *)
(* not: for bytes of every radix, any registers and any instructions that  *)
(* can be encoded (amd64.cpp:33-160, misc.cpp:130-217,                     *)
(* arithmetic.cpp:205-552, 800-842, 877-920).                              *)
THEOREM RegistersFollowNative == Spec => RegistersFollow
<1>1. IInv /\ [Next]_vars =>
        [insn # Idle /\ insn.op # "cmpxchg" /\ ~Nowhere
           => (regs' \in Native!Registers <=> ~WrongRegisters)]_vars
  <2> SUFFICES ASSUME IInv, Next, insn # Idle, insn.op # "cmpxchg", ~Nowhere
               PROVE  RegistersRight
    BY DEF RegistersRight
  <2>1. CASE Move \/ MoveSigned
    BY <2>1, MoveRegisters
  <2>2. CASE Xchg
    BY <2>2, XchgRegisters
  <2>3. CASE Bswap
    BY <2>3, BswapRegisters
  <2>4. CASE Convert
    BY <2>4, CxRegisters, CxeRegisters DEF Convert
  <2>5. CASE Lea
    BY <2>5, LeaRegisters
  <2>6. CASE Xadd
    BY <2>6, XaddRegisters
  <2>7. CASE Cmpxchg
    BY <2>7 DEF Cmpxchg, Handle
  <2>8. CASE Mul \/ Imul1
    BY <2>8, MultiplyByteRegisters, MultiplyPairRegisters DEF Mul, Imul1
  <2>9. CASE Imul
    BY <2>9, ImulRegisters
  <2>10. CASE Divide
    BY <2>10, DivideByteRegisters, DividePairRegisters DEF Divide
  <2>11. CASE Fetch
    BY <2>11 DEF Fetch
  <2> QED BY <2>1, <2>2, <2>3, <2>4, <2>5, <2>6, <2>7, <2>8, <2>9, <2>10, <2>11
          DEF Next, Execute
<1> QED BY InitTypes, StepTypes, <1>1, PTL DEF Spec, RegistersFollow

(***************************************************************************)
(* Compare and exchange.                                                   *)
(***************************************************************************)

(* What was put into a register is read from it.                            *)
LEMMA ReadPut ==
  ASSUME NEW q \in [Regs -> Quad], NEW v \in Views, NEW x \in Value(v.size)
  PROVE  Read(Native!Put(q, v, x), v) = x
<1> DEFINE s == Native!Put(q, v, x)
<1>1. v.reg \in Regs /\ v.size \in Sizes /\ (v.low = 0 \/ (v.low = 1 /\ v.size = 1))
  BY ViewsAre
<1>2. \A i \in 0 .. v.size - 1 : i + v.low \in 0 .. 7 /\ (i + v.low) - v.low = i
  BY <1>1 DEF Sizes
<1>3. /\ s \in [Regs -> Quad]
      /\ \A r \in Regs, i \in 0 .. 7 :
           s[r][i] = IF r = v.reg /\ i - v.low \in 0 .. v.size - 1 THEN x[i - v.low]
                     ELSE IF r = v.reg /\ v.size = 4 /\ i > 3 THEN 0 ELSE q[r][i]
  BY PutBytes
<1> HIDE DEF s
<1>4. \A i \in 0 .. v.size - 1 : s[v.reg][i + v.low] = x[i]
  BY <1>1, <1>2, <1>3
<1>5. Read(s, v) = [i \in 0 .. v.size - 1 |-> x[i]]
  BY <1>4 DEF Read
<1> QED BY <1>5 DEF Value, s

(* RAX is compared again after it was written, and is then always equal. *)
LEMMA CmpxchgExchanges ==
  ASSUME IInv, Cmpxchg
  PROVE  /\ flag'.ZF = 1 <=> regs[Rax] = ZeroExtend(Dst, 8)
         /\ flag'.ZF = 1 => regs' \in Native!Registers
         /\ insn.dst.reg # Rax => regs'[Rax] = ZeroExtend(Dst, 8)
         /\ Read(regs', insn.dst) \in {Dst, Src}
         /\ \A r \in Regs \ {Rax, insn.dst.reg} : regs'[r] = regs[r]
<1> DEFINE lhs == ZeroExtend(Dst, 8)
           v == Low(Rax, 8)
           q == Mov(regs, v, lhs)
           equal == regs[Rax] = lhs
<1>1. insn # Idle /\ insn.op = "cmpxchg" /\ flag' = [flag EXCEPT !.ZF = Bit(equal)]
  BY DEF Cmpxchg, Handle
<1>2. /\ insn.dst \in Views /\ insn.dst.size = N /\ N \in 1 .. 8 /\ N \in 1 .. 16
      /\ Dst \in Value(N) /\ Src \in Value(N) /\ regs \in [Regs -> Quad] /\ flag \in Flags
      /\ Rax \in Regs
  BY <1>1, OperandTypes, StateTypes, BytesAssumption DEF IInv, TwoOperand
<1>3. v \in Views /\ v.reg = Rax /\ v.low = 0 /\ v.size = 8 /\ v.size \in 1 .. 8
  BY <1>2, ViewsAre, PartsAre DEF Sizes
<1>4. lhs \in Value(8) /\ lhs \in Quad
  <2>1. 8 \in 1 .. 16 /\ Value(8) = Quad
    BY DEF Value, Quad
  <2>2. lhs \in Value(8)
    BY <1>2, <2>1, ExtendType
  <2> QED BY <2>1, <2>2
<1>5. q = MovWith(regs, v, lhs)
  <2>1. 8 \in 1 .. 16
    OBVIOUS
  <2>2. ZeroExtend(lhs, 8) = lhs
    <3> HIDE DEF lhs
    <3> QED BY <1>4, <2>1, ExtendSame
  <2> QED BY <1>3, <2>2 DEF Mov
<1> HIDE DEF lhs, v
<1>6. q \in [Regs -> Quad]
  <2>1. 8 \in 1 .. 16
    OBVIOUS
  <2>2. v.reg \in Regs /\ v.low \in Int
    BY <1>2, <1>3
  <2> QED BY <1>2, <1>3, <1>4, <2>1, <2>2, MovType
<1>7. ASSUME NEW r \in Regs, NEW i \in 0 .. 7
      PROVE  q[r][i] = IF r = Rax THEN lhs[i] ELSE regs[r][i]
  <2>1. v.reg \in Regs /\ v.low \in Int
    BY <1>2, <1>3
  <2>2. MovWith(regs, v, lhs)[r][i] =
          IF r = v.reg /\ i - v.low \in 0 .. v.size - 1 THEN lhs[i - v.low] ELSE regs[r][i]
    BY <1>2, <1>3, <2>1, MovWithBytes
  <2>3. i - 0 = i /\ i \in 0 .. 8 - 1
    OBVIOUS
  <2> QED BY <1>3, <1>5, <2>2, <2>3
<1>8. q[Rax] = lhs
  <2>1. q[Rax] \in Quad /\ \A i \in 0 .. 7 : q[Rax][i] = lhs[i]
    BY <1>2, <1>6, <1>7
  <2> HIDE DEF q
  <2> QED BY <1>4, <2>1 DEF Quad
<1>9. PICK again \in {equal, TRUE} : regs' = StoreOperand(q, insn.dst, IF again THEN Src ELSE Dst)
  BY <1>8 DEF Cmpxchg, lhs, v
<1> HIDE DEF q
<1>10. flag'.ZF = 1 <=> equal
  BY <1>1, <1>2 DEF Bit, Flags
<1>11. ASSUME equal PROVE regs' \in Native!Registers
  <2>2. q = regs
    <3>1. ASSUME NEW r \in Regs, NEW i \in 0 .. 7 PROVE q[r][i] = regs[r][i]
      BY <1>7, <1>11
    <3> QED BY <1>2, <1>6, <3>1, SameBytes
  <2>3. regs' = Native!Put(regs, insn.dst, Src)
    <3>1. regs' = StoreOperand(regs, insn.dst, Src)
      BY <1>9, <1>11, <2>2
    <3> QED BY <1>2, <3>1, StoreIsPut
  <2>4. Native!Accumulator = Dst
    <3> DEFINE n == N
               d == Dst
               a == Read(regs, Low(Rax, N))
    <3>1. Native!Accumulator = a /\ a \in Value(n)
      BY <1>1, NativeBytes, OperandTypes DEF Native!Accumulator, IInv, TwoOperand
    <3>2. d \in Value(n) /\ n \in 1 .. 8
      BY <1>2
    <3>3. ASSUME NEW i \in 0 .. n - 1 PROVE a[i] = d[i]
      <4>1. i \in 0 .. 7 /\ i \in DOMAIN d /\ i + 0 = i
        BY <3>2, <3>3 DEF Value
      <4>2. a[i] = regs[Rax][i]
        <5>1. a[i] = regs[Low(Rax, n).reg][i + Low(Rax, n).low]
          <6>1. Low(Rax, n).size = n
            BY PartsAre
          <6> QED BY <3>3, <6>1 DEF Read
        <5> QED BY <4>1, <5>1, PartsAre
      <4>3. lhs[i] = d[i]
        <5>1. i \in 0 .. 8 - 1
          BY <4>1
        <5> QED BY <4>1, <5>1 DEF lhs, ZeroExtend, Extend
      <4> QED BY <1>11, <4>2, <4>3
    <3> HIDE DEF n, d, a
    <3>4. a = d
      BY <3>1, <3>2, <3>3 DEF Value
    <3> QED BY <3>1, <3>4 DEF d
  <2>5. Native!Registers = {Native!Put(regs, insn.dst, Src)}
    BY <1>1, <2>4, NativeBytes DEF Native!Registers, Native!CompareExchanged,
       Native!MoveOps, Native!ConvertOps
  <2> QED BY <2>3, <2>5
<1>12. ASSUME insn.dst.reg # Rax PROVE regs'[Rax] = lhs
  <2> DEFINE x == IF again THEN Src ELSE Dst
             s == Native!Put(q, insn.dst, x)
  <2>1. x \in Value(insn.dst.size) /\ regs' = StoreOperand(q, insn.dst, x)
    BY <1>2, <1>9
  <2> HIDE DEF x
  <2>2. regs' = s
    BY <1>2, <1>6, <2>1, StoreIsPut
  <2>3. s \in [Regs -> Quad]
    BY <1>2, <1>6, <2>1, PutBytes
  <2>4. ASSUME NEW i \in 0 .. 7 PROVE s[Rax][i] = q[Rax][i]
    BY <1>2, <1>6, <1>12, <2>1, PutBytes
  <2> HIDE DEF s
  <2>5. s[Rax] = q[Rax]
    <3>1. s[Rax] \in Quad /\ q[Rax] \in Quad
      BY <1>2, <1>6, <2>3
    <3> QED BY <2>4, <3>1 DEF Quad
  <2> QED BY <1>8, <2>2, <2>5
<1>13. regs' \in [Regs -> Quad] /\ Read(regs', insn.dst) \in {Dst, Src}
  <2> DEFINE x == IF again THEN Src ELSE Dst
             s == Native!Put(q, insn.dst, x)
  <2>1. x \in Value(insn.dst.size) /\ x \in {Dst, Src} /\ regs' = StoreOperand(q, insn.dst, x)
    BY <1>2, <1>9
  <2> HIDE DEF x
  <2>2. regs' = s
    BY <1>2, <1>6, <2>1, StoreIsPut
  <2>3. s \in [Regs -> Quad]
    BY <1>2, <1>6, <2>1, PutBytes
  <2>4. Read(s, insn.dst) = x
    BY <1>2, <1>6, <2>1, ReadPut
  <2> QED BY <2>1, <2>2, <2>3, <2>4
<1>14. ASSUME NEW r \in Regs \ {Rax, insn.dst.reg} PROVE regs'[r] = regs[r]
  <2> DEFINE x == IF again THEN Src ELSE Dst
             s == Native!Put(q, insn.dst, x)
  <2>1. x \in Value(insn.dst.size) /\ regs' = StoreOperand(q, insn.dst, x)
    BY <1>2, <1>9
  <2> HIDE DEF x
  <2>2. regs' = s
    BY <1>2, <1>6, <2>1, StoreIsPut
  <2>3. ASSUME NEW i \in 0 .. 7 PROVE s[r][i] = regs[r][i]
    <3>1. s[r][i] = q[r][i]
      BY <1>2, <1>6, <1>14, <2>1, PutBytes
    <3> QED BY <1>7, <1>14, <3>1
  <2> HIDE DEF s
  <2>4. regs'[r] \in Quad /\ regs[r] \in Quad
    BY <1>2, <1>13, <1>14
  <2> QED BY <2>2, <2>3, <2>4 DEF Quad
<1> QED BY <1>11, <1>12, <1>13, <1>14, <1>10 DEF lhs

(* CMPXCHG reports whether RAX as a whole equals the destination, and then  *)
(* exchanges as the processor; RAX ends with what the destination held in   *)
(* either case, and nothing else changes (comparison.cpp:75-95).           *)
THEOREM ExchangesWhenEqual == Spec => ExchangesIfEqual
<1>1. IInv /\ [Next]_vars =>
        [insn # Idle /\ insn.op = "cmpxchg" =>
           /\ flag'.ZF = 1 <=> regs[Rax] = ZeroExtend(Dst, 8)
           /\ flag'.ZF = 1 => regs' \in Native!Registers
           /\ insn.dst.reg # Rax => regs'[Rax] = ZeroExtend(Dst, 8)
           /\ Read(regs', insn.dst) \in {Dst, Src}
           /\ \A r \in Regs \ {Rax, insn.dst.reg} : regs'[r] = regs[r]]_vars
  <2> SUFFICES ASSUME IInv, Next, insn # Idle, insn.op = "cmpxchg"
               PROVE  Cmpxchg
    BY CmpxchgExchanges
  <2>1. CASE Fetch
    BY <2>1 DEF Fetch
  <2> QED BY <2>1 DEF Next, Execute, Move, MoveSigned, Xchg, Bswap, Convert, Cx, Cxe, Lea, Xadd,
          Mul, Imul1, MultiplyByte, MultiplyPair, Imul, ImulTo, Divide, DivideByte, DividePair,
          Handle
<1> QED BY InitTypes, StepTypes, <1>1, PTL DEF Spec, ExchangesIfEqual

(***************************************************************************)
(* Flags.                                                                  *)
(***************************************************************************)
FlagsAreRight == ~FlagsVary => (flag' \in Native!FlagsAllowed <=> FlagsRight)

(* The flags of XADD are those of the sum. *)
LEMMA XaddFlags ==
  ASSUME IInv, Xadd PROVE FlagsAreRight
<1>1. insn # Idle /\ insn.op = "xadd"
  BY DEF Xadd, Handle
<1> DEFINE a == Dst
           b == Src
           n == N
           p == Place[n]
           t == Wrap(Unsigned(a) + Unsigned(b), n)
           u == Unsigned(a)
           v == Unsigned(b)
           w == Unsigned(t)
<1>2. n \in 1 .. 16 /\ n \in 0 .. 16 /\ a \in Value(n) /\ b \in Value(n)
  BY <1>1, OperandTypes DEF IInv, TwoOperand
<1>3. flag' = FlagsOfAdd(a, b, t)
  BY DEF Xadd
<1>4. Native!FlagsAllowed =
        {[CF |-> Bit(u + v >= p), OF |-> Bit(Signed(a) + Signed(b) # Signed(t)),
          SF |-> Bit(Negative(t)), ZF |-> Bit(t = Zeros(n))]}
  BY <1>1, NativeBytes DEF Native!FlagsAllowed, Native!Outcome, Native!Sum
<1> HIDE DEF a, b, n
<1>5. p \in Nat /\ p > 0 /\ u \in 0 .. p - 1 /\ v \in 0 .. p - 1 /\ u + v \in Int
  <2>1. p \in Nat /\ p > 0
    BY <1>2, Places
  <2> HIDE DEF p
  <2>2. u \in 0 .. p - 1 /\ v \in 0 .. p - 1
    BY <1>2, UnsignedType DEF p
  <2> QED BY <2>1, <2>2
<1>6. t \in Value(n) /\ w = (u + v) % p
  BY <1>2, <1>5, WrapType, UnsignedWrap
<1>7. /\ Signed(a) = (IF Negative(a) THEN u - p ELSE u)
      /\ Signed(b) = (IF Negative(b) THEN v - p ELSE v)
      /\ Signed(t) = (IF Negative(t) THEN w - p ELSE w)
      /\ (Negative(a) <=> 2 * u >= p) /\ (Negative(b) <=> 2 * v >= p)
      /\ (Negative(t) <=> 2 * w >= p)
      /\ (w = 0 <=> t = Zeros(n))
  <2> HIDE DEF t
  <2> QED BY <1>2, <1>6, SignedIs, NegativeMeans, ZeroIs DEF u, v, w, p
<1> HIDE DEF p, t, u, v, w
<1>8. w = IF u + v >= p THEN (u + v) - p ELSE u + v
  <2>1. CASE u + v >= p
    <3> DEFINE one == 1
               r == (u + v) - p
    <3>1. r \in 0 .. p - 1 /\ one \in Int
      BY <1>5, <2>1
    <3> HIDE DEF one, r
    <3>2. (p * one + r) % p = r
      BY <1>5, <3>1, DivisionUnique
    <3>3. p * one + r = u + v
      BY <1>5 DEF one, r
    <3> QED BY <1>6, <2>1, <3>2, <3>3 DEF r
  <2>2. CASE ~(u + v >= p)
    BY <1>5, <1>6, <2>2
  <2> QED BY <2>1, <2>2
<1>9. u > w <=> u + v >= p
  BY <1>5, <1>8
<1>10. (Negative(a) # Negative(t) /\ Negative(b) # Negative(t))
         <=> Signed(a) + Signed(b) # Signed(t)
  <2> DEFINE na == 2 * u >= p
             nb == 2 * v >= p
             nt == 2 * w >= p
  <2>1. /\ (Negative(a) # Negative(t) /\ Negative(b) # Negative(t))
             <=> ((na /\ ~nt) \/ (~na /\ nt)) /\ ((nb /\ ~nt) \/ (~nb /\ nt))
    <3>1. (Negative(a) <=> na) /\ (Negative(b) <=> nb) /\ (Negative(t) <=> nt)
      BY <1>7
    <3>2. Negative(a) \in BOOLEAN /\ Negative(b) \in BOOLEAN /\ Negative(t) \in BOOLEAN
      BY DEF Negative
    <3> HIDE DEF na, nb, nt
    <3> QED BY <3>1, <3>2
  <2>2. /\ Signed(a) = (IF na THEN u - p ELSE u)
        /\ Signed(b) = (IF nb THEN v - p ELSE v)
        /\ Signed(t) = (IF nt THEN w - p ELSE w)
    BY <1>7
  <2>3. ((na /\ ~nt) \/ (~na /\ nt)) /\ ((nb /\ ~nt) \/ (~nb /\ nt))
          <=> (IF na THEN u - p ELSE u) + (IF nb THEN v - p ELSE v)
                # (IF nt THEN w - p ELSE w)
    BY <1>5, <1>8
  <2> HIDE DEF na, nb, nt
  <2> QED BY <2>1, <2>2, <2>3
<1>11. flag' = [CF |-> Bit(u + v >= p), OF |-> Bit(Signed(a) + Signed(b) # Signed(t)),
                SF |-> Bit(Negative(t)), ZF |-> Bit(t = Zeros(n))]
  <2>1. Bit(u > w) = Bit(u + v >= p) /\ Bit(w = 0) = Bit(t = Zeros(n))
    BY <1>7, <1>9 DEF Bit
  <2>2. Bit(Negative(a) # Negative(t) /\ Negative(b) # Negative(t)) =
          Bit(Signed(a) + Signed(b) # Signed(t))
    BY <1>10 DEF Bit
  <2>3. flag' = [OF |-> Bit(Negative(a) # Negative(t) /\ Negative(b) # Negative(t)),
                 CF |-> Bit(u > w), SF |-> Bit(Negative(t)), ZF |-> Bit(w = 0)]
    BY <1>3 DEF FlagsOfAdd, u, w
  <2> QED BY <2>1, <2>2, <2>3
<1> QED BY <1>1, <1>4, <1>11 DEF FlagsAreRight, FlagsRight

(* The flags of a multiplication are right if they tell what was lost.      *)
LEMMA LostFlags ==
  ASSUME IInv, insn # Idle, insn.op \in {"mul", "imul1", "imul", "imul3"},
         NEW lost \in BOOLEAN,
         flag' = [flag EXCEPT !.CF = Bit(lost), !.OF = Bit(lost)]
  PROVE  flag' \in Native!FlagsAllowed <=>
           (lost <=> Native!Product # Native!AsNumber(Wrap(Native!Product, N)))
<1> DEFINE truncated == Native!Product # Native!AsNumber(Wrap(Native!Product, N))
           l == Bit(lost)
           t == Bit(truncated)
<1>1. l \in 0 .. 1 /\ t \in 0 .. 1 /\ (l = t <=> (lost <=> truncated))
  <2>1. truncated \in BOOLEAN
    OBVIOUS
  <2> HIDE DEF truncated
  <2> QED BY <2>1 DEF Bit
<1>2. Native!FlagsAllowed = {f \in Flags : f.CF = t /\ f.OF = t}
  BY NativeBytes DEF Native!FlagsAllowed
<1>3. flag \in Flags /\ flag' = [flag EXCEPT !.CF = l, !.OF = l]
  BY StateTypes DEF IInv
<1> HIDE DEF l, t
<1>4. flag' \in Flags /\ flag'.CF = l /\ flag'.OF = l
  BY <1>1, <1>3 DEF Flags
<1> QED BY <1>1, <1>2, <1>4

(* Products of numbers of n bytes. *)
LEMMA ProductBounds ==
  ASSUME NEW n \in 1 .. 8, NEW x \in Value(n), NEW y \in Value(n)
  PROVE  /\ Unsigned(x) * Unsigned(y) \in Nat
         /\ Unsigned(x) * Unsigned(y) < Place[n] * Place[n]
         /\ Signed(x) * Signed(y) \in Int
         /\ 4 * (Signed(x) * Signed(y)) <= Place[n] * Place[n]
         /\ -(Place[n] * Place[n]) <= 4 * (Signed(x) * Signed(y))
<1> DEFINE p == Place[n]
           u == Unsigned(x)
           v == Unsigned(y)
           s == Signed(x)
           t == Signed(y)
<1>1. /\ p \in Nat /\ p > 0 /\ u \in 0 .. p - 1 /\ v \in 0 .. p - 1 /\ s \in Int /\ t \in Int
      /\ -p <= 2 * s /\ 2 * s < p /\ -p <= 2 * t /\ 2 * t < p
  <2>1. n \in 1 .. 16 /\ n \in 0 .. 16
    OBVIOUS
  <2> QED BY <2>1, Places, UnsignedType, SignedIs
<1> HIDE DEF p, u, v, s, t
<1>2. u * v \in Nat /\ u * v < p * p
  <2>1. u \in Int /\ v \in Int /\ u >= 0 /\ v >= 0 /\ u <= p - 1 /\ v <= p - 1
    BY <1>1
  <2>2. u * v >= 0 /\ u * v <= u * p
    <3>1. u * v >= 0 /\ u * (p - v) >= 0
      BY <1>1, <2>1
    <3>2. u * (p - v) = u * p - u * v
      BY <1>1, <2>1
    <3> QED BY <1>1, <2>1, <3>1, <3>2
  <2>3. u * p < p * p
    <3>1. (p - u) * p > 0
      BY <1>1, <2>1
    <3>2. (p - u) * p = p * p - u * p
      BY <1>1, <2>1
    <3> QED BY <1>1, <2>1, <3>1, <3>2
  <2> QED BY <1>1, <2>1, <2>2, <2>3
<1>3. s * t \in Int /\ 4 * (s * t) <= p * p /\ -(p * p) <= 4 * (s * t)
  <2> DEFINE a == p - 2 * s
             b == p + 2 * s
             c == p - 2 * t
             d == p + 2 * t
  <2>1. a \in Int /\ b \in Int /\ c \in Int /\ d \in Int /\ a >= 0 /\ b >= 0 /\ c >= 0 /\ d >= 0
    BY <1>1
  <2>2. /\ a * d = p * p + 2 * (p * t) - 2 * (s * p) - 4 * (s * t)
        /\ b * c = p * p - 2 * (p * t) + 2 * (s * p) - 4 * (s * t)
        /\ a * c = p * p - 2 * (p * t) - 2 * (s * p) + 4 * (s * t)
        /\ b * d = p * p + 2 * (p * t) + 2 * (s * p) + 4 * (s * t)
    BY <1>1
  <2> HIDE DEF a, b, c, d
  <2>3. a * d >= 0 /\ b * c >= 0 /\ a * c >= 0 /\ b * d >= 0
    BY <2>1
  <2> DEFINE e == s * t
             f == p * p
             g == p * t
             h == s * p
  <2>4. e \in Int /\ f \in Int /\ g \in Int /\ h \in Int
    BY <1>1
  <2> HIDE DEF e, f, g, h
  <2>5. /\ f + 2 * g - 2 * h - 4 * e >= 0 /\ f - 2 * g + 2 * h - 4 * e >= 0
        /\ f - 2 * g - 2 * h + 4 * e >= 0 /\ f + 2 * g + 2 * h + 4 * e >= 0
    BY <2>2, <2>3 DEF e, f, g, h
  <2>6. 4 * e <= f /\ 0 - f <= 4 * e /\ 0 - f = -f
    BY <2>4, <2>5
  <2> QED BY <2>4, <2>6 DEF e, f
<1> QED BY <1>2, <1>3 DEF p, u, v, s, t

(* The high half of a product without signs is zero unless it is lost. *)
LEMMA UnsignedLost ==
  ASSUME NEW n \in 1 .. 8, NEW k \in Nat, k < Place[n] * Place[n]
  PROVE  /\ k \div Place[n] \in 0 .. Place[n] - 1
         /\ Unsigned(Wrap(k \div Place[n], n)) = k \div Place[n]
         /\ k \div Place[n] # 0 <=> k # Unsigned(Wrap(k, n))
<1> DEFINE p == Place[n]
           h == k \div p
           r == k % p
<1>1. p \in Nat /\ p > 0 /\ n \in 1 .. 16
  BY Places
<1>2. h \in Int /\ r \in 0 .. p - 1 /\ k = p * h + r /\ k < p * p
  BY <1>1, Division
<1>3. Unsigned(Wrap(k, n)) = r
  BY <1>1, UnsignedWrap
<1> HIDE DEF r, h, p
<1>4. h \in 0 .. p - 1
  <2>1. h <= -1 => p * h <= -p
    BY <1>1, <1>2
  <2>2. h >= p => p * h >= p * p
    BY <1>1, <1>2
  <2>3. p * h \in Int /\ p * p \in Int
    BY <1>1, <1>2
  <2> QED BY <1>1, <1>2, <2>1, <2>2, <2>3
<1>5. Unsigned(Wrap(h, n)) = h
  BY <1>1, <1>4, Fits DEF p
<1>6. h # 0 <=> k # r
  <2>1. h = 0 => p * h = 0
    BY <1>1
  <2>2. h >= 1 => p * h >= p
    BY <1>1, <1>2
  <2>3. p * h \in Int
    BY <1>1, <1>2
  <2> QED BY <1>1, <1>2, <1>4, <2>1, <2>2, <2>3
<1> QED BY <1>3, <1>4, <1>5, <1>6 DEF h, p

(* MUL sets CF and OF if the high half is not zero. *)
LEMMA MulFlags ==
  ASSUME IInv, Mul PROVE FlagsAreRight
<1>1. insn # Idle /\ insn.op = "mul"
  BY DEF Mul, MultiplyByte, MultiplyPair, Handle
<1>2. /\ N \in Sizes /\ N \in 1 .. 8 /\ Read(regs, Low(Rax, N)) \in Value(N) /\ Src \in Value(N)
      /\ flag \in Flags
  BY <1>1, OperandTypes, StateTypes DEF IInv, TwoOperand
<1> DEFINE P == Native!Product
           p == Place[N]
           H == P \div p
<1>3. P = Unsigned(Read(regs, Low(Rax, N))) * Unsigned(Src)
  BY <1>1, ProductIs, NativeNumbers
<1>4. P \in Nat /\ P < p * p
  BY <1>2, <1>3, ProductBounds
<1>5. Native!AsNumber(Wrap(P, N)) = Unsigned(Wrap(P, N))
  BY <1>1, NativeNumbers
<1> HIDE DEF P
<1>6. H \in 0 .. p - 1 /\ Unsigned(Wrap(H, N)) = H /\ (H # 0 <=> P # Unsigned(Wrap(P, N)))
  BY <1>2, <1>4, UnsignedLost
<1>7. flag' = [flag EXCEPT !.CF = Bit(H # 0), !.OF = Bit(H # 0)]
  <2>1. CASE MultiplyPair("mul", Unsigned)
    <3>1. Overflow(Wrap(H, N))
      BY <1>3, <2>1 DEF MultiplyPair, HighPart
    <3> HIDE DEF H
    <3> QED BY <1>6, <3>1 DEF Overflow
  <2>2. CASE MultiplyByte("mul", Unsigned)
    <3> DEFINE al == Read(regs, Low(Rax, 1))
               tmp == Wrap(P, 2)
    <3>1. N = 1 /\ p = Radix
      BY <2>2, Places DEF MultiplyByte
    <3>2. Unsigned(ZeroExtend(al, 2)) = Unsigned(al)
      BY <1>2, <3>1, WidenedByte
    <3>3. Overflow(Wrap(tmp[1], 1))
      BY <1>3, <2>2, <3>1, <3>2 DEF MultiplyByte, LowPart
    <3>4. tmp[1] = H
      <4>1. tmp[1] = (P \div Place[1]) % Radix
        BY DEF Wrap
      <4>2. tmp[1] = H % p
        BY <3>1, <4>1
      <4>3. p \in Nat /\ p > 0
        BY <3>1, BytesAssumption
      <4> HIDE DEF H, p, tmp
      <4> QED BY <1>6, <4>2, <4>3
    <3> HIDE DEF H, tmp
    <3>5. Overflow(Wrap(H, N))
      BY <3>1, <3>3, <3>4
    <3> QED BY <1>6, <3>5 DEF Overflow
  <2> QED BY <2>1, <2>2 DEF Mul
<1> HIDE DEF H, p
<1>8. (H # 0) <=> P # Native!AsNumber(Wrap(P, N))
  BY <1>5, <1>6
<1> DEFINE lost == H # 0
<1>9. lost \in BOOLEAN /\ flag' = [flag EXCEPT !.CF = Bit(lost), !.OF = Bit(lost)]
  BY <1>7
<1>10. lost <=> Native!Product # Native!AsNumber(Wrap(Native!Product, N))
  BY <1>8 DEF P
<1> HIDE DEF lost
<1>11. flag' \in Native!FlagsAllowed
  BY <1>1, <1>9, <1>10, LostFlags
<1> QED BY <1>1, <1>11 DEF FlagsAreRight, FlagsRight

(* The high half of a product with signs is zero unless it is lost, but in   *)
(* two cases, and never in these.                                          *)
LEMMA SignedLost ==
  ASSUME NEW n \in 1 .. 8, NEW k \in Int, 4 * k <= Place[n] * Place[n],
         -(Place[n] * Place[n]) <= 4 * k
  PROVE  (Unsigned(Wrap(k \div Place[n], n)) # 0 <=> k # Signed(Wrap(k, n)))
           <=> ~(Negative(Wrap(k, n)) /\ k \div Place[n] \in {0, -1})
<1> DEFINE p == Place[n]
           h == k \div p
           r == k % p
           x == Wrap(k, n)
<1>1. p \in Nat /\ p > 1 /\ n \in 1 .. 16
  <2>1. Place[n] = Radix * Place[n - 1] /\ Place[n - 1] \in Nat /\ Place[n - 1] > 0
    <3>1. n \in 1 .. 16 /\ n - 1 \in 0 .. 16
      OBVIOUS
    <3> QED BY <3>1, Places
  <2> DEFINE g == Place[n - 1]
             R == Radix
  <2>2. g \in Nat /\ g > 0 /\ R \in Nat /\ R > 1 /\ p = R * g
    BY <2>1, BytesAssumption
  <2> HIDE DEF g, R, p
  <2>3. R * g >= R
    BY <2>2
  <2>4. p \in Nat
    BY <2>2
  <2> QED BY <2>2, <2>3, <2>4
<1>2. h \in Int /\ r \in 0 .. p - 1 /\ k = p * h + r
  <2>1. p > 0
    BY <1>1
  <2> HIDE DEF p
  <2> QED BY <1>1, <2>1, Division
<1>3. Unsigned(x) = r /\ x \in Value(n)
  BY <1>1, UnsignedWrap, WrapType
<1>4. Signed(x) = (IF Negative(x) THEN r - p ELSE r) /\ (Negative(x) <=> 2 * r >= p)
  <2> HIDE DEF x, r
  <2> QED BY <1>1, <1>3, SignedIs, NegativeMeans
<1>5. Unsigned(Wrap(h, n)) = h % p
  BY <1>1, <1>2, UnsignedWrap
<1>6. 4 * k <= p * p /\ 0 - (p * p) <= 4 * k
  <2>1. p * p \in Int
    BY <1>1
  <2> DEFINE f == p * p
  <2>2. -f <= 4 * k /\ f \in Int
    BY <2>1
  <2> HIDE DEF f
  <2>3. 0 - f <= 4 * k
    BY <2>2
  <2> QED BY <2>3 DEF f
<1> HIDE DEF p, h, r, x
<1>7. -p < h /\ h < p
  <2>1. h >= p => p * h >= p * p
    BY <1>1, <1>2
  <2>2. h <= -p => p * h <= -(p * p)
    <3>1. ASSUME h <= -p PROVE p * h <= -(p * p)
      <4>1. (0 - h) - p >= 0 /\ p * ((0 - h) - p) >= 0
        BY <1>1, <1>2, <3>1
      <4>2. p * ((0 - h) - p) = (0 - p * h) - p * p
        BY <1>1, <1>2
      <4>3. p * h \in Int /\ p * p \in Int
        BY <1>1, <1>2
      <4> QED BY <4>1, <4>2, <4>3
    <3> QED BY <3>1
  <2> DEFINE e == p * h
             f == p * p
  <2>3. e \in Int /\ f \in Int /\ k = e + r /\ f >= 2 * p
    BY <1>1, <1>2
  <2> HIDE DEF e, f
  <2>4. (h >= p => e >= f) /\ (h <= -p => e <= -f)
    BY <2>1, <2>2 DEF e, f
  <2>5. 4 * k <= f /\ 0 - f <= 4 * k
    BY <1>6 DEF f
  <2> QED BY <1>1, <1>2, <2>3, <2>4, <2>5
<1>8. h % p = 0 <=> h = 0
  <2>1. 0 % p = 0
    BY <1>1
  <2>2. h % p = 0 => h = 0
    <3>1. h % p = 0 => h % p = 0 % p
      BY <2>1
    <3>2. p > 0 /\ h - 0 = h
      BY <1>1, <1>2
    <3> DEFINE z == 0
    <3>3. z \in Int /\ -p < h - z /\ h - z < p
      BY <1>2, <1>7
    <3> HIDE DEF z
    <3>4. h % p = z % p => h = z
      BY <1>1, <1>2, <3>2, <3>3, SmallDifference
    <3> QED BY <2>1, <3>4 DEF z
  <2> QED BY <2>1, <2>2
<1>9. k = Signed(x) <=> (h = 0 /\ ~Negative(x)) \/ (h = -1 /\ Negative(x))
  <2>1. (h = 0 => p * h = 0) /\ (h = -1 => p * h = -p)
    BY <1>1
  <2>2. (h >= 1 => p * h >= p) /\ (h <= -2 => p * h <= -(2 * p))
    BY <1>1, <1>2
  <2> DEFINE e == p * h
  <2>3. e \in Int /\ k = e + r
    BY <1>1, <1>2
  <2> HIDE DEF e
  <2>4. /\ (h = 0 => e = 0) /\ (h = -1 => e = -p)
        /\ (h >= 1 => e >= p) /\ (h <= -2 => e <= -(2 * p))
    BY <2>1, <2>2 DEF e
  <2> QED BY <1>1, <1>2, <1>4, <1>6, <2>3, <2>4
<1>10. (h % p # 0 <=> k # Signed(x)) <=> ~(Negative(x) /\ h \in {0, -1})
  BY <1>2, <1>8, <1>9
<1> QED BY <1>5, <1>10 DEF h, p, x

(* IMUL of one operand does, too, where FlagsRight says so, and there only.  *)
LEMMA Imul1Flags ==
  ASSUME IInv, Imul1 PROVE FlagsAreRight
<1>1. insn # Idle /\ insn.op = "imul1"
  BY DEF Imul1, MultiplyByte, MultiplyPair, Handle
<1> SUFFICES ASSUME ~FlagsVary PROVE flag' \in Native!FlagsAllowed <=> FlagsRight
  BY DEF FlagsAreRight
<1> DEFINE A == Read(regs, Low(Rax, N))
           P == Native!Product
           p == Place[N]
           H == P \div p
<1>2. ~(N = 1 /\ Negative(Read(regs, Low(Rax, 1))))
  BY <1>1 DEF FlagsVary
<1>3. N \in 1 .. 8 /\ N \in 1 .. 16 /\ A \in Value(N) /\ Src \in Value(N)
  BY <1>1, OperandTypes DEF IInv, TwoOperand
<1>4. P = Signed(A) * Signed(Src)
  BY <1>1, ProductIs, NativeNumbers
<1>5. P \in Int /\ 4 * P <= p * p /\ -(p * p) <= 4 * P
  BY <1>3, <1>4, ProductBounds
<1>6. Native!AsNumber(Wrap(P, N)) = Signed(Wrap(P, N))
  BY <1>1, NativeNumbers
<1>7. Overflow(Wrap(H, N))
  <2>1. CASE MultiplyPair("imul1", Signed)
    BY <1>4, <2>1 DEF MultiplyPair, HighPart
  <2>2. CASE MultiplyByte("imul1", Signed)
    <3> DEFINE al == Read(regs, Low(Rax, 1))
               tmp == Wrap(P, 2)
    <3>1. N = 1 /\ p = Radix
      BY <2>2, Places DEF MultiplyByte
    <3>2. Signed(ZeroExtend(al, 2)) = Signed(A)
      <4>1. al \in Value(1) /\ ~Negative(al) /\ A = al
        BY <1>2, <1>3, <3>1
      <4> HIDE DEF al, A
      <4>2. Signed(ZeroExtend(al, 2)) = Unsigned(al)
        BY <4>1, WidenedByte
      <4>3. Signed(al) = Unsigned(al)
        BY <4>1, SignedIs
      <4> QED BY <4>1, <4>2, <4>3
    <3>3. Overflow(Wrap(tmp[1], 1))
      BY <1>4, <2>2, <3>2 DEF MultiplyByte, LowPart
    <3>4. Wrap(tmp[1], 1) = Wrap(H, N)
      <4> DEFINE h == H
                 r == h % p
      <4>1. tmp[1] = r
        BY <3>1, Places DEF Wrap
      <4>2. p \in Nat /\ p > 0 /\ h \in Int
        <5>1. p \in Nat /\ p > 0
          BY <3>1, BytesAssumption
        <5> HIDE DEF p, P
        <5> QED BY <1>5, <5>1, Division
      <4> HIDE DEF h, tmp
      <4>3. Unsigned(Wrap(h, 1)) = r /\ Wrap(h, 1) \in Value(1)
        BY <1>3, <3>1, <4>2, UnsignedWrap, WrapType
      <4>4. Wrap(r, 1) = Wrap(h, 1)
        <5>1. 1 \in 1 .. 16 /\ 1 \in 0 .. 16
          OBVIOUS
        <5> DEFINE w == Wrap(h, 1)
        <5>2. w \in Value(1) /\ Unsigned(w) = r
          BY <4>3
        <5> HIDE DEF w, r
        <5> QED BY <5>1, <5>2, WrapUnsigned DEF w
      <4> QED BY <3>1, <4>1, <4>4 DEF h
    <3> QED BY <3>3, <3>4
  <2> QED BY <2>1, <2>2 DEF Imul1
<1>8. FlagsRight <=> ~(Negative(Wrap(P, N)) /\ H \in {0, -1})
  BY <1>1 DEF FlagsRight
<1> HIDE DEF P, A
<1>9. (Unsigned(Wrap(H, N)) # 0 <=> P # Signed(Wrap(P, N))) <=> FlagsRight
  BY <1>3, <1>5, <1>8, SignedLost
<1> HIDE DEF H, p
<1> DEFINE lost == Unsigned(Wrap(H, N)) # 0
<1>10. lost \in BOOLEAN /\ flag' = [flag EXCEPT !.CF = Bit(lost), !.OF = Bit(lost)]
  BY <1>7 DEF Overflow
<1>11. (lost <=> P # Native!AsNumber(Wrap(P, N))) <=> FlagsRight
  BY <1>6, <1>9
<1> HIDE DEF lost
<1>12. flag' \in Native!FlagsAllowed <=>
         (lost <=> Native!Product # Native!AsNumber(Wrap(Native!Product, N)))
  BY <1>1, <1>10, LostFlags
<1> QED BY <1>11, <1>12 DEF P

(* If one factor is less than half of what n bytes hold, the high half of    *)
(* the product without signs is.                                           *)
LEMMA SmallFactor ==
  ASSUME NEW p \in Nat, p > 0, NEW u \in 0 .. p - 1, NEW v \in 0 .. p - 1,
         2 * u < p \/ 2 * v < p
  PROVE  (u * v) \div p \in 0 .. p - 1 /\ 2 * ((u * v) \div p) < p
<1> DEFINE k == u * v
           h == k \div p
<1>1. k \in Nat /\ k * 2 < p * p
  <2>1. k >= 0 /\ k \in Int
    BY DEF k
  <2>2. (2 * u < p => (2 * u) * v <= p * v /\ p * v < p * p)
    <3>1. (p - 2 * u) * v = p * v - (2 * u) * v /\ p * (p - v) = p * p - p * v
      OBVIOUS
    <3>2. 2 * u < p => (p - 2 * u) * v >= 0
      OBVIOUS
    <3>3. p * (p - v) > 0
      OBVIOUS
    <3>4. p * v \in Int /\ (2 * u) * v \in Int /\ p * p \in Int
      OBVIOUS
    <3> QED BY <3>1, <3>2, <3>3, <3>4
  <2>3. (2 * v < p => (2 * v) * u <= p * u /\ p * u < p * p)
    <3>1. (p - 2 * v) * u = p * u - (2 * v) * u /\ p * (p - u) = p * p - p * u
      OBVIOUS
    <3>2. 2 * v < p => (p - 2 * v) * u >= 0
      OBVIOUS
    <3>3. p * (p - u) > 0
      OBVIOUS
    <3>4. p * u \in Int /\ (2 * v) * u \in Int /\ p * p \in Int
      OBVIOUS
    <3> QED BY <3>1, <3>2, <3>3, <3>4
  <2>4. (2 * u) * v = k * 2 /\ (2 * v) * u = k * 2
    OBVIOUS
  <2>5. p * u \in Int /\ p * v \in Int /\ p * p \in Int
    OBVIOUS
  <2> HIDE DEF k
  <2> QED BY <2>1, <2>2, <2>3, <2>4, <2>5
<1> HIDE DEF k
<1>2. h \in Int /\ k % p \in 0 .. p - 1 /\ k = p * h + (k % p)
  BY <1>1, Division
<1> HIDE DEF h
<1>3. h >= 0
  <2>1. h <= -1 => p * h <= -p
    BY <1>2
  <2> QED BY <1>1, <1>2, <2>1
<1>4. 2 * h < p
  <2>1. 2 * h >= p => p * (2 * h) >= p * p
    BY <1>2
  <2>2. p * (2 * h) = 2 * (p * h) /\ p * h \in Int /\ p * p \in Int
    BY <1>2
  <2> QED BY <1>1, <1>2, <2>1, <2>2
<1> QED BY <1>2, <1>3, <1>4 DEF h, k

(* IMUL of two and three operands compares the signs of the halves of the  *)
(* product without signs; the high half has none.                          *)
LEMMA ImulFlags ==
  ASSUME IInv, Imul PROVE FlagsAreRight
<1>1. insn # Idle /\ insn.op \in {"imul", "imul3"}
  BY DEF Imul, ImulTo, Handle
<1> SUFFICES ASSUME ~FlagsVary PROVE flag' \in Native!FlagsAllowed <=> FlagsRight
  BY DEF FlagsAreRight
<1> DEFINE a == Native!Factors[1]
           b == Native!Factors[2]
           u == Unsigned(a)
           v == Unsigned(b)
           P == Native!Product
           p == Place[N]
           lo == Wrap(P, N)
           hi == Wrap((u * v) \div p, N)
<1>2. ~Negative(a) \/ ~Negative(b)
  BY <1>1 DEF FlagsVary
<1>3. /\ N \in 1 .. 8 /\ N \in 1 .. 16 /\ N \in 0 .. 16 /\ a \in Value(N) /\ b \in Value(N)
      /\ P = Signed(a) * Signed(b) /\ P \in Int
  BY <1>1, ImulFactors
<1>4. flag' = [flag EXCEPT !.CF = Bit(Truncates(LowPart(u, v, N), HighPart(u, v, N))),
                           !.OF = Bit(Truncates(LowPart(u, v, N), HighPart(u, v, N)))]
  <2>1. Native!Factors = IF insn.op = "imul" THEN <<Dst, Src>> ELSE <<Src, Wrap(insn.imm, N)>>
    BY <1>1, ImulFactors
  <2>2. CASE ImulTo("imul", Dst, Src)
    BY <2>1, <2>2 DEF ImulTo, Handle
  <2>3. CASE ImulTo("imul3", Src, Wrap(insn.imm, N))
    BY <2>1, <2>3 DEF ImulTo, Handle
  <2> QED BY <2>2, <2>3 DEF Imul
<1>5. Native!AsNumber(lo) = Signed(lo)
  BY <1>1, NativeNumbers
<1>6. FlagsRight <=> (P = Signed(lo) <=> ~Negative(lo))
  BY <1>1 DEF FlagsRight
<1> HIDE DEF a, b
<1>7. LowPart(u, v, N) = lo /\ HighPart(u, v, N) = hi
  <2>1. Wrap(u * v, N) = lo
    BY <1>3, UnsignedProducts
  <2> QED BY <2>1 DEF LowPart, HighPart
<1>8. p \in Nat /\ p > 0 /\ u \in 0 .. p - 1 /\ v \in 0 .. p - 1 /\ (2 * u < p \/ 2 * v < p)
  <2>1. p \in Nat /\ p > 0 /\ u \in 0 .. p - 1 /\ v \in 0 .. p - 1
    BY <1>3, Places, UnsignedType
  <2>2. (Negative(a) <=> 2 * u >= p) /\ (Negative(b) <=> 2 * v >= p)
    BY <1>3, NegativeMeans
  <2> HIDE DEF p, u, v
  <2> QED BY <1>2, <2>1, <2>2
<1> HIDE DEF u, v, P
<1>9. ~Negative(hi)
  <2> DEFINE h == (u * v) \div p
  <2>1. h \in 0 .. p - 1 /\ 2 * h < p
    <3> HIDE DEF p
    <3> QED BY <1>8, SmallFactor
  <2> HIDE DEF h
  <2>2. h \in 0 .. Place[N] - 1 /\ N \in 1 .. 16 /\ h \in Int
    BY <1>3, <1>8, <2>1
  <2>3. Wrap(h, N) \in Value(N) /\ Unsigned(Wrap(h, N)) = h
    BY <2>2, WrapType, Fits
  <2> DEFINE w == Wrap(h, N)
  <2>4. Negative(w) <=> 2 * Unsigned(w) >= Place[N]
    <3>1. w \in Value(N)
      BY <2>3
    <3> HIDE DEF w
    <3> QED BY <1>3, <3>1, NegativeMeans
  <2>5. ~Negative(w)
    <3>1. Unsigned(w) = h
      BY <2>3
    <3>2. p = Place[N]
      OBVIOUS
    <3> HIDE DEF w, p
    <3> QED BY <1>8, <2>1, <2>4, <3>1, <3>2
  <2> QED BY <2>5 DEF h
<1> HIDE DEF p, hi, lo
<1> DEFINE lost == Truncates(lo, hi)
<1>10. lost \in BOOLEAN /\ flag' = [flag EXCEPT !.CF = Bit(lost), !.OF = Bit(lost)]
  BY <1>4, <1>7 DEF Truncates
<1>11. lost <=> Negative(lo)
  <2>1. Negative(lo) \in BOOLEAN /\ Negative(hi) \in BOOLEAN
    BY DEF Negative
  <2> QED BY <1>9, <2>1 DEF Truncates
<1> HIDE DEF lost
<1>12. flag' \in Native!FlagsAllowed <=>
         (lost <=> Native!Product # Native!AsNumber(Wrap(Native!Product, N)))
  BY <1>1, <1>10, LostFlags
<1>13. flag' \in Native!FlagsAllowed <=> (lost <=> P # Signed(lo))
  BY <1>5, <1>12 DEF P, lo
<1> QED BY <1>6, <1>11, <1>13

(* Outside FlagsVary the flags are those of the processor exactly where       *)
(* FlagsRight holds: of products that were truncated, of sums, and of       *)
(* instructions that touch no flag (arithmetic.cpp:35-47, 205-401, 877-894). *)
THEOREM FlagsFollowNative == Spec => FlagsFollow
<1>1. IInv /\ [Next]_vars =>
        [insn # Idle /\ ~FlagsVary => (flag' \in Native!FlagsAllowed <=> FlagsRight)]_vars
  <2> SUFFICES ASSUME IInv, Next, insn # Idle PROVE FlagsAreRight
    BY DEF FlagsAreRight
  <2>1. CASE Fetch
    BY <2>1 DEF Fetch
  <2>2. CASE Move \/ MoveSigned \/ Xchg \/ Bswap \/ Convert \/ Lea
    <3>1. /\ flag' = flag
          /\ insn.op \notin {"mul", "imul1", "imul", "imul3", "div", "idiv", "xadd", "cmpxchg"}
      BY <2>2 DEF Move, MoveSigned, Xchg, Bswap, Convert, Cx, Cxe, Lea, Handle
    <3>2. Native!FlagsAllowed = {flag}
      BY <3>1 DEF Native!FlagsAllowed, Native!Kept
    <3> QED BY <3>1, <3>2 DEF FlagsAreRight, FlagsRight
  <2>3. CASE Divide
    <3>1. flag' \in Flags /\ insn.op \in {"div", "idiv"}
      BY <2>3 DEF Divide, DivideByte, DividePair, Handle
    <3> QED BY <3>1, NativeBytes DEF FlagsAreRight, FlagsRight, Native!FlagsAllowed
  <2>4. CASE Cmpxchg
    BY <2>4 DEF Cmpxchg, Handle, FlagsAreRight, FlagsVary
  <2>5. CASE Xadd
    BY <2>5, XaddFlags
  <2>6. CASE Mul \/ Imul1 \/ Imul
    BY <2>6, MulFlags, Imul1Flags, ImulFlags
  <2> QED BY <2>1, <2>2, <2>3, <2>4, <2>5, <2>6 DEF Next, Execute
<1> QED BY InitTypes, StepTypes, <1>1, PTL DEF Spec, FlagsFollow
=============================================================================
