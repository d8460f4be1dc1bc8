----------------------------- MODULE Arithmetic -----------------------------
(***************************************************************************)
(* Facts about integers and functions on them that the provers do not       *)
(* bring along: induction, functions defined by recursion, and division.    *)
(* They hold of all numbers; the proofs of the machines rest on them.       *)
(***************************************************************************)
EXTENDS Integers, WellFoundedInduction, TLAPS

(* Induction, for a set of numbers: a number missing from it would be       *)
(* preceded by a smaller one missing.                                      *)
LEMMA SetInduction ==
  ASSUME NEW S, 0 \in S, \A n \in Nat : n \in S => n + 1 \in S
  PROVE  Nat \subseteq S
<1> DEFINE Missing == {n \in Nat : n \notin S}
           Less == {p \in Nat \X Nat : p[1] < p[2]}
<1> SUFFICES ASSUME Missing # {} PROVE FALSE
  OBVIOUS
<1>1. IsWellFoundedOn(Less, Nat)
  BY NatLessThanWellFounded DEF OpToRel
<1>2. Missing \subseteq Nat
  OBVIOUS
<1>3. \A x, y \in Nat : x < y => <<x, y>> \in Less
  BY SMT
<1> HIDE DEF Missing, Less
<1>4. PICK x \in Missing : \A y \in Missing : ~ (<<y, x>> \in Less)
  BY <1>1, <1>2, WFMin
<1>5. x \in Nat /\ x # 0 /\ x \notin S
  BY DEF Missing
<1>6. x - 1 \in Nat /\ x - 1 < x /\ (x - 1) + 1 = x
  BY <1>5
<1>7. x - 1 \in S
  BY <1>3, <1>4, <1>5, <1>6 DEF Missing
<1> QED BY <1>5, <1>6, <1>7

(* A set of numbers has a smallest one. *)
LEMMA Smallest ==
  ASSUME NEW S \in SUBSET Nat, S # {}
  PROVE  \E k \in S : \A i \in S : k <= i
<1> DEFINE Less == {p \in Nat \X Nat : p[1] < p[2]}
<1>1. IsWellFoundedOn(Less, Nat)
  BY NatLessThanWellFounded DEF OpToRel
<1>2. \A x, y \in Nat : x < y => <<x, y>> \in Less
  BY SMT
<1> HIDE DEF Less
<1>3. S \subseteq Nat
  OBVIOUS
<1>4. PICK k \in S : \A i \in S : ~ (<<i, k>> \in Less)
  BY <1>1, <1>3, WFMin
<1>5. \A i \in S : ~ (i < k)
  BY <1>2, <1>3, <1>4
<1> QED BY <1>3, <1>5

(* If it is bounded, it has a largest one. *)
LEMMA Largest ==
  ASSUME NEW m \in Nat, NEW S \in SUBSET (0 .. m), S # {}
  PROVE  \E k \in S : \A i \in S : k >= i
<1> DEFINE T == {m - i : i \in S}
<1>1. T \in SUBSET Nat /\ T # {}
  <2>1. \A i \in S : m - i \in Nat
    OBVIOUS
  <2> QED BY <2>1
<1>2. \A i \in S : m - i \in T
  OBVIOUS
<1>3. PICK t \in T : \A u \in T : t <= u
  <2> HIDE DEF T
  <2> QED BY <1>1, Smallest
<1>4. PICK k \in S : t = m - k
  OBVIOUS
<1>5. ASSUME NEW i \in S PROVE k >= i
  <2>1. m - k <= m - i
    BY <1>2, <1>3, <1>4
  <2> QED BY <2>1
<1> QED BY <1>5

(* The same up to a bound. *)
LEMMA UpTo ==
  ASSUME NEW m \in Nat, NEW S, 0 \in S,
         \A n \in 0 .. m - 1 : n \in S => n + 1 \in S
  PROVE  0 .. m \subseteq S
<1> DEFINE T == {n \in Nat : n <= m => n \in S}
<1>1. 0 \in T
  OBVIOUS
<1>2. \A n \in Nat : n \in T => n + 1 \in T
  OBVIOUS
<1>3. Nat \subseteq T
  <2> HIDE DEF T
  <2> QED BY <1>1, <1>2, SetInduction
<1> QED BY <1>3

(* A function f on 0 .. m with values in V defined by recursion: step gives *)
(* the value at i from i and the value before.                             *)
StepFunctions(m, V) == [(1 .. m) \X V -> V]
DefinedBy(f, m, V, b, step) ==
  /\ f \in [0 .. m -> V]
  /\ f[0] = b /\ \A i \in 1 .. m : f[i] = step[<<i, f[i - 1]>>]

(* There is one. *)
LEMMA Recursion ==
  ASSUME NEW m \in Nat, NEW V, NEW b \in V, NEW step \in StepFunctions(m, V)
  PROVE  \E f : DefinedBy(f, m, V, b, step)
<1> USE DEF StepFunctions
<1> DEFINE Solves(n, f) == DefinedBy(f, n, V, b, step)
           S == {n \in 0 .. m : \E f : Solves(n, f)}
<1>1. 0 \in S
  <2>1. Solves(0, [i \in 0 .. 0 |-> b])
    BY DEF DefinedBy
  <2> HIDE DEF Solves
  <2> QED BY <2>1
<1>2. ASSUME NEW n \in 0 .. m - 1, n \in S
      PROVE  n + 1 \in S
  <2>1. PICK f : Solves(n, f)
    BY <1>2
  <2> USE DEF DefinedBy
  <2> DEFINE v == step[<<n + 1, f[n]>>]
             g == [i \in 0 .. n + 1 |-> IF i = n + 1 THEN v ELSE f[i]]
  <2>2. v \in V
    BY <2>1
  <2>3. g[n + 1] = v /\ \A i \in 0 .. n : g[i] = f[i]
    OBVIOUS
  <2>4. g \in [0 .. n + 1 -> V]
    BY <2>1, <2>2
  <2>5. ASSUME NEW i \in 1 .. n + 1
        PROVE  g[i] = step[<<i, g[i - 1]>>]
    <3> HIDE DEF g
    <3>1. CASE i = n + 1
      <4>1. i - 1 = n /\ n \in 0 .. n
        BY <3>1
      <4>2. g[i - 1] = f[n]
        BY <2>3, <4>1
      <4> QED BY <2>3, <3>1, <4>1, <4>2
    <3>2. CASE i \in 1 .. n
      <4>1. i - 1 \in 0 .. n /\ i \in 0 .. n
        BY <3>2
      <4>2. f[i] = step[<<i, f[i - 1]>>]
        BY <2>1, <3>2
      <4> QED BY <2>3, <4>1, <4>2
    <3> QED BY <3>1, <3>2
  <2>6. Solves(n + 1, g)
    <3>1. g[0] = b
      BY <2>1, <2>3
    <3> HIDE DEF g
    <3> QED BY <2>4, <2>5, <3>1
  <2>7. n + 1 \in 0 .. m
    OBVIOUS
  <2> HIDE DEF Solves
  <2> QED BY <2>6, <2>7
<1>3. 0 .. m \subseteq S
  <2> HIDE DEF S
  <2> QED BY <1>1, <1>2, UpTo
<1>4. m \in S
  BY <1>3
<1> QED BY <1>4
(* The powers of r. *)
Powers(f, m, r) == f = [i \in 0 .. m |-> IF i = 0 THEN 1 ELSE r * f[i - 1]]

LEMMA PowersExist ==
  ASSUME NEW m \in Nat, NEW r \in Nat
  PROVE  \E f : Powers(f, m, r)
<1> DEFINE step == [p \in (1 .. m) \X Nat |-> r * p[2]]
           b == 1
<1>1. b \in Nat /\ step \in StepFunctions(m, Nat)
  BY DEF StepFunctions
<1>2. \A i \in 1 .. m, v \in Nat : step[<<i, v>>] = r * v
  OBVIOUS
<1> HIDE DEF step, b
<1>3. PICK f : DefinedBy(f, m, Nat, b, step)
  BY <1>1, Recursion
<1>4. ASSUME NEW i \in 1 .. m
      PROVE  f[i] = r * f[i - 1]
  <2>1. i - 1 \in 0 .. m /\ f[i - 1] \in Nat /\ f[i] = step[<<i, f[i - 1]>>]
    BY <1>3 DEF DefinedBy
  <2> QED BY <1>2, <2>1
<1>5. Powers(f, m, r)
  BY <1>3, <1>4 DEF Powers, DefinedBy, b
<1> QED BY <1>5

LEMMA PowersFacts ==
  ASSUME NEW m \in Nat, NEW r \in Nat, r > 0, NEW f, Powers(f, m, r)
  PROVE  /\ f[0] = 1 /\ \A i \in 1 .. m : f[i] = r * f[i - 1]
         /\ \A i \in 0 .. m : f[i] \in Nat /\ f[i] > 0
<1>1. f[0] = 1 /\ \A i \in 1 .. m : f[i] = r * f[i - 1]
  BY DEF Powers
<1> DEFINE S == {i \in 0 .. m : f[i] \in Nat /\ f[i] > 0}
<1>2. 0 \in S
  BY <1>1
<1>3. ASSUME NEW i \in 0 .. m - 1, i \in S
      PROVE  i + 1 \in S
  <2>1. i + 1 \in 1 .. m /\ (i + 1) - 1 = i
    OBVIOUS
  <2>2. f[i + 1] = r * f[i]
    BY <1>1, <2>1
  <2> QED BY <1>3, <2>1, <2>2
<1>4. 0 .. m \subseteq S
  <2> HIDE DEF S
  <2> QED BY <1>2, <1>3, UpTo
<1> QED BY <1>1, <1>4

(***************************************************************************)
(* Division by a positive number.                                          *)
(***************************************************************************)
LEMMA Division ==
  ASSUME NEW n \in Nat, n > 0, NEW x \in Int
  PROVE  /\ x \div n \in Int /\ x % n \in 0 .. n - 1
         /\ x = n * (x \div n) + (x % n)
OBVIOUS

LEMMA NextMultiple ==
  ASSUME NEW n \in Nat, n > 0, NEW q \in Int, NEW p \in Int, q < p
  PROVE  n * q + n <= n * p
<1>1. p - q - 1 \in Nat
  OBVIOUS
<1>2. n * (p - q - 1) \in Nat
  BY <1>1
<1>3. n * (p - q - 1) = n * p - n * q - n
  BY <1>1
<1> QED BY <1>2, <1>3

(* Quotient and remainder are the only ones. *)
LEMMA DivisionUnique ==
  ASSUME NEW n \in Nat, n > 0, NEW q \in Int, NEW r \in 0 .. n - 1
  PROVE  (n * q + r) \div n = q /\ (n * q + r) % n = r
<1> DEFINE x == n * q + r
<1>1. x \in Int
  OBVIOUS
<1>2. x \div n \in Int /\ x % n \in 0 .. n - 1 /\ x = n * (x \div n) + (x % n)
  BY <1>1, Division
<1>3. ~ (x \div n < q)
  BY <1>2, NextMultiple
<1>4. ~ (q < x \div n)
  BY <1>2, NextMultiple
<1> QED BY <1>2, <1>3, <1>4

LEMMA PlusMultiple ==
  ASSUME NEW n \in Nat, n > 0, NEW x \in Int, NEW k \in Int
  PROVE  (x + n * k) % n = x % n /\ (x + n * k) \div n = (x \div n) + k
<1> DEFINE q == x \div n
           r == x % n
<1>1. q \in Int /\ r \in 0 .. n - 1 /\ x = n * q + r
  BY Division
<1>2. x + n * k = n * (q + k) + r
  BY <1>1
<1> HIDE DEF q, r
<1>3. (n * (q + k) + r) \div n = q + k /\ (n * (q + k) + r) % n = r
  BY <1>1, DivisionUnique
<1> QED BY <1>1, <1>2, <1>3 DEF q, r

LEMMA RemainderOfSum ==
  ASSUME NEW n \in Nat, n > 0, NEW x \in Int, NEW y \in Int
  PROVE  ((x % n) + y) % n = (x + y) % n
<1> DEFINE z == (x % n) + y
           k == x \div n
<1>1. x \div n \in Int /\ x % n \in 0 .. n - 1 /\ x = n * (x \div n) + (x % n)
  BY Division
<1>2. x + y = z + n * k
  BY <1>1
<1>3. z \in Int /\ k \in Int
  BY <1>1
<1> HIDE DEF z, k
<1>4. (z + n * k) % n = z % n
  BY <1>3, PlusMultiple
<1> QED BY <1>2, <1>4 DEF z, k

(* Dividing by a product is dividing by its factors in turn.               *)
LEMMA DivisionByProduct ==
  ASSUME NEW n \in Nat, n > 0, NEW k \in Nat, k > 0, NEW x \in Int
  PROVE  /\ n * k \in Nat /\ n * k > 0
         /\ x \div (n * k) = (x \div n) \div k
         /\ x % (n * k) = n * ((x \div n) % k) + (x % n)
<1> DEFINE q == x \div n
           r == x % n
           p == q \div k
           s == q % k
<1>1. q \in Int /\ r \in 0 .. n - 1 /\ x = n * q + r
  BY Division
<1>2. p \in Int /\ s \in 0 .. k - 1 /\ q = k * p + s
  BY <1>1, Division
<1> HIDE DEF q, r, p, s
<1>3. n * k \in Nat /\ n * k > 0
  BY SMT
<1>4. n * s + r \in 0 .. n * k - 1
  <2>1. n * s + n <= n * k
    BY <1>2, NextMultiple
  <2>2. n * s \in Nat
    BY <1>2
  <2> QED BY <1>1, <1>3, <2>1, <2>2
<1>5. x = (n * k) * p + (n * s + r)
  BY <1>1, <1>2
<1> DEFINE m == n * k
           t == n * s + r
<1>6. m \in Nat /\ m > 0 /\ t \in 0 .. m - 1 /\ x = m * p + t
  BY <1>3, <1>4, <1>5
<1> HIDE DEF m, t
<1>7. x \div m = p /\ x % m = t
  BY <1>2, <1>6, DivisionUnique
<1> QED BY <1>3, <1>7 DEF m, t, q, r, p, s
=============================================================================
