------------------------- MODULE LiftedMemoryProofs -------------------------
(***************************************************************************)
(* Proofs about LiftedMemory for cells of every radix, any registers and   *)
(* any encodable instructions: the machine keeps its types, does what       *)
(* NativeMemory does wherever Faithful holds, and changes the stack at its  *)
(* top only.  Load and store are recursive over the cells of an operand;    *)
(* what they do is proved from Arithmetic.                                 *)
(***************************************************************************)
EXTENDS LiftedMemory, Arithmetic, Sequences

(* Place gives the powers of Radix. *)
LEMMA Places ==
  /\ Place[0] = 1 /\ Place[1] = Radix /\ Place[2] = Radix * Radix
  /\ Place[3] = Radix * (Radix * Radix)
  /\ Place[4] = Radix * (Radix * (Radix * Radix))
  /\ \A i \in 1 .. 4 : Place[i] = Radix * Place[i - 1]
  /\ \A i \in 0 .. 4 : Place[i] \in Nat /\ Place[i] > 0
<1> DEFINE m == 4
<1>1. m \in Nat /\ Radix \in Nat /\ Radix > 0
  BY CellsAssumption
<1>2. Place = CHOOSE f : Powers(f, m, Radix)
  BY DEF Place, Powers
<1> HIDE DEF m
<1>3. Powers(Place, m, Radix)
  BY <1>1, <1>2, PowersExist
<1>4. /\ Place[0] = 1 /\ \A i \in 1 .. m : Place[i] = Radix * Place[i - 1]
      /\ \A i \in 0 .. m : Place[i] \in Nat /\ Place[i] > 0
  BY <1>1, <1>3, PowersFacts
<1>5. /\ Place[1] = Radix * Place[0] /\ Place[2] = Radix * Place[1]
      /\ Place[3] = Radix * Place[2] /\ Place[4] = Radix * Place[3]
  BY <1>4 DEF m
<1> QED BY <1>1, <1>4, <1>5 DEF m

(* A place above a place. *)
LEMMA PlaceProduct ==
  ASSUME NEW i \in 0 .. 4, NEW j \in 0 .. 4 - i
  PROVE  Place[i + j] = Place[i] * Place[j]
<1>1. CASE i = 0 BY <1>1, Places
<1>2. CASE i = 1 BY <1>2, Places, CellsAssumption
<1>3. CASE i = 2 BY <1>3, Places, CellsAssumption
<1>4. CASE i = 3 BY <1>4, Places, CellsAssumption
<1>5. CASE i = 4 BY <1>5, Places, CellsAssumption
<1> QED BY <1>1, <1>2, <1>3, <1>4, <1>5

(* A word has more values than the longest operand has cells. *)
LEMMA TurnLarge == Turn \in Nat /\ Turn >= 16
<1>1. Radix * Radix >= 4
  BY CellsAssumption
<1>2. Radix * (Radix * Radix) >= 8
  BY <1>1, CellsAssumption
<1>3. Radix * (Radix * (Radix * Radix)) >= 16
  BY <1>2, CellsAssumption
<1> QED BY <1>3, Places DEF Turn

(***************************************************************************)
(* What the operators on memory return.                                    *)
(***************************************************************************)
(* Addresses stay addresses. *)
LEMMA PlusType ==
  ASSUME NEW a \in Int, NEW b \in Int
  PROVE  Plus(a, b) \in Word
BY Division, TurnLarge DEF Plus, Word

(* Truncation to n cells gives a number of n cells, and a word. *)
LEMMA TruncateType ==
  ASSUME NEW x \in Int, NEW n \in 0 .. 4
  PROVE  Truncate(x, n) \in 0 .. Place[n] - 1 /\ Truncate(x, n) \in Word
<1>1. Truncate(x, n) \in 0 .. Place[n] - 1
  BY Division, Places DEF Truncate
<1>2. Place[4] = Place[n] * Place[4 - n] /\ Place[n] \in Nat /\ Place[4 - n] \in Nat
      /\ Place[4 - n] > 0
  <2>1. 4 - n \in 0 .. 4 - n /\ 4 - n \in 0 .. 4 /\ n + (4 - n) = 4
    OBVIOUS
  <2> QED BY <2>1, PlaceProduct, Places
<1>3. Place[n] <= Place[4]
  <2> DEFINE p == Place[n]
             q == Place[4 - n]
  <2>1. p \in Nat /\ q \in Nat /\ q > 0
    BY <1>2
  <2> HIDE DEF p, q
  <2>2. p * (q - 1) \in Nat /\ p * (q - 1) = p * q - p
    BY <2>1
  <2> QED BY <1>2, <2>1, <2>2 DEF p, q
<1> QED BY <1>1, <1>3, Places DEF Word, Turn

(* A word is as long as the largest size. *)
LEMMA TruncateWord ==
  ASSUME NEW x \in Word
  PROVE  Truncate(x, 4) = x
BY TurnLarge DEF Truncate, Word, Turn

(* The cells of a number are cells. *)
LEMMA DigitType ==
  ASSUME NEW x \in Int, NEW i \in 0 .. 4
  PROVE  Digit(x, i) \in Cell
<1>1. x \div Place[i] \in Int
  BY Places, Division
<1> QED BY <1>1, CellsAssumption, Division DEF Digit, Cell

(* A register written in part holds a word. *)
LEMMA PutRegisterType ==
  ASSUME NEW old \in Word, NEW x \in Int, NEW n \in Sizes
  PROVE  PutRegister(old, n, x) \in Word
<1>1. CASE n # 1
  BY <1>1, TruncateType DEF PutRegister, Sizes
<1>2. CASE n = 1
  <2> DEFINE r == Truncate(old, 1)
             q == old \div Radix
             p == Place[3]
             t == Truncate(x, 1)
  <2>1. q \in Int /\ r \in 0 .. Radix - 1 /\ old = Radix * q + r
    BY CellsAssumption, TurnLarge, Division, Places DEF Truncate, Word
  <2>2. old \in 0 .. Radix * p - 1 /\ p \in Nat
    BY Places DEF Word, Turn
  <2>3. t \in 0 .. Radix - 1
    BY CellsAssumption, Division, Places DEF Truncate
  <2> HIDE DEF r, q, p, t
  <2>4. q \in 0 .. p - 1
    <3>1. ~ (q < 0)
      <4> SUFFICES ASSUME q < 0 PROVE FALSE
        OBVIOUS
      <4>1. Radix * q + Radix <= Radix * 0
        BY <2>1, CellsAssumption, NextMultiple
      <4> QED BY <2>1, <2>2, <4>1, CellsAssumption
    <3>2. ~ (p <= q)
      <4> SUFFICES ASSUME p <= q PROVE FALSE
        OBVIOUS
      <4>1. Radix * (q - p) \in Nat /\ Radix * (q - p) = Radix * q - Radix * p
        BY <2>1, <2>2, CellsAssumption
      <4> QED BY <2>1, <2>2, <4>1, CellsAssumption
    <3> QED BY <2>1, <2>2, <3>1, <3>2
  <2>5. Radix * q + Radix <= Radix * p /\ Radix * q \in Nat
    BY <2>2, <2>4, NextMultiple, CellsAssumption
  <2>6. old - r + t = Radix * q + t
    BY <2>1, <2>3, CellsAssumption
  <2>7. old - r + t \in 0 .. Radix * p - 1
    BY <2>3, <2>5, <2>6, <2>2, CellsAssumption
  <2> QED BY <1>2, <2>7, Places DEF PutRegister, r, t, p, Word, Turn
<1> QED BY <1>1, <1>2

(* A store leaves cells in memory. *)
LEMMA StoreCellsType ==
  ASSUME NEW m \in [Word -> Cell], NEW a \in Word, NEW n \in Sizes, NEW x \in Int
  PROVE  StoreCells(m, a, n, x) \in [Word -> Cell]
<1> SUFFICES ASSUME NEW c \in Word, (c - a) % Turn < n
             PROVE  Digit(x, (c - a) % Turn) \in Cell
  BY DEF StoreCells
<1>1. (c - a) % Turn \in Nat
  BY TurnLarge, Division DEF Word
<1> QED BY <1>1, DigitType DEF Sizes

(* A load adds one cell after the other: what the recursion computes. *)
LEMMA LoadSteps ==
  ASSUME NEW m \in [Word -> Cell], NEW a \in Int
  PROVE  /\ LoadCells(m, a, 0) = 0
         /\ \A n \in 1 .. 4 :
              LoadCells(m, a, n) = LoadCells(m, a, n - 1) + m[Plus(a, n - 1)] * Place[n - 1]
<1> DEFINE Sums(f) == f = [i \in 0 .. 4 |-> IF i = 0 THEN 0
                             ELSE f[i - 1] + m[Plus(a, i - 1)] * Place[i - 1]]
           k == 4
           b == 0
           step == [p \in (1 .. k) \X Nat |-> p[2] + m[Plus(a, p[1] - 1)] * Place[p[1] - 1]]
<1>1. ASSUME NEW i \in 1 .. k
      PROVE  m[Plus(a, i - 1)] * Place[i - 1] \in Nat
  <2>1. m[Plus(a, i - 1)] \in Nat
    BY PlusType, CellsAssumption DEF Cell
  <2>2. Place[i - 1] \in Nat
    BY Places
  <2> QED BY <2>1, <2>2
<1>2. step \in StepFunctions(k, Nat)
  <2> SUFFICES ASSUME NEW p \in (1 .. k) \X Nat
        PROVE p[2] + m[Plus(a, p[1] - 1)] * Place[p[1] - 1] \in Nat
    BY DEF StepFunctions
  <2> QED BY <1>1
<1>3. \A i \in 1 .. k, v \in Nat : step[<<i, v>>] = v + m[Plus(a, i - 1)] * Place[i - 1]
  OBVIOUS
<1>4. b \in Nat /\ k \in Nat
  OBVIOUS
<1>5. \E f : DefinedBy(f, k, Nat, b, step)
  <2> HIDE DEF step, k, b
  <2> QED BY <1>2, <1>4, Recursion
<1>6. PICK f : DefinedBy(f, k, Nat, b, step)
  BY <1>5
<1>7. Sums(f)
  <2>1. ASSUME NEW i \in 1 .. k
        PROVE  f[i] = f[i - 1] + m[Plus(a, i - 1)] * Place[i - 1]
    <3> HIDE DEF step
    <3>1. i - 1 \in 0 .. k /\ f[i - 1] \in Nat /\ f[i] = step[<<i, f[i - 1]>>]
      BY <1>6 DEF DefinedBy
    <3> QED BY <1>3, <3>1
  <2> QED BY <1>6, <2>1 DEF DefinedBy
<1> DEFINE g == CHOOSE f1 : Sums(f1)
<1>8. Sums(g)
  <2> HIDE DEF Sums
  <2> QED BY <1>7
<1>9. \A n \in 0 .. 4 : LoadCells(m, a, n) = g[n]
  BY DEF LoadCells
<1> HIDE DEF g
<1>10. g[0] = 0 /\ \A i \in 1 .. 4 : g[i] = g[i - 1] + m[Plus(a, i - 1)] * Place[i - 1]
  BY <1>8
<1> QED BY <1>9, <1>10

(* A load of n cells gives a number of n cells. *)
LEMMA LoadBound ==
  ASSUME NEW m \in [Word -> Cell], NEW a \in Int, NEW n \in 0 .. 4
  PROVE  LoadCells(m, a, n) \in 0 .. Place[n] - 1
<1> DEFINE S == {i \in 0 .. 4 : LoadCells(m, a, i) \in 0 .. Place[i] - 1}
<1>1. 0 \in S
  BY LoadSteps, Places
<1>2. ASSUME NEW i \in 0 .. 4 - 1, i \in S
      PROVE  i + 1 \in S
  <2> DEFINE l == LoadCells(m, a, i)
             p == Place[i]
             c == m[Plus(a, i)]
  <2>1. i + 1 \in 1 .. 4 /\ (i + 1) - 1 = i
    OBVIOUS
  <2>2. LoadCells(m, a, i + 1) = l + c * p /\ Place[i + 1] = Radix * p
    BY <2>1, LoadSteps, Places
  <2>3. c \in 0 .. Radix - 1
    BY PlusType DEF Cell
  <2>4. p \in Nat /\ p > 0 /\ l \in 0 .. p - 1
    BY <1>2, Places
  <2> HIDE DEF l, p, c
  <2>5. p * c + p <= p * Radix /\ p * c \in Nat
    BY <2>3, <2>4, NextMultiple, CellsAssumption
  <2>6. l + c * p \in 0 .. Radix * p - 1
    BY <2>3, <2>4, <2>5, CellsAssumption
  <2> QED BY <2>1, <2>2, <2>6
<1>3. 0 .. 4 \subseteq S
  <2> HIDE DEF S
  <2> DEFINE k == 4
  <2>1. k \in Nat /\ 0 \in S /\ \A i \in 0 .. k - 1 : i \in S => i + 1 \in S
    BY <1>1, <1>2
  <2> HIDE DEF k
  <2>2. 0 .. k \subseteq S
    BY <2>1, UpTo
  <2> QED BY <2>2 DEF k
<1> QED BY <1>3

(* A load gives a word. *)
LEMMA LoadType ==
  ASSUME NEW m \in [Word -> Cell], NEW a \in Int, NEW n \in Sizes
  PROVE  LoadCells(m, a, n) \in Word /\ LoadCells(m, a, n) \in 0 .. Place[n] - 1
<1>1. n \in 0 .. 4
  BY DEF Sizes
<1> DEFINE x == LoadCells(m, a, n)
<1>2. x \in 0 .. Place[n] - 1
  BY <1>1, LoadBound
<1> HIDE DEF x
<1>3. x \in Int /\ Truncate(x, n) = x
  <2> DEFINE p == Place[n]
  <2>1. p \in Nat /\ p > 0 /\ x \in 0 .. p - 1
    BY <1>1, <1>2, Places
  <2> HIDE DEF p
  <2>2. x % p = x
    BY <2>1
  <2> QED BY <2>1, <2>2 DEF Truncate, p
<1>4. x \in Word
  BY <1>1, <1>3, TruncateType
<1> QED BY <1>2, <1>4 DEF x

(* The low cells of a word are those a narrower load gives. *)
LEMMA LoadPrefix ==
  ASSUME NEW m \in [Word -> Cell], NEW a \in Int, NEW n \in Sizes
  PROVE  Truncate(LoadCells(m, a, 4), n) = LoadCells(m, a, n)
<1> DEFINE c(i) == m[Plus(a, i)]
           l(i) == LoadCells(m, a, i)
<1>1. \A i \in 0 .. 3 : c(i) \in Nat
  BY PlusType, CellsAssumption DEF Cell
<1>2. /\ l(1) \in Int /\ l(2) \in Int /\ l(4) \in Int
      /\ l(2) = l(1) + c(1) * Place[1] /\ l(3) = l(2) + c(2) * Place[2]
      /\ l(4) = l(3) + c(3) * Place[3]
  <2>1. /\ l(2) = l(2 - 1) + c(2 - 1) * Place[2 - 1]
        /\ l(3) = l(3 - 1) + c(3 - 1) * Place[3 - 1]
        /\ l(4) = l(4 - 1) + c(4 - 1) * Place[4 - 1]
    <3>1. 2 \in 1 .. 4 /\ 3 \in 1 .. 4 /\ 4 \in 1 .. 4
      OBVIOUS
    <3> QED BY <3>1, LoadSteps
  <2>2. \A i \in {1, 2, 4} : l(i) \in Int
    BY LoadType, Places DEF Sizes
  <2> QED BY <2>1, <2>2
<1> HIDE DEF c, l
<1>3. \E k \in Int : l(4) = l(n) + Place[n] * k
  <2>1. CASE n = 4
    <3>1. l(4) = l(n) + Place[n] * 0
      BY <2>1, <1>2, Places
    <3> QED BY <3>1
  <2>2. CASE n = 2
    <3>1. l(4) = l(n) + Place[n] * (c(2) + c(3) * Radix)
      BY <2>2, <1>1, <1>2, Places, CellsAssumption
    <3> QED BY <3>1, <1>1, CellsAssumption
  <2>3. CASE n = 1
    <3>1. l(4) = l(n) + Place[n] * (c(1) + c(2) * Radix + c(3) * (Radix * Radix))
      BY <2>3, <1>1, <1>2, Places, CellsAssumption
    <3> QED BY <3>1, <1>1, CellsAssumption
  <2> QED BY <2>1, <2>2, <2>3 DEF Sizes
<1>4. PICK k \in Int : l(4) = l(n) + Place[n] * k
  BY <1>3
<1>5. l(n) \in 0 .. Place[n] - 1 /\ Place[n] \in Nat /\ Place[n] > 0
  BY LoadType, Places DEF l, Sizes
<1> DEFINE p == Place[n]
<1>6. p \in Nat /\ p > 0 /\ l(n) \in 0 .. p - 1
  BY <1>5
<1> HIDE DEF p
<1>7. (p * k + l(n)) % p = l(n)
  BY <1>6, DivisionUnique
<1>8. l(4) = p * k + l(n)
  BY <1>4, <1>6 DEF p
<1> QED BY <1>7, <1>8 DEF p, l, Truncate

(* A load sees only the cells it loads. *)
LEMMA LoadSame ==
  ASSUME NEW m \in [Word -> Cell], NEW w \in [Word -> Cell], NEW a \in Int,
         \A i \in 0 .. 3 : m[Plus(a, i)] = w[Plus(a, i)]
  PROVE  LoadCells(m, a, 4) = LoadCells(w, a, 4)
<1> DEFINE S == {i \in 0 .. 4 : LoadCells(m, a, i) = LoadCells(w, a, i)}
<1>1. 0 \in S
  BY LoadSteps
<1>2. ASSUME NEW i \in 0 .. 4 - 1, i \in S
      PROVE  i + 1 \in S
  <2>1. i + 1 \in 1 .. 4 /\ (i + 1) - 1 = i
    OBVIOUS
  <2>2. /\ LoadCells(m, a, i + 1) = LoadCells(m, a, i) + m[Plus(a, i)] * Place[i]
        /\ LoadCells(w, a, i + 1) = LoadCells(w, a, i) + w[Plus(a, i)] * Place[i]
    BY <2>1, LoadSteps
  <2> QED BY <1>2, <2>1, <2>2
<1>3. 0 .. 4 \subseteq S
  <2> HIDE DEF S
  <2> DEFINE k == 4
  <2>1. k \in Nat /\ 0 \in S /\ \A i \in 0 .. k - 1 : i \in S => i + 1 \in S
    BY <1>1, <1>2
  <2> HIDE DEF k
  <2>2. 0 .. k \subseteq S
    BY <2>1, UpTo
  <2> QED BY <2>2 DEF k
<1> QED BY <1>3

(* A store takes of a word what it stores. *)
LEMMA DigitOfTruncate ==
  ASSUME NEW x \in Word, NEW n \in 0 .. 4, NEW i \in 0 .. n - 1
  PROVE  Digit(Truncate(x, n), i) = Digit(x, i)
<1> DEFINE p == Place[i]
           k == Place[n - (i + 1)]
           q == x \div p
           y == Truncate(x, n)
<1>1. p \in Nat /\ p > 0 /\ k \in Nat /\ k > 0 /\ x \in Int
  <2>1. i \in 0 .. 4 /\ n - (i + 1) \in 0 .. 4 /\ x \in Int
    BY TurnLarge DEF Word
  <2> QED BY <2>1, Places
<1>2. Place[n] = p * (Radix * k)
  <2>1. i + 1 \in 0 .. 4 /\ n - (i + 1) \in 0 .. 4 - (i + 1) /\ (i + 1) + (n - (i + 1)) = n
    OBVIOUS
  <2>2. Place[n] = Place[i + 1] * k
    BY <2>1, PlaceProduct
  <2>3. Place[i + 1] = Radix * p
    <3>1. i + 1 \in 1 .. 4 /\ (i + 1) - 1 = i
      OBVIOUS
    <3> QED BY <3>1, Places
  <2> HIDE DEF p, k
  <2> QED BY <1>1, <2>2, <2>3, CellsAssumption
<1> HIDE DEF p, k
<1>3. Radix * k \in Nat /\ Radix * k > 0
  BY <1>1, CellsAssumption
<1>4. q \in Int /\ x % p \in 0 .. p - 1
  BY <1>1, Division
<1> DEFINE u == Radix * k
<1>5. x % (p * u) = p * (q % u) + (x % p) /\ q % u \in Int
  <2> HIDE DEF u, q
  <2>1. u \in Nat /\ u > 0
    BY <1>3 DEF u
  <2> QED BY <1>1, <1>4, <2>1, DivisionByProduct, Division DEF q
<1>6. y = p * (q % u) + (x % p)
  BY <1>2, <1>5 DEF Truncate
<1>7. y \div p = q % u
  <2> HIDE DEF q, u, y
  <2> QED BY <1>1, <1>4, <1>5, <1>6, DivisionUnique
<1>8. q % u = Radix * ((q \div Radix) % k) + (q % Radix)
  <2> HIDE DEF q
  <2> QED BY <1>1, <1>4, DivisionByProduct, CellsAssumption
<1>9. (q % u) % Radix = q % Radix
  <2> DEFINE z == (q \div Radix) % k
             r == q % Radix
  <2>1. z \in Int /\ r \in 0 .. Radix - 1
    <3> HIDE DEF q
    <3> QED BY <1>1, <1>4, Division, CellsAssumption
  <2>2. q % u = Radix * z + r
    BY <1>8
  <2> HIDE DEF z, r, q, u
  <2>3. (Radix * z + r) % Radix = r
    BY <2>1, DivisionUnique, CellsAssumption
  <2> QED BY <2>2, <2>3 DEF r
<1> QED BY <1>7, <1>9 DEF Digit, p

(* Storing a truncated word or the word itself is the same. *)
LEMMA StoreTruncated ==
  ASSUME NEW m, NEW a \in Word, NEW n \in Sizes, NEW x \in Word
  PROVE  StoreCells(m, a, n, Truncate(x, n)) = StoreCells(m, a, n, x)
<1> SUFFICES ASSUME NEW c \in Word, (c - a) % Turn < n
             PROVE  Digit(Truncate(x, n), (c - a) % Turn) = Digit(x, (c - a) % Turn)
  BY DEF StoreCells
<1>1. (c - a) % Turn \in 0 .. n - 1 /\ n \in 0 .. 4
  BY TurnLarge, Division DEF Word, Sizes
<1> QED BY <1>1, DigitOfTruncate

(***************************************************************************)
(* Machines.                                                               *)
(***************************************************************************)
(* Registers that hold words and memory that holds cells. *)
Machine == [regs : [Regs -> Word], mem : [Word -> Cell]]

(* Memory operands have addresses. *)
LEMMA EffectiveType ==
  ASSUME NEW s \in Machine, NEW n \in Sizes, NEW o \in MemoryOperands({n})
  PROVE  Effective(s, o) \in Word
<1>1. s.regs[o.base] \in Word /\ o.disp \in Int
  BY DEF Machine, MemoryOperands
<1>2. s.regs[o.base] \in Int
  BY <1>1, TurnLarge DEF Word
<1> QED BY <1>1, <1>2, PlusType DEF Effective

(* Operands have words for values. *)
LEMMA FetchedType ==
  ASSUME NEW s \in Machine, NEW n \in Sizes, NEW o \in Sources({n})
  PROVE  Fetched(s, o) \in Word
<1>1. CASE o \in RegisterOperands({n})
  <2>1. o.kind = "reg" /\ o.size = n /\ s.regs[o.reg] \in Word
    BY <1>1 DEF RegisterOperands, Machine
  <2>2. s.regs[o.reg] \in Int /\ n \in 0 .. 4
    BY <2>1, TurnLarge DEF Word, Sizes
  <2>3. Truncate(s.regs[o.reg], n) \in Word
    BY <2>2, TruncateType
  <2> QED BY <2>1, <2>3 DEF Fetched
<1>2. CASE o \in MemoryOperands({n})
  <2>1. o.kind = "mem" /\ o.size = n /\ s.mem \in [Word -> Cell]
    BY <1>2 DEF MemoryOperands, Machine
  <2>2. Effective(s, o) \in Int
    BY <1>2, EffectiveType, TurnLarge DEF Word
  <2>3. LoadCells(s.mem, Effective(s, o), n) \in Word
    BY <2>1, <2>2, LoadType
  <2> QED BY <2>1, <2>3 DEF Fetched
<1>3. CASE o \in Immediates({n})
  <2>1. o.kind = "imm" /\ o.imm \in 0 .. Place[n] - 1 /\ n \in 0 .. 4
    BY <1>3 DEF Immediates, Sizes
  <2> DEFINE p == Place[n]
  <2>2. p \in Nat /\ p > 0 /\ o.imm \in 0 .. p - 1
    BY <2>1, Places
  <2>3. o.imm % p = o.imm /\ o.imm \in Int
    <3> HIDE DEF p
    <3> QED BY <2>2
  <2>4. o.imm \in Word
    BY <2>1, <2>3, TruncateType DEF Truncate
  <2> QED BY <2>1, <2>4 DEF Fetched
<1> QED BY <1>1, <1>2, <1>3 DEF Sources, Destinations

(* Adding to a register keeps a machine one, and its memory. *)
LEMMA AddType ==
  ASSUME NEW s \in Machine, NEW r \in Regs, NEW k \in Int
  PROVE  /\ Add(s, r, k) \in Machine /\ Sub(s, r, k) \in Machine
         /\ Add(s, r, k).mem = s.mem /\ Sub(s, r, k).mem = s.mem
         /\ Add(s, r, k).regs = [s.regs EXCEPT ![r] = Plus(@, k)]
         /\ Sub(s, r, k).regs = [s.regs EXCEPT ![r] = Plus(@, -k)]
<1>1. \A j \in Int : Plus(s.regs[r], j) \in Word
  <2>1. s.regs[r] \in Word
    BY DEF Machine
  <2>2. s.regs[r] \in Int
    BY <2>1, TurnLarge DEF Word
  <2> QED BY <2>2, PlusType
<1> QED BY <1>1 DEF Add, Sub, Machine

(* STR keeps a machine one, and its registers. *)
LEMMA StrType ==
  ASSUME NEW s \in Machine, NEW a \in Word, NEW n \in Sizes, NEW x \in Word
  PROVE  /\ Str(s, a, n, x) \in Machine
         /\ Str(s, a, n, x).regs = s.regs
         /\ Str(s, a, n, x).mem = StoreCells(s.mem, a, n, x)
<1>1. StoreCells(s.mem, a, n, x) \in [Word -> Cell]
  BY StoreCellsType, TurnLarge DEF Machine, Word
<1> QED BY <1>1 DEF Str, Machine

(* store_operand keeps a machine one. *)
LEMMA StoreOperandType ==
  ASSUME NEW s \in Machine, NEW n \in Sizes, NEW o \in Destinations({n}),
         NEW x \in Word, NEW w \in Sizes
  PROVE  StoreOperand(s, o, x, w) \in Machine
<1>1. CASE o \in RegisterOperands({n})
  <2>1. o.kind = "reg" /\ o.size = n /\ o.reg \in Regs
    BY <1>1 DEF RegisterOperands
  <2>2. PutRegister(s.regs[o.reg], n, x) \in Word
    BY <2>1, PutRegisterType, TurnLarge DEF Machine, Word
  <2> QED BY <2>1, <2>2 DEF StoreOperand, Machine
<1>2. CASE o \in MemoryOperands({n})
  <2>1. o.kind = "mem"
    BY <1>2 DEF MemoryOperands
  <2> QED BY <1>2, <2>1, EffectiveType, StrType DEF StoreOperand, GetDisp
<1> QED BY <1>1, <1>2 DEF Destinations

(***************************************************************************)
(* The instruction about to be executed.                                   *)
(***************************************************************************)
(* An instruction being executed has the operands its name calls for. *)
LEMMA Shapes ==
  ASSUME TypeOK, insn # Idle
  PROVE  /\ insn.next \in Word
         /\ insn.op = "push" => \E n \in {1, 4} : insn.src \in Sources({n})
         /\ insn.op = "pop" => \E n \in {1, 4} : insn.dst \in Destinations({n})
         /\ insn.op = "mov" => \E n \in Sizes : /\ insn.dst \in Destinations({n})
                                               /\ insn.src \in Sources({n})
         /\ insn.op = "xchg" => \E n \in Sizes : /\ insn.dst \in Destinations({n})
                                                /\ insn.src \in RegisterOperands({n})
         /\ insn.op \in {"lods", "stos"} => insn.size \in Sizes
         /\ insn.op \in BitOps => /\ insn.dst \in MemoryOperands({4})
                                 /\ insn.src \in RegisterOperands({4})
         /\ insn.op \in {"jmp", "call"} => insn.src \in Sources({4})
         /\ insn.op \in {"jcxz", "jecxz"} => insn.target \in Word
         /\ insn.op = "ret" => insn.extra \in Nat
<1>1. Encodable(insn)
  BY MemoryAssumption DEF TypeOK
<1>2. /\ \A o \in Sources({1, 4}) : \E n \in {1, 4} : o \in Sources({n})
      /\ \A o \in Destinations({1, 4}) : \E n \in {1, 4} : o \in Destinations({n})
  BY DEF Sources, Destinations, RegisterOperands, MemoryOperands, Immediates
<1> QED BY <1>1, <1>2 DEF Encodable, BitOps

(* In a well-typed state the registers and the memory make a machine. *)
LEMMA NowType ==
  ASSUME TypeOK
  PROVE  Now \in Machine /\ Now.regs = regs /\ Now.mem = mem
BY DEF TypeOK, Now, Machine

(***************************************************************************)
(* Type correctness, handler by handler.                                   *)
(***************************************************************************)
(* A handler that ends in a machine keeps the types. *)
LEMMA BecomesType ==
  ASSUME NEW s \in Machine, Becomes(s)
  PROVE  regs' \in [Regs -> Word] /\ mem' \in [Word -> Cell]
BY DEF Becomes, Machine

(* Sizes are integers. *)
LEMMA SizesIn == 1 \in Sizes /\ 2 \in Sizes /\ 4 \in Sizes /\ \A n \in Sizes : n \in Int
BY DEF Sizes

(* The registers with a part of their own are registers. *)
LEMMA RegistersIn ==
  Rsp \in Regs /\ Rax \in Regs /\ Rcx \in Regs /\ Rsi \in Regs /\ Rdi \in Regs
BY CellsAssumption

(* LDD gives a word. *)
LEMMA LddType ==
  ASSUME NEW s \in Machine, NEW r \in Regs, NEW n \in Sizes
  PROVE  Ldd(s, r, n) \in Word
<1>1. s.regs[r] \in Int /\ s.mem \in [Word -> Cell]
  BY TurnLarge DEF Machine, Word
<1> QED BY <1>1, LoadType DEF Ldd

(* PUSH keeps the types. *)
LEMMA PushType ==
  ASSUME TypeOK, Push
  PROVE  TypeOK'
<1>1. insn # Idle /\ insn.op = "push" /\ insn' = Idle /\ left' = left
  BY DEF Push, Handle
<1>2. PICK n \in {1, 4} : insn.src \in Sources({n})
  BY <1>1, Shapes
<1> DEFINE x == LoadOperand(Now, insn.src)
           k == IF insn.src.size = 1 THEN 1 ELSE 4
           s == Sub(Now, Rsp, k)
<1>3. insn.src.size = n /\ n \in Sizes
  BY <1>2 DEF Sources, Destinations, RegisterOperands, MemoryOperands, Immediates, Sizes
<1>4. x \in Word /\ k \in Int
  BY <1>2, <1>3, NowType, FetchedType DEF LoadOperand
<1> HIDE DEF k
<1>5. s \in Machine
  BY <1>4, NowType, AddType, RegistersIn
<1>6. s.regs[Rsp] \in Word
  BY <1>5, RegistersIn DEF Machine
<1> HIDE DEF s, x
<1>7. Str(s, s.regs[Rsp], insn.src.size, x) \in Machine
  BY <1>3, <1>4, <1>5, <1>6, StrType
<1>8. Falls(Str(s, s.regs[Rsp], insn.src.size, x)) /\ UNCHANGED <<cf, df>>
  BY DEF Push, s, x, k
<1> QED BY <1>1, <1>7, <1>8, BecomesType, Shapes DEF Falls, TypeOK

(* POP keeps the types. *)
LEMMA PopType ==
  ASSUME TypeOK, Pop
  PROVE  TypeOK'
<1>1. insn # Idle /\ insn.op = "pop" /\ insn' = Idle /\ left' = left
  BY DEF Pop, Handle
<1>2. PICK n \in {1, 4} : insn.dst \in Destinations({n})
  BY <1>1, Shapes
<1> DEFINE tmp == Ldd(Now, Rsp, 4)
           k == IF insn.dst.size = 1 THEN 1 ELSE 4
           s == Add(Now, Rsp, k)
<1>3. tmp \in Word /\ k \in Int /\ n \in Sizes
  BY NowType, LddType, RegistersIn, SizesIn
<1> HIDE DEF k, tmp
<1>4. s \in Machine
  BY <1>3, NowType, AddType, RegistersIn
<1> HIDE DEF s
<1>5. StoreOperand(s, insn.dst, tmp, 4) \in Machine
  BY <1>2, <1>3, <1>4, StoreOperandType, SizesIn
<1>6. Falls(StoreOperand(s, insn.dst, tmp, 4)) /\ UNCHANGED <<cf, df>>
  BY DEF Pop, s, tmp, k
<1> QED BY <1>1, <1>5, <1>6, BecomesType, Shapes DEF Falls, TypeOK

(* MOV keeps the types. *)
LEMMA MovType ==
  ASSUME TypeOK, Mov
  PROVE  TypeOK'
<1>1. insn # Idle /\ insn.op = "mov" /\ insn' = Idle /\ left' = left
  BY DEF Mov, Handle
<1>2. PICK n \in Sizes : insn.dst \in Destinations({n}) /\ insn.src \in Sources({n})
  BY <1>1, Shapes
<1> DEFINE x == LoadOperand(Now, insn.src)
<1>3. x \in Word /\ insn.src.size = n
  BY <1>2, NowType, FetchedType
     DEF LoadOperand, Sources, Destinations, RegisterOperands, MemoryOperands, Immediates
<1> HIDE DEF x
<1>4. StoreOperand(Now, insn.dst, x, insn.src.size) \in Machine
  BY <1>2, <1>3, NowType, StoreOperandType
<1>5. Falls(StoreOperand(Now, insn.dst, x, insn.src.size)) /\ UNCHANGED <<cf, df>>
  BY DEF Mov, x
<1> QED BY <1>1, <1>4, <1>5, BecomesType, Shapes DEF Falls, TypeOK

(* XCHG keeps the types. *)
LEMMA XchgType ==
  ASSUME TypeOK, Xchg
  PROVE  TypeOK'
<1>1. insn # Idle /\ insn.op = "xchg" /\ insn' = Idle /\ left' = left
  BY DEF Xchg, Handle
<1>2. PICK n \in Sizes : /\ insn.dst \in Destinations({n})
                         /\ insn.src \in RegisterOperands({n})
  BY <1>1, Shapes
<1>3. insn.src \in Sources({n}) /\ insn.dst \in Sources({n}) /\ insn.src \in Destinations({n})
  BY <1>2 DEF Sources, Destinations
<1>4. insn.src.size = n /\ insn.dst.size = n
  BY <1>2 DEF Destinations, RegisterOperands, MemoryOperands
<1> DEFINE t0 == LoadOperand(Now, insn.dst)
           t1 == LoadOperand(Now, insn.src)
           s == StoreOperand(Now, insn.dst, t1, insn.src.size)
<1>5. t0 \in Word /\ t1 \in Word
  BY <1>3, NowType, FetchedType DEF LoadOperand
<1> HIDE DEF t0, t1
<1>6. s \in Machine
  BY <1>2, <1>4, <1>5, NowType, StoreOperandType
<1> HIDE DEF s
<1>7. StoreOperand(s, insn.src, t0, insn.dst.size) \in Machine
  BY <1>3, <1>4, <1>5, <1>6, StoreOperandType
<1>8. Falls(StoreOperand(s, insn.src, t0, insn.dst.size)) /\ UNCHANGED <<cf, df>>
  BY DEF Xchg, s, t0, t1
<1> QED BY <1>1, <1>7, <1>8, BecomesType, Shapes DEF Falls, TypeOK

(* LODS and STOS keep the types. *)
LEMMA StringType ==
  ASSUME TypeOK, Lods \/ Stos
  PROVE  TypeOK'
<1>1. insn # Idle /\ insn.op \in {"lods", "stos"} /\ insn' = Idle /\ left' = left
  BY DEF Lods, Stos, Handle
<1>2. insn.size \in Sizes /\ Stride \in Int
  BY <1>1, Shapes DEF Stride, Sizes, TypeOK
<1> DEFINE n == insn.size
           l == StoreOperand(Now, Register(Rax, n), Ldd(Now, Rsi, n), n)
           t == Str(Now, regs[Rdi], n, Truncate(regs[Rax], n))
<1>3. l \in Machine
  <2>1. Register(Rax, n) \in Destinations({n})
    BY RegistersIn DEF Register, Destinations, RegisterOperands
  <2> QED BY <2>1, <1>2, NowType, LddType, RegistersIn, StoreOperandType
<1>4. t \in Machine
  <2>1. regs[Rdi] \in Word /\ regs[Rax] \in Int /\ n \in 0 .. 4
    BY <1>2, RegistersIn, TurnLarge DEF TypeOK, Word, Sizes
  <2> QED BY <2>1, <1>2, NowType, TruncateType, StrType
<1>5. Add(l, Rsi, Stride) \in Machine /\ Add(t, Rdi, Stride) \in Machine
  <2> HIDE DEF l, t
  <2> QED BY <1>2, <1>3, <1>4, AddType, RegistersIn
<1>6. (Falls(Add(l, Rsi, Stride)) \/ Falls(Add(t, Rdi, Stride))) /\ UNCHANGED <<cf, df>>
  BY DEF Lods, Stos
<1> HIDE DEF l, t
<1> QED BY <1>1, <1>5, <1>6, BecomesType, Shapes DEF Falls, TypeOK

(* The bit tests keep the types. *)
LEMMA BitTestType ==
  ASSUME TypeOK, Bt \/ Btc \/ Btr \/ Bts
  PROVE  TypeOK'
<1> DEFINE i == regs[insn.src.reg] % 4
           a == GetDisp(Now, insn.dst)
           lhs == [k \in 0 .. 3 |-> mem[Plus(a, k)]]
<1>1. /\ insn # Idle /\ insn.op \in BitOps /\ insn' = Idle /\ left' = left
      /\ cf' = lhs[i] /\ UNCHANGED df /\ vip' = insn.next
      /\ \E b \in {mem[Plus(a, i)], Radix - 1 - mem[Plus(a, i)], 0, Radix - 1} :
           Becomes([Now EXCEPT !.mem[Plus(a, i)] = b])
  BY DEF Bt, Btc, Btr, Bts, BitTest, Handle, Falls, BitOps, Now
<1>2. insn.dst \in MemoryOperands({4}) /\ insn.src.reg \in Regs /\ insn.next \in Word
  BY <1>1, Shapes DEF RegisterOperands
<1>3. a \in Word
  BY <1>2, NowType, EffectiveType, SizesIn DEF GetDisp
<1>4. i \in 0 .. 3
  <2>1. regs[insn.src.reg] \in Word
    BY <1>2 DEF TypeOK
  <2> QED BY <2>1, TurnLarge DEF Word
<1> HIDE DEF i, a
<1>5. \A k \in 0 .. 3 : Plus(a, k) \in Word
  BY <1>3, PlusType, TurnLarge DEF Word
<1>6. lhs[i] \in Cell
  BY <1>4, <1>5 DEF TypeOK
<1>7. PICK b \in {mem[Plus(a, i)], Radix - 1 - mem[Plus(a, i)], 0, Radix - 1} :
        Becomes([Now EXCEPT !.mem[Plus(a, i)] = b])
  BY <1>1
<1>8. b \in Cell
  <2>1. mem[Plus(a, i)] \in Cell
    BY <1>4, <1>5 DEF TypeOK
  <2> QED BY <2>1, CellsAssumption DEF Cell
<1>9. [Now EXCEPT !.mem[Plus(a, i)] = b] \in Machine
  BY <1>8, NowType DEF Machine
<1> HIDE DEF lhs
<1> QED BY <1>1, <1>2, <1>6, <1>7, <1>9, BecomesType DEF TypeOK

(* Jumps, CALL, RET and the direction flag keep the types. *)
LEMMA ControlType ==
  ASSUME TypeOK, Cld \/ Std \/ Jmp \/ Jcxz \/ Jecxz \/ Call \/ Ret
  PROVE  TypeOK'
<1>1. insn # Idle /\ insn' = Idle /\ left' = left /\ cf' = cf /\ insn.next \in Word
  BY Shapes DEF Cld, Std, Jmp, Jcxz, Jecxz, JumpIfZero, Call, Ret, Handle
<1>2. CASE Cld \/ Std
  BY <1>1, <1>2 DEF Cld, Std, TypeOK
<1>3. CASE Jmp
  <2>1. insn.src \in Sources({4})
    BY <1>3, Shapes DEF Jmp, Handle
  <2>2. LoadOperand(Now, insn.src) \in Word
    BY <2>1, NowType, FetchedType, SizesIn DEF LoadOperand
  <2> QED BY <1>1, <1>3, <2>2 DEF Jmp, TypeOK
<1>4. CASE Jcxz \/ Jecxz
  <2>1. insn.target \in Word
    BY <1>4, Shapes DEF Jcxz, Jecxz, JumpIfZero, Handle
  <2> QED BY <1>1, <1>4, <2>1 DEF Jcxz, Jecxz, JumpIfZero, TypeOK
<1>5. CASE Call
  <2>1. insn.src \in Sources({4})
    BY <1>5, Shapes DEF Call, Handle
  <2> DEFINE s0 == Sub(Now, Rsp, 4)
             s == Str(s0, s0.regs[Rsp], 4, insn.next)
  <2>2. s0 \in Machine
    <3>1. \A k \in Int : Sub(Now, Rsp, k) \in Machine
      BY NowType, AddType, RegistersIn
    <3> QED BY <3>1
  <2>3. s0.regs[Rsp] \in Word
    BY <2>2, RegistersIn DEF Machine
  <2> HIDE DEF s0
  <2>4. s \in Machine
    BY <1>1, <2>2, <2>3, StrType, SizesIn
  <2> HIDE DEF s
  <2>5. LoadOperand(s, insn.src) \in Word
    BY <2>1, <2>4, FetchedType, SizesIn DEF LoadOperand
  <2>6. Becomes(s) /\ vip' = LoadOperand(s, insn.src) /\ UNCHANGED <<cf, df>>
    BY <1>5 DEF Call, s, s0
  <2> QED BY <1>1, <2>4, <2>5, <2>6, BecomesType DEF TypeOK
<1>6. CASE Ret
  <2>1. insn.extra \in Nat
    BY <1>6, Shapes DEF Ret, Handle
  <2>2. Ldd(Now, Rsp, 4) \in Word
    BY NowType, LddType, RegistersIn, SizesIn
  <2>3. Add(Now, Rsp, insn.extra + 4) \in Machine
    <3>1. \A k \in Int : Add(Now, Rsp, k) \in Machine
      BY NowType, AddType, RegistersIn
    <3> QED BY <2>1, <3>1
  <2> QED BY <1>1, <1>6, <2>2, <2>3, BecomesType DEF Ret, TypeOK
<1> QED BY <1>2, <1>3, <1>4, <1>5, <1>6

(* Registers hold words, memory cells and flags bits, for cells of every   *)
(* radix and whatever instructions there are: every handler stores what    *)
(* fits (misc.cpp:137-303, branch.cpp:40-45, 96-115, 276-303,              *)
(* flags.cpp:145-208).                                                     *)
THEOREM MemoryTypes == Spec => []TypeOK
<1>1. Init => TypeOK
  BY MemoryAssumption, CellsAssumption, TurnLarge DEF Init, TypeOK, Cell, Word
<1>2. TypeOK /\ [Next]_vars => TypeOK'
  <2> SUFFICES ASSUME TypeOK, [Next]_vars PROVE TypeOK'
    OBVIOUS
  <2>1. CASE Fetch
    BY <2>1, MemoryAssumption DEF Fetch, TypeOK
  <2>2. CASE Execute
    BY <2>2, PushType, PopType, MovType, XchgType, StringType, BitTestType, ControlType
       DEF Execute
  <2>3. CASE UNCHANGED vars
    BY <2>3 DEF vars, TypeOK
  <2> QED BY <2>1, <2>2, <2>3 DEF Next
<1> QED BY <1>1, <1>2, PTL DEF Spec

(***************************************************************************)
(* The processor does the same.  A processor is another machine over the   *)
(* same cells; what it calls by a name is what this machine calls by it.   *)
(***************************************************************************)
(* Both machines have the same cells. *)
LEMMA NativeCells ==
  /\ \A a, b : Native!Plus(a, b) = Plus(a, b)
  /\ \A x, n : Native!Truncate(x, n) = Truncate(x, n)
  /\ \A x, n, y : Native!PutRegister(y, n, x) = PutRegister(y, n, x)
  /\ \A m, a, n : Native!LoadCells(m, a, n) = LoadCells(m, a, n)
  /\ \A m, a, n, x : Native!StoreCells(m, a, n, x) = StoreCells(m, a, n, x)
  /\ \A r, n : Native!Register(r, n) = Register(r, n)
  /\ \A s, o : Native!Effective(s, o) = Effective(s, o)
  /\ \A s, o : Native!Fetched(s, o) = Fetched(s, o)
  /\ Native!Turn = Turn /\ Native!Idle = Idle /\ Native!BitOps = BitOps
  /\ Native!Now = Now
<1>1. Native!Turn = Turn
  BY DEF Native!Turn, Native!Place, Turn, Place
<1>2. \A a, b : Native!Plus(a, b) = Plus(a, b)
  BY <1>1 DEF Native!Plus, Plus
<1>3. \A x, n : Native!Truncate(x, n) = Truncate(x, n)
  BY DEF Native!Truncate, Native!Place, Truncate, Place
<1>4. \A x, n, y : Native!PutRegister(y, n, x) = PutRegister(y, n, x)
  BY <1>3 DEF Native!PutRegister, PutRegister
<1>5. \A m, a, n : Native!LoadCells(m, a, n) = LoadCells(m, a, n)
  BY DEF Native!LoadCells, Native!Place, Native!Plus, Native!Turn, LoadCells, Place, Plus, Turn
<1>6. \A m, a, n, x : Native!StoreCells(m, a, n, x) = StoreCells(m, a, n, x)
  BY DEF Native!StoreCells, Native!Turn, Native!Place, Native!Word, Native!Digit, StoreCells, Turn, Place, Word, Digit
<1>7. \A s, o : Native!Effective(s, o) = Effective(s, o)
  BY <1>2 DEF Native!Effective, Effective
<1>8. \A s, o : Native!Fetched(s, o) = Fetched(s, o)
  BY <1>3, <1>5, <1>7 DEF Native!Fetched, Fetched
<1>9. /\ \A r, n : Native!Register(r, n) = Register(r, n)
      /\ Native!Idle = Idle /\ Native!BitOps = BitOps /\ Native!Now = Now
  BY DEF Native!Register, Register, Native!Idle, Idle, Native!BitOps, BitOps, Native!Now, Now
<1> QED BY <1>1, <1>2, <1>3, <1>4, <1>5, <1>6, <1>7, <1>8, <1>9

(* Both write operands alike, when the width given is that of the operand. *)
LEMMA NativeStates ==
  /\ \A s, r, k : Native!Add(s, r, k) = Add(s, r, k)
  /\ \A s, o, x : Native!Put(s, o, x) = StoreOperand(s, o, x, o.size)
  /\ \A n, x : Native!Pushed(n, x)
                 = Str(Sub(Now, Rsp, n), Sub(Now, Rsp, n).regs[Rsp], n, x)
BY NativeCells DEF Native!Add, Add, Native!Put, StoreOperand, Str, GetDisp, Native!Pushed, Sub

(* What makes a step one of the processor. *)
LEMMA NativeStep ==
  ASSUME insn # Idle, insn' = Idle, Becomes(Native!After), vip' = Native!Goes,
         insn.op \notin BitOps => cf' = cf,
         insn.op \in BitOps => cf' = mem[Native!BitAt],
         insn.op \notin {"cld", "std"} => df' = df,
         insn.op = "cld" => df' = 0,
         insn.op = "std" => df' = 1
  PROVE  Native!Execute
BY NativeCells DEF Native!Execute, Becomes

(* PUSH is that of the processor, the stack pointer pushed included. *)
LEMMA PushNative ==
  ASSUME TypeOK, Push
  PROVE  Native!Execute
<1>1. insn # Idle /\ insn.op = "push" /\ insn' = Idle /\ UNCHANGED <<cf, df>>
  BY DEF Push, Handle
<1>2. PICK n \in {1, 4} : insn.src \in Sources({n})
  BY <1>1, Shapes
<1>3. insn.src.size = n /\ (IF insn.src.size = 1 THEN 1 ELSE 4) = n
  BY <1>2 DEF Sources, Destinations, RegisterOperands, MemoryOperands, Immediates
<1> DEFINE s == Str(Sub(Now, Rsp, n), Sub(Now, Rsp, n).regs[Rsp], n, Fetched(Now, insn.src))
<1>4. Becomes(s) /\ vip' = insn.next
  BY <1>3 DEF Push, Falls, LoadOperand
<1>5. Native!After = s
  BY <1>1, <1>3, NativeStates, NativeCells DEF Native!After, BitOps
<1> HIDE DEF s
<1>6. Native!Goes = insn.next
  BY <1>1 DEF Native!Goes
<1> QED BY <1>1, <1>4, <1>5, <1>6, NativeStep DEF BitOps

(* Of what is put into a register its low cells count. *)
LEMMA PutRegisterTruncates ==
  ASSUME NEW old, NEW n \in 0 .. 4, NEW x, NEW y, Truncate(x, n) = Truncate(y, n)
  PROVE  PutRegister(old, n, x) = PutRegister(old, n, y)
BY DEF PutRegister

(* POP: the low cells of the 64 bits loaded are those of a narrower load. *)
LEMMA PopNative ==
  ASSUME TypeOK, Pop, Faithful
  PROVE  Native!Execute
<1>1. insn # Idle /\ insn.op = "pop" /\ insn' = Idle /\ UNCHANGED <<cf, df>>
  BY DEF Pop, Handle
<1>2. PICK n \in {1, 4} : insn.dst \in Destinations({n})
  BY <1>1, Shapes
<1>3. insn.dst.size = n /\ (IF insn.dst.size = 1 THEN 1 ELSE 4) = n /\ n \in Sizes
  BY <1>2 DEF Destinations, RegisterOperands, MemoryOperands, Sizes
<1> DEFINE s == Add(Now, Rsp, n)
           x == LoadCells(mem, regs[Rsp], 4)
           y == LoadCells(mem, regs[Rsp], n)
<1>4. Becomes(StoreOperand(s, insn.dst, x, 4)) /\ vip' = insn.next
  BY <1>3, NowType DEF Pop, Falls, Ldd
<1>5. Native!After = StoreOperand(s, insn.dst, y, n)
  BY <1>1, <1>3, NativeStates, NativeCells DEF Native!After, Native!Popped, BitOps
<1>6. Truncate(x, n) = Truncate(y, n)
  <2>1. mem \in [Word -> Cell] /\ regs[Rsp] \in Int
    BY RegistersIn, TurnLarge DEF TypeOK, Word
  <2>2. Truncate(x, n) = y
    BY <2>1, <1>3, LoadPrefix
  <2>3. y \in 0 .. Place[n] - 1
    BY <2>1, <1>3, LoadType
  <2>4. Truncate(y, n) = y
    <3> DEFINE p == Place[n]
    <3>1. p \in Nat /\ p > 0 /\ y \in 0 .. p - 1
      BY <2>3, Places
    <3> HIDE DEF p, y
    <3>2. y % p = y
      BY <3>1
    <3> QED BY <3>2 DEF Truncate, p
  <2> QED BY <2>2, <2>4
<1>7. StoreOperand(s, insn.dst, x, 4) = StoreOperand(s, insn.dst, y, n)
  <2> HIDE DEF s, x, y
  <2>1. CASE insn.dst.kind = "reg"
    BY <1>3, <1>6, <2>1, PutRegisterTruncates DEF StoreOperand
  <2>2. CASE insn.dst.kind # "reg"
    <3>1. insn.dst.kind = "mem"
      BY <1>2, <2>2 DEF Destinations, RegisterOperands, MemoryOperands
    <3>2. n = 4
      BY <3>1, <1>1, <1>3 DEF Faithful, BitOps
    <3>3. y = x
      BY <3>2 DEF x, y
    <3> QED BY <3>2, <3>3
  <2> QED BY <2>1, <2>2
<1> HIDE DEF s, x, y
<1>8. Native!Goes = insn.next
  BY <1>1 DEF Native!Goes
<1> QED BY <1>1, <1>4, <1>5, <1>7, <1>8, NativeStep DEF BitOps

(* MOV is that of the processor. *)
LEMMA MovNative ==
  ASSUME TypeOK, Mov
  PROVE  Native!Execute
<1>1. insn # Idle /\ insn.op = "mov" /\ insn' = Idle /\ UNCHANGED <<cf, df>>
  BY DEF Mov, Handle
<1>2. PICK n \in Sizes : insn.dst \in Destinations({n}) /\ insn.src \in Sources({n})
  BY <1>1, Shapes
<1>3. insn.dst.size = n /\ insn.src.size = n
  BY <1>2 DEF Sources, Destinations, RegisterOperands, MemoryOperands, Immediates
<1> DEFINE s == StoreOperand(Now, insn.dst, Fetched(Now, insn.src), n)
<1>4. Becomes(s) /\ vip' = insn.next
  BY <1>3 DEF Mov, Falls, LoadOperand
<1>5. Native!After = s
  BY <1>1, <1>3, NativeStates, NativeCells DEF Native!After, BitOps
<1> HIDE DEF s
<1>6. Native!Goes = insn.next
  BY <1>1 DEF Native!Goes
<1> QED BY <1>1, <1>4, <1>5, <1>6, NativeStep DEF BitOps

(* The second of two writes to a part of a register is the one that is      *)
(* left.                                                                    *)
LEMMA PutRegisterTwice ==
  ASSUME NEW old \in Word, NEW n \in Sizes, NEW x \in Int, NEW y
  PROVE  PutRegister(PutRegister(old, n, x), n, y) = PutRegister(old, n, y)
<1>1. CASE n # 1
  BY <1>1 DEF PutRegister
<1>2. CASE n = 1
  <2> DEFINE r == Truncate(old, 1)
             q == old \div Radix
             t == Truncate(x, 1)
  <2>1. q \in Int /\ r \in 0 .. Radix - 1 /\ old = Radix * q + r
    BY CellsAssumption, TurnLarge, Division, Places DEF Truncate, Word
  <2>2. t \in 0 .. Radix - 1
    BY CellsAssumption, Division, Places DEF Truncate
  <2> DEFINE z == old - r + t
  <2>3. z % Radix = t /\ z - t = old - r
    <3> HIDE DEF r, q, t
    <3>1. z = Radix * q + t /\ z - t = old - r
      BY <2>1, <2>2, CellsAssumption
    <3> HIDE DEF z
    <3>2. (Radix * q + t) % Radix = t
      <4>1. Radix \in Nat /\ Radix > 0
        BY CellsAssumption
      <4> QED BY <2>1, <2>2, <4>1, DivisionUnique
    <3> QED BY <3>1, <3>2
  <2>4. Truncate(z, 1) = t
    BY <2>3, Places DEF Truncate
  <2>5. PutRegister(old, n, x) = z
    BY <1>2 DEF PutRegister
  <2> HIDE DEF z, t
  <2>6. PutRegister(z, n, y) = z - t + Truncate(y, 1)
    BY <1>2, <2>4 DEF PutRegister
  <2>7. PutRegister(old, n, y) = old - r + Truncate(y, 1)
    BY <1>2 DEF PutRegister
  <2> QED BY <2>3, <2>5, <2>6, <2>7
<1> QED BY <1>1, <1>2

(* XCHG, also of a register with itself. *)
LEMMA XchgNative ==
  ASSUME TypeOK, Xchg
  PROVE  Native!Execute
<1>1. insn # Idle /\ insn.op = "xchg" /\ insn' = Idle /\ UNCHANGED <<cf, df>>
  BY DEF Xchg, Handle
<1>2. PICK n \in Sizes : /\ insn.dst \in Destinations({n})
                         /\ insn.src \in RegisterOperands({n})
  BY <1>1, Shapes
<1>3. /\ insn.dst.size = n /\ insn.src.size = n
      /\ insn.src.kind = "reg" /\ insn.src.reg \in Regs
  BY <1>2 DEF Destinations, RegisterOperands, MemoryOperands
<1> DEFINE t0 == Fetched(Now, insn.dst)
           t1 == Fetched(Now, insn.src)
           s == StoreOperand(Now, insn.dst, t1, n)
           r == insn.src.reg
<1>4. Becomes([s EXCEPT !.regs[r] = PutRegister(s.regs[r], n, t0)]) /\ vip' = insn.next
  BY <1>3 DEF Xchg, Falls, LoadOperand, StoreOperand
<1>5. Native!After = [s EXCEPT !.regs[r] = PutRegister(regs[r], n, t0)]
  BY <1>1, <1>3, NativeStates, NativeCells DEF Native!After, Native!Exchanged, BitOps
<1>6. PutRegister(s.regs[r], n, t0) = PutRegister(regs[r], n, t0)
  <2>1. t1 \in Word /\ t1 \in Int
    BY <1>2, NowType, FetchedType, TurnLarge DEF Sources, Destinations, Word
  <2> HIDE DEF t0, t1
  <2>2. CASE insn.dst.kind = "reg" /\ insn.dst.reg = r
    <3>1. s.regs[r] = PutRegister(regs[r], n, t1) /\ regs[r] \in Word
      BY <1>3, <2>2 DEF StoreOperand, Now, TypeOK
    <3> HIDE DEF s, r
    <3>2. PutRegister(PutRegister(regs[r], n, t1), n, t0) = PutRegister(regs[r], n, t0)
      BY <2>1, <3>1, PutRegisterTwice
    <3> QED BY <3>1, <3>2
  <2>3. CASE ~(insn.dst.kind = "reg" /\ insn.dst.reg = r)
    <3>1. s.regs[r] = regs[r]
      BY <1>3, <2>3 DEF StoreOperand, Str, Now, TypeOK
    <3> QED BY <3>1
  <2> QED BY <2>2, <2>3
<1> HIDE DEF s, t0
<1>7. Native!Goes = insn.next
  BY <1>1 DEF Native!Goes
<1> QED BY <1>1, <1>4, <1>5, <1>6, <1>7, NativeStep DEF BitOps

(* LODS and STOS without a prefix, in either direction. *)
LEMMA StringNative ==
  ASSUME TypeOK, Lods \/ Stos, Faithful
  PROVE  Native!Execute
<1>1. /\ insn # Idle /\ insn.op \in {"lods", "stos"} /\ insn' = Idle
      /\ UNCHANGED <<cf, df>> /\ vip' = insn.next /\ ~insn.rep
  BY DEF Lods, Stos, Handle, Falls, Faithful, BitOps
<1>2. insn.size \in Sizes /\ Native!Step(insn.size) = Stride
  <2>1. insn.size \in Sizes /\ insn.size \in Int /\ df \in 0 .. 1
    BY <1>1, Shapes DEF Sizes, TypeOK
  <2> QED BY <2>1 DEF Native!Step, Stride
<1>3. Native!After = Native!Transferred(Now)
  BY <1>1, NativeCells DEF Native!After, BitOps
<1>4. CASE Lods
  <2> DEFINE s == StoreOperand(Now, Register(Rax, insn.size), Ldd(Now, Rsi, insn.size), insn.size)
  <2>1. Becomes(Add(s, Rsi, Stride)) /\ insn.op = "lods"
    BY <1>4 DEF Lods, Falls, Handle
  <2>2. Native!Transferred(Now) = Add(s, Rsi, Stride)
    BY <1>2, <2>1, NativeStates, NativeCells DEF Native!Transferred, Ldd, Register
  <2> HIDE DEF s
  <2>3. Becomes(Native!After) /\ Native!Goes = insn.next
    BY <1>3, <2>1, <2>2 DEF Native!Goes
  <2> QED BY <1>1, <2>3, NativeStep DEF BitOps
<1>5. CASE Stos
  <2> DEFINE s == Str(Now, regs[Rdi], insn.size, Truncate(regs[Rax], insn.size))
             t == Str(Now, regs[Rdi], insn.size, regs[Rax])
  <2>1. Becomes(Add(s, Rdi, Stride)) /\ insn.op = "stos"
    BY <1>5 DEF Stos, Falls, Handle
  <2>2. Native!Transferred(Now) = Add(t, Rdi, Stride)
    BY <1>2, <2>1, NativeStates, NativeCells, NowType DEF Native!Transferred, Str
  <2>3. s = t
    <3>1. regs[Rdi] \in Word /\ regs[Rax] \in Word
      BY RegistersIn DEF TypeOK
    <3> QED BY <1>2, <3>1, StoreTruncated, NowType DEF Str
  <2> HIDE DEF s, t
  <2>4. Becomes(Native!After) /\ Native!Goes = insn.next
    BY <1>3, <2>1, <2>2, <2>3 DEF Native!Goes
  <2> QED BY <1>1, <2>4, NativeStep DEF BitOps
<1> QED BY <1>4, <1>5

(* Bit tests whose index stays within the operand. *)
LEMMA BitTestNative ==
  ASSUME TypeOK, Bt \/ Btc \/ Btr \/ Bts, Faithful
  PROVE  Native!Execute
<1> DEFINE i == regs[insn.src.reg]
           a == Effective(Now, insn.dst)
<1>1. /\ insn # Idle /\ insn' = Idle /\ insn.op \in BitOps
      /\ vip' = insn.next /\ UNCHANGED df
  BY DEF Bt, Btc, Btr, Bts, BitTest, Handle, Falls, BitOps
<1>2. insn.src.reg \in Regs
  BY <1>1, Shapes DEF RegisterOperands
<1>3. i \in 0 .. 3
  <2>1. i \in Word /\ i < 4
    BY <1>1, <1>2 DEF TypeOK, Faithful, BitOps
  <2> QED BY <2>1, TurnLarge DEF Word
<1>4. i % 4 = i /\ ~(2 * i >= Turn)
  <2> HIDE DEF i
  <2> QED BY <1>3, TurnLarge
<1>5. Native!BitAt = Plus(a, i)
  BY <1>4, NativeCells DEF Native!BitAt, Native!Index
<1>6. cf' = mem[Plus(a, i)]
  <2>1. cf' = [k \in 0 .. 3 |-> mem[Plus(a, k)]][i]
    BY <1>4 DEF Bt, Btc, Btr, Bts, BitTest, GetDisp
  <2> HIDE DEF i, a
  <2> QED BY <2>1, <1>3
<1>7. Becomes(Native!After)
  <2>1. Native!After = Native!BitSet
    BY <1>1, NativeCells DEF Native!After, BitOps
  <2>2. CASE Bt
    BY <2>1, <2>2, <1>4, <1>5, NativeCells DEF Bt, BitTest, Handle, Falls, GetDisp, Native!BitSet
  <2>3. CASE Btc
    BY <2>1, <2>3, <1>4, <1>5, NativeCells DEF Btc, BitTest, Handle, Falls, GetDisp, Native!BitSet
  <2>4. CASE Btr
    BY <2>1, <2>4, <1>4, <1>5, NativeCells DEF Btr, BitTest, Handle, Falls, GetDisp, Native!BitSet
  <2>5. CASE Bts
    BY <2>1, <2>5, <1>4, <1>5, NativeCells DEF Bts, BitTest, Handle, Falls, GetDisp, Native!BitSet
  <2> QED BY <2>2, <2>3, <2>4, <2>5
<1>8. Native!Goes = insn.next
  BY <1>1 DEF Native!Goes, BitOps
<1> HIDE DEF i, a
<1> QED BY <1>1, <1>5, <1>6, <1>7, <1>8, NativeStep DEF BitOps

(* Jumps and the direction flag. *)
LEMMA JumpNative ==
  ASSUME TypeOK, Cld \/ Std \/ Jmp \/ Jcxz \/ Jecxz
  PROVE  Native!Execute
<1>1. /\ insn # Idle /\ insn' = Idle /\ cf' = cf /\ Becomes(Now)
      /\ insn.op \in {"cld", "std", "jmp", "jcxz", "jecxz"}
  BY NowType DEF Cld, Std, Jmp, Jcxz, Jecxz, JumpIfZero, Handle, Becomes
<1>2. Native!After = Now
  BY <1>1, NativeCells DEF Native!After, BitOps
<1>3. vip' = Native!Goes
  <2>1. CASE Cld \/ Std
    BY <2>1 DEF Cld, Std, Handle, Native!Goes
  <2>2. CASE Jmp
    BY <2>2, NativeCells DEF Jmp, Handle, Native!Goes, LoadOperand
  <2>3. \A n \in 0 .. 4 : LoadOperand(Now, Register(Rcx, n)) = Truncate(regs[Rcx], n)
    BY NowType DEF LoadOperand, Fetched, Register
  <2>4. CASE Jcxz
    <3>1. LoadOperand(Now, Register(Rcx, 1)) = Truncate(regs[Rcx], 1)
      BY <2>3
    <3> QED BY <2>4, <3>1, NativeCells DEF Jcxz, JumpIfZero, Handle, Native!Goes
  <2>5. CASE Jecxz
    <3>1. LoadOperand(Now, Register(Rcx, 2)) = Truncate(regs[Rcx], 2)
      BY <2>3
    <3> QED BY <2>5, <3>1, NativeCells DEF Jecxz, JumpIfZero, Handle, Native!Goes
  <2> QED BY <2>1, <2>2, <2>4, <2>5
<1>4. /\ insn.op \notin {"cld", "std"} => df' = df
      /\ insn.op = "cld" => df' = 0
      /\ insn.op = "std" => df' = 1
  BY DEF Cld, Std, Jmp, Jcxz, Jecxz, JumpIfZero, Handle
<1> QED BY <1>1, <1>2, <1>3, <1>4, NativeStep DEF BitOps

(* The distance from one word to another. *)
LEMMA WordDifference ==
  ASSUME NEW a \in Word, NEW b \in Word
  PROVE  (a - b) % Turn = IF a >= b THEN a - b ELSE a - b + Turn
<1> DEFINE t == Turn
<1>1. t \in Nat /\ t >= 16 /\ a \in 0 .. t - 1 /\ b \in 0 .. t - 1
  BY TurnLarge DEF Word
<1> HIDE DEF t
<1>2. (a - b) % t = IF a >= b THEN a - b ELSE a - b + t
  BY <1>1
<1> QED BY <1>2 DEF t

(* Four cells that are apart from four others. *)
LEMMA Apart ==
  ASSUME NEW a \in Word, NEW b \in Word, ~Overlap(a, b), NEW i \in 0 .. 3
  PROVE  (Plus(a, i) - b) % Turn >= 4
<1> DEFINE t == Turn
           c == (a + i) % t
<1>1. t \in Nat /\ t >= 16 /\ a \in 0 .. t - 1 /\ b \in 0 .. t - 1
  BY TurnLarge DEF Word
<1>2. ~((a - b) % t < 4) /\ ~((b - a) % t < 4)
  BY DEF Overlap
<1> HIDE DEF t
<1>3. c = IF a + i < t THEN a + i ELSE a + i - t
  BY <1>1
<1>4. (a - b) % t = (IF a >= b THEN a - b ELSE a - b + t)
      /\ (b - a) % t = (IF b >= a THEN b - a ELSE b - a + t)
  BY <1>1
<1> HIDE DEF c
<1>5. (c - b) % t = IF c >= b THEN c - b ELSE c - b + t
  BY <1>1, <1>3
<1>6. (c - b) % t >= 4
  BY <1>1, <1>2, <1>3, <1>4, <1>5
<1> QED BY <1>6 DEF c, t, Plus

(* CALL, if pushing the return address leaves the target as it was. *)
LEMMA CallNative ==
  ASSUME TypeOK, Call, Faithful
  PROVE  Native!Execute
<1>1. /\ insn # Idle /\ insn.op = "call" /\ insn' = Idle /\ UNCHANGED <<cf, df>>
      /\ TargetKept
  BY DEF Call, Handle, Faithful, BitOps
<1>2. insn.src \in Sources({4}) /\ insn.next \in Word
  BY <1>1, Shapes
<1> DEFINE k == 4
           s0 == Sub(Now, Rsp, k)
           s == Str(s0, s0.regs[Rsp], k, insn.next)
           o == insn.src
           b == Plus(regs[Rsp], -k)
<1>3. Becomes(s) /\ vip' = Fetched(s, o)
  BY DEF Call, LoadOperand
<1>4. Native!After = s
  BY <1>1, NativeStates, NativeCells DEF Native!After, BitOps
<1>5. Native!Goes = Fetched(Now, o)
  BY <1>1, NativeCells DEF Native!Goes
<1>6. Fetched(s, o) = Fetched(Now, o)
  <2>1. k \in Int /\ -k \in Int /\ k \in Sizes
    BY SizesIn
  <2> HIDE DEF k
  <2>2. s0 \in Machine /\ s0.mem = mem /\ s0.regs = [regs EXCEPT ![Rsp] = b]
    <3>1. \A j \in Int : Sub(Now, Rsp, j) \in Machine
      BY NowType, AddType, RegistersIn
    <3>2. s0.mem = mem /\ s0.regs = [regs EXCEPT ![Rsp] = b]
      BY DEF s0, b, Sub, Add, Now
    <3> QED BY <2>1, <3>1, <3>2
  <2>3. b \in Word /\ s0.regs[Rsp] = b
    <3>1. regs \in [Regs -> Word] /\ Rsp \in Regs
      BY RegistersIn DEF TypeOK
    <3>2. regs[Rsp] \in Int
      BY <3>1, TurnLarge DEF Word
    <3>3. b \in Word
      BY <2>1, <3>2, PlusType
    <3> HIDE DEF s0, b
    <3> QED BY <2>2, <3>1, <3>3
  <2> HIDE DEF s0
  <2>4. /\ s.regs = [regs EXCEPT ![Rsp] = b] /\ s.mem = StoreCells(mem, b, k, insn.next)
        /\ s \in Machine
    BY <1>2, <2>1, <2>2, <2>3, StrType
  <2>5. CASE o \in Immediates({4})
    BY <2>5 DEF Immediates, Fetched
  <2>6. CASE o \in RegisterOperands({4})
    <3>1. o.kind = "reg" /\ o.reg # Rsp /\ o.reg \in Regs
      BY <1>1, <2>6 DEF RegisterOperands, TargetKept
    <3> HIDE DEF s, b
    <3>2. s.regs[o.reg] = regs[o.reg]
      BY <3>1, <2>4 DEF TypeOK
    <3> QED BY <3>1, <3>2, NowType DEF Fetched
  <2>7. CASE o \in MemoryOperands({4})
    <3> DEFINE a == Effective(Now, o)
    <3>1. /\ o.kind = "mem" /\ o.base # Rsp /\ o.base \in Regs /\ o.size = 4
          /\ ~Overlap(a, b)
      BY <1>1, <2>7 DEF MemoryOperands, TargetKept, GetDisp, k
    <3>2. a \in Word /\ a \in Int
      BY <2>7, NowType, EffectiveType, SizesIn, TurnLarge DEF Word
    <3>3. s.regs[o.base] = regs[o.base]
      <4> HIDE DEF s, b
      <4> QED BY <3>1, <2>4 DEF TypeOK
    <3>4. Effective(s, o) = a
      BY <3>3, NowType DEF Effective
    <3> HIDE DEF a, b, s
    <3>5. ASSUME NEW i \in 0 .. 3
          PROVE  s.mem[Plus(a, i)] = mem[Plus(a, i)]
      <4>1. (Plus(a, i) - b) % Turn >= 4 /\ Plus(a, i) \in Word
        BY <2>3, <3>1, <3>2, Apart, PlusType
      <4>2. (Plus(a, i) - b) % Turn \in Int
        BY <2>3, <4>1, TurnLarge, Division DEF Word
      <4>3. ~((Plus(a, i) - b) % Turn < k)
        BY <4>1, <4>2 DEF k
      <4> QED BY <4>1, <4>3, <2>4 DEF StoreCells
    <3>6. LoadCells(s.mem, a, 4) = LoadCells(mem, a, 4)
      <4>1. s.mem \in [Word -> Cell] /\ mem \in [Word -> Cell]
        BY <2>4 DEF Machine, TypeOK
      <4> QED BY <4>1, <3>2, <3>5, LoadSame
    <3> QED BY <3>1, <3>4, <3>6, NowType DEF Fetched, a
  <2> QED BY <1>2, <2>5, <2>6, <2>7 DEF Sources, Destinations
<1> HIDE DEF s
<1> QED BY <1>1, <1>3, <1>4, <1>5, <1>6, NativeStep DEF BitOps

(* RET is that of the processor. *)
LEMMA RetNative ==
  ASSUME TypeOK, Ret
  PROVE  Native!Execute
<1>1. insn # Idle /\ insn.op = "ret" /\ insn' = Idle /\ UNCHANGED <<cf, df>>
  BY DEF Ret, Handle
<1>2. insn.extra \in Nat
  BY <1>1, Shapes
<1>3. Native!After = Add(Now, Rsp, 4 + insn.extra)
  BY <1>1, NativeStates, NativeCells DEF Native!After, BitOps
<1>4. 4 + insn.extra = insn.extra + 4
  BY <1>2
<1>5. Becomes(Native!After)
  BY <1>3, <1>4 DEF Ret
<1>6. vip' = Native!Goes
  BY <1>1, NativeCells, NowType DEF Ret, Ldd, Native!Goes
<1> QED BY <1>1, <1>5, <1>6, NativeStep DEF BitOps

(***************************************************************************)
(* Where they part.                                                        *)
(***************************************************************************)
(* The cells of a word loaded are those of memory. *)
LEMMA DigitOfLoad ==
  ASSUME NEW m \in [Word -> Cell], NEW a \in Int, NEW i \in 1 .. 3
  PROVE  Digit(LoadCells(m, a, 4), i) = m[Plus(a, i)]
<1> DEFINE c(j) == m[Plus(a, j)]
           l(j) == LoadCells(m, a, j)
<1>1. \A j \in 0 .. 3 : c(j) \in 0 .. Radix - 1
  <2> SUFFICES ASSUME NEW j \in 0 .. 3
               PROVE  m[Plus(a, j)] \in Cell
    BY DEF Cell
  <2> QED BY PlusType
<1>2. /\ l(2) = l(1) + c(1) * Place[1] /\ l(3) = l(2) + c(2) * Place[2]
      /\ l(4) = l(3) + c(3) * Place[3]
  <2>1. /\ l(2) = l(2 - 1) + c(2 - 1) * Place[2 - 1]
        /\ l(3) = l(3 - 1) + c(3 - 1) * Place[3 - 1]
        /\ l(4) = l(4 - 1) + c(4 - 1) * Place[4 - 1]
    <3>1. 2 \in 1 .. 4 /\ 3 \in 1 .. 4 /\ 4 \in 1 .. 4
      OBVIOUS
    <3> QED BY <3>1, LoadSteps
  <2> QED BY <2>1
<1>3. \A j \in 0 .. 4 : l(j) \in 0 .. Place[j] - 1
  BY LoadBound
<1> HIDE DEF c, l
<1>4. l(1) \in Int /\ l(2) \in Int /\ l(3) \in Int
  BY <1>3, Places
<1>5. \E k \in Nat : l(4) = Place[i] * (Radix * k + c(i)) + l(i)
  <2>1. CASE i = 1
    <3>1. l(4) = Place[i] * (Radix * (c(2) + c(3) * Radix) + c(i)) + l(i)
      BY <2>1, <1>1, <1>2, <1>4, Places, CellsAssumption
    <3>2. c(2) + c(3) * Radix \in Nat
      BY <1>1, CellsAssumption
    <3> QED BY <3>1, <3>2
  <2>2. CASE i = 2
    <3>1. l(4) = Place[i] * (Radix * c(3) + c(i)) + l(i)
      BY <2>2, <1>1, <1>2, <1>4, Places, CellsAssumption
    <3>2. c(3) \in Nat
      <4>1. c(3) \in 0 .. Radix - 1
        BY <1>1
      <4> QED BY <4>1, CellsAssumption
    <3> QED BY <3>1, <3>2
  <2>3. CASE i = 3
    <3>1. l(4) = Place[i] * (Radix * 0 + c(i)) + l(i)
      BY <2>3, <1>1, <1>2, <1>4, Places, CellsAssumption
    <3> QED BY <3>1
  <2> QED BY <2>1, <2>2, <2>3
<1>6. PICK k \in Nat : l(4) = Place[i] * (Radix * k + c(i)) + l(i)
  BY <1>5
<1> DEFINE p == Place[i]
           q == Radix * k + c(i)
<1>7. p \in Nat /\ p > 0 /\ l(i) \in 0 .. p - 1 /\ c(i) \in 0 .. Radix - 1
  BY <1>1, <1>3, Places
<1>8. q \in Int
  BY <1>7, CellsAssumption
<1>9. q % Radix = c(i)
  <2> DEFINE j == c(i)
  <2>1. Radix \in Nat /\ Radix > 0 /\ k \in Int /\ j \in 0 .. Radix - 1
    BY <1>7, CellsAssumption
  <2> HIDE DEF j
  <2>2. (Radix * k + j) % Radix = j
    BY <2>1, DivisionUnique
  <2> QED BY <2>2 DEF j
<1> HIDE DEF p, q
<1>10. (p * q + l(i)) \div p = q
  BY <1>7, <1>8, DivisionUnique
<1>11. l(4) = p * q + l(i)
  BY <1>6 DEF p, q
<1> QED BY <1>9, <1>10, <1>11 DEF p, l, c, Digit

(* POP of 16 bits to memory: the cells behind the destination take what the *)
(* stack holds behind its top.                                             *)
LEMMA PopDiverges ==
  ASSUME TypeOK, Pop, Diverges
  PROVE  ~Native!Execute
<1>1. /\ insn # Idle /\ insn.op = "pop" /\ insn.dst.kind = "mem" /\ insn.dst.size = 1
  BY DEF Pop, Handle, Diverges, BitOps
<1> DEFINE s == Add(Now, Rsp, 1)
           a == GetDisp(s, insn.dst)
<1>2. PICK i \in 1 .. 3 : mem[Plus(a, i)] # mem[Plus(regs[Rsp], i)]
  BY <1>1 DEF Diverges, BitOps
<1>3. /\ mem \in [Word -> Cell] /\ regs[Rsp] \in Int
  BY RegistersIn, TurnLarge DEF TypeOK, Word
<1>4. s \in Machine /\ s.mem = mem
  <2>1. \A j \in Int : Add(Now, Rsp, j) \in Machine
    BY NowType, AddType, RegistersIn
  <2> QED BY <2>1 DEF Add, Now
<1>5. a \in Word
  <2>1. PICK n \in {1, 4} : insn.dst \in Destinations({n})
    BY <1>1, Shapes
  <2>2. insn.dst \in MemoryOperands({1})
    BY <1>1, <2>1 DEF Destinations, RegisterOperands, MemoryOperands
  <2> QED BY <2>2, <1>4, EffectiveType, SizesIn DEF GetDisp
<1> DEFINE c == Plus(a, i)
           x == LoadCells(mem, regs[Rsp], 4)
           y == LoadCells(mem, regs[Rsp], 1)
<1>6. /\ Becomes(Str(s, a, 4, x))
      /\ Native!After = Str(s, a, 1, y)
  <2>1. Becomes(Str(s, a, 4, x))
    BY <1>1, NowType DEF Pop, Falls, Ldd, StoreOperand
  <2>2. Native!After = StoreOperand(s, insn.dst, y, 1)
    BY <1>1, NativeStates, NativeCells DEF Native!After, Native!Popped, BitOps
  <2> QED BY <1>1, <2>1, <2>2 DEF StoreOperand
<1> HIDE DEF s, a
<1>7. c \in Word /\ (c - a) % Turn = i
  <2> DEFINE t == Turn
  <2>1. t \in Nat /\ t >= 16 /\ a \in 0 .. t - 1
    BY <1>5, TurnLarge DEF Word
  <2> HIDE DEF t
  <2>2. (a + i) % t = IF a + i < t THEN a + i ELSE a + i - t
    BY <2>1
  <2>3. (((a + i) % t) - a) % t = i
    BY <2>1, <2>2
  <2>4. c \in Word
    BY <1>5, PlusType, TurnLarge DEF Word
  <2> QED BY <2>3, <2>4 DEF t, Plus
<1>8. mem'[c] = Digit(x, i)
  <2>1. mem' = StoreCells(mem, a, 4, x)
    BY <1>4, <1>6 DEF Becomes, Str
  <2> HIDE DEF c, x
  <2> QED BY <2>1, <1>7 DEF StoreCells
<1>9. Native!After.mem[c] = mem[c]
  <2>1. Native!After.mem = StoreCells(mem, a, 1, y)
    BY <1>4, <1>6 DEF Str, Machine
  <2> HIDE DEF c, y
  <2> QED BY <2>1, <1>7 DEF StoreCells
<1>10. Digit(x, i) = mem[Plus(regs[Rsp], i)]
  BY <1>3, DigitOfLoad
<1>11. mem[c] # mem[Plus(regs[Rsp], i)]
  BY <1>2 DEF a, s
<1> QED BY <1>8, <1>9, <1>10, <1>11 DEF Native!Execute

(* One transfer keeps a machine one. *)
LEMMA TransferredType ==
  ASSUME TypeOK, insn # Idle, insn.op \in {"lods", "stos"}, NEW s \in Machine
  PROVE  Native!Transferred(s) \in Machine
<1>1. insn.size \in Sizes /\ insn.size \in Int /\ Native!Step(insn.size) \in Int
  BY Shapes DEF Sizes, Native!Step
<1>2. /\ s.mem \in [Word -> Cell] /\ s.regs[Rsi] \in Int
      /\ s.regs[Rdi] \in Word /\ s.regs[Rax] \in Word
  BY RegistersIn, TurnLarge DEF Machine, Word
<1>3. CASE insn.op = "lods"
  <2> DEFINE x == LoadCells(s.mem, s.regs[Rsi], insn.size)
             t == StoreOperand(s, Register(Rax, insn.size), x, insn.size)
  <2>1. x \in Word
    BY <1>1, <1>2, LoadType
  <2>2. Register(Rax, insn.size) \in Destinations({insn.size})
    BY RegistersIn DEF Register, Destinations, RegisterOperands
  <2>3. t \in Machine
    <3> HIDE DEF x
    <3> QED BY <1>1, <2>1, <2>2, StoreOperandType
  <2>4. Native!Transferred(s) = Add(t, Rsi, Native!Step(insn.size))
    BY <1>3, NativeStates, NativeCells DEF Native!Transferred, Register
  <2> HIDE DEF t
  <2>5. \A j \in Int : Add(t, Rsi, j) \in Machine
    BY <2>3, AddType, RegistersIn
  <2> QED BY <1>1, <2>4, <2>5
<1>4. CASE insn.op = "stos"
  <2> DEFINE t == Str(s, s.regs[Rdi], insn.size, s.regs[Rax])
  <2>1. t \in Machine
    BY <1>1, <1>2, StrType
  <2>2. Native!Transferred(s) = Add(t, Rdi, Native!Step(insn.size))
    BY <1>4, NativeStates, NativeCells DEF Native!Transferred, Str
  <2> HIDE DEF t
  <2>3. \A j \in Int : Add(t, Rdi, j) \in Machine
    BY <2>1, AddType, RegistersIn
  <2> QED BY <1>1, <2>2, <2>3
<1> QED BY <1>3, <1>4

(* A repeat prefix uses up the counter, and one of zero does nothing. *)
LEMMA RepeatedFacts ==
  ASSUME TypeOK, insn # Idle, insn.op \in {"lods", "stos"}
  PROVE  /\ Native!Repeated.regs[Rcx] = 0
         /\ regs[Rcx] = 0 => Native!Repeated.regs = regs
<1> DEFINE Runs(f) == f = [n \in Word |-> IF n = 0 THEN Now ELSE Native!Transferred(f[n - 1])]
           k == Turn - 1
           step == [p \in (1 .. k) \X Machine |-> Native!Transferred(p[2])]
<1>1. k \in Nat /\ Word = 0 .. k /\ Now \in Machine
  BY TurnLarge, NowType DEF Word
<1>2. step \in StepFunctions(k, Machine)
  BY TransferredType DEF StepFunctions
<1>3. \A i \in 1 .. k, s \in Machine : step[<<i, s>>] = Native!Transferred(s)
  OBVIOUS
<1> HIDE DEF k
<1>4. PICK f : DefinedBy(f, k, Machine, Now, step)
  <2> HIDE DEF step
  <2> QED BY <1>1, <1>2, Recursion
<1>5. Runs(f)
  <2>1. ASSUME NEW i \in 1 .. k
        PROVE  f[i] = Native!Transferred(f[i - 1])
    <3> HIDE DEF step
    <3>1. i - 1 \in 0 .. k /\ f[i - 1] \in Machine /\ f[i] = step[<<i, f[i - 1]>>]
      BY <1>1, <1>4 DEF DefinedBy
    <3> QED BY <1>3, <3>1
  <2>2. f \in [0 .. k -> Machine] /\ f[0] = Now
    BY <1>4 DEF DefinedBy
  <2> HIDE DEF step
  <2> QED BY <1>1, <2>1, <2>2
<1> DEFINE g == CHOOSE h : Runs(h)
<1>6. Runs(g)
  <2> HIDE DEF Runs
  <2> QED BY <1>5
<1>7. Native!Repeated = [g[regs[Rcx]] EXCEPT !.regs[Rcx] = 0]
  <2>1. Native!Word = Word
    BY NativeCells DEF Native!Word, Word
  <2> QED BY <2>1, NativeCells DEF Native!Repeated
<1> HIDE DEF g
<1>8. g[0] = Now /\ \A i \in 1 .. k : g[i] = Native!Transferred(g[i - 1])
  <2>1. 0 \in Word /\ \A i \in 1 .. k : i \in Word /\ i # 0
    BY <1>1
  <2> QED BY <1>6, <2>1
<1>9. 0 .. k \subseteq {n \in 0 .. k : g[n] \in Machine}
  <2> DEFINE S == {n \in 0 .. k : g[n] \in Machine}
  <2>1. 0 \in S
    BY <1>1, <1>8
  <2>2. ASSUME NEW n \in 0 .. k - 1, n \in S
        PROVE  n + 1 \in S
    <3>1. n + 1 \in 1 .. k /\ (n + 1) - 1 = n /\ n + 1 \in 0 .. k
      BY <1>1
    <3>2. g[n + 1] = Native!Transferred(g[n])
      BY <1>8, <3>1
    <3> QED BY <2>2, <3>1, <3>2, TransferredType
  <2> HIDE DEF S
  <2>3. 0 .. k \subseteq S
    BY <1>1, <2>1, <2>2, UpTo
  <2> QED BY <2>3 DEF S
<1>10. regs[Rcx] \in 0 .. k /\ regs \in [Regs -> Word] /\ Now.regs = regs
  BY <1>1, RegistersIn, NowType DEF TypeOK
<1>11. g[regs[Rcx]] \in Machine
  BY <1>9, <1>10
<1>12. Native!Repeated.regs = [g[regs[Rcx]].regs EXCEPT ![Rcx] = 0]
  BY <1>7, <1>11 DEF Machine
<1>13. Native!Repeated.regs[Rcx] = 0
  BY <1>11, <1>12, RegistersIn DEF Machine
<1>14. ASSUME regs[Rcx] = 0
       PROVE  Native!Repeated.regs = regs
  <2>1. Native!Repeated.regs = [regs EXCEPT ![Rcx] = 0]
    BY <1>8, <1>10, <1>12, <1>14
  <2> QED BY <2>1, <1>10, <1>14
<1> QED BY <1>13, <1>14

(* The registers with a part of their own are different ones. *)
LEMMA RegistersDiffer ==
  Rcx # Rax /\ Rcx # Rsi /\ Rcx # Rdi /\ Rax # Rsi
BY CellsAssumption

(* String instructions with a prefix: the counter stays, or the pointer     *)
(* moves though nothing was asked for.                                     *)
LEMMA StringDiverges ==
  ASSUME TypeOK, Lods \/ Stos, Diverges
  PROVE  ~Native!Execute
<1>1. insn # Idle /\ insn.op \in {"lods", "stos"} /\ insn.rep
  BY DEF Lods, Stos, Handle, Diverges, BitOps
<1>2. Native!After = Native!Repeated
  BY <1>1, NativeCells DEF Native!After, BitOps
<1>3. insn.size \in Sizes /\ Stride \in Int /\ Stride \in {1, 2, 4, -1, -2, -4}
  <2>1. insn.size \in Sizes /\ df \in {0, 1}
    BY <1>1, Shapes DEF TypeOK
  <2>2. df = 0 => Stride = insn.size
    BY <2>1 DEF Stride, Sizes
  <2>3. df = 1 => Stride = -insn.size
    BY <2>1 DEF Stride, Sizes
  <2> QED BY <2>1, <2>2, <2>3 DEF Sizes
<1>4. ASSUME NEW v \in Word
      PROVE  Plus(v, Stride) # v
  <2> DEFINE t == Turn
             d == Stride
  <2>1. t \in Nat /\ t >= 16 /\ v \in 0 .. t - 1 /\ d \in {1, 2, 4, -1, -2, -4}
    BY <1>3, TurnLarge DEF Word
  <2> HIDE DEF t, d
  <2>2. (v + d) % t # v
    BY <2>1
  <2> QED BY <2>2 DEF t, d, Plus
<1>5. \E r \in {Rsi, Rdi} : regs'[Rcx] = regs[Rcx] /\ regs'[r] = Plus(regs[r], Stride)
  <2>1. CASE Lods
    <3> DEFINE x == Ldd(Now, Rsi, insn.size)
               s == StoreOperand(Now, Register(Rax, insn.size), x, insn.size)
    <3>1. Becomes(Add(s, Rsi, Stride))
      BY <2>1 DEF Lods, Falls
    <3>2. x \in Word
      BY <1>3, NowType, LddType, RegistersIn
    <3>3. Register(Rax, insn.size) \in Destinations({insn.size})
      BY RegistersIn DEF Register, Destinations, RegisterOperands
    <3>4. s \in Machine
      <4> HIDE DEF x
      <4> QED BY <1>3, <3>2, <3>3, NowType, StoreOperandType
    <3>5. s.regs[Rcx] = regs[Rcx] /\ s.regs[Rsi] = regs[Rsi]
      <4>1. s.regs = [regs EXCEPT ![Rax] = PutRegister(@, insn.size, x)]
        BY NowType DEF StoreOperand, Register, Now
      <4> HIDE DEF s, x
      <4> QED BY <4>1, RegistersDiffer, RegistersIn DEF TypeOK
    <3> HIDE DEF s
    <3>6. regs' = [s.regs EXCEPT ![Rsi] = Plus(@, Stride)]
      <4>1. \A j \in Int : Add(s, Rsi, j).regs = [s.regs EXCEPT ![Rsi] = Plus(@, j)]
        BY <3>4 DEF Add, Machine
      <4> QED BY <1>3, <3>1, <4>1 DEF Becomes
    <3>7. s.regs \in [Regs -> Word]
      BY <3>4 DEF Machine
    <3> QED BY <3>5, <3>6, <3>7, RegistersDiffer, RegistersIn
  <2>2. CASE Stos
    <3> DEFINE x == Truncate(regs[Rax], insn.size)
               s == Str(Now, regs[Rdi], insn.size, x)
    <3>1. Becomes(Add(s, Rdi, Stride))
      BY <2>2 DEF Stos, Falls
    <3>2. x \in Word
      <4>1. regs[Rax] \in Int /\ insn.size \in 0 .. 4
        BY <1>3, RegistersIn, TurnLarge DEF TypeOK, Sizes, Word
      <4> QED BY <4>1, TruncateType
    <3>3. regs[Rdi] \in Word
      BY RegistersIn DEF TypeOK
    <3>4. s \in Machine /\ s.regs = regs
      BY <1>3, <3>2, <3>3, NowType, StrType
    <3> HIDE DEF s
    <3>5. regs' = [regs EXCEPT ![Rdi] = Plus(@, Stride)]
      <4>1. \A j \in Int : Add(s, Rdi, j).regs = [s.regs EXCEPT ![Rdi] = Plus(@, j)]
        BY <3>4 DEF Add, Machine
      <4> QED BY <1>3, <3>1, <3>4, <4>1 DEF Becomes
    <3> QED BY <3>5, RegistersDiffer, RegistersIn DEF TypeOK
  <2> QED BY <2>1, <2>2
<1>6. PICK r \in {Rsi, Rdi} : regs'[Rcx] = regs[Rcx] /\ regs'[r] = Plus(regs[r], Stride)
  BY <1>5
<1>7. regs[r] \in Word
  BY RegistersIn DEF TypeOK
<1>8. CASE regs[Rcx] = 0
  BY <1>1, <1>2, <1>4, <1>6, <1>7, <1>8, RepeatedFacts DEF Native!Execute
<1>9. CASE regs[Rcx] # 0
  BY <1>1, <1>2, <1>6, <1>9, RepeatedFacts DEF Native!Execute
<1> QED BY <1>8, <1>9

(* Bit tests outside of the operand: the carry is that of another bit. *)
LEMMA BitDiverges ==
  ASSUME TypeOK, Bt \/ Btc \/ Btr \/ Bts, Diverges
  PROVE  ~Native!Execute
<1> DEFINE i == regs[insn.src.reg] % 4
           a == GetDisp(Now, insn.dst)
<1>1. insn # Idle /\ insn.op \in BitOps
  BY DEF Bt, Btc, Btr, Bts, BitTest, Handle, BitOps
<1>2. i \in 0 .. 3
  <2>1. regs[insn.src.reg] \in Int
    BY <1>1, Shapes, TurnLarge DEF RegisterOperands, TypeOK, Word
  <2> QED BY <2>1
<1>3. cf' = mem[Plus(a, i)]
  <2>1. cf' = [k \in 0 .. 3 |-> mem[Plus(a, k)]][i]
    BY DEF Bt, Btc, Btr, Bts, BitTest
  <2> HIDE DEF i, a
  <2> QED BY <2>1, <1>2
<1>4. mem[Native!BitAt] # mem[Plus(a, i)]
  BY <1>1 DEF Diverges, BitOps
<1> HIDE DEF i, a
<1> QED BY <1>1, <1>3, <1>4, NativeCells DEF Native!Execute

(* CALL through the stack pointer goes where the return address is. *)
LEMMA CallDiverges ==
  ASSUME TypeOK, Call, Diverges
  PROVE  ~Native!Execute
<1>1. /\ insn # Idle /\ insn.op = "call" /\ insn.src.kind = "reg" /\ insn.src.reg = Rsp
  BY DEF Call, Handle, Diverges, BitOps
<1>2. insn.src.size = 4 /\ insn.next \in Word
  BY <1>1, Shapes DEF Sources, Destinations, RegisterOperands, MemoryOperands, Immediates
<1> DEFINE k == 4
           s0 == Sub(Now, Rsp, k)
           s == Str(s0, s0.regs[Rsp], k, insn.next)
           v == regs[Rsp]
           b == Plus(v, -k)
<1>3. vip' = Fetched(s, insn.src)
  BY DEF Call, LoadOperand
<1>4. v \in Word /\ v \in Int /\ k \in Int /\ -k \in Int
  BY RegistersIn, TurnLarge DEF TypeOK, Word
<1>5. b \in Word
  BY <1>4, PlusType
<1>6. s.regs[Rsp] = b
  <2>1. s.regs = [regs EXCEPT ![Rsp] = b]
    BY DEF Str, Sub, Add, Now
  <2> HIDE DEF s, b
  <2> QED BY <2>1, RegistersIn DEF TypeOK
<1>7. vip' = b
  <2> HIDE DEF s, b
  <2> QED BY <1>1, <1>2, <1>3, <1>5, <1>6, TruncateWord DEF Fetched
<1>8. Native!Goes = v
  <2>1. Native!Goes = Fetched(Now, insn.src)
    BY <1>1, NativeCells DEF Native!Goes
  <2> QED BY <2>1, <1>1, <1>2, <1>4, TruncateWord, NowType DEF Fetched
<1>9. b # v
  <2> DEFINE t == Turn
  <2>1. t \in Nat /\ t >= 16 /\ v \in 0 .. t - 1
    BY <1>4, TurnLarge DEF Word
  <2> HIDE DEF t, v
  <2>2. (v + (-4)) % t # v
    BY <2>1
  <2> QED BY <2>2 DEF t, Plus
<1> HIDE DEF b, v, s
<1> QED BY <1>7, <1>8, <1>9 DEF Native!Execute

(* Nothing else diverges. *)
LEMMA OthersDoNot ==
  ASSUME Execute, Diverges
  PROVE  Pop \/ Lods \/ Stos \/ Bt \/ Btc \/ Btr \/ Bts \/ Call
BY DEF Execute, Push, Mov, Xchg, Cld, Std, Jmp, Jcxz, Jecxz, JumpIfZero, Ret, Handle,
       Diverges, BitOps

(* Stack, string and memory instructions and their lifted forms leave the  *)
(* same registers, memory, flags and continuation wherever Faithful holds, *)
(* and do not where they are said to part, for all programs, registers and *)
(* cells (misc.cpp:137-303, branch.cpp:40-45, 96-115, 276-303,             *)
(* flags.cpp:145-208, amd64.cpp:82-170).                                   *)
THEOREM MemoryActsAsNative == Spec => ActsAsNative
<1>1. TypeOK /\ [Next]_vars
        => [insn # Idle => /\ Faithful => Native!Execute
                           /\ Diverges => ~Native!Execute]_vars
  <2> SUFFICES ASSUME TypeOK, Next, insn # Idle
               PROVE  /\ Faithful => Native!Execute
                      /\ Diverges => ~Native!Execute
    OBVIOUS
  <2>1. Execute
    BY DEF Next, Fetch
  <2>2. Faithful => Native!Execute
    BY <2>1, PushNative, PopNative, MovNative, XchgNative, StringNative,
       BitTestNative, JumpNative, CallNative, RetNative DEF Execute
  <2>3. Diverges => ~Native!Execute
    BY <2>1, OthersDoNot, PopDiverges, StringDiverges, BitDiverges, CallDiverges
  <2> QED BY <2>2, <2>3
<1> QED BY <1>1, MemoryTypes, PTL DEF Spec, ActsAsNative

(***************************************************************************)
(* The stack.                                                              *)
(***************************************************************************)
(* Above the lowest n cells of a stack is the stack that begins n cells     *)
(* later, whatever happened to memory below.                                *)
LEMMA SubStack ==
  ASSUME NEW m \in [Word -> Cell], NEW w \in [Word -> Cell],
         NEW p \in Word, NEW n \in Nat, p + n <= Base,
         \A c \in p + n .. Base - 1 : w[c] = m[c]
  PROVE  /\ Len(CellsOf(p, m)) = Base - p /\ Len(CellsOf(p + n, w)) = Base - (p + n)
         /\ SubSeq(CellsOf(p, m), n + 1, Base - p) = CellsOf(p + n, w)
<1>1. p \in Nat /\ Base \in Nat /\ Base - p \in Nat /\ Base - (p + n) \in Nat
  BY MemoryAssumption, TurnLarge DEF Word
<1>2. \A c \in p .. Base - 1 : m[c] \in Cell
  <2>1. \A c \in p .. Base - 1 : c \in Word
    BY <1>1, MemoryAssumption, TurnLarge DEF Word
  <2> QED BY <2>1
<1> DEFINE s == CellsOf(p, m)
           t == CellsOf(p + n, w)
<1>3. s \in Seq(Cell) /\ Len(s) = Base - p
  BY <1>1, <1>2 DEF CellsOf
<1>4. t \in Seq(Cell) /\ Len(t) = Base - (p + n)
  <2>1. \A c \in p + n .. Base - 1 : w[c] \in Cell
    BY <1>1, <1>2
  <2> QED BY <1>1, <2>1 DEF CellsOf
<1>5. \A i \in 1 .. Base - p : s[i] = m[p + i - 1]
  BY DEF CellsOf
<1>6. \A i \in 1 .. Base - (p + n) : t[i] = w[(p + n) + i - 1]
  BY DEF CellsOf
<1> HIDE DEF s, t
<1> DEFINE u == SubSeq(s, n + 1, Base - p)
<1>7. u \in Seq(Cell) /\ Len(u) = Base - (p + n)
  BY <1>1, <1>3
<1>8. \A i \in 1 .. Base - (p + n) : u[i] = s[n + i]
  BY <1>1, <1>3
<1>9. ASSUME NEW i \in 1 .. Base - (p + n)
      PROVE  u[i] = t[i]
  <2>1. u[i] = m[p + (n + i) - 1]
    BY <1>1, <1>5, <1>8
  <2>2. t[i] = w[(p + n) + i - 1]
    BY <1>6
  <2>3. (p + n) + i - 1 \in p + n .. Base - 1 /\ (p + n) + i - 1 = p + (n + i) - 1
    BY <1>1
  <2> QED BY <2>1, <2>2, <2>3
<1> HIDE DEF u
<1>10. u = t
  BY <1>4, <1>7, <1>9
<1> QED BY <1>3, <1>4, <1>10 DEF s, t, u

(* A store of n cells below the stack pointer, which moves there, pushes    *)
(* them.                                                                    *)
LEMMA Pushes ==
  ASSUME TypeOK, NEW n \in {1, 4}, regs[Rsp] >= 4, regs[Rsp] <= Base, NEW x \in Word,
         Becomes(Str(Sub(Now, Rsp, n), Sub(Now, Rsp, n).regs[Rsp], n, x))
  PROVE  TheStack!Push(n)
<1> DEFINE sp == regs[Rsp]
           p == sp - n
<1>1. sp \in Word /\ sp \in Int /\ Base \in Word /\ n \in Sizes
  BY RegistersIn, TurnLarge, MemoryAssumption DEF TypeOK, Word, Sizes
<1>2. p \in Word /\ p + n = sp /\ p + n <= Base
  BY <1>1, TurnLarge DEF Word
<1>3. Plus(sp, -n) = p
  <2>1. sp + (-n) = p /\ p % Turn = p
    BY <1>1, <1>2, TurnLarge DEF Word
  <2> QED BY <2>1 DEF Plus
<1>4. Sub(Now, Rsp, n).regs = [regs EXCEPT ![Rsp] = p] /\ Sub(Now, Rsp, n).mem = mem
  BY <1>3 DEF Sub, Add, Now
<1>5. Sub(Now, Rsp, n).regs[Rsp] = p
  <2> HIDE DEF p
  <2> QED BY <1>4, RegistersIn DEF TypeOK
<1>6. regs'[Rsp] = p /\ mem' = StoreCells(mem, p, n, x)
  <2> DEFINE u == Sub(Now, Rsp, n)
  <2>1. u \in Machine
    BY <1>1, NowType, AddType, RegistersIn, SizesIn
  <2>2. u.regs[Rsp] = p /\ u.mem = mem
    BY <1>4, <1>5
  <2> HIDE DEF u, p
  <2>3. Str(u, p, n, x).regs = u.regs /\ Str(u, p, n, x).mem = StoreCells(u.mem, p, n, x)
    BY <1>1, <1>2, <2>1, StrType
  <2>4. regs' = Str(u, p, n, x).regs /\ mem' = Str(u, p, n, x).mem
    BY <2>2 DEF Becomes, u
  <2> QED BY <2>2, <2>3, <2>4
<1>7. mem' \in [Word -> Cell] /\ mem \in [Word -> Cell]
  <2>1. x \in Int
    BY TurnLarge DEF Word
  <2> QED BY <2>1, <1>1, <1>2, <1>6, StoreCellsType DEF TypeOK
<1>8. ASSUME NEW c \in sp .. Base - 1
      PROVE  mem'[c] = mem[c]
  <2>1. c \in Word
    BY <1>1, TurnLarge DEF Word
  <2>2. (c - p) % Turn = c - p
    <3>1. p \in Int /\ c >= p
      BY <1>1, <1>2, <2>1, TurnLarge DEF Word
    <3> HIDE DEF p
    <3> QED BY <1>2, <2>1, <3>1, WordDifference
  <2>3. ~((c - p) % Turn < n)
    BY <1>1, <2>1, <2>2, TurnLarge DEF Word
  <2> QED BY <1>6, <2>1, <2>3 DEF StoreCells
<1>9. CellsOf(regs[Rsp], mem)' = CellsOf(p, mem')
  BY <1>6 DEF CellsOf
<1> HIDE DEF p
<1>10. /\ Len(CellsOf(p, mem')) = Base - p /\ Len(CellsOf(p + n, mem)) = Base - (p + n)
       /\ SubSeq(CellsOf(p, mem'), n + 1, Base - p) = CellsOf(p + n, mem)
  <2>1. n \in Nat /\ \A c \in p + n .. Base - 1 : mem[c] = mem'[c]
    BY <1>2, <1>8
  <2> QED BY <1>2, <1>7, <2>1, SubStack
<1>11. Base - p = Base - (p + n) + n
  BY <1>1, <1>2, TurnLarge DEF Word
<1> QED BY <1>2, <1>9, <1>10, <1>11 DEF TheStack!Push

(* The stack pointer moved up by n cells pops them. *)
LEMMA Pops ==
  ASSUME TypeOK, NEW n \in Nat, regs[Rsp] + n <= Base,
         regs'[Rsp] = Plus(regs[Rsp], n), mem' = mem
  PROVE  TheStack!Pop(n)
<1> DEFINE sp == regs[Rsp]
<1>1. sp \in Word /\ sp \in Int /\ Base \in Word /\ mem \in [Word -> Cell]
  BY RegistersIn, TurnLarge, MemoryAssumption DEF TypeOK, Word
<1>2. Plus(sp, n) = sp + n
  <2> DEFINE q == sp + n
             t == Turn
  <2>1. t \in Nat /\ t > 0 /\ q \in 0 .. t - 1
    BY <1>1, TurnLarge DEF Word
  <2> HIDE DEF q, t
  <2>2. q % t = q
    BY <2>1
  <2> QED BY <2>2 DEF Plus, q, t
<1>3. CellsOf(regs[Rsp], mem)' = CellsOf(sp + n, mem)
  BY <1>2 DEF CellsOf
<1>4. /\ Len(CellsOf(sp, mem)) = Base - sp
      /\ SubSeq(CellsOf(sp, mem), n + 1, Base - sp) = CellsOf(sp + n, mem)
  BY <1>1, SubStack
<1>5. n <= Base - sp
  BY <1>1, TurnLarge DEF Word
<1> QED BY <1>3, <1>4, <1>5 DEF TheStack!Pop

(* PUSH pushes as many cells as its operand has. *)
LEMMA PushStack ==
  ASSUME TypeOK, Push, UsesStack
  PROVE  TheStack!Push(insn.src.size)
<1>1. insn # Idle /\ insn.op = "push" /\ regs[Rsp] >= 4 /\ regs[Rsp] <= Base
  BY DEF Push, Handle, UsesStack
<1>2. PICK n \in {1, 4} : insn.src \in Sources({n})
  BY <1>1, Shapes
<1>3. insn.src.size = n /\ (IF insn.src.size = 1 THEN 1 ELSE 4) = n
  BY <1>2 DEF Sources, Destinations, RegisterOperands, MemoryOperands, Immediates
<1> DEFINE x == Fetched(Now, insn.src)
<1>4. x \in Word
  BY <1>2, NowType, FetchedType DEF Sizes
<1>5. Becomes(Str(Sub(Now, Rsp, n), Sub(Now, Rsp, n).regs[Rsp], n, x))
  BY <1>3 DEF Push, Falls, LoadOperand
<1> HIDE DEF x
<1>6. TheStack!Push(n)
  BY <1>1, <1>4, <1>5, Pushes
<1> QED BY <1>3, <1>6

(* CALL pushes the return address. *)
LEMMA CallStack ==
  ASSUME TypeOK, Call, UsesStack
  PROVE  TheStack!Push(4)
<1>1. /\ insn # Idle /\ insn.op = "call" /\ regs[Rsp] >= 4 /\ regs[Rsp] <= Base
      /\ insn.next \in Word
  BY Shapes DEF Call, Handle, UsesStack
<1> DEFINE k == 4
<1>2. Becomes(Str(Sub(Now, Rsp, k), Sub(Now, Rsp, k).regs[Rsp], k, insn.next)) /\ k \in {1, 4}
  BY DEF Call
<1> HIDE DEF k
<1>3. TheStack!Push(k)
  BY <1>1, <1>2, Pushes
<1> QED BY <1>3 DEF k

(* POP of a register other than the stack pointer pops as many cells as it  *)
(* has.                                                                     *)
LEMMA PopStack ==
  ASSUME TypeOK, Pop, UsesStack
  PROVE  TheStack!Pop(insn.dst.size)
<1>1. /\ insn # Idle /\ insn.op = "pop" /\ regs[Rsp] + 4 <= Base
      /\ insn.dst.kind = "reg" /\ insn.dst.reg # Rsp
  BY DEF Pop, Handle, UsesStack
<1>2. PICK n \in {1, 4} : insn.dst \in Destinations({n})
  BY <1>1, Shapes
<1>3. /\ insn.dst.size = n /\ (IF insn.dst.size = 1 THEN 1 ELSE 4) = n
      /\ insn.dst.reg \in Regs
  BY <1>1, <1>2 DEF Destinations, RegisterOperands, MemoryOperands
<1> DEFINE s == Add(Now, Rsp, n)
           t == StoreOperand(s, insn.dst, Ldd(Now, Rsp, 4), 4)
<1>4. Becomes(t)
  BY <1>3 DEF Pop, Falls
<1>5. s.mem = mem /\ s.regs = [regs EXCEPT ![Rsp] = Plus(regs[Rsp], n)]
  BY DEF Add, Now
<1>6. t.mem = mem /\ t.regs = [s.regs EXCEPT ![insn.dst.reg] =
                                 PutRegister(@, insn.dst.size, Ldd(Now, Rsp, 4))]
  <2> HIDE DEF s
  <2>1. t = [s EXCEPT !.regs[insn.dst.reg] = PutRegister(@, insn.dst.size, Ldd(Now, Rsp, 4))]
    BY <1>1 DEF StoreOperand
  <2>2. s = [regs |-> s.regs, mem |-> s.mem]
    BY DEF s, Add, Now
  <2> QED BY <1>5, <2>1, <2>2
<1> HIDE DEF s, t
<1>7. mem' = mem /\ regs'[Rsp] = Plus(regs[Rsp], n)
  BY <1>1, <1>3, <1>4, <1>5, <1>6, RegistersIn DEF Becomes, TypeOK
<1>8. regs[Rsp] + n <= Base /\ n \in Nat
  BY <1>1, RegistersIn, TurnLarge, MemoryAssumption DEF TypeOK, Word
<1> QED BY <1>3, <1>7, <1>8, Pops

(* RET pops the return address and what it was told to. *)
LEMMA RetStack ==
  ASSUME TypeOK, Ret, UsesStack
  PROVE  TheStack!Pop(4 + insn.extra)
<1>1. /\ insn # Idle /\ insn.op = "ret" /\ regs[Rsp] + 4 + insn.extra <= Base
  BY DEF Ret, Handle, UsesStack
<1> DEFINE n == 4 + insn.extra
<1>2. n \in Nat /\ insn.extra + 4 = n /\ regs[Rsp] + n <= Base
  BY <1>1, Shapes, RegistersIn, TurnLarge, MemoryAssumption DEF TypeOK, Word
<1>3. mem' = mem /\ regs' = [regs EXCEPT ![Rsp] = Plus(regs[Rsp], n)]
  BY <1>2 DEF Ret, Becomes, Add, Now
<1> HIDE DEF n
<1>4. regs'[Rsp] = Plus(regs[Rsp], n)
  BY <1>3, RegistersIn DEF TypeOK
<1>5. TheStack!Pop(n)
  BY <1>2, <1>3, <1>4, Pops
<1> QED BY <1>5 DEF n

(* PUSH, POP, CALL and RET change the stack at its top only, for all       *)
(* programs, stacks and cells (misc.cpp:176-200, branch.cpp:276-303).      *)
THEOREM MemoryStackDiscipline == Spec => StackDiscipline
<1> DEFINE A == CASE insn.op = "push" -> TheStack!Push(insn.src.size)
                  [] insn.op = "call" -> TheStack!Push(4)
                  [] insn.op = "pop"  -> TheStack!Pop(insn.dst.size)
                  [] insn.op = "ret"  -> TheStack!Pop(4 + insn.extra)
<1>1. TypeOK /\ [Next]_vars => [insn # Idle /\ UsesStack => A]_vars
  <2> SUFFICES ASSUME TypeOK, Next, insn # Idle, UsesStack
               PROVE  A
    OBVIOUS
  <2>1. Push \/ Pop \/ Call \/ Ret
    BY DEF Next, Fetch, Execute, UsesStack, Mov, Xchg, Lods, Stos, Cld, Std, Bt, Btc, Btr, Bts,
           BitTest, Jmp, Jcxz, Jecxz, JumpIfZero, Handle
  <2>2. CASE Push
    <3>1. insn.op = "push" /\ TheStack!Push(insn.src.size)
      BY <2>2, PushStack DEF Push, Handle
    <3> QED BY <3>1
  <2>3. CASE Pop
    <3>1. insn.op = "pop" /\ TheStack!Pop(insn.dst.size)
      BY <2>3, PopStack DEF Pop, Handle
    <3> QED BY <3>1
  <2>4. CASE Call
    <3>1. insn.op = "call" /\ TheStack!Push(4)
      BY <2>4, CallStack DEF Call, Handle
    <3> QED BY <3>1
  <2>5. CASE Ret
    <3>1. insn.op = "ret" /\ TheStack!Pop(4 + insn.extra)
      BY <2>5, RetStack DEF Ret, Handle
    <3> QED BY <3>1
  <2> QED BY <2>1, <2>2, <2>3, <2>4, <2>5
<1> QED BY <1>1, MemoryTypes, PTL DEF Spec, StackDiscipline
=============================================================================
