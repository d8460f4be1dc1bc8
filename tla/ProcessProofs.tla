---------------------------- MODULE ProcessProofs ----------------------------
(***************************************************************************)
(* Proofs about Process, for any registers, flags and instructions.        *)
(***************************************************************************)
EXTENDS Process, TLAPS

(* What is believed, in the course of one instruction.                      *)
Beliefs ==
  [stale : SUBSET Names, undefined : SUBSET Names,
   pinned : SUBSET Names, exposed : SUBSET Names]

(* The registers an instruction writes, and all flags.                      *)
Written(i) == i.regs_write \cup Accessed(i, "w")
AllFlags == FlagNames \X {"flag"}

(* The pieces of registers, and of those an instruction may be given.       *)
Parts == (Regs \cup {Internal}) \X Pieces

(***************************************************************************)
(* The disassembler's lists name pieces of registers and flags.            *)
(***************************************************************************)

(* A view covers pieces of its register, a 32-bit one all but the last.     *)
LEMMA CoversFacts ==
  ASSUME NEW v, v.reg \in Regs \cup {Internal}, v.part \in DOMAIN Within
  PROVE  /\ Covers(v) \subseteq Changes(v)
         /\ Changes(v) \subseteq Parts
         /\ Changes(v) \ Covers(v) =
              IF v.reg \in Generic /\ v.part = "dword" THEN {<<v.reg, "quad">>} ELSE {}
<1>1. Within[v.part] \subseteq Pieces
  BY DEF Within, Pieces
<1>2. Covers(v) = {v.reg} \X Within[v.part]
  BY ProcessAssumption DEF Covers
<1>3. v.part = "dword" => Pieces \ Within[v.part] = {"quad"}
  BY DEF Within, Pieces
<1>4. CASE v.reg \in Generic /\ v.part = "dword"
  BY <1>1, <1>2, <1>3, <1>4 DEF Changes, Whole, Parts
<1>5. CASE ~(v.reg \in Generic /\ v.part = "dword")
  BY <1>1, <1>2, <1>5 DEF Changes, Parts
<1> QED
  BY <1>4, <1>5

(* The instruction's registers are views, and perhaps the flags register.    *)
LEMMA InsnViews ==
  ASSUME NEW i \in Insns
  PROVE  /\ Accessed(i, "r") \subseteq Views /\ Accessed(i, "w") \subseteq Views
         /\ AddressParts(i) \subseteq Views
         /\ \A o \in Memory(i) : {o.base, o.index} \ {None} \subseteq AddressParts(i)
         /\ i.regs_read \subseteq Views \cup {TheFlags}
         /\ i.regs_write \subseteq Views \cup {TheFlags}
<1>1. i.operands \subseteq Operands
  BY ProcessAssumption
<1>2. ASSUME NEW o \in i.operands
      PROVE  /\ o.type = "reg" => o.reg \in Views
             /\ o.type = "mem" => {o.base, o.index} \subseteq Views \cup {None}
  BY <1>1, <1>2 DEF Operands
<1> QED
  BY <1>2, ProcessAssumption DEF Accessed, AddressParts, Memory

(* Views cover pieces of registers, the flags register covers the flags.    *)
LEMMA CoveredFacts ==
  ASSUME NEW views \in SUBSET (Views \cup {TheFlags})
  PROVE  /\ Covered(views) = Covered(views \ {TheFlags})
                               \cup (IF TheFlags \in views THEN AllFlags ELSE {})
         /\ Covered(views \ {TheFlags}) \subseteq Regs \X Pieces
         /\ Covered(views) \subseteq Names
<1>1. Covers(TheFlags) = AllFlags
  BY DEF Covers, TheFlags, AllFlags
<1>2. Covered(views) = Covered(views \ {TheFlags})
                         \cup (IF TheFlags \in views THEN AllFlags ELSE {})
  BY <1>1 DEF Covered
<1>3. \A v \in Views : Covers(v) \subseteq Regs \X Pieces
  BY ProcessAssumption DEF Views, Covers, Within, Pieces
<1>4. Covered(views \ {TheFlags}) \subseteq Regs \X Pieces
  BY <1>3 DEF Covered
<1> QED
  BY <1>2, <1>4 DEF Names, AllFlags

(* Flags are no pieces of registers.                                        *)
LEMMA MarkedFacts ==
  ASSUME NEW i \in Insns, NEW marks
  PROVE  /\ Marked(i, marks) \subseteq AllFlags
         /\ Marked(i, marks) \subseteq Names
         /\ AllFlags \cap (Regs \X Pieces) = {}
         /\ AllFlags \cap Parts = {}
BY DEF Marked, AllFlags, Names, Parts, Pieces

(* What is read, as process() groups it to pin it: the lists cover all but   *)
(* the flags tested, and those too if they name the flags register.         *)
LEMMA ReadsFacts ==
  ASSUME NEW i \in Insns
  PROVE  /\ Reads(i) \subseteq Names
         /\ Covered(Accessed(i, "r") \cup AddressParts(i)) \in SUBSET Names
         /\ Covered(i.regs_read) \in SUBSET Names
         /\ Reads(i) \ (Covered(Accessed(i, "r") \cup AddressParts(i)) \cup Covered(i.regs_read))
              = IF TheFlags \in i.regs_read THEN {} ELSE Marked(i, {"test"})
<1> DEFINE given == Accessed(i, "r") \cup AddressParts(i)
           implicit == i.regs_read \ {TheFlags}
<1>1. TheFlags \notin Views
  BY ProcessAssumption DEF TheFlags, Views
<1>2. given \in SUBSET Views /\ implicit \in SUBSET Views
  BY InsnViews
<1>3. Reads(i) = Covered(given) \cup Covered(implicit) \cup Marked(i, {"test"})
  BY DEF Reads, Covered
<1>4. given \ {TheFlags} = given /\ given \in SUBSET (Views \cup {TheFlags})
  BY <1>1, <1>2
<1>5. Covered(given) \subseteq Names /\ Covered(given) \subseteq Regs \X Pieces
  BY <1>4, CoveredFacts
<1>6. i.regs_read \in SUBSET (Views \cup {TheFlags})
  BY InsnViews
<1>7. /\ Covered(i.regs_read) = Covered(implicit)
                                  \cup (IF TheFlags \in i.regs_read THEN AllFlags ELSE {})
      /\ Covered(implicit) \subseteq Regs \X Pieces
      /\ Covered(i.regs_read) \subseteq Names
  BY <1>6, CoveredFacts
<1>8. Marked(i, {"test"}) \subseteq AllFlags /\ Marked(i, {"test"}) \subseteq Names
      /\ AllFlags \cap (Regs \X Pieces) = {}
  BY MarkedFacts
<1> HIDE DEF given, implicit
<1>9. CASE TheFlags \in i.regs_read
  BY <1>3, <1>5, <1>7, <1>8, <1>9 DEF given
<1>10. CASE TheFlags \notin i.regs_read
  BY <1>3, <1>5, <1>7, <1>8, <1>10 DEF given
<1> QED
  BY <1>9, <1>10

(* What is written, by registers and flags.                                 *)
LEMMA WritesFacts ==
  ASSUME NEW i \in Insns
  PROVE  /\ Writes(i) \subseteq Names
         /\ Written(i) \in SUBSET (Views \cup {TheFlags})
         /\ Covered(Written(i)) \in SUBSET Names
         /\ Writes(i) = (UNION {Changes(v) : v \in Written(i) \ {TheFlags}})
                          \cup Marked(i, Marks \ {"test"})
<1>1. TheFlags \notin Views
  BY ProcessAssumption DEF TheFlags, Views
<1>2. Written(i) \in SUBSET (Views \cup {TheFlags})
  BY InsnViews DEF Written
<1>3. Written(i) \ {TheFlags} = Accessed(i, "w") \cup (i.regs_write \ {TheFlags})
  BY <1>1, InsnViews DEF Written
<1>4. Writes(i) = (UNION {Changes(v) : v \in Written(i) \ {TheFlags}})
                    \cup Marked(i, Marks \ {"test"})
  BY <1>3 DEF Writes
<1>5. \A v \in Written(i) \ {TheFlags} : v.reg \in Regs /\ v.part \in DOMAIN Within
  BY <1>2 DEF Views
<1>6. \A v \in Written(i) \ {TheFlags} : Changes(v) \subseteq Names
  BY <1>5, CoversFacts DEF Parts, Names
<1>7. Marked(i, Marks \ {"test"}) \subseteq Names
  BY MarkedFacts
<1>8. Covered(Written(i)) \in SUBSET Names
  BY <1>2, CoveredFacts
<1>9. Writes(i) \subseteq Names
  BY <1>4, <1>6, <1>7
<1> QED
  BY <1>2, <1>4, <1>8, <1>9

(***************************************************************************)
(* What the code of a handler reads.                                       *)
(***************************************************************************)

(* Everything it reads the processor reads too, but from the internal       *)
(* register, which holds the address for it (amd64.cpp:35-41, 187).         *)
LEMMA LoadsFacts ==
  ASSUME NEW i \in Insns
  PROVE  Loads(i) \subseteq Reads(i) \cup Whole(Internal)
<1> DEFINE operands == Accessed(i, "r") \cup (i.regs_read \ {TheFlags})
           parts == UNION {GetDisp(o) : o \in Memory(i)}
           given == operands \cup AddressParts(i)
<1>1. Reads(i) = Covered(given) \cup Marked(i, {"test"})
  BY DEF Reads, Covered
<1>2. given \subseteq Views
  BY InsnViews
<1>3. \A v \in given : Covers(Reg2Op(v)) \subseteq Covers(v) \cup Whole(Internal)
  <2> SUFFICES ASSUME NEW v \in given
               PROVE  Covers(Reg2Op(v)) \subseteq Covers(v) \cup Whole(Internal)
    OBVIOUS
  <2>1. CASE v.reg # Rip
    BY <2>1 DEF Reg2Op
  <2>2. CASE v.reg = Rip
    <3>1. v.part \in DOMAIN Within
      BY <1>2 DEF Views
    <3>2. Reg2Op(v).reg = Internal /\ Reg2Op(v).part \in DOMAIN Within
      BY <2>2, <3>1 DEF Reg2Op, Within
    <3>3. Covers(Reg2Op(v)) = {Internal} \X Within[Reg2Op(v).part]
      BY <3>2, ProcessAssumption DEF Covers
    <3>4. Within[Reg2Op(v).part] \subseteq Pieces
      BY <3>2 DEF Within, Pieces
    <3> QED
      BY <3>3, <3>4 DEF Whole
  <2> QED
    BY <2>1, <2>2
<1>4. \A w \in parts : \E v \in given : w = v \/ w = Reg2Op(v)
  <2>1. \A o \in Memory(i) : \A w \in GetDisp(o) :
          \E v \in {o.base, o.index} \ {None} : w = v \/ w = Reg2Op(v)
    BY DEF GetDisp
  <2> QED
    BY <2>1, InsnViews
<1>5. \A n \in Covered({Reg2Op(v) : v \in operands}) : n \in Covered(given) \cup Whole(Internal)
  BY <1>3 DEF Covered
<1>6. \A n \in Covered(parts) : n \in Covered(given) \cup Whole(Internal)
  <2> SUFFICES ASSUME NEW w \in parts, NEW n \in Covers(w)
               PROVE  n \in Covered(given) \cup Whole(Internal)
    BY DEF Covered
  <2>1. PICK v \in given : w = v \/ w = Reg2Op(v)
    BY <1>4
  <2>2. n \in Covers(v) \cup Whole(Internal)
    BY <1>3, <2>1
  <2> QED
    BY <2>2 DEF Covered
<1>7. Loads(i) = Covered({Reg2Op(v) : v \in operands}) \cup Covered(parts)
                   \cup Marked(i, {"test"})
  BY DEF Loads
<1> QED
  BY <1>1, <1>5, <1>6, <1>7

(***************************************************************************)
(* What process() does to the beliefs.                                     *)
(***************************************************************************)

(* The instruction pointer goes to the internal register.                   *)
LEMMA MovRipFacts ==
  ASSUME NEW s \in Beliefs
  PROVE  /\ MovRip(s) \in Beliefs
         /\ MovRip(s).stale = (s.stale \ Whole(Internal)) \cup Whole(Rip)
         /\ MovRip(s).undefined = s.undefined \ Whole(Internal)
         /\ MovRip(s).pinned = s.pinned
<1>1. Whole(Rip) \subseteq Names
  BY ProcessAssumption DEF Whole, Names
<1> QED
  BY <1>1 DEF MovRip, Beliefs

(* A handler's results are as good as what it reads.                        *)
LEMMA HandlerFacts ==
  ASSUME NEW s \in Beliefs, NEW i \in Insns,
         NEW done, done = Writes(i) \ Whole(Rip)
  PROVE  /\ Handler(s, i) \in Beliefs
         /\ Handler(s, i).stale =
              (s.stale \ done) \cup (IF Loads(i) \cap s.stale = {} THEN {} ELSE done)
         /\ Handler(s, i).undefined =
              (s.undefined \ done) \cup (IF Loads(i) \cap s.undefined = {} THEN {} ELSE done)
<1>1. done \subseteq Names
  BY WritesFacts
<1> QED
  BY <1>1 DEF Handler, Beliefs

(* What the bytes of an instruction leave behind.                           *)
LEMMA BytesFacts ==
  ASSUME NEW s \in Beliefs, NEW i \in Insns, s.pinned = {}
  PROVE  /\ EmitBytes(s, i) \in Beliefs
         /\ EmitBytes(s, i).exposed =
              IF TheFlags \in i.regs_read THEN {} ELSE Marked(i, {"test"})
         /\ EmitBytes(s, i).stale =
              ((s.stale \cup Writes(i)) \ Covered(Written(i))) \ Marked(i, {"modify"})
         /\ EmitBytes(s, i).undefined =
              (s.undefined \ Covered(Written(i))) \ Marked(i, {"modify"})
<1> DEFINE given == Covered(Accessed(i, "r") \cup AddressParts(i))
           implicit == Covered(i.regs_read)
           bytes == Vemit(PinRead(s, i), i)
           over == Vpinw(bytes, Covered(Written(i)))
           modified == Marked(i, {"modify"})
<1>1. /\ given \in SUBSET Names /\ implicit \in SUBSET Names
      /\ Reads(i) \subseteq Names /\ Writes(i) \subseteq Names
      /\ Covered(Written(i)) \in SUBSET Names /\ modified \in SUBSET Names
  BY ReadsFacts, WritesFacts, MarkedFacts
<1>2. /\ PinRead(s, i) \in Beliefs
      /\ PinRead(s, i).pinned = given \cup implicit
      /\ PinRead(s, i).stale = s.stale /\ PinRead(s, i).undefined = s.undefined
  <2>1. /\ Vpinr(s, given) \in Beliefs /\ Vpinr(s, given).pinned = given
        /\ Vpinr(s, given).stale = s.stale /\ Vpinr(s, given).undefined = s.undefined
    BY <1>1 DEF Vpinr, Beliefs
  <2> QED
    BY <1>1, <2>1 DEF PinRead, Vpinr, Beliefs
<1>3. /\ bytes \in Beliefs
      /\ bytes.stale = s.stale \cup Writes(i) /\ bytes.undefined = s.undefined
      /\ bytes.exposed = Reads(i) \ (given \cup implicit)
  BY <1>1, <1>2 DEF Vemit, Beliefs
<1> HIDE DEF bytes
<1>4. /\ over \in Beliefs
      /\ over.stale = (s.stale \cup Writes(i)) \ Covered(Written(i))
      /\ over.undefined = s.undefined \ Covered(Written(i))
      /\ over.exposed = bytes.exposed
  BY <1>1, <1>3 DEF Vpinw, Beliefs
<1>5. EmitBytes(s, i) = Vpinw(over, modified)
  BY DEF EmitBytes, PinWritten, Written, over, bytes
<1> HIDE DEF over
<1>6. /\ Vpinw(over, modified) \in Beliefs
      /\ Vpinw(over, modified).stale = over.stale \ modified
      /\ Vpinw(over, modified).undefined = over.undefined \ modified
      /\ Vpinw(over, modified).exposed = over.exposed
  BY <1>1, <1>4 DEF Vpinw, Beliefs
<1> QED
  BY <1>3, <1>4, <1>5, <1>6, ReadsFacts

(* What the whole of process() leaves behind, when the instruction goes in   *)
(* as its bytes and when it has a handler.                                 *)
LEMMA EmissionFacts ==
  ASSUME TypeOK, NEW i \in Insns
  PROVE  /\ Emission(Before, i) \in Beliefs
         /\ Emission(Before, i).undefined =
              Lifted(MovRip(Before), i).undefined \cup Marked(i, {"undefined"})
         /\ Emission(Before, i).stale =
              Lifted(MovRip(Before), i).stale \ Marked(i, {"undefined"})
         /\ Emission(Before, i).exposed = Lifted(MovRip(Before), i).exposed
         /\ MovRip(Before) \in Beliefs /\ MovRip(Before).pinned = {}
<1> DEFINE lifted == Lifted(MovRip(Before), i)
           names == Marked(i, {"undefined"})
<1>1. Before \in Beliefs /\ Before.pinned = {}
  BY DEF Before, Beliefs, TypeOK
<1>2. MovRip(Before) \in Beliefs /\ MovRip(Before).pinned = {}
  BY <1>1, MovRipFacts
<1>3. lifted \in Beliefs
  BY <1>2, BytesFacts, HandlerFacts DEF Lifted
<1>4. names \in SUBSET Names
  BY MarkedFacts
<1>5. Emission(Before, i) = MovUndefined(lifted, names)
  BY DEF Emission
<1> HIDE DEF lifted, names
<1>6. /\ MovUndefined(lifted, names) \in Beliefs
      /\ MovUndefined(lifted, names).stale = lifted.stale \ names
      /\ MovUndefined(lifted, names).undefined = lifted.undefined \cup names
      /\ MovUndefined(lifted, names).exposed = lifted.exposed
  BY <1>3, <1>4 DEF MovUndefined, Beliefs
<1> QED
  BY <1>2, <1>5, <1>6 DEF lifted, names

(***************************************************************************)
(* The theorems.                                                           *)
(***************************************************************************)

(* The beliefs are about names, whatever has been lifted.                   *)
THEOREM ProcessTypes == Spec => []TypeOK
<1>1. Init => TypeOK
  BY ProcessAssumption DEF Init, TypeOK
<1>2. TypeOK /\ [Next]_vars => TypeOK'
  <2> SUFFICES ASSUME TypeOK, [Next]_vars PROVE TypeOK'
    OBVIOUS
  <2>1. CASE UNCHANGED vars
    BY <2>1 DEF vars, TypeOK
  <2>2. ASSUME NEW i \in Insns, Process(i) PROVE TypeOK'
    <3>1. Emission(Before, i) \in Beliefs
      BY EmissionFacts
    <3>2. /\ stale' \subseteq Names /\ undefined' \subseteq Names
          /\ exposed' \subseteq Names
      BY <2>2, <3>1 DEF Process, Beliefs
    <3>3. Loses(lost, i) \subseteq Names
      BY WritesFacts, MarkedFacts DEF Loses, TypeOK
    <3>4. lost' \subseteq Names /\ last' \in Insns /\ count' \in 0 .. Steps
      BY <2>2, <3>3, ProcessAssumption DEF Process, TypeOK
    <3> QED
      BY <3>2, <3>4 DEF TypeOK
  <2> QED
    BY <2>1, <2>2 DEF Next
<1> QED
  BY <1>1, <1>2, PTL DEF Spec

(* What one more instruction leaves undefined for the passes, and not stale, *)
(* the processor leaves undefined.                                         *)
LEMMA UndefinedStep ==
  ASSUME TypeOK, UndefinedIsLost, NEW i \in Insns
  PROVE  Emission(Before, i).undefined \ Emission(Before, i).stale \subseteq Loses(lost, i)
<1> DEFINE s == MovRip(Before)
           lifted == Lifted(s, i)
           names == Marked(i, {"undefined"})
           done == Writes(i) \ Whole(Rip)
<1>1. /\ s.stale = (stale \ Whole(Internal)) \cup Whole(Rip)
      /\ s.undefined = undefined \ Whole(Internal)
      /\ s \in Beliefs /\ s.pinned = {}
  <2>1. Before \in Beliefs /\ Before.pinned = {}
        /\ Before.stale = stale /\ Before.undefined = undefined
    BY DEF Before, Beliefs, TypeOK
  <2> QED
    BY <2>1, MovRipFacts
<1>2. s.undefined \ s.stale \subseteq lost /\ s.undefined \cap Whole(Internal) = {}
  BY <1>1 DEF UndefinedIsLost
<1> HIDE DEF s
<1>3. (s.undefined \ s.stale) \ Writes(i) \subseteq Loses(lost, i)
  BY <1>2 DEF Loses
<1>4. lifted.undefined \ lifted.stale \subseteq Loses(lost, i)
  <2>1. CASE Unhandled(i)
    BY <1>1, <1>3, <2>1, BytesFacts DEF Lifted
  <2>2. CASE ~Unhandled(i)
    <3>1. /\ lifted.stale = (s.stale \ done)
                              \cup (IF Loads(i) \cap s.stale = {} THEN {} ELSE done)
          /\ lifted.undefined = (s.undefined \ done)
                                  \cup (IF Loads(i) \cap s.undefined = {} THEN {} ELSE done)
      <4>1. lifted = Handler(s, i)
        BY <2>2 DEF Lifted
      <4>2. done = Writes(i) \ Whole(Rip)
        OBVIOUS
      <4> HIDE DEF lifted, done
      <4> QED
        BY <1>1, <4>1, <4>2, HandlerFacts
    <3>2. ASSUME NEW n \in lifted.undefined \ lifted.stale, n \notin done
          PROVE  n \in Loses(lost, i)
      <4>1. n \in s.undefined \ s.stale
        BY <3>1, <3>2
      <4>2. n \notin Whole(Rip)
        BY <1>1, <4>1
      <4> QED
        BY <1>3, <3>2, <4>1, <4>2
    <3>3. ASSUME NEW n \in lifted.undefined \ lifted.stale, n \in done
          PROVE  n \in Loses(lost, i)
      <4>1. Loads(i) \cap s.stale = {} /\ Loads(i) \cap s.undefined # {}
        BY <3>1, <3>3
      <4>2. PICK m \in Loads(i) : m \in s.undefined \ s.stale
        BY <4>1
      <4>3. m \in Reads(i) \cap lost
        BY <1>2, <4>2, LoadsFacts
      <4> QED
        BY <3>3, <4>3 DEF Loses
    <3> QED
      BY <3>2, <3>3
  <2> QED
    BY <2>1, <2>2
<1>5. names \subseteq Loses(lost, i)
  BY DEF Loses
<1>6. /\ Emission(Before, i).undefined = lifted.undefined \cup names
      /\ Emission(Before, i).stale = lifted.stale \ names
  BY EmissionFacts DEF s
<1> HIDE DEF lifted, names
<1> QED
  BY <1>4, <1>5, <1>6

(* The passes are never free to choose what the processor has defined, for   *)
(* any instructions and however long the block (amd64.cpp:220-271).         *)
THEOREM UndefinedLost == Spec => []UndefinedIsLost
<1>1. Init => UndefinedIsLost
  BY DEF Init, UndefinedIsLost
<1>2. TypeOK /\ UndefinedIsLost /\ [Next]_vars => UndefinedIsLost'
  <2> SUFFICES ASSUME TypeOK, UndefinedIsLost, [Next]_vars PROVE UndefinedIsLost'
    OBVIOUS
  <2>1. CASE UNCHANGED vars
    BY <2>1 DEF vars, UndefinedIsLost
  <2>2. ASSUME NEW i \in Insns, Process(i) PROVE UndefinedIsLost'
    <3>1. /\ stale' = Emission(Before, i).stale
          /\ undefined' = Emission(Before, i).undefined
          /\ lost' = Loses(lost, i)
      BY <2>2 DEF Process
    <3> QED
      BY <3>1, UndefinedStep DEF UndefinedIsLost
  <2> QED
    BY <2>1, <2>2 DEF Next
<1> QED
  BY <1>1, <1>2, ProcessTypes, PTL DEF Spec

(* Before bytes, all they read is pinned but the flags they test, and those  *)
(* too if the flags register is listed (amd64.cpp:226-242).                 *)
THEOREM ReadsPinned == Spec => []ReadIsPinned
<1>1. Init => ReadIsPinned
  BY DEF Init, ReadIsPinned
<1>2. TypeOK /\ ReadIsPinned /\ [Next]_vars => ReadIsPinned'
  <2> SUFFICES ASSUME TypeOK, ReadIsPinned, [Next]_vars PROVE ReadIsPinned'
    OBVIOUS
  <2>1. CASE UNCHANGED vars
    BY <2>1 DEF vars, ReadIsPinned, Marked, Unhandled, IsInvalid
  <2>2. ASSUME NEW i \in Insns, Process(i) PROVE ReadIsPinned'
    <3>1. last' = i /\ exposed' = Emission(Before, i).exposed
      BY <2>2 DEF Process
    <3>2. Unhandled(i) => exposed' = IF TheFlags \in i.regs_read THEN {}
                                     ELSE Marked(i, {"test"})
      BY <3>1, EmissionFacts, BytesFacts DEF Lifted
    <3>3. ReadIsPinned' =
            (i # None /\ Unhandled(i) =>
               exposed' = IF TheFlags \in i.regs_read THEN {} ELSE Marked(i, {"test"}))
      BY <3>1 DEF ReadIsPinned, Unhandled, IsInvalid, Marked, TheFlags
    <3> QED
      BY <3>2, <3>3
  <2> QED
    BY <2>1, <2>2 DEF Next
<1> QED
  BY <1>1, <1>2, ProcessTypes, PTL DEF Spec

(* What is written and not pinned: pieces above, and fixed flags.           *)
LEMMA Unpinned ==
  ASSUME NEW i \in Insns
  PROVE  Writes(i) \ (Covered(Written(i)) \cup Marked(i, {"modify", "undefined"}))
           = ClearedAbove(i) \cup FixedFlags(i)
<1> DEFINE written == Written(i) \ {TheFlags}
           pieces == UNION {Changes(v) : v \in written}
           flags == Marked(i, Marks \ {"test"})
           gone == Marked(i, {"modify", "undefined"})
           listed == IF TheFlags \in Written(i) THEN AllFlags ELSE {}
<1>1. /\ Writes(i) = pieces \cup flags
      /\ Written(i) \in SUBSET (Views \cup {TheFlags})
  BY WritesFacts
<1>2. /\ Covered(Written(i)) = Covered(written) \cup listed
      /\ Covered(written) \subseteq Regs \X Pieces
  BY <1>1, CoveredFacts
<1>3. \A v \in written : v.reg \in Regs /\ v.part \in DOMAIN Within
  BY <1>1 DEF Views
<1>4. \A v \in written :
        /\ Covers(v) \subseteq Changes(v) /\ Changes(v) \subseteq Parts
        /\ Changes(v) \ Covers(v) =
             IF v.reg \in Generic /\ v.part = "dword" THEN {<<v.reg, "quad">>} ELSE {}
  BY <1>3, CoversFacts
<1>5. pieces \subseteq Parts /\ flags \subseteq AllFlags /\ gone \subseteq AllFlags
  BY <1>4, MarkedFacts
<1>6. AllFlags \cap (Regs \X Pieces) = {} /\ AllFlags \cap Parts = {}
  BY MarkedFacts
<1>7. pieces \ Covered(written) = ClearedAbove(i)
  <2> DEFINE narrow == {x \in written : x.reg \in Generic /\ x.part = "dword"}
  <2>1. TheFlags.reg \notin Generic
    BY ProcessAssumption DEF TheFlags
  <2>2. narrow = {x \in Written(i) : x.reg \in Generic /\ x.part = "dword"}
    BY <2>1
  <2>3. ClearedAbove(i) = {<<v.reg, "quad">> : v \in narrow} \ Covered(Written(i))
    BY <2>2 DEF ClearedAbove, Written
  <2>4. \A v \in narrow : <<v.reg, "quad">> \in pieces
    BY <1>4
  <2>5. {<<v.reg, "quad">> : v \in narrow} \cap listed = {}
    BY <1>5, <1>6, <2>4
  <2>6. ClearedAbove(i) = {<<v.reg, "quad">> : v \in narrow} \ Covered(written)
    BY <1>2, <2>3, <2>5
  <2>7. \A n \in pieces \ Covered(written) : \E v \in written : n \in Changes(v) \ Covers(v)
    BY DEF Covered
  <2>8. \A n \in pieces \ Covered(written) : \E v \in narrow : n = <<v.reg, "quad">>
    BY <1>4, <2>7
  <2> QED
    BY <2>4, <2>6, <2>8
<1>8. (flags \ listed) \ gone = FixedFlags(i)
  <2>1. TheFlags \in Written(i) <=> TheFlags \in i.regs_write
    BY InsnViews, ProcessAssumption DEF Written, Views, TheFlags
  <2>2. flags \ gone = Marked(i, {"set", "reset"}) \ gone
    BY DEF Marked, Marks
  <2> QED
    BY <1>5, <2>1, <2>2 DEF FixedFlags
<1> HIDE DEF written, pieces, flags, gone, listed
<1>9. (pieces \cup flags) \ ((Covered(written) \cup listed) \cup gone)
        = ClearedAbove(i) \cup FixedFlags(i)
  <2>1. listed \subseteq AllFlags
    BY DEF listed
  <2>2. (pieces \ Covered(written)) = (pieces \ ((Covered(written) \cup listed) \cup gone))
    BY <1>5, <1>6, <2>1
  <2>3. ((flags \ listed) \ gone) = (flags \ ((Covered(written) \cup listed) \cup gone))
    BY <1>2, <1>5, <1>6
  <2> QED
    BY <1>7, <1>8, <2>2, <2>3
<1> QED
  BY <1>1, <1>2, <1>9 DEF gone

(* After bytes the passes miss the pieces cleared above 32-bit registers and *)
(* the flags set to a fixed value without the flags register in the list,   *)
(* and nothing else, for any instructions (amd64.cpp:247-261).              *)
THEOREM WritesPinned == Spec => WrittenIsPinned
<1> DEFINE A == Unhandled(last') =>
                  Writes(last') \cap stale' = ClearedAbove(last') \cup FixedFlags(last')
<1>1. TypeOK /\ [Next]_vars => [A]_vars
  <2> SUFFICES ASSUME TypeOK, NEW i \in Insns, Process(i), Unhandled(i)
               PROVE  Writes(i) \cap stale' = ClearedAbove(i) \cup FixedFlags(i)
    BY DEF Next, Process
  <2>1. stale' = Lifted(MovRip(Before), i).stale \ Marked(i, {"undefined"})
    BY EmissionFacts DEF Process
  <2>2. Lifted(MovRip(Before), i).stale =
          ((MovRip(Before).stale \cup Writes(i)) \ Covered(Written(i))) \ Marked(i, {"modify"})
    BY EmissionFacts, BytesFacts DEF Lifted
  <2>3. Marked(i, {"modify", "undefined"}) = Marked(i, {"modify"}) \cup Marked(i, {"undefined"})
    BY DEF Marked
  <2>4. Writes(i) \cap stale' =
          Writes(i) \ (Covered(Written(i)) \cup Marked(i, {"modify", "undefined"}))
    BY <2>1, <2>2, <2>3
  <2> QED
    BY <2>4, Unpinned
<1> QED
  BY <1>1, ProcessTypes, PTL DEF Spec, WrittenIsPinned
=============================================================================
