----------------------------- MODULE RteProofs -----------------------------
(***************************************************************************)
(* What a runtime error assertion says, and that the equation of each      *)
(* instruction is true, for integers of every width, any operands and      *)
(* vectors of any size.                                                    *)
(*                                                                         *)
(* The inductive invariant is small: the clause is the one addRTE builds   *)
(* for the instruction, and the operands are registers.  The work is in    *)
(* the arithmetic: powers of two, the signed reading of a register, and    *)
(* quotients that leave no rest.                                           *)
(***************************************************************************)
EXTENDS Opcodes, FiniteSetTheorems, WellFoundedInduction, TLAPS

(* A set of numbers that 0 is in, and n + 1 with every n, has them all.    *)
LEMMA AllNat ==
  ASSUME NEW S, 0 \in S, \A n \in Nat : n \in S => n + 1 \in S
  PROVE  \A n \in Nat : n \in S
<1>. SUFFICES ASSUME NEW m \in Nat \ S PROVE FALSE
  OBVIOUS
<1>. DEFINE R == {ss \in Nat \X Nat : ss[1] < ss[2]}
            T == Nat \ S
<1>1. IsWellFoundedOn(R, Nat)
  BY NatLessThanWellFounded DEF OpToRel
<1>2. \A j, k \in T : j < k => <<j, k>> \in R
  OBVIOUS
<1>3. T \subseteq Nat /\ T # {}
  OBVIOUS
<1>4. \A n \in T : n # 0 /\ n - 1 \in T /\ n - 1 < n
  <2>. SUFFICES ASSUME NEW n \in T PROVE n # 0 /\ n - 1 \in T /\ n - 1 < n
    OBVIOUS
  <2>1. n - 1 \in Nat /\ (n - 1) + 1 = n
    OBVIOUS
  <2>. QED  BY <2>1
<1>. HIDE DEF R, T
<1>5. PICK k \in T : \A j \in T : ~(<<j, k>> \in R)
  BY <1>1, <1>3, WFMin
<1>. QED  BY <1>2, <1>4, <1>5

(* Powers of two count subsets; this is what the library knows of them.    *)
LEMMA PowCounts ==
  ASSUME NEW n \in Nat
  PROVE  /\ IsFiniteSet(SUBSET (1..n)) /\ 2^n = Cardinality(SUBSET (1..n))
         /\ 2^n \in Nat \ {0}
<1>1. IsFiniteSet(1..n) /\ Cardinality(1..n) = n
  BY FS_Interval
<1>2. IsFiniteSet(SUBSET (1..n)) /\ Cardinality(SUBSET (1..n)) = 2^n
  BY <1>1, FS_SUBSET
<1>3. Cardinality(SUBSET (1..n)) \in Nat
  BY <1>2, FS_CardinalityType
<1>4. Cardinality(SUBSET (1..n)) # 0
  BY <1>2, FS_EmptySet
<1>. QED  BY <1>2, <1>3, <1>4

(* Half of the subsets of 1..n + 1 have n + 1 in them.                     *)
LEMMA PowDoubles ==
  ASSUME NEW n \in Nat
  PROVE  2^(n + 1) = 2 * 2^n
<1>. DEFINE Without == SUBSET (1..n)
            With == {A \cup {n + 1} : A \in Without}
            f == [A \in Without |-> A \cup {n + 1}]
<1>1. IsFiniteSet(Without) /\ Cardinality(Without) = 2^n /\ 2^n \in Nat
  BY PowCounts
<1>2. 2^(n + 1) = Cardinality(SUBSET (1..(n + 1)))
  <2>1. n + 1 \in Nat
    OBVIOUS
  <2>. QED  BY <2>1, PowCounts
<1>3. f \in Bijection(Without, With)
  <2>1. \A A, B \in Without : f[A] = f[B] => A = B
    <3>1. \A A \in Without : n + 1 \notin A
      OBVIOUS
    <3>. QED  BY <3>1
  <2>2. f \in Surjection(Without, With)
    BY DEF Surjection
  <2>3. f \in [Without -> With] /\ DOMAIN f = Without
    OBVIOUS
  <2>4. f \in Injection(Without, With)
    <3>. HIDE DEF f, Without, With
    <3>. QED  BY <2>1, <2>3 DEF Injection, IsInjective
  <2>. QED  BY <2>2, <2>4 DEF Bijection
<1>4. IsFiniteSet(With) /\ Cardinality(With) = 2^n
  BY <1>1, <1>3, FS_Bijection DEF ExistsBijection
<1>5. SUBSET (1..(n + 1)) = Without \cup With
  <2>1. \A B \in SUBSET (1..(n + 1)) : n + 1 \in B => B \ {n + 1} \in Without
    OBVIOUS
  <2>2. \A B \in SUBSET (1..(n + 1)) : n + 1 \in B => B \in With
    <3>. SUFFICES ASSUME NEW B \in SUBSET (1..(n + 1)), n + 1 \in B PROVE B \in With
      OBVIOUS
    <3>1. B = (B \ {n + 1}) \cup {n + 1}
      OBVIOUS
    <3>. QED  BY <2>1, <3>1
  <2>3. \A B \in SUBSET (1..(n + 1)) : n + 1 \notin B => B \in Without
    OBVIOUS
  <2>4. 1..n \subseteq 1..(n + 1) /\ n + 1 \in 1..(n + 1)
    OBVIOUS
  <2>5. Without \subseteq SUBSET (1..(n + 1)) /\ With \subseteq SUBSET (1..(n + 1))
    BY <2>4
  <2>. QED  BY <2>2, <2>3, <2>5
<1>6. Without \cap With = {}
  OBVIOUS
<1>. HIDE DEF Without, With
<1>7. Cardinality(Without \cup With) = Cardinality(Without) + Cardinality(With) - Cardinality({})
  BY <1>1, <1>4, <1>6, FS_Union
<1>8. Cardinality({}) = 0
  BY FS_EmptySet
<1>9. 2^(n + 1) = 2^n + 2^n - 0
  BY <1>1, <1>2, <1>4, <1>5, <1>7, <1>8
<1>. QED  BY <1>1, <1>9

LEMMA PowZero == 2^0 = 1
OBVIOUS

LEMMA PowAbove == \A n \in Nat : n + 1 <= 2^n
<1>. DEFINE S == {n \in Nat : n + 1 <= 2^n}
<1>1. 0 \in S
  BY PowZero
<1>2. \A n \in Nat : n \in S => n + 1 \in S
  <2>. SUFFICES ASSUME NEW n \in S PROVE n + 1 + 1 <= 2^(n + 1)
    OBVIOUS
  <2>. QED  BY PowCounts, PowDoubles
<1>. HIDE DEF S
<1>3. \A n \in Nat : n \in S
  BY <1>1, <1>2, AllNat
<1>. QED  BY <1>3 DEF S

LEMMA PowOfSum == \A a, b \in Nat : 2^(a + b) = 2^a * 2^b
<1>. SUFFICES ASSUME NEW a \in Nat PROVE \A b \in Nat : 2^(a + b) = 2^a * 2^b
  OBVIOUS
<1>. DEFINE S == {b \in Nat : 2^(a + b) = 2^a * 2^b}
<1>1. 0 \in S
  BY PowZero, PowCounts
<1>2. ASSUME NEW b \in Nat, b \in S PROVE b + 1 \in S
  <2>1. 2^(a + b) = 2^a * 2^b
    BY <1>2
  <2>2. 2^(a + (b + 1)) = 2 * 2^(a + b)
    <3>1. a + (b + 1) = (a + b) + 1 /\ a + b \in Nat
      OBVIOUS
    <3>. QED  BY <3>1, PowDoubles
  <2>3. 2^(b + 1) = 2 * 2^b
    BY PowDoubles
  <2>4. PICK u \in Nat, v \in Nat : u = 2^a /\ v = 2^b
    BY PowCounts
  <2>5. 2 * (u * v) = u * (2 * v)
    OBVIOUS
  <2>. QED  BY <2>1, <2>2, <2>3, <2>4, <2>5
<1>. HIDE DEF S
<1>3. \A b \in Nat : b \in S
  BY <1>1, <1>2, AllNat
<1>. QED  BY <1>3 DEF S
-----------------------------------------------------------------------------
(* Quotients *)

LEMMA Exactly ==
  /\ \A k \in Nat, d \in Nat \ {0} : (k * d) \div d = k
  /\ \A k \in Int, d \in Nat \ {0} : (k * d) % d = 0
  /\ \A k \in Int, d \in Nat \ {0} : k % d = 0 => k \div d \in Int /\ k = (k \div d) * d
OBVIOUS

LEMMA DivOfNats ==
  ASSUME NEW x \in Nat, NEW d \in Nat \ {0}
  PROVE  div(x, d) = x \div d /\ x \div d \in Nat
BY DEF div, Magnitude

LEMMA DivOfMultiple ==
  ASSUME NEW k \in Int, NEW d \in Nat \ {0}
  PROVE  div(k * d, d) = k
<1>1. CASE k >= 0
  <2>1. k * d \in Nat
    BY <1>1
  <2>. QED  BY <1>1, <2>1, DivOfNats, Exactly
<1>2. CASE k < 0
  <2>. DEFINE m == -k
  <2>1. m \in Nat \ {0} /\ m * d \in Nat \ {0} /\ k * d = -(m * d)
    BY <1>2
  <2>2. k * d \in Int /\ k * d < 0
    BY <2>1
  <2>3. Magnitude(k * d) = m * d /\ Magnitude(d) = d
    BY <2>1, <2>2 DEF Magnitude
  <2>4. div(k * d, d) = -((m * d) \div d)
    BY <2>2, <2>3 DEF div
  <2>. QED  BY <2>1, <2>4, Exactly
<1>. QED  BY <1>1, <1>2

(* The rest of ComputerDivision is zero where that of \div is.             *)
LEMMA NoRest ==
  ASSUME NEW x \in Nat, NEW d \in Nat \ {0}
  PROVE  /\ mod(x, d) = 0 <=> x % d = 0
         /\ x = div(x, d) * d <=> x % d = 0
<1>. DEFINE q == x \div d
<1>1. q \in Nat /\ div(x, d) = q
  BY DivOfNats
<1>2. x % d = 0 => x = q * d
  BY Exactly
<1>. HIDE DEF q
<1>3. mod(x, d) = x - d * q
  BY <1>1 DEF mod
<1>4. q * d \in Nat /\ d * q = q * d
  BY <1>1
<1>5. mod(x, d) = 0 <=> x = q * d
  BY <1>3, <1>4
<1>6. x = q * d => x % d = 0
  BY <1>1, Exactly
<1>. QED  BY <1>1, <1>2, <1>5, <1>6

(* What is left of a multiple after shifting it there and back is itself.  *)
LEMMA MultipleComesBack ==
  ASSUME NEW x \in Int, NEW d \in Nat \ {0}, x % d = 0
  PROVE  div(x, d) * d = x
<1>1. PICK k \in Int : x = k * d
  BY Exactly
<1>. QED  BY <1>1, DivOfMultiple
-----------------------------------------------------------------------------
(* Registers *)

LEMMA Widths ==
  /\ 2^W \in Nat \ {0} /\ 2^(W - 1) \in Nat \ {0}
  /\ 2^W = 2 * 2^(W - 1) /\ W <= 2^(W - 1)
<1>1. W \in Nat /\ W - 1 \in Nat /\ (W - 1) + 1 = W
  BY RteAssumption
<1>2. 2^W \in Nat \ {0} /\ 2^(W - 1) \in Nat \ {0}
  BY <1>1, PowCounts
<1>3. 2^((W - 1) + 1) = 2 * 2^(W - 1)
  BY <1>1, PowDoubles
<1>4. (W - 1) + 1 <= 2^(W - 1)
  BY <1>1, PowAbove
<1>. QED  BY <1>1, <1>2, <1>3, <1>4

LEMMA SignedRangeFacts ==
  ASSUME NEW z \in SignedRange
  PROVE  z \in Int /\ -(2^W) <= z /\ z <= 2^(W - 1)
<1>. DEFINE full == 2^W
            half == 2^(W - 1)
<1>1. full \in Nat /\ half \in Nat /\ full = 2 * half
  BY Widths
<1>2. z \in (-half)..(half - 1)
  BY DEF SignedRange
<1>. HIDE DEF full, half
<1>3. z \in Int /\ -full <= z /\ z <= half
  BY <1>1, <1>2
<1>. QED  BY <1>3 DEF full, half

LEMMA BitsFacts ==
  ASSUME NEW x \in Bits
  PROVE  /\ x \in Nat /\ x <= 2^W - 1 /\ x < 2^W
         /\ Signed(x) \in Int /\ Signed(x) \in SignedRange
         /\ -(2^(W - 1)) <= Signed(x) /\ Signed(x) <= 2^(W - 1) - 1
         /\ Signed(x) = 0 <=> x = 0
         /\ Signed(x) \in {x, x - 2^W}
         /\ x < W => Signed(x) = x
<1>. DEFINE full == 2^W
            half == 2^(W - 1)
<1>1. full \in Nat \ {0} /\ half \in Nat \ {0} /\ full = 2 * half /\ W <= half /\ W \in Nat
  BY Widths, RteAssumption
<1>2. /\ x \in 0..(full - 1)
      /\ Signed(x) = IF x < half THEN x ELSE x - full
      /\ SignedRange = (-half)..(half - 1)
  BY DEF Bits, Signed, SignedRange
<1>. HIDE DEF full, half
<1>3. /\ x \in Nat /\ x <= full - 1 /\ x < full
      /\ Signed(x) \in Int /\ Signed(x) \in SignedRange
      /\ -half <= Signed(x) /\ Signed(x) <= half - 1
      /\ Signed(x) = 0 <=> x = 0
      /\ Signed(x) \in {x, x - full}
      /\ x < W => Signed(x) = x
  BY <1>1, <1>2
<1>. QED  BY <1>3 DEF full, half

(* A register shifted by less than its width loses the same bits whether   *)
(* it is read as signed or as unsigned.                                    *)
LEMMA SignedRest ==
  ASSUME NEW x \in Bits, NEW n \in Nat, n < W, x % 2^n = 0
  PROVE  Signed(x) % 2^n = 0
<1>1. PICK d \in Nat \ {0} : d = 2^n
  BY PowCounts
<1>2. x \in Int /\ x % d = 0
  BY <1>1, BitsFacts
<1>3. PICK a \in Int : x = a * d
  BY <1>2, Exactly
<1>4. PICK b \in Nat : 2^W = b * d
  <2>1. W - n \in Nat /\ (W - n) + n = W
    BY RteAssumption
  <2>. QED  BY <1>1, <2>1, PowOfSum, PowCounts
<1>5. x - 2^W = (a - b) * d /\ a - b \in Int
  BY <1>3, <1>4
<1>6. Signed(x) = x \/ Signed(x) = x - 2^W
  BY BitsFacts
<1>. QED  BY <1>1, <1>5, <1>6, Exactly
-----------------------------------------------------------------------------
(* The inductive invariant *)

Registers == op1 \in [Elements -> Bits] /\ op2 \in [Elements -> Bits]

IInv ==
  /\ inst \in Instructions
  /\ \/ mode = "int" /\ reading \in {"signed", "unsigned"}
     \/ mode = "bv" /\ reading = "unsigned"
  /\ stage \in {"build", "built", "executed", "crashed"}
  /\ clause = IF stage \in {"built", "executed"} THEN Assertion ELSE {}
  /\ stage \in {"built", "executed"} => ~JoinsNull
  /\ stage = "crashed" => JoinsNull
  /\ stage = "executed" => Registers

LEMMA InvInit == Init => IInv
BY DEF Init, IInv

LEMMA InvStep == IInv /\ [Next]_rteVars => IInv'
<1>. SUFFICES ASSUME IInv, [Next]_rteVars PROVE IInv'
  OBVIOUS
<1>1. inst' = inst /\ mode' = mode /\ reading' = reading
  BY DEF Next, addRTE, addRTECrashes, Execute, rteVars
<1>2. Assertion' = Assertion /\ JoinsNull' = JoinsNull /\ Elements' = Elements
  BY <1>1 DEF Assertion, JoinsNull, Elements, getBinMathOverflowExpr, Division, ShlChecks,
              ShrChecks
<1>3. CASE addRTE
  BY <1>1, <1>2, <1>3 DEF addRTE, IInv
<1>4. CASE addRTECrashes
  BY <1>1, <1>2, <1>4 DEF addRTECrashes, IInv
<1>5. CASE Execute
  BY <1>1, <1>2, <1>5 DEF Execute, IInv, Registers
<1>6. CASE UNCHANGED rteVars
  BY <1>1, <1>2, <1>6 DEF rteVars, IInv, Registers
<1>. QED  BY <1>3, <1>4, <1>5, <1>6 DEF Next

(* Once built, the clause stays the one addRTE gives the instruction.      *)
THEOREM Invariance == Spec => []IInv
BY InvInit, InvStep, PTL DEF Spec

(* What is checked is about elements of the vector there is.               *)
LEMMA InstructionFacts ==
  ASSUME inst \in Instructions
  PROVE  /\ inst.op \in Asserted \cup Compare \cup Casts \cup BitwiseOps
         /\ inst.nuw \in BOOLEAN /\ inst.nsw \in BOOLEAN /\ inst.exact \in BOOLEAN
         /\ inst.vector \in BOOLEAN /\ inst.n \in Nat \ {0}
         /\ inst.nuw \/ inst.nsw => inst.op \in Overflowing \cup {"shl"}
         /\ inst.exact => inst.op \in {"udiv", "sdiv", "lshr", "ashr"}
         /\ ~inst.vector => inst.n = 1
         /\ 1 \in Elements /\ inst.n \in Elements
BY RteAssumption DEF Instructions, Elements

LEMMA AssertionElements ==
  ASSUME inst \in Instructions
  PROVE  \A c \in Assertion : c.elem \in Elements
<1>1. \A kind, E : \A c \in Checks(kind, E) : c.elem \in E
  BY DEF Checks
<1>2. /\ \A c \in getBinMathOverflowExpr : c.elem \in Elements
      /\ \A c \in Division : c.elem \in Elements
      /\ \A c \in ShrChecks : c.elem \in Elements
  BY <1>1 DEF getBinMathOverflowExpr, Division, ShrChecks
<1>3. \A c \in ShlChecks : c.elem \in Elements
  BY <1>1, InstructionFacts DEF ShlChecks
<1>. QED  BY <1>2, <1>3 DEF Assertion

(* The clause keeps its type, and so do the operands.                      *)
THEOREM TypeCorrect == Spec => []TypeOK
<1>1. IInv => TypeOK
  BY AssertionElements DEF IInv, TypeOK, Registers
<1>. QED  BY <1>1, Invariance, PTL
-----------------------------------------------------------------------------
(* The clause, check by check *)

CheckAt(kind, i) == CheckHolds(kind, Value(op1[i]), Value(op2[i]))
HoldAt(kind, elements) == \A i \in elements : CheckAt(kind, i)

LEMMA ClauseOfChecks ==
  /\ \A kind, E : (\A c \in Checks(kind, E) :
                     CheckHolds(c.kind, Value(op1[c.elem]), Value(op2[c.elem]))) <=> HoldAt(kind, E)
  /\ ClauseHolds <=> \A c \in clause :
                       CheckHolds(c.kind, Value(op1[c.elem]), Value(op2[c.elem]))
<1>1. ASSUME NEW kind, NEW E
      PROVE  (\A c \in Checks(kind, E) :
                 CheckHolds(c.kind, Value(op1[c.elem]), Value(op2[c.elem]))) <=> HoldAt(kind, E)
  <2>. DEFINE Holds(c) == CheckHolds(c.kind, Value(op1[c.elem]), Value(op2[c.elem]))
  <2>1. \A i \in E : Holds([kind |-> kind, elem |-> i]) <=> CheckAt(kind, i)
    BY DEF CheckAt
  <2>2. Checks(kind, E) = {[kind |-> kind, elem |-> i] : i \in E}
    BY DEF Checks
  <2>. HIDE DEF Holds
  <2>3. (\A c \in Checks(kind, E) : Holds(c)) <=> HoldAt(kind, E)
    BY <2>1, <2>2 DEF HoldAt
  <2>. QED  BY <2>3 DEF Holds
<1>. QED  BY <1>1 DEF ClauseHolds

LEMMA ClauseMeans ==
  ASSUME IInv, stage = "executed"
  PROVE  /\ inst.op \in Overflowing =>
              (ClauseHolds <=> /\ inst.nuw => HoldAt("nuw", Elements)
                               /\ inst.nsw => HoldAt("nsw", Elements))
         /\ inst.op \in {"udiv", "urem", "sdiv", "srem"} =>
              (ClauseHolds <=> /\ HoldAt("zero", Elements)
                               /\ inst.op \in {"sdiv", "srem"} => HoldAt("overflow", Elements)
                               /\ inst.exact => HoldAt("divisible", Elements))
         /\ inst.op = "shl" /\ ~(inst.nuw /\ inst.nsw) =>
              (ClauseHolds <=> /\ inst.nuw => HoldAt("shl nuw", {1, inst.n})
                               /\ inst.nsw => HoldAt("shl nsw", {1, inst.n}))
         /\ inst.op \notin Overflowing \cup {"udiv", "urem", "sdiv", "srem", "shl"} =>
              (ClauseHolds <=> (inst.exact => HoldAt(inst.op, Elements)))
<1>. DEFINE Holds(c) == CheckHolds(c.kind, Value(op1[c.elem]), Value(op2[c.elem]))
<1>1. \A kind, E : (\A c \in Checks(kind, E) : Holds(c)) <=> HoldAt(kind, E)
  BY ClauseOfChecks
<1>2. ClauseHolds <=> \A c \in clause : Holds(c)
  BY ClauseOfChecks
<1>3. clause = Assertion
  BY DEF IInv
<1>4. /\ inst.nuw \in BOOLEAN /\ inst.nsw \in BOOLEAN /\ inst.exact \in BOOLEAN
      /\ inst.vector \in BOOLEAN
  BY InstructionFacts DEF IInv
<1>. HIDE DEF Holds
<1>5. ASSUME inst.op \in Overflowing
      PROVE  ClauseHolds <=> /\ inst.nuw => HoldAt("nuw", Elements)
                             /\ inst.nsw => HoldAt("nsw", Elements)
  <2>1. clause = getBinMathOverflowExpr
    BY <1>3, <1>5 DEF Assertion, Overflowing
  <2>. QED  BY <1>1, <1>2, <1>4, <2>1 DEF getBinMathOverflowExpr
<1>6. ASSUME inst.op \in {"udiv", "urem", "sdiv", "srem"}
      PROVE  ClauseHolds <=> /\ HoldAt("zero", Elements)
                             /\ inst.op \in {"sdiv", "srem"} => HoldAt("overflow", Elements)
                             /\ inst.exact => HoldAt("divisible", Elements)
  <2>1. clause = Division
    BY <1>3, <1>6 DEF Assertion, Overflowing
  <2>. QED  BY <1>1, <1>2, <1>4, <2>1 DEF Division
<1>7. ASSUME inst.op = "shl", ~(inst.nuw /\ inst.nsw)
      PROVE  ClauseHolds <=> /\ inst.nuw => HoldAt("shl nuw", {1, inst.n})
                             /\ inst.nsw => HoldAt("shl nsw", {1, inst.n})
  <2>1. clause = ShlChecks
    BY <1>3, <1>7 DEF Assertion, Overflowing
  <2>2. ShlChecks = IF inst.nsw THEN Checks("shl nsw", {1, inst.n})
                    ELSE IF inst.nuw THEN Checks("shl nuw", {1, inst.n}) ELSE {}
    BY <1>4, <1>7 DEF ShlChecks
  <2>. QED  BY <1>1, <1>2, <1>4, <1>7, <2>1, <2>2
<1>8. ASSUME inst.op \notin Overflowing \cup {"udiv", "urem", "sdiv", "srem", "shl"}
      PROVE  ClauseHolds <=> (inst.exact => HoldAt(inst.op, Elements))
  <2>1. clause = ShrChecks
    BY <1>3, <1>8 DEF Assertion
  <2>. QED  BY <1>1, <1>2, <1>4, <2>1 DEF ShrChecks
<1>. QED  BY <1>5, <1>6, <1>7, <1>8

LEMMA Operands ==
  ASSUME IInv, stage = "executed", NEW i \in Elements
  PROVE  op1[i] \in Bits /\ op2[i] \in Bits
BY DEF IInv, Registers

(* A zero divisor is seen whatever the mode and the reading: its value is  *)
(* that of the constant.                                                   *)
THEOREM DivisionByZeroAlwaysCaught == Spec => []DivisionByZeroCaught
<1>1. IInv => DivisionByZeroCaught
  <2>. SUFFICES ASSUME IInv, stage = "executed", inst.op \in {"udiv", "urem", "sdiv", "srem"},
                       ClauseHolds, NEW i \in Elements
                PROVE  op2[i] # 0
    BY DEF DivisionByZeroCaught
  <2>1. Value(op2[i]) # of_int(0)
    BY ClauseMeans DEF HoldAt, CheckAt, CheckHolds
  <2>2. of_int(0) = 0
    BY Widths DEF of_int
  <2>3. op2[i] = 0 => Value(op2[i]) = 0
    BY Operands, BitsFacts DEF Value
  <2>. QED  BY <2>1, <2>2, <2>3
<1>. QED  BY <1>1, Invariance, PTL
-----------------------------------------------------------------------------
(* One element, in mode "int" *)

(* add, sub and mul of two numbers, exactly. *)
LEMMA ExactFacts ==
  ASSUME inst.op \in Overflowing, NEW x \in Int, NEW y \in Int
  PROVE  /\ Exact(inst.op, x, y) \in Int
         /\ mode = "int" => arith(inst.op, x, y) = Exact(inst.op, x, y)
BY DEF Overflowing, Exact, arith, of_int

LEMMA UnsignedOverflow ==
  ASSUME mode = "int", inst.op \in Overflowing, inst.nuw, ~inst.nsw, NEW x \in Bits, NEW y \in Bits
  PROVE  CheckHolds("nuw", x, y) <=> ~Undefined(x, y)
<1>1. PICK z \in Int : z = Exact(inst.op, x, y) /\ z = arith(inst.op, x, y)
  BY ExactFacts, BitsFacts
<1>2. CheckHolds("nuw", x, y) <=> 0 <= z /\ z <= 2^W - 1
  <2>1. CheckHolds("nuw", x, y) <=> NoOverflow(TRUE, z)
    BY <1>1 DEF CheckHolds
  <2>2. MINUINT = 0 /\ MAXUINT = 2^W - 1
    BY DEF MINUINT, MAXUINT, of_int
  <2>3. NoOverflow(TRUE, z) <=> ule(MINUINT, z) /\ ule(z, MAXUINT)
    BY DEF NoOverflow
  <2>. QED  BY <2>1, <2>2, <2>3 DEF ule
<1>3. Undefined(x, y) <=> z \notin Bits
  BY <1>1 DEF Undefined, Exceeds, Overflowing
<1>4. z \in Bits <=> 0 <= z /\ z <= 2^W - 1
  BY Widths DEF Bits
<1>. QED  BY <1>2, <1>3, <1>4

LEMMA UnsignedDivision ==
  ASSUME mode = "int", inst.op \in {"udiv", "urem"}, inst.exact \in BOOLEAN,
         NEW x \in Bits, NEW y \in Bits
  PROVE  /\ CheckHolds("zero", x, y)
         /\ inst.exact => CheckHolds("divisible", x, y)
         <=> ~Undefined(x, y)
<1>1. x \in Nat /\ y \in Nat
  BY BitsFacts
<1>2. CheckHolds("zero", x, y) <=> y # 0
  BY DEF CheckHolds, of_int
<1>3. CheckHolds("divisible", x, y) <=> y # 0 /\ mod(x, y) = 0
  BY DEF CheckHolds, to_int
<1>4. Undefined(x, y) <=> y = 0 \/ (inst.exact /\ x % y # 0)
  BY DEF Undefined, Overflowing
<1>5. y # 0 => (mod(x, y) = 0 <=> x % y = 0)
  BY <1>1, NoRest
<1>. QED  BY <1>2, <1>3, <1>4, <1>5

LEMMA UnsignedShl ==
  ASSUME mode = "int", inst.op = "shl", inst.nuw, ~inst.nsw, NEW x \in Bits, NEW y \in Bits
  PROVE  CheckHolds("shl nuw", x, y) <=> ~Undefined(x, y)
<1>1. x \in Nat /\ y \in Nat
  BY BitsFacts
<1>2. PICK z \in Nat : z = x * 2^y
  <2>1. PICK d \in Nat : d = 2^y
    BY <1>1, PowCounts
  <2>2. x * d \in Nat
    BY <1>1
  <2>. QED  BY <2>1, <2>2
<1>3. CheckHolds("shl nuw", x, y) <=> z <= 2^W - 1
  BY <1>1, <1>2 DEF CheckHolds, ule, lsl, of_int, to_uint, MAXUINT
<1>4. Undefined(x, y) <=> z \notin Bits
  BY <1>2 DEF Undefined, Overflowing, Exceeds
<1>5. z \in Bits <=> z <= 2^W - 1
  BY Widths DEF Bits
<1>. QED  BY <1>3, <1>4, <1>5

LEMMA UnsignedLshr ==
  ASSUME mode = "int", inst.op = "lshr", inst.exact, NEW x \in Bits, NEW y \in Bits
  PROVE  CheckHolds("lshr", x, y) <=> ~Undefined(x, y)
<1>1. x \in Nat /\ y \in Nat
  BY BitsFacts
<1>2. PICK d \in Nat \ {0} : d = 2^y
  BY <1>1, PowCounts
<1>3. CheckHolds("lshr", x, y) <=> x = div(x, d) * d
  BY <1>1, <1>2 DEF CheckHolds, lsl, lsr, of_int, to_uint
<1>4. Undefined(x, y) <=> x % d # 0
  BY <1>2 DEF Undefined, Overflowing
<1>. QED  BY <1>1, <1>3, <1>4, NoRest

(* Without a flag, nothing but a division is undefined.                    *)
LEMMA NothingUndefined ==
  ASSUME inst \in Instructions, ~inst.nuw, ~inst.nsw, ~inst.exact,
         inst.op \notin {"udiv", "urem", "sdiv", "srem"}, NEW x, NEW y
  PROVE  ~Undefined(x, y)
BY DEF Undefined, Overflowing

(* For the unsigned operations, read as the constants are printed, the     *)
(* assertion is neither too weak nor too strong.                           *)
THEOREM UnsignedChecksAlwaysExact == Spec => []UnsignedChecksExact
<1>1. IInv => UnsignedChecksExact
  <2>. SUFFICES ASSUME IInv, stage = "executed", mode = "int", reading = "unsigned", ~inst.nsw,
                       inst.op \notin {"sdiv", "srem", "ashr"}, ~(inst.op = "shl" /\ inst.vector)
                PROVE  ClauseHolds <=> ~InstructionUndefined
    BY DEF UnsignedChecksExact, InScope
  <2>1. /\ inst \in Instructions
        /\ inst.nuw \in BOOLEAN /\ inst.exact \in BOOLEAN /\ 1 \in Elements
        /\ inst.nuw => inst.op \in Overflowing \cup {"shl"}
        /\ inst.exact => inst.op \in {"udiv", "lshr"}
        /\ inst.op = "shl" => inst.n = 1 /\ Elements = {1}
    BY InstructionFacts DEF IInv, Elements
  <2>2. \A i \in Elements : /\ op1[i] \in Bits /\ op2[i] \in Bits
                            /\ Value(op1[i]) = op1[i] /\ Value(op2[i]) = op2[i]
    BY Operands DEF Value
  <2>3. \A kind : HoldAt(kind, Elements)
                    <=> \A i \in Elements : CheckHolds(kind, op1[i], op2[i])
    BY <2>2 DEF HoldAt, CheckAt
  <2>4. CASE inst.op \in Overflowing
    <3>1. CASE inst.nuw
      BY <2>2, <2>3, <2>4, <3>1, ClauseMeans, UnsignedOverflow DEF InstructionUndefined
    <3>2. CASE ~inst.nuw
      <4>1. ~inst.exact /\ inst.op \notin {"udiv", "urem", "sdiv", "srem"}
        BY <2>1, <2>4 DEF Overflowing
      <4>. QED  BY <2>1, <2>4, <3>2, <4>1, ClauseMeans, NothingUndefined DEF InstructionUndefined
    <3>. QED  BY <3>1, <3>2
  <2>5. CASE inst.op \in {"udiv", "urem"}
    <3>1. ClauseHolds <=> \A i \in Elements :
            /\ CheckHolds("zero", op1[i], op2[i])
            /\ inst.exact => CheckHolds("divisible", op1[i], op2[i])
      BY <2>1, <2>3, <2>5, ClauseMeans
    <3>. QED  BY <2>1, <2>2, <2>5, <3>1, UnsignedDivision DEF InstructionUndefined
  <2>6. CASE inst.op = "shl"
    <3>0. {1, inst.n} = Elements
      BY <2>1, <2>6
    <3>1. CASE inst.nuw
      BY <2>2, <2>3, <2>6, <3>0, <3>1, ClauseMeans, UnsignedShl DEF InstructionUndefined
    <3>2. CASE ~inst.nuw
      BY <2>1, <2>6, <3>2, ClauseMeans, NothingUndefined DEF InstructionUndefined
    <3>. QED  BY <3>1, <3>2
  <2>7. CASE inst.op \notin Overflowing \cup {"udiv", "urem", "shl"}
    <3>0. ~inst.nuw /\ (ClauseHolds <=> (inst.exact => HoldAt(inst.op, Elements)))
      BY <2>1, <2>7, ClauseMeans
    <3>1. CASE inst.exact
      <4>1. inst.op = "lshr"
        BY <2>1, <2>7, <3>1
      <4>. QED  BY <2>2, <2>3, <3>0, <3>1, <4>1, UnsignedLshr DEF InstructionUndefined
    <3>2. CASE ~inst.exact
      BY <2>1, <2>7, <3>0, <3>2, NothingUndefined DEF InstructionUndefined
    <3>. QED  BY <3>1, <3>2
  <2>. QED  BY <2>4, <2>5, <2>6, <2>7
<1>. QED  BY <1>1, Invariance, PTL
-----------------------------------------------------------------------------
(* The signed operations, in mode "int"; x and y are bits, sx and sy what  *)
(* they stand for.                                                         *)

LEMMA SignedOverflow ==
  ASSUME mode = "int", inst.op \in Overflowing, inst.nsw, NEW x \in Bits, NEW y \in Bits,
         ~inst.nuw, ~Undefined(x, y)
  PROVE  CheckHolds("nsw", Signed(x), Signed(y))
<1>1. Signed(x) \in Int /\ Signed(y) \in Int
  BY BitsFacts
<1>2. PICK z \in Int : z = Exact(inst.op, Signed(x), Signed(y))
                       /\ z = arith(inst.op, Signed(x), Signed(y))
  BY <1>1, ExactFacts
<1>3. z \in SignedRange
  BY <1>2 DEF Undefined, Exceeds, Overflowing
<1>4. CheckHolds("nsw", Signed(x), Signed(y)) <=> NoOverflow(FALSE, z)
  BY <1>2 DEF CheckHolds
<1>5. MININT = -(2^W) /\ MAXINT = 2^(W - 1)
  BY DEF MININT, MAXINT, of_int
<1>6. NoOverflow(FALSE, z) <=> -(2^W) <= z /\ z <= 2^(W - 1)
  <2>1. NoOverflow(FALSE, z) <=> sle(MININT, z) /\ sle(z, MAXINT)
    BY DEF NoOverflow
  <2>. QED  BY <1>5, <2>1 DEF sle, to_int
<1>. QED  BY <1>3, <1>4, <1>6, SignedRangeFacts

LEMMA SignedDivision ==
  ASSUME mode = "int", inst.op \in {"sdiv", "srem"}, inst.exact \in BOOLEAN,
         NEW x \in Bits, NEW y \in Bits, ~Undefined(x, y)
  PROVE  /\ CheckHolds("zero", Signed(x), Signed(y))
         /\ CheckHolds("overflow", Signed(x), Signed(y))
         /\ inst.exact => CheckHolds("divisible", Signed(x), Signed(y))
<1>1. y # 0 /\ (inst.exact => mod(Signed(x), Signed(y)) = 0)
  BY DEF Undefined, Overflowing
<1>2. Signed(y) # 0
  BY <1>1, BitsFacts
<1>3. CheckHolds("zero", Signed(x), Signed(y))
  BY <1>2 DEF CheckHolds, of_int
<1>4. CheckHolds("overflow", Signed(x), Signed(y))
  <2>1. MININT = -(2^W)
    BY DEF MININT, of_int
  <2>2. Signed(x) # -(2^W)
    BY BitsFacts, Widths
  <2>. QED  BY <2>1, <2>2 DEF CheckHolds
<1>5. inst.exact => CheckHolds("divisible", Signed(x), Signed(y))
  BY <1>1, <1>2 DEF CheckHolds, to_int
<1>. QED  BY <1>3, <1>4, <1>5

LEMMA SignedShl ==
  ASSUME mode = "int", inst.op = "shl", inst.nsw, NEW x \in Bits, NEW y \in Bits, y < W,
         ~Undefined(x, y)
  PROVE  CheckHolds("shl nsw", Signed(x), Signed(y))
<1>1. y \in Nat /\ Signed(y) = y
  BY BitsFacts
<1>2. PICK z \in Int : z = Signed(x) * 2^y
  <2>1. PICK d \in Nat : d = 2^y
    BY <1>1, PowCounts
  <2>2. Signed(x) * d \in Int
    BY BitsFacts
  <2>. QED  BY <2>1, <2>2
<1>3. z \in SignedRange
  BY <1>2 DEF Undefined, Exceeds, Overflowing
<1>4. Shift(Signed(y)) = y
  BY <1>1 DEF Shift, to_int, to_uint
<1>5. CheckHolds("shl nsw", Signed(x), Signed(y)) <=> y >= 0 /\ z <= 2^(W - 1)
  <2>1. CheckHolds("shl nsw", Signed(x), Signed(y)) <=> y >= 0 /\ sle(lsl(Signed(x), y), MAXINT)
    BY <1>4 DEF CheckHolds
  <2>2. lsl(Signed(x), y) = z /\ MAXINT = 2^(W - 1)
    BY <1>2 DEF lsl, of_int, MAXINT
  <2>. QED  BY <2>1, <2>2 DEF sle, to_int
<1>6. z <= 2^(W - 1)
  BY <1>3, SignedRangeFacts
<1>7. y >= 0
  BY <1>1
<1>. QED  BY <1>5, <1>6, <1>7

LEMMA SignedAshr ==
  ASSUME mode = "int", inst.op = "ashr", inst.exact, NEW x \in Bits, NEW y \in Bits, y < W,
         ~Undefined(x, y)
  PROVE  CheckHolds("ashr", Signed(x), Signed(y))
<1>1. y \in Nat /\ Signed(y) = y
  BY BitsFacts
<1>2. x % 2^y = 0
  BY DEF Undefined, Overflowing
<1>3. PICK d \in Nat \ {0} : d = 2^y
  BY <1>1, PowCounts
<1>4. Signed(x) % d = 0 /\ Signed(x) \in Int
  BY <1>1, <1>2, <1>3, SignedRest, BitsFacts
<1>5. div(Signed(x), d) * d = Signed(x)
  BY <1>4, MultipleComesBack
<1>. QED  BY <1>1, <1>3, <1>5 DEF CheckHolds, lsl, asr, of_int, to_uint

(* For the signed operations, read as signed, a defined instruction never  *)
(* fails its assertion.                                                    *)
THEOREM NeverFalseAlarms == Spec => []NoFalseAlarms
<1>1. IInv => NoFalseAlarms
  <2>. SUFFICES ASSUME IInv, stage = "executed", mode = "int", reading = "signed", ~inst.nuw,
                       inst.op \notin {"udiv", "urem", "lshr"}, ~InstructionUndefined,
                       Shifts => \A i \in Elements : op2[i] < W
                PROVE  ClauseHolds
    BY DEF NoFalseAlarms, InScope
  <2>1. /\ inst.nsw \in BOOLEAN /\ inst.exact \in BOOLEAN
        /\ inst.exact => inst.op \in {"sdiv", "ashr"}
        /\ 1 \in Elements /\ inst.n \in Elements
    BY InstructionFacts DEF IInv
  <2>2. \A i \in Elements : /\ op1[i] \in Bits /\ op2[i] \in Bits
                            /\ Value(op1[i]) = Signed(op1[i]) /\ Value(op2[i]) = Signed(op2[i])
                            /\ ~Undefined(op1[i], op2[i])
    BY Operands DEF Value, InstructionUndefined
  <2>3. \A kind, E : E \subseteq Elements =>
          (HoldAt(kind, E) <=> \A i \in E : CheckHolds(kind, Signed(op1[i]), Signed(op2[i])))
    BY <2>2 DEF HoldAt, CheckAt
  <2>4. CASE inst.op \in Overflowing
    BY <2>1, <2>2, <2>3, <2>4, ClauseMeans, SignedOverflow
  <2>5. CASE inst.op \in {"sdiv", "srem"}
    <3>1. \A i \in Elements :
            /\ CheckHolds("zero", Signed(op1[i]), Signed(op2[i]))
            /\ CheckHolds("overflow", Signed(op1[i]), Signed(op2[i]))
            /\ inst.exact => CheckHolds("divisible", Signed(op1[i]), Signed(op2[i]))
      BY <2>1, <2>2, <2>5, SignedDivision
    <3>2. /\ HoldAt("zero", Elements) /\ HoldAt("overflow", Elements)
          /\ inst.exact => HoldAt("divisible", Elements)
      BY <2>3, <3>1
    <3>. QED  BY <2>5, <3>2, ClauseMeans
  <2>6. CASE inst.op = "shl"
    <3>1. inst.nsw => \A i \in {1, inst.n} : CheckHolds("shl nsw", Signed(op1[i]), Signed(op2[i]))
      BY <2>1, <2>2, <2>6, SignedShl DEF Shifts
    <3>2. inst.nsw => HoldAt("shl nsw", {1, inst.n})
      BY <2>1, <2>3, <3>1
    <3>. QED  BY <2>6, <3>2, ClauseMeans
  <2>7. CASE inst.op \notin Overflowing \cup {"sdiv", "srem", "shl"}
    <3>1. inst.exact => inst.op = "ashr"
      BY <2>1, <2>7
    <3>2. inst.exact => \A i \in Elements : CheckHolds("ashr", Signed(op1[i]), Signed(op2[i]))
      BY <2>2, <3>1, SignedAshr DEF Shifts
    <3>3. inst.exact => HoldAt(inst.op, Elements)
      BY <2>3, <3>1, <3>2
    <3>. QED  BY <2>7, <3>3, ClauseMeans
  <2>. QED  BY <2>4, <2>5, <2>6, <2>7
<1>. QED  BY <1>1, Invariance, PTL
-----------------------------------------------------------------------------
(* Remainders *)

LEMMA Remainders ==
  ASSUME NEW z \in Int, NEW M \in Nat \ {0}
  PROVE  \E q \in Int, r \in 0..(M - 1) : z = q * M + r /\ r = z % M /\ q = z \div M
<1>1. z % M \in 0..(M - 1)
  OBVIOUS
<1>2. z \div M \in Int
  OBVIOUS
<1>3. PICK q \in Int : q = z \div M
  BY <1>2
<1>4. z % M = z - M * q
  BY <1>3
<1>5. PICK r \in 0..(M - 1) : r = z % M
  BY <1>1
<1>6. PICK m \in Int : m = M * q /\ m = q * M
  OBVIOUS
<1>7. z = m + r
  BY <1>4, <1>5, <1>6
<1>. QED  BY <1>3, <1>5, <1>6, <1>7

LEMMA RestIsUnique ==
  ASSUME NEW M \in Nat \ {0}, NEW q \in Int, NEW p \in Int,
         NEW r \in 0..(M - 1), NEW s \in 0..(M - 1), q * M + r = p * M + s
  PROVE  r = s
<1>1. (q - p) * M = s - r
  OBVIOUS
<1>2. PICK k \in Int : k = q - p
  OBVIOUS
<1>3. k >= 1 => k * M >= M
  OBVIOUS
<1>4. k <= -1 => k * M <= -M
  <2>. SUFFICES ASSUME k <= -1 PROVE k * M <= -M
    OBVIOUS
  <2>1. PICK j \in Nat \ {0} : k = -j
    OBVIOUS
  <2>2. j * M >= M /\ k * M = -(j * M)
    BY <2>1
  <2>. QED  BY <2>2
<1>5. k = 0
  BY <1>1, <1>2, <1>3, <1>4
<1>. QED  BY <1>1, <1>2, <1>5

LEMMA RestOf ==
  ASSUME NEW M \in Nat \ {0}, NEW q \in Int, NEW r \in 0..(M - 1)
  PROVE  (q * M + r) % M = r
<1>. DEFINE z == q * M + r
<1>1. z \in Int
  OBVIOUS
<1>2. PICK p \in Int, s \in 0..(M - 1) : z = p * M + s /\ s = z % M
  BY <1>1, Remainders
<1>3. s = r
  BY <1>2, RestIsUnique
<1>. QED  BY <1>2, <1>3

(* Numbers that differ by a multiple have the same rest.                   *)
LEMMA SameRest ==
  ASSUME NEW M \in Nat \ {0}, NEW a \in Int, NEW b \in Int, \E k \in Int : a = b + k * M
  PROVE  a % M = b % M
<1>. PICK k \in Int : a = b + k * M
  OBVIOUS
<1>1. PICK q \in Int, r \in 0..(M - 1) : b = q * M + r /\ r = b % M
  BY Remainders
<1>2. a = (q + k) * M + r /\ q + k \in Int
  BY <1>1
<1>. QED  BY <1>1, <1>2, RestOf

LEMMA RestsAgree ==
  ASSUME NEW M \in Nat \ {0}, NEW a \in Int, NEW b \in Int, a % M = b % M
  PROVE  \E k \in Int : a = b + k * M
<1>1. PICK q \in Int, r \in 0..(M - 1) : a = q * M + r /\ r = a % M
  BY Remainders
<1>2. PICK p \in Int, s \in 0..(M - 1) : b = p * M + s /\ s = b % M
  BY Remainders
<1>3. PICK k \in Int : k = q - p
  OBVIOUS
<1>4. r = s
  BY <1>1, <1>2
<1>5. a = b + k * M
  BY <1>1, <1>2, <1>3, <1>4
<1>. QED  BY <1>5

LEMMA RestOfSmall ==
  ASSUME NEW M \in Nat \ {0}, NEW r \in 0..(M - 1)
  PROVE  r % M = r
OBVIOUS

LEMMA RestTwice ==
  ASSUME NEW M \in Nat \ {0}, NEW z \in Int
  PROVE  (z % M) % M = z % M
<1>1. z % M \in 0..(M - 1)
  OBVIOUS
<1>. QED  BY <1>1, RestOfSmall

LEMMA DivType ==
  ASSUME NEW x \in Int, NEW d \in Nat \ {0}
  PROVE  div(x, d) \in Int
<1>1. Magnitude(x) \in Nat /\ Magnitude(d) = d
  BY DEF Magnitude
<1>2. Magnitude(x) \div d \in Nat
  BY <1>1, DivOfNats
<1>. QED  BY <1>1, <1>2 DEF div

LEMMA RestAndMod ==
  ASSUME NEW x \in Nat, NEW d \in Nat \ {0}
  PROVE  mod(x, d) = x % d
<1>1. div(x, d) = x \div d /\ x \div d \in Nat
  BY DivOfNats
<1>2. PICK q \in Nat : q = x \div d
  BY <1>1
<1>3. x % d = x - d * q
  BY <1>2
<1>4. mod(x, d) = x - d * q
  BY <1>1, <1>2 DEF mod
<1>. QED  BY <1>3, <1>4

(* The signed reading of bits is the one number of its range that they are *)
(* the rest of.                                                            *)
LEMMA SignedOfRest ==
  ASSUME NEW bits \in Nat \ {0}, NEW z \in (-(2^(bits - 1)))..(2^(bits - 1) - 1)
  PROVE  SignedIn(bits, z % 2^bits) = z
<1>. DEFINE full == 2^bits
            half == 2^(bits - 1)
<1>1. half \in Nat \ {0} /\ full \in Nat \ {0} /\ full = 2 * half
  <2>1. bits - 1 \in Nat /\ (bits - 1) + 1 = bits
    OBVIOUS
  <2>2. 2^((bits - 1) + 1) = 2 * 2^(bits - 1)
    BY <2>1, PowDoubles
  <2>. QED  BY <2>1, <2>2, PowCounts
<1>2. \A x : SignedIn(bits, x) = IF x < half THEN x ELSE x - full
  BY DEF SignedIn
<1>3. z \in (-half)..(half - 1)
  OBVIOUS
<1>. HIDE DEF full, half
<1>4. CASE z >= 0
  <2>1. z \in 0..(full - 1)
    BY <1>1, <1>3, <1>4
  <2>2. z % full = z
    BY <1>1, <2>1, RestOfSmall
  <2>. QED  BY <1>1, <1>2, <1>3, <2>2 DEF full
<1>5. CASE z < 0
  <2>1. z + full \in 0..(full - 1) /\ z = (-1) * full + (z + full)
    BY <1>1, <1>3, <1>5
  <2>2. z % full = z + full
    BY <1>1, <2>1, RestOf
  <2>3. ~(z + full < half)
    BY <1>1, <1>3
  <2>. QED  BY <1>1, <1>2, <1>3, <2>2, <2>3 DEF full
<1>. QED  BY <1>3, <1>4, <1>5

LEMMA RestOfSigned ==
  ASSUME NEW x \in Bits
  PROVE  Signed(x) % 2^W = x /\ SignedIn(W, x) = Signed(x)
<1>1. PICK M \in Nat \ {0} : M = 2^W
  BY Widths
<1>2. x \in 0..(M - 1)
  BY <1>1 DEF Bits
<1>3. x % M = x
  BY <1>2, RestOfSmall
<1>4. (x - M) % M = x
  <2>1. x - M = (-1) * M + x
    BY <1>2
  <2>. QED  BY <1>2, <2>1, RestOf
<1>5. Signed(x) = x \/ Signed(x) = x - M
  BY <1>1, BitsFacts
<1>. QED  BY <1>1, <1>3, <1>4, <1>5 DEF SignedIn, Signed
-----------------------------------------------------------------------------
(* What the operators make of values that stand for the same bits          *)

LEMMA RestOfBits ==
  ASSUME NEW z \in Bits
  PROVE  z % 2^W = z
BY Widths, RestOfSmall DEF Bits

LEMMA ValueFacts ==
  ASSUME IInv, NEW x \in Bits
  PROVE  /\ Value(x) \in Int /\ \E a \in Int : Value(x) = x + a * 2^W
         /\ Value(x) % 2^W = x
         /\ mode = "bv" \/ reading = "unsigned" => Value(x) = x
         /\ mode = "int" /\ reading = "signed" => Value(x) = Signed(x)
<1>1. Value(x) = x \/ Value(x) = Signed(x)
  BY DEF Value
<1>2. x = x + 0 * 2^W /\ x - 2^W = x + (-1) * 2^W
  BY Widths, BitsFacts
<1>3. x % 2^W = x
  BY RestOfBits
<1>4. \E a \in Int : Value(x) = x + a * 2^W
  BY <1>1, <1>2, BitsFacts
<1>. QED  BY <1>1, <1>3, <1>4, BitsFacts, RestOfSigned DEF Value, IInv

LEMMA ExactCongruent ==
  ASSUME inst.op \in Overflowing, NEW M \in Nat \ {0}, NEW x \in Int, NEW y \in Int,
         NEW u \in Int, NEW v \in Int, u % M = x % M, v % M = y % M
  PROVE  Exact(inst.op, u, v) % M = Exact(inst.op, x, y) % M
<1>1. PICK a \in Int : u = x + a * M
  BY RestsAgree
<1>2. PICK b \in Int : v = y + b * M
  BY RestsAgree
<1>3. CASE inst.op = "add"
  <2>1. PICK k \in Int : k = a + b
    OBVIOUS
  <2>2. PICK s \in Int, t \in Int : s = u + v /\ t = x + y
    OBVIOUS
  <2>3. s = t + k * M
    BY <1>1, <1>2, <2>1, <2>2
  <2>4. s % M = t % M
    BY <2>3, SameRest
  <2>. QED  BY <1>3, <2>2, <2>4 DEF Exact
<1>4. CASE inst.op = "sub"
  <2>1. PICK k \in Int : k = a - b
    OBVIOUS
  <2>2. PICK s \in Int, t \in Int : s = u - v /\ t = x - y
    OBVIOUS
  <2>3. s = t + k * M
    BY <1>1, <1>2, <2>1, <2>2
  <2>4. s % M = t % M
    BY <2>3, SameRest
  <2>. QED  BY <1>4, <2>2, <2>4 DEF Exact
<1>5. CASE inst.op = "mul"
  <2>1. PICK k \in Int : k = x * b + a * y + a * b * M
    OBVIOUS
  <2>2. PICK s \in Int, t \in Int : s = u * v /\ t = x * y
    OBVIOUS
  <2>3. s = t + k * M
    BY <1>1, <1>2, <2>1, <2>2
  <2>4. s % M = t % M
    BY <2>3, SameRest
  <2>. QED  BY <1>5, <2>2, <2>4 DEF Exact
<1>. QED  BY <1>3, <1>4, <1>5 DEF Overflowing

(* Numbers made of W bits are registers.                                   *)
LEMMA FromBitsType ==
  ASSUME NEW b, \A k \in 0..(W - 1) : b[k] \in {0, 1}
  PROVE  FromBits(b) \in Bits
<1>. DEFINE Rec(g, m) == [k \in 0..m |-> IF k = 0 THEN 0 ELSE g[k - 1] + b[k - 1] * 2^(k - 1)]
            S == {m \in Nat : \E g : g = Rec(g, m)}
            w == CHOOSE g : g = Rec(g, W)
            T == {k \in Nat : k <= W => w[k] \in 0..(2^k - 1)}
<1>0. W \in Nat \ {0}
  BY RteAssumption
<1>1. FromBits(b) = w[W]
  BY DEF FromBits
<1>2. 0 \in S
  <2>. DEFINE g == [k \in 0..0 |-> 0]
  <2>1. g = Rec(g, 0)
    OBVIOUS
  <2>. QED  BY <2>1
<1>3. ASSUME NEW m \in Nat, m \in S PROVE m + 1 \in S
  <2>1. PICK g : g = Rec(g, m)
    BY <1>3
  <2>. DEFINE h == [k \in 0..(m + 1) |-> IF k = m + 1 THEN g[m] + b[m] * 2^m ELSE g[k]]
              q == Rec(h, m + 1)
  <2>2. ASSUME NEW k \in 0..(m + 1) PROVE h[k] = q[k]
    <3>1. CASE k = 0
      <4>1. 0 \in 0..m /\ 0 # m + 1
        OBVIOUS
      <4>2. Rec(g, m)[0] = 0
        BY <4>1
      <4>3. g[0] = 0
        BY <2>1, <4>2
      <4>. QED  BY <3>1, <4>1, <4>3
    <3>2. CASE k # 0
      <4>1. k - 1 \in 0..m /\ k - 1 # m + 1 /\ k - 1 \in 0..(m + 1)
        BY <3>2
      <4>2. h[k - 1] = g[k - 1]
        BY <4>1
      <4>3. CASE k = m + 1
        <5>1. k - 1 = m
          BY <4>3
        <5>. QED  BY <3>2, <4>2, <4>3, <5>1
      <4>4. CASE k # m + 1
        <5>1. k \in 0..m
          BY <4>4
        <5>2. Rec(g, m)[k] = g[k - 1] + b[k - 1] * 2^(k - 1)
          BY <3>2, <5>1
        <5>3. g[k] = g[k - 1] + b[k - 1] * 2^(k - 1)
          BY <2>1, <5>2
        <5>. QED  BY <3>2, <4>2, <4>4, <5>3
      <4>. QED  BY <4>3, <4>4
    <3>. QED  BY <3>1, <3>2
  <2>3. h = [k \in 0..(m + 1) |-> h[k]] /\ q = [k \in 0..(m + 1) |-> q[k]]
    OBVIOUS
  <2>4. h = q
    <3>. HIDE DEF h, q
    <3>. QED  BY <2>2, <2>3
  <2>5. \E f : f = Rec(f, m + 1)
    <3>1. h = Rec(h, m + 1)
      BY <2>4
    <3>. HIDE DEF h, q, Rec
    <3>. QED  BY <3>1
  <2>. QED  BY <2>5
<1>4. \A m \in Nat : m \in S
  <2>. HIDE DEF S
  <2>. QED  BY <1>2, <1>3, AllNat
<1>5. \E g : g = Rec(g, W)
  BY <1>0, <1>4
<1>6. w = Rec(w, W)
  BY <1>5
<1>. HIDE DEF w
<1>7. w[0] = 0
  <2>1. Rec(w, W)[0] = 0
    BY <1>0
  <2>. QED  BY <1>6, <2>1
<1>8. ASSUME NEW k \in 1..W PROVE w[k] = w[k - 1] + b[k - 1] * 2^(k - 1)
  <2>1. Rec(w, W)[k] = w[k - 1] + b[k - 1] * 2^(k - 1)
    BY <1>0
  <2>. QED  BY <1>6, <2>1
<1>9. 0 \in T
  BY <1>7, PowZero
<1>10. ASSUME NEW k \in Nat, k \in T PROVE k + 1 \in T
  <2>1. SUFFICES ASSUME k + 1 <= W PROVE w[k + 1] \in 0..(2^(k + 1) - 1)
    OBVIOUS
  <2>2. PICK d \in Nat \ {0} : d = 2^k /\ 2^(k + 1) = 2 * d
    BY PowCounts, PowDoubles
  <2>3. k + 1 \in 1..W /\ k + 1 - 1 = k /\ k \in 0..(W - 1)
    BY <1>0, <2>1
  <2>4. w[k + 1] = w[k] + b[k] * d
    BY <1>8, <2>2, <2>3
  <2>5. w[k] \in 0..(d - 1) /\ b[k] \in {0, 1}
    <3>1. k <= W => w[k] \in 0..(2^k - 1)
      BY <1>10
    <3>. QED  BY <1>0, <2>1, <2>2, <2>3, <3>1
  <2>6. b[k] * d \in {0, d}
    BY <2>5
  <2>7. w[k + 1] \in 0..(2 * d - 1)
    BY <2>4, <2>5, <2>6
  <2>. QED  BY <2>2, <2>7
<1>11. \A k \in Nat : k \in T
  <2>. HIDE DEF T
  <2>. QED  BY <1>9, <1>10, AllNat
<1>12. w[W] \in 0..(2^W - 1)
  BY <1>0, <1>11
<1>. QED  BY <1>1, <1>12 DEF Bits

LEMMA BitwiseType ==
  ASSUME inst.op \in BitwiseOps, NEW x \in Nat, NEW y \in Nat
  PROVE  BitwiseOf(x, y) \in Bits
<1>. DEFINE b == [k \in 0..(W - 1) |->
                    CASE inst.op = "and" -> Bit(x, k) * Bit(y, k)
                      [] inst.op = "or" -> IF Bit(x, k) = 1 THEN 1 ELSE Bit(y, k)
                      [] inst.op = "xor" -> (Bit(x, k) + Bit(y, k)) % 2]
<1>1. \A z, k \in Nat : Bit(z, k) \in {0, 1}
  <2>. SUFFICES ASSUME NEW z \in Nat, NEW k \in Nat PROVE Bit(z, k) \in {0, 1}
    OBVIOUS
  <2>1. PICK d \in Nat \ {0} : d = 2^k
    BY PowCounts
  <2>2. PICK q \in Int : q = z \div d
    BY <2>1
  <2>3. q % 2 \in {0, 1}
    BY <2>2
  <2>. QED  BY <2>1, <2>2, <2>3 DEF Bit
<1>2. ASSUME NEW k \in 0..(W - 1) PROVE b[k] \in {0, 1}
  <2>1. k \in Nat /\ Bit(x, k) \in {0, 1} /\ Bit(y, k) \in {0, 1}
    BY <1>1
  <2>2. PICK s \in {0, 1}, t \in {0, 1} : s = Bit(x, k) /\ t = Bit(y, k)
    BY <2>1
  <2>3. s * t \in {0, 1} /\ (s + t) % 2 \in {0, 1}
    OBVIOUS
  <2>. QED  BY <2>2, <2>3 DEF BitwiseOps
<1>3. BitwiseOf(x, y) = FromBits(b)
  BY DEF BitwiseOf
<1>. HIDE DEF b
<1>. QED  BY <1>2, <1>3, FromBitsType
-----------------------------------------------------------------------------
(* The equation of one element, in mode "bv"                               *)

LEMMA CastWidths ==
  /\ Narrow \in Nat /\ Wide \in Nat /\ Narrow >= 1 /\ Wide > W
  /\ 2^Narrow \in Nat \ {0} /\ 2^Wide \in Nat \ {0}
  /\ \E k \in Nat : 2^W = k * 2^Narrow
  /\ 2^W <= 2^(Wide - 1) /\ 2^W <= 2^Wide
<1>1. W \in Nat /\ Narrow \in Nat /\ Wide \in Nat /\ Narrow >= 1 /\ Wide > W
  BY RteAssumption, OpcodesAssumption
<1>2. W - Narrow \in Nat /\ (W - Narrow) + Narrow = W
  BY RteAssumption, OpcodesAssumption
<1>3. 2^W = 2^(W - Narrow) * 2^Narrow /\ 2^(W - Narrow) \in Nat
  BY <1>1, <1>2, PowOfSum, PowCounts
<1>4. ASSUME NEW n \in Nat, n >= W PROVE 2^W <= 2^n
  <2>1. n - W \in Nat /\ W + (n - W) = n
    BY <1>1, <1>4
  <2>2. 2^n = 2^W * 2^(n - W)
    BY <1>1, <2>1, PowOfSum
  <2>3. PICK a \in Nat \ {0}, b \in Nat \ {0} : a = 2^W /\ b = 2^(n - W)
    BY <1>1, <2>1, PowCounts
  <2>4. a <= a * b
    OBVIOUS
  <2>. QED  BY <2>2, <2>3, <2>4
<1>5. Wide - 1 \in Nat /\ Wide - 1 >= W /\ Wide >= W
  BY <1>1
<1>. QED  BY <1>1, <1>3, <1>4, <1>5, PowCounts

(* The result of icmp is a one or a zero, as its predicate says.           *)
LEMMA IcmpIs ==
  ASSUME inst.op \in Compare, mode \in {"int", "bv"},
         NEW x \in Int, NEW y \in Int, to_int(x) \in Int, to_int(y) \in Int
  PROVE  LET Is(truth) == IF truth THEN 1 ELSE 0
         IN  /\ inst.op = "eq" => icmp(x, y) = Is(x = y)
             /\ inst.op = "ne" => icmp(x, y) = Is(x # y)
             /\ inst.op = "ult" => icmp(x, y) = Is(x < y)
             /\ inst.op = "ule" => icmp(x, y) = Is(x <= y)
             /\ inst.op = "ugt" => icmp(x, y) = Is(x > y)
             /\ inst.op = "uge" => icmp(x, y) = Is(x >= y)
             /\ inst.op = "slt" => icmp(x, y) = Is(to_int(x) < to_int(y))
             /\ inst.op = "sle" => icmp(x, y) = Is(to_int(x) <= to_int(y))
             /\ inst.op = "sgt" => icmp(x, y) = Is(to_int(x) > to_int(y))
             /\ inst.op = "sge" => icmp(x, y) = Is(to_int(x) >= to_int(y))
<1>1. OfInt(1, 1) = 1 /\ OfInt(1, 0) = 0
  <2>1. 2^1 = 2
    BY PowZero, PowDoubles
  <2>2. 1 % 2 = 1 /\ 0 % 2 = 0
    OBVIOUS
  <2>. QED  BY <2>1, <2>2 DEF OfInt
<1>2. PICK u \in Int, v \in Int : u = to_int(x) /\ v = to_int(y)
  OBVIOUS
<1>. DEFINE L(a, b) == less(inst.op \in SignedCompare, a, b)
<1>3. /\ inst.op \in SignedCompare => ((L(x, y) <=> u < v) /\ (L(y, x) <=> v < u))
      /\ inst.op \notin SignedCompare => ((L(x, y) <=> x < y) /\ (L(y, x) <=> y < x))
  BY <1>2 DEF less
<1>4. /\ inst.op = "eq" => icmp(x, y) = IF x = y THEN 1 ELSE 0
      /\ inst.op = "ne" => icmp(x, y) = IF x # y THEN 1 ELSE 0
      /\ inst.op \in {"ult", "slt"} => icmp(x, y) = IF L(x, y) THEN 1 ELSE 0
      /\ inst.op \in {"ugt", "sgt"} => icmp(x, y) = IF L(y, x) THEN 1 ELSE 0
      /\ inst.op \in {"ule", "sle"} => icmp(x, y) = IF ~L(y, x) THEN 1 ELSE 0
      /\ inst.op \in {"uge", "sge"} => icmp(x, y) = IF ~L(x, y) THEN 1 ELSE 0
  BY <1>1 DEF icmp
<1>. HIDE DEF L
<1>5. CASE inst.op \in {"eq", "ne"} \cup UnsignedCompare
  <2>1. inst.op \notin SignedCompare
    BY <1>5 DEF UnsignedCompare, SignedCompare
  <2>. QED  BY <1>3, <1>4, <1>5, <2>1 DEF UnsignedCompare
<1>6. CASE inst.op \in SignedCompare
  BY <1>2, <1>3, <1>4, <1>6 DEF SignedCompare
<1>. QED  BY <1>5, <1>6 DEF Compare

LEMMA ComputedCompare ==
  ASSUME NEW x, NEW y
  PROVE  LET Is(truth) == IF truth THEN 1 ELSE 0
         IN  /\ inst.op = "eq" => Computed(x, y) = Is(x = y)
             /\ inst.op = "ne" => Computed(x, y) = Is(x # y)
             /\ inst.op = "ult" => Computed(x, y) = Is(x < y)
             /\ inst.op = "ule" => Computed(x, y) = Is(x <= y)
             /\ inst.op = "ugt" => Computed(x, y) = Is(x > y)
             /\ inst.op = "uge" => Computed(x, y) = Is(x >= y)
             /\ inst.op = "slt" => Computed(x, y) = Is(Signed(x) < Signed(y))
             /\ inst.op = "sle" => Computed(x, y) = Is(Signed(x) <= Signed(y))
             /\ inst.op = "sgt" => Computed(x, y) = Is(Signed(x) > Signed(y))
             /\ inst.op = "sge" => Computed(x, y) = Is(Signed(x) >= Signed(y))
BY DEF Computed, Overflowing, BitwiseOps

LEMMA ComputedIs ==
  ASSUME NEW x, NEW y
  PROVE  /\ inst.op \in Overflowing => Computed(x, y) = Exact(inst.op, x, y) % 2^W
         /\ inst.op = "udiv" => Computed(x, y) = x \div y
         /\ inst.op = "urem" => Computed(x, y) = x % y
         /\ inst.op = "sdiv" => Computed(x, y) = div(Signed(x), Signed(y)) % 2^W
         /\ inst.op = "srem" => Computed(x, y) = mod(Signed(x), Signed(y)) % 2^W
         /\ inst.op = "shl" => Computed(x, y) = (x * 2^y) % 2^W
         /\ inst.op = "lshr" => Computed(x, y) = x \div 2^y
         /\ inst.op = "ashr" => Computed(x, y) = (Signed(x) \div 2^y) % 2^W
         /\ inst.op \in BitwiseOps => Computed(x, y) = BitwiseOf(x, y)
         /\ inst.op = "trunc" => Computed(x, y) = x % 2^Narrow
         /\ inst.op = "zext" => Computed(x, y) = x
         /\ inst.op = "sext" => Computed(x, y) = Signed(x) % 2^Wide
BY DEF Computed, Overflowing, BitwiseOps

LEMMA AddInstructionIs ==
  ASSUME NEW x, NEW y
  PROVE  /\ inst.op \in Overflowing => addInstruction(x, y) = arith(inst.op, x, y)
         /\ inst.op \in {"udiv", "sdiv"} => addInstruction(x, y) = Divide(x, y)
         /\ inst.op \in {"urem", "srem"} => addInstruction(x, y) = Remainder(x, y)
         /\ inst.op = "shl" => addInstruction(x, y) = lsl(x, y)
         /\ inst.op = "lshr" => addInstruction(x, y) = lsr(x, y)
         /\ inst.op = "ashr" => addInstruction(x, y) = asr(x, y)
         /\ inst.op \in BitwiseOps => addInstruction(x, y) = bw(x, y)
         /\ inst.op = "trunc" => addInstruction(x, y) = trunc(x)
         /\ inst.op = "zext" => addInstruction(x, y) = zext(x)
         /\ inst.op = "sext" => addInstruction(x, y) = sext(x)
         /\ inst.op \in Compare => addInstruction(x, y) = icmp(x, y)
BY DEF addInstruction, Overflowing, BitwiseOps, Compare, UnsignedCompare, SignedCompare, to_uint

LEMMA BvElement ==
  ASSUME IInv, mode = "bv", NEW x \in Bits, NEW y \in Bits
  PROVE  addInstruction(x, y) = Computed(x, y)
<1>1. /\ x \in Nat /\ y \in Nat /\ Signed(x) \in Int /\ Signed(y) \in Int
      /\ inst.op \in Asserted \cup Compare \cup Casts \cup BitwiseOps
  BY BitsFacts, InstructionFacts DEF IInv
<1>2. CASE inst.op \in Overflowing
  <2>1. arith(inst.op, x, y) = Exact(inst.op, x, y) % 2^W
    BY <1>2 DEF arith, Exact, of_int
  <2>. QED  BY <1>2, <2>1, AddInstructionIs, ComputedIs
<1>3. CASE inst.op \in {"udiv", "urem", "sdiv", "srem"}
  <2>1. /\ inst.op = "udiv" => Divide(x, y) = x \div y
        /\ inst.op = "urem" => Remainder(x, y) = x % y
        /\ inst.op = "sdiv" => Divide(x, y) = div(Signed(x), Signed(y)) % 2^W
        /\ inst.op = "srem" => Remainder(x, y) = mod(Signed(x), Signed(y)) % 2^W
    BY DEF Divide, Remainder, of_int, to_int
  <2>. QED  BY <1>3, <2>1, AddInstructionIs, ComputedIs
<1>4. CASE inst.op \in {"shl", "lshr", "ashr"}
  <2>1. /\ lsl(x, y) = (x * 2^y) % 2^W
        /\ lsr(x, y) = x \div 2^y
        /\ asr(x, y) = (Signed(x) \div 2^y) % 2^W
    BY DEF lsl, lsr, asr, of_int
  <2>. QED  BY <1>4, <2>1, AddInstructionIs, ComputedIs
<1>5. CASE inst.op \in BitwiseOps
  BY <1>5, AddInstructionIs, ComputedIs DEF bw
<1>6. CASE inst.op = "trunc"
  <2>1. PICK d \in Nat \ {0} : d = 2^Narrow
    BY CastWidths
  <2>2. trunc(x) = mod(x, d) % d
    BY <2>1 DEF trunc, OfInt, to_uint
  <2>3. mod(x, d) = x % d /\ x % d \in 0..(d - 1)
    BY <1>1, RestAndMod
  <2>4. trunc(x) = x % d
    BY <2>2, <2>3, RestOfSmall
  <2>. QED  BY <1>6, <2>1, <2>4, AddInstructionIs, ComputedIs
<1>7. CASE inst.op = "zext"
  <2>1. PICK d \in Nat \ {0} : d = 2^Wide /\ x \in 0..(d - 1)
    BY <1>1, BitsFacts, CastWidths, Widths
  <2>2. x % d = x
    BY <2>1, RestOfSmall
  <2>3. zext(x) = x
    BY <2>1, <2>2 DEF zext, OfInt, to_uint
  <2>. QED  BY <1>7, <2>3, AddInstructionIs, ComputedIs
<1>8. CASE inst.op = "sext"
  <2>1. sext(x) = Signed(x) % 2^Wide
    BY DEF sext, OfInt, to_int
  <2>. QED  BY <1>8, <2>1, AddInstructionIs, ComputedIs
<1>9. CASE inst.op \in Compare
  <2>1. to_int(x) = Signed(x) /\ to_int(y) = Signed(y)
    BY DEF to_int
  <2>2. icmp(x, y) = Computed(x, y)
    BY <1>1, <1>9, <2>1, IcmpIs, ComputedCompare DEF Compare, UnsignedCompare, SignedCompare
  <2>. QED  BY <1>9, <2>2, AddInstructionIs
<1>. QED  BY <1>1, <1>2, <1>3, <1>4, <1>5, <1>6, <1>7, <1>8, <1>9 DEF Asserted, Casts
-----------------------------------------------------------------------------
(* The equation of one element, in mode "int" and read as unsigned         *)

LEMMA UnsignedElement ==
  ASSUME IInv, mode = "int", NEW x \in Bits, NEW y \in Bits,
         ~Undefined(x, y), Meaningful(y),
         inst.op \in Overflowing \cup {"shl"} => inst.nuw,
         inst.op \notin {"sdiv", "srem", "ashr", "sext"} \cup BitwiseOps \cup SignedCompare
  PROVE  addInstruction(x, y) = Computed(x, y)
<1>1. /\ x \in Nat /\ y \in Nat
      /\ inst.op \in Asserted \cup Compare \cup Casts \cup BitwiseOps
  BY BitsFacts, InstructionFacts DEF IInv
<1>2. CASE inst.op \in Overflowing
  <2>1. PICK z \in Int : z = Exact(inst.op, x, y) /\ z = arith(inst.op, x, y)
    BY <1>1, <1>2, ExactFacts
  <2>2. z \in Bits
    <3>1. inst.nuw
      BY <1>2
    <3>. QED  BY <1>2, <2>1, <3>1 DEF Undefined, Exceeds, Overflowing
  <2>3. z % 2^W = z
    BY <2>2, RestOfBits
  <2>4. addInstruction(x, y) = arith(inst.op, x, y)
    BY <1>2, AddInstructionIs
  <2>5. Computed(x, y) = Exact(inst.op, x, y) % 2^W
    BY <1>2, ComputedIs
  <2>. QED  BY <2>1, <2>3, <2>4, <2>5
<1>3. CASE inst.op \in {"udiv", "urem"}
  <2>1. y \in Nat \ {0}
    BY <1>1, <1>3 DEF Meaningful
  <2>2. div(x, y) = x \div y /\ mod(x, y) = x % y
    BY <1>1, <2>1, DivOfNats, RestAndMod
  <2>3. Divide(x, y) = div(x, y) /\ Remainder(x, y) = mod(x, y)
    BY DEF Divide, Remainder
  <2>. QED  BY <1>3, <2>2, <2>3, AddInstructionIs, ComputedIs
<1>4. CASE inst.op = "shl"
  <2>1. PICK z : z = x * 2^y
    OBVIOUS
  <2>2. z \in Bits
    BY <1>4, <2>1 DEF Undefined, Exceeds, Overflowing
  <2>3. z % 2^W = z
    BY <2>2, RestOfBits
  <2>4. lsl(x, y) = z
    BY <2>1 DEF lsl, of_int
  <2>. QED  BY <1>4, <2>1, <2>3, <2>4, AddInstructionIs, ComputedIs
<1>5. CASE inst.op = "lshr"
  <2>1. PICK d \in Nat \ {0} : d = 2^y
    BY <1>1, PowCounts
  <2>2. lsr(x, y) = div(x, d)
    BY <2>1 DEF lsr
  <2>3. div(x, d) = x \div d
    BY <1>1, DivOfNats
  <2>. QED  BY <1>5, <2>1, <2>2, <2>3, AddInstructionIs, ComputedIs
<1>6. CASE inst.op = "trunc"
  <2>1. PICK d \in Nat \ {0} : d = 2^Narrow
    BY CastWidths
  <2>2. trunc(x) = mod(x, d)
    BY <2>1 DEF trunc, OfInt, to_uint
  <2>3. mod(x, d) = x % d
    BY <1>1, RestAndMod
  <2>. QED  BY <1>6, <2>1, <2>2, <2>3, AddInstructionIs, ComputedIs
<1>7. CASE inst.op = "zext"
  <2>1. zext(x) = x
    BY DEF zext, OfInt, to_uint
  <2>. QED  BY <1>7, <2>1, AddInstructionIs, ComputedIs
<1>8. CASE inst.op \in {"eq", "ne"} \cup UnsignedCompare
  <2>1. to_int(x) = x /\ to_int(y) = y /\ inst.op \in Compare
    BY <1>8 DEF to_int, Compare
  <2>2. icmp(x, y) = Computed(x, y)
    BY <1>1, <1>8, <2>1, IcmpIs, ComputedCompare DEF UnsignedCompare
  <2>. QED  BY <2>1, <2>2, AddInstructionIs
<1>. QED  BY <1>1, <1>2, <1>3, <1>4, <1>5, <1>6, <1>7, <1>8 DEF Asserted, Casts, Compare
-----------------------------------------------------------------------------
(* The equation of one element, in mode "int" and read as signed           *)

(* LLVM's own operation on the bits is right but for a multiple of 2^W.    *)
LEMMA WrappedRight ==
  ASSUME IInv, mode = "int", inst.op \in Overflowing, NEW x \in Bits, NEW y \in Bits
  PROVE  /\ Exact(inst.op, Value(x), Value(y)) \in Int
         /\ arith(inst.op, Value(x), Value(y)) = Exact(inst.op, Value(x), Value(y))
         /\ Exact(inst.op, Value(x), Value(y)) % 2^W = Exact(inst.op, x, y) % 2^W
<1>1. PICK M \in Nat \ {0} : M = 2^W
  BY Widths
<1>2. PICK u \in Int, v \in Int : u = Value(x) /\ v = Value(y)
  BY ValueFacts
<1>3. x \in Int /\ y \in Int /\ x % M = x /\ y % M = y
  BY <1>1, BitsFacts, RestOfBits
<1>4. u % M = x % M /\ v % M = y % M
  BY <1>1, <1>2, <1>3, ValueFacts
<1>5. /\ Exact(inst.op, u, v) \in Int /\ arith(inst.op, u, v) = Exact(inst.op, u, v)
      /\ Exact(inst.op, u, v) % M = Exact(inst.op, x, y) % M
  BY <1>2, <1>3, <1>4, ExactFacts, ExactCongruent
<1>. QED  BY <1>1, <1>2, <1>5

LEMMA ShiftedRight ==
  ASSUME IInv, mode = "int", NEW x \in Bits, NEW n \in Nat
  PROVE  /\ Value(x) * 2^n \in Int /\ lsl(Value(x), n) = Value(x) * 2^n
         /\ (Value(x) * 2^n) % 2^W = (x * 2^n) % 2^W
<1>1. PICK M \in Nat \ {0}, d \in Nat \ {0} : M = 2^W /\ d = 2^n
  BY Widths, PowCounts
<1>2. PICK u \in Int, a \in Int : u = Value(x) /\ u = x + a * M
  BY <1>1, ValueFacts
<1>3. PICK k \in Int : k = a * d
  OBVIOUS
<1>4. u * d = x * d + k * M /\ x * d \in Int /\ u * d \in Int
  BY <1>2, <1>3, BitsFacts
<1>5. (u * d) % M = (x * d) % M
  BY <1>4, SameRest
<1>. QED  BY <1>1, <1>2, <1>4, <1>5 DEF lsl, of_int

(* Quotients stay in the range, but for the one that overflows; so do rests. *)
LEMMA QuotientFacts ==
  ASSUME NEW a \in SignedRange, NEW b \in SignedRange, b # 0,
         ~(a = -(2^(W - 1)) /\ b = -1)
  PROVE  div(a, b) \in SignedRange /\ mod(a, b) \in SignedRange
<1>. DEFINE half == 2^(W - 1)
            m == Magnitude(a)
            d == Magnitude(b)
<1>1. half \in Nat \ {0} /\ SignedRange = (-half)..(half - 1)
  BY Widths DEF SignedRange
<1>. HIDE DEF half
<1>2. a \in Int /\ b \in Int /\ m \in Nat /\ d \in Nat \ {0} /\ m <= half /\ d <= half
  BY <1>1 DEF Magnitude
<1>. HIDE DEF m, d
<1>3. PICK q \in Nat, r \in 0..(d - 1) : q = m \div d /\ m = q * d + r
  <2>1. PICK q \in Int, r \in 0..(d - 1) : m = q * d + r /\ q = m \div d
    BY <1>2, Remainders
  <2>2. m \div d \in Nat
    BY <1>2, DivOfNats
  <2>. QED  BY <2>1, <2>2
<1>4. q <= m /\ (d >= 2 => q + q <= m)
  <2>1. q * d >= q
    BY <1>2
  <2>2. d >= 2 => q * d >= q + q
    BY <1>2
  <2>3. q * d \in Nat
    BY <1>2
  <2>. QED  BY <1>2, <1>3, <2>1, <2>2, <2>3
<1>5. div(a, b) = IF (a < 0) = (b < 0) THEN q ELSE -q
  BY <1>3 DEF div, m, d
<1>6. div(a, b) \in SignedRange
  <2>1. CASE d >= 2
    <3>1. q + q <= half
      BY <1>1, <1>2, <1>4, <2>1
    <3>2. q <= half - 1
      BY <1>1, <3>1
    <3>. QED  BY <1>1, <1>5, <3>2
  <2>2. CASE d = 1
    <3>1. b = 1 \/ b = -1
      BY <1>2, <2>2 DEF Magnitude, m, d
    <3>2. q = m
      <4>1. r = 0 /\ q * 1 = q
        BY <2>2
      <4>. QED  BY <1>3, <2>2, <4>1
    <3>3. a # -half \/ b # -1
      BY DEF half
    <3>. QED  BY <1>1, <1>2, <1>5, <3>1, <3>2, <3>3 DEF Magnitude, m, d
  <2>. QED  BY <1>2, <2>1, <2>2
<1>7. mod(a, b) = IF a < 0 THEN -r ELSE r
  <2>1. PICK t \in Nat : t = q * d
    BY <1>2
  <2>2. b * div(a, b) = IF a < 0 THEN -t ELSE t
    <3>1. q * b = b * q /\ b * (-q) = -(q * b) /\ q * (-b) = -(q * b)
      BY <1>2
    <3>2. q * b = IF b < 0 THEN -t ELSE t
      BY <1>2, <2>1, <3>1 DEF Magnitude, m, d
    <3>. QED  BY <1>2, <1>5, <3>1, <3>2
  <2>3. m = t + r
    BY <1>3, <2>1
  <2>4. mod(a, b) = a - b * div(a, b)
    BY DEF mod
  <2>. QED  BY <1>2, <2>2, <2>3, <2>4 DEF Magnitude, m, d
<1>8. mod(a, b) \in SignedRange
  BY <1>1, <1>2, <1>7
<1>. QED  BY <1>6, <1>8

(* Of a multiple both quotients are the same, and no further from zero.    *)
LEMMA ExactQuotient ==
  ASSUME NEW z \in SignedRange, NEW d \in Nat \ {0}, z % d = 0
  PROVE  div(z, d) = z \div d /\ div(z, d) \in SignedRange
<1>. DEFINE half == 2^(W - 1)
<1>1. half \in Nat \ {0} /\ SignedRange = (-half)..(half - 1)
  BY Widths DEF SignedRange
<1>. HIDE DEF half
<1>2. PICK k \in Int : z = k * d /\ k = z \div d
  <2>1. PICK k \in Int, t \in 0..(d - 1) : z = k * d + t /\ t = z % d /\ k = z \div d
    BY <1>1, Remainders
  <2>. QED  BY <2>1
<1>3. div(z, d) = k
  BY <1>2, DivOfMultiple
<1>4. k \in (-half)..(half - 1)
  <2>1. k >= 0 => k <= k * d
    OBVIOUS
  <2>2. k < 0 => k * d <= k
    <3>. SUFFICES ASSUME k < 0 PROVE k * d <= k
      OBVIOUS
    <3>1. PICK j \in Nat \ {0} : k = -j
      OBVIOUS
    <3>2. j * d >= j /\ k * d = -(j * d)
      BY <3>1
    <3>. QED  BY <3>1, <3>2
  <2>. QED  BY <1>1, <1>2, <2>1, <2>2
<1>. QED  BY <1>1, <1>2, <1>3, <1>4

LEMMA WidthIs ==
  /\ inst.op = "trunc" => Width = Narrow
  /\ inst.op = "sext" => Width = Wide
  /\ inst.op \notin Compare \cup Casts => Width = W
BY DEF Width, Casts, Compare, UnsignedCompare, SignedCompare

(* A number of the signed range is what its rest is read as.               *)
LEMMA ReadsBack ==
  ASSUME NEW z \in SignedRange
  PROVE  SignedIn(W, z % 2^W) = z
BY SignedOfRest, RteAssumption DEF SignedRange

LEMMA SignedElement ==
  ASSUME IInv, mode = "int", reading = "signed", NEW x \in Bits, NEW y \in Bits,
         ~Undefined(x, y), Shifts => y < W,
         inst.op \in Overflowing \cup {"shl"} => inst.nsw,
         inst.op = "ashr" => inst.exact,
         inst.op \notin {"udiv", "urem", "lshr", "zext", "trunc"} \cup UnsignedCompare
  PROVE  addInstruction(Signed(x), Signed(y)) =
           IF inst.op \in Compare THEN Computed(x, y) ELSE SignedIn(Width, Computed(x, y))
<1>. DEFINE u == Signed(x)
            v == Signed(y)
<1>1. /\ u \in Int /\ v \in Int /\ u \in SignedRange /\ v \in SignedRange
      /\ x \in Nat /\ y \in Nat /\ u = Value(x) /\ v = Value(y)
      /\ inst.op \in Asserted \cup Compare \cup Casts \cup BitwiseOps
  BY BitsFacts, ValueFacts, InstructionFacts DEF IInv
<1>2. inst.op \notin Compare \cup Casts => Width = W
  BY WidthIs
<1>3. CASE inst.op \in Overflowing
  <2>1. PICK z \in Int : /\ z = Exact(inst.op, u, v) /\ z = arith(inst.op, u, v)
                         /\ z % 2^W = Exact(inst.op, x, y) % 2^W
    BY <1>1, <1>3, WrappedRight
  <2>2. z \in SignedRange
    <3>1. inst.nsw
      BY <1>3
    <3>. QED  BY <1>3, <2>1, <3>1 DEF Undefined, Exceeds, Overflowing
  <2>3. addInstruction(u, v) = z
    BY <1>3, <2>1, AddInstructionIs
  <2>4. Computed(x, y) = z % 2^W
    BY <1>3, <2>1, ComputedIs
  <2>5. inst.op \notin Compare \cup Casts
    BY <1>3 DEF Overflowing, Compare, UnsignedCompare, SignedCompare, Casts
  <2>. QED  BY <1>2, <2>2, <2>3, <2>4, <2>5, ReadsBack
<1>4. CASE inst.op \in {"sdiv", "srem"}
  <2>1. y # 0 /\ ~(u = -(2^(W - 1)) /\ v = -1)
    BY <1>4 DEF Undefined, Overflowing
  <2>2. v # 0
    BY <2>1, BitsFacts
  <2>3. div(u, v) \in SignedRange /\ mod(u, v) \in SignedRange
    BY <1>1, <2>1, <2>2, QuotientFacts
  <2>4. Divide(u, v) = div(u, v) /\ Remainder(u, v) = mod(u, v)
    BY DEF Divide, Remainder
  <2>5. inst.op \notin Compare \cup Casts
    BY <1>4 DEF Compare, UnsignedCompare, SignedCompare, Casts
  <2>6. inst.op = "sdiv" => addInstruction(u, v) = SignedIn(W, Computed(x, y))
    BY <2>3, <2>4, AddInstructionIs, ComputedIs, ReadsBack
  <2>7. inst.op = "srem" => addInstruction(u, v) = SignedIn(W, Computed(x, y))
    BY <2>3, <2>4, AddInstructionIs, ComputedIs, ReadsBack
  <2>. QED  BY <1>2, <1>4, <2>5, <2>6, <2>7
<1>5. CASE inst.op = "shl"
  <2>1. y < W /\ v = y
    BY <1>5, BitsFacts DEF Shifts
  <2>2. PICK z \in Int : z = u * 2^y /\ lsl(u, y) = z /\ z % 2^W = (x * 2^y) % 2^W
    BY <1>1, ShiftedRight
  <2>3. z \in SignedRange
    BY <1>5, <2>2 DEF Undefined, Exceeds, Overflowing
  <2>4. inst.op \notin Compare \cup Casts
    BY <1>5 DEF Compare, UnsignedCompare, SignedCompare, Casts
  <2>5. addInstruction(u, v) = z
    BY <1>5, <2>1, <2>2, AddInstructionIs
  <2>6. Computed(x, y) = z % 2^W
    BY <1>5, <2>2, ComputedIs
  <2>. QED  BY <1>2, <2>3, <2>4, <2>5, <2>6, ReadsBack
<1>6. CASE inst.op = "ashr"
  <2>1. y < W /\ v = y /\ x % 2^y = 0
    BY <1>6, BitsFacts DEF Shifts, Undefined, Overflowing
  <2>2. PICK d \in Nat \ {0} : d = 2^y
    BY <1>1, PowCounts
  <2>3. u % d = 0
    BY <1>1, <2>1, <2>2, SignedRest
  <2>4. div(u, d) = u \div d /\ div(u, d) \in SignedRange
    BY <1>1, <2>3, ExactQuotient
  <2>5. asr(u, y) = div(u, d)
    BY <2>2 DEF asr
  <2>6. inst.op \notin Compare \cup Casts
    BY <1>6 DEF Compare, UnsignedCompare, SignedCompare, Casts
  <2>7. addInstruction(u, v) = div(u, d)
    BY <1>6, <2>1, <2>5, AddInstructionIs
  <2>8. Computed(x, y) = div(u, d) % 2^W
    BY <1>6, <2>2, <2>4, ComputedIs
  <2>. QED  BY <1>2, <2>4, <2>6, <2>7, <2>8, ReadsBack
<1>7. CASE inst.op \in BitwiseOps
  <2>1. u % 2^W = x /\ v % 2^W = y
    BY RestOfSigned
  <2>2. BitwiseOf(x, y) \in Bits
    BY <1>1, <1>7, BitwiseType
  <2>3. bw(u, v) = SignedIn(W, BitwiseOf(x, y))
    BY <2>1, <2>2, RestOfSigned DEF bw
  <2>4. inst.op \notin Compare \cup Casts
    BY <1>7 DEF BitwiseOps, Compare, UnsignedCompare, SignedCompare, Casts
  <2>. QED  BY <1>2, <1>7, <2>3, <2>4, AddInstructionIs, ComputedIs
<1>8. CASE inst.op = "sext"
  <2>1. sext(u) = u
    BY DEF sext, OfInt, to_int
  <2>2. u \in (-(2^(Wide - 1)))..(2^(Wide - 1) - 1)
    <3>1. PICK h \in Nat \ {0}, f \in Nat \ {0}, w \in Nat :
             h = 2^(W - 1) /\ f = 2^W /\ w = 2^(Wide - 1) /\ f = 2 * h /\ f <= w
      <4>1. Wide - 1 \in Nat
        BY CastWidths, RteAssumption
      <4>. QED  BY <4>1, Widths, PowCounts, CastWidths
    <3>2. -h <= u /\ u <= h - 1
      BY <3>1, BitsFacts
    <3>3. u \in (-w)..(w - 1)
      BY <1>1, <3>1, <3>2
    <3>. QED  BY <3>1, <3>3
  <2>3. SignedIn(Wide, u % 2^Wide) = u
    <3>1. Wide \in Nat \ {0}
      BY CastWidths, RteAssumption
    <3>. HIDE DEF u
    <3>. QED  BY <2>2, <3>1, SignedOfRest
  <2>4. Computed(x, y) = u % 2^Wide /\ addInstruction(u, v) = u
    BY <1>8, <2>1, AddInstructionIs, ComputedIs
  <2>5. inst.op \notin Compare /\ Width = Wide
    BY <1>8, WidthIs DEF Compare, UnsignedCompare, SignedCompare
  <2>. QED  BY <2>3, <2>4, <2>5
<1>9. CASE inst.op \in {"eq", "ne"} \cup SignedCompare
  <2>1. to_int(u) = u /\ to_int(v) = v /\ inst.op \in Compare
    BY <1>9 DEF to_int, Compare
  <2>2. u = v <=> x = y
    BY RestOfSigned
  <2>3. icmp(u, v) = Computed(x, y)
    BY <1>1, <1>9, <2>1, <2>2, IcmpIs, ComputedCompare DEF SignedCompare
  <2>. QED  BY <2>1, <2>3, AddInstructionIs
<1>. QED  BY <1>1, <1>3, <1>4, <1>5, <1>6, <1>7, <1>8, <1>9 DEF Asserted, Casts, Compare
-----------------------------------------------------------------------------
(* What every reading keeps: the value modulo 2^Width                      *)

LEMMA CongruentElement ==
  ASSUME IInv, NEW x \in Bits, NEW y \in Bits, Shifts => y < W,
         inst.op \in Overflowing \cup BitwiseOps \cup {"shl", "trunc"}
  PROVE  addInstruction(Value(x), Value(y)) % 2^Width = Computed(x, y)
<1>. DEFINE u == Value(x)
            v == Value(y)
<1>0. x \in Int
  BY BitsFacts
<1>1. /\ u \in Int /\ v \in Int /\ x \in Nat /\ y \in Nat /\ u % 2^W = x /\ v % 2^W = y
      /\ mode = "bv" => u = x /\ v = y
      /\ mode \in {"int", "bv"}
  BY BitsFacts, ValueFacts DEF IInv
<1>. HIDE DEF u, v
<1>2. PICK M \in Nat \ {0} : M = 2^W
  BY Widths
<1>3. PICK N \in Nat \ {0} : N = 2^Narrow
  BY CastWidths
<1>4. inst.op # "trunc" => Width = W
  BY WidthIs DEF Overflowing, BitwiseOps, Casts, Compare, UnsignedCompare, SignedCompare
<1>5. CASE inst.op \in Overflowing
  <2>1. PICK z \in Int : z = Exact(inst.op, x, y)
    BY <1>1, <1>5, ExactFacts
  <2>2. Computed(x, y) = z % M
    BY <1>2, <1>5, <2>1, ComputedIs
  <2>3. addInstruction(u, v) % M = z % M
    <3>1. CASE mode = "bv"
      <4>1. addInstruction(u, v) = z % M
        BY <1>1, <2>2, <3>1, BvElement
      <4>. QED  BY <2>1, <4>1, RestTwice
    <3>2. CASE mode = "int"
      BY <1>2, <1>5, <2>1, <3>2, WrappedRight, AddInstructionIs DEF u, v
    <3>. QED  BY <1>1, <3>1, <3>2
  <2>4. inst.op # "trunc"
    BY <1>5 DEF Overflowing
  <2>. QED  BY <1>2, <1>4, <2>2, <2>3, <2>4 DEF u, v
<1>6. CASE inst.op = "shl"
  <2>1. PICK z \in Int : z = x * 2^y
    <3>1. PICK d \in Nat : d = 2^y
      BY <1>1, PowCounts
    <3>2. x * d \in Int
      BY <1>1
    <3>. QED  BY <3>1, <3>2
  <2>2. Computed(x, y) = z % M
    BY <1>2, <1>6, <2>1, ComputedIs
  <2>3. v = y
    BY <1>6, ValueFacts, BitsFacts DEF IInv, Shifts, v
  <2>4. addInstruction(u, v) % M = z % M
    <3>1. CASE mode = "bv"
      <4>1. addInstruction(u, v) = z % M
        BY <1>1, <2>2, <3>1, BvElement
      <4>. QED  BY <2>1, <4>1, RestTwice
    <3>2. CASE mode = "int"
      <4>1. addInstruction(u, v) = lsl(u, y)
        BY <1>6, <2>3, AddInstructionIs
      <4>. QED  BY <1>1, <1>2, <2>1, <3>2, <4>1, ShiftedRight DEF u
    <3>. QED  BY <1>1, <3>1, <3>2
  <2>. QED  BY <1>2, <1>4, <1>6, <2>2, <2>4 DEF u, v
<1>7. CASE inst.op \in BitwiseOps
  <2>1. PICK z \in Bits : z = BitwiseOf(x, y)
    BY <1>1, <1>7, BitwiseType
  <2>2. Computed(x, y) = z
    BY <1>7, <2>1, ComputedIs
  <2>3. addInstruction(u, v) = IF mode = "bv" THEN z ELSE Signed(z)
    BY <1>1, <1>7, <2>1, AddInstructionIs DEF bw
  <2>4. z % M = z /\ Signed(z) % M = z
    BY <1>2, RestOfBits, RestOfSigned
  <2>5. inst.op # "trunc"
    BY <1>7 DEF BitwiseOps
  <2>. QED  BY <1>2, <1>4, <2>2, <2>3, <2>4, <2>5 DEF u, v
<1>8. CASE inst.op = "trunc"
  <2>1. Computed(x, y) = x % N
    BY <1>3, <1>8, ComputedIs
  <2>2. addInstruction(u, v) % N = x % N
    <3>1. CASE mode = "bv"
      <4>1. addInstruction(u, v) = x % N
        BY <1>1, <2>1, <3>1, BvElement
      <4>. QED  BY <1>0, <4>1, RestTwice
    <3>2. CASE mode = "int"
      <4>1. addInstruction(u, v) = mod(u, N)
        BY <1>3, <1>8, <3>2, AddInstructionIs DEF trunc, OfInt, to_uint
      <4>2. PICK q \in Int : q = div(u, N)
        BY <1>1, DivType
      <4>3. PICK r \in Int : r = mod(u, N) /\ r = u - N * q
        BY <1>1, <4>2 DEF mod
      <4>4. PICK a \in Int : u = x + a * M
        <5>1. u % M = x % M
          BY <1>1, <1>2, RestOfBits
        <5>. QED  BY <1>0, <1>1, <5>1, RestsAgree
      <4>5. PICK c \in Nat : M = c * N
        BY <1>2, <1>3, CastWidths
      <4>6. PICK k \in Int : k = a * c - q
        OBVIOUS
      <4>7. r = x + k * N
        BY <1>1, <4>3, <4>4, <4>5, <4>6
      <4>8. r % N = x % N
        BY <1>0, <4>7, SameRest
      <4>. QED  BY <4>1, <4>3, <4>8
    <3>. QED  BY <1>1, <3>1, <3>2
  <2>3. Width = Narrow
    BY <1>8, WidthIs
  <2>. QED  BY <1>3, <2>1, <2>2, <2>3 DEF u, v
<1>. QED  BY <1>5, <1>6, <1>7, <1>8
-----------------------------------------------------------------------------
(* What whyr writes of an instruction whose behaviour is defined is true   *)
(* of what LLVM computes, whatever the widths and the operands: in mode    *)
(* "bv" always, and in mode "int" as far as the operators fit the reading. *)
THEOREM EquationsAlwaysTrue == Spec => []EquationsTrue
<1>1. IInv => EquationsTrue
  <2>. SUFFICES ASSUME IInv, InScope, ~InstructionUndefined
                PROVE  TrueOfBitVectors /\ KeepsUnsigned /\ KeepsSigned /\ KeepsCongruent
    BY DEF EquationsTrue
  <2>1. \A i \in Elements : /\ op1[i] \in Bits /\ op2[i] \in Bits
                            /\ ~Undefined(op1[i], op2[i])
                            /\ Shifts => op2[i] < W
                            /\ Assumed[i] = addInstruction(Value(op1[i]), Value(op2[i]))
    BY Operands DEF InScope, InstructionUndefined, Assumed
  <2>2. TrueOfBitVectors
    <3>. SUFFICES ASSUME mode = "bv", NEW i \in Elements
                  PROVE  Assumed[i] = Computed(op1[i], op2[i])
      BY DEF TrueOfBitVectors, Equations, IsBits
    <3>1. Value(op1[i]) = op1[i] /\ Value(op2[i]) = op2[i]
      BY DEF Value
    <3>. QED  BY <2>1, <3>1, BvElement
  <2>3. KeepsUnsigned
    <3>. SUFFICES ASSUME mode = "int", reading = "unsigned",
                         inst.op \in Overflowing \cup {"shl"} => inst.nuw,
                         inst.op \notin {"sdiv", "srem", "ashr", "sext"}
                                          \cup BitwiseOps \cup SignedCompare,
                         NEW i \in Elements, Meaningful(Value(op2[i]))
                  PROVE  Assumed[i] = Computed(op1[i], op2[i])
      BY DEF KeepsUnsigned, Equations, IsBits
    <3>1. Value(op1[i]) = op1[i] /\ Value(op2[i]) = op2[i]
      BY DEF Value
    <3>. QED  BY <2>1, <3>1, UnsignedElement
  <2>4. KeepsSigned
    <3>. SUFFICES ASSUME mode = "int", reading = "signed",
                         inst.op \in Overflowing \cup {"shl"} => inst.nsw,
                         inst.op = "ashr" => inst.exact,
                         inst.op \notin {"udiv", "urem", "lshr", "zext", "trunc"}
                                          \cup UnsignedCompare,
                         NEW i \in Elements
                  PROVE  IF inst.op \in Compare THEN Assumed[i] = Computed(op1[i], op2[i])
                         ELSE Assumed[i] = SignedIn(Width, Computed(op1[i], op2[i]))
      BY DEF KeepsSigned, Equations, IsBits, IsSigned
    <3>1. Value(op1[i]) = Signed(op1[i]) /\ Value(op2[i]) = Signed(op2[i])
      BY DEF Value
    <3>. QED  BY <2>1, <3>1, SignedElement
  <2>5. KeepsCongruent
    <3>. SUFFICES ASSUME inst.op \in Overflowing \cup BitwiseOps \cup {"shl", "trunc"},
                         NEW i \in Elements
                  PROVE  Assumed[i] % 2^Width = Computed(op1[i], op2[i])
      BY DEF KeepsCongruent, Equations, IsCongruent
    <3>. QED  BY <2>1, CongruentElement
  <2>. QED  BY <2>2, <2>3, <2>4, <2>5
<1>. QED  BY <1>1, Invariance, PTL
=============================================================================
