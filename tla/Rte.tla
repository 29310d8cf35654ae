-------------------------------- MODULE Rte --------------------------------
(***************************************************************************)
(* The runtime error assertions of src/rte.cpp, and what they mean in the  *)
(* two integer theories of src/esc_why3.cpp (--int-mode).                  *)
(*                                                                         *)
(* addRTE looks at the opcode and the flags of an instruction and builds   *)
(* its assertion, for a vector out of one check per element.  The clause   *)
(* is the set of the checks that are joined by AND.  The instruction then  *)
(* runs on some operands, and the checks are evaluated as Why3 reads them. *)
(*                                                                         *)
(* In mode "int" an LLVM integer is an unbounded Why3 int, which stands    *)
(* for the register's bits read as signed or as unsigned; in mode "bv" it  *)
(* is a bit vector.  A register holds W bits, written as 0..2^W - 1.       *)
(***************************************************************************)
EXTENDS Integers

CONSTANTS W,             (* bits of an integer                             *)
          MaxElements    (* the largest vector                             *)

ASSUME RteAssumption == W \in Nat \ {0} /\ MaxElements \in Nat \ {0}

VARIABLES inst,      (* the instruction: opcode, flags, number of elements *)
          mode,      (* settings->why3IntMode                              *)
          reading,   (* how an int stands for the bits, in mode "int"      *)
          clause,    (* the checks of the assertion                        *)
          stage,     (* "build", "built", "executed" or "crashed"          *)
          op1, op2   (* the operands, one per element                      *)

rteVars == <<inst, mode, reading, clause, stage, op1, op2>>

Bits == 0..(2^W - 1)
Signed(x) == IF x < 2^(W - 1) THEN x ELSE x - 2^W
Overflowing == {"add", "sub", "mul"}
Asserted == Overflowing \cup {"shl", "udiv", "urem", "sdiv", "srem", "lshr", "ashr"}

(* Without an assertion: icmp (by its predicate), casts, bitwise operators. *)
UnsignedCompare == {"ult", "ule", "ugt", "uge"}
SignedCompare == {"slt", "sle", "sgt", "sge"}
Compare == {"eq", "ne"} \cup UnsignedCompare \cup SignedCompare
Casts == {"trunc", "zext", "sext"}
BitwiseOps == {"and", "or", "xor"}

Instructions ==
  { I \in [ op : Asserted \cup Compare \cup Casts \cup BitwiseOps,
            nuw : BOOLEAN, nsw : BOOLEAN, exact : BOOLEAN,
            vector : BOOLEAN, n : 1..MaxElements ] :
      /\ I.nuw \/ I.nsw => I.op \in Overflowing \cup {"shl"}
      /\ I.exact => I.op \in {"udiv", "sdiv", "lshr", "ashr"}
      /\ ~I.vector => I.n = 1 }

Init ==
  /\ inst \in Instructions
  /\ \/ mode = "int" /\ reading \in {"signed", "unsigned"}
     \/ mode = "bv" /\ reading = "unsigned"
  /\ clause = {} /\ stage = "build"
  /\ op1 = <<>> /\ op2 = <<>>
-----------------------------------------------------------------------------
(* The clause addRTE builds *)

Checks(kind, elements) == {[kind |-> kind, elem |-> i] : i \in elements}
Elements == 1..inst.n

getBinMathOverflowExpr ==
  (IF inst.nuw THEN Checks("nuw", Elements) ELSE {}) \cup
  (IF inst.nsw THEN Checks("nsw", Elements) ELSE {})

FaultyDivisionBreaks ==
  LET signed == inst.op \in {"sdiv", "srem"}
  IN (IF signed THEN Checks("overflow", Elements) ELSE Checks("zero", Elements))
     \cup (IF inst.exact THEN Checks("divisible", Elements) ELSE {})

(* SDiv and SRem fall through into UDiv and URem. *)
Division ==
  LET signed == inst.op \in {"sdiv", "srem"}
  IN Checks("zero", Elements)
     \cup (IF signed THEN Checks("overflow", Elements) ELSE {})
     \cup (IF inst.exact THEN Checks("divisible", Elements) ELSE {})

(* For a vector nuw and nsw stay at the first element, and every further   *)
(* one replaces the one before; ANDing nsw and nuw leaves the first alone. *)
(* For a scalar the nsw check is stored into nuw.                          *)
ShlChecks ==
  CASE inst.nuw /\ inst.nsw /\ inst.vector -> Checks("shl nuw", {1}) \cup Checks("shl nsw", {1})
    [] inst.nsw /\ (~inst.nuw \/ ~inst.vector) -> Checks("shl nsw", {1, inst.n})
    [] inst.nuw /\ ~inst.nsw -> Checks("shl nuw", {1, inst.n})
    [] OTHER -> {}

ShrChecks == IF inst.exact THEN Checks(inst.op, Elements) ELSE {}

(* The first element of an exact vector udiv is joined to no expression at *)
(* all, whose checkTypes is then called.                                   *)
JoinsNull == inst.op = "udiv" /\ inst.exact /\ inst.vector

Assertion ==
  CASE inst.op \in Overflowing -> getBinMathOverflowExpr
    [] inst.op \in {"udiv", "urem", "sdiv", "srem"} -> Division
    [] inst.op = "shl" -> ShlChecks
    [] OTHER -> ShrChecks

addRTE ==
  /\ stage = "build" /\ ~JoinsNull
  /\ clause' = Assertion
  /\ stage' = "built"
  /\ UNCHANGED <<inst, mode, reading, op1, op2>>

addRTECrashes ==
  /\ stage = "build" /\ JoinsNull
  /\ stage' = "crashed"
  /\ UNCHANGED <<inst, mode, reading, clause, op1, op2>>

(* The program runs the instruction. *)
Execute ==
  /\ stage = "built"
  /\ op1' \in [Elements -> Bits] /\ op2' \in [Elements -> Bits]
  /\ stage' = "executed"
  /\ UNCHANGED <<inst, mode, reading, clause>>

Next == addRTE \/ addRTECrashes \/ Execute
Spec == Init /\ [][Next]_rteVars
-----------------------------------------------------------------------------
(* theory LLVMInt: its type t, its constants and its operations *)

Value(x) == IF mode = "int" /\ reading = "signed" THEN Signed(x) ELSE x
of_int(z) == IF mode = "bv" THEN z % 2^W ELSE z
to_int(x) == IF mode = "bv" THEN Signed(x) ELSE x
to_uint(x) == x

(* int.ComputerDivision rounds towards zero. *)
Magnitude(x) == IF x < 0 THEN -x ELSE x
div(x, y) == LET q == Magnitude(x) \div Magnitude(y)
             IN IF (x < 0) = (y < 0) THEN q ELSE -q
mod(x, y) == x - y * div(x, y)

arith(op, x, y) == of_int(CASE op = "add" -> x + y [] op = "sub" -> x - y
                            [] op = "mul" -> x * y)
lsl(x, n) == of_int(x * 2^n)
lsr(x, n) == IF mode = "bv" THEN x \div 2^n ELSE div(x, 2^n)
asr(x, n) == IF mode = "bv" THEN of_int(Signed(x) \div 2^n) ELSE div(x, 2^n)
ule(x, y) == x <= y
sle(x, y) == to_int(x) <= to_int(y)

(* The constants as they are printed: MAXINT is a one and W - 1 zeros,     *)
(* MININT minus a one and W zeros, and -1 is printed unsigned.             *)
MAXUINT == of_int(2^W - 1)
MINUINT == of_int(0)
FaultyMAXINT == of_int(2^(W - 1) \div 2)
MAXINT == of_int(2^(W - 1))
MININT == of_int(-(2^W))
MinusOne == of_int(2^W - 1)

FaultyNoOverflow(unsigned, z) ==
  IF unsigned THEN ule(MINUINT, z) ELSE sle(MININT, z) /\ sle(z, MAXINT)

NoOverflow(unsigned, z) ==
  IF unsigned THEN ule(MINUINT, z) /\ ule(z, MAXUINT)
  ELSE sle(MININT, z) /\ sle(z, MAXINT)

(* A check on the values x, y of one element.  Nothing is known of pow2 of *)
(* a negative number or of a division by zero, so nothing can be proved.   *)
Shift(y) == IF inst.op = "shl" /\ inst.nsw /\ inst.vector THEN to_int(y) ELSE to_uint(y)
CheckHolds(kind, x, y) ==
  CASE kind = "nuw" -> NoOverflow(TRUE, arith(inst.op, x, y))
    [] kind = "nsw" -> NoOverflow(FALSE, arith(inst.op, x, y))
    [] kind = "overflow" -> x # MININT \/ y # MinusOne
    [] kind = "zero" -> y # of_int(0)
    [] kind = "divisible" -> to_int(y) # 0 /\ mod(to_int(x), to_int(y)) = 0
    [] kind = "shl nuw" -> to_uint(y) >= 0 /\ ule(lsl(x, to_uint(y)), MAXUINT)
    [] kind = "shl nsw" -> Shift(y) >= 0 /\ sle(lsl(x, Shift(y)), MAXINT)
    [] kind = "lshr" -> to_uint(y) >= 0 /\ x = lsl(lsr(x, to_uint(y)), to_uint(y))
    [] kind = "ashr" -> to_uint(y) >= 0 /\ x = lsl(asr(x, to_uint(y)), to_uint(y))

ClauseHolds == \A c \in clause : CheckHolds(c.kind, Value(op1[c.elem]), Value(op2[c.elem]))
-----------------------------------------------------------------------------
(* LLVM: what its manual leaves undefined for bits x and y *)

Exceeds(range, z) == z \notin range
SignedRange == (-(2^(W - 1)))..(2^(W - 1) - 1)
Exact(op, x, y) == CASE op = "add" -> x + y [] op = "sub" -> x - y [] op = "mul" -> x * y

Undefined(x, y) ==
  LET op == inst.op
      sx == Signed(x)
      sy == Signed(y)
  IN CASE op \in Overflowing ->
            \/ inst.nuw /\ Exceeds(Bits, Exact(op, x, y))
            \/ inst.nsw /\ Exceeds(SignedRange, Exact(op, sx, sy))
       [] op \in {"udiv", "urem"} -> y = 0 \/ (inst.exact /\ x % y # 0)
       [] op \in {"sdiv", "srem"} -> \/ y = 0
                                     \/ sx = -(2^(W - 1)) /\ sy = -1
                                     \/ inst.exact /\ mod(sx, sy) # 0
       [] op = "shl" -> \/ inst.nuw /\ Exceeds(Bits, x * 2^y)
                        \/ inst.nsw /\ Exceeds(SignedRange, sx * 2^y)
       [] OTHER -> inst.exact /\ x % 2^y # 0

InstructionUndefined == \E i \in Elements : Undefined(op1[i], op2[i])
-----------------------------------------------------------------------------
TypeOK ==
  /\ inst \in Instructions
  /\ mode \in {"int", "bv"} /\ reading \in {"signed", "unsigned"}
  /\ stage \in {"build", "built", "executed", "crashed"}
  /\ \A c \in clause : c.elem \in Elements
  /\ stage = "executed" => op1 \in [Elements -> Bits] /\ op2 \in [Elements -> Bits]
  /\ stage = "crashed" => JoinsNull /\ clause = {}
  /\ stage \in {"built", "executed"} => ~JoinsNull

(* RTE checks ask nothing of a shift amount of W or more. *)
Shifts == inst.op \in {"shl", "lshr", "ashr"}
InScope == stage = "executed" /\ (Shifts => \A i \in Elements : op2[i] < W)

(* The unsigned operations, in the default mode and with registers read as *)
(* constants are printed: the assertion holds exactly when LLVM defines    *)
(* what the instruction does, for every element of a vector.  The shl of   *)
(* vectors is left out: see ShlEveryElement in MCRte.                      *)
UnsignedChecksExact ==
  /\ InScope /\ mode = "int" /\ reading = "unsigned"
  /\ ~inst.nsw /\ inst.op \notin {"sdiv", "srem", "ashr"}
  /\ ~(inst.op = "shl" /\ inst.vector)
  => (ClauseHolds <=> ~InstructionUndefined)

(* The signed operations, with registers read as signed: an instruction    *)
(* whose behaviour is defined never has a failing assertion.               *)
NoFalseAlarms ==
  /\ InScope /\ mode = "int" /\ reading = "signed"
  /\ ~inst.nuw /\ inst.op \notin {"udiv", "urem", "lshr"}
  /\ ~InstructionUndefined
  => ClauseHolds

(* Whatever the mode and the reading, a division whose assertion holds has *)
(* no zero divisor in any element.                                         *)
DivisionByZeroCaught ==
  /\ stage = "executed" /\ inst.op \in {"udiv", "urem", "sdiv", "srem"}
  /\ ClauseHolds
  => \A i \in Elements : op2[i] # 0
=============================================================================
