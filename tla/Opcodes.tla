------------------------------ MODULE Opcodes ------------------------------
(***************************************************************************)
(* The equation that addInstruction (src/esc_why3.cpp) prints for an       *)
(* integer instruction, and whether it is true.  Every goal after the      *)
(* instruction assumes it, so that one that is false proves too much.      *)
(*                                                                         *)
(* For a vector the equation has one update of any_vector per element, or  *)
(* is an operator of the vector's theory that does the same.  In mode      *)
(* "int" nothing wraps, and the value of a register is any int; an         *)
(* equation is true there as long as the values go on standing for the     *)
(* bits as they did before (the reading of Rte).                           *)
(***************************************************************************)
EXTENDS Rte

CONSTANTS Narrow,  (* bits of the result of trunc                          *)
          Wide     (* bits of the result of zext and sext                  *)

ASSUME OpcodesAssumption ==
  Narrow \in 1..(W - 1) /\ Wide \in Nat /\ Wide > W

Width == CASE inst.op \in Compare -> 1
           [] inst.op = "trunc" -> Narrow
           [] inst.op \in {"zext", "sext"} -> Wide
           [] OTHER -> W

(* of_int and the signed reading, of a theory of so many bits.             *)
OfInt(bits, z) == IF mode = "bv" THEN z % 2^bits ELSE z
SignedIn(bits, x) == IF x < 2^(bits - 1) THEN x ELSE x - 2^bits

(* What the bits x and y become in LLVM.                                   *)
Bit(x, k) == (x \div 2^k) % 2
FromBits(b) ==
  LET below[k \in 0..W] == IF k = 0 THEN 0 ELSE below[k - 1] + b[k - 1] * 2^(k - 1)
  IN  below[W]
BitwiseOf(x, y) ==
  FromBits([k \in 0..(W - 1) |->
              CASE inst.op = "and" -> Bit(x, k) * Bit(y, k)
                [] inst.op = "or" -> IF Bit(x, k) = 1 THEN 1 ELSE Bit(y, k)
                [] inst.op = "xor" -> (Bit(x, k) + Bit(y, k)) % 2])
Computed(x, y) ==
  LET op == inst.op
      Is(truth) == IF truth THEN 1 ELSE 0
      sx == Signed(x)
      sy == Signed(y)
  IN CASE op \in Overflowing -> Exact(op, x, y) % 2^W
       [] op = "udiv" -> x \div y
       [] op = "urem" -> x % y
       [] op = "sdiv" -> div(sx, sy) % 2^W
       [] op = "srem" -> mod(sx, sy) % 2^W
       [] op = "shl" -> (x * 2^y) % 2^W
       [] op = "lshr" -> x \div 2^y
       [] op = "ashr" -> (sx \div 2^y) % 2^W
       [] op \in BitwiseOps -> BitwiseOf(x, y)
       [] op = "trunc" -> x % 2^Narrow
       [] op = "zext" -> x
       [] op = "sext" -> sx % 2^Wide
       [] op = "eq" -> Is(x = y)
       [] op = "ne" -> Is(x # y)
       [] op = "ult" -> Is(x < y)
       [] op = "ule" -> Is(x <= y)
       [] op = "ugt" -> Is(x > y)
       [] op = "uge" -> Is(x >= y)
       [] op = "slt" -> Is(sx < sy)
       [] op = "sle" -> Is(sx <= sy)
       [] op = "sgt" -> Is(sx > sy)
       [] op = "sge" -> Is(sx >= sy)
-----------------------------------------------------------------------------
(* The right hand side of the equation, for values x and y.                *)

Divide(x, y) ==
  CASE mode = "int" -> div(x, y)
    [] mode = "bv" /\ inst.op = "udiv" -> x \div y
    [] mode = "bv" /\ inst.op = "sdiv" -> of_int(div(to_int(x), to_int(y)))
Remainder(x, y) ==
  CASE mode = "int" -> mod(x, y)
    [] mode = "bv" /\ inst.op = "urem" -> x % y
    [] mode = "bv" /\ inst.op = "srem" -> of_int(mod(to_int(x), to_int(y)))

(* In mode "int" by way of a bit vector, and back by its signed reading.   *)
bw(x, y) ==
  IF mode = "bv" THEN BitwiseOf(x, y) ELSE Signed(BitwiseOf(x % 2^W, y % 2^W))

trunc(x) == OfInt(Narrow, mod(to_uint(x), 2^Narrow))

FaultyZextOfSigned(x) == OfInt(Wide, to_int(x))

zext(x) == OfInt(Wide, to_uint(x))

sext(x) == OfInt(Wide, to_int(x))

less(signed, x, y) == IF signed THEN to_int(x) < to_int(y) ELSE x < y
icmp(x, y) ==
  LET signed == inst.op \in SignedCompare
  IN IF CASE inst.op = "eq" -> x = y
          [] inst.op = "ne" -> x # y
          [] inst.op \in {"ult", "slt"} -> less(signed, x, y)
          [] inst.op \in {"ugt", "sgt"} -> less(signed, y, x)
          [] inst.op \in {"ule", "sle"} -> ~less(signed, y, x)
          [] inst.op \in {"uge", "sge"} -> ~less(signed, x, y)
     THEN OfInt(1, 1) ELSE OfInt(1, 0)

addInstruction(x, y) ==
  CASE inst.op \in Overflowing -> arith(inst.op, x, y)
    [] inst.op \in {"udiv", "sdiv"} -> Divide(x, y)
    [] inst.op \in {"urem", "srem"} -> Remainder(x, y)
    [] inst.op \in BitwiseOps -> bw(x, y)
    [] inst.op = "shl" -> lsl(x, to_uint(y))
    [] inst.op = "lshr" -> lsr(x, to_uint(y))
    [] inst.op = "ashr" -> asr(x, to_uint(y))
    [] inst.op = "trunc" -> trunc(x)
    [] inst.op = "zext" -> zext(x)
    [] inst.op = "sext" -> sext(x)
    [] inst.op \in Compare -> icmp(x, y)

(* The elements of a vector, or the one value of a scalar.                 *)
Assumed == [i \in Elements |-> addInstruction(Value(op1[i]), Value(op2[i]))]
-----------------------------------------------------------------------------
(* Nothing is known of pow2 of a negative number, nor of division by zero. *)
Meaningful(y) ==
  /\ inst.op \in {"udiv", "urem", "sdiv", "srem"} => y # 0
  /\ Shifts => y >= 0

(* What the equations say of the values, given what LLVM makes of the bits. *)
Equations(Claim(_, _)) ==
  \A i \in Elements : Meaningful(Value(op2[i])) => Claim(Assumed[i], Computed(op1[i], op2[i]))

IsBits(z, x) == z = x
IsSigned(z, x) == z = SignedIn(Width, x)
IsCongruent(z, x) == z % 2^Width = x

(* Bit vectors: as LLVM has it, wherever LLVM defines the result.          *)
TrueOfBitVectors == mode = "bv" => Equations(IsBits)

(* Integers that are read as unsigned stay so.                             *)
KeepsUnsigned ==
  /\ mode = "int" /\ reading = "unsigned"
  /\ inst.op \in Overflowing \cup {"shl"} => inst.nuw
  /\ inst.op \notin {"sdiv", "srem", "ashr", "sext"} \cup BitwiseOps \cup SignedCompare
  => Equations(IsBits)

(* Integers that are read as signed stay so; a comparison gives 0 or 1.    *)
KeepsSigned ==
  /\ mode = "int" /\ reading = "signed"
  /\ inst.op \in Overflowing \cup {"shl"} => inst.nsw
  /\ inst.op = "ashr" => inst.exact
  /\ inst.op \notin {"udiv", "urem", "lshr", "zext", "trunc"} \cup UnsignedCompare
  => IF inst.op \in Compare THEN Equations(IsBits) ELSE Equations(IsSigned)

(* Whatever wraps, the value is right but for a multiple of 2^width.       *)
KeepsCongruent ==
  inst.op \in Overflowing \cup BitwiseOps \cup {"shl", "trunc"} => Equations(IsCongruent)

(* The equation of an instruction whose behaviour is defined is true of    *)
(* what LLVM computes: always in mode "bv", and in mode "int" for the      *)
(* operators that fit the way the values are read, so that a program that  *)
(* keeps to one reading is verified about the right values.                *)
EquationsTrue ==
  InScope /\ ~InstructionUndefined =>
    TrueOfBitVectors /\ KeepsUnsigned /\ KeepsSigned /\ KeepsCongruent
=============================================================================
