------------------------------- MODULE MCRte -------------------------------
(***************************************************************************)
(* Integers of a few bits and vectors of a few elements; what the header   *)
(* and the comments of rte.cpp say of the assertions; and what one might   *)
(* take for granted of the equations in mode "int".                        *)
(***************************************************************************)
EXTENDS Opcodes
-----------------------------------------------------------------------------
(* rte.hpp: "Adding RTEs to a program will prove that they will not evoke  *)
(* undefined behavior when called."                                        *)
DivisionDefined ==
  stage = "executed" /\ inst.op \in {"sdiv", "srem"} /\ ~inst.vector /\ ClauseHolds
    => ~InstructionUndefined

(* rte.cpp on add nsw: "add the assertion that b + c sge min && b + c sle  *)
(* max", in the reading that makes sge and sle the signed comparisons.     *)
SignedOverflowCaught ==
  /\ stage = "executed" /\ mode = "int" /\ reading = "signed"
  /\ inst.op \in Overflowing /\ inst.nsw /\ ~inst.nuw /\ ClauseHolds
  => ~InstructionUndefined

(* rte.cpp on add nuw: "b + c uge min && b + c ule max", in mode "bv".     *)
UnsignedOverflowCaughtInBv ==
  /\ stage = "executed" /\ mode = "bv"
  /\ inst.op \in Overflowing /\ inst.nuw /\ ~inst.nsw /\ ClauseHolds
  => ~InstructionUndefined

(* rte.cpp on shl nuw nsw: "AND the two together".                         *)
ShlBothFlags ==
  stage = "built" /\ inst.op = "shl" /\ inst.nuw /\ inst.nsw
    => {c.kind : c \in clause} = {"shl nuw", "shl nsw"}

(* rte.cpp on shl nuw: "add the assertion that (b shl (int zext)c) ule     *)
(* max", said of the vectors too.                                          *)
ShlEveryElement ==
  stage = "built" /\ inst.op = "shl" /\ inst.nuw /\ inst.vector
    => Checks("shl nuw", Elements) \subseteq clause

(* rte.cpp on div exact: "add the assertion that c <> 0 && (int sext)b mod *)
(* (int sext)c == 0", said of the vectors too.                             *)
ExactDivisionGetsClause == stage # "crashed"

(* The operators on bits keep values unsigned: README.md has whyr          *)
(* translate programs of any integers, but the "to_int" of a bit vector    *)
(* is signed, whatever the operands were read as.                          *)
BitwiseKeepsUnsigned ==
  InScope /\ mode = "int" /\ reading = "unsigned" /\ inst.op \in BitwiseOps
    => Equations(IsBits)

(* sext sees the sign of values that are unsigned, as constants and the    *)
(* results of icmp are.                                                    *)
SextOfUnsigned ==
  InScope /\ mode = "int" /\ reading = "unsigned" /\ inst.op = "sext" => Equations(IsSigned)

(* ashr rounds as LLVM does; "div" of ComputerDivision rounds to zero.     *)
AshrOfNegative ==
  InScope /\ mode = "int" /\ reading = "signed" /\ inst.op = "ashr" => Equations(IsSigned)
=============================================================================
