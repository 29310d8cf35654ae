----------------------------- MODULE MCMemModel -----------------------------
(* Two objects of up to four bits, a type of one bit and a type of two     *)
(* bits, which is also the size of a pointer.                              *)
EXTENDS MemModel

MCType == {"bit", "pair"}
MCBits == [t \in MCType |-> IF t = "bit" THEN 1 ELSE 2]
MCWhy3Type == [t \in MCType |-> t]
MCTypeSets == {{"bit"}, {"bit", "pair"}}
MCIndex == {0, 1}
MCValue == {"x", "y"}
-----------------------------------------------------------------------------
(* function.cpp, on what a store may also write to: "allocated after the   *)
(* function's entry point".                                                *)
FreshMeansNew ==
  phase = "function" =>
    \A r \in regs : allocated_after(entry, r.why3) => r.why3.base >= entry

(* expressions.hpp on getelementptr: "Finding the address of an element of *)
(* a pointer".                                                             *)
GepFindsElement == Exact
=============================================================================
