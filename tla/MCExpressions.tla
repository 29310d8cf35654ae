--------------------------- MODULE MCExpressions ---------------------------
(* A universe of types with one or two of every kind, closed under Of:     *)
(* integers of 1, 8 and 64 bits, a float, pointers to an integer and to an *)
(* array, an array, a vector, a struct, sets of int, of pointers and of    *)
(* types.                                                                  *)
EXTENDS Expressions

MCType == {"bool", "int", "real", "typ", "i1", "i8", "i64", "f", "p8", "pa",
           "a8", "v8", "st", "si", "sp"}
MCKind == [t \in MCType |->
  CASE t \in {"bool", "int", "real"} -> t
    [] t = "typ" -> "type"
    [] t \in {"i1", "i8", "i64"} -> "i"
    [] t = "f" -> "fp"
    [] t \in {"p8", "pa"} -> "ptr"
    [] t = "a8" -> "array"
    [] t = "v8" -> "vec"
    [] t = "st" -> "struct"
    [] t \in {"si", "sp"} -> "set"]
MCOf == [t \in MCType |->
  CASE t \in {"p8", "a8", "v8"} -> "i8"
    [] t = "pa" -> "a8"
    [] t = "si" -> "int"
    [] t = "sp" -> "p8"
    [] OTHER -> t]
MCWidth == [t \in MCType |->
  CASE t = "i1" -> 1 [] t = "i8" -> 8 [] t = "i64" -> 64 [] OTHER -> 0]
MCLength == [t \in MCType |-> CASE t = "a8" -> 1 [] t = "v8" -> 2 [] OTHER -> 0]
MCFields == [t \in MCType |-> IF t = "st" THEN <<"i8">> ELSE <<>>]
=============================================================================
