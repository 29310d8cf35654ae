---------------------------- MODULE Expressions ----------------------------
(***************************************************************************)
(* The types of logic expressions: how a clause is put together from its   *)
(* operands (parser.cpp, war.cpp), which types checkTypes compares, and    *)
(* what the Why3 text that toWhy3 prints for it is worth to Why3's own     *)
(* type checker (the src/expr_*.cpp classes and the theories that          *)
(* esc_why3.cpp writes).                                                   *)
(*                                                                         *)
(* A clause is read bottom up: its operands wait on a stack until the      *)
(* constructor of the expression around them takes them.  For every        *)
(* expression the model keeps its type (returnType), the verdict of its    *)
(* checkTypes, and the sort of its text.  A sort is written as the type    *)
(* that has it; the sorts are kept apart as in the bitvector mode, where   *)
(* every LLVM type is a Why3 type of its own.  Names, literals and the     *)
(* operators that are typed alike are not told apart, nor are formulas and *)
(* terms of type bool.  The two syntaxes, metadata and WhyR's own, are     *)
(* mixed more freely than a clause can mix them.                           *)
(***************************************************************************)
EXTENDS Integers, Sequences

CONSTANTS Type,                          (* the types considered            *)
          BoolType, IntType, RealType,   (* LogicTypeBool, Int and Real     *)
          Kind,      (* the kind of every type                              *)
          Of,        (* what a pointer, array, vector or set is of          *)
          Width,     (* the bits of an integer type                         *)
          Length,    (* the elements of an array or vector                  *)
          Fields,    (* the fields of a struct                              *)
          PtrBits,   (* DataLayout::getPointerSizeInBits                    *)
          Ill,       (* the text is not typed                               *)
          MaxNodes   (* a clause has no more expressions than this          *)

LLVMKinds == {"i", "fp", "ptr", "array", "vec", "struct"}
Kinds == {"bool", "int", "real", "type", "set"} \cup LLVMKinds

ASSUME TypeAssumption ==
  /\ {BoolType, IntType, RealType} \subseteq Type /\ Ill \notin Type
  /\ Kind \in [Type -> Kinds]
  /\ \A t \in Type : /\ (Kind[t] = "bool" <=> t = BoolType)
                     /\ (Kind[t] = "int" <=> t = IntType)
                     /\ (Kind[t] = "real" <=> t = RealType)
ASSUME PartsAssumption ==
  /\ Of \in [Type -> Type]
  /\ Width \in [Type -> Nat] /\ Length \in [Type -> Nat]
  /\ Fields \in [Type -> Seq(Type)]
  /\ PtrBits \in Nat /\ MaxNodes \in Nat

(* isa<LogicTypeLLVM>, and LLVM's own tests. *)
LLVM(t) == Kind[t] \in LLVMKinds
LLVMInt(t) == Kind[t] = "i"
LLVMFloat(t) == Kind[t] = "fp"
LLVMPtr(t) == Kind[t] = "ptr"
IntOrIntVector(t) == LLVMInt(t) \/ (Kind[t] = "vec" /\ LLVMInt(Of[t]))
FPOrFPVector(t) == LLVMFloat(t) \/ (Kind[t] = "vec" /\ LLVMFloat(Of[t]))
PtrSet(t) == Kind[t] = "set" /\ LLVMPtr(Of[t])
Indexed(t) == Kind[t] \in {"array", "vec"}

(* LogicType::toWhy3 knows no text for the type of a type. *)
HasSort(t) == Kind[t] # "type" /\ (Kind[t] = "set" => Kind[Of[t]] # "type")
Sorted(typed, s) == IF typed THEN s ELSE Ill

(***************************************************************************)
(* What is known of an expression.                                         *)
(*   own    the verdict of its own comparisons                             *)
(*   check  what checkTypes does when it is called                         *)
(*   deep   its own comparisons and those of all its parts hold            *)
(*   value  the literal it is, if it is one                                *)
(*   flaws  the known places where check and text disagree (see the rules) *)
(***************************************************************************)
Verdict == {"ok", "throws", "aborts"}
Flaw == {"noSort", "vectorNegation", "pointerToInt", "stricter"}
Expression == [type : Type, own : Verdict, check : Verdict, deep : BOOLEAN,
               value : Seq(Int), flaws : SUBSET Flaw, sort : Type \cup {Ill}]

Holds(b) == IF b THEN "ok" ELSE "throws"
First(verdicts) ==
  CASE \A k \in DOMAIN verdicts : verdicts[k] = "ok" -> "ok"
    [] \E k \in DOMAIN verdicts : /\ verdicts[k] = "aborts"
                                 /\ \A j \in 1..(k - 1) : verdicts[j] = "ok" -> "aborts"
    [] OTHER -> "throws"

(* An expression over args whose checkTypes goes through the verdicts of   *)
(* visits before its own.                                                  *)
Expr(args, visits, own, t, s) ==
  [type |-> t, own |-> own, check |-> First(visits \o <<own>>),
   deep |-> own = "ok" /\ \A k \in DOMAIN args : args[k].deep,
   value |-> <<>>,
   flaws |-> UNION {args[k].flaws : k \in DOMAIN args}, sort |-> s]
Checks(args) == [k \in DOMAIN args |-> args[k].check]
Node(args, own, t, s) == Expr(args, Checks(args), Holds(own), t, s)
Flawed(e, flaw) == [e EXCEPT !.flaws = @ \cup {flaw}]
FlawedIf(b, e, flaw) == IF b THEN Flawed(e, flaw) ELSE e

(* arg, var, local, result, LLVM constants: nothing to check.              *)
Operand(t) == FlawedIf(~HasSort(t), Node(<<>>, TRUE, t, Sorted(HasSort(t), t)),
                       "noSort")
Literal(t, v) == [Operand(t) EXCEPT !.value = <<v>>]
-----------------------------------------------------------------------------
(* Arithmetic.  The theory that the text names is the one of the type of   *)
(* the left operand.                                                       *)
MathOp == {"add", "sub", "mul", "div", "mod", "rem"}
MathOps(t) ==
  CASE t = IntType \/ FPOrFPVector(t) -> MathOp
    [] t = RealType -> {"add", "sub", "mul", "div"}
    [] IntOrIntVector(t) -> {"add", "sub", "mul"}
    [] OTHER -> {}
Numeric(t) == t \in {IntType, RealType} \/ IntOrIntVector(t) \/ FPOrFPVector(t)
Both(l, r, t) == l.sort = t /\ r.sort = t

FaultyBinaryMathOfMixedTypes(op, l, r) ==   \* the operands' types not compared
  Node(<<l, r>>, Numeric(l.type), l.type,
       Sorted(Both(l, r, l.type) /\ op \in MathOps(l.type), l.type))
LogicExpressionBinaryMath(op, l, r) ==
  LET t == l.type
  IN  Node(<<l, r>>,
           /\ l.type = r.type
           /\ Numeric(t)
           /\ IntOrIntVector(t) => op \in {"add", "sub", "mul"}
           /\ t = RealType => op \in {"add", "sub", "mul", "div"},
           t, Sorted(Both(l, r, t) /\ op \in MathOps(t), t))
LogicExpressionBinaryBits(l, r) ==
  Node(<<l, r>>, l.type = r.type /\ IntOrIntVector(l.type),
       l.type, Sorted(Both(l, r, l.type) /\ IntOrIntVector(l.type), l.type))
(* The theories of vectors shift by a vector. *)
LogicExpressionBinaryShift(l, r) ==
  LET t == l.type
      by == IF LLVMInt(t) THEN IntType ELSE t
  IN  FlawedIf(~LLVMInt(t),
        Node(<<l, r>>, LLVMInt(t) /\ r.type = IntType, t,
             Sorted(IntOrIntVector(t) /\ l.sort = t /\ r.sort = by, t)),
        "stricter")
LogicExpressionBitNot(x) ==
  Node(<<x>>, IntOrIntVector(x.type), x.type,
       Sorted(IntOrIntVector(x.type) /\ x.sort = x.type, x.type))
(* Prints T.sub with a zero that is a number even where T is of vectors.   *)
LogicExpressionNegate(x) ==
  FlawedIf(Kind[x.type] = "vec",
    Node(<<x>>, Numeric(x.type), x.type,
         Sorted(/\ Numeric(x.type) /\ Kind[x.type] # "vec"
                /\ x.sort = x.type, x.type)),
    "vectorNegation")

(* Comparisons. *)
Comparison(ordered, l, r) ==
  Node(<<l, r>>, l.type = r.type /\ ordered,
       BoolType, Sorted(ordered /\ Both(l, r, l.type), BoolType))
LogicExpressionBinaryCompare(l, r) == Comparison(l.type \in {IntType, RealType}, l, r)
LogicExpressionBinaryCompareLLVM(l, r) == Comparison(LLVMInt(l.type), l, r)
LogicExpressionBinaryCompareFloat(l, r) == Comparison(LLVMFloat(l.type), l, r)
LogicExpressionEquals(l, r) ==
  Node(<<l, r>>, l.type = r.type,
       BoolType, Sorted(l.sort = r.sort /\ l.sort # Ill, BoolType))

(* Connectives.  LogicExpressionBoolean, the cast of an i1 to bool, does   *)
(* not call checkTypes on its operand.                                     *)
LogicExpressionNot(x) ==
  Node(<<x>>, x.type = BoolType, BoolType, Sorted(x.sort = BoolType, BoolType))
LogicExpressionBinaryBoolean(l, r) ==
  Node(<<l, r>>, l.type = BoolType /\ l.type = r.type,
       BoolType, Sorted(Both(l, r, BoolType), BoolType))
LogicExpressionConditional(c, a, b) ==
  Node(<<c, a, b>>, c.type = BoolType /\ a.type = b.type,
       a.type, Sorted(c.sort = BoolType /\ a.sort = b.sort, a.sort))
LogicExpressionBoolean(x) ==
  LET i1 == LLVMInt(x.type) /\ Width[x.type] = 1
  IN  Expr(<<x>>, <<>>, Holds(i1), BoolType,
           Sorted(i1 /\ x.sort = x.type, BoolType))
LogicExpressionQuantifier(t, x) ==
  FlawedIf(~HasSort(t),
    Node(<<x>>, x.type = BoolType, BoolType,
         Sorted(HasSort(t) /\ x.sort = BoolType, BoolType)), "noSort")
(* Checks the body and compares the values' types with the declared ones,  *)
(* which are not printed; it does not check the values.                    *)
LogicExpressionLet(t, v, x) ==
  FlawedIf(t # v.type,
    Expr(<<v, x>>, <<x.check>>, Holds(t = v.type), x.type,
         Sorted(v.sort = t, x.sort)), "stricter")
-----------------------------------------------------------------------------
(* Casts to type t, which checkTypes looks at too.                         *)
Cast(own, x, t) == Node(<<x>>, own, t, Sorted(own /\ x.sort = x.type, t))
LogicExpressionFloatToReal(x) == Cast(LLVMFloat(x.type), x, RealType)
LogicExpressionRealToFloat(x, t) == Cast(LLVMFloat(t) /\ x.type = RealType, x, t)
LogicExpressionIntToReal(x) == Cast(x.type = IntType, x, RealType)
LogicExpressionRealToInt(x) == Cast(x.type = RealType, x, IntType)
LogicExpressionLogicIntToLLVMInt(x, t) == Cast(LLVMInt(t) /\ x.type = IntType, x, t)
LogicExpressionLLVMIntToLogicInt(x) == Cast(LLVMInt(x.type), x, IntType)
LogicExpressionPointerToPointer(x, t) == Cast(LLVMPtr(t) /\ LLVMPtr(x.type), x, t)
LogicExpressionIntToPointer(x, t) == Cast(LLVMPtr(t) /\ LLVMInt(x.type), x, t)
(* The text is well typed whatever the widths are. *)
FaultyTruncOfNarrower(op, x, t) ==   \* < and > the wrong way round
  Node(<<x>>, /\ LLVMInt(t) /\ LLVMInt(x.type)
              /\ IF op = "trunc" THEN Width[t] > Width[x.type]
                                 ELSE Width[t] < Width[x.type],
       t, Sorted(LLVMInt(t) /\ LLVMInt(x.type) /\ x.sort = x.type, t))
LogicExpressionLLVMIntToLLVMInt(op, x, t) ==
  LET ints == LLVMInt(t) /\ LLVMInt(x.type)
      fits == IF op = "trunc" THEN Width[t] < Width[x.type]
                              ELSE Width[t] > Width[x.type]
  IN  FlawedIf(ints /\ ~fits,
        Node(<<x>>, ints /\ fits, t, Sorted(ints /\ x.sort = x.type, t)),
        "stricter")
(* Opens two parentheses if the widths differ, and closes two if the bits  *)
(* of the POINTER type are not PtrBits: they never are, in an LLVM built   *)
(* without assertions (one with assertions stops the program).             *)
LogicExpressionPointerToInt(x, t) ==
  LET own == LLVMInt(t) /\ LLVMPtr(x.type)
      opens == Width[t] # PtrBits
      closes == TRUE
  IN  FlawedIf(own /\ opens # closes,
        Node(<<x>>, own, t,
             Sorted(own /\ opens = closes /\ x.sort = x.type, t)),
        "pointerToInt")

(* What the parsers make of trunc, zext and sext ...                       *)
ParserTrunc(x, t) == IF x.type = IntType
                     THEN LogicExpressionLogicIntToLLVMInt(x, t)
                     ELSE LogicExpressionLLVMIntToLLVMInt("trunc", x, t)
ParserExt(x, t) == IF t = IntType
                   THEN LogicExpressionLLVMIntToLogicInt(x)
                   ELSE LogicExpressionLLVMIntToLLVMInt("ext", x, t)
(* ... and of a cast in WhyR's own syntax, where the types decide.  The    *)
(* set is empty when they allow no cast; a literal becomes a constant of   *)
(* the type.                                                               *)
war_parse_cast(x, t) ==
  LET f == x.type
      literal == x.value # <<>>
  IN  IF f = t THEN {x}
      ELSE CASE literal /\ f \in {IntType, BoolType} /\ LLVMInt(t) -> {Operand(t)}
             [] literal /\ f = RealType /\ LLVMFloat(t) -> {Operand(t)}
             [] LLVMInt(f) /\ Width[f] = 1 /\ t = BoolType ->
                  {LogicExpressionBoolean(x)}
             [] LLVMInt(f) /\ LLVMInt(t) /\ Width[f] > Width[t] ->
                  {LogicExpressionLLVMIntToLLVMInt("trunc", x, t)}
             [] ~literal /\ f = IntType /\ LLVMInt(t) ->
                  {LogicExpressionLogicIntToLLVMInt(x, t)}
             [] LLVMFloat(f) /\ LLVMFloat(t) ->
                  {LogicExpressionRealToFloat(LogicExpressionFloatToReal(x), t)}
             [] LLVMFloat(f) /\ t = RealType -> {LogicExpressionFloatToReal(x)}
             [] ~literal /\ f = RealType /\ LLVMFloat(t) ->
                  {LogicExpressionRealToFloat(x, t)}
             [] f = RealType /\ t = IntType -> {LogicExpressionRealToInt(x)}
             [] f = IntType /\ t = RealType -> {LogicExpressionIntToReal(x)}
             [] LLVMPtr(f) /\ LLVMInt(t) -> {LogicExpressionPointerToInt(x, t)}
             [] LLVMInt(f) /\ LLVMPtr(t) -> {LogicExpressionIntToPointer(x, t)}
             [] LLVMPtr(f) /\ LLVMPtr(t) -> {LogicExpressionPointerToPointer(x, t)}
             [] OTHER -> {}
war_parse_cast_ext(x, t) ==
  CASE LLVMInt(x.type) /\ LLVMInt(t) /\ Width[x.type] < Width[t] ->
         {LogicExpressionLLVMIntToLLVMInt("ext", x, t)}
    [] LLVMInt(x.type) /\ t = IntType -> {LogicExpressionLLVMIntToLogicInt(x)}
    [] OTHER -> {}
-----------------------------------------------------------------------------
(* Memory.  Constructors that need a type from their operand throw if it   *)
(* has the wrong kind: then there is no expression.                        *)
LogicExpressionLoad(x) ==
  IF ~LLVMPtr(x.type) THEN {}
  ELSE {Node(<<x>>, TRUE, Of[x.type], Sorted(x.sort = x.type, Of[x.type]))}
LogicExpressionFresh(x) ==
  Node(<<x>>, LLVMPtr(x.type), BoolType,
       Sorted(LLVMPtr(x.type) /\ x.sort = x.type, BoolType))
LogicExpressionOld(x) == Node(<<x>>, TRUE, x.type, x.sort)
FaultyOffsetOfPointersOnly(p, n) ==   \* a set of pointers refused
  Node(<<p, n>>, LLVMPtr(p.type) /\ n.type = IntType, p.type,
       Sorted(/\ LLVMPtr(p.type) \/ PtrSet(p.type)
              /\ p.sort = p.type /\ n.sort = n.type
              /\ Kind[p.type] # "set" => n.type = IntType
              /\ Kind[p.type] = "set" => Kind[n.type] = "set", p.type))
LogicExpressionOffset(p, n) ==
  LET ptrs == LLVMPtr(p.type) \/ PtrSet(p.type)
      ints(t) == t = IntType \/ (Kind[t] = "set" /\ Of[t] = IntType)
  IN  Node(<<p, n>>,
           /\ ptrs /\ ints(n.type)
           /\ Kind[p.type] = "set" <=> Kind[n.type] = "set",
           p.type,
           Sorted(/\ ptrs /\ p.sort = p.type /\ n.sort = n.type /\ ints(n.type)
                  /\ Kind[p.type] = "set" <=> Kind[n.type] = "set", p.type))

(* a[i].  The index of a struct is a literal; stoul throws an exception of *)
(* its own for a negative one, and nothing checks the number of fields.    *)
FieldIndex(s, i) == i.value[1] + 1 \in DOMAIN Fields[s.type]
Field(s, i) == Fields[s.type][i.value[1] + 1]
LiteralInt(i) == i.type = IntType /\ i.value # <<>>
LogicExpressionGetIndex(a, i) ==
  CASE Kind[a.type] = "struct" ->
         IF LiteralInt(i) /\ FieldIndex(a, i)
         THEN {Node(<<a, i>>, TRUE, Field(a, i),
                    Sorted(a.sort = a.type, Field(a, i)))}
         ELSE {}
    [] Indexed(a.type) \/ LLVMPtr(a.type) ->
         IF i.type = IntType
         THEN {Node(<<a, i>>, TRUE, Of[a.type],
                    Sorted(a.sort = a.type /\ i.sort = IntType, Of[a.type]))}
         ELSE {}
    [] OTHER -> {}
GetIndexAborts(a, i) ==
  Kind[a.type] = "struct" /\ LiteralInt(i) /\ ~FieldIndex(a, i)

(* a[i = v]: here it is checkTypes that looks.                             *)
LogicExpressionSetIndex(a, i, v) ==
  LET struct == Kind[a.type] = "struct"
      own == CASE struct -> IF ~LiteralInt(i) THEN "throws"
                            ELSE IF ~FieldIndex(a, i) THEN "aborts"
                            ELSE Holds(v.type = Field(a, i))
               [] Indexed(a.type) -> Holds(i.type = IntType /\ v.type = Of[a.type])
               [] OTHER -> "throws"
      typed == CASE struct -> /\ LiteralInt(i) /\ FieldIndex(a, i)
                              /\ v.sort = Field(a, i)
                 [] Indexed(a.type) -> i.sort = IntType /\ v.sort = Of[a.type]
                 [] OTHER -> FALSE
  IN  Expr(<<a, i, v>>, Checks(<<a, i, v>>), own, a.type,
           Sorted(typed /\ a.sort = a.type, a.type))

(* getelementptr: the first index goes through the pointer, the others     *)
(* through arrays.  (A struct on the way is always refused: the test for a *)
(* literal looks at the pointer.)  checkTypes is empty.                    *)
GepTarget(p, n) ==
  LET elem[k \in Nat] == IF k = 0 THEN Of[p.type] ELSE Of[elem[k - 1]]
      last == IF n = 0 THEN 0 ELSE n - 1
  IN  IF LLVMPtr(p.type) /\ \A k \in 0..(last - 1) : Kind[elem[k]] = "array"
      THEN {elem[last]} ELSE {}
LogicExpressionGetElementPointer(p, indices) ==
  LET integer(i) == i.type = IntType \/ LLVMInt(i.type)
      args == <<p>> \o indices
  IN  IF \E k \in DOMAIN indices : ~integer(indices[k]) THEN {}
      ELSE {Expr(args, <<>>, "ok", u,
                 Sorted(\A k \in DOMAIN args : args[k].sort = args[k].type, u)) :
              u \in {u \in Type : LLVMPtr(u) /\ Of[u] \in GepTarget(p, Len(indices))}}
-----------------------------------------------------------------------------
(* Aggregates and sets: each element is checked, then compared with the    *)
(* type wanted[k].                                                         *)
Elements(args, own, wanted, t) ==
  LET fit == [k \in DOMAIN args |->
                IF args[k].check = "ok" THEN Holds(args[k].type = wanted[k])
                ELSE args[k].check]
      all == own /\ \A k \in DOMAIN args : args[k].type = wanted[k]
  IN  [Expr(args, <<>>, Holds(all), t,
            Sorted(own /\ \A k \in DOMAIN args : args[k].sort = wanted[k], t))
         EXCEPT !.check = First(<<Holds(own)>> \o fit)]
Same(args, t) == [k \in DOMAIN args |-> t]

LogicExpressionCreateSet(args, u) ==
  FlawedIf(~HasSort(u),
    Elements(args, TRUE, Same(args, Of[u]), u), "noSort")
LogicExpressionLLVMArrayConstant(args, u) ==
  Elements(args, TRUE, Same(args, Of[u]), u)
LogicExpressionLLVMVectorConstant(args, u) ==
  Elements(args, args # <<>>, Same(args, Of[u]), u)
LogicExpressionLLVMStructConstant(args, t) ==
  LET sizes == Kind[t] = "struct" /\ Len(Fields[t]) = Len(args)
  IN  Elements(args, sizes, IF sizes THEN Fields[t] ELSE Same(args, t), t)
LogicExpressionSpecialLLVMConstant(t) ==
  Node(<<>>, LLVMInt(t), t, Sorted(LLVMInt(t), t))
LogicExpressionRange(a, b) ==
  LET set == {u \in Type : Kind[u] = "set" /\ Of[u] = IntType}
  IN  {Node(<<a, b>>, a.type = IntType /\ b.type = IntType,
            u, Sorted(Both(a, b, IntType), u)) : u \in set}
LogicExpressionInSet(set, item) ==
  Node(<<set, item>>, Kind[set.type] = "set" /\ item.type = Of[set.type],
       BoolType,
       Sorted(/\ Kind[set.type] = "set" /\ set.sort = set.type
              /\ item.sort = Of[set.type], BoolType))
LogicExpressionSubset(sub, super) ==
  Node(<<sub, super>>,
       Kind[sub.type] = "set" /\ Kind[super.type] = "set" /\ sub.type = super.type,
       BoolType,
       Sorted(Kind[sub.type] = "set" /\ Both(sub, super, sub.type), BoolType))
(* e1 in e2, in WhyR's own syntax. *)
war_parse_in_op(l, r) == IF l.type = r.type THEN LogicExpressionSubset(r, l)
                                             ELSE LogicExpressionInSet(r, l)
-----------------------------------------------------------------------------
VARIABLES stack,    (* the expressions parsed and not yet taken            *)
          nodes,    (* how many expressions the clause has so far          *)
          status    (* "parsing", "accepted", or how the clause ended      *)
vars == <<stack, nodes, status>>

Init == stack = <<>> /\ nodes = 0 /\ status = "parsing"

(* Some constructor takes the n topmost expressions and leaves e.  The     *)
(* last of MaxNodes takes all: no clause could follow from what is left.   *)
Parsing == status = "parsing" /\ nodes < MaxNodes
Take(n, e) ==
  /\ nodes + 1 = MaxNodes => n = Len(stack)
  /\ stack' = Append(SubSeq(stack, 1, Len(stack) - n), e)
  /\ nodes' = nodes + 1
  /\ UNCHANGED status
Top(n) == SubSeq(stack, Len(stack) - n + 1, Len(stack))

Leaf ==
  /\ Parsing
  /\ \E t \in Type :
       \/ Take(0, Operand(t))
       \/ Take(0, LogicExpressionSpecialLLVMConstant(t))
       \/ t = IntType /\ \E v \in {-1, 0, 1} : Take(0, Literal(t, v))
       \/ t \in {BoolType, RealType} /\ Take(0, Literal(t, 0))

UnaryOf(x) ==
  {LogicExpressionBitNot(x), LogicExpressionNegate(x), LogicExpressionNot(x),
   LogicExpressionBoolean(x), LogicExpressionFloatToReal(x),
   LogicExpressionIntToReal(x), LogicExpressionRealToInt(x),
   LogicExpressionFresh(x), LogicExpressionOld(x)}
  \cup LogicExpressionLoad(x)
TypedOf(x, t) ==
  {LogicExpressionQuantifier(t, x), LogicExpressionRealToFloat(x, t),
   ParserTrunc(x, t), ParserExt(x, t), LogicExpressionPointerToPointer(x, t),
   LogicExpressionIntToPointer(x, t), LogicExpressionPointerToInt(x, t)}
  \cup war_parse_cast(x, t) \cup war_parse_cast_ext(x, t)
Unary ==
  /\ Parsing /\ Len(stack) >= 1
  /\ LET x == Top(1)[1]
     IN  \/ \E e \in UnaryOf(x) : Take(1, e)
         \/ \E t \in Type : \E e \in TypedOf(x, t) : Take(1, e)

BinaryOf(l, r) ==
  {LogicExpressionBinaryMath(op, l, r) : op \in MathOp}
  \cup {LogicExpressionBinaryBits(l, r), LogicExpressionBinaryShift(l, r),
        LogicExpressionBinaryCompare(l, r),
        LogicExpressionBinaryCompareLLVM(l, r),
        LogicExpressionBinaryCompareFloat(l, r), LogicExpressionEquals(l, r),
        LogicExpressionBinaryBoolean(l, r), LogicExpressionOffset(l, r),
        LogicExpressionInSet(l, r), LogicExpressionSubset(l, r),
        war_parse_in_op(l, r)}
  \cup {LogicExpressionLet(t, l, r) : t \in Type}
  \cup LogicExpressionGetIndex(l, r) \cup LogicExpressionRange(l, r)
Binary ==
  /\ Parsing /\ Len(stack) >= 2
  /\ LET top == Top(2)
     IN  \E e \in BinaryOf(top[1], top[2]) : Take(2, e)
Ternary ==
  /\ Parsing /\ Len(stack) >= 3
  /\ LET top == Top(3)
     IN  \E e \in {LogicExpressionConditional(top[1], top[2], top[3]),
                   LogicExpressionSetIndex(top[1], top[2], top[3])} : Take(3, e)

(* Arrays and vectors are made with as many elements as their type has.    *)
AggregateOf(args, t) ==
  CASE Kind[t] = "set" -> {LogicExpressionCreateSet(args, t)}
    [] Kind[t] = "array" /\ Length[t] = Len(args) ->
         {LogicExpressionLLVMArrayConstant(args, t)}
    [] Kind[t] = "vec" /\ Length[t] = Len(args) ->
         {LogicExpressionLLVMVectorConstant(args, t)}
    [] OTHER -> {LogicExpressionLLVMStructConstant(args, t)}
Aggregate ==
  /\ Parsing
  /\ \E n \in 0..Len(stack), t \in Type :
       \E e \in AggregateOf(Top(n), t) : Take(n, e)
Gep ==
  /\ Parsing
  /\ \E n \in 1..Len(stack) :
       \E e \in LogicExpressionGetElementPointer(Top(n)[1], Tail(Top(n))) :
         Take(n, e)

(* A syntax_exception or type_exception ends the clause: a constructor     *)
(* that finds no type, an unknown name, a wrong number of operands.        *)
Refuse ==
  /\ status = "parsing"
  /\ status' = "error" /\ stack' = <<>> /\ UNCHANGED nodes
Abort ==
  /\ status = "parsing" /\ Len(stack) >= 2
  /\ GetIndexAborts(Top(2)[1], Top(2)[2])
  /\ status' = "crash" /\ UNCHANGED <<stack, nodes>>

(* The end of a clause: a requires, ensures, assert or assume clause is of *)
(* type bool, a part of an assigns clause a set of pointers.               *)
AcceptsClause(e) == e.type = BoolType \/ PtrSet(e.type)
FaultyEndClauseOfVerdict ==   \* only a clause that passes is dealt with
  /\ status = "parsing" /\ Len(stack) = 1
  /\ status' = IF stack[1].check = "ok" THEN "accepted" ELSE stack[1].check
  /\ UNCHANGED <<stack, nodes>>
EndClause ==
  /\ status = "parsing" /\ Len(stack) = 1
  /\ LET e == stack[1]
     IN  status' = CASE e.check = "aborts" -> "crash"
                     [] e.check = "ok" /\ AcceptsClause(e) -> "accepted"
                     [] OTHER -> "error"
  /\ UNCHANGED <<stack, nodes>>
(* annotate goes on with the next clause. *)
NextClause ==
  /\ status \in {"accepted", "error"}
  /\ stack' = <<>> /\ nodes' = 0 /\ status' = "parsing"
Stopped == status = "crash" /\ UNCHANGED vars

Next == \/ Leaf \/ Unary \/ Binary \/ Ternary \/ Aggregate \/ Gep
        \/ Refuse \/ Abort \/ EndClause \/ NextClause \/ Stopped
Spec == Init /\ [][Next]_vars
-----------------------------------------------------------------------------
(* What is known of every expression has its type.                         *)
TypeOK ==
  /\ stack \in Seq(Expression)
  /\ nodes \in 0..MaxNodes
  /\ status \in {"parsing", "accepted", "error", "crash"}

(* The type checks are enough for Why3: an expression whose checks all     *)
(* hold, its own and those of its parts, has a text that Why3 gives the    *)
(* sort of the expression's type.  This is what toWhy3 counts on when it   *)
(* picks theories and operators by returnType.                             *)
WellSorted ==
  \A k \in DOMAIN stack :
    stack[k].deep /\ stack[k].flaws = {} => stack[k].sort = stack[k].type

(* ... and not more than Why3 needs: what checkTypes throws for, Why3's    *)
(* own type checker would turn down as well, so that no clause is refused  *)
(* that could have been proved.  (The exceptions carry a flaw: vector      *)
(* shifts, casts to the wrong width, and the types let does not print.)    *)
NotOverstrict ==
  \A k \in DOMAIN stack :
    stack[k].own = "throws" /\ stack[k].flaws = {} => stack[k].sort = Ill

(* war_parse_cast picks a class by the types it sees: whatever it picks    *)
(* has the type asked for, and the checks of that class hold.              *)
CastsPass ==
  \A k \in DOMAIN stack : \A t \in Type :
    \A e \in war_parse_cast(stack[k], t) \cup war_parse_cast_ext(stack[k], t) :
      e.type = t /\ (stack[k].deep => e.deep)

(* A clause that annotate keeps has been checked throughout: include/whyr/ *)
(* logic.hpp says that checkTypes verifies "this expression and any        *)
(* subexpressions".  LogicExpressionBoolean, LogicExpressionLet and        *)
(* LogicExpressionGetElementPointer do not go on to theirs.                *)
CheckedThroughout == status = "accepted" => stack[1].deep

(* Claims that do not hold, one per flaw: a clause that is accepted has a  *)
(* text that Why3 can type.                                                *)
SortedBut(flaw) ==
  /\ status = "accepted" /\ stack[1].deep /\ stack[1].flaws = {flaw}
  => stack[1].sort # Ill
(* Not so if it quantifies over types or compares them: LogicTypeType and  *)
(* LogicExpressionConstantType have no toWhy3.                             *)
TypeOperandsSorted == SortedBut("noSort")
(* Not so if it negates a vector: LogicExpressionNegate::toWhy3 prints the *)
(* vector theory's sub with the number 0.                                  *)
NegationSorted == SortedBut("vectorNegation")
(* Not so if it makes a pointer an integer as wide as pointers are:        *)
(* LogicExpressionPointerToInt::toWhy3 closes parentheses it did not open. *)
PointerToIntSorted == SortedBut("pointerToInt")

(* No clause stops WhyR.  Not so: stoul throws what nobody catches, and    *)
(* getStructElementType reads past the fields.                             *)
NeverCrashes == status # "crash"
=============================================================================
