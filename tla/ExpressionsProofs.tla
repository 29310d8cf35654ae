------------------------- MODULE ExpressionsProofs -------------------------
(***************************************************************************)
(* That checkTypes and toWhy3 agree, for every universe of types: whatever *)
(* the constructors make of operands of which it holds, it holds of the    *)
(* result.  One lemma per class; the theorems are at the end.  Where a     *)
(* class lemma first spells out what check and text mean for its parts, it *)
(* is to give Zenon the very implications that the lemmas on Node ask for. *)
(***************************************************************************)
EXTENDS Expressions, SequenceTheorems, TLAPS

(* What is shown of every expression.  Fits is what is left of it where a  *)
(* flaw is marked; the sort of a text is never a wrong one.                *)
Fits(e) == e \in Expression /\ e.sort \in {e.type, Ill}
Right(e) == /\ Fits(e)
            /\ e.deep /\ e.flaws = {} => e.sort = e.type
            /\ e.own = "throws" /\ e.flaws = {} => e.sort = Ill
RightExpression == {e \in Expression : Right(e)}
-----------------------------------------------------------------------------
(* The verdict of checkTypes is one. *)
LEMMA FirstVerdict == \A v : First(v) \in Verdict
BY DEF First, Verdict

(* What the definition of Right gives for a part. *)
LEMMA Parts ==
  \A e : Right(e) => /\ Fits(e) /\ e.type \in Type /\ e.sort \in {e.type, Ill}
                     /\ e.type # Ill
BY TypeAssumption DEF Right, Fits, Expression

(* A class that makes an expression of type t out of parts that fit. *)
LEMMA ExprFits ==
  ASSUME NEW args, NEW visits, NEW own \in Verdict, NEW t \in Type,
         NEW s \in {t, Ill}, \A k \in DOMAIN args : Fits(args[k])
  PROVE  Fits(Expr(args, visits, own, t, s))
<1>1. UNION {args[k].flaws : k \in DOMAIN args} \in SUBSET Flaw
  BY DEF Fits, Expression
<1>2. First(visits \o <<own>>) \in Verdict
  BY FirstVerdict
<1>3. <<>> \in Seq(Int)
  OBVIOUS
<1> QED
  BY <1>1, <1>2, <1>3 DEF Fits, Expression, Expr

(* If its own check goes with its text when its parts are well sorted, it  *)
(* is right when they are.                                                 *)
LEMMA ExprRight ==
  ASSUME NEW args, NEW visits, NEW own \in Verdict, NEW t \in Type,
         NEW s \in {t, Ill}, \A k \in DOMAIN args : Right(args[k]),
         /\ own = "ok"
         /\ \A k \in DOMAIN args : args[k].sort = args[k].type
         => s = t,
         own = "throws" => s = Ill
  PROVE  Right(Expr(args, visits, own, t, s))
<1> DEFINE e == Expr(args, visits, own, t, s)
<1>1. Fits(e)
  BY ExprFits DEF Right
<1>2. e.deep /\ e.flaws = {} => \A k \in DOMAIN args : args[k].sort = args[k].type
  <2>1. e.deep => \A k \in DOMAIN args : args[k].deep
    BY DEF Expr
  <2>2. e.flaws = {} => \A k \in DOMAIN args : args[k].flaws = {}
    BY DEF Expr
  <2> QED
    BY <2>1, <2>2 DEF Right
<1>3. e.deep => own = "ok"
  BY DEF Expr
<1>4. e.type = t /\ e.sort = s /\ e.own = own
  BY DEF Expr
<1> QED
  BY <1>1, <1>2, <1>3, <1>4 DEF Right

(* The same for the common shape, a check that throws or not and a text    *)
(* that is typed or not, with one, two or any number of parts.             *)
LEMMA NodeRight ==
  ASSUME NEW args, \A k \in DOMAIN args : Right(args[k]),
         NEW own \in BOOLEAN, NEW typed \in BOOLEAN, NEW t \in Type,
         /\ own
         /\ \A k \in DOMAIN args : args[k].sort = args[k].type
         => typed,
         ~own => ~typed
  PROVE  Right(Node(args, own, t, Sorted(typed, t)))
<1>1. Holds(own) \in Verdict /\ Sorted(typed, t) \in {t, Ill}
  BY DEF Holds, Sorted, Verdict
<1>2. /\ Holds(own) = "ok"
      /\ \A k \in DOMAIN args : args[k].sort = args[k].type
      => Sorted(typed, t) = t
  BY DEF Holds, Sorted
<1>3. Holds(own) = "throws" => Sorted(typed, t) = Ill
  BY DEF Holds, Sorted
<1> QED
  BY <1>1, <1>2, <1>3, ExprRight DEF Node

(* What Node makes of right parts fits, whether check and text agree or    *)
(* not.                                                                    *)
LEMMA NodeFits ==
  ASSUME NEW args, \A k \in DOMAIN args : Right(args[k]),
         NEW own \in BOOLEAN, NEW typed \in BOOLEAN, NEW t \in Type
  PROVE  Fits(Node(args, own, t, Sorted(typed, t)))
<1>1. Holds(own) \in Verdict /\ Sorted(typed, t) \in {t, Ill}
  BY DEF Holds, Sorted, Verdict
<1> QED
  BY <1>1, ExprFits DEF Node, Right

(* Node without parts: it is right when its check and its text agree. *)
LEMMA LeafNode ==
  ASSUME NEW own \in BOOLEAN, NEW typed \in BOOLEAN, NEW t \in Type
  PROVE  /\ Fits(Node(<<>>, own, t, Sorted(typed, t)))
         /\ (own <=> typed) => Right(Node(<<>>, own, t, Sorted(typed, t)))
<1>1. DOMAIN <<>> = {}
  OBVIOUS
<1>2. \A k \in DOMAIN <<>> : Right(<<>>[k])
  BY <1>1
<1> QED
  BY <1>1, <1>2, NodeFits, NodeRight

(* Node with one part: the text needs no more than the check of a well     *)
(* sorted part gives, and is not typed where the check throws.             *)
LEMMA UnaryNode ==
  ASSUME NEW x, Right(x), NEW own \in BOOLEAN, NEW typed \in BOOLEAN,
         NEW t \in Type
  PROVE  /\ Fits(Node(<<x>>, own, t, Sorted(typed, t)))
         /\ (own /\ x.sort = x.type => typed) /\ (~own => ~typed)
            => Right(Node(<<x>>, own, t, Sorted(typed, t)))
<1>1. DOMAIN <<x>> = {1} /\ <<x>>[1] = x
  OBVIOUS
<1>2. \A k \in DOMAIN <<x>> : Right(<<x>>[k])
  BY <1>1
<1> QED
  BY <1>1, <1>2, NodeFits, NodeRight

(* Node with two parts, the same. *)
LEMMA BinaryNode ==
  ASSUME NEW l, NEW r, Right(l), Right(r),
         NEW own \in BOOLEAN, NEW typed \in BOOLEAN, NEW t \in Type
  PROVE  /\ Fits(Node(<<l, r>>, own, t, Sorted(typed, t)))
         /\ /\ own /\ l.sort = l.type /\ r.sort = r.type => typed
            /\ ~own => ~typed
            => Right(Node(<<l, r>>, own, t, Sorted(typed, t)))
<1>1. DOMAIN <<l, r>> = {1, 2} /\ <<l, r>>[1] = l /\ <<l, r>>[2] = r
  OBVIOUS
<1>2. \A k \in DOMAIN <<l, r>> : Right(<<l, r>>[k])
  BY <1>1
<1> QED
  BY <1>1, <1>2, NodeFits, NodeRight

(* An expression with a flaw says nothing. *)
LEMMA FlawedRight ==
  ASSUME NEW e, Fits(e), NEW flaw \in Flaw, NEW b \in BOOLEAN, ~b => Right(e)
  PROVE  Right(FlawedIf(b, e, flaw))
<1>1. Fits(Flawed(e, flaw)) /\ Flawed(e, flaw).flaws # {}
  BY DEF Fits, Flawed, Expression
<1> QED
  BY <1>1 DEF Right, FlawedIf

(* Only Right's own fields matter to it. *)
LEMMA RecheckedRight ==
  ASSUME NEW e, Right(e), NEW v \in Verdict
  PROVE  Right([e EXCEPT !.check = v])
BY DEF Right, Fits, Expression

(* A literal is as right as the operand without its value. *)
LEMMA ValuedRight ==
  ASSUME NEW e, Right(e), NEW v \in Seq(Int)
  PROVE  Right([e EXCEPT !.value = v])
BY DEF Right, Fits, Expression
-----------------------------------------------------------------------------
(* checkTypes compares the operands' types, so that the left one's         *)
(* theory has the operator and fits both.                                  *)
LEMMA BinaryMathRight ==
  ASSUME NEW l, NEW r, Right(l), Right(r), NEW op \in MathOp
  PROVE  Right(LogicExpressionBinaryMath(op, l, r))
BY Parts, BinaryNode, TypeAssumption
   DEF LogicExpressionBinaryMath, Both, MathOps,
       MathOp, Numeric, LLVMInt, LLVMFloat, LLVMPtr, IntOrIntVector, FPOrFPVector

(* The same for and, or, xor. *)
LEMMA BinaryBitsRight ==
  ASSUME NEW l, NEW r, Right(l), Right(r)
  PROVE  Right(LogicExpressionBinaryBits(l, r))
BY Parts, BinaryNode, TypeAssumption
   DEF LogicExpressionBinaryBits, Both

(* A shift of an integer is by an int; what the vector theories would      *)
(* take is the flaw.                                                       *)
LEMMA BinaryShiftRight ==
  ASSUME NEW l, NEW r, Right(l), Right(r)
  PROVE  Right(LogicExpressionBinaryShift(l, r))
<1>1. "stricter" \in Flaw
  BY DEF Flaw
<1> QED
  BY <1>1, Parts, BinaryNode, FlawedRight, TypeAssumption
     DEF LogicExpressionBinaryShift, IntOrIntVector, LLVMInt

(* not of integers and vectors of integers. *)
LEMMA BitNotRight ==
  ASSUME NEW x, Right(x)
  PROVE  Right(LogicExpressionBitNot(x))
<1>1. /\ IntOrIntVector(x.type) /\ x.sort = x.type => (IntOrIntVector(x.type) /\ x.sort = x.type)
      /\ ~(IntOrIntVector(x.type)) => ~((IntOrIntVector(x.type) /\ x.sort = x.type))
  BY Parts, TypeAssumption
<1>2. x.type \in Type
  BY Parts
<1> QED
  BY <1>1, <1>2, UnaryNode, ZenonT(30) DEF LogicExpressionBitNot, IntOrIntVector, LLVMInt

(* Negation of numbers; of vectors it is flawed. *)
LEMMA NegateRight ==
  ASSUME NEW x, Right(x)
  PROVE  Right(LogicExpressionNegate(x))
<1>1. "vectorNegation" \in Flaw
  BY DEF Flaw
<1> QED
  BY <1>1, Parts, UnaryNode, FlawedRight, TypeAssumption
     DEF LogicExpressionNegate, Numeric

(* The three comparisons: each takes the types whose theory orders them. *)
LEMMA BinaryCompareRight ==
  ASSUME NEW l, NEW r, Right(l), Right(r)
  PROVE  Right(LogicExpressionBinaryCompare(l, r))
BY Parts, BinaryNode, TypeAssumption
   DEF LogicExpressionBinaryCompare, Comparison, Both

(* Comparison of LLVM integers. *)
LEMMA BinaryCompareLLVMRight ==
  ASSUME NEW l, NEW r, Right(l), Right(r)
  PROVE  Right(LogicExpressionBinaryCompareLLVM(l, r))
BY Parts, BinaryNode, TypeAssumption
   DEF LogicExpressionBinaryCompareLLVM, Comparison, Both

(* Comparison of LLVM floats. *)
LEMMA BinaryCompareFloatRight ==
  ASSUME NEW l, NEW r, Right(l), Right(r)
  PROVE  Right(LogicExpressionBinaryCompareFloat(l, r))
BY Parts, BinaryNode, TypeAssumption
   DEF LogicExpressionBinaryCompareFloat, Comparison, Both

(* Equality asks only that both sides have one type. *)
LEMMA EqualsRight ==
  ASSUME NEW l, NEW r, Right(l), Right(r)
  PROVE  Right(LogicExpressionEquals(l, r))
<1>1. /\ /\ l.type = r.type /\ l.sort = l.type /\ r.sort = r.type
         => l.sort = r.sort /\ l.sort # Ill
      /\ ~(l.type = r.type) => ~(l.sort = r.sort /\ l.sort # Ill)
  BY Parts
<1>2. BoolType \in Type
  BY TypeAssumption
<1> QED
  BY <1>1, <1>2, BinaryNode, ZenonT(30) DEF LogicExpressionEquals

(* Negation of a bool. *)
LEMMA NotRight ==
  ASSUME NEW x, Right(x)
  PROVE  Right(LogicExpressionNot(x))
<1>1. /\ x.type = BoolType /\ x.sort = x.type => x.sort = BoolType
      /\ ~(x.type = BoolType) => ~(x.sort = BoolType)
  BY Parts, TypeAssumption
<1>2. BoolType \in Type
  BY TypeAssumption
<1> QED
  BY <1>1, <1>2, UnaryNode, ZenonT(30) DEF LogicExpressionNot

(* The connectives of two bools. *)
LEMMA BinaryBooleanRight ==
  ASSUME NEW l, NEW r, Right(l), Right(r)
  PROVE  Right(LogicExpressionBinaryBoolean(l, r))
BY Parts, BinaryNode, TypeAssumption
   DEF LogicExpressionBinaryBoolean, Both

(* A quantified body is a bool; a bound variable without a Why3 type is    *)
(* the flaw.                                                               *)
LEMMA QuantifierRight ==
  ASSUME NEW x, Right(x), NEW t \in Type
  PROVE  Right(LogicExpressionQuantifier(t, x))
<1> DEFINE node == Node(<<x>>, x.type = BoolType, BoolType,
                        Sorted(HasSort(t) /\ x.sort = BoolType, BoolType))
<1>1. BoolType \in Type /\ "noSort" \in Flaw
  BY TypeAssumption DEF Flaw
<1>2. ~(x.type = BoolType) => ~(HasSort(t) /\ x.sort = BoolType)
  BY Parts, TypeAssumption
<1>3. HasSort(t) /\ x.type = BoolType /\ x.sort = x.type
      => HasSort(t) /\ x.sort = BoolType
  OBVIOUS
<1>4. Fits(node) /\ (HasSort(t) => Right(node))
  BY <1>1, <1>2, <1>3, UnaryNode, ZenonT(30)
<1>5. (~HasSort(t)) \in BOOLEAN
  BY DEF HasSort
<1> QED
  BY <1>1, <1>4, <1>5, FlawedRight DEF LogicExpressionQuantifier

(* The casts print what they checked: the operand's type picks the         *)
(* theory that converts it.                                                *)
LEMMA FloatToRealRight ==
  ASSUME NEW x, Right(x)
  PROVE  Right(LogicExpressionFloatToReal(x))
<1>1. /\ LLVMFloat(x.type) /\ x.sort = x.type => (LLVMFloat(x.type) /\ x.sort = x.type)
      /\ ~(LLVMFloat(x.type)) => ~((LLVMFloat(x.type) /\ x.sort = x.type))
  BY Parts, TypeAssumption
<1>2. RealType \in Type
  BY TypeAssumption
<1> QED
  BY <1>1, <1>2, UnaryNode, ZenonT(30) DEF LogicExpressionFloatToReal, Cast, LLVMFloat

(* Cast of a real to a float. *)
LEMMA RealToFloatRight ==
  ASSUME NEW x, Right(x), NEW t \in Type
  PROVE  Right(LogicExpressionRealToFloat(x, t))
BY Parts, UnaryNode, TypeAssumption
   DEF LogicExpressionRealToFloat, Cast

(* Cast of an int to a real. *)
LEMMA IntToRealRight ==
  ASSUME NEW x, Right(x)
  PROVE  Right(LogicExpressionIntToReal(x))
BY Parts, UnaryNode, TypeAssumption
   DEF LogicExpressionIntToReal, Cast

(* Cast of a real to an int. *)
LEMMA RealToIntRight ==
  ASSUME NEW x, Right(x)
  PROVE  Right(LogicExpressionRealToInt(x))
BY Parts, UnaryNode, TypeAssumption
   DEF LogicExpressionRealToInt, Cast

(* Cast of an int to an LLVM integer. *)
LEMMA LogicIntToLLVMIntRight ==
  ASSUME NEW x, Right(x), NEW t \in Type
  PROVE  Right(LogicExpressionLogicIntToLLVMInt(x, t))
BY Parts, UnaryNode, TypeAssumption
   DEF LogicExpressionLogicIntToLLVMInt, Cast

(* Cast of an LLVM integer to an int. *)
LEMMA LLVMIntToLogicIntRight ==
  ASSUME NEW x, Right(x)
  PROVE  Right(LogicExpressionLLVMIntToLogicInt(x))
<1>1. /\ LLVMInt(x.type) /\ x.sort = x.type => (LLVMInt(x.type) /\ x.sort = x.type)
      /\ ~(LLVMInt(x.type)) => ~((LLVMInt(x.type) /\ x.sort = x.type))
  BY Parts, TypeAssumption
<1>2. IntType \in Type
  BY TypeAssumption
<1> QED
  BY <1>1, <1>2, UnaryNode, ZenonT(30) DEF LogicExpressionLLVMIntToLogicInt, Cast, LLVMInt

(* Cast of a pointer to a pointer. *)
LEMMA PointerToPointerRight ==
  ASSUME NEW x, Right(x), NEW t \in Type
  PROVE  Right(LogicExpressionPointerToPointer(x, t))
BY Parts, UnaryNode, TypeAssumption
   DEF LogicExpressionPointerToPointer, Cast

(* Cast of an LLVM integer to a pointer. *)
LEMMA IntToPointerRight ==
  ASSUME NEW x, Right(x), NEW t \in Type
  PROVE  Right(LogicExpressionIntToPointer(x, t))
BY Parts, UnaryNode, TypeAssumption
   DEF LogicExpressionIntToPointer, Cast

(* Casts between LLVM integers; the width is checked though Why3 would     *)
(* not mind, which is the flaw.                                            *)
LEMMA LLVMIntToLLVMIntRight ==
  ASSUME NEW x, Right(x), NEW t \in Type, NEW op \in {"trunc", "ext"}
  PROVE  Right(LogicExpressionLLVMIntToLLVMInt(op, x, t))
<1>1. "stricter" \in Flaw
  BY DEF Flaw
<1> QED
  BY <1>1, Parts, UnaryNode, FlawedRight, TypeAssumption
     DEF LogicExpressionLLVMIntToLLVMInt

(* A cast to an integer as wide as pointers are is the flaw; the others    *)
(* are right.                                                              *)
LEMMA PointerToIntRight ==
  ASSUME NEW x, Right(x), NEW t \in Type
  PROVE  Right(LogicExpressionPointerToInt(x, t))
<1>1. "pointerToInt" \in Flaw
  BY DEF Flaw
<1> QED
  BY <1>1, Parts, UnaryNode, FlawedRight, TypeAssumption
     DEF LogicExpressionPointerToInt

(* fresh takes a pointer. *)
LEMMA FreshRight ==
  ASSUME NEW x, Right(x)
  PROVE  Right(LogicExpressionFresh(x))
<1>1. /\ LLVMPtr(x.type) /\ x.sort = x.type => (LLVMPtr(x.type) /\ x.sort = x.type)
      /\ ~(LLVMPtr(x.type)) => ~((LLVMPtr(x.type) /\ x.sort = x.type))
  BY Parts, TypeAssumption
<1>2. BoolType \in Type
  BY TypeAssumption
<1> QED
  BY <1>1, <1>2, UnaryNode, ZenonT(30) DEF LogicExpressionFresh, LLVMPtr

(* offset takes a pointer and an int, or a set of each. *)
LEMMA OffsetRight ==
  ASSUME NEW l, NEW r, Right(l), Right(r)
  PROVE  Right(LogicExpressionOffset(l, r))
BY Parts, BinaryNode, TypeAssumption, PartsAssumption
   DEF LogicExpressionOffset, LLVMPtr, PtrSet

(* Membership: the set's type names its element's type, which is never     *)
(* Ill.                                                                    *)
LEMMA InSetRight ==
  ASSUME NEW l, NEW r, Right(l), Right(r)
  PROVE  Right(LogicExpressionInSet(l, r))
<1>1. Of[l.type] # Ill
  BY Parts, TypeAssumption, PartsAssumption
<1>2. /\ /\ Kind[l.type] = "set" /\ r.type = Of[l.type]
         /\ l.sort = l.type /\ r.sort = r.type
         => Kind[l.type] = "set" /\ l.sort = l.type /\ r.sort = Of[l.type]
      /\ ~(Kind[l.type] = "set" /\ r.type = Of[l.type])
         => ~(Kind[l.type] = "set" /\ l.sort = l.type /\ r.sort = Of[l.type])
  BY <1>1, Parts
<1>3. BoolType \in Type
  BY TypeAssumption
<1> QED
  BY <1>2, <1>3, BinaryNode, ZenonT(30) DEF LogicExpressionInSet


(* Inclusion of sets of one type. *)
LEMMA SubsetRight ==
  ASSUME NEW l, NEW r, Right(l), Right(r)
  PROVE  Right(LogicExpressionSubset(l, r))
BY Parts, BinaryNode, TypeAssumption DEF LogicExpressionSubset, Both

(* Whichever of the two war_parse_in_op makes. *)
LEMMA InOpRight ==
  ASSUME NEW l, NEW r, Right(l), Right(r)
  PROVE  Right(war_parse_in_op(l, r))
BY SubsetRight, InSetRight DEF war_parse_in_op

(* A range of ints, for each set type it may get. *)
LEMMA RangeRight ==
  ASSUME NEW a, NEW b, Right(a), Right(b)
  PROVE  \A e \in LogicExpressionRange(a, b) : Right(e)
<1> SUFFICES ASSUME NEW u \in Type
             PROVE  Right(Node(<<a, b>>, a.type = IntType /\ b.type = IntType,
                               u, Sorted(Both(a, b, IntType), u)))
  BY DEF LogicExpressionRange
<1> QED
  BY Parts, BinaryNode, TypeAssumption DEF Both

(* An operand is right if its type has a text, flawed if not. *)
LEMMA OperandRight ==
  ASSUME NEW t \in Type
  PROVE  Right(Operand(t))
<1> DEFINE node == Node(<<>>, TRUE, t, Sorted(HasSort(t), t))
<1>1. HasSort(t) \in BOOLEAN /\ (~HasSort(t)) \in BOOLEAN /\ "noSort" \in Flaw
  BY DEF HasSort, Flaw
<1>2. Fits(node) /\ (HasSort(t) => Right(node))
  BY <1>1, LeafNode, ZenonT(30)
<1> QED
  BY <1>1, <1>2, FlawedRight DEF Operand

(* The literals of metadata and WhyR's own syntax. *)
LEMMA LiteralRight ==
  ASSUME NEW t \in Type, NEW v \in Int
  PROVE  Right(Literal(t, v))
<1>1. <<v>> \in Seq(Int)
  OBVIOUS
<1> QED
  BY <1>1, OperandRight, ValuedRight DEF Literal

(* The constants of the integer theories exist for integers only. *)
LEMMA SpecialLLVMConstantRight ==
  ASSUME NEW t \in Type
  PROVE  Right(LogicExpressionSpecialLLVMConstant(t))
BY LeafNode, ZenonT(30) DEF LogicExpressionSpecialLLVMConstant, LLVMInt

(* A conditional has the type its branches share. *)
LEMMA ConditionalRight ==
  ASSUME NEW c, NEW a, NEW b, Right(c), Right(a), Right(b)
  PROVE  Right(LogicExpressionConditional(c, a, b))
<1> DEFINE args == <<c, a, b>>
           own == Holds(c.type = BoolType /\ a.type = b.type)
           sort == Sorted(c.sort = BoolType /\ a.sort = b.sort, a.sort)
<1>1. DOMAIN args = {1, 2, 3} /\ args[1] = c /\ args[2] = a /\ args[3] = b
  OBVIOUS
<1>2. own \in Verdict /\ a.type \in Type /\ sort \in {a.type, Ill}
  BY Parts DEF Holds, Verdict, Sorted
<1>3. own = "ok" /\ (\A k \in DOMAIN args : args[k].sort = args[k].type)
      => sort = a.type
  BY <1>1 DEF Holds, Sorted
<1>4. own = "throws" => sort = Ill
  BY Parts, TypeAssumption DEF Holds, Sorted
<1> QED
  BY <1>1, <1>2, <1>3, <1>4, ExprRight DEF LogicExpressionConditional, Node

(* The parts of a class that does not ask for their checks are none the    *)
(* less right.                                                             *)
LEMMA BooleanRight ==
  ASSUME NEW x, Right(x)
  PROVE  Right(LogicExpressionBoolean(x))
<1> DEFINE i1 == LLVMInt(x.type) /\ Width[x.type] = 1
           sort == Sorted(i1 /\ x.sort = x.type, BoolType)
<1>1. DOMAIN <<x>> = {1} /\ <<x>>[1] = x
  OBVIOUS
<1>2. Holds(i1) \in Verdict /\ sort \in {BoolType, Ill} /\ BoolType \in Type
  BY TypeAssumption DEF Holds, Verdict, Sorted
<1>3. /\ Holds(i1) = "ok" /\ x.sort = x.type => sort = BoolType
      /\ Holds(i1) = "throws" => sort = Ill
  BY DEF Holds, Sorted
<1> QED
  BY <1>1, <1>2, <1>3, ExprRight DEF LogicExpressionBoolean

(* let takes the body's type; a value of another type than declared is     *)
(* the flaw.                                                               *)
LEMMA LetRight ==
  ASSUME NEW t \in Type, NEW v, NEW x, Right(v), Right(x)
  PROVE  Right(LogicExpressionLet(t, v, x))
<1> DEFINE args == <<v, x>>
           own == Holds(t = v.type)
           sort == Sorted(v.sort = t, x.sort)
           e == Expr(args, <<x.check>>, own, x.type, sort)
<1>1. DOMAIN args = {1, 2} /\ args[1] = v /\ args[2] = x
  OBVIOUS
<1>2. own \in Verdict /\ x.type \in Type /\ sort \in {x.type, Ill}
  BY Parts DEF Holds, Verdict, Sorted
<1>3. Fits(e)
  BY <1>1, <1>2, ExprFits DEF Right
<1>4. t = v.type => Right(e)
  BY <1>1, <1>2, ExprRight DEF Holds, Sorted
<1>5. (t # v.type) \in BOOLEAN /\ "stricter" \in Flaw
  BY DEF Flaw
<1> QED
  BY <1>3, <1>4, <1>5, FlawedRight DEF LogicExpressionLet

(* A load exists for pointers only, and is of what they point to. *)
LEMMA LoadRight ==
  ASSUME NEW x, Right(x)
  PROVE  \A e \in LogicExpressionLoad(x) : Right(e)
<1>1. Of[x.type] \in Type
  BY Parts, PartsAssumption
<1>2. Right(Node(<<x>>, TRUE, Of[x.type], Sorted(x.sort = x.type, Of[x.type])))
  BY <1>1, UnaryNode, ZenonT(30)
<1> QED
  BY <1>2 DEF LogicExpressionLoad

(* old changes neither type nor sort. *)
LEMMA OldRight ==
  ASSUME NEW x, Right(x)
  PROVE  Right(LogicExpressionOld(x))
<1>1. DOMAIN <<x>> = {1} /\ <<x>>[1] = x
  OBVIOUS
<1> QED
  BY <1>1, Parts, ExprRight DEF LogicExpressionOld, Node, Holds, Verdict

(* Whichever cast ParserTrunc makes. *)
LEMMA TruncRight ==
  ASSUME NEW x, Right(x), NEW t \in Type
  PROVE  Right(ParserTrunc(x, t))
BY LogicIntToLLVMIntRight, LLVMIntToLLVMIntRight DEF ParserTrunc

(* Whichever cast ParserExt makes. *)
LEMMA ExtRight ==
  ASSUME NEW x, Right(x), NEW t \in Type
  PROVE  Right(ParserExt(x, t))
BY LLVMIntToLogicIntRight, LLVMIntToLLVMIntRight DEF ParserExt

(* Whichever cast the types select in WhyR's own syntax. *)
LEMMA CastRight ==
  ASSUME NEW x, Right(x), NEW t \in Type
  PROVE  \A e \in war_parse_cast(x, t) \cup war_parse_cast_ext(x, t) : Right(e)
<1>1. /\ Right(x) /\ Right(Operand(t)) /\ Right(LogicExpressionBoolean(x))
      /\ Right(LogicExpressionLLVMIntToLLVMInt("trunc", x, t))
      /\ Right(LogicExpressionLLVMIntToLLVMInt("ext", x, t))
      /\ Right(LogicExpressionLogicIntToLLVMInt(x, t))
      /\ Right(LogicExpressionLLVMIntToLogicInt(x))
  BY OperandRight, BooleanRight, LLVMIntToLLVMIntRight,
     LogicIntToLLVMIntRight, LLVMIntToLogicIntRight
<1>2. /\ Right(LogicExpressionFloatToReal(x))
      /\ Right(LogicExpressionRealToFloat(LogicExpressionFloatToReal(x), t))
      /\ Right(LogicExpressionRealToFloat(x, t))
      /\ Right(LogicExpressionRealToInt(x)) /\ Right(LogicExpressionIntToReal(x))
  BY FloatToRealRight, RealToFloatRight, RealToIntRight, IntToRealRight
<1>3. /\ Right(LogicExpressionPointerToInt(x, t))
      /\ Right(LogicExpressionIntToPointer(x, t))
      /\ Right(LogicExpressionPointerToPointer(x, t))
  BY PointerToIntRight, IntToPointerRight, PointerToPointerRight
<1>4. \A e \in war_parse_cast(x, t) : Right(e)
  BY <1>1, <1>2, <1>3 DEF war_parse_cast
<1>5. \A e \in war_parse_cast_ext(x, t) : Right(e)
  BY <1>1 DEF war_parse_cast_ext
<1> QED
  BY <1>4, <1>5

(* A field the model takes is a type of the universe. *)
LEMMA FieldType ==
  ASSUME NEW a, Right(a), NEW i, FieldIndex(a, i)
  PROVE  Field(a, i) \in Type /\ Field(a, i) # Ill
<1>1. Fields[a.type] \in Seq(Type)
  BY Parts, PartsAssumption
<1> QED
  BY <1>1, ElementOfSeq, TypeAssumption DEF FieldIndex, Field

(* Reading an element: the constructor finds its type, or there is no      *)
(* expression.                                                             *)
LEMMA GetIndexRight ==
  ASSUME NEW a, NEW i, Right(a), Right(i)
  PROVE  \A e \in LogicExpressionGetIndex(a, i) : Right(e)
<1>1. ASSUME FieldIndex(a, i)
      PROVE  Right(Node(<<a, i>>, TRUE, Field(a, i),
                        Sorted(a.sort = a.type, Field(a, i))))
  BY <1>1, FieldType, BinaryNode, ZenonT(30)
<1>2. i.type = IntType
      => Right(Node(<<a, i>>, TRUE, Of[a.type],
                    Sorted(a.sort = a.type /\ i.sort = IntType, Of[a.type])))
  <2>1. Of[a.type] \in Type
    BY Parts, PartsAssumption
  <2> QED
    BY <2>1, BinaryNode, ZenonT(30)
<1> QED
  BY <1>1, <1>2 DEF LogicExpressionGetIndex, LiteralInt

(* Writing an element: checkTypes finds the element's type as Why3 does,   *)
(* for structs, arrays and vectors.                                        *)
LEMMA SetIndexRight ==
  ASSUME NEW a, NEW i, NEW v, Right(a), Right(i), Right(v)
  PROVE  Right(LogicExpressionSetIndex(a, i, v))
<1> DEFINE struct == Kind[a.type] = "struct"
           own == CASE struct -> IF ~LiteralInt(i) THEN "throws"
                                 ELSE IF ~FieldIndex(a, i) THEN "aborts"
                                 ELSE Holds(v.type = Field(a, i))
                    [] Indexed(a.type) ->
                         Holds(i.type = IntType /\ v.type = Of[a.type])
                    [] OTHER -> "throws"
           typed == CASE struct -> /\ LiteralInt(i) /\ FieldIndex(a, i)
                                   /\ v.sort = Field(a, i)
                      [] Indexed(a.type) -> i.sort = IntType /\ v.sort = Of[a.type]
                      [] OTHER -> FALSE
           sort == Sorted(typed /\ a.sort = a.type, a.type)
           args == <<a, i, v>>
<1>1. DOMAIN args = {1, 2, 3} /\ args[1] = a /\ args[2] = i /\ args[3] = v
  OBVIOUS
<1>2. struct => ~Indexed(a.type)
  BY DEF Indexed
<1>3. own \in Verdict
  BY <1>2 DEF Verdict, Holds
<1>4. a.type \in Type /\ sort \in {a.type, Ill}
  BY Parts DEF Sorted
<1>5. own = "ok" /\ (\A k \in DOMAIN args : args[k].sort = args[k].type)
      => sort = a.type
  <2>1. CASE struct
    BY <2>1, <1>1, <1>2 DEF Holds, Sorted
  <2>2. CASE ~struct /\ Indexed(a.type)
    BY <2>2, <1>1 DEF Holds, Sorted
  <2>3. CASE ~struct /\ ~Indexed(a.type)
    BY <2>3
  <2> QED
    BY <2>1, <2>2, <2>3
<1>6. own = "throws" => sort = Ill
  <2>1. CASE struct
    BY <2>1, <1>2, Parts, FieldType DEF Holds, Sorted
  <2>2. CASE ~struct /\ Indexed(a.type)
    <3>1. Of[a.type] # Ill /\ IntType # Ill
      BY Parts, TypeAssumption, PartsAssumption
    <3> QED
      BY <3>1, <2>2, Parts DEF Holds, Sorted
  <2>3. CASE ~struct /\ ~Indexed(a.type)
    BY <2>3 DEF Sorted
  <2> QED
    BY <2>1, <2>2, <2>3
<1> HIDE DEF own, sort
<1>7. Right(Expr(args, Checks(args), own, a.type, sort))
  BY <1>1, <1>3, <1>4, <1>5, <1>6, ExprRight
<1> QED
  BY <1>7 DEF LogicExpressionSetIndex, own, sort

(* Classes with any number of parts of given types. *)
LEMMA ElementsRight ==
  ASSUME NEW args, \A k \in DOMAIN args : Right(args[k]), NEW own \in BOOLEAN,
         NEW wanted, \A k \in DOMAIN args : wanted[k] \in Type, NEW t \in Type
  PROVE  Right(Elements(args, own, wanted, t))
<1> DEFINE all == own /\ \A k \in DOMAIN args : args[k].type = wanted[k]
           typed == own /\ \A k \in DOMAIN args : args[k].sort = wanted[k]
           sort == Sorted(typed, t)
           e == Expr(args, <<>>, Holds(all), t, sort)
<1>1. Holds(all) \in Verdict /\ sort \in {t, Ill}
  BY DEF Holds, Verdict, Sorted
<1>2. Holds(all) = "ok" /\ (\A k \in DOMAIN args : args[k].sort = args[k].type)
      => sort = t
  BY DEF Holds, Sorted
<1>3. Holds(all) = "throws" => sort = Ill
  <2>1. typed => all
    BY Parts, TypeAssumption
  <2> QED
    BY <2>1 DEF Holds, Sorted
<1>4. Right(e)
  BY <1>1, <1>2, <1>3, ExprRight
<1> QED
  BY <1>4, FirstVerdict, RecheckedRight DEF Elements

(* Whichever aggregate AggregateOf makes; the elements wanted are types    *)
(* because Of and Fields give types.                                       *)
LEMMA AggregateRight ==
  ASSUME NEW args \in Seq(RightExpression), NEW t \in Type
  PROVE  \A e \in AggregateOf(args, t) : Right(e)
<1>1. \A k \in DOMAIN args : Right(args[k])
  BY ElementOfSeq DEF RightExpression
<1>2. \A u \in Type, k \in DOMAIN args : Same(args, u)[k] = u
  BY DEF Same
<1>3. Of[t] \in Type
  BY PartsAssumption
<1>4. Right(LogicExpressionCreateSet(args, t))
  <2>1. Right(Elements(args, TRUE, Same(args, Of[t]), t))
    BY <1>1, <1>2, <1>3, ElementsRight
  <2>2. (~HasSort(t)) \in BOOLEAN /\ "noSort" \in Flaw
    BY DEF HasSort, Flaw
  <2> QED
    BY <2>1, <2>2, FlawedRight DEF LogicExpressionCreateSet, Right
<1>5. Right(LogicExpressionLLVMArrayConstant(args, t))
  BY <1>1, <1>2, <1>3, ElementsRight DEF LogicExpressionLLVMArrayConstant
<1>6. Right(LogicExpressionLLVMVectorConstant(args, t))
  <2>1. (args # <<>>) \in BOOLEAN
    OBVIOUS
  <2> QED
    BY <2>1, <1>1, <1>2, <1>3, ElementsRight DEF LogicExpressionLLVMVectorConstant
<1>7. Right(LogicExpressionLLVMStructConstant(args, t))
  <2> DEFINE sizes == Kind[t] = "struct" /\ Len(Fields[t]) = Len(args)
             wanted == IF sizes THEN Fields[t] ELSE Same(args, t)
  <2>1. Fields[t] \in Seq(Type)
    BY PartsAssumption
  <2>2. \A k \in DOMAIN args : wanted[k] \in Type
    <3>1. sizes => \A k \in DOMAIN args : Fields[t][k] \in Type
      BY <2>1, ElementOfSeq, LenProperties
    <3> QED
      BY <3>1, <1>2
  <2>3. sizes \in BOOLEAN
    OBVIOUS
  <2> HIDE DEF sizes, wanted
  <2>4. Right(Elements(args, sizes, wanted, t))
    BY <1>1, <2>2, <2>3, ElementsRight
  <2> QED
    BY <2>4 DEF LogicExpressionLLVMStructConstant, sizes, wanted
<1> QED
  BY <1>4, <1>5, <1>6, <1>7 DEF AggregateOf

(* getelementptr is right although it checks nothing: it is deep when      *)
(* its parts are, and only asks that they have their sorts.                *)
LEMMA GepRight ==
  ASSUME NEW p, Right(p), NEW indices \in Seq(RightExpression)
  PROVE  \A e \in LogicExpressionGetElementPointer(p, indices) : Right(e)
<1> DEFINE args == <<p>> \o indices
<1>1. args \in Seq(RightExpression)
  BY DEF RightExpression, Right, Fits
<1>2. \A k \in DOMAIN args : Right(args[k])
  BY <1>1, ElementOfSeq DEF RightExpression
<1> HIDE DEF args
<1>3. ASSUME NEW u \in Type
      PROVE  Right(Expr(args, <<>>, "ok", u,
                     Sorted(\A k \in DOMAIN args : args[k].sort = args[k].type, u)))
  <2> DEFINE sort == Sorted(\A k \in DOMAIN args : args[k].sort = args[k].type, u)
  <2>1. sort \in {u, Ill} /\ "ok" \in Verdict
    BY DEF Sorted, Verdict
  <2>2. (\A k \in DOMAIN args : args[k].sort = args[k].type) => sort = u
    BY DEF Sorted
  <2> QED
    BY <1>2, <2>1, <2>2, ExprRight
<1> QED
  BY <1>3 DEF LogicExpressionGetElementPointer, args

-----------------------------------------------------------------------------
(* The operands wait on the stack in order, and each is right. *)
IndInv ==
  /\ stack \in Seq(RightExpression)
  /\ nodes \in 0..MaxNodes
  /\ status \in {"parsing", "accepted", "error", "crash"}

(* What a constructor takes from the stack is right if the stack is. *)
LEMMA TopParts ==
  ASSUME stack \in Seq(RightExpression), NEW n \in 0..Len(stack)
  PROVE  /\ Top(n) \in Seq(RightExpression)
         /\ Len(Top(n)) = n
         /\ \A k \in 1..n : Right(Top(n)[k])
<1>1. Top(n) \in Seq(RightExpression) /\ Len(Top(n)) = n
  BY SubSeqProperties DEF Top
<1> QED
  BY <1>1, ElementOfSeq DEF RightExpression

(* Putting a right expression in place of what it is made of keeps the     *)
(* invariant.                                                              *)
LEMMA TakeInv ==
  ASSUME IndInv, Parsing, NEW n \in 0..Len(stack), NEW e, Right(e), Take(n, e)
  PROVE  IndInv'
<1>1. e \in RightExpression
  BY DEF RightExpression, Right, Fits
<1>2. SubSeq(stack, 1, Len(stack) - n) \in Seq(RightExpression)
  BY SubSeqProperties DEF IndInv
<1>3. stack' \in Seq(RightExpression)
  BY <1>1, <1>2, AppendProperties DEF Take
<1>4. nodes' \in 0..MaxNodes
  BY PartsAssumption DEF IndInv, Parsing, Take
<1> QED
  BY <1>3, <1>4 DEF IndInv, Take

(* Every step of the parser keeps the stack right: one step per action,    *)
(* one lemma per constructor.                                              *)
LEMMA Inductive == IndInv /\ [Next]_vars => IndInv'
<1> SUFFICES ASSUME IndInv, [Next]_vars PROVE IndInv'
  OBVIOUS
<1>0. Len(stack) \in Nat
  BY LenProperties DEF IndInv
<1>1. CASE Leaf
  <2>1. PICK t \in Type :
          \/ Take(0, Operand(t))
          \/ Take(0, LogicExpressionSpecialLLVMConstant(t))
          \/ t = IntType /\ \E v \in {-1, 0, 1} : Take(0, Literal(t, v))
          \/ t \in {BoolType, RealType} /\ Take(0, Literal(t, 0))
    BY <1>1 DEF Leaf
  <2>2. \E e : Right(e) /\ Take(0, e)
    BY <2>1, OperandRight, SpecialLLVMConstantRight, LiteralRight
  <2> QED
    BY <2>2, <1>0, <1>1, TakeInv DEF Leaf
<1>2. CASE Unary
  <2> DEFINE x == Top(1)[1]
  <2>1. Right(x)
    BY <1>0, <1>2, TopParts DEF IndInv, Unary
  <2>2. \A e \in UnaryOf(x) : Right(e)
    BY <2>1, BitNotRight, NegateRight, NotRight, BooleanRight,
       FloatToRealRight, IntToRealRight, RealToIntRight, FreshRight, OldRight,
       LoadRight DEF UnaryOf
  <2>3. \A t \in Type : \A e \in TypedOf(x, t) : Right(e)
    BY <2>1, QuantifierRight, RealToFloatRight, TruncRight, ExtRight,
       PointerToPointerRight, IntToPointerRight, PointerToIntRight, CastRight
       DEF TypedOf
  <2>4. \E e : Right(e) /\ Take(1, e)
    BY <1>2, <2>2, <2>3 DEF Unary
  <2> QED
    BY <2>4, <1>0, <1>2, TakeInv DEF Unary
<1>3. CASE Binary
  <2> DEFINE l == Top(2)[1]
             r == Top(2)[2]
  <2>1. Right(l) /\ Right(r)
    BY <1>0, <1>3, TopParts DEF IndInv, Binary
  <2> HIDE DEF l, r
  <2>2. \A e \in BinaryOf(l, r) : Right(e)
    <3>1. \A op \in MathOp : Right(LogicExpressionBinaryMath(op, l, r))
      BY <2>1, BinaryMathRight
    <3>2. /\ Right(LogicExpressionBinaryBits(l, r))
          /\ Right(LogicExpressionBinaryShift(l, r))
          /\ Right(LogicExpressionBinaryCompare(l, r))
          /\ Right(LogicExpressionBinaryCompareLLVM(l, r))
          /\ Right(LogicExpressionBinaryCompareFloat(l, r))
          /\ Right(LogicExpressionEquals(l, r))
      BY <2>1, BinaryBitsRight, BinaryShiftRight, BinaryCompareRight,
         BinaryCompareLLVMRight, BinaryCompareFloatRight, EqualsRight
    <3>3. /\ Right(LogicExpressionBinaryBoolean(l, r))
          /\ Right(LogicExpressionOffset(l, r))
          /\ Right(LogicExpressionInSet(l, r))
          /\ Right(LogicExpressionSubset(l, r))
          /\ Right(war_parse_in_op(l, r))
      BY <2>1, BinaryBooleanRight, OffsetRight, InSetRight, SubsetRight, InOpRight
    <3>4. \A t \in Type : Right(LogicExpressionLet(t, l, r))
      BY <2>1, LetRight
    <3>5. \A e \in LogicExpressionGetIndex(l, r) \cup LogicExpressionRange(l, r) :
            Right(e)
      BY <2>1, GetIndexRight, RangeRight
    <3> QED
      BY <3>1, <3>2, <3>3, <3>4, <3>5 DEF BinaryOf
  <2>3. \E e : Right(e) /\ Take(2, e)
    BY <1>3, <2>2 DEF Binary, l, r
  <2> QED
    BY <2>3, <1>0, <1>3, TakeInv DEF Binary
<1>4. CASE Ternary
  <2>1. \A k \in 1..3 : Right(Top(3)[k])
    BY <1>0, <1>4, TopParts DEF IndInv, Ternary
  <2>2. \E e : Right(e) /\ Take(3, e)
    BY <1>4, <2>1, ConditionalRight, SetIndexRight DEF Ternary
  <2> QED
    BY <2>2, <1>0, <1>4, TakeInv DEF Ternary
<1>5. CASE Aggregate
  <2>1. PICK n \in 0..Len(stack), t \in Type :
          \E e \in AggregateOf(Top(n), t) : Take(n, e)
    BY <1>5 DEF Aggregate
  <2>2. \E e : Right(e) /\ Take(n, e)
    BY <2>1, TopParts, AggregateRight DEF IndInv
  <2> QED
    BY <2>2, <1>5, TakeInv DEF Aggregate
<1>6. CASE Gep
  <2>1. PICK n \in 1..Len(stack) :
          \E e \in LogicExpressionGetElementPointer(Top(n)[1], Tail(Top(n))) :
            Take(n, e)
    BY <1>6 DEF Gep
  <2>2. n \in 0..Len(stack)
    BY <1>0
  <2>3. /\ Top(n) \in Seq(RightExpression) /\ Len(Top(n)) = n
        /\ Right(Top(n)[1])
    BY <2>2, TopParts DEF IndInv
  <2>4. Tail(Top(n)) \in Seq(RightExpression)
    BY <2>3, HeadTailProperties, EmptySeq
  <2>5. \E e : Right(e) /\ Take(n, e)
    BY <2>1, <2>3, <2>4, GepRight
  <2> QED
    BY <2>2, <2>5, <1>6, TakeInv DEF Gep
<1>7. CASE Refuse \/ Abort \/ EndClause \/ NextClause \/ Stopped \/ UNCHANGED vars
  <2>1. stack' \in {stack, <<>>}
    BY <1>7 DEF Refuse, Abort, EndClause, NextClause, Stopped, vars
  <2>2. nodes' \in {nodes, 0} /\ 0 \in 0..MaxNodes
    BY <1>7, PartsAssumption DEF Refuse, Abort, EndClause, NextClause, Stopped, vars
  <2>3. status' \in {"parsing", "accepted", "error", "crash"}
    BY <1>7 DEF IndInv, Refuse, Abort, EndClause, NextClause, Stopped, vars
  <2> QED
    BY <2>1, <2>2, <2>3, EmptySeq DEF IndInv
<1> QED
  BY <1>1, <1>2, <1>3, <1>4, <1>5, <1>6, <1>7 DEF Next

(* So the stack is right throughout. *)
LEMMA Invariant == Spec => []IndInv
<1>1. Init => IndInv
  BY EmptySeq, PartsAssumption DEF Init, IndInv
<1> QED
  BY <1>1, Inductive, PTL DEF Spec

(* The expressions, the verdicts on them and the sorts of their texts keep *)
(* their types, for every universe of types and clauses of any size.       *)
THEOREM TypeCorrect == Spec => []TypeOK
<1>1. IndInv => TypeOK
  <2>1. RightExpression \subseteq Expression
    BY DEF RightExpression
  <2> QED
    BY <2>1, SeqMonotonic DEF IndInv, TypeOK
<1> QED
  BY <1>1, Invariant, PTL

(* What checkTypes accepts all the way down, toWhy3 prints as text of the  *)
(* right sort, unless it has one of the named flaws.                       *)
THEOREM ChecksEnough == Spec => []WellSorted
<1>1. IndInv => WellSorted
  BY ElementOfSeq DEF IndInv, WellSorted, RightExpression, Right
<1> QED
  BY <1>1, Invariant, PTL

(* What checkTypes refuses has no sort. *)
THEOREM ChecksNeeded == Spec => []NotOverstrict
<1>1. IndInv => NotOverstrict
  BY ElementOfSeq DEF IndInv, NotOverstrict, RightExpression, Right
<1> QED
  BY <1>1, Invariant, PTL

(* A cast has one part, so it is deep when that part is and its own        *)
(* check holds.                                                            *)
LEMMA OnePart ==
  \A x, visits, own, t, s :
    /\ Expr(<<x>>, visits, own, t, s).type = t
    /\ own = "ok" /\ x.deep => Expr(<<x>>, visits, own, t, s).deep
<1> TAKE x, visits, own, t, s
<1>1. DOMAIN <<x>> = {1} /\ <<x>>[1] = x
  OBVIOUS
<1> QED
  BY <1>1 DEF Expr

(* For each class that a cast may be given: the tests that picked it imply *)
(* its own.                                                                *)
LEMMA CastPasses ==
  ASSUME NEW x, x.type \in Type, NEW t \in Type
  PROVE  \A e \in war_parse_cast(x, t) \cup war_parse_cast_ext(x, t) :
           e.type = t /\ (x.deep => e.deep)
<1> USE TypeAssumption
<1> DEFINE Passes(e) == e.type = t /\ (x.deep => e.deep)
<1>1. Passes(Operand(t))
  <2>1. DOMAIN <<>> = {}
    OBVIOUS
  <2> QED
    BY <2>1 DEF Operand, FlawedIf, Flawed, Node, Expr, Holds
<1>2. LLVMInt(x.type) /\ Width[x.type] = 1 /\ t = BoolType
      => Passes(LogicExpressionBoolean(x))
  BY OnePart DEF LogicExpressionBoolean, Holds
<1>3. LLVMInt(x.type) /\ LLVMInt(t)
      => /\ Width[x.type] > Width[t]
            => Passes(LogicExpressionLLVMIntToLLVMInt("trunc", x, t))
         /\ Width[x.type] < Width[t]
            => Passes(LogicExpressionLLVMIntToLLVMInt("ext", x, t))
  <2>1. Width[x.type] \in Nat /\ Width[t] \in Nat
    BY PartsAssumption
  <2> QED
    BY <2>1, OnePart DEF LogicExpressionLLVMIntToLLVMInt, FlawedIf, Node, Holds
<1>4. /\ x.type = IntType /\ LLVMInt(t) => Passes(LogicExpressionLogicIntToLLVMInt(x, t))
      /\ x.type = RealType /\ LLVMFloat(t) => Passes(LogicExpressionRealToFloat(x, t))
      /\ LLVMInt(x.type) /\ LLVMPtr(t) => Passes(LogicExpressionIntToPointer(x, t))
      /\ LLVMPtr(x.type) /\ LLVMPtr(t) => Passes(LogicExpressionPointerToPointer(x, t))
  BY OnePart DEF LogicExpressionLogicIntToLLVMInt, LogicExpressionRealToFloat,
     LogicExpressionIntToPointer, LogicExpressionPointerToPointer, Cast, Node, Holds
<1>5. /\ LLVMInt(x.type) /\ t = IntType => Passes(LogicExpressionLLVMIntToLogicInt(x))
      /\ LLVMFloat(x.type) /\ t = RealType => Passes(LogicExpressionFloatToReal(x))
      /\ x.type = RealType /\ t = IntType => Passes(LogicExpressionRealToInt(x))
      /\ x.type = IntType /\ t = RealType => Passes(LogicExpressionIntToReal(x))
  BY OnePart DEF LogicExpressionLLVMIntToLogicInt, LogicExpressionFloatToReal,
     LogicExpressionRealToInt, LogicExpressionIntToReal, Cast, Node, Holds
<1>6. LLVMPtr(x.type) /\ LLVMInt(t) => Passes(LogicExpressionPointerToInt(x, t))
  BY OnePart DEF LogicExpressionPointerToInt, FlawedIf, Flawed, Node, Holds
<1>7. LLVMFloat(x.type) /\ LLVMFloat(t)
      => Passes(LogicExpressionRealToFloat(LogicExpressionFloatToReal(x), t))
  <2> DEFINE y == LogicExpressionFloatToReal(x)
  <2>1. LLVMFloat(x.type) => y.type = RealType /\ (x.deep => y.deep)
    BY OnePart DEF LogicExpressionFloatToReal, Cast, Node, Holds
  <2> HIDE DEF y
  <2>2. LLVMFloat(x.type) /\ LLVMFloat(t) => Passes(LogicExpressionRealToFloat(y, t))
    BY <2>1, OnePart DEF LogicExpressionRealToFloat, Cast, Node, Holds
  <2> QED
    BY <2>2 DEF y
<1> HIDE DEF Passes
<1>8. x.type = t => Passes(x)
  BY DEF Passes
<1>9. \A e \in war_parse_cast(x, t) : Passes(e)
  BY <1>1, <1>2, <1>3, <1>4, <1>5, <1>6, <1>7, <1>8 DEF war_parse_cast
<1>10. \A e \in war_parse_cast_ext(x, t) : Passes(e)
  BY <1>3, <1>5 DEF war_parse_cast_ext
<1> QED
  BY <1>9, <1>10 DEF Passes

(* A cast that war_parse_cast or war_parse_cast_ext builds is of the type  *)
(* asked for and passes the checks of its class.                           *)
THEOREM CastsAreChecked == Spec => []CastsPass
<1>1. IndInv => CastsPass
  <2> SUFFICES ASSUME IndInv, NEW k \in DOMAIN stack, NEW t \in Type,
                      NEW e \in war_parse_cast(stack[k], t)
                                  \cup war_parse_cast_ext(stack[k], t)
               PROVE  e.type = t /\ (stack[k].deep => e.deep)
    BY DEF CastsPass
  <2>1. stack[k].type \in Type
    BY ElementOfSeq DEF IndInv, RightExpression, Expression
  <2> QED
    BY <2>1, CastPasses
<1> QED
  BY <1>1, Invariant, PTL
=============================================================================
