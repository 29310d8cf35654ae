---------------------------- MODULE MCDiscovery ----------------------------
(* A type of each kind, and pointers, structs, arrays and vectors of them; *)
(* L is a list.  Modules of a function f, which may call a declared g with *)
(* a requires and an assigns clause, and of a global.                      *)
EXTENDS Discovery

Shape ==
  [ void |-> <<"void">>, label |-> <<"void">>, fn |-> <<"other">>,
    i8 |-> <<"int">>, i32 |-> <<"int">>, i64 |-> <<"int">>,
    double |-> <<"float">>, f80 |-> <<"oddfloat">>,
    i8p |-> <<"ptr", "i8">>, i32p |-> <<"ptr", "i32">>, fnp |-> <<"ptr", "fn">>,
    L |-> <<"named", "Lp">>, Lp |-> <<"ptr", "L">>,
    S |-> <<"named", "i32", "i8p">>, Sp |-> <<"ptr", "S">>,
    Q |-> <<"named", "fnp">>,
    A |-> <<"array", "Sp">>, Ap |-> <<"ptr", "A">>,
    T |-> <<"struct", "A", "double", "V2">>,
    V2 |-> <<"vector", "i8p">>, V4 |-> <<"vector", "i32p">>, V4p |-> <<"ptr", "V4">>,
    B2 |-> <<"vector", "i8">>, N2 |-> <<"vector", "i64">>, N4 |-> <<"vector", "i64">> ]

MCType == DOMAIN Shape
MCKind == [t \in MCType |-> Shape[t][1]]
MCParts == [t \in MCType |-> Tail(Shape[t])]
MCPtrInt == "i64"
MCBytePtr == "i8p"
MCPtrIntVec == [v \in {"V2", "V4"} |-> IF v = "V2" THEN "N2" ELSE "N4"]

Operand(t) == [kind |-> "plain", type |-> t]
Inst(op, t, operands) ==
  [op |-> op, type |-> t, operands |-> operands, callee |-> 0, goal |-> ""]
CallG == [Inst("call", "void", <<Operand("Sp")>>) EXCEPT !.callee = 2, !.goal = "Goal_1"]

Instructions ==
  { Inst("plain", "i32", <<Operand("i32"), Operand("i32")>>),
    Inst("plain", "void", <<Operand("i8"), Operand("i8p")>>),
    Inst("plain", "i8p", <<[kind |-> "baddr", type |-> "i8p"]>>),
    Inst("plain", "void", <<[kind |-> "nested", type |-> "V2"], Operand("Ap")>>),
    Inst("alloca", "Sp", <<Operand("i32")>>),
    Inst("indirectbr", "void", <<Operand("i8p"), Operand("label")>>),
    Inst("cast", "Ap", <<Operand("i8p")>>),
    Inst("gep", "i8p", <<Operand("Sp"), Operand("i32"), Operand("i32")>>),
    Inst("ptrint", "i32", <<Operand("i8p")>>),
    Inst("ptrint", "V2", <<Operand("N2")>>),
    Inst("ptrint", "B2", <<Operand("V2")>>),
    Inst("ptrint", "N4", <<Operand("V4")>>),
    [CallG EXCEPT !.goal = "Goal_2"] }

Nodes ==
  { LogicExpressionLLVMOperand("A"), LogicTypeLLVM("T"), LogicExpressionLogicIntToLLVMInt("i8"),
    LogicExpressionLLVMConstant("i8p", TRUE), LogicExpressionLLVMConstant("V2", FALSE),
    LogicExpressionIntToPointer("i8p", TRUE),
    LogicExpressionPointerToPointer("i32p"), LogicExpressionPointerToPointer("fnp"),
    LogicExpressionFresh, LogicExpressionBlockAddress,
    LogicExpressionCreateSet(LogicExpressionLLVMOperand("Lp"), "Lp") }

Locations ==
  { LogicExpressionCreateSet(LogicExpressionLLVMOperand(t), t) : t \in {"Sp", "i32p", "Lp"} }
    \cup { LogicExpressionCreateSet(LogicExpressionPointerToPointer("Ap"), "Ap"),
           LogicExpressionCreateSet(LogicExpressionBlockAddress, "i8p") }

Function(name, args, body, clauses, requires, assigns) ==
  [ name |-> name, args |-> args, ret |-> "void", body |-> body,
    clauses |-> clauses \cup requires, requires |-> requires, assigns |-> assigns ]
Some(S) == {{}} \cup {{x} : x \in S}
Lists(S) == {<<>>} \cup {<<x>> : x \in S}

Module(args, body, clauses, requires, assigns, globals) ==
  [ functions |-> <<Function("f", args, body, clauses, {}, {}),
                    Function("g", <<"Sp">>, <<>>, {}, requires, assigns)>>,
    globals |-> globals ]
Globals == Lists([type : {"i32p", "V4p"}, init : {"none", "plain", "baddr"}])

MCModules ==
  {Module(<<"V2">>, <<i, CallG>>, c, {}, a, <<>>) :
      i \in Instructions, c \in Some(Nodes), a \in Some(Locations)}
  \cup {Module(<<>>, <<i, CallG>>, {}, r, a, <<>>) :
         i \in Instructions, r \in Some(Nodes), a \in Some(Locations)}
  \cup {Module(<<t>>, b, {}, {}, {}, g) :
         t \in {"L", "f80", "fnp", "Q", "T"}, b \in Lists(Instructions), g \in Globals}
  \cup {Module(<<>>, b, c, {}, {}, g) :
         b \in Lists(Instructions), c \in Some(Nodes), g \in Globals}
=============================================================================
