------------------------------ MODULE Discovery ------------------------------
(***************************************************************************)
(* Which theories a file has and which of them each theory names: the      *)
(* getTypeInfo functions, addImports, the theories of the types and        *)
(* generateWhy3 (src/esc_why3.cpp).                                        *)
(*                                                                         *)
(* generateWhy3 first walks over the whole module to find its types (Visit *)
(* is one call of getTypeInfo(info, type), and `stack' the calls that wait *)
(* for one to return), adds what pointers need, and prints a theory for    *)
(* each, each after what it is made of (DepOrder).  Then addGoal walks     *)
(* over one function at a time, prints `use import' for what it finds, and *)
(* prints names that are in those theories; for the goals it does so again *)
(* (addGoals).  Why3 refuses the file when a theory is imported that is    *)
(* not above (dangling), or a name is printed whose theory is not imported *)
(* (unimported).                                                           *)
(*                                                                         *)
(* The theory of a type is written as the type.  Why3's own theories, and  *)
(* which function is above which (Emission), are left out, and so are the  *)
(* goals of ensures and assert clauses, whose theories import and name     *)
(* what that of their function does.                                       *)
(***************************************************************************)
EXTENDS Naturals, Sequences, FiniteSets

CONSTANTS Type,      (* LLVM types                                          *)
          Kind,      (* what a type is                                      *)
          Parts,     (* its element type, or those of its fields            *)
          PtrInt,    (* the integer type as wide as a pointer               *)
          PtrIntVec, (* vectors of those, for vectors of pointers           *)
          BytePtr,   (* i8*, the type of block addresses                    *)
          Modules,   (* the modules considered                              *)
          MaxDepth   (* how many calls fit into the stack                   *)

Scalar == {"int", "float", "oddfloat"}
Derived == {"ptr", "array", "struct", "named", "vector"}

(* An operand (a block address, a constant that has one in it, another),   *)
(* an instruction (`goal' is the theory of the goal of a call), a global   *)
(* (the type of its address; what its initializer has in it).              *)
Value == [kind : {"plain", "baddr", "nested"}, type : Type]
InstructionType == [ op : {"plain", "alloca", "indirectbr", "cast", "gep", "ptrint", "call"},
                     type : Type, operands : Seq(Value), callee : Nat, goal : STRING ]
GlobalType == [type : Type, init : {"none", "plain", "baddr"}]

(* Those that are the same in every file.                                  *)
CommonTheories ==
  {"CustomTruncate", "Range", "State", "Pointer", "Alloc", "MemorySet", "LLVMInt", "LLVMFloat",
   "LLVMPtr", "LLVMArray", "LLVMVector", "BlockAddress", "Globals"}

(* The elements of a sequence. *)
In(s) == {s[k] : k \in DOMAIN s}

(* For each type t those that steps from a type u to one of P[u] lead to.  *)
Closure(P) ==
  LET within[n \in 0..Cardinality(Type)] ==
        [t \in Type |-> IF n = 0 THEN {t}
                        ELSE UNION {{u} \cup P[u] : u \in within[n - 1][t]}]
  IN  within[Cardinality(Type)]

(* What a type is made of, as far as its name spells that out, and as far  *)
(* as values of the type have values of those types in them.               *)
MadeOf == Closure([t \in Type |-> In(Parts[t])])
Spelled == Closure([t \in Type |-> IF Kind[t] = "named" THEN {} ELSE In(Parts[t])])
Elements == Closure([t \in Type |-> IF Kind[t] = "ptr" THEN {} ELSE In(Parts[t])])

Nameable(t) == \A u \in Spelled[t] : Kind[u] \in {"int", "float"} \cup Derived
Reached(S) == UNION {MadeOf[t] : t \in S}
Recursive(t) == t \in Reached(In(Parts[t]))

OfKind(S, kinds) == {t \in S : Kind[t] \in kinds}
TypesOf(values) == {values[k].type : k \in DOMAIN values}

(* The theories that constants and registers of the types in S name.       *)
Inside(S) == UNION {Elements[t] : t \in S}
Named(S) == OfKind(Inside(S), Scalar \cup Derived)

(* What toWhy3 of one class of expressions does to a Why3Data, and the     *)
(* theories that the text it prints names.  A constant may have a block    *)
(* address in it or be one, and an integer that becomes a pointer may be   *)
(* narrower than one.                                                      *)
Nothing == [ class |-> "other", finds |-> {}, names |-> {}, importsNeeded |-> {},
             usesAlloc |-> FALSE, usesBaddr |-> FALSE ]
LogicExpressionLLVMOperand(t) == [Nothing EXCEPT !.finds = {t}, !.names = {t}]
LogicTypeLLVM(t) == [Nothing EXCEPT !.finds = {t}, !.names = {t}]
LogicExpressionLLVMConstant(t, baddr) ==
  [Nothing EXCEPT !.class = "constant", !.finds = {t},
                  !.names = Named({t}) \cup (IF baddr THEN {"BlockAddress"} ELSE {})]
LogicExpressionLogicIntToLLVMInt(t) == [Nothing EXCEPT !.class = "cast", !.names = {t}]
LogicExpressionIntToPointer(t, narrow) ==
  [Nothing EXCEPT !.class = "cast", !.names = {t} \cup (IF narrow THEN {PtrInt} ELSE {})]
LogicExpressionPointerToPointer(t) ==
  [Nothing EXCEPT !.class = "cast", !.names = {t, "Pointer"}, !.importsNeeded = {"Pointer"}]
LogicExpressionFresh == [Nothing EXCEPT !.names = {"Alloc"}, !.usesAlloc = TRUE]
LogicExpressionBlockAddress == [Nothing EXCEPT !.names = {"BlockAddress"}, !.usesBaddr = TRUE]
LogicExpressionCreateSet(pointer, t) ==
  [pointer EXCEPT !.finds = @ \cup {t}, !.names = @ \cup {t, "MemorySet"},
                  !.importsNeeded = @ \cup {"MemorySet"}]

Terms == UNION { { LogicExpressionLLVMOperand(t), LogicTypeLLVM(t),
                   LogicExpressionLLVMConstant(t, FALSE), LogicExpressionLLVMConstant(t, TRUE),
                   LogicExpressionIntToPointer(t, FALSE), LogicExpressionIntToPointer(t, TRUE),
                   LogicExpressionLogicIntToLLVMInt(t), LogicExpressionPointerToPointer(t),
                   LogicExpressionFresh, LogicExpressionBlockAddress } : t \in Type }
Sets == {LogicExpressionCreateSet(pointer, t) : pointer \in Terms, t \in Type}

(* `clauses' has the nodes of all of a function's clauses but the assigns  *)
(* clause, and `requires' those of its requires clause once more.          *)
FunctionType == [ name : STRING, args : Seq(Type), ret : Type, body : Seq(InstructionType),
                  clauses : SUBSET (Terms \cup Sets), requires : SUBSET (Terms \cup Sets),
                  assigns : SUBSET Sets ]

(* LLVM's types (without x86_mmx): what they are, what they are made of,   *)
(* and that there is a vector of integers for each of pointers.  The other *)
(* kinds are those of functions and metadata, which no field has.          *)
ASSUME TypeAssumption ==
  /\ IsFiniteSet(Type) /\ Type \cap CommonTheories = {}
  /\ Kind \in [Type -> Scalar \cup Derived \cup {"void", "other"}]
  /\ Parts \in [Type -> Seq(Type)]
  /\ \A t \in Type : Kind[t] \in Derived \ {"struct", "named"} => Len(Parts[t]) = 1
  /\ \A t \in Type : Kind[t] \notin Derived => Parts[t] = <<>>
  /\ \A t \in Type : Kind[t] # "ptr" => \A u \in In(Parts[t]) : Kind[u] \in Scalar \cup Derived
  /\ PtrInt \in Type /\ Kind[PtrInt] = "int"
  /\ BytePtr \in Type /\ Kind[BytePtr] = "ptr" /\ Kind[Parts[BytePtr][1]] = "int"
  /\ PtrIntVec \in [{v \in Type : Kind[v] = "vector" /\ Kind[Parts[v][1]] = "ptr"} -> Type]
  /\ \A v \in DOMAIN PtrIntVec : Kind[PtrIntVec[v]] = "vector" /\ Parts[PtrIntVec[v]] = <<PtrInt>>

(* The call stack has room for a type that is not part of itself.          *)
ASSUME StackAssumption ==
  MaxDepth \in Nat /\ \A t \in Type :
    (\A u \in MadeOf[t] : ~Recursive(u)) => Cardinality(MadeOf[t]) < MaxDepth

(* LLVM's modules: a block address is an i8*, a constant that has one in   *)
(* it is a vector, an array or a struct, a global is known by its address, *)
(* conversions between pointers and integers have a pointer in them, names *)
(* are unique.  (getWhy3SafeName and the number of a goal see to that.)    *)
Operands(f) == UNION {In(f.body[k].operands) : k \in DOMAIN f.body}
Conversion(i) == {i.type} \cup TypesOf(i.operands)
CallsOf(f) == {k \in DOMAIN f.body : f.body[k].op = "call"}

ASSUME ModulesAssumption ==
  \A m \in Modules :
    /\ m \in [functions : Seq(FunctionType), globals : Seq(GlobalType)]
    /\ \A j, k \in DOMAIN m.functions : m.functions[j].name = m.functions[k].name => j = k
    /\ \A g \in In(m.globals) : Kind[g.type] = "ptr"
    /\ \A f \in In(m.functions) :
         /\ f.name \notin Type \cup CommonTheories
         /\ f.requires \subseteq f.clauses
         /\ \A v \in Operands(f) :
              /\ v.kind = "baddr" => v.type = BytePtr
              /\ v.kind = "nested" => BytePtr \in Elements[v.type] \ {v.type}
         /\ \A i \in In(f.body) :
              /\ i.op = "call" => i.callee \in DOMAIN m.functions
              /\ i.op = "indirectbr" => BytePtr \in TypesOf(i.operands)
              /\ i.op = "ptrint" => \E t \in Conversion(i) :
                   Kind[t] = "ptr" \/ t \in DOMAIN PtrIntVec
    /\ \A f, g \in In(m.functions) : \A j \in CallsOf(f) :
         /\ f.body[j].goal \notin Type \cup CommonTheories \cup {g.name}
         /\ \A k \in CallsOf(g) : f.body[j].goal = g.body[k].goal => f = g /\ j = k

VARIABLES mod,       (* the module                                          *)
          pc,        (* what generateWhy3 does                              *)
          roots,     (* the types getTypeInfo has yet to be called with     *)
          stack,     (* for each call that is open, the types yet to visit  *)
          types,     (* the sets of types of TypeInfo                       *)
          vectors,   (* the part of vectorTypes the iterator has before it  *)
          printed,   (* the theories that are in the file                   *)
          dangling,  (* <<theory, import>>                                  *)
          unimported (* <<theory, theory of a name>>                        *)

vars == <<mod, pc, roots, stack, types, vectors, printed, dangling, unimported>>
output == <<printed, dangling, unimported>>

Callees(f) == {f.body[k].callee : k \in CallsOf(f)}

(* The types getTypeInfo is called with for an instruction, a function and *)
(* its clauses, and a module.                                              *)
InstructionRoots(i) == {i.type} \cup TypesOf(i.operands)
FunctionRoots(f) ==
  {f.ret} \cup In(f.args)
    \cup (UNION {InstructionRoots(f.body[k]) : k \in DOMAIN f.body})
    \cup (UNION {n.finds : n \in f.clauses})
ModuleRoots(m) ==
  (UNION {FunctionRoots(f) : f \in In(m.functions)}) \cup TypesOf(m.globals)

(* The calls that addGoals makes a goal of: those of functions that have a *)
(* requires clause.                                                        *)
Goals(f) == {k \in CallsOf(f) : mod.functions[f.body[k].callee].requires # {}}

(* What getTypeInfo finds, called with the types in S.                     *)
Found(S) == OfKind(Reached(S), Scalar \cup Derived)

Init ==
  /\ mod \in Modules
  /\ pc = "walk" /\ roots = ModuleRoots(mod) /\ stack = <<>>
  /\ types = {} /\ vectors = {}
  /\ printed = {} /\ dangling = {} /\ unimported = {}
-----------------------------------------------------------------------------
(* The walk over the module *)

(* In the code one mention of a type comes after the other; here each type *)
(* is taken once, in any order.                                            *)
NextRoot ==
  /\ pc = "walk" /\ stack = <<>>
  /\ \E t \in roots :
       /\ stack' = <<<<t>>>>
       /\ roots' = roots \ {t}
  /\ UNCHANGED <<mod, pc, types, vectors, output>>

FaultyVisitFirstField ==
  /\ pc = "walk" /\ stack # <<>> /\ Head(stack) # <<>> /\ Len(stack) <= MaxDepth
  /\ LET t == Head(Head(stack))
     IN  /\ types' = types \cup OfKind({t}, Scalar \cup Derived)
         /\ stack' = <<IF Parts[t] = <<>> THEN <<>> ELSE <<Parts[t][1]>>, Tail(Head(stack))>> \o Tail(stack)
  /\ UNCHANGED <<mod, pc, roots, vectors, output>>

(* A call for type t, which goes on to the parts of t one by one.  There   *)
(* is no test for a type that is already in the set.                       *)
Visit ==
  /\ pc = "walk" /\ stack # <<>> /\ Head(stack) # <<>> /\ Len(stack) <= MaxDepth
  /\ LET t == Head(Head(stack))
     IN  /\ types' = types \cup OfKind({t}, Scalar \cup Derived)
         /\ stack' = <<Parts[t], Tail(Head(stack))>> \o Tail(stack)
  /\ UNCHANGED <<mod, pc, roots, vectors, output>>

Return ==
  /\ pc = "walk" /\ stack # <<>> /\ Head(stack) = <<>>
  /\ stack' = Tail(stack)
  /\ UNCHANGED <<mod, pc, roots, types, vectors, output>>

StackOverflow ==
  /\ pc = "walk" /\ Len(stack) > MaxDepth
  /\ pc' = "crashed"
  /\ UNCHANGED <<mod, roots, stack, types, vectors, output>>

FaultyAddPtrIntForgets ==
  /\ pc = "walk" /\ stack = <<>> /\ roots = {}
  /\ printed' = printed \cup {"CustomTruncate", "Range", "State", "Pointer", "Alloc", "MemorySet"}
  /\ vectors' = OfKind(types, {"vector"})
  /\ pc' = "vectors"
  /\ UNCHANGED <<mod, roots, stack, types, dangling, unimported>>

(* addMemoryModel, and the integer type that pointers are converted to.    *)
AddPtrInt ==
  /\ pc = "walk" /\ stack = <<>> /\ roots = {}
  /\ printed' = printed \cup {"CustomTruncate", "Range", "State", "Pointer", "Alloc", "MemorySet"}
  /\ types' = types \cup (IF OfKind(types, {"ptr"}) = {} THEN {} ELSE {PtrInt})
  /\ vectors' = OfKind(types, {"vector"})
  /\ pc' = "vectors"
  /\ UNCHANGED <<mod, roots, stack, dangling, unimported>>

(* vectorTypes grows while the loop iterates over it.  If the insertion    *)
(* makes the hash table grow, the elements change places, and some that    *)
(* the iterator has not come to may now lie behind it.                     *)
AddPtrIntVector ==
  /\ pc = "vectors"
  /\ \E v \in vectors :
       IF Kind[Parts[v][1]] = "ptr"
       THEN /\ types' = types \cup {PtrIntVec[v]}
            /\ \/ vectors' = vectors \ {v}
               \/ PtrIntVec[v] \notin types /\ vectors' \in SUBSET (vectors \ {v})
       ELSE vectors' = vectors \ {v} /\ UNCHANGED types
  /\ UNCHANGED <<mod, pc, roots, stack, output>>

EndVectors ==
  /\ pc = "vectors" /\ vectors = {}
  /\ pc' = "scalars"
  /\ UNCHANGED <<mod, roots, stack, types, vectors, output>>
-----------------------------------------------------------------------------
(* The file *)

(* A theory with `use import' for some theories and names from some.  A    *)
(* type that getWhy3TheoryName has no case for, or for which getTypeInfo   *)
(* never returns, ends the program.                                        *)
Emit(theory, imports, names, next) ==
  IF \/ \E t \in (imports \cup names) \cap Type : ~Nameable(t)
     \/ \E t \in imports \cap Type : Recursive(t)
  THEN pc' = "crashed" /\ UNCHANGED output
  ELSE /\ pc' = next
       /\ printed' = printed \cup {theory}
       /\ dangling' = dangling \cup {<<theory, i>> : i \in imports \ printed}
       /\ unimported' = unimported \cup {<<theory, n>> : n \in names \ imports}

(* The integers and floats, and what the derived types have in common.     *)
AddScalarTypes ==
  /\ pc = "scalars"
  /\ IF OfKind(types, {"oddfloat"}) # {}
     THEN pc' = "crashed" /\ UNCHANGED output
     ELSE /\ pc' = "derived"
          /\ printed' = printed \cup OfKind(types, Scalar)
               \cup {"LLVMInt", "LLVMFloat", "LLVMPtr", "LLVMArray", "LLVMVector"}
          /\ dangling' = dangling \cup
               (IF OfKind(types, {"ptr"}) = {} THEN {} ELSE {<<"LLVMPtr", t>> : t \in {PtrInt} \ types})
          /\ UNCHANGED unimported
  /\ UNCHANGED <<mod, roots, stack, types, vectors>>

Waiting == OfKind(types, Derived) \ printed
CommonTheory(t) == CASE Kind[t] = "ptr" -> {"LLVMPtr", "Pointer"}
                     [] Kind[t] = "array" -> {"LLVMArray"}
                     [] Kind[t] = "vector" -> {"LLVMVector"}
                     [] OTHER -> {}

(* addPtrType, addArrayType, addStructType or addVectorType, in an order   *)
(* that getCorrectDerivedTypeOrder may give.                               *)
AddDerivedType ==
  /\ pc = "derived"
  /\ \E t \in Waiting : In(Parts[t]) \cap Waiting = {}
       /\ Emit(t, In(Parts[t]) \cup CommonTheory(t), {}, pc)
  /\ UNCHANGED <<mod, roots, stack, types, vectors>>

EndDerivedTypes ==
  /\ pc = "derived"
  /\ \A t \in Waiting : In(Parts[t]) \cap Waiting # {}
  /\ pc' = "baddr"
  /\ UNCHANGED <<mod, roots, stack, types, vectors, output>>

Ops(f) == {f.body[k].op : k \in DOMAIN f.body}

(* getTypeInfo does not look into constants.                               *)
BodyUsesBaddr(f) == "indirectbr" \in Ops(f) \/ \E v \in Operands(f) : v.kind = "baddr"
UsesBaddr(f) == BodyUsesBaddr(f) \/ \E n \in f.clauses : n.usesBaddr

addBlockAddressType ==
  /\ pc = "baddr"
  /\ IF \E k \in DOMAIN mod.functions : UsesBaddr(mod.functions[k])
     THEN Emit("BlockAddress", {BytePtr}, {BytePtr}, "globals")
     ELSE pc' = "globals" /\ UNCHANGED output
  /\ UNCHANGED <<mod, roots, stack, types, vectors>>

FaultyAddGlobalsSkipsExternals ==
  /\ pc = "globals"
  /\ Emit("Globals", {"State", "Pointer", "Alloc"} \cup Found(TypesOf(mod.globals)), {},
          "functions")
  /\ UNCHANGED <<mod, roots, stack, types, vectors>>

(* What the pointers among the types in S point to.                        *)
Pointees(S) == UNION {In(Parts[t]) : t \in OfKind(S, {"ptr"})}

(* The initializer of an external global is a null pointer.                *)
addGlobals ==
  /\ pc = "globals"
  /\ LET addresses == TypesOf(mod.globals)
         inits == {mod.globals[k].init : k \in DOMAIN mod.globals}
     IN  IF "none" \in inits
         THEN pc' = "crashed" /\ UNCHANGED output
         ELSE Emit("Globals", {"State", "Pointer", "Alloc"} \cup Found(addresses),
                   addresses \cup Named(Pointees(addresses)) \cup {"Alloc"}
                     \cup (IF "baddr" \in inits THEN {"BlockAddress"} ELSE {}),
                   "functions")
  /\ UNCHANGED <<mod, roots, stack, types, vectors>>

FaultyNodeImportsNoAlloc(nodes) ==
  Found(UNION {n.finds : n \in nodes})
    \cup (IF \E n \in nodes : n.usesBaddr THEN {"BlockAddress"} ELSE {})
    \cup (UNION {n.importsNeeded : n \in nodes})

(* What the nodes of some clauses find, use and import.                    *)
NodeImports(nodes) ==
  Found(UNION {n.finds : n \in nodes})
    \cup (IF \E n \in nodes : n.usesAlloc THEN {"Alloc"} ELSE {})
    \cup (IF \E n \in nodes : n.usesBaddr THEN {"BlockAddress"} ELSE {})
    \cup (UNION {n.importsNeeded : n \in nodes})

NodeNames(nodes) == UNION {n.names : n \in nodes}

(* ptrtoint and inttoptr go through the integers as wide as a pointer.  Of *)
(* vectors the theory of those is imported, but what is named is that of   *)
(* an element.                                                             *)
Conversions(f) == {k \in DOMAIN f.body : f.body[k].op = "ptrint"}
ConversionImports(i) ==
  IF Conversion(i) \cap DOMAIN PtrIntVec = {}
  THEN {PtrInt} ELSE {PtrIntVec[v] : v \in Conversion(i) \cap DOMAIN PtrIntVec}
Narrow(i) == {PtrInt} \cap Reached(Conversion(i)) = {}
ConversionNames(i) == IF Narrow(i) THEN {PtrInt} ELSE {}

(* The assigns clauses of the functions called, printed at the call.       *)
CalleeClauses(f) == UNION {mod.functions[c].assigns : c \in Callees(f)}

FunctionImports(f) ==
  {"State", "Globals"}
    \cup Found(FunctionRoots(f))
    \cup (IF "alloca" \in Ops(f) THEN {"Alloc"} ELSE {})
    \cup (IF BodyUsesBaddr(f) THEN {"BlockAddress"} ELSE {})
    \cup NodeImports(f.clauses)
    \cup (IF Ops(f) \cap {"cast", "gep"} = {} THEN {} ELSE {"Pointer"})
    \cup (UNION {ConversionImports(f.body[k]) : k \in Conversions(f)})
    \cup NodeImports(CalleeClauses(f))

(* What the equation of an instruction names: its register, its operands   *)
(* with all that constants have in them, and what an opcode does to those. *)
(* Of types, a getelementptr may name what its pointer points to too.      *)
InstructionNames(i) ==
  Named(InstructionRoots(i))
    \cup (IF i.op = "gep" THEN Named(Pointees(Inside(TypesOf(i.operands)))) ELSE {})
    \cup (IF i.op \in {"cast", "gep"} THEN {"Pointer"} ELSE {})
    \cup (IF i.op = "alloca" THEN {"Alloc"} ELSE {})
    \cup (IF i.op = "indirectbr" \/ \E v \in In(i.operands) : v.kind # "plain"
          THEN {"BlockAddress"} ELSE {})
    \cup (IF i.op = "ptrint" THEN ConversionNames(i) ELSE {})

FunctionNames(f) ==
  {"State"} \cup Named({f.ret} \cup In(f.args))
    \cup (UNION {InstructionNames(f.body[k]) : k \in DOMAIN f.body})
    \cup NodeNames(f.clauses)
    \cup NodeNames(CalleeClauses(f))
    \cup (IF CalleeClauses(f) = {} THEN {} ELSE {"MemorySet"})

addFunction ==
  /\ pc = "functions"
  /\ \E k \in DOMAIN mod.functions :
       LET f == mod.functions[k]
       IN  /\ f.name \notin printed
           /\ Emit(f.name, FunctionImports(f), FunctionNames(f), pc)
  /\ UNCHANGED <<mod, roots, stack, types, vectors>>

(* With --combine or --no-goals there are no goals of their own.           *)
EndFunctions ==
  /\ pc = "functions"
  /\ \A k \in DOMAIN mod.functions : mod.functions[k].name \in printed
  /\ pc' \in {"goals", "done"}
  /\ UNCHANGED <<mod, roots, stack, types, vectors, output>>

(* The goal of a call prints the caller once more, and in it the requires  *)
(* clause of the callee.  What toWhy3 of that clause finds, uses and needs *)
(* is thrown away.                                                         *)
GoalNames(f, k) == FunctionNames(f) \cup NodeNames(mod.functions[f.body[k].callee].requires)

addGoals ==
  /\ pc = "goals"
  /\ \E j \in DOMAIN mod.functions : \E k \in Goals(mod.functions[j]) :
       LET f == mod.functions[j]
       IN  /\ f.body[k].goal \notin printed
           /\ Emit(f.body[k].goal, FunctionImports(f), GoalNames(f, k), pc)
  /\ UNCHANGED <<mod, roots, stack, types, vectors>>

EndGoals ==
  /\ pc = "goals"
  /\ \A j \in DOMAIN mod.functions : \A k \in Goals(mod.functions[j]) :
       mod.functions[j].body[k].goal \in printed
  /\ pc' = "done"
  /\ UNCHANGED <<mod, roots, stack, types, vectors, output>>

Next == \/ NextRoot \/ Visit \/ Return \/ StackOverflow
        \/ AddPtrInt \/ AddPtrIntVector \/ EndVectors
        \/ AddScalarTypes \/ AddDerivedType \/ EndDerivedTypes
        \/ addBlockAddressType \/ addGlobals \/ addFunction \/ EndFunctions
        \/ addGoals \/ EndGoals

Spec == Init /\ [][Next]_vars
-----------------------------------------------------------------------------
Functions == In(mod.functions)
AllReached == Reached(ModuleRoots(mod))

(* The walk misses no type that is asked for, be it the type of an operand *)
(* or one that a clause's toWhy3 asks for, nor one that those are made of, *)
(* and its order does not matter.  All that is added to them is for        *)
(* pointers.  (Nobody asks for the types that clauses cast to, nor for     *)
(* those of assigns clauses: see ImportsResolve and NamesImported.)        *)
FindsEveryType ==
  pc \notin {"walk", "crashed"} =>
    /\ OfKind(AllReached, Scalar \cup Derived) \subseteq types
    /\ types \subseteq AllReached \cup {PtrInt} \cup {PtrIntVec[v] : v \in DOMAIN PtrIntVec}

(* The theories in which a function is printed: its own and its goals'.    *)
TheoriesOf(f) == {f.name} \cup {f.body[k].goal : k \in Goals(f)}

(* A file has no import of a theory that is not above the import, but for  *)
(* three causes: the walk does not look at the assigns clauses that calls  *)
(* print, nor for i8* when only a clause has a block address, and the loop *)
(* over the vectors of pointers may lose one when there are two.           *)
ImportsResolve ==
  \A d \in dangling :
    \/ \E f \in Functions : d[1] \in TheoriesOf(f) /\ d[2] \in NodeImports(CalleeClauses(f))
    \/ d = <<"BlockAddress", BytePtr>> /\ \A f \in Functions : ~BodyUsesBaddr(f)
    \/ /\ \E f \in Functions : d[1] \in TheoriesOf(f)
       /\ \E v, w \in DOMAIN PtrIntVec : v # w /\ d[2] = PtrIntVec[v] /\ {v, w} \subseteq types

(* What a node of a clause names and does not ask for: the types it casts  *)
(* to, and the block addresses in a constant.                              *)
Missed(n) == CASE n.class = "cast" -> (n.names \cap Type) \ Found(n.finds)
               [] n.class = "constant" -> {"BlockAddress"}
               [] OTHER -> {}

(* A theory names nothing from a theory that it does not import, but for   *)
(* what nodes of its clauses miss, block addresses in constants and in     *)
(* initializers, conversions of vectors of pointers to narrow integers,    *)
(* and, in the goal of a call, the callee's requires clause.               *)
NamesImported ==
  \A u \in unimported :
    \/ \E f \in Functions :
         /\ u[1] \in TheoriesOf(f)
         /\ \/ \E n \in f.clauses \cup CalleeClauses(f) : u[2] \in Missed(n)
            \/ u[2] = "BlockAddress" /\ \E v \in Operands(f) : v.kind = "nested"
            \/ u[2] = PtrInt /\ \E k \in Conversions(f) :
                 Narrow(f.body[k]) /\ Conversion(f.body[k]) \cap DOMAIN PtrIntVec # {}
    \/ \E f \in Functions : \E k \in Goals(f) :
         /\ u[1] = f.body[k].goal
         /\ u[2] \in NodeNames(mod.functions[f.body[k].callee].requires)
    \/ u = <<"Globals", "BlockAddress">>

(* As far as types and globals go, a file is printed for exactly the       *)
(* modules that have no type that is part of itself, none without a name   *)
(* and no global without an initializer; for the others whyr dies,         *)
(* whatever the order in which it meets them.  (Emission has the crashes   *)
(* over clauses and calls; an iterator that a rehash has invalidated loses *)
(* elements here, and does not crash.)                                     *)
Clauses == UNION {f.clauses \cup CalleeClauses(f) : f \in Functions}
Printable ==
  /\ \A t \in Reached(ModuleRoots(mod) \cup (UNION {n.finds : n \in Clauses})) :
       ~Recursive(t) /\ (Kind[t] \in Scalar \cup Derived => Nameable(t))
  /\ \A n \in Clauses : \A t \in n.names \cap Type : Nameable(t)
  /\ \A k \in DOMAIN mod.globals : mod.globals[k].init # "none"
CrashesExactly ==
  /\ pc = "crashed" => ~Printable
  /\ pc = "done" => Printable
=============================================================================
