------------------------------ MODULE Emission ------------------------------
(***************************************************************************)
(* From a module to a Why3 file and an exit code: main (src/main.cpp) runs *)
(* annotate and addRTE, as in module Annotate, and then generateWhy3       *)
(* (src/esc_why3.cpp), which prints the theory of every function that can  *)
(* be ordered, warns of the others, and prints the goals.                  *)
(*                                                                         *)
(* A theory is the function it is about, the goal it has, the clauses that *)
(* goal proves (proves), and the theories it clones, which must be further *)
(* up: Why3 reads top to bottom.  The order of the functions is any that   *)
(* module TopoOrder allows and is complete; DepOrder is the code that      *)
(* finds it.                                                               *)
(***************************************************************************)
EXTENDS Annotate

VARIABLES combine,   (* settings->combineGoals, -G                         *)
          noGoals,   (* settings->noGoals, -g                              *)
          werror,    (* settings->werror, -W                               *)
          phase,     (* what main is doing                                 *)
          order,     (* the functions getCorrectFunctionOrder returned     *)
          file,      (* the theories printed                               *)
          warnings,  (* the warnings given and the functions they are for  *)
          gfunc,     (* where addGoals is                                  *)
          ginst,
          exitCode

settings == <<combine, noGoals, werror>>
emitVars == <<settings, phase, order, file, warnings, gfunc, ginst, exitCode>>
emissionVars == <<annotateVars, emitVars>>

Func == DOMAIN mod
Callees(f) == {Body(f)[i].callee : i \in {j \in DOMAIN Body(f) : Body(f)[j].op = "call"}}

NoGoal == <<"none", 0>>
AnyGoal == <<"combined", 0>>

(* The conjuncts of an instruction's assert clause, and an ensures clause. *)
Asserted(f, i) == {<<c.kind, i>> : c \in asserts[f][i]}
Ensured(f) == IF f \in ensures THEN {<<"ensures", 0>>} ELSE {}

(* What a goal of f proves.  The combined one has the ensures and assert   *)
(* clauses, but not the requires clauses of the functions called: addBlock *)
(* prints one only at the instruction that is the goal.                    *)
Proves(f, g) == CASE g = NoGoal -> {}
                  [] g = AnyGoal -> Ensured(f) \cup UNION {Asserted(f, i) : i \in DOMAIN Body(f)}
                  [] g[1] = "assert" -> Asserted(f, g[2])
                  [] OTHER -> {g}

Theory(f, g) == [of |-> f, goal |-> g, proves |-> Proves(f, g), clones |-> Callees(f)]

(* addGoal prints a theory; a call through a pointer in the function draws *)
(* a warning every time.                                                   *)
Indirect(f) == \E i \in DOMAIN Body(f) : Body(f)[i].op = "icall"
addGoal(theories) ==
  /\ file' = file \o theories
  /\ warnings' = warnings \cup {<<"indirect", f>> : f \in
       {theories[k].of : k \in {j \in DOMAIN theories : Indirect(theories[j].of)}}}
Omitted == {f \in Func : <<"omitted", f>> \in warnings}

EmissionInit ==
  /\ Init
  /\ combine \in BOOLEAN /\ noGoals \in BOOLEAN /\ werror \in BOOLEAN
  /\ phase = "annotate"
  /\ order = <<>> /\ file = <<>>
  /\ warnings = {}
  /\ gfunc = 1 /\ ginst = 0
  /\ exitCode = 0

Annotating ==
  /\ Next
  /\ UNCHANGED emitVars
-----------------------------------------------------------------------------
(* What the worklist of getCorrectFunctionOrder can return. *)
Knotted(S) == \A f \in S : Callees(f) \cap S # {}
Hopeless == UNION {S \in SUBSET Func : Knotted(S)}
Topological(s) ==
  \A k \in DOMAIN s : Callees(s[k]) \subseteq {s[j] : j \in 1..(k - 1)}
Orders ==
  {s \in [1..Cardinality(Func \ Hopeless) -> Func \ Hopeless] :
     Topological(s) /\ \A j, k \in DOMAIN s : s[j] = s[k] => j = k}

NullClause == \E f \in Func : \E i \in DOMAIN Body(f) :
                Conjunct("null") \in asserts[f][i]

(* getTypeInfo prints every clause once to see what it needs, and follows  *)
(* the null pointers annotate left in some.                                *)
crashOnNullClause ==
  /\ stage = "annotated" /\ phase = "annotate"
  /\ NullClause
  /\ phase' = "crashed"
  /\ UNCHANGED <<annotateVars, settings, order, file, warnings, gfunc, ginst, exitCode>>

getCorrectFunctionOrder ==
  /\ stage = "annotated" /\ phase = "annotate"
  /\ ~NullClause
  /\ order' \in Orders
  /\ phase' = "functions"
  /\ UNCHANGED <<annotateVars, settings, file, warnings, gfunc, ginst, exitCode>>

FaultyAddFunctionInFileOrder ==
  /\ phase = "functions" /\ Len(file) < Len(order)
  /\ LET left == {order[k] : k \in DOMAIN order} \ {file[k].of : k \in DOMAIN file}
         f == CHOOSE g \in left : \A h \in left : g <= h
     IN addGoal(<<Theory(f, IF combine THEN AnyGoal ELSE NoGoal)>>)
  /\ UNCHANGED <<annotateVars, settings, phase, order, gfunc, ginst, exitCode>>

(* A function's own theory: under -G it has a goal. *)
addFunction ==
  /\ phase = "functions" /\ Len(file) < Len(order)
  /\ addGoal(<<Theory(order[Len(file) + 1], IF combine THEN AnyGoal ELSE NoGoal)>>)
  /\ UNCHANGED <<annotateVars, settings, phase, order, gfunc, ginst, exitCode>>

(* A warning for every function that is not in the order. *)
warnOfOmitted ==
  /\ phase = "functions" /\ Len(file) = Len(order)
  /\ warnings' = warnings \cup
       ({"omitted"} \X (Func \ {order[k] : k \in DOMAIN order}))
  /\ phase' = IF noGoals \/ combine THEN "output" ELSE "goals"
  /\ UNCHANGED <<annotateVars, settings, order, file, gfunc, ginst, exitCode>>
-----------------------------------------------------------------------------
(* addGoals: all the functions of the module, in its order. *)

EnsuresGoal == IF gfunc \in ensures THEN <<Theory(gfunc, <<"ensures", 0>>)>> ELSE <<>>

addEnsuresGoal ==
  /\ phase = "goals" /\ gfunc \in Func /\ ginst = 0
  /\ addGoal(EnsuresGoal)
  /\ ginst' = 1
  /\ UNCHANGED <<annotateVars, settings, phase, order, gfunc, exitCode>>

FaultyInstructionGoalsOfUserAsserts ==
  LET I == Body(gfunc)[ginst]
  IN (IF Conjunct("user") \in asserts[gfunc][ginst]
      THEN <<Theory(gfunc, <<"assert", ginst>>)>> ELSE <<>>) \o
     (IF I.op = "call" /\ I.callee \in requires
      THEN <<Theory(gfunc, <<"call", ginst>>)>> ELSE <<>>)

InstructionGoals ==
  LET I == Body(gfunc)[ginst]
  IN (IF asserts[gfunc][ginst] # {}
      THEN <<Theory(gfunc, <<"assert", ginst>>)>> ELSE <<>>) \o
     (IF I.op = "call" /\ I.callee \in requires
      THEN <<Theory(gfunc, <<"call", ginst>>)>> ELSE <<>>)

addInstructionGoals ==
  /\ phase = "goals" /\ gfunc \in Func
  /\ ginst \in DOMAIN Body(gfunc)
  /\ Body(gfunc)[ginst].op # "icall"
  /\ addGoal(InstructionGoals)
  /\ ginst' = ginst + 1
  /\ UNCHANGED <<annotateVars, settings, phase, order, gfunc, exitCode>>

(* getFunction(NULL) is NULL, and its requires clause is asked for; main   *)
(* has written nothing yet.                                                *)
crashOnIndirectCall ==
  /\ phase = "goals" /\ gfunc \in Func
  /\ ginst \in DOMAIN Body(gfunc)
  /\ Body(gfunc)[ginst].op = "icall"
  /\ phase' = "crashed"
  /\ UNCHANGED <<annotateVars, settings, order, file, warnings, gfunc, ginst, exitCode>>

FaultyNextFunctionRunsOn ==
  /\ phase = "goals" /\ gfunc \in Func
  /\ ginst = Len(Body(gfunc)) + 1
  /\ gfunc' = gfunc + 1
  /\ ginst' = 0
  /\ UNCHANGED <<annotateVars, settings, phase, order, file, warnings, exitCode>>

NextFunction ==
  /\ phase = "goals" /\ gfunc \in Func
  /\ ginst = Len(Body(gfunc)) + 1
  /\ gfunc' = gfunc + 1
  /\ ginst' = 0
  /\ phase' = IF gfunc = Len(mod) THEN "output" ELSE "goals"
  /\ UNCHANGED <<annotateVars, settings, order, file, warnings, exitCode>>

(* main writes the file, prints warnings and errors and picks a code. *)
main ==
  /\ phase = "output"
  /\ exitCode' = IF errors > 0 \/ (werror /\ warnings # {}) THEN 1 ELSE 0
  /\ phase' = "exit"
  /\ UNCHANGED <<annotateVars, settings, order, file, warnings, gfunc, ginst>>

EmissionNext == \/ Annotating
        \/ crashOnNullClause \/ getCorrectFunctionOrder
        \/ addFunction \/ warnOfOmitted
        \/ addEnsuresGoal \/ addInstructionGoals \/ crashOnIndirectCall
        \/ NextFunction \/ main

EmissionSpec == EmissionInit /\ [][EmissionNext]_emissionVars
-----------------------------------------------------------------------------
TheoryType ==
  [ of : Func,
    goal : {"none", "combined", "ensures", "assert", "call"} \X Nat,
    proves : SUBSET ({"ensures", "call", "user", "store", "cover", "false", "null", "rte"} \X Nat),
    clones : SUBSET Func ]

EmissionTypeOK ==
  /\ TypeOK
  /\ settings \in BOOLEAN \X BOOLEAN \X BOOLEAN
  /\ phase \in {"annotate", "functions", "goals", "output", "exit", "crashed"}
  /\ order \in Seq(Func) /\ file \in Seq(TheoryType)
  /\ warnings \subseteq {"omitted", "indirect"} \X Func
  /\ gfunc \in (IF phase = "goals" THEN Func ELSE 1..(Len(mod) + 1))
  /\ ginst \in Nat
  /\ exitCode \in {0, 1}

(* Every theory that is cloned is the theory of a function and has been    *)
(* printed further up.                                                     *)
Scoped(k) == \A c \in file[k].clones : \E j \in 1..(k - 1) :
               file[j].of = c /\ file[j].goal \in {NoGoal, AnyGoal}

(* Why3 can read the theories of the functions in any case, and the goals  *)
(* too in a module where nothing is recursive.                             *)
WellScoped ==
  \A k \in DOMAIN file :
    file[k].goal \in {NoGoal, AnyGoal} \/ Hopeless = {} => Scoped(k)

(* What has to be proved about f: the clauses its author wrote, the checks *)
(* of addRTE, the assigns checks of its stores and of its calls of         *)
(* functions further up without an assigns clause, and the requires        *)
(* clauses of the functions it calls.                                      *)
Demands(f, i) ==
  LET I == Body(f)[i]
  IN {k \in {"user", "rte", "store", "false", "call"} :
        \/ k = "user" /\ I.assert # "none"
        \/ k = "rte" /\ I.risky /\ rte
        \/ k = "store" /\ I.op = "store" /\ mod[f].hasAssigns
        \/ k = "false" /\ I.op = "call" /\ mod[f].hasAssigns
                      /\ I.callee < f /\ ~mod[I.callee].hasAssigns
        \/ k = "call" /\ I.op = "call" /\ mod[I.callee].requires # "none"}
Obligations(f) ==
  (IF mod[f].ensures # "none" THEN {<<"ensures", 0>>} ELSE {})
    \cup UNION {Demands(f, i) \X {i} : i \in DOMAIN Body(f)}

Proved(f, ob) == \E k \in DOMAIN file : file[k].of = f /\ ob \in file[k].proves

(* Exit code 0 means that each thing that has to be proved is in a goal of *)
(* the file (whether Why3 can read it is WellScoped's), but for two kinds  *)
(* that -G gives up: those of functions that were warned about (an error   *)
(* under -W), and, without a word, the requires clauses of the functions   *)
(* called, which are not assumed there either.                             *)
GivenUp(f, ob) == combine /\ (ob[1] = "call" \/ (~werror /\ f \in Omitted))
ZeroMeansNothingLost ==
  phase = "exit" /\ exitCode = 0 /\ ~noGoals =>
    \A f \in Func : \A ob \in Obligations(f) : Proved(f, ob) \/ GivenUp(f, ob)
=============================================================================
