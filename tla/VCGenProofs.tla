---------------------------- MODULE VCGenProofs ----------------------------
(***************************************************************************)
(* The soundness of WhyR's verification conditions, for every memory, every*)
(* length of function and every well-formed function without loops.        *)
(*                                                                         *)
(* The argument.  The values an execution gives the constants, real, can   *)
(* be completed to a valuation of the theory in many ways.  While the      *)
(* execution is at pc, every completion x that agrees with real up to pc   *)
(* makes the chain at pc true in every solution of the block axioms        *)
(* (OnTrack): at the entry because the goal is proved, later because each  *)
(* step of the execution satisfies the antecedents in front of the next    *)
(* node.  When a clause fails, real itself is such a completion and the    *)
(* chain at pc contradicts the failure, provided the axioms have a         *)
(* solution at all: they do, because chains are monotone (Solvable, the    *)
(* union of all sets closed under the axioms is one).                      *)
(***************************************************************************)
EXTENDS VCGen, WellFoundedInduction, TLAPS

Goals == [kind : {"combined", "ensures", "assert", "call"}, node : 0..N]
-----------------------------------------------------------------------------
(* The axioms have a solution *)

LEMMA NodeFacts == N \in Nat /\ N >= 1 /\ 1 \in Node /\ Node \subseteq Nat
BY ProgramsAssumption DEF Node

(* A chain stays true when more chains are. *)
LEMMA ChainMonotone ==
  ASSUME NEW p, NEW g, NEW x, NEW n, NEW S, NEW T, S \subseteq T,
         Chain(p, g, x, S, n)
  PROVE  Chain(p, g, x, T, n)
<1>1. Statement(p, g, x, S, n) => Statement(p, g, x, T, n)
  BY DEF Statement
<1>. QED  BY <1>1 DEF Chain

LEMMA Solvable ==
  ASSUME NEW p, NEW g, NEW x
  PROVE  \E H \in SUBSET Node : Solves(p, g, x, H)
<1>. DEFINE Closed(S) == \A n \in S : Chain(p, g, x, S, n)
            U == {n \in Node : \E S \in SUBSET Node : n \in S /\ Closed(S)}
<1>1. ASSUME NEW n \in U
      PROVE  Chain(p, g, x, U, n)
  <2>1. PICK S \in SUBSET Node : Closed(S) /\ n \in S
    OBVIOUS
  <2>2. S \subseteq U
    BY <2>1
  <2>. QED  BY <2>1, <2>2, ChainMonotone
<1>2. ASSUME NEW n \in Node, Chain(p, g, x, U, n)
      PROVE  n \in U
  <2>. DEFINE S == U \cup {n}
  <2>1. \A m \in S : Chain(p, g, x, S, m)
    BY <1>1, <1>2, ChainMonotone
  <2>2. S \in SUBSET Node /\ Closed(S)
    BY <2>1
  <2>. QED  BY <2>2
<1>3. U \in SUBSET Node
  OBVIOUS
<1>4. Solves(p, g, x, U)
  BY <1>1, <1>2, <1>3 DEF Solves
<1>. QED  BY <1>3, <1>4
-----------------------------------------------------------------------------
(* Types *)

LEMMA ProgramFacts ==
  ASSUME NEW p \in Programs
  PROVE  /\ WellFormed(p)
         /\ p \in ProgramType
         /\ \A n \in Node : p.op[n] \in Straight => n + 1 \in Node
<1>1. WellFormed(p)
  BY ProgramsAssumption
<1>2. p \in ProgramType /\ p.op[N] \notin Straight
  BY <1>1 DEF WellFormed
<1>3. ASSUME NEW n \in Node, p.op[n] \in Straight
      PROVE  n + 1 \in Node
  BY <1>2, <1>3, NodeFacts DEF Node
<1>. QED  BY <1>1, <1>2, <1>3

LEMMA UnsetType ==
  ASSUME NEW p \in Programs, NEW v \in Val
  PROVE  Unset(p, v) \in Valuation(p)
BY DEF Unset, Valuation, Val

LEMMA ValNonempty == (CHOOSE v \in Val : TRUE) \in Val
<1>1. \E v : v \in Val
  <2>1. PICK m \in Mem, l \in Loc : TRUE
    BY ProgramsAssumption
  <2>2. [mem |-> m, loc |-> l] \in Val
    BY <2>1 DEF Val
  <2>. QED  BY <2>2
<1>. QED  BY <1>1

(* Writing a constant keeps a valuation a valuation. *)
LEMMA WriteType ==
  ASSUME NEW p \in Programs, NEW x \in Valuation(p), NEW m \in Node, NEW v \in Val
  PROVE  /\ [x EXCEPT !.at[m] = v] \in Valuation(p)
         /\ [x EXCEPT !.at[m] = v].at = [x.at EXCEPT ![m] = v]
         /\ [x EXCEPT !.at[m] = v].exit = x.exit
BY DEF Valuation

(* Where a step of the execution goes, and with which values. *)
LEMMA StepFacts ==
  ASSUME TypeOK, Assign \/ Call \/ IndirectCall \/ Branch
  PROVE  /\ pc' \in Node
         /\ real' \in Valuation(prog)
         /\ real'.at[pc'] \in Val
         /\ \A n \in Node \ {pc'} : real'.at[n] = real.at[n]
         /\ \A n \in Calls(prog) \ {pc} : real'.exit[n] = real.exit[n]
         /\ prog.op[pc] \notin Branching => pc' = pc + 1
         /\ prog.op[pc] \in Branching => pc' = prog.to[pc][here]
<1>. USE DEF TypeOK
<1>0. /\ pc \in Node /\ here \in Val /\ prog \in ProgramType
      /\ real.at \in [Node -> Val] /\ real.exit \in [Calls(prog) -> Mem]
  BY ProgramFacts DEF here, Valuation
<1>1. ASSUME NEW m \in Node, NEW v \in Val, GoTo(m, v)
      PROVE  /\ pc' = m
             /\ real' \in Valuation(prog)
             /\ real'.at[m] = v
             /\ \A n \in Node \ {m} : real'.at[n] = real.at[n]
             /\ real'.exit = real.exit
  BY <1>0, <1>1, WriteType DEF GoTo
<1>2. CASE Assign
  <2>1. pc + 1 \in Node /\ prog.step[pc][here] \in Val
    BY <1>0, <1>2, ProgramFacts DEF Assign, Straight, ProgramType
  <2>. QED  BY <1>1, <1>2, <2>1 DEF Assign, Branching
<1>3. CASE Call
  <2>1. pc \in Calls(prog) /\ pc + 1 \in Node
    BY <1>0, <1>3, ProgramFacts DEF Call, Calls, Straight
  <2>2. PICK e \in Mem :
          /\ real' = [real EXCEPT !.exit[pc] = e,
                                  !.at[pc + 1] = [mem |-> e, loc |-> here.loc]]
          /\ pc' = pc + 1
    BY <1>3 DEF Call
  <2>3. [mem |-> e, loc |-> here.loc] \in Val
    BY <1>0 DEF Val
  <2>4. /\ real' \in Valuation(prog)
        /\ real'.at = [real.at EXCEPT ![pc + 1] = [mem |-> e, loc |-> here.loc]]
        /\ real'.exit = [real.exit EXCEPT ![pc] = e]
    <3>. DEFINE v == [mem |-> e, loc |-> here.loc]
    <3>1. v \in Val /\ real' = [real EXCEPT !.exit[pc] = e, !.at[pc + 1] = v]
      BY <2>2, <2>3
    <3>. HIDE DEF v
    <3>2. /\ real' \in Valuation(prog)
          /\ real'.at = [real.at EXCEPT ![pc + 1] = v]
          /\ real'.exit = [real.exit EXCEPT ![pc] = e]
      <4>1. real \in Valuation(prog) /\ prog \in Programs
        OBVIOUS
      <4>2. real.at \in [Node -> Val] /\ real.exit \in [Calls(prog) -> Mem]
        BY <1>0
      <4>3. real' = [at |-> [real.at EXCEPT ![pc + 1] = v],
                     exit |-> [real.exit EXCEPT ![pc] = e]]
        BY <3>1, <4>1 DEF Valuation
      <4>. QED  BY <2>1, <3>1, <4>2, <4>3 DEF Valuation
    <3>. QED  BY <3>2 DEF v
  <2>5. /\ real'.at[pc + 1] \in Val
        /\ \A n \in Node \ {pc + 1} : real'.at[n] = real.at[n]
        /\ \A n \in Calls(prog) \ {pc} : real'.exit[n] = real.exit[n]
    BY <1>0, <2>1, <2>3, <2>4
  <2>. QED  BY <1>3, <2>1, <2>2, <2>4, <2>5 DEF Call, Branching
<1>4. CASE IndirectCall
  <2>1. pc + 1 \in Node
    BY <1>0, <1>4, ProgramFacts DEF IndirectCall, Straight
  <2>2. PICK e \in Mem : GoTo(pc + 1, [mem |-> e, loc |-> here.loc])
    BY <1>4 DEF IndirectCall
  <2>3. [mem |-> e, loc |-> here.loc] \in Val
    BY <1>0 DEF Val
  <2>. QED  BY <1>1, <1>4, <2>1, <2>2, <2>3 DEF IndirectCall, Branching
<1>5. CASE Branch
  <2>. DEFINE m == prog.to[pc][here]
              v == [mem |-> here.mem, loc |-> prog.phi[pc][m][here.loc]]
  <2>1. m \in Node
    BY <1>0 DEF ProgramType
  <2>2. v \in Val
    BY <1>0, <2>1 DEF ProgramType, Val
  <2>3. GoTo(m, v) /\ prog.op[pc] \in Branching
    BY <1>5 DEF Branch
  <2>. QED  BY <1>1, <2>1, <2>2, <2>3
<1>. QED  BY <1>2, <1>3, <1>4, <1>5

LEMMA AddGoalType ==
  ASSUME TypeOK, NEW G \in SUBSET Goals, addGoal(G)
  PROVE  goals' \subseteq Goals /\ valid' \subseteq goals'
BY DEF TypeOK, addGoal, Goals

LEMMA TypeInit == Init => TypeOK
<1>. SUFFICES ASSUME Init
              PROVE  TypeOK
  OBVIOUS
<1>1. real \in Valuation(prog)
  BY ValNonempty, UnsetType DEF Init
<1>2. /\ prog \in Programs /\ combine \in BOOLEAN /\ fault \in BOOLEAN
      /\ phase = "theory" /\ cursor = 0 /\ pc = 1
      /\ goals = {} /\ valid = {}
  BY DEF Init
<1>3. 0 \in 0..(N + 1)
  BY NodeFacts
<1>. QED  BY <1>1, <1>2, <1>3, NodeFacts DEF TypeOK

LEMMA TypeStep == TypeOK /\ [Next]_vars => TypeOK'
<1>. SUFFICES ASSUME TypeOK, [Next]_vars
              PROVE  TypeOK'
  OBVIOUS
<1>. USE NodeFacts
<1>0. prog \in ProgramType
  BY ProgramFacts DEF TypeOK
<1>1. CASE addFunction
  <2>1. (IF combine THEN {Combined} ELSE {}) \subseteq Goals
    BY DEF Goals, Combined, Goal, NoNode
  <2>2. goals' \subseteq Goals /\ valid' \subseteq goals'
    BY <1>1, <2>1, AddGoalType DEF addFunction
  <2>3. phase' \in {"ready", "goals"}
    BY <1>1 DEF addFunction
  <2>4. UNCHANGED <<prog, combine, cursor, pc, real, fault>>
    BY <1>1 DEF addFunction
  <2>. QED  BY <2>2, <2>3, <2>4 DEF TypeOK, Goals
<1>2. CASE addEnsuresGoal
  <2>1. (IF prog.hasEnsures THEN {EnsuresGoal} ELSE {}) \subseteq Goals
    BY DEF Goals, EnsuresGoal, Goal, NoNode
  <2>. QED  BY <1>2, <2>1, AddGoalType DEF addEnsuresGoal, TypeOK, Goals
<1>3. CASE addInstructionGoals
  <2>1. GoalsAt \subseteq Goals
    BY <1>3 DEF Goals, GoalsAt, Goal, addInstructionGoals, Node
  <2>2. cursor + 1 \in 0..(N + 1)
    BY <1>3 DEF addInstructionGoals, Node
  <2>. QED  BY <1>3, <2>1, <2>2, AddGoalType DEF addInstructionGoals, TypeOK, Goals
<1>4. CASE crashOnIndirectCall \/ goalsDone
  BY <1>4 DEF crashOnIndirectCall, goalsDone, TypeOK
<1>5. CASE Enter
  <2>1. PICK v \in prog.requires : real' = Unset(prog, v)
    BY <1>5 DEF Enter
  <2>2. v \in Val
    BY <1>0 DEF ProgramType
  <2>3. real' \in Valuation(prog)
    BY <2>1, <2>2, UnsetType DEF TypeOK
  <2>. QED  BY <1>5, <2>3 DEF Enter, TypeOK
<1>6. CASE Fault \/ Stop
  BY <1>6 DEF Fault, Stop, TypeOK
<1>7. CASE Assign \/ Call \/ IndirectCall \/ Branch
  BY <1>7, StepFacts DEF Assign, Call, IndirectCall, Branch, Advance, TypeOK
<1>8. CASE UNCHANGED vars
  BY <1>8 DEF vars, TypeOK
<1>. QED
  BY <1>1, <1>2, <1>3, <1>4, <1>5, <1>6, <1>7, <1>8 DEF Next, Generate, Execute

(* The type invariant of goal generation and execution. *)
THEOREM TypeCorrect == Spec => []TypeOK
BY TypeInit, TypeStep, PTL DEF Spec
-----------------------------------------------------------------------------
(* The goals that are printed *)

(* What is printed when addGoals has come to the cursor, and what Why3's   *)
(* answers mean.                                                           *)
Printed ==
  /\ phase = "goals" => ~combine
  /\ ~combine /\ cursor > 0 /\ prog.hasEnsures => EnsuresGoal \in goals
  /\ ~combine => \A n \in Node : n < cursor =>
       /\ n \in prog.asserted => Goal("assert", n) \in goals
       /\ n \in prog.required => Goal("call", n) \in goals
  /\ phase \in {"ready", "run", "ended"} =>
       IF combine THEN Combined \in goals ELSE cursor = N + 1

Answers == \A g \in valid : Proves(prog, g)

GoalsInv == Printed /\ Answers

(* The goal that stands for clause kind k at instruction n. *)
Covers(g, k, n) == g = Combined \/ g = Goal(k, n)

LEMMA GoalsStep ==
  ASSUME TypeOK, GoalsInv, [Next]_vars
  PROVE  GoalsInv'
<1>. USE DEF TypeOK, GoalsInv
<1>0. cursor \in Nat /\ N \in Nat
  BY NodeFacts
<1>1. ASSUME NEW G, addGoal(G), prog' = prog
      PROVE  goals \cup G = goals' /\ Answers'
  BY <1>1 DEF addGoal, Answers
<1>2. CASE addFunction
  <2>1. Answers'
    BY <1>1, <1>2 DEF addFunction
  <2>2. combine => Combined \in goals'
    BY <1>2 DEF addFunction, addGoal
  <2>3. goals \subseteq goals'
    BY <1>2 DEF addFunction, addGoal
  <2>. QED  BY <1>2, <2>1, <2>2, <2>3 DEF addFunction, Printed
<1>3. CASE addEnsuresGoal
  <2>1. Answers' /\ goals \subseteq goals'
    BY <1>1, <1>3 DEF addEnsuresGoal
  <2>2. prog.hasEnsures => EnsuresGoal \in goals'
    BY <1>3 DEF addEnsuresGoal, addGoal
  <2>. QED  BY <1>3, <2>1, <2>2, NodeFacts DEF addEnsuresGoal, Printed, Node
<1>4. CASE addInstructionGoals
  <2>1. Answers' /\ goals \subseteq goals'
    BY <1>1, <1>4 DEF addInstructionGoals
  <2>2. /\ cursor \in prog.asserted => Goal("assert", cursor) \in goals'
        /\ cursor \in prog.required => Goal("call", cursor) \in goals'
    BY <1>4 DEF addInstructionGoals, addGoal, GoalsAt
  <2>3. \A n \in Node : n < cursor + 1 => n < cursor \/ n = cursor
    BY <1>0, NodeFacts
  <2>4. /\ phase = "goals" /\ phase' = phase /\ cursor' = cursor + 1
        /\ cursor \in Node /\ UNCHANGED <<prog, combine>>
    BY <1>4 DEF addInstructionGoals
  <2>5. ASSUME NEW n \in Node, n < cursor + 1, ~combine
        PROVE  /\ n \in prog.asserted => Goal("assert", n) \in goals'
               /\ n \in prog.required => Goal("call", n) \in goals'
    BY <2>1, <2>2, <2>3, <2>5 DEF Printed
  <2>6. cursor > 0
    BY <2>4, NodeFacts DEF Node
  <2>. QED  BY <2>1, <2>4, <2>5, <2>6 DEF Printed
<1>5. CASE crashOnIndirectCall \/ goalsDone
  BY <1>5 DEF crashOnIndirectCall, goalsDone, Printed, Answers
<1>6. CASE Execute
  <2>1. /\ phase \in {"ready", "run"} /\ phase' \in {"run", "ended"}
        /\ UNCHANGED <<prog, combine, cursor, goals, valid>>
    BY <1>6 DEF Execute, Enter, Fault, Stop, Assign, Call, IndirectCall, Branch,
       Advance
  <2>. QED  BY <2>1 DEF Printed, Answers
<1>7. CASE UNCHANGED vars
  BY <1>7 DEF vars, Printed, Answers
<1>. QED  BY <1>2, <1>3, <1>4, <1>5, <1>6, <1>7 DEF Next, Generate

(* Once generation is over, every clause has a goal that covers it. *)
LEMMA EveryClauseHasAGoal ==
  ASSUME TypeOK, GoalsInv, phase = "run", NEW n \in Node
  PROVE  /\ n \in prog.asserted => \E g \in goals : Covers(g, "assert", n)
         /\ n \in prog.required /\ ~combine => Goal("call", n) \in goals
         /\ prog.hasEnsures => \E g \in goals : g \in {Combined, EnsuresGoal}
<1>1. n < N + 1 /\ N + 1 > 0
  BY NodeFacts DEF Node
<1>2. CASE combine
  BY <1>2 DEF GoalsInv, Printed, Covers
<1>3. CASE ~combine
  BY <1>1, <1>3 DEF GoalsInv, Printed, Covers
<1>. QED  BY <1>2, <1>3
-----------------------------------------------------------------------------
(* Executions of proved functions *)

InScope == Forward(prog) /\ Tame(prog) /\ (combine => prog.required = {})

(* x completes the values the execution has produced so far. *)
Agrees(x) ==
  /\ \A n \in Node : n <= pc => x.at[n] = real.at[n]
  /\ \A n \in Calls(prog) : n < pc => x.exit[n] = real.exit[n]

(* What is left of goal g at pc holds in every completion. *)
OnTrack(g) ==
  \A x \in Valuation(prog), H \in SUBSET Node :
    Agrees(x) /\ Solves(prog, g, x, H) => pc \in H

SoundInv ==
  /\ TypeOK
  /\ GoalsInv
  /\ phase \notin {"run", "ended"} => pc = 1
  /\ phase # "ended" => ~fault
  /\ InScope /\ AllProved /\ phase = "run" => \A g \in goals : OnTrack(g)
  /\ InScope /\ AllProved => ~fault

LEMMA StepGoesForward ==
  ASSUME TypeOK, InScope, Assign \/ Call \/ IndirectCall \/ Branch
  PROVE  /\ pc' \in Node /\ pc \in Node /\ pc' > pc
         /\ UNCHANGED <<prog, combine, phase, goals, valid, fault>>
<1>1. pc \in Node /\ here \in Val /\ prog \in ProgramType
  BY ProgramFacts DEF here, Valuation, TypeOK
<1>2. prog.op[pc] \in Branching => prog.to[pc][here] > pc
  BY <1>1 DEF InScope, Forward
<1>3. pc' \in Node /\ pc' > pc
  BY <1>1, <1>2, StepFacts, NodeFacts
<1>. QED  BY <1>1, <1>3 DEF Assign, Call, IndirectCall, Branch, Advance

(* A completion of the longer execution completes the shorter one. *)
LEMMA AgreesBefore ==
  ASSUME TypeOK, InScope, Assign \/ Call \/ IndirectCall \/ Branch,
         NEW x, Agrees(x)'
  PROVE  /\ Agrees(x)
         /\ x.at[pc] = here
         /\ x.at[pc'] = real'.at[pc']
         /\ pc \in Calls(prog) => x.exit[pc] = real'.exit[pc]
<1>1. /\ pc \in Nat /\ pc' \in Nat /\ pc' > pc /\ pc \in Node /\ pc' \in Node
      /\ prog' = prog
  BY StepGoesForward, NodeFacts
<1>2. /\ \A n \in Node : n <= pc' => x.at[n] = real'.at[n]
      /\ \A n \in Calls(prog) : n < pc' => x.exit[n] = real'.exit[n]
  BY <1>1 DEF Agrees
<1>3. ASSUME NEW n \in Node, n <= pc
      PROVE  x.at[n] = real.at[n]
  BY <1>1, <1>2, <1>3, StepFacts, NodeFacts
<1>4. ASSUME NEW n \in Calls(prog), n < pc
      PROVE  x.exit[n] = real.exit[n]
  <2>1. n \in Nat
    BY NodeFacts DEF Calls
  <2>. QED  BY <1>1, <1>2, <1>4, <2>1, StepFacts
<1>. QED  BY <1>1, <1>2, <1>3, <1>4 DEF Agrees, here

(* A step of the execution makes the antecedents of its statement true. *)
LEMMA StatementLeads ==
  ASSUME TypeOK, InScope, Assign \/ Call \/ IndirectCall \/ Branch,
         NEW x, Agrees(x)', NEW g, NEW H, Statement(prog, g, x, H, pc)
  PROVE  pc' \in H
<1>1. /\ x.at[pc] = here /\ x.at[pc'] = real'.at[pc']
      /\ pc \in Calls(prog) => x.exit[pc] = real'.exit[pc]
  BY AgreesBefore
<1>2. /\ pc \in Node /\ here \in Val /\ prog \in ProgramType /\ WellFormed(prog)
      /\ real.at \in [Node -> Val] /\ real.exit \in [Calls(prog) -> Mem]
      /\ real \in Valuation(prog)
  BY ProgramFacts DEF here, Valuation, TypeOK
<1>3. ASSUME NEW m \in Node, NEW v \in Val, GoTo(m, v)
      PROVE  pc' = m /\ real'.at[m] = v
  BY <1>2, <1>3 DEF GoTo, Valuation
<1>4. CASE Assign
  <2>1. pc + 1 \in Node /\ prog.step[pc][here] \in Val
    BY <1>2, <1>4, ProgramFacts DEF Assign, Straight, ProgramType, TypeOK
  <2>2. pc' = pc + 1 /\ real'.at[pc + 1] = prog.step[pc][here]
    BY <1>3, <1>4, <2>1 DEF Assign
  <2>. QED  BY <1>1, <1>4, <2>2 DEF Assign, Statement
<1>5. CASE Call
  <2>1. pc \in Calls(prog) /\ pc + 1 \in Node
    BY <1>2, <1>5, ProgramFacts DEF Call, Calls, Straight, TypeOK
  <2>2. PICK e \in Mem :
          /\ real' = [real EXCEPT !.exit[pc] = e,
                                  !.at[pc + 1] = [mem |-> e, loc |-> here.loc]]
          /\ pc' = pc + 1
    BY <1>5 DEF Call
  <2>. DEFINE v == [mem |-> e, loc |-> here.loc]
  <2>3. v.mem = e /\ v.loc = here.loc /\ real' = [real EXCEPT !.exit[pc] = e, !.at[pc + 1] = v]
    BY <2>2
  <2>. HIDE DEF v
  <2>4. real' = [at |-> [real.at EXCEPT ![pc + 1] = v],
                 exit |-> [real.exit EXCEPT ![pc] = e]]
    BY <1>2, <2>3 DEF Valuation
  <2>5. real'.at[pc + 1] = v /\ real'.exit[pc] = e
    BY <1>2, <2>1, <2>4
  <2>6. x.at[pc + 1].loc = x.at[pc].loc /\ x.at[pc + 1].mem = x.exit[pc]
    BY <1>1, <2>1, <2>2, <2>3, <2>5
  <2>7. CallStatement(prog, g, x, pc)
    BY <2>6 DEF CallStatement
  <2>. QED  BY <1>5, <2>2, <2>6, <2>7 DEF Call, Statement
<1>6. CASE IndirectCall
  <2>1. pc + 1 \in Node
    BY <1>2, <1>6, ProgramFacts DEF IndirectCall, Straight, TypeOK
  <2>2. PICK e \in Mem : GoTo(pc + 1, [mem |-> e, loc |-> here.loc])
    BY <1>6 DEF IndirectCall
  <2>3. [mem |-> e, loc |-> here.loc] \in Val
    BY <1>2 DEF Val
  <2>4. pc' = pc + 1 /\ real'.at[pc + 1].loc = here.loc
    BY <1>3, <2>1, <2>2, <2>3
  <2>. QED  BY <1>1, <1>6, <2>4 DEF IndirectCall, Statement
<1>7. CASE Branch
  <2>. DEFINE m == prog.to[pc][here]
              v == [mem |-> here.mem, loc |-> prog.phi[pc][m][here.loc]]
  <2>1. m \in Node
    BY <1>2 DEF ProgramType
  <2>2. v \in Val
    BY <1>2, <2>1 DEF ProgramType, Val
  <2>3. GoTo(m, v) /\ prog.op[pc] \in Branching
    BY <1>7 DEF Branch
  <2>4. pc' = m /\ real'.at[m] = v
    BY <1>3, <2>1, <2>2, <2>3
  <2>5. x.at[m].mem = x.at[pc].mem /\ x.at[m].loc = prog.phi[pc][m][x.at[pc].loc]
    BY <1>1, <2>4
  <2>6. CASE prog.op[pc] = "br"
    BY <1>1, <2>4, <2>5, <2>6 DEF Statement, EdgeEqs
  <2>7. CASE prog.op[pc] = "indirectbr"
    <3>1. prog.dests[pc] \cap prog.heads = {}
      BY <1>2, <2>7 DEF InScope, Tame
    <3>2. IndirectEqs(prog, x, pc, m)
      BY <2>5, <3>1 DEF IndirectEqs
    <3>. QED  BY <1>1, <2>4, <2>7, <3>2 DEF Statement
  <2>. QED  BY <2>3, <2>6, <2>7 DEF Branching
<1>. QED  BY <1>4, <1>5, <1>6, <1>7

(* At a node where the assume and assert clauses hold, a chain on track    *)
(* leaves its statement.                                                   *)
LEMMA ChainLeads ==
  ASSUME NEW p, NEW g, NEW x, NEW H, NEW n \in Node, Solves(p, g, x, H), n \in H,
         x.at[n] \in p.assume[n], x.at[n] \in p.assert[n]
  PROVE  /\ g = Goal("call", n) => x.at[n] \in p.req[n]
         /\ Statement(p, g, x, H, n)
<1>1. Chain(p, g, x, H, n)
  BY DEF Solves
<1>. QED  BY <1>1 DEF Chain

(* Execution stays on track. *)
LEMMA TrackStep ==
  ASSUME SoundInv, InScope, AllProved, phase = "run", NEW g \in goals,
         Assign \/ Call \/ IndirectCall \/ Branch
  PROVE  OnTrack(g)'
<1>. USE DEF SoundInv
<1>1. /\ pc' \in Node /\ pc \in Node /\ prog' = prog /\ goals' = goals
      /\ here \in prog.assume[pc] /\ here \in prog.assert[pc]
  BY StepGoesForward DEF Assign, Call, IndirectCall, Branch, Advance, ClausesHold
<1>2. ASSUME NEW x \in Valuation(prog), NEW H \in SUBSET Node,
             Agrees(x)', Solves(prog, g, x, H)
      PROVE  pc' \in H
  <2>1. Agrees(x) /\ x.at[pc] = here
    BY <1>2, AgreesBefore
  <2>2. pc \in H
    BY <1>2, <2>1 DEF OnTrack
  <2>3. Statement(prog, g, x, H, pc)
    BY <1>1, <1>2, <2>1, <2>2, ChainLeads
  <2>. QED  BY <1>2, <2>3, StatementLeads
<1>. QED  BY <1>1, <1>2 DEF OnTrack

(* Execution starts on track: that is what proving the goal means. *)
LEMMA TrackEnter ==
  ASSUME SoundInv, AllProved, NEW g \in goals, Enter
  PROVE  OnTrack(g)'
<1>. USE DEF SoundInv
<1>1. pc = 1 /\ pc' = 1 /\ prog' = prog /\ 1 \in Node
  BY NodeFacts DEF Enter
<1>2. PICK v \in prog.requires : real' = Unset(prog, v)
  BY DEF Enter
<1>3. real'.at[1] = v
  BY <1>1, <1>2 DEF Unset
<1>4. Proves(prog, g)
  BY DEF AllProved, GoalsInv, Answers
<1>5. ASSUME NEW x \in Valuation(prog), NEW H \in SUBSET Node,
             Agrees(x)', Solves(prog, g, x, H)
      PROVE  pc' \in H
  <2>1. x.at[1] = v
    BY <1>1, <1>3, <1>5 DEF Agrees
  <2>. QED  BY <1>1, <1>2, <1>4, <1>5, <2>1 DEF Proves
<1>. QED  BY <1>1, <1>5 DEF OnTrack

(* Execution on track violates no clause. *)
LEMMA NoFault ==
  ASSUME SoundInv, InScope, AllProved, phase = "run", Fault
  PROVE  FALSE
<1>. USE DEF SoundInv
<1>1. /\ pc \in Node /\ real \in Valuation(prog) /\ WellFormed(prog)
      /\ here = real.at[pc] /\ here \in prog.assume[pc] /\ ~ClausesHold
  BY ProgramFacts DEF TypeOK, Fault, here
<1>2. here \in Val /\ real.at[1] \in Val
  BY <1>1, NodeFacts DEF Valuation
<1>3. ASSUME NEW g \in goals
      PROVE  \E H \in SUBSET Node : Solves(prog, g, real, H) /\ pc \in H
  <2>1. PICK H \in SUBSET Node : Solves(prog, g, real, H)
    BY Solvable
  <2>2. Agrees(real)
    BY DEF Agrees
  <2>3. pc \in H
    BY <1>1, <2>1, <2>2 DEF OnTrack
  <2>. QED  BY <2>1, <2>3
<1>4. here \in prog.assert[pc]
  <2>. SUFFICES ASSUME here \notin prog.assert[pc]
                PROVE  FALSE
    OBVIOUS
  <2>1. pc \in prog.asserted
    BY <1>1, <1>2 DEF WellFormed
  <2>2. PICK g \in goals : Covers(g, "assert", pc)
    BY <1>1, <2>1, EveryClauseHasAGoal
  <2>3. PICK H \in SUBSET Node : Solves(prog, g, real, H) /\ pc \in H
    BY <1>3
  <2>4. Chain(prog, g, real, H, pc)
    BY <1>1, <2>3 DEF Solves
  <2>. QED  BY <1>1, <2>2, <2>4 DEF Chain, Covers, Combined, Goal
<1>5. here \in prog.req[pc]
  <2>. SUFFICES ASSUME here \notin prog.req[pc]
                PROVE  FALSE
    OBVIOUS
  <2>1. pc \in prog.required
    BY <1>1, <1>2 DEF WellFormed
  <2>2. Goal("call", pc) \in goals
    BY <1>1, <2>1, EveryClauseHasAGoal DEF InScope
  <2>3. PICK H \in SUBSET Node : Solves(prog, Goal("call", pc), real, H) /\ pc \in H
    BY <1>3, <2>2
  <2>. QED  BY <1>1, <1>4, <2>3, ChainLeads
<1>6. prog.op[pc] = "ret" => <<real.at[1], here>> \in prog.ensures
  <2>. SUFFICES ASSUME prog.op[pc] = "ret", <<real.at[1], here>> \notin prog.ensures
                PROVE  FALSE
    OBVIOUS
  <2>1. prog.hasEnsures
    BY <1>1, <1>2 DEF WellFormed
  <2>2. PICK g \in goals : g \in {Combined, EnsuresGoal}
    BY <1>1, <2>1, EveryClauseHasAGoal
  <2>3. PICK H \in SUBSET Node : Solves(prog, g, real, H) /\ pc \in H
    BY <1>3
  <2>4. Statement(prog, g, real, H, pc)
    BY <1>1, <1>4, <2>3, ChainLeads
  <2>. QED  BY <1>1, <2>2, <2>4 DEF Statement
<1>. QED  BY <1>1, <1>4, <1>5, <1>6 DEF ClausesHold
-----------------------------------------------------------------------------
LEMMA SoundInit == Init => SoundInv
<1>. SUFFICES ASSUME Init
              PROVE  SoundInv
  OBVIOUS
<1>1. TypeOK
  BY TypeInit
<1>2. /\ phase = "theory" /\ cursor = 0 /\ pc = 1
      /\ goals = {} /\ valid = {} /\ fault = FALSE
  BY DEF Init
<1>3. GoalsInv
  BY <1>2, NodeFacts DEF GoalsInv, Printed, Answers, Node
<1>. QED  BY <1>1, <1>2, <1>3 DEF SoundInv

LEMMA SoundStep == SoundInv /\ [Next]_vars => SoundInv'
<1>. SUFFICES ASSUME SoundInv, [Next]_vars
              PROVE  SoundInv'
  OBVIOUS
<1>. USE DEF SoundInv
<1>1. TypeOK' /\ GoalsInv'
  BY TypeStep, GoalsStep
<1>2. CASE Generate
  <2>1. /\ phase \in {"theory", "goals"} /\ phase' \in {"goals", "ready", "crashed"}
        /\ UNCHANGED <<pc, fault>>
    BY <1>2 DEF Generate, addFunction, addEnsuresGoal, addInstructionGoals,
       crashOnIndirectCall, goalsDone
  <2>. QED  BY <1>1, <2>1
<1>3. CASE Enter
  <2>1. /\ phase = "ready" /\ phase' = "run"
        /\ UNCHANGED <<prog, combine, goals, valid, fault>>
    BY <1>3 DEF Enter
  <2>2. AllProved' => AllProved
    BY <2>1 DEF AllProved
  <2>3. AllProved' => \A g \in goals : OnTrack(g)'
    BY <1>3, <2>2, TrackEnter
  <2>. QED  BY <1>1, <2>1, <2>3
<1>4. CASE Fault
  <2>1. /\ phase = "run" /\ phase' = "ended"
        /\ UNCHANGED <<prog, combine, goals, valid>>
    BY <1>4 DEF Fault
  <2>2. ~(InScope' /\ AllProved')
    BY <1>4, <2>1, NoFault DEF InScope, AllProved
  <2>. QED  BY <1>1, <2>1, <2>2
<1>5. CASE Stop
  <2>1. /\ phase = "run" /\ phase' = "ended"
        /\ UNCHANGED <<prog, combine, goals, valid, fault>>
    BY <1>5 DEF Stop
  <2>. QED  BY <1>1, <2>1
<1>6. CASE Assign \/ Call \/ IndirectCall \/ Branch
  <2>1. /\ phase = "run" /\ phase' = "run"
        /\ UNCHANGED <<prog, combine, goals, valid, fault>>
    BY <1>6 DEF Assign, Call, IndirectCall, Branch, Advance
  <2>2. (InScope' <=> InScope) /\ (AllProved' <=> AllProved)
    BY <2>1 DEF InScope, AllProved
  <2>3. InScope /\ AllProved => \A g \in goals : OnTrack(g)'
    BY <1>6, <2>1, TrackStep
  <2>. QED  BY <1>1, <2>1, <2>2, <2>3
<1>7. CASE UNCHANGED vars
  <2>1. (InScope' <=> InScope) /\ (AllProved' <=> AllProved)
    BY <1>7 DEF vars, InScope, AllProved
  <2>2. \A g : OnTrack(g)' <=> OnTrack(g)
    BY <1>7 DEF vars, OnTrack, Agrees
  <2>. QED  BY <1>1, <1>7, <2>1, <2>2 DEF vars
<1>. QED  BY <1>2, <1>3, <1>4, <1>5, <1>6, <1>7 DEF Next, Execute

(* Soundness: a loop-free function all of whose goals Why3 proves never    *)
(* violates an assert, a callee's requires or its own ensures clause.      *)
THEOREM Soundness == Spec => []ProvedMeansSafe
<1>1. SoundInv => ProvedMeansSafe
  BY DEF SoundInv, ProvedMeansSafe, InScope
<1>. QED  BY <1>1, SoundInit, SoundStep, PTL DEF Spec
-----------------------------------------------------------------------------
(* Refuted goals *)

(* A set of numbers that 0 is in, and n + 1 with every n, has them all.    *)
LEMMA AllNat ==
  ASSUME NEW S, 0 \in S, \A n \in Nat : n \in S => n + 1 \in S
  PROVE  \A n \in Nat : n \in S
<1>. SUFFICES ASSUME NEW m \in Nat \ S PROVE FALSE
  OBVIOUS
<1>. DEFINE R == {ss \in Nat \X Nat : ss[1] < ss[2]}
            T == Nat \ S
<1>1. IsWellFoundedOn(R, Nat)
  BY NatLessThanWellFounded DEF OpToRel
<1>2. \A j, k \in T : j < k => <<j, k>> \in R
  OBVIOUS
<1>3. T \subseteq Nat /\ T # {}
  OBVIOUS
<1>4. \A n \in T : n # 0 /\ n - 1 \in T /\ n - 1 < n
  <2>. SUFFICES ASSUME NEW n \in T PROVE n # 0 /\ n - 1 \in T /\ n - 1 < n
    OBVIOUS
  <2>1. n - 1 \in Nat /\ (n - 1) + 1 = n
    OBVIOUS
  <2>. QED  BY <2>1
<1>. HIDE DEF R, T
<1>5. PICK k \in T : \A j \in T : ~(<<j, k>> \in R)
  BY <1>1, <1>3, WFMin
<1>. QED  BY <1>2, <1>4, <1>5

(* What ReachedIn computes.                                                *)
LEMMA ReachedFacts ==
  ASSUME NEW p, NEW e
  PROVE  LET r == ReachedIn(p, e)
         IN  /\ r[0] = {<<1, e>>}
             /\ \A k \in 1..N :
                  r[k] = r[k - 1] \cup (UNION {After(p, c) : c \in r[k - 1]})
<1>. DEFINE Further(A) == A \cup (UNION {After(p, c) : c \in A})
            Rec(g, m) == [k \in 0..m |-> IF k = 0 THEN {<<1, e>>} ELSE Further(g[k - 1])]
            S == {m \in Nat : \E g : g = Rec(g, m)}
            w == CHOOSE g : g = Rec(g, N)
<1>0. N \in Nat
  BY NodeFacts
<1>1. ReachedIn(p, e) = w
  BY DEF ReachedIn
<1>. HIDE DEF Further
<1>2. 0 \in S
  <2>. DEFINE g == [k \in 0..0 |-> {<<1, e>>}]
  <2>1. g = Rec(g, 0)
    OBVIOUS
  <2>. QED  BY <2>1
<1>3. ASSUME NEW m \in Nat, m \in S PROVE m + 1 \in S
  <2>1. PICK g : g = Rec(g, m)
    BY <1>3
  <2>. DEFINE h == [k \in 0..(m + 1) |-> IF k = m + 1 THEN Further(g[m]) ELSE g[k]]
  <2>2. ASSUME NEW k \in 0..(m + 1) PROVE h[k] = Rec(h, m + 1)[k]
    <3>1. CASE k = 0
      <4>1. 0 \in 0..m /\ 0 # m + 1
        OBVIOUS
      <4>2. Rec(g, m)[0] = {<<1, e>>}
        BY <4>1
      <4>3. g[0] = {<<1, e>>}
        BY <2>1, <4>2
      <4>. QED  BY <3>1, <4>1, <4>3
    <3>2. CASE k # 0
      <4>1. k - 1 \in 0..m /\ k - 1 # m + 1 /\ k - 1 \in 0..(m + 1)
        BY <3>2
      <4>2. h[k - 1] = g[k - 1]
        BY <4>1
      <4>3. CASE k = m + 1
        BY <3>2, <4>2, <4>3
      <4>4. CASE k # m + 1
        <5>1. k \in 0..m
          BY <4>4
        <5>2. Rec(g, m)[k] = Further(g[k - 1])
          BY <3>2, <5>1
        <5>3. g[k] = Further(g[k - 1])
          BY <2>1, <5>2
        <5>. QED  BY <3>2, <4>2, <4>4, <5>3
      <4>. QED  BY <4>3, <4>4
    <3>. QED  BY <3>1, <3>2
  <2>3. /\ h = [k \in 0..(m + 1) |-> h[k]]
        /\ Rec(h, m + 1) = [k \in 0..(m + 1) |-> Rec(h, m + 1)[k]]
    OBVIOUS
  <2>4. \E f : f = Rec(f, m + 1)
    <3>1. \A k \in 0..(m + 1) : h[k] = Rec(h, m + 1)[k]
      BY <2>2
    <3>2. h = Rec(h, m + 1)
      <4>. DEFINE q == Rec(h, m + 1)
      <4>1. \A k \in 0..(m + 1) : h[k] = q[k]
        BY <3>1
      <4>2. h = [k \in 0..(m + 1) |-> h[k]] /\ q = [k \in 0..(m + 1) |-> q[k]]
        BY <2>3
      <4>. HIDE DEF h, q
      <4>3. h = q
        BY <4>1, <4>2
      <4>. QED  BY <4>3 DEF q
    <3>. HIDE DEF h, Rec
    <3>. QED  BY <3>2
  <2>. QED  BY <2>4
<1>4. \A m \in Nat : m \in S
  <2>. HIDE DEF S
  <2>. QED  BY <1>2, <1>3, AllNat
<1>5. \E g : g = Rec(g, N)
  BY <1>0, <1>4
<1>6. w = Rec(w, N)
  BY <1>5
<1>. HIDE DEF w
<1>7. w[0] = {<<1, e>>}
  <2>1. Rec(w, N)[0] = {<<1, e>>}
    BY <1>0
  <2>. QED  BY <1>6, <2>1
<1>8. ASSUME NEW k \in 1..N PROVE w[k] = Further(w[k - 1])
  <2>1. Rec(w, N)[k] = Further(w[k - 1])
    BY <1>0
  <2>. QED  BY <1>6, <2>1
<1>. QED  BY <1>1, <1>7, <1>8 DEF Further

(* One more step gets from what k steps reach to what comes after it.      *)
LEMMA ReachedFurther ==
  ASSUME NEW p, NEW e, NEW n \in Node, NEW m \in Node, m > n,
         NEW c \in ReachedIn(p, e)[n - 1], NEW d \in After(p, c)
  PROVE  d \in ReachedIn(p, e)[m - 1]
<1>. DEFINE r == ReachedIn(p, e)
            S == {k \in Nat : n + k <= N => d \in r[n + k]}
<1>0. N \in Nat /\ n \in Nat /\ m \in Nat /\ n >= 1 /\ m <= N
  BY NodeFacts DEF Node
<1>1. \A k \in 1..N : r[k] = r[k - 1] \cup (UNION {After(p, x) : x \in r[k - 1]})
  BY ReachedFacts
<1>. HIDE DEF r
<1>2. c \in r[n - 1]
  BY DEF r
<1>3. 0 \in S
  <2>1. n \in 1..N /\ n + 0 = n
    BY <1>0
  <2>2. r[n] = r[n - 1] \cup (UNION {After(p, x) : x \in r[n - 1]})
    BY <1>1, <2>1
  <2>. QED  BY <1>2, <2>1, <2>2
<1>4. ASSUME NEW k \in Nat, k \in S PROVE k + 1 \in S
  <2>1. ASSUME n + (k + 1) <= N PROVE d \in r[n + (k + 1)]
    <3>1. PICK j \in 1..N : j = n + (k + 1) /\ j - 1 = n + k /\ n + k <= N
      BY <1>0, <2>1
    <3>2. r[j - 1] \subseteq r[j]
      BY <1>1
    <3>3. d \in r[n + k]
      BY <1>4, <3>1
    <3>. QED  BY <3>1, <3>2, <3>3
  <2>. QED  BY <2>1
<1>5. \A k \in Nat : k \in S
  <2>1. \A k \in Nat : k \in S => k + 1 \in S
    BY <1>4
  <2>. HIDE DEF S
  <2>. QED  BY <1>3, <2>1, AllNat
<1>6. m - 1 - n \in Nat /\ n + (m - 1 - n) = m - 1 /\ m - 1 <= N
  BY <1>0
<1>. QED  BY <1>5, <1>6 DEF r

(* More steps reach more.                                                  *)
LEMMA ReachedByAll ==
  ASSUME NEW p, NEW e, NEW n \in Node
  PROVE  ReachedIn(p, e)[n - 1] \subseteq Reachable(p, e)
<1>. SUFFICES ASSUME NEW c \in ReachedIn(p, e)[n - 1]
              PROVE  c \in ReachedIn(p, e)[N]
  BY DEF Reachable
<1>. DEFINE r == ReachedIn(p, e)
            S == {k \in Nat : n - 1 + k <= N => c \in r[n - 1 + k]}
<1>0. N \in Nat /\ n \in Nat /\ n >= 1 /\ n <= N
  BY NodeFacts DEF Node
<1>1. \A k \in 1..N : r[k] = r[k - 1] \cup (UNION {After(p, x) : x \in r[k - 1]})
  BY ReachedFacts
<1>. HIDE DEF r
<1>2. 0 \in S
  BY <1>0 DEF r
<1>3. ASSUME NEW k \in Nat, k \in S PROVE k + 1 \in S
  <2>1. ASSUME n - 1 + (k + 1) <= N PROVE c \in r[n - 1 + (k + 1)]
    <3>1. PICK j \in 1..N : j = n - 1 + (k + 1) /\ j - 1 = n - 1 + k /\ n - 1 + k <= N
      BY <1>0, <2>1
    <3>2. r[j - 1] \subseteq r[j]
      BY <1>1
    <3>3. c \in r[n - 1 + k]
      BY <1>3, <3>1
    <3>. QED  BY <3>1, <3>2, <3>3
  <2>. QED  BY <2>1
<1>4. \A k \in Nat : k \in S
  <2>1. \A k \in Nat : k \in S => k + 1 \in S
    BY <1>3
  <2>. HIDE DEF S
  <2>. QED  BY <1>2, <2>1, AllNat
<1>5. PICK k \in Nat : n - 1 + k = N
  <2>1. N - (n - 1) \in Nat /\ n - 1 + (N - (n - 1)) = N
    BY <1>0
  <2>. QED  BY <2>1
<1>6. c \in r[N]
  BY <1>0, <1>4, <1>5
<1>. QED  BY <1>6 DEF r

(* The goals that are printed, and that Why3 refutes what it does not prove. *)
GoalsExact ==
  /\ \A g \in goals : \/ g \in {Combined, EnsuresGoal}
                      \/ \E n \in Node : g = Goal("assert", n)
                      \/ \E n \in prog.required : g = Goal("call", n)
  /\ \A g \in goals \ valid : ~Proves(prog, g)

LEMMA GoalsExactStep ==
  ASSUME TypeOK, GoalsExact, [Next]_vars
  PROVE  GoalsExact'
<1>. USE DEF TypeOK, GoalsExact
<1>1. ASSUME NEW G, addGoal(G), prog' = prog,
             \A g \in G : \/ g \in {Combined, EnsuresGoal}
                          \/ \E n \in Node : g = Goal("assert", n)
                          \/ \E n \in prog.required : g = Goal("call", n)
      PROVE  GoalsExact'
  BY <1>1 DEF addGoal
<1>2. CASE addFunction
  BY <1>1, <1>2 DEF addFunction
<1>3. CASE addEnsuresGoal
  BY <1>1, <1>3 DEF addEnsuresGoal
<1>4. CASE addInstructionGoals
  <2>1. \A g \in GoalsAt : \/ \E n \in Node : g = Goal("assert", n)
                           \/ \E n \in prog.required : g = Goal("call", n)
    BY <1>4 DEF addInstructionGoals, GoalsAt
  <2>. QED  BY <1>1, <1>4, <2>1 DEF addInstructionGoals
<1>5. CASE UNCHANGED <<prog, goals, valid>>
  BY <1>5
<1>. QED  BY <1>2, <1>3, <1>4, <1>5
          DEF Next, Generate, Execute, crashOnIndirectCall, goalsDone, Enter, Fault, Stop,
              Assign, Call, IndirectCall, Branch, Advance, vars

(* What comes after an instruction whose clauses hold.                     *)
LEMMA AfterAssign ==
  ASSUME NEW p, NEW n, NEW u, p.op[n] = "assign",
         u \in p.assume[n] \cap p.assert[n] \cap p.req[n]
  PROVE  After(p, <<n, u>>) = {<<n + 1, p.step[n][u]>>}
<1>1. <<n, u>>[1] = n /\ <<n, u>>[2] = u
  OBVIOUS
<1>. QED  BY <1>1 DEF After, Branching

(* A valuation that refutes a goal is an execution up to where the chain   *)
(* breaks: the last node reached whose chain is false.                     *)
LEMMA RefutedFails ==
  ASSUME NEW p \in Programs, Forward(p),
         ~Uses(p, "call"), ~Uses(p, "icall"), ~Uses(p, "indirectbr"),
         NEW g, ~Proves(p, g),
         \/ g \in {Combined, EnsuresGoal}
         \/ \E n \in Node : g = Goal("assert", n)
         \/ \E n \in p.required : g = Goal("call", n)
  PROVE  CanFail(p, g)
<1>1. PICK x \in Valuation(p), H \in SUBSET Node :
        x.at[1] \in p.requires /\ Solves(p, g, x, H) /\ 1 \notin H
  BY DEF Proves
<1>. DEFINE e == x.at[1]
            v(n) == x.at[n]
            R == {n \in Node \ H : <<n, x.at[n]>> \in ReachedIn(p, e)[n - 1]}
<1>2. /\ x.at \in [Node -> Val] /\ e \in Val /\ WellFormed(p) /\ p \in ProgramType
      /\ \A n \in Node : p.op[n] \in Straight => n + 1 \in Node
  BY NodeFacts, ProgramFacts DEF Valuation
<1>3. \A n \in Node : p.op[n] \notin {"call", "icall", "indirectbr"}
  BY DEF Uses
<1>4. p.required = {} /\ \A n \in Node : p.req[n] = Val
  <2>1. p.required \subseteq Node
    BY <1>2 DEF ProgramType
  <2>2. \A n \in Node : /\ n \in p.required => p.op[n] = "call"
                        /\ n \notin p.required => p.req[n] = Val
    BY <1>2 DEF WellFormed
  <2>3. p.required = {}
    BY <1>3, <2>1, <2>2
  <2>. QED  BY <2>2, <2>3
<1>5. 1 \in R
  <2>1. ReachedIn(p, e)[0] = {<<1, e>>} /\ 1 - 1 = 0
    BY ReachedFacts
  <2>. QED  BY <1>1, <2>1, NodeFacts
<1>6. PICK n \in R : \A m \in R : ~(m > n)
  <2>1. R \subseteq 1..N /\ N \in Nat
    BY NodeFacts DEF Node
  <2>. HIDE DEF R
  <2>2. SUFFICES ASSUME \A n \in R : \E m \in R : m > n
                 PROVE  FALSE
    OBVIOUS
  <2>. DEFINE T == {k \in Nat : \E m \in R : m >= k}
  <2>3. 0 \in T
    BY <1>5, <2>1
  <2>4. ASSUME NEW k \in Nat, k \in T PROVE k + 1 \in T
    <3>1. PICK m \in R : m >= k
      BY <2>4
    <3>2. PICK j \in R : j > m
      BY <2>2
    <3>3. j >= k + 1
      BY <2>1, <3>1, <3>2
    <3>. QED  BY <3>3
  <2>. HIDE DEF T
  <2>5. N + 1 \in T
    BY <2>1, <2>3, <2>4, AllNat
  <2>6. PICK m \in R : m >= N + 1
    BY <2>5 DEF T
  <2>. QED  BY <2>1, <2>6
<1>7. /\ n \in Node /\ n \notin H /\ ~Chain(p, g, x, H, n) /\ v(n) \in Val
      /\ <<n, v(n)>> \in ReachedIn(p, e)[n - 1]
  BY <1>1, <1>2 DEF Solves
<1>8. <<n, v(n)>> \in Reachable(p, e)
  BY <1>7, ReachedByAll
<1>9. v(n) \in p.assume[n]
  BY <1>7 DEF Chain
<1>11. g.kind = "combined" => g = Combined
  BY <1>4 DEF Combined, EnsuresGoal, Goal
<1>12. g # Goal("call", n)
  BY <1>4 DEF Combined, EnsuresGoal, Goal
<1>13. CASE v(n) \notin p.assert[n]
  <2>1. g = Combined \/ g = Goal("assert", n)
    BY <1>7, <1>11, <1>13 DEF Chain
  <2>. QED  BY <1>1, <1>8, <1>9, <1>13, <2>1 DEF CanFail
<1>14. CASE v(n) \in p.assert[n]
  <2>1. ~Statement(p, g, x, H, n)
    BY <1>7, <1>12, <1>14 DEF Chain
  <2>2. v(n) \in p.assume[n] \cap p.assert[n] \cap p.req[n]
    BY <1>4, <1>7, <1>9, <1>14
  <2>3. ASSUME NEW m \in Node, m > n, m \notin H, <<m, v(m)>> \in After(p, <<n, v(n)>>)
        PROVE  FALSE
    <3>1. <<m, v(m)>> \in ReachedIn(p, e)[m - 1]
      BY <1>7, <2>3, ReachedFurther
    <3>2. m \in R
      BY <2>3, <3>1
    <3>. QED  BY <1>6, <2>3, <3>2
  <2>4. CASE p.op[n] = "assign"
    <3>1. n + 1 \in Node /\ n + 1 > n
      BY <1>2, <1>7, <2>4, NodeFacts DEF Straight
    <3>2. v(n + 1) = p.step[n][v(n)] /\ n + 1 \notin H
      BY <2>1, <2>4 DEF Statement
    <3>3. After(p, <<n, v(n)>>) = {<<n + 1, p.step[n][v(n)]>>}
      BY <2>2, <2>4, AfterAssign
    <3>. QED  BY <2>3, <3>1, <3>2, <3>3
  <2>5. CASE p.op[n] = "br"
    <3>. DEFINE m == p.to[n][v(n)]
    <3>1. m \in Node /\ m > n
      BY <1>2, <1>7, <2>5 DEF Forward, Branching, ProgramType
    <3>2. EdgeEqs(p, x, n, m) /\ m \notin H
      BY <2>1, <2>5 DEF Statement
    <3>3. v(m) = [mem |-> v(n).mem, loc |-> p.phi[n][m][v(n).loc]]
      BY <1>2, <3>1, <3>2 DEF EdgeEqs, Val
    <3>4. After(p, <<n, v(n)>>) = {<<m, [mem |-> v(n).mem, loc |-> p.phi[n][m][v(n).loc]]>>}
      BY <2>2, <2>5 DEF After, Branching
    <3>. QED  BY <2>3, <3>1, <3>2, <3>3, <3>4
  <2>6. CASE p.op[n] = "ret"
    <3>1. g \in {Combined, EnsuresGoal} /\ <<e, v(n)>> \notin p.ensures
      BY <2>1, <2>6 DEF Statement
    <3>. QED  BY <1>1, <1>8, <1>9, <1>14, <2>6, <3>1 DEF CanFail
  <2>7. p.op[n] \in {"assign", "br", "ret"}
    BY <1>3, <1>7, <2>1 DEF Statement
  <2>. QED  BY <2>4, <2>5, <2>6, <2>7
<1>. QED  BY <1>13, <1>14

(* Precision: where Why3 does not prove a goal of a loop-free function     *)
(* without calls and indirectbr, an execution breaks its clause, so        *)
(* addBlock has left out of the chain nothing that the goal depends on.    *)
THEOREM Precision == Spec => []Precise
<1>1. Init => TypeOK /\ GoalsExact
  BY TypeInit DEF Init, GoalsExact
<1>2. TypeOK /\ GoalsExact /\ [Next]_vars => TypeOK' /\ GoalsExact'
  BY TypeStep, GoalsExactStep
<1>3. TypeOK /\ GoalsExact => Precise
  BY RefutedFails DEF TypeOK, GoalsExact, Precise
<1>. QED  BY <1>1, <1>2, <1>3, PTL DEF Spec
=============================================================================
