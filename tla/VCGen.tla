------------------------------- MODULE VCGen -------------------------------
(***************************************************************************)
(* The verification conditions WhyR prints for one function, and what they *)
(* say about the function's executions.                                    *)
(*                                                                         *)
(* esc_why3.cpp turns a function into a Why3 theory: a constant for every  *)
(* SSA value and every memory state ("statepoint"), a predicate for every  *)
(* basic block, and an axiom that equates the predicate of a block with a  *)
(* chain of implications through its instructions.  The goal of a clause   *)
(* is the same theory printed again with that one clause turned from an    *)
(* antecedent into a conjunct, and `function_requires -> execute'.  Why3   *)
(* proves a goal when it holds under every value of the constants and      *)
(* every solution of the axioms.                                           *)
(*                                                                         *)
(* The module prints the goals one by one, in the order of addGoals, and   *)
(* then runs the function.                                                 *)
(*                                                                         *)
(* Abstraction.  An instruction sees a memory and one local: the constants *)
(* in force before instruction n are at[n] = [mem |-> .., loc |-> ..].  A  *)
(* block is a stretch of consecutive nodes; the predicate of a block is    *)
(* the truth of its first node and the truth of the other nodes are the    *)
(* suffixes of the block's chain.  Clauses are the sets of values at which *)
(* they hold.  Only one function is printed: its callees are contracts.    *)
(***************************************************************************)
EXTENDS Naturals

CONSTANTS Mem,       (* the contents memory can have                       *)
          Loc,       (* the values of a local                              *)
          N,         (* how many instructions a function has               *)
          Programs   (* the functions considered                           *)

Node == 1..N
Val == [mem : Mem, loc : Loc]

(* assign: any instruction whose statement predicate is one equation.      *)
(* call: a direct call; icall: a call through a pointer.                   *)
(* br: br and switch, with or without a condition.                         *)
Straight == {"assign", "call", "icall"}
Branching == {"br", "indirectbr"}
Ops == Straight \cup Branching \cup {"ret", "unreachable"}

ProgramType ==
  [ op : [Node -> Ops],
    step : [Node -> [Val -> Val]],           \* what an assign computes
    to : [Node -> [Val -> Node]],            \* the successor a branch takes
    dests : [Node -> SUBSET Node],           \* the destinations it lists
    heads : SUBSET Node,                     \* blocks that start with a phi
    phi : [Node -> [Node -> [Loc -> Loc]]],  \* phi[n][m]: the local on edge n, m
    assume : [Node -> SUBSET Val],
    asserted : SUBSET Node,                  \* nodes with an assert clause
    assert : [Node -> SUBSET Val],
    required : SUBSET Node,                  \* calls whose callee has requires
    req : [Node -> SUBSET Val],              \* the callee's clauses
    ens : [Node -> SUBSET (Val \X Mem)],
    assigns : [Node -> SUBSET (Val \X Mem)],
    requires : SUBSET Val,                   \* the function's own clauses
    hasEnsures : BOOLEAN,
    ensures : SUBSET (Val \X Val) ]

(* What LLVM's verifier and getRequiresClause() == NULL guarantee.         *)
WellFormed(p) ==
  /\ p \in ProgramType
  /\ p.op[N] \notin Straight
  /\ \A n \in Node :
       /\ n \notin p.asserted => p.assert[n] = Val
       /\ n \in p.required => p.op[n] = "call"
       /\ n \notin p.required => p.req[n] = Val
       /\ p.op[n] \in Branching => \A v \in Val : p.to[n][v] \in p.dests[n]
       /\ \A m \in Node \ p.heads : \A l \in Loc : p.phi[n][m][l] = l
  /\ ~p.hasEnsures => p.ensures = Val \X Val

ASSUME ProgramsAssumption ==
  /\ N \in Nat \ {0}
  /\ Mem # {} /\ Loc # {}
  /\ \A p \in Programs : WellFormed(p)

VARIABLES prog,      (* the function under verification                    *)
          combine,   (* settings->combineGoals, option -G                  *)
          phase,     (* theory, goals, ready, run, ended or crashed        *)
          cursor,    (* the instruction addGoals has reached, 0 before all *)
          goals,     (* the goals printed                                  *)
          valid,     (* those of them that Why3 proves                     *)
          pc,        (* the instruction the execution is at                *)
          real,      (* the values the execution has given the constants   *)
          fault      (* a clause did not hold when its turn came           *)

vars == <<prog, combine, phase, cursor, goals, valid, pc, real, fault>>
-----------------------------------------------------------------------------
(* The formulas *)

NoNode == 0
Goal(kind, n) == [kind |-> kind, node |-> n]
Combined == Goal("combined", NoNode)
EnsuresGoal == Goal("ensures", NoNode)

(* A value for every constant of the theory.  exit[n] is the F.exit_state  *)
(* of the clone of the callee's theory at the call n.                      *)
Calls(p) == {n \in Node : p.op[n] = "call"}
Valuation(p) == [at : [Node -> Val], exit : [Calls(p) -> Mem]]

(* The antecedents on the edge from n to m: state_before_m = current state *)
(* and the equations of the phi nodes of m; other locals are the same      *)
(* constants on both sides.                                                *)
FaultyEdgeNoPhi(p, x, n, m) == x.at[m].mem = x.at[n].mem
EdgeEqs(p, x, n, m) ==
  /\ x.at[m].mem = x.at[n].mem
  /\ x.at[m].loc = p.phi[n][m][x.at[n].loc]

(* indirectbr: the phi equations of every destination that it lists, and   *)
(* no equation for the state.                                              *)
IndirectEqs(p, x, n, m) ==
  \A d \in {m} \cup (p.dests[n] \cap p.heads) :
    x.at[d].loc = p.phi[n][d][x.at[n].loc]

(* A call's statement predicate, itself a chain of implications.           *)
CallStatement(p, g, x, n) ==
  (g.kind = "combined" \/ g = Goal("call", n) \/ x.at[n] \in p.req[n]) =>
    (<<x.at[n], x.exit[n]>> \in p.assigns[n] =>
      (<<x.at[n], x.exit[n]>> \in p.ens[n] =>
        x.at[n + 1].mem = x.exit[n]))

(* The statement of instruction n and what follows it, where H is the set  *)
(* of nodes whose chain is true.                                           *)
Statement(p, g, x, H, n) ==
  LET v == x.at[n]
      m == p.to[n][v]
  IN /\ p.op[n] = "assign" => (x.at[n + 1] = p.step[n][v] => n + 1 \in H)
     /\ p.op[n] = "call" =>
          (x.at[n + 1].loc = v.loc /\ CallStatement(p, g, x, n) => n + 1 \in H)
     /\ p.op[n] = "icall" => (x.at[n + 1].loc = v.loc => n + 1 \in H)
     /\ p.op[n] = "br" => (EdgeEqs(p, x, n, m) => m \in H)
     /\ p.op[n] = "indirectbr" => (IndirectEqs(p, x, n, m) => m \in H)
     /\ p.op[n] = "ret" =>
          (g \in {Combined, EnsuresGoal} => <<x.at[1], v>> \in p.ensures)

(* The chain from instruction n on: its assume clause, its assert clause   *)
(* (proved if it is the goal, else assumed), the callee's requires clause  *)
(* if that is the goal, and the statement.                                 *)
Chain(p, g, x, H, n) ==
  LET a == x.at[n] \in p.assert[n]
      isGoal == g.kind = "combined" \/ g = Goal("assert", n)
  IN (x.at[n] \in p.assume[n] /\ (isGoal \/ a)) =>
       /\ isGoal => a
       /\ g = Goal("call", n) => x.at[n] \in p.req[n]
       /\ Statement(p, g, x, H, n)

(* The block axioms. *)
Solves(p, g, x, H) == \A n \in Node : n \in H <=> Chain(p, g, x, H, n)

(* goal G: function_requires -> execute *)
Proves(p, g) ==
  \A x \in Valuation(p) : \A H \in SUBSET Node :
    x.at[1] \in p.requires /\ Solves(p, g, x, H) => 1 \in H

(* goal G_vacuous: (function_requires /\ execute) -> false *)
ProvesVacuous(p, g) ==
  \A x \in Valuation(p) : \A H \in SUBSET Node :
    Solves(p, g, x, H) => ~(x.at[1] \in p.requires /\ 1 \in H)
-----------------------------------------------------------------------------
(* Printing the goals *)

(* Constants nothing has been written to yet. *)
Unset(p, v) == [at |-> [n \in Node |-> v], exit |-> [n \in Calls(p) |-> v.mem]]

Init ==
  /\ prog \in Programs
  /\ combine \in BOOLEAN
  /\ phase = "theory"
  /\ cursor = 0
  /\ goals = {}
  /\ valid = {}
  /\ pc = 1
  /\ real = Unset(prog, CHOOSE v \in Val : TRUE)
  /\ fault = FALSE

FaultyAddGoalForgets(G) ==
  /\ goals' = G
  /\ valid' = valid \cup {g \in G : Proves(prog, g)}

(* addGoal prints the theories G; Why3 proves those that hold. *)
addGoal(G) ==
  /\ goals' = goals \cup G
  /\ valid' = valid \cup {g \in G : Proves(prog, g)}

(* addFunction: the function's own theory has a goal only under -G, and    *)
(* then generateWhy3 skips addGoals.                                       *)
addFunction ==
  /\ phase = "theory"
  /\ addGoal(IF combine THEN {Combined} ELSE {})
  /\ phase' = IF combine THEN "ready" ELSE "goals"
  /\ UNCHANGED <<prog, combine, cursor, pc, real, fault>>

(* addGoals: first the ensures clause, ... *)
addEnsuresGoal ==
  /\ phase = "goals" /\ cursor = 0
  /\ addGoal(IF prog.hasEnsures THEN {EnsuresGoal} ELSE {})
  /\ cursor' = 1
  /\ UNCHANGED <<prog, combine, phase, pc, real, fault>>

(* ... then every instruction's assert clause and callee's requires.       *)
FaultyGoalsAtSkipsCallGoal ==
  IF cursor \in prog.asserted THEN {Goal("assert", cursor)} ELSE {}
GoalsAt ==
  (IF cursor \in prog.asserted THEN {Goal("assert", cursor)} ELSE {}) \cup
  (IF cursor \in prog.required THEN {Goal("call", cursor)} ELSE {})

addInstructionGoals ==
  /\ phase = "goals" /\ cursor \in Node
  /\ prog.op[cursor] # "icall"
  /\ addGoal(GoalsAt)
  /\ cursor' = cursor + 1
  /\ UNCHANGED <<prog, combine, phase, pc, real, fault>>

(* At a call through a pointer calledFunc is NULL, and addGoals asks it    *)
(* for its requires clause.                                                *)
crashOnIndirectCall ==
  /\ phase = "goals" /\ cursor \in Node
  /\ prog.op[cursor] = "icall"
  /\ phase' = "crashed"
  /\ UNCHANGED <<prog, combine, cursor, goals, valid, pc, real, fault>>

goalsDone ==
  /\ phase = "goals" /\ cursor = N + 1
  /\ phase' = "ready"
  /\ UNCHANGED <<prog, combine, cursor, goals, valid, pc, real, fault>>
-----------------------------------------------------------------------------
(* Running the function.  The execution writes the value each constant     *)
(* really has into real; the fields it has not reached keep arbitrary      *)
(* values.                                                                 *)

here == real.at[pc]

(* The clauses that are checked before instruction pc takes effect. *)
ClausesHold ==
  /\ here \in prog.assert[pc]
  /\ prog.op[pc] = "call" => here \in prog.req[pc]
  /\ prog.op[pc] = "ret" => <<real.at[1], here>> \in prog.ensures

GoTo(m, v) == /\ real' = [real EXCEPT !.at[m] = v]
              /\ pc' = m

(* A caller enters the function at any values it requires. *)
Enter ==
  /\ phase = "ready"
  /\ \E v \in prog.requires : real' = Unset(prog, v)
  /\ phase' = "run"
  /\ UNCHANGED <<prog, combine, cursor, goals, valid, pc, fault>>

(* A clause fails at run time. *)
Fault ==
  /\ phase = "run"
  /\ here \in prog.assume[pc]
  /\ ~ClausesHold
  /\ fault' = TRUE
  /\ phase' = "ended"
  /\ UNCHANGED <<prog, combine, cursor, goals, valid, pc, real>>

(* The run leaves the part the annotations speak of, or returns. *)
Stop ==
  /\ phase = "run"
  /\ \/ here \notin prog.assume[pc]
     \/ prog.op[pc] \in {"ret", "unreachable"} /\ ClausesHold
  /\ phase' = "ended"
  /\ UNCHANGED <<prog, combine, cursor, goals, valid, pc, real, fault>>

Advance ==
  /\ phase = "run"
  /\ here \in prog.assume[pc]
  /\ ClausesHold
  /\ UNCHANGED <<prog, combine, phase, cursor, goals, valid, fault>>

Assign == /\ Advance
          /\ prog.op[pc] = "assign"
          /\ GoTo(pc + 1, prog.step[pc][here])

(* A callee that keeps its contract. *)
Call == /\ Advance
        /\ prog.op[pc] = "call"
        /\ \E e \in Mem :
             /\ <<here, e>> \in prog.assigns[pc] \cap prog.ens[pc]
             /\ real' = [real EXCEPT !.exit[pc] = e,
                                     !.at[pc + 1] = [mem |-> e, loc |-> here.loc]]
             /\ pc' = pc + 1

(* Whatever is called through the pointer may write anything. *)
IndirectCall == /\ Advance
                /\ prog.op[pc] = "icall"
                /\ \E e \in Mem : GoTo(pc + 1, [mem |-> e, loc |-> here.loc])

Branch == /\ Advance
          /\ prog.op[pc] \in Branching
          /\ LET m == prog.to[pc][here]
             IN GoTo(m, [mem |-> here.mem, loc |-> prog.phi[pc][m][here.loc]])

Generate == \/ addFunction \/ addEnsuresGoal \/ addInstructionGoals
            \/ crashOnIndirectCall \/ goalsDone
Execute == \/ Enter \/ Fault \/ Stop
           \/ Assign \/ Call \/ IndirectCall \/ Branch

Next == Generate \/ Execute

Spec == Init /\ [][Next]_vars
-----------------------------------------------------------------------------
TypeOK ==
  /\ prog \in Programs
  /\ combine \in BOOLEAN
  /\ phase \in {"theory", "goals", "ready", "run", "ended", "crashed"}
  /\ cursor \in 0..(N + 1)
  /\ goals \subseteq [kind : {"combined", "ensures", "assert", "call"}, node : 0..N]
  /\ valid \subseteq goals
  /\ pc \in Node
  /\ real \in Valuation(prog)
  /\ fault \in BOOLEAN

(* No cycle in the control flow: blocks can be laid out so that every      *)
(* branch goes forward (the order of the axioms does not matter).          *)
Forward(p) == \A n \in Node, v \in Val :
  p.op[n] \in Branching => p.to[n][v] > n

(* No destination of an indirectbr starts with a phi node. *)
Tame(p) == \A n \in Node : p.op[n] = "indirectbr" => p.dests[n] \cap p.heads = {}

AllProved == phase \in {"ready", "run", "ended"} /\ valid = goals

(* Soundness: if Why3 proves every goal that WhyR prints for a loop-free   *)
(* function, then whatever values it is entered with that satisfy its      *)
(* requires clause, and whatever its callees do within their contracts,    *)
(* no assert, no callee's requires and no ensures clause ever fails.  The  *)
(* single goal of -G does as much when no callee has a requires clause.    *)
ProvedMeansSafe ==
  /\ Forward(prog) /\ Tame(prog)
  /\ combine => prog.required = {}
  /\ AllProved
  => ~fault
-----------------------------------------------------------------------------
(* All executions of p: the pairs <<pc, values>> reachable in k steps from *)
(* an entry at e, in a function without calls through pointers.            *)
After(p, c) ==
  LET n == c[1]
      v == c[2]
      m == p.to[n][v]
  IN IF v \notin p.assume[n] \cap p.assert[n] \cap p.req[n] THEN {}
     ELSE CASE p.op[n] = "assign" -> {<<n + 1, p.step[n][v]>>}
            [] p.op[n] = "call" ->
                 {<<n + 1, [mem |-> x[2], loc |-> v.loc]>> : x \in
                    {y \in p.assigns[n] \cap p.ens[n] : y[1] = v}}
            [] p.op[n] \in Branching -> {<<m, [mem |-> v.mem, loc |-> p.phi[n][m][v.loc]]>>}
            [] OTHER -> {}

ReachedIn(p, e) ==
  LET reached[k \in 0..N] ==
        IF k = 0 THEN {<<1, e>>}
        ELSE reached[k - 1] \cup UNION {After(p, c) : c \in reached[k - 1]}
  IN reached
Reachable(p, e) == ReachedIn(p, e)[N]

(* The clause of g fails in some execution. *)
CanFail(p, g) ==
  \E e \in p.requires : \E c \in Reachable(p, e) :
    LET n == c[1]
        v == c[2]
        a == v \notin p.assert[n]
        r == v \in p.assert[n] /\ v \notin p.req[n]
        z == v \in p.assert[n] /\ p.op[n] = "ret" /\ <<e, v>> \notin p.ensures
    IN /\ v \in p.assume[n]
       /\ \/ g = Goal("assert", n) /\ a
          \/ g = Goal("call", n) /\ r
          \/ g = EnsuresGoal /\ z
          \/ g = Combined /\ (a \/ r \/ z)

Uses(p, k) == \E n \in Node : p.op[n] = k

(* Precision: in a loop-free function without calls and indirectbr, Why3   *)
(* can refute a goal only if the clause really fails in some execution,    *)
(* so the constants carry everything the chain needs to know.              *)
Precise ==
  Forward(prog) /\ ~Uses(prog, "call") /\ ~Uses(prog, "icall") /\ ~Uses(prog, "indirectbr")
  => \A g \in goals \ valid : CanFail(prog, g)
=============================================================================
