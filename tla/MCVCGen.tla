------------------------------ MODULE MCVCGen ------------------------------
(***************************************************************************)
(* Small functions of four instructions over a one-bit memory and a        *)
(* one-bit local, and what one might take for granted of all functions.    *)
(***************************************************************************)
EXTENDS VCGen

MCMem == {0, 1}
MCLoc == {0, 1}
MCN == 4

V(m, l) == [mem |-> m, loc |-> l]
Is(m, l) == {v \in Val : v.mem \in m /\ v.loc \in l}
Any == {0, 1}
MemEqLoc == {v \in Val : v.mem = v.loc}
Id == [v \in Val |-> v]
AllRel == Val \X Mem
Same == [l \in Loc |-> l]
Flip == [l \in Loc |-> 1 - l]

(* Steps: store a constant, store the local, load, and an operation on the *)
(* local.                                                                  *)
Store1 == [v \in Val |-> V(1, v.loc)]
StoreLocal == [v \in Val |-> V(v.loc, v.loc)]
Load == [v \in Val |-> V(v.mem, v.mem)]
Negate == [v \in Val |-> V(v.mem, 1 - v.loc)]

Blank ==
  [ op |-> [n \in Node |-> "unreachable"],
    step |-> [n \in Node |-> Id],
    to |-> [n \in Node |-> [v \in Val |-> n]],
    dests |-> [n \in Node |-> {}],
    heads |-> {},
    phi |-> [n \in Node |-> [m \in Node |-> Same]],
    assume |-> [n \in Node |-> Val],
    asserted |-> {},
    assert |-> [n \in Node |-> Val],
    required |-> {},
    req |-> [n \in Node |-> Val],
    ens |-> [n \in Node |-> AllRel],
    assigns |-> [n \in Node |-> AllRel],
    requires |-> Val,
    hasEnsures |-> FALSE,
    ensures |-> Val \X Val ]

Asserting(p, n, A) == [p EXCEPT !.asserted = @ \cup {n}, !.assert[n] = A]
Ensuring(p, E) == [p EXCEPT !.hasEnsures = TRUE, !.ensures = E]
CondTo(C, a, b) == [v \in Val |-> IF v \in C THEN a ELSE b]
KeepsMem == {e \in Val \X Val : e[1].mem = e[2].mem}

(* Two assigns and a return, with an assert before either of the last two. *)
Lines ==
  { LET p == [Blank EXCEPT !.op = <<"assign", "assign", "ret", "unreachable">>,
                           !.step[1] = s1, !.step[2] = s2, !.requires = r]
    IN Ensuring(Asserting(Asserting(p, 2, a2), 3, MemEqLoc), KeepsMem) :
      s1 \in {Store1, StoreLocal}, s2 \in {Negate, Load},
      a2 \in {MemEqLoc, Is({1}, Any)}, r \in {Val, Is({0}, {0})} }

(* A diamond whose join merges the local with a phi. *)
Diamonds ==
  { Asserting(
      [Blank EXCEPT !.op = <<"br", "br", "br", "ret">>,
                    !.to[1] = CondTo(c, 2, 3), !.dests[1] = {2, 3},
                    !.to[2] = CondTo(Val, 4, 4), !.dests[2] = {4},
                    !.to[3] = CondTo(Val, 4, 4), !.dests[3] = {4},
                    !.heads = {4}, !.phi[2][4] = Flip, !.assume[3] = as],
      4, a) :
      c \in {Is(Any, {0}), Is({0}, Any)}, as \in {Val, Is(Any, {1})},
      a \in {Is(Any, {1}), MemEqLoc} }

(* Calls with a contract, before and after an assert. *)
CallLines ==
  { Asserting(
      [Blank EXCEPT !.op = <<"assign", "call", "ret", "unreachable">>,
                    !.step[1] = s,
                    !.required = rq, !.req[2] = IF rq = {} THEN Val ELSE Is({1}, Any),
                    !.ens[2] = {e \in AllRel : e[2] = 1},
                    !.assigns[2] = asg, !.requires = r],
      3, a) :
      s \in {Store1, StoreLocal, Load}, rq \in {{}, {2}},
      asg \in {AllRel, {e \in AllRel : e[1].mem = e[2]}},
      a \in {Is({1}, Any), Is(Any, {0})}, r \in {Val, Is(Any, {0})} }

(* A jump through a block address, to destinations without a phi. *)
IndirectBrs ==
  { Asserting(
      [Blank EXCEPT !.op = <<"assign", "indirectbr", "ret", "ret">>,
                    !.step[1] = s, !.to[2] = CondTo(Is(Any, {0}), 3, 4),
                    !.dests[2] = {3, 4}],
      3, a) :
      s \in {Load, Negate}, a \in {Is(Any, {0}), Is({1}, Any)} }

(* A call through a pointer. *)
IndirectCalls ==
  { Asserting([Blank EXCEPT !.op = <<"icall", "assign", "ret", "unreachable">>,
                            !.step[2] = Store1, !.requires = Is({1}, Any)], n, Is({1}, Any)) :
      n \in {2, 3} }

LoopFree == Lines \cup Diamonds \cup CallLines \cup IndirectBrs \cup IndirectCalls

(* A loop like test/data/ir_files/loop.ll: the local is 0 on the first     *)
(* iteration, the body negates it, and the assert in the body says 0.      *)
Loops ==
  { Asserting(
      [Blank EXCEPT !.op = <<"br", "assign", "br", "ret">>,
                    !.to[1] = CondTo(Val, 2, 2), !.dests[1] = {2},
                    !.step[2] = Negate,
                    !.to[3] = CondTo(Is({0}, Any), 2, 4), !.dests[3] = {2, 4},
                    !.heads = {2}, !.phi[1][2] = [l \in Loc |-> 0],
                    !.phi[3][2] = Same],
      2, Is(Any, {0})) }

(* An indirectbr whose destinations have phi nodes, one of which can also  *)
(* be reached through the other.                                           *)
Wild ==
  { Asserting(
      [Blank EXCEPT !.op = <<"indirectbr", "br", "ret", "unreachable">>,
                    !.to[1] = CondTo(Is({0}, Any), 2, 3), !.dests[1] = {2, 3},
                    !.to[2] = CondTo(Val, 3, 3), !.dests[2] = {3},
                    !.heads = {3}, !.phi[1][3] = [l \in Loc |-> 0],
                    !.phi[2][3] = [l \in Loc |-> 1]],
      3, Is(Any, {0})) }

(* An assert that always fails, in a function anyone may call. *)
Failing == { Asserting([Blank EXCEPT !.op[1] = "ret"], 1, {}) }
-----------------------------------------------------------------------------
(* Precise with calls: what a callee's assigns and ensures clauses say of  *)
(* the state it leaves is known after the call.                            *)
PreciseAfterCalls ==
  Forward(prog) /\ ~Uses(prog, "icall") /\ ~Uses(prog, "indirectbr")
  => \A g \in goals \ valid : CanFail(prog, g)

(* With loops: what is proved holds for all inputs. *)
ProvedHoldsForAllInputs == ~combine /\ AllProved => ~fault

(* The one goal of -G stands for all the goals of the function. *)
CombinesAllGoals ==
  combine /\ AllProved =>
    \A g \in {EnsuresGoal} \cup {Goal("assert", n) : n \in prog.asserted}
                           \cup {Goal("call", n) : n \in prog.required} :
      Proves(prog, g)

(* An indirect call is ignored, with a warning. *)
IndirectCallIgnored == phase # "crashed"

(* A vacuous goal passes only where the hypotheses are contradictory, and  *)
(* from a contradiction the goal itself follows.                           *)
VacuousMeansContradiction == \A g \in goals : ProvesVacuous(prog, g) => g \in valid
=============================================================================
