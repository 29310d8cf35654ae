----------------------------- MODULE MCEmission -----------------------------
(* Modules of one to three functions: chains and diamonds of calls in both *)
(* directions, self-recursion, a cycle with a function above it, clauses   *)
(* of every kind and clauses that do not parse.                            *)
EXTENDS Emission

MCLoc == {"a", "b"}
MCAllocatedAfter == {"b"}

Plain == [op |-> "plain", addr |-> "a", callee |-> 0,
          assert |-> "none", assume |-> "none", label |-> "none", risky |-> FALSE]
Store == [Plain EXCEPT !.op = "store"]
Risky(a) == [Plain EXCEPT !.risky = TRUE, !.assert = a]
CallTo(g) == [Plain EXCEPT !.op = "call", !.callee = g]
Through == [Plain EXCEPT !.op = "icall"]

F(r, e, body) == [requires |-> r, ensures |-> e, hasAssigns |-> FALSE,
                  assigns |-> <<>>, body |-> body]
Framed(f, as) == [f EXCEPT !.hasAssigns = TRUE, !.assigns = as]

External(r) == F(r, "good", <<>>)
Calls(S) == CASE S = {} -> <<Plain>>
              [] \E g \in S : S = {g} -> <<CallTo(CHOOSE g \in S : TRUE)>>
              [] OTHER -> <<CallTo(CHOOSE g \in S : \A h \in S : g <= h),
                            CallTo(CHOOSE g \in S : \A h \in S : g >= h)>>

(* Every call graph on three functions in which none calls all three.      *)
Graphs3 ==
  {<<F("good", "none", Calls(s)), F("none", "good", Calls(t)), F("none", "none", Calls(u))>> :
     s, t, u \in {S \in SUBSET (1..3) : Cardinality(S) <= 2}}

(* Clauses: parsed or not, asserted by the user, by addRTE or by assigns.  *)
Clausal ==
  {<<External(r), F("none", e, <<Risky(a), CallTo(1), Risky("none")>>),
     Framed(F("none", "none", <<Store, CallTo(2)>>), as)>> :
     r \in {"none", "good", Bad}, e \in {"none", Bad}, a \in {"none", "good", Bad},
     as \in {<<>>, <<{"a"}>>}}

Indirections == {<<F("none", "none", <<Risky("good"), Through, Plain>>)>>}

AllModules == Graphs3 \cup Clausal \cup Indirections

Recursive == {<<F("none", "good", Calls({1}))>>}
AboveCycle == {<<F("none", "none", Calls({1})), F("none", "none", Calls({1}))>>}
One == {<<F("none", "good", <<Plain>>)>>}
-----------------------------------------------------------------------------
(* A function that the warning says is ignored does not appear.            *)
OmittedAreIgnored ==
  phase = "exit" => \A k \in DOMAIN file : file[k].of \notin Omitted

(* A function the warning calls recursive can reach itself by calls.       *)
Reaches(f) ==
  LET r[k \in 0..Len(mod)] ==
        IF k = 0 THEN Callees(f) ELSE r[k - 1] \cup UNION {Callees(g) : g \in r[k - 1]}
  IN r[Len(mod)]
WarnedAreRecursive == \A f \in Omitted : f \in Reaches(f)

(* Exit code 0 means that a goal proves each thing that has to be proved.  *)
NothingGivenUp ==
  phase = "exit" /\ exitCode = 0 /\ ~noGoals /\ Omitted = {} =>
    \A f \in Func : \A ob \in Obligations(f) : Proved(f, ob)

(* Under -g the file has theories and no goals. *)
GoalsDisabled == noGoals => \A k \in DOMAIN file : file[k].goal = NoGoal
=============================================================================
