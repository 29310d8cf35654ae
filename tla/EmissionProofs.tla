--------------------------- MODULE EmissionProofs ---------------------------
(***************************************************************************)
(* From the clauses of a module of any size to its Why3 file and exit      *)
(* code, for every setting and every order the worklist may return.        *)
(*                                                                         *)
(* The first part is about annotate and addRTE alone: its theorems are of  *)
(* the specification Spec of Annotate.  Their inductive invariant is IInv: *)
(* what the variables hold at any moment is exactly what the functions and *)
(* instructions passed so far call for.  FunctionRead, InstructionRead,    *)
(* AssignsAdded and RteAdded say which those are, from the stage and the   *)
(* two positions.  The errors are the cardinality of the set of nodes      *)
(* passed that do not parse, so its finiteness is part of the invariant.   *)
(*                                                                         *)
(* The second part goes on to the file and the exit code.  The inductive   *)
(* invariant is EmissionInv: IInv, and then what the file holds at each    *)
(* moment.  Its first Len(order) theories are those of the functions of    *)
(* the order (TheoriesFirst), all later ones are goals (LaterAreGoals),    *)
(* each proves what its goal does (TheoriesExact), and the goals are those *)
(* of everything addGoals has been past (GoalsAdded).                      *)
(***************************************************************************)
EXTENDS Emission, FiniteSetTheorems, TLAPS

Last == {"rte", "annotated"}
FunctionRead(f) == stage \in Last \/ f < func \/ (f = func /\ stage # "function")
InstructionRead(f, i) ==
  \/ stage \in Last \/ f < func
  \/ f = func /\ (stage \in {"assigns", "list"} \/ (stage = "instructions" /\ i < inst))
AssignsAdded(f, i) ==
  /\ mod[f].hasAssigns
  /\ \/ stage \in Last \/ f < func
     \/ f = func /\ (stage = "list" \/ (stage = "assigns" /\ i < inst))
RteAdded(f) == rte /\ (stage = "annotated" \/ (stage = "rte" /\ f < func))

ListedExact == listed = IF stage \in Last THEN Len(mod) ELSE func - 1

FunctionsExact ==
  \A f \in DOMAIN mod :
    /\ f \in requires <=> FunctionRead(f) /\ mod[f].requires = "good"
    /\ f \in ensures <=> FunctionRead(f) /\ mod[f].ensures = "good"
    /\ assigns[f] = IF FunctionRead(f) THEN Good(mod[f].assigns) ELSE <<>>

InstructionsExact ==
  \A f \in DOMAIN mod : \A i \in DOMAIN Body(f) :
    /\ Conjunct("user") \in asserts[f][i]
         <=> InstructionRead(f, i) /\ Body(f)[i].assert = "good"
    /\ <<f, i>> \in assumes <=> InstructionRead(f, i) /\ Body(f)[i].assume = "good"
    /\ <<f, i>> \in labels <=> InstructionRead(f, i) /\ Body(f)[i].label = "good"

StoreConjunct(f) == [kind |-> "store", own |-> UnionOf(assigns[f]), other |-> {}]

ChecksAdded ==
  \A f \in DOMAIN mod : \A i \in DOMAIN Body(f) :
    /\ AssignsAdded(f, i) /\ Body(f)[i].op = "store" =>
         Conjunct("null") \in asserts[f][i] \/ StoreConjunct(f) \in asserts[f][i]
    /\ AssignsAdded(f, i) /\ Body(f)[i].op = "call" =>
         LET c == Body(f)[i].callee
         IN c < f /\ ~mod[c].hasAssigns => Conjunct("false") \in asserts[f][i]
    /\ RteAdded(f) /\ Body(f)[i].risky => Conjunct("rte") \in asserts[f][i]

ReadBad == {n \in BadNodes : FunctionRead(n[1])}
ReadBadInstructions == {n \in BadInstructionNodes : InstructionRead(n[1][1], n[1][2])}

ErrorsCounted ==
  /\ IsFiniteSet(ReadBad) /\ IsFiniteSet(ReadBadInstructions)
  /\ errors = Cardinality(ReadBad) + Cardinality(ReadBadInstructions)

IInv == /\ TypeOK
        /\ ListedExact
        /\ FunctionsExact
        /\ InstructionsExact
        /\ ChecksAdded
        /\ ErrorsCounted
-----------------------------------------------------------------------------
(* What the functions of a module are. *)
LEMMA ModTypes ==
  ASSUME mod \in Modules
  PROVE  /\ Len(mod) \in Nat /\ DOMAIN mod = 1..Len(mod) /\ 1 \in DOMAIN mod
         /\ \A f \in DOMAIN mod :
              /\ mod[f] \in FunctionType
              /\ Len(Body(f)) \in Nat /\ DOMAIN Body(f) = 1..Len(Body(f))
              /\ \A i \in DOMAIN Body(f) : Body(f)[i] \in InstructionType
<1>1. mod \in Seq(FunctionType) /\ mod # <<>>
  BY ModulesAssumption
<1>2. Len(mod) \in Nat /\ DOMAIN mod = 1..Len(mod) /\ 1 \in DOMAIN mod
  BY <1>1
<1>3. ASSUME NEW f \in DOMAIN mod
      PROVE  /\ mod[f] \in FunctionType
             /\ Len(Body(f)) \in Nat /\ DOMAIN Body(f) = 1..Len(Body(f))
             /\ \A i \in DOMAIN Body(f) : Body(f)[i] \in InstructionType
  <2>1. mod[f] \in FunctionType
    BY <1>1
  <2>2. Body(f) \in Seq(InstructionType)
    BY <2>1 DEF Body, FunctionType
  <2>. QED  BY <2>1, <2>2
<1>. QED  BY <1>2, <1>3

(* A nonempty set of naturals has a least element. *)
LEMMA LeastNat ==
  ASSUME NEW S, S \subseteq Nat, S # {}
  PROVE  \E k \in S : \A j \in S : ~(j < k)
<1>. DEFINE R == {ss \in Nat \X Nat : ss[1] < ss[2]}
<1>1. IsWellFoundedOn(R, Nat)
  BY NatLessThanWellFounded DEF OpToRel
<1>2. \A j, k \in S : j < k => <<j, k>> \in R
  OBVIOUS
<1>. HIDE DEF R
<1>3. PICK k \in S : \A j \in S : ~(<<j, k>> \in R)
  BY <1>1, WFMin
<1>. QED  BY <1>2, <1>3

(* Good keeps the sets before the first one that does not parse, and all   *)
(* of them when they all do.                                               *)
LEMMA GoodPrefix ==
  ASSUME NEW s \in Seq((SUBSET Loc) \cup {BadSet})
  PROVE  /\ Good(s) \in Seq(SUBSET Loc)
         /\ Good(s) = s <=> ~(\E k \in DOMAIN s : s[k] = BadSet)
<1>1. BadSet \notin SUBSET Loc
  BY ModulesAssumption DEF BadSet
<1>2. CASE ~(\E k \in DOMAIN s : s[k] = BadSet)
  <2>1. Good(s) = s
    BY <1>2 DEF Good
  <2>2. \A k \in DOMAIN s : s[k] \in SUBSET Loc
    BY <1>2
  <2>. QED  BY <1>2, <2>1, <2>2
<1>3. CASE \E k \in DOMAIN s : s[k] = BadSet
  <2>. DEFINE First(k) == s[k] = BadSet /\ \A j \in 1..(k - 1) : s[j] # BadSet
              m == CHOOSE k \in DOMAIN s : First(k)
  <2>1. \E k \in DOMAIN s : First(k)
    <3>1. {k \in DOMAIN s : s[k] = BadSet} \subseteq Nat
      OBVIOUS
    <3>2. PICK k \in {k \in DOMAIN s : s[k] = BadSet} :
                 \A j \in {h \in DOMAIN s : s[h] = BadSet} : ~(j < k)
      BY <1>3, <3>1, LeastNat
    <3>3. \A j \in 1..(k - 1) : j \in DOMAIN s /\ j < k
      BY <3>2
    <3>. QED  BY <3>2, <3>3
  <2>2. m \in DOMAIN s /\ First(m)
    BY <2>1
  <2>3. Good(s) = SubSeq(s, 1, m - 1)
    BY <1>3 DEF Good
  <2>. HIDE DEF m
  <2>4. Len(s) \in Nat /\ m \in 1..Len(s) /\ DOMAIN s = 1..Len(s)
    BY <2>2
  <2>5. /\ Len(SubSeq(s, 1, m - 1)) = m - 1
        /\ \A j \in 1..(m - 1) : SubSeq(s, 1, m - 1)[j] = s[j]
    BY <2>4
  <2>6. \A j \in 1..(m - 1) : s[j] \in SUBSET Loc
    BY <2>2, <2>4
  <2>7. SubSeq(s, 1, m - 1) \in Seq(SUBSET Loc)
    <3>1. SubSeq(s, 1, m - 1) = [j \in 1..(m - 1) |-> s[j]]
      BY <2>4
    <3>. QED  BY <2>4, <2>6, <3>1
  <2>8. Good(s) # s
    BY <2>3, <2>4, <2>5
  <2>. QED  BY <1>3, <2>3, <2>7, <2>8
<1>. QED  BY <1>2, <1>3
-----------------------------------------------------------------------------
LEMMA TypeInit == Init => TypeOK
<1>. SUFFICES ASSUME Init
              PROVE  TypeOK
  OBVIOUS
<1>. USE DEF Init
<1>1. mod \in Modules
  OBVIOUS
<1>2. \A f \in DOMAIN mod : asserts[f] \in [DOMAIN Body(f) -> SUBSET ConjunctType]
  BY DEF Body
<1>3. assigns \in [DOMAIN mod -> Seq(SUBSET Loc)]
  <2>1. <<>> \in Seq(SUBSET Loc)
    OBVIOUS
  <2>. QED  BY <2>1
<1>. QED  BY <1>1, <1>2, <1>3, ModTypes DEF TypeOK

(* The assert clauses after new conjuncts for the instruction at hand.     *)
LEMMA AddConjuncts ==
  ASSUME TypeOK, inst \in DOMAIN Body(func), NEW new \in SUBSET ConjunctType,
         \/ asserts' = [asserts EXCEPT ![func][inst] = @ \cup new]
         \/ asserts' = asserts /\ new = {}
  PROVE  /\ DOMAIN asserts' = DOMAIN mod
         /\ \A f \in DOMAIN mod :
              /\ asserts'[f] \in [DOMAIN Body(f) -> SUBSET ConjunctType]
              /\ \A i \in DOMAIN Body(f) :
                   asserts'[f][i] = IF f = func /\ i = inst THEN asserts[f][i] \cup new
                                    ELSE asserts[f][i]
<1>1. /\ func \in DOMAIN mod /\ DOMAIN asserts = DOMAIN mod
      /\ \A f \in DOMAIN mod : asserts[f] \in [DOMAIN Body(f) -> SUBSET ConjunctType]
  BY DEF TypeOK
<1>2. CASE asserts' = asserts /\ new = {}
  BY <1>1, <1>2
<1>3. CASE asserts' = [asserts EXCEPT ![func][inst] = @ \cup new]
  <2>. DEFINE g == [asserts[func] EXCEPT ![inst] = @ \cup new]
  <2>1. asserts' = [asserts EXCEPT ![func] = g]
    BY <1>3
  <2>2. /\ g \in [DOMAIN Body(func) -> SUBSET ConjunctType]
        /\ \A i \in DOMAIN Body(func) :
             g[i] = IF i = inst THEN asserts[func][i] \cup new ELSE asserts[func][i]
    BY <1>1
  <2>. HIDE DEF g
  <2>3. /\ DOMAIN asserts' = DOMAIN mod
        /\ \A f \in DOMAIN mod : asserts'[f] = IF f = func THEN g ELSE asserts[f]
    BY <1>1, <2>1
  <2>. QED  BY <1>1, <2>2, <2>3
<1>. QED  BY <1>2, <1>3

(* ... and after addRTE has gone over a function.                          *)
LEMMA AddRte ==
  ASSUME TypeOK, addRTE
  PROVE  /\ DOMAIN asserts' = DOMAIN mod
         /\ \A f \in DOMAIN mod :
              /\ asserts'[f] \in [DOMAIN Body(f) -> SUBSET ConjunctType]
              /\ \A i \in DOMAIN Body(f) :
                   asserts'[f][i] = IF f = func /\ Body(f)[i].risky
                                    THEN asserts[f][i] \cup {Conjunct("rte")}
                                    ELSE asserts[f][i]
<1>1. /\ func \in DOMAIN mod /\ DOMAIN asserts = DOMAIN mod
      /\ \A f \in DOMAIN mod : asserts[f] \in [DOMAIN Body(f) -> SUBSET ConjunctType]
  BY DEF TypeOK
<1>. DEFINE g == [i \in DOMAIN Body(func) |->
                    IF Body(func)[i].risky THEN asserts[func][i] \cup {Conjunct("rte")}
                    ELSE asserts[func][i]]
<1>2. asserts' = [asserts EXCEPT ![func] = g]
  BY DEF addRTE
<1>3. Conjunct("rte") \in ConjunctType
  BY DEF Conjunct, ConjunctType
<1>4. g \in [DOMAIN Body(func) -> SUBSET ConjunctType]
  BY <1>1, <1>3
<1>5. \A f \in DOMAIN mod : asserts'[f] = IF f = func THEN g ELSE asserts[f]
  BY <1>1, <1>2
<1>. QED  BY <1>1, <1>2, <1>4, <1>5

(* Conjuncts that annotate and addRTE make up. *)
LEMMA ConjunctTypes ==
  ASSUME TypeOK
  PROVE  /\ \A k \in {"user", "null", "false", "rte"} : Conjunct(k) \in ConjunctType
         /\ \A f \in DOMAIN mod : UnionOf(assigns[f]) \subseteq Loc
<1>1. \A f \in DOMAIN mod : assigns[f] \in Seq(SUBSET Loc)
  BY DEF TypeOK
<1>. QED  BY <1>1 DEF Conjunct, ConjunctType, UnionOf

LEMMA CheckTypes ==
  ASSUME TypeOK, inst \in DOMAIN Body(func)
  PROVE  /\ StoreCheck \subseteq ConjunctType
         /\ Body(func)[inst].op = "call" => CallCheck \subseteq ConjunctType
<1>0. func \in DOMAIN mod
  BY DEF TypeOK
<1>1. StoreCheck \subseteq ConjunctType
  BY <1>0, ConjunctTypes DEF StoreCheck, ConjunctType
<1>2. ASSUME Body(func)[inst].op = "call"
      PROVE  CallCheck \subseteq ConjunctType
  <2>. DEFINE c == Body(func)[inst].callee
  <2>1. mod \in Modules
    BY DEF TypeOK
  <2>2. c \in DOMAIN mod
    BY <1>0, <1>2, <2>1, ModulesAssumption DEF Body
  <2>3. CoverCheck(c) \subseteq ConjunctType
    <3>1. [kind |-> "cover", own |-> UnionOf(assigns[func]),
           other |-> UnionOf(assigns[c])] \in ConjunctType
      BY <1>0, <2>2, ConjunctTypes DEF ConjunctType
    <3>. QED  BY <1>0, <3>1, ConjunctTypes DEF CoverCheck
  <2>. QED  BY <2>3, ConjunctTypes DEF CallCheck
<1>. QED  BY <1>1, <1>2

LEMMA TypeStep == TypeOK /\ [Next]_annotateVars => TypeOK'
<1>. SUFFICES ASSUME TypeOK, [Next]_annotateVars
              PROVE  TypeOK'
  OBVIOUS
<1>0. /\ mod \in Modules /\ func \in DOMAIN mod /\ func \in Nat
      /\ Len(mod) \in Nat /\ DOMAIN mod = 1..Len(mod)
      /\ mod[func] \in FunctionType
      /\ Len(Body(func)) \in Nat /\ DOMAIN Body(func) = 1..Len(Body(func))
  BY ModTypes DEF TypeOK
<1>1. CASE AnnotateFunction
  <2>1. Good(mod[func].assigns) \in Seq(SUBSET Loc)
    BY <1>0, GoodPrefix DEF FunctionType
  <2>2. assigns' \in [DOMAIN mod -> Seq(SUBSET Loc)]
    BY <1>1, <2>1 DEF AnnotateFunction, TypeOK
  <2>3. errors' \in Nat
    BY <1>1 DEF AnnotateFunction, TypeOK, Errs
  <2>4. inst' \in 1..(Len(Body(func)) + 1)
    BY <1>0, <1>1 DEF AnnotateFunction
  <2>5. requires' \subseteq DOMAIN mod /\ ensures' \subseteq DOMAIN mod
    BY <1>0, <1>1 DEF AnnotateFunction, TypeOK
  <2>. QED  BY <1>1, <2>2, <2>3, <2>4, <2>5 DEF AnnotateFunction, TypeOK, Body, Instructions
<1>2. CASE AnnotateInstruction
  <2>. DEFINE new == IF Body(func)[inst].assert = "good" THEN {Conjunct("user")} ELSE {}
  <2>1. inst \in DOMAIN Body(func) /\ new \subseteq ConjunctType
    BY <1>2, ConjunctTypes DEF AnnotateInstruction
  <2>2. \/ asserts' = [asserts EXCEPT ![func][inst] = @ \cup new]
        \/ asserts' = asserts /\ new = {}
    BY <1>2 DEF AnnotateInstruction
  <2>. HIDE DEF new
  <2>3. /\ DOMAIN asserts' = DOMAIN mod
        /\ \A f \in DOMAIN mod : asserts'[f] \in [DOMAIN Body(f) -> SUBSET ConjunctType]
    BY <2>1, <2>2, AddConjuncts
  <2>4. errors' \in Nat
    BY <1>2 DEF AnnotateInstruction, TypeOK, Errs
  <2>5. <<func, inst>> \in Instructions
    BY <1>0, <2>1 DEF Instructions
  <2>6. assumes' \subseteq Instructions /\ labels' \subseteq Instructions
    BY <1>2, <2>5 DEF AnnotateInstruction, TypeOK
  <2>7. inst' \in 1..(Len(Body(func)) + 1)
    BY <1>0, <1>2, <2>1 DEF AnnotateInstruction
  <2>. QED  BY <1>2, <2>3, <2>4, <2>6, <2>7 DEF AnnotateInstruction, TypeOK, Body, Instructions
<1>3. CASE InstructionsDone
  <2>1. inst' \in 1..(Len(Body(func)) + 1)
    BY <1>0, <1>3 DEF InstructionsDone
  <2>. QED  BY <1>3, <2>1 DEF InstructionsDone, TypeOK, Body, Instructions, clauses
<1>4. CASE addAssignsAssertion
  <2>1. PICK new \in SUBSET ConjunctType :
               asserts' = [asserts EXCEPT ![func][inst] = @ \cup new]
    <3>1. inst \in DOMAIN Body(func)
      BY <1>4 DEF addAssignsAssertion
    <3>2. CASE Body(func)[inst].op = "store"
      BY <1>4, <3>1, <3>2, CheckTypes DEF addAssignsAssertion
    <3>3. CASE Body(func)[inst].op = "call"
      BY <1>4, <3>1, <3>3, CheckTypes DEF addAssignsAssertion
    <3>4. CASE Body(func)[inst].op \notin {"store", "call"}
      BY <1>4, <3>4 DEF addAssignsAssertion
    <3>. QED  BY <3>2, <3>3, <3>4
  <2>2. /\ DOMAIN asserts' = DOMAIN mod
        /\ \A f \in DOMAIN mod : asserts'[f] \in [DOMAIN Body(f) -> SUBSET ConjunctType]
    BY <1>4, <2>1, AddConjuncts DEF addAssignsAssertion
  <2>3. inst' \in 1..(Len(Body(func)) + 1)
    BY <1>0, <1>4 DEF addAssignsAssertion
  <2>. QED  BY <1>4, <2>2, <2>3 DEF addAssignsAssertion, TypeOK, Body, Instructions
<1>5. CASE AssignsDone
  BY <1>5 DEF AssignsDone, TypeOK, Body, Instructions, clauses
<1>6. CASE ListFunction
  <2>1. func' \in DOMAIN mod /\ listed' \in 0..Len(mod)
    BY <1>0, <1>6 DEF ListFunction
  <2>. QED  BY <1>6, <2>1 DEF ListFunction, TypeOK, Body, Instructions, clauses
<1>7. CASE addRTE
  <2>1. func' \in DOMAIN mod
    BY <1>0, <1>7 DEF addRTE
  <2>. QED  BY <1>7, <2>1, AddRte DEF addRTE, TypeOK, Body, Instructions
<1>8. CASE UNCHANGED annotateVars
  BY <1>8 DEF annotateVars, clauses, TypeOK, Body, Instructions
<1>. QED  BY <1>1, <1>2, <1>3, <1>4, <1>5, <1>6, <1>7, <1>8 DEF Next

(* annotate and addRTE keep to their types: in particular, the sets kept   *)
(* of an assigns clause are always sets of locations.                      *)
THEOREM TypeCorrect == Spec => []TypeOK
BY TypeInit, TypeStep, PTL DEF Spec
-----------------------------------------------------------------------------
(* How far each action brings the four predicates.                         *)
LEMMA FunctionPassed ==
  ASSUME TypeOK, AnnotateFunction
  PROVE  /\ ~FunctionRead(func)
         /\ \A f \in DOMAIN mod :
              /\ FunctionRead(f)' <=> FunctionRead(f) \/ f = func
              /\ RteAdded(f)' <=> RteAdded(f)
              /\ \A i \in DOMAIN Body(f) :
                   /\ InstructionRead(f, i)' <=> InstructionRead(f, i)
                   /\ AssignsAdded(f, i)' <=> AssignsAdded(f, i)
<1>1. DOMAIN mod = 1..Len(mod) /\ func \in DOMAIN mod /\ Len(mod) \in Nat
  BY ModTypes DEF TypeOK
<1>2. \A f \in DOMAIN mod : DOMAIN Body(f) = 1..Len(Body(f)) /\ Len(Body(f)) \in Nat
  BY ModTypes DEF TypeOK
<1>. QED  BY <1>1, <1>2 DEF AnnotateFunction, FunctionRead, RteAdded, InstructionRead,
                 AssignsAdded, Last

LEMMA InstructionPassed ==
  ASSUME TypeOK, AnnotateInstruction
  PROVE  /\ ~InstructionRead(func, inst)
         /\ \A f \in DOMAIN mod :
              /\ FunctionRead(f)' <=> FunctionRead(f)
              /\ RteAdded(f)' <=> RteAdded(f)
              /\ \A i \in DOMAIN Body(f) :
                   /\ InstructionRead(f, i)' <=> InstructionRead(f, i) \/ (f = func /\ i = inst)
                   /\ AssignsAdded(f, i)' <=> AssignsAdded(f, i)
<1>1. /\ DOMAIN mod = 1..Len(mod) /\ func \in DOMAIN mod /\ Len(mod) \in Nat
      /\ \A f \in DOMAIN mod : DOMAIN Body(f) = 1..Len(Body(f)) /\ Len(Body(f)) \in Nat
  BY ModTypes DEF TypeOK
<1>. QED  BY <1>1 DEF AnnotateInstruction, FunctionRead, RteAdded, InstructionRead,
                 AssignsAdded, Last

LEMMA AssertionPassed ==
  ASSUME TypeOK, addAssignsAssertion
  PROVE  \A f \in DOMAIN mod :
           /\ FunctionRead(f)' <=> FunctionRead(f)
           /\ RteAdded(f)' <=> RteAdded(f)
           /\ \A i \in DOMAIN Body(f) :
                /\ InstructionRead(f, i)' <=> InstructionRead(f, i)
                /\ AssignsAdded(f, i)' => AssignsAdded(f, i) \/ (f = func /\ i = inst)
<1>1. /\ DOMAIN mod = 1..Len(mod) /\ func \in DOMAIN mod /\ Len(mod) \in Nat
      /\ \A f \in DOMAIN mod : DOMAIN Body(f) = 1..Len(Body(f)) /\ Len(Body(f)) \in Nat
  BY ModTypes DEF TypeOK
<1>. QED  BY <1>1 DEF addAssignsAssertion, FunctionRead, RteAdded, InstructionRead,
                 AssignsAdded, Last

LEMMA RtePassed ==
  ASSUME TypeOK, addRTE
  PROVE  \A f \in DOMAIN mod :
           /\ FunctionRead(f)' <=> FunctionRead(f)
           /\ RteAdded(f)' => RteAdded(f) \/ f = func
           /\ \A i \in DOMAIN Body(f) :
                /\ InstructionRead(f, i)' <=> InstructionRead(f, i)
                /\ AssignsAdded(f, i)' <=> AssignsAdded(f, i)
<1>1. /\ DOMAIN mod = 1..Len(mod) /\ func \in DOMAIN mod /\ Len(mod) \in Nat
  BY ModTypes DEF TypeOK
<1>. QED  BY <1>1 DEF addRTE, FunctionRead, RteAdded, InstructionRead, AssignsAdded, Last

LEMMA NothingPassed ==
  ASSUME TypeOK, InstructionsDone \/ AssignsDone \/ ListFunction \/ UNCHANGED annotateVars
  PROVE  \A f \in DOMAIN mod :
           /\ FunctionRead(f)' <=> FunctionRead(f)
           /\ RteAdded(f)' <=> RteAdded(f)
           /\ \A i \in DOMAIN Body(f) :
                /\ InstructionRead(f, i)' <=> InstructionRead(f, i)
                /\ AssignsAdded(f, i)' <=> AssignsAdded(f, i)
<1>1. /\ DOMAIN mod = 1..Len(mod) /\ func \in DOMAIN mod /\ Len(mod) \in Nat
      /\ \A f \in DOMAIN mod : DOMAIN Body(f) = 1..Len(Body(f)) /\ Len(Body(f)) \in Nat
  BY ModTypes DEF TypeOK
<1>. USE DEF FunctionRead, RteAdded, InstructionRead, AssignsAdded, Last
<1>2. CASE InstructionsDone
  BY <1>1, <1>2 DEF InstructionsDone
<1>3. CASE AssignsDone
  BY <1>1, <1>3 DEF AssignsDone
<1>4. CASE ListFunction
  BY <1>1, <1>4 DEF ListFunction
<1>5. CASE UNCHANGED annotateVars
  BY <1>1, <1>5 DEF annotateVars
<1>. QED  BY <1>2, <1>3, <1>4, <1>5
-----------------------------------------------------------------------------
(* One more element, if it is wanted. *)
AddIf(S, x, wanted) == IF wanted THEN S \cup {x} ELSE S

LEMMA AddIfCardinality ==
  ASSUME NEW S, NEW x, NEW wanted \in BOOLEAN, IsFiniteSet(S), x \notin S
  PROVE  /\ IsFiniteSet(AddIf(S, x, wanted))
         /\ Cardinality(S) \in Nat
         /\ Cardinality(AddIf(S, x, wanted)) = Cardinality(S) + IF wanted THEN 1 ELSE 0
<1>1. Cardinality(S) \in Nat
  BY FS_CardinalityType
<1>2. IsFiniteSet(S \cup {x}) /\ Cardinality(S \cup {x}) = Cardinality(S) + 1
  BY FS_AddElement
<1>. QED  BY <1>1, <1>2 DEF AddIf

LEMMA InvInit == Init => IInv
<1>. SUFFICES ASSUME Init
              PROVE  IInv
  OBVIOUS
<1>1. TypeOK
  BY TypeInit
<1>2. /\ DOMAIN mod = 1..Len(mod) /\ Len(mod) \in Nat
      /\ \A f \in DOMAIN mod : DOMAIN Body(f) = 1..Len(Body(f)) /\ Len(Body(f)) \in Nat
  BY <1>1, ModTypes DEF TypeOK
<1>3. \A f \in DOMAIN mod :
        /\ ~FunctionRead(f) /\ ~RteAdded(f)
        /\ \A i \in DOMAIN Body(f) : ~InstructionRead(f, i) /\ ~AssignsAdded(f, i)
  BY <1>2 DEF Init, FunctionRead, RteAdded, InstructionRead, AssignsAdded, Last
<1>4. ListedExact
  BY DEF Init, ListedExact, Last
<1>5. FunctionsExact
  BY <1>3 DEF Init, FunctionsExact
<1>6. \A f \in DOMAIN mod : \A i \in DOMAIN Body(f) : asserts[f][i] = {}
  BY DEF Init, Body
<1>7. InstructionsExact /\ ChecksAdded
  BY <1>3, <1>6 DEF Init, InstructionsExact, ChecksAdded
<1>8. ReadBad = {} /\ ReadBadInstructions = {}
  <2>1. ReadBad = {}
    BY <1>3 DEF ReadBad, BadNodes
  <2>2. \A n \in BadInstructionNodes :
          n[1][1] \in DOMAIN mod /\ n[1][2] \in DOMAIN Body(n[1][1])
    BY DEF BadInstructionNodes, Instructions
  <2>. QED  BY <1>3, <2>1, <2>2 DEF ReadBadInstructions
<1>9. ErrorsCounted
  BY <1>8, FS_EmptySet DEF Init, ErrorsCounted
<1>. QED  BY <1>1, <1>4, <1>5, <1>7, <1>9 DEF IInv

(* The bad nodes passed stay as they are where nothing is read. *)
LEMMA ErrorsKept ==
  ASSUME TypeOK, ErrorsCounted, mod' = mod, errors' = errors,
         \A f \in DOMAIN mod :
           /\ FunctionRead(f)' <=> FunctionRead(f)
           /\ \A i \in DOMAIN Body(f) : InstructionRead(f, i)' <=> InstructionRead(f, i)
  PROVE  ErrorsCounted'
<1>1. BadNodes' = BadNodes /\ BadInstructionNodes' = BadInstructionNodes
  BY DEF BadNodes, BadInstructionNodes, Instructions, Body
<1>2. \A n \in BadNodes : n[1] \in DOMAIN mod
  BY DEF BadNodes
<1>3. \A n \in BadInstructionNodes :
        n[1][1] \in DOMAIN mod /\ n[1][2] \in DOMAIN Body(n[1][1])
  BY DEF BadInstructionNodes, Instructions
<1>4. ReadBad' = ReadBad
  BY <1>1, <1>2 DEF ReadBad
<1>5. ReadBadInstructions' = ReadBadInstructions
  BY <1>1, <1>3 DEF ReadBadInstructions
<1>. QED  BY <1>4, <1>5 DEF ErrorsCounted

(* A check once added stays where assert clauses only grow and no new one  *)
(* is due.                                                                 *)
LEMMA ChecksKept ==
  ASSUME TypeOK, ChecksAdded, mod' = mod,
         \A f \in DOMAIN mod :
           /\ StoreConjunct(f)' = StoreConjunct(f)
           /\ RteAdded(f)' => RteAdded(f)
           /\ \A i \in DOMAIN Body(f) :
                /\ AssignsAdded(f, i)' => AssignsAdded(f, i)
                /\ asserts[f][i] \subseteq asserts'[f][i]
  PROVE  ChecksAdded'
<1>1. \A f \in DOMAIN mod : Body(f)' = Body(f)
  BY DEF Body
<1>2. ASSUME NEW f \in DOMAIN mod, NEW i \in DOMAIN Body(f)
      PROVE  /\ AssignsAdded(f, i)' /\ Body(f)[i].op = "store" =>
                  Conjunct("null") \in asserts'[f][i] \/ StoreConjunct(f)' \in asserts'[f][i]
             /\ AssignsAdded(f, i)' /\ Body(f)[i].op = "call" =>
                  LET c == Body(f)[i].callee
                  IN c < f /\ ~mod[c].hasAssigns => Conjunct("false") \in asserts'[f][i]
             /\ RteAdded(f)' /\ Body(f)[i].risky => Conjunct("rte") \in asserts'[f][i]
  BY DEF ChecksAdded
<1>. QED  BY <1>1, <1>2 DEF ChecksAdded

(* Reading a function's metadata. *)
LEMMA InvFunction ==
  ASSUME IInv, AnnotateFunction
  PROVE  IInv'
<1>. USE DEF IInv
<1>0. TypeOK'
  BY TypeStep DEF Next
<1>1. /\ func \in DOMAIN mod /\ mod' = mod /\ func' = func /\ listed' = listed
      /\ asserts' = asserts /\ assumes' = assumes /\ labels' = labels
      /\ mod[func] \in FunctionType
      /\ assigns' = [assigns EXCEPT ![func] = Good(mod[func].assigns)]
  BY ModTypes DEF AnnotateFunction, TypeOK
<1>2. ListedExact'
  BY DEF AnnotateFunction, ListedExact, Last
<1>3. FunctionsExact'
  <2>1. \A f \in DOMAIN mod :
          assigns'[f] = IF f = func THEN Good(mod[func].assigns) ELSE assigns[f]
    BY <1>1 DEF TypeOK
  <2>2. \A f \in DOMAIN mod :
          /\ f \in requires' <=> f \in requires \/ (f = func /\ mod[f].requires = "good")
          /\ f \in ensures' <=> f \in ensures \/ (f = func /\ mod[f].ensures = "good")
    BY DEF AnnotateFunction
  <2>3. \A f \in DOMAIN mod : Good(mod[f].assigns)' = Good(mod[f].assigns)
    BY <1>1 DEF Good
  <2>4. ASSUME NEW f \in DOMAIN mod
        PROVE  /\ f \in requires' <=> FunctionRead(f)' /\ mod'[f].requires = "good"
               /\ f \in ensures' <=> FunctionRead(f)' /\ mod'[f].ensures = "good"
               /\ assigns'[f] = IF FunctionRead(f)' THEN Good(mod'[f].assigns) ELSE <<>>
    BY <1>1, <2>1, <2>2, FunctionPassed DEF FunctionsExact
  <2>. QED  BY <1>1, <2>4 DEF FunctionsExact
<1>4. InstructionsExact'
  BY <1>1, FunctionPassed DEF InstructionsExact, Body
<1>5. ChecksAdded'
  <2>1. \A f \in DOMAIN mod : \A i \in DOMAIN Body(f) :
          AssignsAdded(f, i) => StoreConjunct(f)' = StoreConjunct(f)
    <3>1. \A i \in DOMAIN Body(func) : ~AssignsAdded(func, i)
      <4>1. stage = "function" /\ mod \in Modules
        BY DEF AnnotateFunction, TypeOK
      <4>2. DOMAIN mod \subseteq Nat
        BY <4>1, ModTypes
      <4>3. func \in Nat
        BY <1>1, <4>2
      <4>. QED  BY <4>1, <4>3 DEF AssignsAdded, Last
    <3>2. \A f \in DOMAIN mod : f # func => assigns'[f] = assigns[f]
      BY <1>1 DEF TypeOK
    <3>. QED  BY <3>1, <3>2 DEF StoreConjunct, UnionOf
  <2>. QED  BY <1>1, <2>1, FunctionPassed DEF ChecksAdded, Body
<1>6. ErrorsCounted'
  <2>. DEFINE F == mod[func]
              unparsed == \E k \in DOMAIN F.assigns : F.assigns[k] = BadSet
              R1 == AddIf(ReadBad, <<func, "requires">>, F.requires = Bad)
              R2 == AddIf(R1, <<func, "ensures">>, F.ensures = Bad)
              R3 == AddIf(R2, <<func, "assigns">>, unparsed)
  <2>1. \A c : <<func, c>> \notin ReadBad
    BY FunctionPassed DEF ReadBad
  <2>2. <<func, "ensures">> \notin R1 /\ <<func, "assigns">> \notin R2
    BY <2>1 DEF AddIf
  <2>3. ReadBad' = R3
    <3>1. BadNodes' = BadNodes
      BY <1>1 DEF BadNodes
    <3>2. \A n \in BadNodes : n \in ReadBad' <=> n \in ReadBad \/ n[1] = func
      BY <3>1, FunctionPassed DEF ReadBad, BadNodes
    <3>3. ReadBad' = ReadBad \cup {n \in BadNodes : n[1] = func}
      BY <3>1, <3>2 DEF ReadBad
    <3>4. \A n : n \in BadNodes /\ n[1] = func <=>
            \/ n = <<func, "requires">> /\ F.requires = Bad
            \/ n = <<func, "ensures">> /\ F.ensures = Bad
            \/ n = <<func, "assigns">> /\ unparsed
      BY <1>1 DEF BadNodes
    <3>. QED  BY <3>3, <3>4 DEF AddIf
  <2>4. ReadBadInstructions' = ReadBadInstructions
    <3>1. BadInstructionNodes' = BadInstructionNodes
      BY <1>1 DEF BadInstructionNodes, Instructions, Body
    <3>2. \A n \in BadInstructionNodes :
            n[1][1] \in DOMAIN mod /\ n[1][2] \in DOMAIN Body(n[1][1])
      BY DEF BadInstructionNodes, Instructions
    <3>. QED  BY <3>1, <3>2, FunctionPassed DEF ReadBadInstructions
  <2>5. /\ IsFiniteSet(R1) /\ Cardinality(ReadBad) \in Nat
        /\ Cardinality(R1) = Cardinality(ReadBad) + IF F.requires = Bad THEN 1 ELSE 0
    BY <2>1, AddIfCardinality DEF ErrorsCounted
  <2>6. /\ IsFiniteSet(R2)
        /\ Cardinality(R2) = Cardinality(R1) + IF F.ensures = Bad THEN 1 ELSE 0
    BY <2>2, <2>5, AddIfCardinality
  <2>7. /\ IsFiniteSet(R3)
        /\ Cardinality(R3) = Cardinality(R2) + IF unparsed THEN 1 ELSE 0
    BY <2>2, <2>6, AddIfCardinality
  <2>8. errors' = errors + (IF F.requires = Bad THEN 1 ELSE 0)
                         + (IF F.ensures = Bad THEN 1 ELSE 0) + (IF unparsed THEN 1 ELSE 0)
    <3>1. Good(F.assigns) = F.assigns <=> ~unparsed
      BY <1>1, GoodPrefix DEF FunctionType
    <3>. QED  BY <3>1 DEF AnnotateFunction, Errs
  <2>9. Cardinality(ReadBadInstructions) \in Nat /\ IsFiniteSet(ReadBadInstructions)
    BY FS_CardinalityType DEF ErrorsCounted
  <2>. HIDE DEF R1, R2, R3, unparsed
  <2>10. errors = Cardinality(ReadBad) + Cardinality(ReadBadInstructions)
    BY DEF ErrorsCounted
  <2>11. errors' = Cardinality(R3) + Cardinality(ReadBadInstructions)
    BY <2>5, <2>6, <2>7, <2>8, <2>9, <2>10
  <2>. QED  BY <2>3, <2>4, <2>7, <2>9, <2>11 DEF ErrorsCounted
<1>. QED  BY <1>0, <1>2, <1>3, <1>4, <1>5, <1>6

(* Reading an instruction's metadata. *)
LEMMA InvInstruction ==
  ASSUME IInv, AnnotateInstruction
  PROVE  IInv'
<1>. USE DEF IInv
<1>. DEFINE I == Body(func)[inst]
            new == IF I.assert = "good" THEN {Conjunct("user")} ELSE {}
<1>0. TypeOK'
  BY TypeStep DEF Next
<1>1. /\ func \in DOMAIN mod /\ inst \in DOMAIN Body(func)
      /\ mod' = mod /\ func' = func /\ listed' = listed /\ stage' = stage
      /\ requires' = requires /\ ensures' = ensures /\ assigns' = assigns
      /\ I \in InstructionType
  BY ModTypes DEF AnnotateInstruction, TypeOK
<1>2. ListedExact'
  BY <1>1 DEF ListedExact
<1>3. FunctionsExact'
  <2>1. \A f \in DOMAIN mod : Good(mod[f].assigns)' = Good(mod[f].assigns)
    BY <1>1 DEF Good
  <2>. QED  BY <1>1, <2>1, InstructionPassed DEF FunctionsExact
<1>4. \A f \in DOMAIN mod : \A i \in DOMAIN Body(f) :
        asserts'[f][i] = IF f = func /\ i = inst THEN asserts[f][i] \cup new ELSE asserts[f][i]
  <2>1. new \in SUBSET ConjunctType
    BY ConjunctTypes
  <2>2. \/ asserts' = [asserts EXCEPT ![func][inst] = @ \cup new]
        \/ asserts' = asserts /\ new = {}
    BY DEF AnnotateInstruction
  <2>. HIDE DEF new
  <2>. QED  BY <1>1, <2>1, <2>2, AddConjuncts
<1>5. InstructionsExact'
  <2>1. \A f \in DOMAIN mod : \A i \in DOMAIN Body(f) :
          Conjunct("user") \in asserts'[f][i] <=>
            Conjunct("user") \in asserts[f][i] \/ (f = func /\ i = inst /\ I.assert = "good")
    BY <1>4
  <2>2. \A f \in DOMAIN mod : \A i \in DOMAIN Body(f) :
          /\ <<f, i>> \in assumes' <=>
               <<f, i>> \in assumes \/ (f = func /\ i = inst /\ I.assume = "good")
          /\ <<f, i>> \in labels' <=>
               <<f, i>> \in labels \/ (f = func /\ i = inst /\ I.label = "good")
    BY DEF AnnotateInstruction
  <2>3. ASSUME NEW f \in DOMAIN mod, NEW i \in DOMAIN Body(f)
        PROVE  /\ Conjunct("user") \in asserts'[f][i]
                    <=> InstructionRead(f, i)' /\ Body(f)[i].assert = "good"
               /\ <<f, i>> \in assumes'
                    <=> InstructionRead(f, i)' /\ Body(f)[i].assume = "good"
               /\ <<f, i>> \in labels'
                    <=> InstructionRead(f, i)' /\ Body(f)[i].label = "good"
    <3>1. InstructionRead(f, i)' <=> InstructionRead(f, i) \/ (f = func /\ i = inst)
      BY InstructionPassed
    <3>2. CASE f = func /\ i = inst
      BY <2>1, <2>2, <3>1, <3>2 DEF InstructionsExact
    <3>3. CASE ~(f = func /\ i = inst)
      BY <2>1, <2>2, <3>1, <3>3 DEF InstructionsExact
    <3>. QED  BY <3>2, <3>3
  <2>. QED  BY <1>1, <2>3 DEF InstructionsExact, Body
<1>6. ChecksAdded'
  <2>1. \A f \in DOMAIN mod : StoreConjunct(f)' = StoreConjunct(f)
    BY <1>1 DEF StoreConjunct, UnionOf
  <2>2. \A f \in DOMAIN mod : \A i \in DOMAIN Body(f) : asserts[f][i] \subseteq asserts'[f][i]
    BY <1>4
  <2>. QED  BY <1>1, <2>1, <2>2, ChecksKept, InstructionPassed
<1>7. ErrorsCounted'
  <2>. DEFINE at == <<func, inst>>
              R1 == AddIf(ReadBadInstructions, <<at, "assert">>, I.assert = Bad)
              R2 == AddIf(R1, <<at, "assume">>, I.assume = Bad)
              R3 == AddIf(R2, <<at, "label">>, I.label = Bad)
  <2>1. \A c : <<at, c>> \notin ReadBadInstructions
    BY InstructionPassed DEF ReadBadInstructions
  <2>2. <<at, "assume">> \notin R1 /\ <<at, "label">> \notin R2
    BY <2>1 DEF AddIf
  <2>3. BadNodes' = BadNodes /\ BadInstructionNodes' = BadInstructionNodes
    BY <1>1 DEF BadNodes, BadInstructionNodes, Instructions, Body
  <2>4. ReadBad' = ReadBad
    <3>1. \A n \in BadNodes : n[1] \in DOMAIN mod
      BY DEF BadNodes
    <3>. QED  BY <2>3, <3>1, InstructionPassed DEF ReadBad
  <2>5. ReadBadInstructions' = R3
    <3>1. \A n \in BadInstructionNodes :
            /\ n[1][1] \in DOMAIN mod /\ n[1][2] \in DOMAIN Body(n[1][1])
            /\ n[1] = <<n[1][1], n[1][2]>>
      BY DEF BadInstructionNodes, Instructions
    <3>2. ReadBadInstructions' = ReadBadInstructions \cup {n \in BadInstructionNodes : n[1] = at}
      BY <1>1, <2>3, <3>1, InstructionPassed DEF ReadBadInstructions
    <3>3. at \in Instructions
      BY <1>1 DEF Instructions
    <3>4. \A n : n \in BadInstructionNodes /\ n[1] = at <=>
            \/ n = <<at, "assert">> /\ I.assert = Bad
            \/ n = <<at, "assume">> /\ I.assume = Bad
            \/ n = <<at, "label">> /\ I.label = Bad
      BY <3>3 DEF BadInstructionNodes
    <3>. QED  BY <3>2, <3>4 DEF AddIf
  <2>6. /\ IsFiniteSet(R1) /\ Cardinality(ReadBadInstructions) \in Nat
        /\ Cardinality(R1) = Cardinality(ReadBadInstructions) + IF I.assert = Bad THEN 1 ELSE 0
    BY <2>1, AddIfCardinality DEF ErrorsCounted
  <2>7. /\ IsFiniteSet(R2)
        /\ Cardinality(R2) = Cardinality(R1) + IF I.assume = Bad THEN 1 ELSE 0
    BY <2>2, <2>6, AddIfCardinality
  <2>8. /\ IsFiniteSet(R3)
        /\ Cardinality(R3) = Cardinality(R2) + IF I.label = Bad THEN 1 ELSE 0
    BY <2>2, <2>7, AddIfCardinality
  <2>9. errors' = errors + (IF I.assert = Bad THEN 1 ELSE 0)
                         + (IF I.assume = Bad THEN 1 ELSE 0) + (IF I.label = Bad THEN 1 ELSE 0)
    BY DEF AnnotateInstruction, Errs
  <2>10. Cardinality(ReadBad) \in Nat /\ IsFiniteSet(ReadBad)
    BY FS_CardinalityType DEF ErrorsCounted
  <2>. HIDE DEF R1, R2, R3, I
  <2>11. errors = Cardinality(ReadBad) + Cardinality(ReadBadInstructions)
    BY DEF ErrorsCounted
  <2>12. errors' = Cardinality(ReadBad) + Cardinality(R3)
    BY <2>6, <2>7, <2>8, <2>9, <2>10, <2>11
  <2>. QED  BY <2>4, <2>5, <2>8, <2>10, <2>12 DEF ErrorsCounted
<1>. QED  BY <1>0, <1>2, <1>3, <1>5, <1>6, <1>7

(* The assigns checks. *)
LEMMA InvAssertion ==
  ASSUME IInv, addAssignsAssertion
  PROVE  IInv'
<1>. USE DEF IInv
<1>. DEFINE new == CASE Body(func)[inst].op = "store" -> StoreCheck
                     [] Body(func)[inst].op = "call" -> CallCheck
                     [] OTHER -> {}
<1>0. TypeOK'
  BY TypeStep DEF Next
<1>1. /\ func \in DOMAIN mod /\ inst \in DOMAIN Body(func)
      /\ mod' = mod /\ func' = func /\ listed' = listed /\ stage' = stage /\ errors' = errors
      /\ requires' = requires /\ ensures' = ensures /\ assigns' = assigns
      /\ assumes' = assumes /\ labels' = labels /\ stage = "assigns"
  BY DEF addAssignsAssertion, TypeOK
<1>2. ListedExact'
  BY <1>1 DEF ListedExact
<1>3. FunctionsExact'
  <2>1. \A f \in DOMAIN mod : Good(mod[f].assigns)' = Good(mod[f].assigns)
    BY <1>1 DEF Good
  <2>. QED  BY <1>1, <2>1, AssertionPassed DEF FunctionsExact
<1>4. /\ new \in SUBSET ConjunctType /\ Conjunct("user") \notin new
      /\ Body(func)[inst].op = "store" => new = StoreCheck
      /\ Body(func)[inst].op = "call" => new = CallCheck
  <2>. USE DEF Conjunct
  <2>1. CASE Body(func)[inst].op = "store"
    <3>1. new = StoreCheck
      BY <2>1
    <3>2. Conjunct("user") \notin StoreCheck
      BY DEF StoreCheck
    <3>. QED  BY <1>1, <2>1, <3>1, <3>2, CheckTypes
  <2>2. CASE Body(func)[inst].op = "call"
    <3>1. new = CallCheck
      BY <2>2
    <3>2. Conjunct("user") \notin CallCheck
      BY DEF CallCheck, CoverCheck
    <3>. QED  BY <1>1, <2>2, <3>1, <3>2, CheckTypes
  <2>3. CASE Body(func)[inst].op \notin {"store", "call"}
    BY <2>3
  <2>. QED  BY <2>1, <2>2, <2>3
<1>5. \A f \in DOMAIN mod : \A i \in DOMAIN Body(f) :
        asserts'[f][i] = IF f = func /\ i = inst THEN asserts[f][i] \cup new ELSE asserts[f][i]
  <2>1. asserts' = [asserts EXCEPT ![func][inst] = @ \cup new]
    BY DEF addAssignsAssertion
  <2>. HIDE DEF new
  <2>. QED  BY <1>1, <1>4, <2>1, AddConjuncts
<1>. HIDE DEF new
<1>6. InstructionsExact'
  <2>1. \A f \in DOMAIN mod : \A i \in DOMAIN Body(f) :
          Conjunct("user") \in asserts'[f][i] <=> Conjunct("user") \in asserts[f][i]
    BY <1>4, <1>5
  <2>. QED  BY <1>1, <2>1, AssertionPassed DEF InstructionsExact, Body
<1>7. ChecksAdded'
  <2>1. \A f \in DOMAIN mod : StoreConjunct(f)' = StoreConjunct(f)
    BY <1>1 DEF StoreConjunct, UnionOf
  <2>2. Body(func)[inst].op = "store" =>
          \/ Conjunct("null") \in asserts'[func][inst]
          \/ StoreConjunct(func) \in asserts'[func][inst]
    BY <1>1, <1>4, <1>5 DEF StoreCheck, StoreConjunct
  <2>3. Body(func)[inst].op = "call" =>
          LET c == Body(func)[inst].callee
          IN c < func /\ ~mod[c].hasAssigns => Conjunct("false") \in asserts'[func][inst]
    <3>0. mod \in Modules
      BY DEF TypeOK
    <3>1. listed = func - 1 /\ func \in Nat
      BY <1>1, <3>0, ModTypes DEF ListedExact, Last
    <3>2. Body(func)[inst].op = "call" => Body(func)[inst].callee \in Nat
      BY <1>1, <3>0, ModTypes DEF InstructionType
    <3>3. ASSUME Body(func)[inst].op = "call", Body(func)[inst].callee < func,
                 ~mod[Body(func)[inst].callee].hasAssigns
          PROVE  Conjunct("false") \in asserts'[func][inst]
      <4>1. ~(Body(func)[inst].callee > listed)
        BY <3>1, <3>2, <3>3
      <4>2. CallCheck = {Conjunct("false")}
        BY <3>3, <4>1 DEF CallCheck
      <4>. QED  BY <1>1, <1>4, <1>5, <3>3, <4>2
    <3>. QED  BY <3>3
  <2>4. \A f \in DOMAIN mod : \A i \in DOMAIN Body(f) : asserts[f][i] \subseteq asserts'[f][i]
    BY <1>5
  <2>. QED  BY <1>1, <2>1, <2>2, <2>3, <2>4, AssertionPassed DEF ChecksAdded, Body
<1>8. ErrorsCounted'
  BY <1>1, AssertionPassed, ErrorsKept
<1>. QED  BY <1>0, <1>2, <1>3, <1>6, <1>7, <1>8

(* The checks of addRTE. *)
LEMMA InvRte ==
  ASSUME IInv, addRTE
  PROVE  IInv'
<1>. USE DEF IInv
<1>0. TypeOK'
  BY TypeStep DEF Next
<1>1. /\ func \in DOMAIN mod /\ stage = "rte" /\ stage' \in Last
      /\ mod' = mod /\ listed' = listed /\ errors' = errors
      /\ requires' = requires /\ ensures' = ensures /\ assigns' = assigns
      /\ assumes' = assumes /\ labels' = labels
  BY DEF addRTE, TypeOK, Last
<1>2. ListedExact'
  BY <1>1 DEF ListedExact, Last
<1>3. FunctionsExact'
  <2>1. \A f \in DOMAIN mod : Good(mod[f].assigns)' = Good(mod[f].assigns)
    BY <1>1 DEF Good
  <2>. QED  BY <1>1, <2>1, RtePassed DEF FunctionsExact
<1>4. \A f \in DOMAIN mod : \A i \in DOMAIN Body(f) :
        asserts'[f][i] = IF f = func /\ Body(f)[i].risky
                         THEN asserts[f][i] \cup {Conjunct("rte")} ELSE asserts[f][i]
  BY AddRte
<1>5. InstructionsExact'
  <2>1. Conjunct("user") # Conjunct("rte")
    BY DEF Conjunct
  <2>2. \A f \in DOMAIN mod : \A i \in DOMAIN Body(f) :
          Conjunct("user") \in asserts'[f][i] <=> Conjunct("user") \in asserts[f][i]
    BY <1>4, <2>1
  <2>. QED  BY <1>1, <2>2, RtePassed DEF InstructionsExact, Body
<1>6. ChecksAdded'
  <2>1. \A f \in DOMAIN mod : StoreConjunct(f)' = StoreConjunct(f) /\ Body(f)' = Body(f)
    BY <1>1 DEF StoreConjunct, UnionOf, Body
  <2>2. \A f \in DOMAIN mod : \A i \in DOMAIN Body(f) : asserts[f][i] \subseteq asserts'[f][i]
    BY <1>4
  <2>3. \A i \in DOMAIN Body(func) : Body(func)[i].risky => Conjunct("rte") \in asserts'[func][i]
    BY <1>1, <1>4
  <2>4. ASSUME NEW f \in DOMAIN mod, NEW i \in DOMAIN Body(f)
        PROVE  /\ AssignsAdded(f, i)' /\ Body(f)[i].op = "store" =>
                    Conjunct("null") \in asserts'[f][i] \/ StoreConjunct(f) \in asserts'[f][i]
               /\ AssignsAdded(f, i)' /\ Body(f)[i].op = "call" =>
                    LET c == Body(f)[i].callee
                    IN c < f /\ ~mod[c].hasAssigns => Conjunct("false") \in asserts'[f][i]
               /\ RteAdded(f)' /\ Body(f)[i].risky => Conjunct("rte") \in asserts'[f][i]
    BY <2>2, <2>3, RtePassed DEF ChecksAdded
  <2>. QED  BY <1>1, <2>1, <2>4 DEF ChecksAdded
<1>7. ErrorsCounted'
  BY <1>1, RtePassed, ErrorsKept
<1>. QED  BY <1>0, <1>2, <1>3, <1>5, <1>6, <1>7

(* Between the passes. *)
LEMMA InvBetween ==
  ASSUME IInv, InstructionsDone \/ AssignsDone \/ ListFunction \/ UNCHANGED annotateVars
  PROVE  IInv'
<1>. USE DEF IInv
<1>0. TypeOK'
  BY TypeStep DEF Next
<1>1. /\ mod' = mod /\ errors' = errors /\ asserts' = asserts
      /\ requires' = requires /\ ensures' = ensures /\ assigns' = assigns
      /\ assumes' = assumes /\ labels' = labels
  BY DEF InstructionsDone, AssignsDone, ListFunction, annotateVars, clauses
<1>2. ListedExact'
  <2>1. mod \in Modules /\ func \in DOMAIN mod
    BY DEF TypeOK
  <2>2. DOMAIN mod = 1..Len(mod) /\ Len(mod) \in Nat /\ func \in Nat
    BY <2>1, ModTypes
  <2>3. CASE ListFunction
    BY <1>1, <2>1, <2>2, <2>3 DEF ListFunction, ListedExact, Last
  <2>4. CASE InstructionsDone \/ AssignsDone \/ UNCHANGED annotateVars
    BY <2>4 DEF InstructionsDone, AssignsDone, annotateVars, ListedExact, Last
  <2>. QED  BY <2>3, <2>4
<1>3. \A f \in DOMAIN mod : /\ Good(mod[f].assigns)' = Good(mod[f].assigns)
                            /\ Body(f)' = Body(f) /\ StoreConjunct(f)' = StoreConjunct(f)
  BY <1>1 DEF Good, Body, StoreConjunct, UnionOf
<1>4. FunctionsExact'
  BY <1>1, <1>3, NothingPassed DEF FunctionsExact
<1>5. InstructionsExact'
  BY <1>1, NothingPassed DEF InstructionsExact, Body
<1>6. ChecksAdded'
  BY <1>1, <1>3, NothingPassed, ChecksKept
<1>7. ErrorsCounted'
  BY <1>1, NothingPassed, ErrorsKept
<1>. QED  BY <1>0, <1>2, <1>4, <1>5, <1>6, <1>7

LEMMA InvStep == IInv /\ [Next]_annotateVars => IInv'
BY InvFunction, InvInstruction, InvAssertion, InvRte, InvBetween DEF Next

(* At every step of annotate and addRTE, the state is what the part of the *)
(* module they have passed calls for.                                      *)
THEOREM Invariance == Spec => []IInv
BY InvInit, InvStep, PTL DEF Spec
-----------------------------------------------------------------------------
(* No generated check pushes out an assert clause that the user wrote.     *)
THEOREM UserAssertsAlwaysKept == Spec => []UserAssertsKept
<1>1. IInv => UserAssertsKept
  <2>. SUFFICES ASSUME IInv, stage = "annotated"
                PROVE  \A f \in DOMAIN mod : \A i \in DOMAIN Body(f) :
                         Body(f)[i].assert = "good" => Conjunct("user") \in asserts[f][i]
    BY DEF UserAssertsKept
  <2>1. \A f \in DOMAIN mod : \A i \in DOMAIN Body(f) : InstructionRead(f, i)
    BY DEF InstructionRead, Last
  <2>. QED  BY <2>1 DEF IInv, InstructionsExact
<1>. QED  BY <1>1, Invariance, PTL

(* Everything has been read at the end, and the errors are the nodes that  *)
(* do not parse.                                                           *)
LEMMA AllRead ==
  ASSUME IInv, stage = "annotated"
  PROVE  /\ \A f \in DOMAIN mod :
              FunctionRead(f) /\ \A i \in DOMAIN Body(f) : InstructionRead(f, i)
         /\ ReadBad = BadNodes /\ ReadBadInstructions = BadInstructionNodes
         /\ errors = Cardinality(BadNodes) + Cardinality(BadInstructionNodes)
         /\ errors = 0 => BadNodes = {} /\ BadInstructionNodes = {}
<1>1. \A f, i : FunctionRead(f) /\ InstructionRead(f, i)
  BY DEF FunctionRead, InstructionRead, Last
<1>2. ReadBad = BadNodes /\ ReadBadInstructions = BadInstructionNodes
  BY <1>1 DEF ReadBad, ReadBadInstructions
<1>3. /\ IsFiniteSet(BadNodes) /\ IsFiniteSet(BadInstructionNodes)
      /\ errors = Cardinality(BadNodes) + Cardinality(BadInstructionNodes)
  BY <1>2 DEF IInv, ErrorsCounted
<1>4. Cardinality(BadNodes) \in Nat /\ Cardinality(BadInstructionNodes) \in Nat
  BY <1>3, FS_CardinalityType
<1>5. errors = 0 => Cardinality(BadNodes) = 0 /\ Cardinality(BadInstructionNodes) = 0
  BY <1>3, <1>4
<1>. QED  BY <1>1, <1>2, <1>3, <1>5, FS_EmptySet

(* Without errors every clause is in force. *)
LEMMA NoErrorsInForce ==
  ASSUME IInv, stage = "annotated", errors = 0
  PROVE  InForce /\ \A f \in DOMAIN mod : mod[f].assigns \in Seq(SUBSET Loc)
<1>0. mod \in Modules
  BY DEF IInv, TypeOK
<1>1. BadNodes = {} /\ BadInstructionNodes = {}
  BY AllRead
<1>2. ASSUME NEW f \in DOMAIN mod
      PROVE  /\ mod[f].requires # Bad /\ mod[f].ensures # Bad
             /\ ~ \E k \in DOMAIN mod[f].assigns : mod[f].assigns[k] = BadSet
  <2>1. \A c \in {"requires", "ensures", "assigns"} : <<f, c>> \notin BadNodes
    BY <1>1
  <2>. QED  BY <2>1 DEF BadNodes
<1>3. ASSUME NEW f \in DOMAIN mod, NEW i \in DOMAIN Body(f)
      PROVE  /\ Body(f)[i].assert # Bad /\ Body(f)[i].assume # Bad /\ Body(f)[i].label # Bad
  <2>1. <<f, i>> \in Instructions
    BY DEF Instructions
  <2>2. \A c \in {"assert", "assume", "label"} : <<<<f, i>>, c>> \notin BadInstructionNodes
    BY <1>1
  <2>. QED  BY <2>1, <2>2 DEF BadInstructionNodes
<1>4. ASSUME NEW f \in DOMAIN mod
      PROVE  /\ mod[f].requires \in {"none", "good"} /\ mod[f].ensures \in {"none", "good"}
             /\ Good(mod[f].assigns) = mod[f].assigns /\ mod[f].assigns \in Seq(SUBSET Loc)
  <2>1. mod[f] \in FunctionType
    BY <1>0, ModTypes
  <2>2. mod[f].requires \in Clauses /\ mod[f].ensures \in Clauses
    BY <2>1 DEF FunctionType
  <2>3. mod[f].assigns \in Seq((SUBSET Loc) \cup {BadSet})
    BY <2>1 DEF FunctionType
  <2>4. Good(mod[f].assigns) = mod[f].assigns /\ Good(mod[f].assigns) \in Seq(SUBSET Loc)
    BY <1>2, <2>3, GoodPrefix
  <2>. QED  BY <1>2, <2>2, <2>4 DEF Clauses
<1>5. ASSUME NEW f \in DOMAIN mod, NEW i \in DOMAIN Body(f)
      PROVE  /\ Body(f)[i].assert \in {"none", "good"} /\ Body(f)[i].assume \in {"none", "good"}
             /\ Body(f)[i].label \in {"none", "good"}
  <2>1. Body(f)[i] \in InstructionType
    BY <1>0, ModTypes
  <2>. QED  BY <1>3, <2>1 DEF InstructionType, Clauses
<1>6. InForce
  <2>1. ASSUME NEW f \in DOMAIN mod
        PROVE  /\ f \in requires <=> mod[f].requires # "none"
               /\ f \in ensures <=> mod[f].ensures # "none"
               /\ assigns[f] = mod[f].assigns
    BY <1>4, AllRead DEF IInv, FunctionsExact
  <2>2. ASSUME NEW f \in DOMAIN mod, NEW i \in DOMAIN Body(f)
        PROVE  /\ Body(f)[i].assert # "none" <=> Conjunct("user") \in asserts[f][i]
               /\ Body(f)[i].assume # "none" <=> <<f, i>> \in assumes
               /\ Body(f)[i].label # "none" <=> <<f, i>> \in labels
    BY <1>5, AllRead DEF IInv, InstructionsExact
  <2>. QED  BY <2>1, <2>2 DEF InForce
<1>. QED  BY <1>4, <1>6

(* One error for every metadata node that does not parse, whatever came    *)
(* before it; and without errors every clause is in force.                 *)
THEOREM ErrorsAlwaysExact == Spec => []ErrorsExact
<1>1. IInv => ErrorsExact
  BY AllRead, NoErrorsInForce DEF ErrorsExact
<1>. QED  BY <1>1, Invariance, PTL

(* Where every assigns check is proved, each write of a run is in the      *)
(* assigns clause of a function it runs.  The argument is the set W of     *)
(* what each function may write: it is closed under calls, because the     *)
(* callees of a function with an assigns clause have one too and run no    *)
(* more functions than it does; and Writes is within every such set.       *)
LEMMA RunByCalls ==
  ASSUME NEW g \in DOMAIN mod, NEW i \in DOMAIN Body(g), Body(g)[i].op = "call",
         Body(g)[i].callee \in DOMAIN mod
  PROVE  g \in RunBy(g) /\ RunBy(Body(g)[i].callee) \subseteq RunBy(g)
<1>. DEFINE Closed(S) == \A h \in S : \A j \in DOMAIN Body(h) :
              Body(h)[j].op = "call" => Body(h)[j].callee \in S
<1>1. \A h : RunBy(h) = {r \in DOMAIN mod : \A S \in SUBSET DOMAIN mod :
                          h \in S /\ Closed(S) => r \in S}
  BY DEF RunBy
<1>2. \A S \in SUBSET DOMAIN mod : g \in S /\ Closed(S) => Body(g)[i].callee \in S
  OBVIOUS
<1>. HIDE DEF Closed
<1>. QED  BY <1>1, <1>2

THEOREM WritesAlwaysDeclared == Spec => []WritesDeclared
<1>1. IInv => WritesDeclared
  <2>. DEFINE Declared(g) == AllocatedAfter \cup UNION {Frame(h) : h \in RunBy(g)}
              W == [g \in DOMAIN mod |-> IF mod[g].hasAssigns THEN Declared(g) ELSE Loc]
  <2>. SUFFICES ASSUME IInv, stage = "annotated", errors = 0, CallsSeen, AllChecksHold,
                       NEW f \in DOMAIN mod, mod[f].hasAssigns
                PROVE  Writes(f) \subseteq Declared(f)
    BY DEF WritesDeclared
  <2>1. \A g \in DOMAIN mod : assigns[g] = mod[g].assigns /\ mod[g].assigns \in Seq(SUBSET Loc)
    BY NoErrorsInForce DEF InForce
  <2>2. \A g \in DOMAIN mod : Frame(g) = UnionOf(assigns[g]) /\ Frame(g) \subseteq Loc
    BY <2>1 DEF Frame, UnionOf
  <2>a. \A g \in DOMAIN mod : RunBy(g) \subseteq DOMAIN mod
    BY DEF RunBy
  <2>b. \A g \in DOMAIN mod : Declared(g) \subseteq Loc
    BY <2>2, <2>a, ModulesAssumption
  <2>c. \A g, c \in DOMAIN mod : RunBy(c) \subseteq RunBy(g) => Declared(c) \subseteq Declared(g)
    OBVIOUS
  <2>d. \A g \in DOMAIN mod : g \in RunBy(g) => Frame(g) \cup AllocatedAfter \subseteq Declared(g)
    OBVIOUS
  <2>e. \A g \in DOMAIN mod : g \in RunBy(g)
    BY DEF RunBy
  <2>. HIDE DEF Declared
  <2>3. W \in [DOMAIN mod -> SUBSET Loc]
    BY <2>b
  <2>4. ClosedUnderCalls(W)
    <3>1. mod \in Modules
      BY DEF IInv, TypeOK
    <3>. SUFFICES ASSUME NEW g \in DOMAIN mod, NEW i \in DOMAIN Body(g)
                  PROVE  /\ Body(g)[i].op = "store" => Body(g)[i].addr \in W[g]
                         /\ Body(g)[i].op = "call" => W[Body(g)[i].callee] \subseteq W[g]
      BY DEF ClosedUnderCalls
    <3>2. \A c \in asserts[g][i] : Holds(g, i, c)
      BY DEF AllChecksHold
    <3>3. Body(g)[i].addr \in Loc
      BY <3>1, ModTypes DEF InstructionType
    <3>4. Body(g)[i].op = "call" => Body(g)[i].callee \in DOMAIN mod
      BY <3>1, ModulesAssumption DEF Body
    <3>5. CASE ~mod[g].hasAssigns
      BY <2>3, <3>3, <3>4, <3>5
    <3>6. CASE mod[g].hasAssigns
      <4>1. AssignsAdded(g, i)
        BY <3>6 DEF AssignsAdded, Last
      <4>2. ASSUME Body(g)[i].op = "store"
            PROVE  Body(g)[i].addr \in Declared(g)
        <5>1. Conjunct("null") \notin asserts[g][i]
          BY <3>2 DEF Holds, Conjunct
        <5>2. StoreConjunct(g) \in asserts[g][i]
          BY <4>1, <4>2, <5>1 DEF IInv, ChecksAdded
        <5>3. Holds(g, i, StoreConjunct(g))
          BY <3>2, <5>2
        <5>4. Body(g)[i].addr \in Frame(g) \cup AllocatedAfter
          BY <2>2, <5>3 DEF Holds, StoreConjunct
        <5>. QED  BY <2>d, <2>e, <5>4
      <4>3. ASSUME Body(g)[i].op = "call"
            PROVE  /\ mod[Body(g)[i].callee].hasAssigns
                   /\ Declared(Body(g)[i].callee) \subseteq Declared(g)
        <5>1. Conjunct("false") \notin asserts[g][i]
          BY <3>2 DEF Holds, Conjunct
        <5>2. mod[Body(g)[i].callee].hasAssigns
          <6>1. ~mod[Body(g)[i].callee].hasAssigns => Body(g)[i].callee < g
            BY <3>6, <4>3 DEF CallsSeen
          <6>. QED  BY <4>1, <4>3, <5>1, <6>1 DEF IInv, ChecksAdded
        <5>. QED  BY <2>c, <3>4, <4>3, <5>2, RunByCalls
      <4>. QED  BY <3>4, <3>6, <4>2, <4>3
    <3>. QED  BY <3>5, <3>6
  <2>. HIDE DEF W
  <2>5. Writes(f) \subseteq W[f]
    BY <2>3, <2>4 DEF Writes
  <2>. QED  BY <2>5 DEF W
<1>. QED  BY <1>1, Invariance, PTL

-----------------------------------------------------------------------------
(* The file and the exit code *)

Own == IF combine THEN AnyGoal ELSE NoGoal
OrderSet == {order[k] : k \in DOMAIN order}
GoalKinds == {"ensures", "assert", "call"}

(* What has happened before each phase. *)
PhaseOK ==
  /\ phase = "annotate" =>
       order = <<>> /\ file = <<>> /\ warnings = {} /\ gfunc = 1 /\ ginst = 0
  /\ phase # "annotate" => stage = "annotated"
  /\ phase \in {"functions", "goals", "output", "exit"} => ~NullClause
  /\ phase = "functions" => gfunc = 1 /\ ginst = 0
  /\ phase \in {"functions", "goals", "output", "exit"} \/ file # <<>> => order \in Orders
  /\ phase = "goals" => ~combine
  /\ phase \in {"output", "exit"} /\ ~noGoals /\ ~combine => gfunc = Len(mod) + 1
  /\ phase = "exit" =>
       exitCode = IF errors > 0 \/ (werror /\ warnings # {}) THEN 1 ELSE 0

OwnTheories == \A k \in DOMAIN file : k <= Len(order) => file[k] = Theory(order[k], Own)
TheoriesFirst ==
  /\ phase \in {"annotate", "functions"} => Len(file) <= Len(order)
  /\ phase \in {"goals", "output", "exit"} => Len(file) >= Len(order)
  /\ OwnTheories

(* The theories are what addGoal prints of the clauses as they are now.    *)
TheoriesExact == \A k \in DOMAIN file : file[k] = Theory(file[k].of, file[k].goal)

LaterAreGoals ==
  \A k \in DOMAIN file : k > Len(order) => file[k].goal \notin {NoGoal, AnyGoal}

OmittedWarned ==
  phase \in {"goals", "output", "exit"} => \A f \in Func \ OrderSet : f \in Omitted

HasGoal(f, g) == \E k \in DOMAIN file : file[k].of = f /\ file[k].goal = g
GoalPassed(f, i) == f < gfunc \/ (f = gfunc /\ i < ginst)
GoalsAdded ==
  \A f \in Func :
    /\ GoalPassed(f, 0) /\ f \in ensures => HasGoal(f, <<"ensures", 0>>)
    /\ \A i \in DOMAIN Body(f) : GoalPassed(f, i) =>
         /\ asserts[f][i] # {} => HasGoal(f, <<"assert", i>>)
         /\ Body(f)[i].op = "call" /\ Body(f)[i].callee \in requires =>
              HasGoal(f, <<"call", i>>)

EmissionInv == /\ IInv
               /\ EmissionTypeOK
               /\ PhaseOK
               /\ TheoriesFirst
               /\ TheoriesExact
               /\ LaterAreGoals
               /\ OmittedWarned
               /\ GoalsAdded
-----------------------------------------------------------------------------
LEMMA CalleesAreFunctions ==
  ASSUME mod \in Modules
  PROVE  \A f \in Func : Callees(f) \subseteq Func
BY ModulesAssumption DEF Callees, Func, Body

LEMMA FuncFacts ==
  TypeOK => /\ mod \in Modules
            /\ Len(mod) \in Nat /\ Func = 1..Len(mod)
            /\ \A f \in Func : DOMAIN Body(f) \subseteq Nat
BY ModTypes DEF Func, TypeOK

(* The goals that a theory of f may have. *)
GoalsOf(f) ==
  {NoGoal, AnyGoal, <<"ensures", 0>>} \cup ({"assert", "call"} \X DOMAIN Body(f))

LEMMA TheoryTypes ==
  ASSUME TypeOK, NEW f \in Func, NEW g \in GoalsOf(f)
  PROVE  /\ Theory(f, g) \in TheoryType
         /\ Theory(f, g).of = f /\ Theory(f, g).goal = g
         /\ Theory(f, g).clones = Callees(f)
<1>. DEFINE K == {"ensures", "call", "user", "store", "cover", "false", "null", "rte"}
<1>1. mod \in Modules /\ f \in DOMAIN mod /\ DOMAIN Body(f) \subseteq Nat
  BY FuncFacts DEF Func
<1>2. \A i \in DOMAIN Body(f) : Asserted(f, i) \subseteq K \X Nat
  <2>1. \A i \in DOMAIN Body(f) : asserts[f][i] \subseteq ConjunctType
    BY <1>1 DEF TypeOK
  <2>2. \A c \in ConjunctType : c.kind \in K
    BY DEF ConjunctType
  <2>. QED  BY <1>1, <2>1, <2>2 DEF Asserted
<1>3. Proves(f, g) \subseteq K \X Nat
  <2>1. CASE g \in {NoGoal, AnyGoal, <<"ensures", 0>>}
    <3>1. Ensured(f) \subseteq K \X Nat
      BY DEF Ensured
    <3>. QED  BY <1>2, <2>1, <3>1 DEF Proves, NoGoal, AnyGoal
  <2>2. CASE g \in {"assert", "call"} \X DOMAIN Body(f)
    BY <1>1, <1>2, <2>2 DEF Proves, NoGoal, AnyGoal
  <2>. QED  BY <2>1, <2>2 DEF GoalsOf
<1>4. g \in {"none", "combined", "ensures", "assert", "call"} \X Nat
  BY <1>1 DEF GoalsOf, NoGoal, AnyGoal
<1>5. Callees(f) \subseteq Func
  BY <1>1, CalleesAreFunctions
<1>. HIDE DEF K
<1>. QED  BY <1>3, <1>4, <1>5 DEF Theory, TheoryType, K

(* What addGoal prints comes behind what was there; nothing is unsaid. *)
LEMMA Printed ==
  ASSUME EmissionTypeOK, mod' = mod, NEW ts \in Seq(TheoryType), addGoal(ts)
  PROVE  /\ file' \in Seq(TheoryType)
         /\ Len(file') = Len(file) + Len(ts)
         /\ \A k \in 1..Len(file) : file'[k] = file[k]
         /\ \A k \in 1..Len(ts) : file'[Len(file) + k] = ts[k]
         /\ \A f, g : HasGoal(f, g) => HasGoal(f, g)'
         /\ \A k \in 1..Len(ts) : HasGoal(ts[k].of, ts[k].goal)'
         /\ warnings \subseteq warnings'
         /\ warnings' \subseteq {"omitted", "indirect"} \X Func
<1>1. file \in Seq(TheoryType) /\ file' = file \o ts
  BY DEF EmissionTypeOK, addGoal
<1>2. /\ Len(file) \in Nat /\ Len(ts) \in Nat
      /\ DOMAIN file = 1..Len(file) /\ DOMAIN ts = 1..Len(ts)
  BY <1>1
<1>3. /\ file' \in Seq(TheoryType)
      /\ Len(file') = Len(file) + Len(ts)
      /\ \A k \in 1..Len(file) : file'[k] = file[k]
      /\ \A k \in 1..Len(ts) : file'[Len(file) + k] = ts[k]
  BY <1>1
<1>4. DOMAIN file' = 1..(Len(file) + Len(ts))
  BY <1>3
<1>5. \A f, g : HasGoal(f, g) => HasGoal(f, g)'
  BY <1>2, <1>3, <1>4 DEF HasGoal
<1>6. \A k \in 1..Len(ts) : HasGoal(ts[k].of, ts[k].goal)'
  <2>. SUFFICES ASSUME NEW k \in 1..Len(ts)
                PROVE  HasGoal(ts[k].of, ts[k].goal)'
    OBVIOUS
  <2>1. Len(file) + k \in DOMAIN file' /\ file'[Len(file) + k] = ts[k]
    BY <1>2, <1>3, <1>4
  <2>. QED  BY <2>1 DEF HasGoal
<1>7. \A k \in DOMAIN ts : ts[k].of \in Func
  <2>1. \A t \in TheoryType : t.of \in Func
    BY DEF TheoryType
  <2>2. \A k \in DOMAIN ts : ts[k] \in TheoryType
    OBVIOUS
  <2>. QED  BY <2>1, <2>2
<1>8. warnings \subseteq warnings' /\ warnings' \subseteq {"omitted", "indirect"} \X Func
  BY <1>7 DEF addGoal, EmissionTypeOK
<1>. QED  BY <1>3, <1>5, <1>6, <1>8

LEMMA Joined ==
  ASSUME NEW T, NEW s \in Seq(T), NEW t \in Seq(T)
  PROVE  s \o t \in Seq(T) /\ Len(s \o t) = Len(s) + Len(t)
OBVIOUS

LEMMA OneOrNone ==
  ASSUME NEW T, NEW t \in T, NEW wanted
  PROVE  LET s == IF wanted THEN <<t>> ELSE <<>>
         IN /\ s \in Seq(T) /\ Len(s) = (IF wanted THEN 1 ELSE 0)
            /\ \A k \in 1..Len(s) : s[k] = t
<1>1. CASE wanted
  <2>1. <<t>> \in Seq(T) /\ Len(<<t>>) = 1 /\ <<t>>[1] = t
    OBVIOUS
  <2>. QED  BY <1>1, <2>1
<1>2. CASE ~wanted
  BY <1>2
<1>. QED  BY <1>1, <1>2

(* The goals at a place: of the function at hand, and of no other kind.    *)
LEMMA EnsuresGoalTypes ==
  ASSUME EmissionTypeOK, gfunc \in Func
  PROVE  /\ EnsuresGoal \in Seq(TheoryType)
         /\ \A k \in 1..Len(EnsuresGoal) :
              /\ EnsuresGoal[k].goal[1] \in GoalKinds
              /\ EnsuresGoal[k] = Theory(EnsuresGoal[k].of, EnsuresGoal[k].goal)
         /\ gfunc \in ensures => \E k \in 1..Len(EnsuresGoal) :
              EnsuresGoal[k].of = gfunc /\ EnsuresGoal[k].goal = <<"ensures", 0>>
<1>1. TypeOK /\ <<"ensures", 0>> \in GoalsOf(gfunc)
  BY DEF EmissionTypeOK, GoalsOf
<1>. DEFINE t == Theory(gfunc, <<"ensures", 0>>)
<1>2. t \in TheoryType /\ t.of = gfunc /\ t.goal = <<"ensures", 0>> /\ t = Theory(t.of, t.goal)
  BY <1>1, TheoryTypes
<1>3. EnsuresGoal = IF gfunc \in ensures THEN <<t>> ELSE <<>>
  BY DEF EnsuresGoal
<1>. HIDE DEF t
<1>4. CASE gfunc \in ensures
  <2>1. EnsuresGoal = <<t>> /\ Len(<<t>>) = 1 /\ <<t>>[1] = t /\ <<t>> \in Seq(TheoryType)
    BY <1>2, <1>3, <1>4
  <2>2. 1 \in 1..Len(EnsuresGoal) /\ \A k \in 1..Len(EnsuresGoal) : EnsuresGoal[k] = t
    BY <2>1
  <2>. QED  BY <1>2, <2>1, <2>2 DEF GoalKinds
<1>5. CASE gfunc \notin ensures
  <2>1. EnsuresGoal = <<>>
    BY <1>3, <1>5
  <2>. QED  BY <1>5, <2>1
<1>. QED  BY <1>4, <1>5

LEMMA InstructionGoalsTypes ==
  ASSUME EmissionTypeOK, gfunc \in Func, ginst \in DOMAIN Body(gfunc)
  PROVE  /\ InstructionGoals \in Seq(TheoryType)
         /\ \A k \in 1..Len(InstructionGoals) :
              /\ InstructionGoals[k].goal[1] \in GoalKinds
              /\ InstructionGoals[k] = Theory(InstructionGoals[k].of, InstructionGoals[k].goal)
         /\ asserts[gfunc][ginst] # {} => \E k \in 1..Len(InstructionGoals) :
              /\ InstructionGoals[k].of = gfunc
              /\ InstructionGoals[k].goal = <<"assert", ginst>>
         /\ Body(gfunc)[ginst].op = "call" /\ Body(gfunc)[ginst].callee \in requires =>
              \E k \in 1..Len(InstructionGoals) :
                /\ InstructionGoals[k].of = gfunc
                /\ InstructionGoals[k].goal = <<"call", ginst>>
<1>1. /\ TypeOK /\ <<"assert", ginst>> \in GoalsOf(gfunc)
      /\ <<"call", ginst>> \in GoalsOf(gfunc)
  BY DEF EmissionTypeOK, GoalsOf
<1>. DEFINE t == Theory(gfunc, <<"assert", ginst>>)
            u == Theory(gfunc, <<"call", ginst>>)
            asserted == asserts[gfunc][ginst] # {}
            called == Body(gfunc)[ginst].op = "call" /\ Body(gfunc)[ginst].callee \in requires
            s1 == IF asserted THEN <<t>> ELSE <<>>
            s2 == IF called THEN <<u>> ELSE <<>>
<1>2. /\ t \in TheoryType /\ t.of = gfunc /\ t.goal = <<"assert", ginst>>
      /\ u \in TheoryType /\ u.of = gfunc /\ u.goal = <<"call", ginst>>
      /\ t = Theory(t.of, t.goal) /\ u = Theory(u.of, u.goal)
  BY <1>1, TheoryTypes
<1>3. InstructionGoals = s1 \o s2
  BY DEF InstructionGoals
<1>. HIDE DEF t, u, asserted, called
<1>4. /\ s1 \in Seq(TheoryType) /\ Len(s1) = (IF asserted THEN 1 ELSE 0)
      /\ \A k \in 1..Len(s1) : s1[k] = t
  BY <1>2, OneOrNone
<1>5. /\ s2 \in Seq(TheoryType) /\ Len(s2) = (IF called THEN 1 ELSE 0)
      /\ \A k \in 1..Len(s2) : s2[k] = u
  BY <1>2, OneOrNone
<1>. HIDE DEF s1, s2
<1>a. s1 \o s2 \in Seq(TheoryType) /\ Len(s1 \o s2) = Len(s1) + Len(s2)
  BY <1>4, <1>5, Joined
<1>b. \A k \in 1..Len(s1) : (s1 \o s2)[k] = t
  BY <1>4, <1>5
<1>c. \A k \in 1..Len(s2) : (s1 \o s2)[Len(s1) + k] = u
  BY <1>4, <1>5
<1>d. \A k \in 1..(Len(s1) + Len(s2)) : (s1 \o s2)[k] \in {t, u}
  <2>1. \A k \in 1..(Len(s1) + Len(s2)) :
          k \in 1..Len(s1) \/ \E j \in 1..Len(s2) : k = Len(s1) + j
    BY <1>4, <1>5
  <2>. QED  BY <1>b, <1>c, <2>1
<1>6. asserted => 1 \in 1..Len(s1 \o s2) /\ (s1 \o s2)[1] = t
  BY <1>4, <1>5, <1>a, <1>b
<1>7. called => Len(s1) + 1 \in 1..Len(s1 \o s2) /\ (s1 \o s2)[Len(s1) + 1] = u
  BY <1>4, <1>5, <1>a, <1>c
<1>8. \A k \in 1..Len(s1 \o s2) :
        /\ (s1 \o s2)[k].goal[1] \in GoalKinds
        /\ (s1 \o s2)[k] = Theory((s1 \o s2)[k].of, (s1 \o s2)[k].goal)
  <2>1. \A v \in {t, u} : v.goal[1] \in GoalKinds /\ v = Theory(v.of, v.goal)
    BY <1>2 DEF GoalKinds
  <2>. QED  BY <1>a, <1>d, <2>1
<1>. QED  BY <1>2, <1>3, <1>a, <1>6, <1>7, <1>8 DEF asserted, called
-----------------------------------------------------------------------------
(* An order is a list of functions; where nothing is recursive it has them *)
(* all, because it has as many as there are and none twice.                *)
LEMMA OrderFacts ==
  mod \in Modules /\ order \in Orders =>
    /\ order \in Seq(Func) /\ Topological(order)
    /\ Hopeless = {} => OrderSet = Func
<1>. SUFFICES ASSUME mod \in Modules, order \in Orders
              PROVE  /\ order \in Seq(Func) /\ Topological(order)
                     /\ Hopeless = {} => OrderSet = Func
  OBVIOUS
<1>. DEFINE T == Func \ Hopeless
            n == Cardinality(T)
<1>1. IsFiniteSet(T) /\ n \in Nat
  <2>1. IsFiniteSet(Func)
    <3>1. Len(mod) \in Nat /\ Func = 1..Len(mod)
      BY ModTypes DEF Func
    <3>. QED  BY <3>1, FS_Interval
  <2>2. T \in SUBSET Func
    OBVIOUS
  <2>3. IsFiniteSet(T)
    BY <2>1, <2>2, FS_Subset
  <2>. QED  BY <2>3, FS_CardinalityType
<1>2. /\ order \in [1..n -> T] /\ Topological(order)
      /\ \A j, k \in DOMAIN order : order[j] = order[k] => j = k
  BY DEF Orders
<1>. HIDE DEF n
<1>3. order \in Seq(Func)
  BY <1>1, <1>2
<1>4. order \in Surjection(1..n, T)
  <2>1. order \in Injection(1..n, T)
    BY <1>2 DEF Injection, IsInjective
  <2>2. Cardinality(1..n) = n
    BY <1>1, FS_Interval
  <2>. QED  BY <1>1, <2>1, <2>2, FS_Injection DEF n
<1>5. OrderSet = T
  BY <1>2, <1>4 DEF OrderSet, Surjection
<1>. QED  BY <1>2, <1>3, <1>5

(* What a step that is not annotate's leaves alone. *)
LEMMA Kept ==
  ASSUME UNCHANGED annotateVars
  PROVE  /\ mod' = mod /\ stage' = stage /\ errors' = errors /\ Func' = Func
         /\ asserts' = asserts /\ requires' = requires /\ ensures' = ensures
         /\ \A f : Body(f)' = Body(f) /\ Callees(f)' = Callees(f)
         /\ \A f, g : Theory(f, g)' = Theory(f, g)
         /\ TheoryType' = TheoryType /\ Orders' = Orders /\ Hopeless' = Hopeless
         /\ NullClause' = NullClause
<1>1. /\ mod' = mod /\ stage' = stage /\ errors' = errors /\ asserts' = asserts
      /\ requires' = requires /\ ensures' = ensures
  BY DEF annotateVars, clauses
<1>2. Func' = Func /\ \A f : Body(f)' = Body(f)
  BY <1>1 DEF Func, Body
<1>3. \A f : Callees(f)' = Callees(f)
  BY <1>2 DEF Callees
<1>4. \A f, g : Theory(f, g)' = Theory(f, g)
  <2>1. \A f, i : Asserted(f, i)' = Asserted(f, i) /\ Ensured(f)' = Ensured(f)
    BY <1>1 DEF Asserted, Ensured
  <2>2. \A f, g : Proves(f, g)' = Proves(f, g)
    BY <1>2, <2>1 DEF Proves
  <2>. QED  BY <1>3, <2>2 DEF Theory
<1>5. TheoryType' = TheoryType
  BY <1>2 DEF TheoryType
<1>6. Hopeless' = Hopeless
  BY <1>2, <1>3 DEF Hopeless, Knotted
<1>7. \A s : Topological(s)' = Topological(s)
  BY <1>3 DEF Topological
<1>8. Orders' = Orders
  BY <1>2, <1>6, <1>7 DEF Orders
<1>9. NullClause' = NullClause
  BY <1>1, <1>2 DEF NullClause, Conjunct
<1>. QED  BY <1>1, <1>2, <1>3, <1>4, <1>5, <1>6, <1>8, <1>9

LEMMA NoGoalPassed ==
  (/\ Func = 1..Len(mod)
   /\ \A f \in Func : DOMAIN Body(f) \subseteq Nat
   /\ gfunc = 1 /\ ginst = 0) => GoalsAdded
BY DEF GoalsAdded, GoalPassed

LEMMA EmissionInvInit == EmissionInit => EmissionInv
<1>. SUFFICES ASSUME EmissionInit
              PROVE  EmissionInv
  OBVIOUS
<1>1. IInv /\ TypeOK /\ mod \in Modules
  BY InvInit DEF EmissionInit, IInv, TypeOK
<1>2. /\ Len(mod) \in Nat /\ Func = 1..Len(mod)
      /\ \A f \in Func : DOMAIN Body(f) \subseteq Nat
  BY <1>1, FuncFacts
<1>3. EmissionTypeOK
  <2>1. order \in Seq(Func) /\ file \in Seq(TheoryType)
    BY DEF EmissionInit
  <2>2. gfunc \in 1..(Len(mod) + 1)
    BY <1>2 DEF EmissionInit
  <2>. QED  BY <1>1, <2>1, <2>2 DEF EmissionInit, EmissionTypeOK, settings
<1>4. PhaseOK
  BY DEF EmissionInit, PhaseOK
<1>5. TheoriesFirst /\ TheoriesExact /\ LaterAreGoals /\ OmittedWarned
  BY DEF EmissionInit, TheoriesFirst, OwnTheories, TheoriesExact, LaterAreGoals, OmittedWarned
<1>6. GoalsAdded
  <2>1. gfunc = 1 /\ ginst = 0
    BY DEF EmissionInit
  <2>. QED  BY <1>2, <2>1, NoGoalPassed
<1>. QED  BY <1>1, <1>3, <1>4, <1>5, <1>6 DEF EmissionInv

(* Once annotated, a module stays as it is. *)
LEMMA AnnotatedIsFinal == Next => stage # "annotated"
BY DEF Next, AnnotateFunction, AnnotateInstruction, InstructionsDone, addAssignsAssertion,
       AssignsDone, ListFunction, addRTE

LEMMA EmissionInvAnnotating ==
  ASSUME EmissionInv, Annotating
  PROVE  EmissionInv'
<1>. USE DEF EmissionInv
<1>1. IInv' /\ TypeOK'
  BY InvStep DEF Annotating, IInv
<1>2. /\ order' = order /\ file' = file /\ warnings' = warnings /\ phase' = phase
      /\ gfunc' = gfunc /\ ginst' = ginst /\ exitCode' = exitCode /\ settings' = settings
      /\ combine' = combine /\ noGoals' = noGoals /\ werror' = werror
  BY DEF Annotating, emitVars, settings
<1>3. /\ phase = "annotate"
      /\ order = <<>> /\ file = <<>> /\ warnings = {} /\ gfunc = 1 /\ ginst = 0
  BY AnnotatedIsFinal DEF Annotating, PhaseOK
<1>4. (/\ Len(mod) \in Nat /\ Func = 1..Len(mod)
       /\ \A f \in Func : DOMAIN Body(f) \subseteq Nat)'
  BY <1>1, FuncFacts, PTL
<1>5. EmissionTypeOK'
  <2>1. order' \in Seq(Func') /\ file' \in Seq(TheoryType')
    BY <1>2, <1>3
  <2>2. gfunc' \in 1..(Len(mod') + 1)
    BY <1>2, <1>3, <1>4
  <2>. QED  BY <1>1, <1>2, <1>3, <2>1, <2>2 DEF EmissionTypeOK
<1>6. PhaseOK' /\ TheoriesFirst' /\ TheoriesExact' /\ LaterAreGoals' /\ OmittedWarned'
  BY <1>2, <1>3 DEF PhaseOK, TheoriesFirst, OwnTheories, TheoriesExact, LaterAreGoals, OmittedWarned
<1>7. GoalsAdded'
  <2>2. (gfunc = 1 /\ ginst = 0)'
    BY <1>2, <1>3
  <2>. QED  BY <1>4, <2>2, NoGoalPassed, PTL
<1>. QED  BY <1>1, <1>5, <1>6, <1>7

LEMMA IInvKept == EmissionInv /\ UNCHANGED annotateVars => IInv' /\ TypeOK'
BY InvStep DEF EmissionInv, IInv

(* The steps that print nothing and pass no goal. *)
LEMMA FileKept ==
  ASSUME EmissionInv, UNCHANGED <<annotateVars, settings, order, file, gfunc, ginst>>
  PROVE  /\ IInv' /\ TypeOK' /\ UNCHANGED annotateVars
         /\ mod' = mod /\ stage' = stage /\ errors' = errors
         /\ combine' = combine /\ noGoals' = noGoals /\ werror' = werror
         /\ order' = order /\ file' = file /\ gfunc' = gfunc /\ ginst' = ginst
         /\ Orders' = Orders /\ Func' = Func /\ TheoryType' = TheoryType
         /\ NullClause' = NullClause
         /\ OwnTheories'
         /\ TheoriesExact'
         /\ LaterAreGoals'
         /\ GoalsAdded'
<1>. USE DEF EmissionInv
<1>1. /\ UNCHANGED annotateVars /\ combine' = combine /\ noGoals' = noGoals /\ werror' = werror
      /\ order' = order /\ file' = file /\ gfunc' = gfunc /\ ginst' = ginst
  BY DEF settings
<1>2. OwnTheories'
  <2>1. Own' = Own /\ \A f, g : Theory(f, g)' = Theory(f, g)
    BY <1>1, Kept DEF Own
  <2>. QED  BY <1>1, <2>1 DEF TheoriesFirst, OwnTheories
<1>3. LaterAreGoals' /\ TheoriesExact'
  BY <1>1, Kept DEF LaterAreGoals, TheoriesExact
<1>4. GoalsAdded'
  <2>1. \A f, g : HasGoal(f, g)' <=> HasGoal(f, g)
    BY <1>1 DEF HasGoal
  <2>2. \A f, i : GoalPassed(f, i)' <=> GoalPassed(f, i)
    BY <1>1 DEF GoalPassed
  <2>. QED  BY <1>1, <2>1, <2>2, Kept DEF GoalsAdded
<1>. QED  BY <1>1, <1>2, <1>3, <1>4, Kept, IInvKept

LEMMA EmissionInvCrash ==
  ASSUME EmissionInv, crashOnNullClause \/ crashOnIndirectCall
  PROVE  EmissionInv'
<1>. USE DEF EmissionInv
<1>1. /\ phase \in {"annotate", "goals"} /\ phase' = "crashed" /\ stage = "annotated"
      /\ UNCHANGED <<annotateVars, settings, order, file, gfunc, ginst>>
      /\ warnings' = warnings /\ exitCode' = exitCode
  BY DEF crashOnNullClause, crashOnIndirectCall, settings, PhaseOK
<1>2. EmissionTypeOK'
  <2>1. gfunc' \in 1..(Len(mod') + 1)
    <3>1. Len(mod) \in Nat /\ Func = 1..Len(mod)
      BY FuncFacts DEF IInv
    <3>. QED  BY <1>1, <3>1 DEF EmissionTypeOK, annotateVars
  <2>. QED  BY <1>1, <2>1, FileKept DEF EmissionTypeOK, settings
<1>3. PhaseOK'
  BY <1>1, FileKept DEF PhaseOK
<1>4. TheoriesFirst' /\ OmittedWarned'
  BY <1>1, FileKept DEF TheoriesFirst, OmittedWarned
<1>. QED  BY <1>1, <1>2, <1>3, <1>4, FileKept

LEMMA EmissionInvMain ==
  ASSUME EmissionInv, main
  PROVE  EmissionInv'
<1>. USE DEF EmissionInv
<1>1. /\ phase = "output" /\ phase' = "exit"
      /\ UNCHANGED <<annotateVars, settings, order, file, gfunc, ginst>>
      /\ warnings' = warnings
      /\ exitCode' = IF errors > 0 \/ (werror /\ warnings # {}) THEN 1 ELSE 0
  BY DEF main, settings
<1>2. EmissionTypeOK'
  BY <1>1, FileKept DEF EmissionTypeOK, settings
<1>3. PhaseOK'
  BY <1>1, FileKept DEF PhaseOK
<1>4. TheoriesFirst'
  BY <1>1, FileKept DEF TheoriesFirst
<1>5. OmittedWarned'
  BY <1>1, FileKept DEF OmittedWarned, OrderSet, Omitted
<1>. QED  BY <1>1, <1>2, <1>3, <1>4, <1>5, FileKept

LEMMA EmissionInvStutter ==
  ASSUME EmissionInv, UNCHANGED emissionVars
  PROVE  EmissionInv'
<1>. USE DEF EmissionInv
<1>1. /\ UNCHANGED <<annotateVars, settings, order, file, gfunc, ginst>>
      /\ warnings' = warnings /\ exitCode' = exitCode /\ phase' = phase
  BY DEF emissionVars, emitVars, settings
<1>2. EmissionTypeOK'
  BY <1>1, FileKept DEF EmissionTypeOK, settings
<1>3. PhaseOK'
  BY <1>1, FileKept DEF PhaseOK
<1>4. TheoriesFirst'
  BY <1>1, FileKept DEF TheoriesFirst
<1>5. OmittedWarned'
  BY <1>1, FileKept DEF OmittedWarned, OrderSet, Omitted
<1>. QED  BY <1>1, <1>2, <1>3, <1>4, <1>5, FileKept

(* The order is settled before anything is printed. *)
LEMMA EmissionInvOrder ==
  ASSUME EmissionInv, getCorrectFunctionOrder
  PROVE  EmissionInv'
<1>. USE DEF EmissionInv
<1>1. /\ phase = "annotate" /\ phase' = "functions" /\ stage = "annotated"
      /\ UNCHANGED annotateVars /\ order' \in Orders
      /\ combine' = combine /\ noGoals' = noGoals /\ werror' = werror
      /\ file' = file /\ warnings' = warnings
      /\ gfunc' = gfunc /\ ginst' = ginst /\ exitCode' = exitCode
      /\ file = <<>> /\ warnings = {} /\ gfunc = 1 /\ ginst = 0 /\ ~NullClause
  BY DEF getCorrectFunctionOrder, settings, PhaseOK
<1>2. /\ IInv' /\ TypeOK' /\ mod' = mod /\ stage' = stage /\ Orders' = Orders /\ Func' = Func
      /\ NullClause' = NullClause
  BY <1>1, IInvKept, Kept
<1>3. /\ mod \in Modules /\ Len(mod) \in Nat /\ Func = 1..Len(mod)
      /\ \A f \in Func : DOMAIN Body(f) \subseteq Nat
  BY FuncFacts DEF IInv
<1>4. order' \in Seq(Func)
  <2>1. (mod \in Modules /\ order \in Orders)'
    BY <1>1, <1>2, <1>3
  <2>2. (order \in Seq(Func))'
    BY <2>1, OrderFacts, PTL
  <2>. QED  BY <1>2, <2>2
<1>5. EmissionTypeOK'
  BY <1>1, <1>2, <1>3, <1>4 DEF EmissionTypeOK, settings
<1>6. PhaseOK'
  BY <1>1, <1>2 DEF PhaseOK
<1>7. TheoriesFirst' /\ TheoriesExact' /\ LaterAreGoals' /\ OmittedWarned'
  BY <1>1, <1>4 DEF TheoriesFirst, OwnTheories, TheoriesExact, LaterAreGoals, OmittedWarned
<1>8. GoalsAdded'
  <2>1. (/\ Func = 1..Len(mod)
         /\ \A f \in Func : DOMAIN Body(f) \subseteq Nat
         /\ gfunc = 1 /\ ginst = 0)'
    BY <1>1, <1>2, <1>3, Kept
  <2>. QED  BY <2>1, NoGoalPassed, PTL
<1>. QED  BY <1>2, <1>5, <1>6, <1>7, <1>8

(* The theory of the next function of the order. *)
LEMMA EmissionInvTheory ==
  ASSUME EmissionInv, addFunction
  PROVE  EmissionInv'
<1>. USE DEF EmissionInv
<1>. DEFINE n == Len(file)
            t == Theory(order[n + 1], Own)
<1>1. /\ phase = "functions" /\ phase' = "functions" /\ n < Len(order)
      /\ UNCHANGED annotateVars /\ order' = order
      /\ combine' = combine /\ noGoals' = noGoals /\ werror' = werror
      /\ gfunc' = gfunc /\ ginst' = ginst /\ exitCode' = exitCode
      /\ addGoal(<<t>>)
  BY DEF addFunction, settings, Own
<1>2. /\ IInv' /\ TypeOK' /\ mod' = mod /\ stage' = stage /\ Func' = Func
      /\ TheoryType' = TheoryType /\ Orders' = Orders /\ NullClause' = NullClause
      /\ \A f, g : Theory(f, g)' = Theory(f, g)
  BY <1>1, IInvKept, Kept
<1>3. /\ mod \in Modules /\ Len(mod) \in Nat /\ Func = 1..Len(mod)
      /\ \A f \in Func : DOMAIN Body(f) \subseteq Nat
  BY FuncFacts DEF IInv
<1>4. n \in Nat /\ Len(order) \in Nat /\ DOMAIN file = 1..n /\ n + 1 \in DOMAIN order
      /\ order \in Seq(Func)
  BY <1>1 DEF EmissionTypeOK
<1>5. t \in TheoryType /\ t = Theory(t.of, t.goal)
  <2>1. Own \in GoalsOf(order[n + 1])
    BY DEF Own, GoalsOf
  <2>2. order[n + 1] \in Func
    BY <1>4
  <2>. QED  BY <2>1, <2>2, TheoryTypes DEF IInv
<1>. HIDE DEF t
<1>6. <<t>> \in Seq(TheoryType) /\ Len(<<t>>) = 1 /\ <<t>>[1] = t
  BY <1>5
<1>7. /\ file' \in Seq(TheoryType) /\ Len(file') = n + 1
      /\ \A k \in 1..n : file'[k] = file[k]
      /\ file'[n + 1] = t
      /\ warnings' \subseteq {"omitted", "indirect"} \X Func
  <2>. DEFINE ts == <<t>>
  <2>1. ts \in Seq(TheoryType) /\ Len(ts) = 1 /\ ts[1] = t /\ addGoal(ts)
    BY <1>1, <1>6
  <2>. HIDE DEF ts
  <2>2. /\ file' \in Seq(TheoryType) /\ Len(file') = Len(file) + Len(ts)
        /\ \A k \in 1..Len(file) : file'[k] = file[k]
        /\ \A k \in 1..Len(ts) : file'[Len(file) + k] = ts[k]
        /\ warnings' \subseteq {"omitted", "indirect"} \X Func
    BY <1>2, <2>1, Printed
  <2>. QED  BY <1>4, <2>1, <2>2
<1>8. EmissionTypeOK'
  BY <1>1, <1>2, <1>7 DEF EmissionTypeOK, settings
<1>9. PhaseOK'
  BY <1>1, <1>2 DEF PhaseOK
<1>10. DOMAIN file' = 1..(n + 1)
  BY <1>4, <1>7
<1>11. OwnTheories'
  <2>1. Own' = Own
    BY <1>1 DEF Own
  <2>2. ASSUME NEW k \in 1..(n + 1)
        PROVE  file'[k] = Theory(order[k], Own)
    <3>1. CASE k \in 1..n
      BY <1>1, <1>4, <1>7, <3>1 DEF TheoriesFirst, OwnTheories
    <3>2. CASE k = n + 1
      BY <1>7, <3>2 DEF t
    <3>. QED  BY <1>4, <3>1, <3>2
  <2>. QED  BY <1>1, <1>2, <1>10, <2>1, <2>2 DEF OwnTheories
<1>12. TheoriesFirst' /\ LaterAreGoals' /\ OmittedWarned'
  BY <1>1, <1>4, <1>7, <1>10, <1>11 DEF TheoriesFirst, LaterAreGoals, OmittedWarned
<1>14. TheoriesExact'
  <2>1. \A k \in 1..(n + 1) : k \in 1..n \/ k = n + 1
    BY <1>4
  <2>2. \A k \in 1..(n + 1) : file'[k] = Theory(file'[k].of, file'[k].goal)
    BY <1>4, <1>5, <1>7, <2>1 DEF TheoriesExact
  <2>. QED  BY <1>2, <1>10, <2>2 DEF TheoriesExact
<1>13. GoalsAdded'
  <2>1. (/\ Func = 1..Len(mod)
         /\ \A f \in Func : DOMAIN Body(f) \subseteq Nat
         /\ gfunc = 1 /\ ginst = 0)'
    BY <1>1, <1>2, <1>3, Kept DEF PhaseOK
  <2>. QED  BY <2>1, NoGoalPassed, PTL
<1>. QED  BY <1>2, <1>8, <1>9, <1>12, <1>13, <1>14

(* Every function left out is warned about. *)
LEMMA EmissionInvOmitted ==
  ASSUME EmissionInv, warnOfOmitted
  PROVE  EmissionInv'
<1>. USE DEF EmissionInv
<1>1. /\ phase = "functions" /\ Len(file) = Len(order)
      /\ phase' = (IF noGoals \/ combine THEN "output" ELSE "goals")
      /\ UNCHANGED <<annotateVars, settings, order, file, gfunc, ginst>>
      /\ warnings' = warnings \cup ({"omitted"} \X (Func \ OrderSet))
      /\ exitCode' = exitCode
  BY DEF warnOfOmitted, settings, OrderSet
<1>2. Len(mod) \in Nat /\ Func = 1..Len(mod) /\ 1 \in Func
  BY FuncFacts, ModTypes DEF IInv, Func
<1>3. EmissionTypeOK'
  <2>1. warnings' \subseteq {"omitted", "indirect"} \X Func
    BY <1>1 DEF EmissionTypeOK
  <2>2. gfunc' = 1
    BY <1>1 DEF PhaseOK
  <2>. QED  BY <1>1, <1>2, <2>1, <2>2, FileKept DEF EmissionTypeOK, settings
<1>4. PhaseOK'
  BY <1>1, FileKept DEF PhaseOK, EmissionTypeOK, settings
<1>5. TheoriesFirst'
  <2>1. order \in Seq(Func)
    BY DEF EmissionTypeOK
  <2>. QED  BY <1>1, <2>1, FileKept DEF TheoriesFirst
<1>6. OmittedWarned'
  <2>1. OrderSet' = OrderSet
    BY <1>1 DEF OrderSet
  <2>2. ASSUME NEW f \in Func, f \notin OrderSet
        PROVE  <<"omitted", f>> \in warnings'
    BY <1>1, <2>2
  <2>3. Func' = Func
    BY <1>1, FileKept
  <2>4. Omitted' = {f \in Func : <<"omitted", f>> \in warnings'}
    BY <2>3 DEF Omitted
  <2>5. \A f \in Func \ OrderSet : f \in Omitted'
    BY <2>2, <2>4
  <2>6. \A f \in (Func \ OrderSet)' : f \in Omitted'
    BY <2>1, <2>3, <2>5
  <2>. QED  BY <2>6 DEF OmittedWarned
<1>. QED  BY <1>1, <1>3, <1>4, <1>5, <1>6, FileKept

(* Printing goals of the kinds that addGoals has. *)
LEMMA GoalsPrinted ==
  ASSUME EmissionInv, phase = "goals",
         UNCHANGED <<annotateVars, settings, phase, order, gfunc, exitCode>>,
         ginst' \in Nat,
         NEW ts \in Seq(TheoryType), addGoal(ts),
         \A k \in 1..Len(ts) :
           ts[k].goal[1] \in GoalKinds /\ ts[k] = Theory(ts[k].of, ts[k].goal)
  PROVE  /\ IInv' /\ EmissionTypeOK' /\ PhaseOK' /\ TheoriesFirst' /\ LaterAreGoals'
         /\ TheoriesExact'
         /\ OmittedWarned'
         /\ \A f, g : HasGoal(f, g) => HasGoal(f, g)'
         /\ \A k \in 1..Len(ts) : HasGoal(ts[k].of, ts[k].goal)'
<1>. USE DEF EmissionInv
<1>1. /\ UNCHANGED annotateVars /\ order' = order /\ phase' = phase
      /\ combine' = combine /\ noGoals' = noGoals /\ werror' = werror
      /\ gfunc' = gfunc /\ exitCode' = exitCode
  BY DEF settings
<1>2. /\ IInv' /\ TypeOK' /\ mod' = mod /\ stage' = stage /\ Func' = Func
      /\ TheoryType' = TheoryType /\ Orders' = Orders /\ NullClause' = NullClause
      /\ \A f, g : Theory(f, g)' = Theory(f, g)
  BY <1>1, IInvKept, Kept
<1>3. /\ Len(file) \in Nat /\ Len(ts) \in Nat /\ Len(order) \in Nat
      /\ DOMAIN file = 1..Len(file) /\ Len(file) >= Len(order)
  BY DEF EmissionTypeOK, TheoriesFirst
<1>4. /\ file' \in Seq(TheoryType) /\ Len(file') = Len(file) + Len(ts)
      /\ \A k \in 1..Len(file) : file'[k] = file[k]
      /\ \A k \in 1..Len(ts) : file'[Len(file) + k] = ts[k]
      /\ \A f, g : HasGoal(f, g) => HasGoal(f, g)'
      /\ \A k \in 1..Len(ts) : HasGoal(ts[k].of, ts[k].goal)'
      /\ warnings \subseteq warnings'
      /\ warnings' \subseteq {"omitted", "indirect"} \X Func
  BY <1>2, Printed
<1>5. EmissionTypeOK'
  BY <1>1, <1>2, <1>4 DEF EmissionTypeOK, settings
<1>6. PhaseOK'
  BY <1>1, <1>2 DEF PhaseOK
<1>7. DOMAIN file' = 1..(Len(file) + Len(ts))
  BY <1>4
<1>8. TheoriesFirst'
  <2>1. Own' = Own
    BY <1>1 DEF Own
  <2>2. OwnTheories'
    BY <1>1, <1>2, <1>3, <1>4, <1>7, <2>1 DEF TheoriesFirst, OwnTheories
  <2>. QED  BY <1>1, <1>3, <1>4, <2>2 DEF TheoriesFirst
<1>9. LaterAreGoals'
  <2>1. ASSUME NEW k \in 1..(Len(file) + Len(ts)), k > Len(order)
        PROVE  file'[k].goal \notin {NoGoal, AnyGoal}
    <3>1. CASE k \in 1..Len(file)
      <4>1. file[k].goal \notin {NoGoal, AnyGoal}
        BY <1>3, <2>1, <3>1 DEF LaterAreGoals
      <4>. QED  BY <1>4, <3>1, <4>1
    <3>2. CASE k \notin 1..Len(file)
      <4>1. PICK j \in 1..Len(ts) : k = Len(file) + j
        <5>1. k - Len(file) \in 1..Len(ts) /\ k = Len(file) + (k - Len(file))
          BY <1>3, <2>1, <3>2
        <5>. QED  BY <5>1
      <4>2. file'[k].goal[1] \in GoalKinds
        BY <1>4, <4>1
      <4>. QED  BY <4>2 DEF GoalKinds, NoGoal, AnyGoal
    <3>. QED  BY <3>1, <3>2
  <2>. QED  BY <1>1, <1>7, <2>1 DEF LaterAreGoals
<1>10. OmittedWarned'
  <2>1. OrderSet' = OrderSet /\ Func' = Func /\ Omitted \subseteq Omitted'
    BY <1>1, <1>2, <1>4 DEF OrderSet, Omitted
  <2>2. phase' = phase
    BY <1>1
  <2>. QED  BY <2>1, <2>2 DEF OmittedWarned
<1>11. TheoriesExact'
  <2>1. ASSUME NEW k \in 1..(Len(file) + Len(ts))
        PROVE  \/ k \in 1..Len(file)
               \/ \E j \in 1..Len(ts) : k = Len(file) + j
    <3>1. CASE k > Len(file)
      <4>1. k - Len(file) \in 1..Len(ts) /\ k = Len(file) + (k - Len(file))
        BY <1>3, <3>1
      <4>. QED  BY <4>1
    <3>. QED  BY <1>3, <3>1
  <2>2. ASSUME NEW k \in 1..(Len(file) + Len(ts))
        PROVE  file'[k] = Theory(file'[k].of, file'[k].goal)
    <3>1. CASE k \in 1..Len(file)
      <4>1. file[k] = Theory(file[k].of, file[k].goal)
        BY <1>3, <3>1 DEF TheoriesExact
      <4>. QED  BY <1>4, <3>1, <4>1
    <3>2. CASE k \notin 1..Len(file)
      <4>1. PICK j \in 1..Len(ts) : k = Len(file) + j
        BY <2>1, <3>2
      <4>2. file'[k] = ts[j] /\ ts[j] = Theory(ts[j].of, ts[j].goal)
        BY <1>4, <4>1
      <4>. QED  BY <4>2
    <3>. QED  BY <3>1, <3>2
  <2>. QED  BY <1>2, <1>7, <2>2 DEF TheoriesExact
<1>. QED  BY <1>2, <1>4, <1>5, <1>6, <1>8, <1>9, <1>10, <1>11

LEMMA EmissionInvEnsures ==
  ASSUME EmissionInv, addEnsuresGoal
  PROVE  EmissionInv'
<1>. USE DEF EmissionInv
<1>1. /\ phase = "goals" /\ gfunc \in Func /\ ginst = 0 /\ ginst' = 1
      /\ UNCHANGED <<annotateVars, settings, phase, order, gfunc, exitCode>>
      /\ addGoal(EnsuresGoal)
  BY DEF addEnsuresGoal, settings
<1>2. PICK at, ts : /\ at = gfunc /\ ts = EnsuresGoal
                    /\ ts \in Seq(TheoryType)
                    /\ \A k \in 1..Len(ts) : /\ ts[k].goal[1] \in GoalKinds
                                            /\ ts[k] = Theory(ts[k].of, ts[k].goal)
                    /\ at \in ensures => \E k \in 1..Len(ts) :
                         ts[k].of = at /\ ts[k].goal = <<"ensures", 0>>
  BY <1>1, EnsuresGoalTypes
<1>3. /\ IInv' /\ EmissionTypeOK' /\ PhaseOK' /\ TheoriesFirst' /\ LaterAreGoals'
      /\ OmittedWarned' /\ TheoriesExact'
      /\ \A f, g : HasGoal(f, g) => HasGoal(f, g)'
      /\ at \in ensures => HasGoal(at, <<"ensures", 0>>)'
  BY <1>1, <1>2, GoalsPrinted
<1>4. GoalsAdded'
  <2>1. /\ Func = 1..Len(mod) /\ Len(mod) \in Nat
        /\ \A f \in Func : \A i \in DOMAIN Body(f) : i \in Nat /\ i >= 1
    BY FuncFacts, ModTypes DEF IInv, Func
  <2>2. \A f \in Func : \A i \in DOMAIN Body(f) : GoalPassed(f, i)' => GoalPassed(f, i)
    BY <1>1, <2>1 DEF GoalPassed
  <2>3. \A f \in Func : GoalPassed(f, 0)' => GoalPassed(f, 0) \/ f = at
    BY <1>1, <1>2 DEF GoalPassed
  <2>. QED  BY <1>1, <1>3, <2>2, <2>3, Kept DEF GoalsAdded
<1>. QED  BY <1>3, <1>4

LEMMA EmissionInvInstruction ==
  ASSUME EmissionInv, addInstructionGoals
  PROVE  EmissionInv'
<1>. USE DEF EmissionInv
<1>1. /\ phase = "goals" /\ gfunc \in Func /\ ginst \in DOMAIN Body(gfunc)
      /\ ginst' = ginst + 1
      /\ UNCHANGED <<annotateVars, settings, phase, order, gfunc, exitCode>>
      /\ addGoal(InstructionGoals)
  BY DEF addInstructionGoals, settings
<1>0. ginst' \in Nat
  BY <1>1 DEF EmissionTypeOK
<1>2. PICK at, n, ts :
               /\ at = gfunc /\ n = ginst /\ ts = InstructionGoals
               /\ ts \in Seq(TheoryType)
               /\ \A k \in 1..Len(ts) : /\ ts[k].goal[1] \in GoalKinds
                                       /\ ts[k] = Theory(ts[k].of, ts[k].goal)
               /\ asserts[at][n] # {} => \E k \in 1..Len(ts) :
                    ts[k].of = at /\ ts[k].goal = <<"assert", n>>
               /\ Body(at)[n].op = "call" /\ Body(at)[n].callee \in requires =>
                    \E k \in 1..Len(ts) : ts[k].of = at /\ ts[k].goal = <<"call", n>>
  BY <1>1, InstructionGoalsTypes
<1>3. /\ IInv' /\ EmissionTypeOK' /\ PhaseOK' /\ TheoriesFirst' /\ LaterAreGoals'
      /\ OmittedWarned' /\ TheoriesExact'
      /\ \A f, g : HasGoal(f, g) => HasGoal(f, g)'
      /\ asserts[at][n] # {} => HasGoal(at, <<"assert", n>>)'
      /\ Body(at)[n].op = "call" /\ Body(at)[n].callee \in requires =>
           HasGoal(at, <<"call", n>>)'
  BY <1>0, <1>1, <1>2, GoalsPrinted
<1>4. GoalsAdded'
  <2>1. /\ Func = 1..Len(mod) /\ Len(mod) \in Nat /\ ginst \in Nat /\ gfunc \in Nat
        /\ \A f \in Func : \A i \in DOMAIN Body(f) : i \in Nat /\ i >= 1
    BY <1>1, FuncFacts, ModTypes DEF IInv, Func, EmissionTypeOK
  <2>2. \A f \in Func : \A i \in DOMAIN Body(f) :
          GoalPassed(f, i)' => GoalPassed(f, i) \/ (f = at /\ i = n)
    BY <1>1, <1>2, <2>1 DEF GoalPassed
  <2>3. \A f \in Func : GoalPassed(f, 0)' => GoalPassed(f, 0)
    BY <1>1, <2>1 DEF GoalPassed
  <2>. QED  BY <1>1, <1>3, <2>2, <2>3, Kept DEF GoalsAdded
<1>. QED  BY <1>3, <1>4

LEMMA EmissionInvNext ==
  ASSUME EmissionInv, NextFunction
  PROVE  EmissionInv'
<1>. USE DEF EmissionInv
<1>1. /\ phase = "goals" /\ gfunc \in Func /\ ginst = Len(Body(gfunc)) + 1
      /\ phase' = (IF gfunc = Len(mod) THEN "output" ELSE "goals")
      /\ gfunc' = gfunc + 1 /\ ginst' = 0
      /\ UNCHANGED annotateVars /\ order' = order /\ file' = file
      /\ combine' = combine /\ noGoals' = noGoals /\ werror' = werror
      /\ warnings' = warnings /\ exitCode' = exitCode
  BY DEF NextFunction, settings
<1>2. /\ IInv' /\ TypeOK' /\ mod' = mod /\ stage' = stage /\ Func' = Func
      /\ TheoryType' = TheoryType /\ Orders' = Orders /\ NullClause' = NullClause
      /\ \A f, g : Theory(f, g)' = Theory(f, g)
  BY <1>1, IInvKept, Kept
<1>3. /\ Len(mod) \in Nat /\ Func = 1..Len(mod) /\ gfunc \in Nat
      /\ \A f \in Func : Len(Body(f)) \in Nat /\ DOMAIN Body(f) = 1..Len(Body(f))
  BY <1>1, FuncFacts, ModTypes DEF IInv, Func
<1>4. EmissionTypeOK'
  <2>1. gfunc' \in (IF phase' = "goals" THEN Func' ELSE 1..(Len(mod') + 1))
    BY <1>1, <1>2, <1>3
  <2>. QED  BY <1>1, <1>2, <2>1 DEF EmissionTypeOK, settings
<1>5. PhaseOK'
  BY <1>1, <1>2 DEF PhaseOK
<1>6. TheoriesFirst'
  <2>1. Own' = Own
    BY <1>1 DEF Own
  <2>2. OwnTheories'
    BY <1>1, <1>2, <2>1 DEF TheoriesFirst, OwnTheories
  <2>. QED  BY <1>1, <2>2 DEF TheoriesFirst
<1>7. LaterAreGoals' /\ OmittedWarned' /\ TheoriesExact'
  BY <1>1, <1>2 DEF LaterAreGoals, OmittedWarned, OrderSet, Omitted, TheoriesExact
<1>8. GoalsAdded'
  <2>1. \A f, g : HasGoal(f, g)' <=> HasGoal(f, g)
    BY <1>1 DEF HasGoal
  <2>2. \A f \in Func : GoalPassed(f, 0)' => GoalPassed(f, 0)
    BY <1>1, <1>3 DEF GoalPassed
  <2>3. \A f \in Func : \A i \in DOMAIN Body(f) : GoalPassed(f, i)' => GoalPassed(f, i)
    BY <1>1, <1>3 DEF GoalPassed
  <2>. QED  BY <1>1, <2>1, <2>2, <2>3, Kept DEF GoalsAdded
<1>. QED  BY <1>2, <1>4, <1>5, <1>6, <1>7, <1>8

LEMMA EmissionInvStep == EmissionInv /\ [EmissionNext]_emissionVars => EmissionInv'
BY EmissionInvAnnotating, EmissionInvCrash, EmissionInvOrder, EmissionInvTheory,
   EmissionInvOmitted, EmissionInvEnsures, EmissionInvInstruction, EmissionInvNext,
   EmissionInvMain, EmissionInvStutter DEF EmissionNext

(* At every step from the metadata to the exit code, the file has the      *)
(* theories and goals of the part of the module that has been passed.      *)
THEOREM EmissionInvariance == EmissionSpec => []EmissionInv
BY EmissionInvInit, EmissionInvStep, PTL DEF EmissionSpec

(* Everything from the order to the exit code keeps its type.              *)
THEOREM EmissionTypeCorrect == EmissionSpec => []EmissionTypeOK
<1>1. EmissionInv => EmissionTypeOK
  BY DEF EmissionInv
<1>. QED  BY <1>1, EmissionInvariance, PTL
-----------------------------------------------------------------------------
(* Why3 finds every theory that is cloned further up in the file: always   *)
(* for the theories of functions, and for the goals wherever nothing is    *)
(* recursive.                                                              *)
THEOREM AlwaysWellScoped == EmissionSpec => []WellScoped
<1>1. EmissionInv => WellScoped
  <2>. SUFFICES ASSUME EmissionInv, NEW k \in DOMAIN file,
                       file[k].goal \in {NoGoal, AnyGoal} \/ Hopeless = {},
                       NEW c \in file[k].clones
                PROVE  \E j \in 1..(k - 1) :
                         file[j].of = c /\ file[j].goal \in {NoGoal, AnyGoal}
    BY DEF WellScoped, Scoped
  <2>1. /\ mod \in Modules /\ file \in Seq(TheoryType) /\ order \in Seq(Func)
        /\ order \in Orders
    BY DEF EmissionInv, EmissionTypeOK, TypeOK, PhaseOK
  <2>2. /\ Len(file) \in Nat /\ DOMAIN file = 1..Len(file)
        /\ Len(order) \in Nat /\ DOMAIN order = 1..Len(order)
    BY <2>1
  <2>3. \A j \in DOMAIN file : j <= Len(order) =>
          /\ file[j].of = order[j] /\ file[j].goal \in {NoGoal, AnyGoal}
          /\ file[j].clones = Callees(order[j])
    BY DEF EmissionInv, TheoriesFirst, OwnTheories, Theory, Own
  <2>4. PICK j \in DOMAIN order : order[j] = c /\ j < k
    <3>1. CASE k <= Len(order)
      <4>1. c \in Callees(order[k]) /\ k \in DOMAIN order
        BY <2>2, <2>3, <3>1
      <4>2. c \in {order[j] : j \in 1..(k - 1)}
        BY <2>1, <4>1, OrderFacts DEF Topological
      <4>3. PICK j \in 1..(k - 1) : order[j] = c
        BY <4>2
      <4>4. j \in DOMAIN order /\ j < k
        BY <2>2, <3>1
      <4>. QED  BY <4>3, <4>4
    <3>2. CASE k > Len(order)
      <4>1. Hopeless = {}
        BY <3>2 DEF EmissionInv, LaterAreGoals
      <4>2. OrderSet = Func
        BY <2>1, <4>1, OrderFacts
      <4>3. c \in Func
        <5>1. \A t \in TheoryType : t.clones \subseteq Func
          BY DEF TheoryType
        <5>2. file[k] \in TheoryType
          BY <2>1
        <5>. QED  BY <5>1, <5>2
      <4>. QED  BY <2>2, <3>2, <4>2, <4>3 DEF OrderSet
    <3>. QED  BY <2>2, <3>1, <3>2
  <2>5. j \in 1..(k - 1) /\ j \in DOMAIN file /\ j <= Len(order)
    BY <2>2, <2>4
  <2>. QED  BY <2>3, <2>4, <2>5
<1>. QED  BY <1>1, EmissionInvariance, PTL

(* Exit code 0 means that a goal of the file proves each obligation of the *)
(* module, but for what -G gives up: there were no errors, so every clause *)
(* is in force; every function is in the order or was warned about; the    *)
(* combined goal of a function has its ensures clause and all its assert   *)
(* clauses; and without -G addGoals has been everywhere.                   *)
LEMMA Demanded ==
  ASSUME EmissionInv, phase = "exit", exitCode = 0,
         NEW f \in Func, NEW i \in DOMAIN Body(f), NEW k \in Demands(f, i), k # "call"
  PROVE  <<k, i>> \in Asserted(f, i)
<1>1. /\ IInv /\ mod \in Modules /\ stage = "annotated" /\ errors \in Nat /\ f \in DOMAIN mod
  BY DEF EmissionInv, EmissionTypeOK, TypeOK, PhaseOK, Func
<1>2. errors = 0
  BY <1>1 DEF EmissionInv, PhaseOK
<1>3. InForce
  BY <1>1, <1>2, NoErrorsInForce
<1>4. \A c \in asserts[f][i] : <<c.kind, i>> \in Asserted(f, i)
  BY DEF Asserted
<1>5. CASE k = "user"
  <2>1. Conjunct("user") \in asserts[f][i]
    BY <1>1, <1>3, <1>5 DEF Demands, InForce
  <2>. QED  BY <1>4, <1>5, <2>1 DEF Conjunct
<1>6. CASE k = "rte"
  <2>1. RteAdded(f) /\ Body(f)[i].risky
    BY <1>1, <1>6 DEF RteAdded, Demands
  <2>2. Conjunct("rte") \in asserts[f][i]
    BY <1>1, <2>1 DEF IInv, ChecksAdded
  <2>. QED  BY <1>4, <1>6, <2>2 DEF Conjunct
<1>7. CASE k = "store"
  <2>1. AssignsAdded(f, i) /\ Body(f)[i].op = "store"
    BY <1>1, <1>7 DEF AssignsAdded, Last, Demands
  <2>2. StoreConjunct(f) \in asserts[f][i]
    BY <1>1, <2>1 DEF IInv, ChecksAdded, EmissionInv, PhaseOK, NullClause, Func
  <2>. QED  BY <1>4, <1>7, <2>2 DEF StoreConjunct
<1>8. CASE k = "false"
  <2>1. /\ AssignsAdded(f, i) /\ Body(f)[i].op = "call"
        /\ Body(f)[i].callee < f /\ ~mod[Body(f)[i].callee].hasAssigns
    BY <1>1, <1>8 DEF AssignsAdded, Last, Demands
  <2>2. Conjunct("false") \in asserts[f][i]
    BY <1>1, <2>1 DEF IInv, ChecksAdded
  <2>. QED  BY <1>4, <1>8, <2>2 DEF Conjunct
<1>. QED  BY <1>5, <1>6, <1>7, <1>8 DEF Demands

THEOREM ZeroAlwaysMeansNothingLost == EmissionSpec => []ZeroMeansNothingLost
<1>1. EmissionInv => ZeroMeansNothingLost
  <2>. SUFFICES ASSUME EmissionInv, phase = "exit", exitCode = 0, ~noGoals,
                       NEW f \in Func, NEW ob \in Obligations(f)
                PROVE  Proved(f, ob) \/ GivenUp(f, ob)
    BY DEF ZeroMeansNothingLost
  <2>1. /\ IInv /\ mod \in Modules /\ stage = "annotated" /\ errors \in Nat
        /\ order \in Seq(Func) /\ file \in Seq(TheoryType) /\ Len(file) >= Len(order)
    BY DEF EmissionInv, EmissionTypeOK, TypeOK, PhaseOK, TheoriesFirst
  <2>2. errors = 0 /\ ~(werror /\ warnings # {})
    BY <2>1 DEF EmissionInv, PhaseOK
  <2>3. InForce /\ Func = DOMAIN mod
    BY <2>1, <2>2, NoErrorsInForce DEF Func
  <2>4. \/ mod[f].ensures # "none" /\ ob = <<"ensures", 0>>
        \/ \E i \in DOMAIN Body(f) : \E k \in Demands(f, i) : ob = <<k, i>>
    <3>1. \/ mod[f].ensures # "none" /\ ob = <<"ensures", 0>>
          \/ \E i \in DOMAIN Body(f) : ob \in Demands(f, i) \X {i}
      BY DEF Obligations
    <3>. QED  BY <3>1
  <2>5. CASE combine
    <3>1. CASE f \in OrderSet
      <4>1. PICK k \in DOMAIN order : order[k] = f
        BY <3>1 DEF OrderSet
      <4>2. k \in DOMAIN file /\ k <= Len(order)
        BY <2>1
      <4>3. file[k] = Theory(f, AnyGoal)
        BY <2>5, <4>1, <4>2 DEF EmissionInv, TheoriesFirst, OwnTheories, Own
      <4>4. /\ file[k].of = f
            /\ file[k].proves = Ensured(f) \cup UNION {Asserted(f, i) : i \in DOMAIN Body(f)}
        BY <4>3 DEF Theory, Proves, AnyGoal, NoGoal
      <4>5. CASE mod[f].ensures # "none" /\ ob = <<"ensures", 0>>
        BY <2>3, <4>2, <4>4, <4>5 DEF InForce, Ensured, Proved
      <4>6. ASSUME NEW i \in DOMAIN Body(f), NEW d \in Demands(f, i), ob = <<d, i>>
            PROVE  Proved(f, ob) \/ GivenUp(f, ob)
        <5>1. CASE d = "call"
          BY <2>5, <4>6, <5>1 DEF GivenUp
        <5>2. CASE d # "call"
          <6>1. ob \in Asserted(f, i)
            BY <4>6, <5>2, Demanded
          <6>. QED  BY <4>2, <4>4, <6>1 DEF Proved
        <5>. QED  BY <5>1, <5>2
      <4>. QED  BY <2>4, <4>5, <4>6
    <3>2. CASE f \notin OrderSet
      <4>1. f \in Omitted
        BY <3>2 DEF EmissionInv, OmittedWarned
      <4>2. warnings # {}
        BY <4>1 DEF Omitted
      <4>. QED  BY <2>2, <2>5, <4>1, <4>2 DEF GivenUp
    <3>. QED  BY <3>1, <3>2
  <2>6. CASE ~combine
    <3>1. \A i : GoalPassed(f, i)
      <4>1. gfunc = Len(mod) + 1
        BY <2>6 DEF EmissionInv, PhaseOK
      <4>2. Len(mod) \in Nat /\ Func = 1..Len(mod)
        BY FuncFacts DEF EmissionInv, IInv
      <4>. QED  BY <4>1, <4>2 DEF GoalPassed
    <3>2. \A g : HasGoal(f, g) => \E k \in DOMAIN file :
            file[k].of = f /\ file[k].proves = Proves(f, g)
      <4>1. \A k \in DOMAIN file : file[k].proves = Proves(file[k].of, file[k].goal)
        BY DEF EmissionInv, TheoriesExact, Theory
      <4>. QED  BY <4>1 DEF HasGoal
    <3>3. CASE mod[f].ensures # "none" /\ ob = <<"ensures", 0>>
      <4>1. HasGoal(f, <<"ensures", 0>>)
        BY <2>3, <3>1, <3>3 DEF EmissionInv, GoalsAdded, InForce
      <4>2. Proves(f, <<"ensures", 0>>) = {<<"ensures", 0>>}
        BY DEF Proves, AnyGoal, NoGoal
      <4>. QED  BY <3>2, <3>3, <4>1, <4>2 DEF Proved
    <3>4. ASSUME NEW i \in DOMAIN Body(f), NEW d \in Demands(f, i), ob = <<d, i>>
          PROVE  Proved(f, ob)
      <4>1. CASE d = "call"
        <5>1. Body(f)[i].op = "call" /\ mod[Body(f)[i].callee].requires # "none"
          BY <4>1 DEF Demands
        <5>2. Body(f)[i].callee \in DOMAIN mod
          BY <2>1, <2>3, <5>1, ModulesAssumption DEF Body
        <5>3. Body(f)[i].callee \in requires
          BY <2>3, <5>1, <5>2 DEF InForce
        <5>4. HasGoal(f, <<"call", i>>)
          BY <3>1, <5>1, <5>3 DEF EmissionInv, GoalsAdded
        <5>5. Proves(f, <<"call", i>>) = {<<"call", i>>}
          BY DEF Proves, AnyGoal, NoGoal
        <5>. QED  BY <3>2, <3>4, <4>1, <5>4, <5>5 DEF Proved
      <4>2. CASE d # "call"
        <5>1. ob \in Asserted(f, i)
          BY <3>4, <4>2, Demanded
        <5>2. asserts[f][i] # {}
          BY <5>1 DEF Asserted
        <5>3. HasGoal(f, <<"assert", i>>)
          BY <3>1, <5>2 DEF EmissionInv, GoalsAdded
        <5>4. Proves(f, <<"assert", i>>) = Asserted(f, i)
          BY DEF Proves, AnyGoal, NoGoal
        <5>. QED  BY <3>2, <5>1, <5>3, <5>4 DEF Proved
      <4>. QED  BY <4>1, <4>2
    <3>. QED  BY <2>4, <3>3, <3>4
  <2>. QED  BY <2>5, <2>6
<1>. QED  BY <1>1, EmissionInvariance, PTL
=============================================================================
