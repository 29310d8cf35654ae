------------------------------ MODULE Annotate ------------------------------
(***************************************************************************)
(* How a module gets its clauses: AnnotatedModule::annotate and the        *)
(* annotate methods under it (src/module.cpp, function.cpp,                *)
(* instruction.cpp), then addRTE (src/rte.cpp).                            *)
(*                                                                         *)
(* Functions are taken in the order of the file.  For each one the         *)
(* metadata of the function is read, then that of its instructions; if it  *)
(* has an assigns clause, addAssignsAssertions then adds to the asserts of *)
(* its stores and calls; and only then does the function enter the list    *)
(* that AnnotatedModule::getFunction searches.  A clause with an error is  *)
(* recorded in settings->errors and the rest goes on without it.           *)
(*                                                                         *)
(* An assigns clause is a sequence of sets of locations.  An assert clause *)
(* is the set of its conjuncts, {} when there is none; a conjunct that     *)
(* annotate makes up says what it compares.                                *)
(***************************************************************************)
EXTENDS Naturals, Sequences, FiniteSets

CONSTANTS Loc,       (* memory locations                                   *)
          AllocatedAfter,
                     (* those that the memory model counts as allocated    *)
                     (* after the function was entered                     *)
          Modules    (* the modules considered                             *)

Bad == "bad"         (* a clause that does not parse                        *)
BadSet == {Bad}
Clauses == {"none", "good", Bad}

InstructionType ==
  [ op : {"store", "call", "icall", "plain"},
    addr : Loc,                 \* where a store writes
    callee : Nat,               \* the index of a called function
    assert : Clauses,
    assume : Clauses,
    label : Clauses,
    risky : BOOLEAN ]           \* addRTE has a check for it

(* A function's metadata, and the instructions of its body.  Each part of  *)
(* assigns is a set of locations, or BadSet if it does not parse.          *)
FunctionType ==
  [ requires : Clauses,
    ensures : Clauses,
    hasAssigns : BOOLEAN,
    assigns : Seq((SUBSET Loc) \cup {BadSet}),
    body : Seq(InstructionType) ]

ASSUME ModulesAssumption ==
  /\ AllocatedAfter \subseteq Loc /\ Bad \notin Loc
  /\ Modules \subseteq Seq(FunctionType) \ {<<>>}
  /\ \A m \in Modules : \A f \in DOMAIN m :
       /\ ~m[f].hasAssigns => m[f].assigns = <<>>
       /\ \A i \in DOMAIN m[f].body :
            m[f].body[i].op = "call" => m[f].body[i].callee \in DOMAIN m

VARIABLES mod,       (* the LLVM module                                    *)
          rte,       (* settings->rte                                      *)
          stage,     (* what is being annotated, or "annotated"            *)
          func,      (* the function                                       *)
          inst,      (* the instruction                                    *)
          listed,    (* functions 1..listed are in AnnotatedModule's list  *)
          requires,  (* the functions whose requires clause is set         *)
          ensures,   (* ... and whose ensures clause is set                *)
          assigns,   (* the assigns lists                                  *)
          asserts,   (* the conjuncts of every instruction's assert clause *)
          assumes,   (* the instructions whose assume clause is set        *)
          labels,    (* ... and whose label is set                         *)
          errors     (* how many errors have been recorded                 *)

clauses == <<requires, ensures, assigns, asserts, assumes, labels>>
annotateVars == <<mod, rte, stage, func, inst, listed, clauses, errors>>

Body(f) == mod[f].body
UnionOf(seq) == UNION {seq[k] : k \in DOMAIN seq}
Good(seq) == IF \E k \in DOMAIN seq : seq[k] = BadSet
             THEN SubSeq(seq, 1, (CHOOSE k \in DOMAIN seq :
                    seq[k] = BadSet /\ \A j \in 1..(k - 1) : seq[j] # BadSet) - 1)
             ELSE seq
Errs(c) == IF c = Bad THEN 1 ELSE 0

Init ==
  /\ mod \in Modules
  /\ rte \in BOOLEAN
  /\ stage = "function"
  /\ func = 1 /\ inst = 1 /\ listed = 0
  /\ requires = {} /\ ensures = {} /\ assumes = {} /\ labels = {}
  /\ assigns = [f \in DOMAIN mod |-> <<>>]
  /\ asserts = [f \in DOMAIN mod |-> [i \in DOMAIN mod[f].body |-> {}]]
  /\ errors = 0
-----------------------------------------------------------------------------
(* AnnotatedFunction::annotate: the function's metadata nodes.  Each has a *)
(* try block of its own; the assigns list keeps the sets before the error. *)
AnnotateFunction ==
  LET F == mod[func]
      good == Good(F.assigns)
  IN /\ stage = "function"
     /\ requires' = IF F.requires = "good" THEN requires \cup {func} ELSE requires
     /\ ensures' = IF F.ensures = "good" THEN ensures \cup {func} ELSE ensures
     /\ assigns' = [assigns EXCEPT ![func] = good]
     /\ errors' = errors + Errs(F.requires) + Errs(F.ensures)
                         + (IF good = F.assigns THEN 0 ELSE 1)
     /\ stage' = "instructions"
     /\ inst' = 1
     /\ UNCHANGED <<mod, rte, func, listed, asserts, assumes, labels>>

Conjunct(k) == [kind |-> k, own |-> {}, other |-> {}]

FaultyAnnotateInstructionStops ==
  /\ stage = "instructions" /\ inst \in DOMAIN Body(func)
  /\ LET I == Body(func)[inst]
     IN /\ asserts' = IF I.assert = "good"
                      THEN [asserts EXCEPT ![func][inst] = @ \cup {Conjunct("user")}]
                      ELSE asserts
        /\ assumes' = IF I.assume = "good"
                      THEN assumes \cup {<<func, inst>>} ELSE assumes
        /\ labels' = IF I.label = "good"
                     THEN labels \cup {<<func, inst>>} ELSE labels
        /\ errors' = errors + (IF Bad \in {I.assert, I.assume, I.label} THEN 1 ELSE 0)
  /\ inst' = inst + 1
  /\ UNCHANGED <<mod, rte, stage, func, listed, requires, ensures, assigns>>

(* AnnotatedInstruction::annotate. *)
AnnotateInstruction ==
  /\ stage = "instructions" /\ inst \in DOMAIN Body(func)
  /\ LET I == Body(func)[inst]
     IN /\ asserts' = IF I.assert = "good"
                      THEN [asserts EXCEPT ![func][inst] = @ \cup {Conjunct("user")}]
                      ELSE asserts
        /\ assumes' = IF I.assume = "good"
                      THEN assumes \cup {<<func, inst>>} ELSE assumes
        /\ labels' = IF I.label = "good"
                     THEN labels \cup {<<func, inst>>} ELSE labels
        /\ errors' = errors + Errs(I.assert) + Errs(I.assume) + Errs(I.label)
  /\ inst' = inst + 1
  /\ UNCHANGED <<mod, rte, stage, func, listed, requires, ensures, assigns>>

InstructionsDone ==
  /\ stage = "instructions" /\ inst = Len(Body(func)) + 1
  /\ stage' = IF mod[func].hasAssigns THEN "assigns" ELSE "list"
  /\ inst' = 1
  /\ UNCHANGED <<mod, rte, func, listed, clauses, errors>>
-----------------------------------------------------------------------------
(* addAssignsAssertions *)

(* A store may write to what is in one of the sets or was allocated after  *)
(* the entry.  With no sets the `or' gets a null pointer for its right     *)
(* side.                                                                   *)
StoreCheck ==
  IF assigns[func] = <<>> THEN {Conjunct("null")}
  ELSE {[kind |-> "store", own |-> UnionOf(assigns[func]), other |-> {}]}

(* What is asserted at a call of a function that has an assigns clause:    *)
(* for each set of the caller, each of its elements is in some set of the  *)
(* callee.  If the callee has no sets the implication gets a null pointer; *)
(* if the caller has none there is no conjunct, which is a null pointer    *)
(* too wherever it is joined to an assert clause.                          *)
CoverCheck(c) ==
  CASE assigns[func] = <<>> ->
         IF asserts[func][inst] = {} THEN {} ELSE {Conjunct("null")}
    [] assigns[func] # <<>> /\ assigns[c] = <<>> -> {Conjunct("null")}
    [] OTHER -> {[kind |-> "cover", own |-> UnionOf(assigns[func]),
                  other |-> UnionOf(assigns[c])]}

FaultyCallCheckForgetsUnannotated ==
  LET c == Body(func)[inst].callee
  IN IF c > listed \/ ~mod[c].hasAssigns THEN {} ELSE CoverCheck(c)

(* getFunction returns NULL for a function that is not listed yet. *)
CallCheck ==
  LET c == Body(func)[inst].callee
  IN IF c > listed THEN {}
     ELSE IF mod[c].hasAssigns THEN CoverCheck(c)
     ELSE {Conjunct("false")}

FaultyAddAssignsAssertionReplaces ==
  /\ stage = "assigns" /\ inst \in DOMAIN Body(func)
  /\ LET new == CASE Body(func)[inst].op = "store" -> StoreCheck
                  [] Body(func)[inst].op = "call" -> CallCheck
                  [] OTHER -> {}
     IN asserts' = IF new = {} THEN asserts
                   ELSE [asserts EXCEPT ![func][inst] = new]
  /\ inst' = inst + 1
  /\ UNCHANGED <<mod, rte, stage, func, listed, requires, ensures, assigns,
                 assumes, labels, errors>>

addAssignsAssertion ==
  /\ stage = "assigns" /\ inst \in DOMAIN Body(func)
  /\ LET new == CASE Body(func)[inst].op = "store" -> StoreCheck
                  [] Body(func)[inst].op = "call" -> CallCheck
                  [] OTHER -> {}
     IN asserts' = [asserts EXCEPT ![func][inst] = @ \cup new]
  /\ inst' = inst + 1
  /\ UNCHANGED <<mod, rte, stage, func, listed, requires, ensures, assigns,
                 assumes, labels, errors>>

AssignsDone ==
  /\ stage = "assigns" /\ inst = Len(Body(func)) + 1
  /\ stage' = "list"
  /\ UNCHANGED <<mod, rte, func, inst, listed, clauses, errors>>

FaultyListFunctionRunsOn ==
  /\ stage = "list"
  /\ listed' = func
  /\ func' = func + 1
  /\ stage' = IF func < Len(mod) THEN "function"
              ELSE IF rte THEN "rte" ELSE "annotated"
  /\ UNCHANGED <<mod, rte, inst, clauses, errors>>

(* functions.push_back(f), and on to the next function. *)
ListFunction ==
  /\ stage = "list"
  /\ listed' = func
  /\ func' = IF func < Len(mod) THEN func + 1 ELSE 1
  /\ stage' = IF func < Len(mod) THEN "function"
              ELSE IF rte THEN "rte" ELSE "annotated"
  /\ UNCHANGED <<mod, rte, inst, clauses, errors>>

(* addRTE, for all the instructions of a function. *)
addRTE ==
  /\ stage = "rte"
  /\ asserts' = [asserts EXCEPT ![func] = [i \in DOMAIN Body(func) |->
                   IF Body(func)[i].risky THEN @[i] \cup {Conjunct("rte")} ELSE @[i]]]
  /\ func' = IF func < Len(mod) THEN func + 1 ELSE 1
  /\ stage' = IF func < Len(mod) THEN "rte" ELSE "annotated"
  /\ UNCHANGED <<mod, rte, inst, listed, requires, ensures, assigns, assumes, labels, errors>>

Next == \/ AnnotateFunction \/ AnnotateInstruction \/ InstructionsDone
        \/ addAssignsAssertion \/ AssignsDone \/ ListFunction \/ addRTE

Spec == Init /\ [][Next]_annotateVars
-----------------------------------------------------------------------------
ConjunctType ==
  [ kind : {"user", "store", "cover", "false", "null", "rte"},
    own : SUBSET Loc, other : SUBSET Loc ]

Instructions == UNION {{f} \X DOMAIN Body(f) : f \in DOMAIN mod}

TypeOK ==
  /\ mod \in Modules /\ rte \in BOOLEAN
  /\ stage \in {"function", "instructions", "assigns", "list", "rte", "annotated"}
  /\ func \in DOMAIN mod
  /\ inst \in 1..(Len(Body(func)) + 1) \/ stage \notin {"instructions", "assigns"}
  /\ listed \in 0..Len(mod)
  /\ requires \subseteq DOMAIN mod /\ ensures \subseteq DOMAIN mod
  /\ assigns \in [DOMAIN mod -> Seq(SUBSET Loc)]
  /\ DOMAIN asserts = DOMAIN mod
  /\ \A f \in DOMAIN mod : asserts[f] \in [DOMAIN Body(f) -> SUBSET ConjunctType]
  /\ assumes \subseteq Instructions /\ labels \subseteq Instructions
  /\ errors \in Nat

(* What the conjuncts say, taking every user's clause and RTE check as     *)
(* true.  The null pointer says nothing: whoever prints it crashes, so no  *)
(* assert clause that has one is ever proved.                              *)
Holds(f, i, c) ==
  CASE c.kind = "store" -> Body(f)[i].addr \in c.own \cup AllocatedAfter
    [] c.kind = "cover" -> c.own \subseteq c.other
    [] c.kind \in {"false", "null"} -> FALSE
    [] OTHER -> TRUE

AllChecksHold ==
  \A f \in DOMAIN mod : \A i \in DOMAIN Body(f) : \A c \in asserts[f][i] : Holds(f, i, c)

Frame(f) == UnionOf(mod[f].assigns)

(* What one run of f may write: the least sets closed under the calls.     *)
ClosedUnderCalls(W) ==
  \A f \in DOMAIN mod : \A i \in DOMAIN Body(f) :
    /\ Body(f)[i].op = "store" => Body(f)[i].addr \in W[f]
    /\ Body(f)[i].op = "call" => W[Body(f)[i].callee] \subseteq W[f]
Writes(f) ==
  {l \in Loc : \A W \in [DOMAIN mod -> SUBSET Loc] : ClosedUnderCalls(W) => l \in W[f]}

(* The functions that a call of f may run, f itself among them.            *)
RunBy(f) ==
  {g \in DOMAIN mod : \A S \in SUBSET DOMAIN mod :
     /\ f \in S
     /\ \A h \in S : \A i \in DOMAIN Body(h) :
          Body(h)[i].op = "call" => Body(h)[i].callee \in S
     => g \in S}

(* What the checks cannot see: a call through a pointer, and a call of a   *)
(* function further down that has no assigns clause (CallCheck).           *)
CallsSeen ==
  \A f \in DOMAIN mod : mod[f].hasAssigns => \A i \in DOMAIN Body(f) :
    LET I == Body(f)[i]
    IN /\ I.op # "icall"
       /\ I.op = "call" /\ ~mod[I.callee].hasAssigns => I.callee < f

(* If every generated assert holds, a run of a function that has an        *)
(* assigns clause writes only what the memory model counts as allocated    *)
(* since, and what is in the assigns clause of some function that it runs: *)
(* through any depth of calls, up and down the file and recursive ones, no *)
(* write goes undeclared.  That the frames of its callees are within its   *)
(* own is not implied, as the check compares them the wrong way round.     *)
WritesDeclared ==
  stage = "annotated" /\ errors = 0 /\ CallsSeen /\ AllChecksHold =>
    \A f \in DOMAIN mod : mod[f].hasAssigns =>
      Writes(f) \subseteq AllocatedAfter \cup UNION {Frame(g) : g \in RunBy(f)}

(* No generated check pushes out an assert clause the user wrote: not the  *)
(* assigns checks, and not addRTE after them.                              *)
UserAssertsKept ==
  stage = "annotated" => \A f \in DOMAIN mod : \A i \in DOMAIN Body(f) :
    Body(f)[i].assert = "good" => Conjunct("user") \in asserts[f][i]

(* Errors do not hide each other: there is one for every metadata node     *)
(* that does not parse, and without errors every clause is in force.       *)
BadNodes ==
  {n \in (DOMAIN mod) \X {"requires", "ensures", "assigns"} :
     LET F == mod[n[1]]
     IN \/ n[2] = "requires" /\ F.requires = Bad
        \/ n[2] = "ensures" /\ F.ensures = Bad
        \/ n[2] = "assigns" /\ \E k \in DOMAIN F.assigns : F.assigns[k] = BadSet}
BadInstructionNodes ==
  {n \in Instructions \X {"assert", "assume", "label"} :
     LET I == Body(n[1][1])[n[1][2]]
     IN \/ n[2] = "assert" /\ I.assert = Bad
        \/ n[2] = "assume" /\ I.assume = Bad
        \/ n[2] = "label" /\ I.label = Bad}

InForce ==
  \A f \in DOMAIN mod :
    /\ f \in requires <=> mod[f].requires # "none"
    /\ f \in ensures <=> mod[f].ensures # "none"
    /\ assigns[f] = mod[f].assigns
    /\ \A i \in DOMAIN Body(f) :
         /\ Body(f)[i].assert # "none" <=> Conjunct("user") \in asserts[f][i]
         /\ Body(f)[i].assume # "none" <=> <<f, i>> \in assumes
         /\ Body(f)[i].label # "none" <=> <<f, i>> \in labels

ErrorsExact ==
  stage = "annotated" =>
    /\ errors = Cardinality(BadNodes) + Cardinality(BadInstructionNodes)
    /\ errors = 0 => InForce
=============================================================================
