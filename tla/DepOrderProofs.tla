--------------------------- MODULE DepOrderProofs ---------------------------
(***************************************************************************)
(* The ordering worklist is correct for every set of nodes, every          *)
(* dependency graph and every order in which the hash table is walked.     *)
(*                                                                         *)
(* The inductive invariant is IInv.  Beyond the properties themselves it   *)
(* needs Swept (while nothing has moved in this pass, the nodes already    *)
(* visited are all still waiting) and Kept (a hopeless node never leaves   *)
(* notSeen).                                                               *)
(***************************************************************************)
EXTENDS DepOrder, TLAPS

Swept == ~changed => \A n \in notSeen \ pass : ~AllSeen(n)
Kept == Hopeless \subseteq notSeen
AtReturn == done => pass = {} /\ ~changed

IInv == /\ TypeOK
        /\ Partition
        /\ Topological
        /\ Swept
        /\ Kept
        /\ AtReturn
-----------------------------------------------------------------------------
(* The list after an Emit: the old one with one node behind it. *)
LEMMA EmitList ==
  ASSUME TypeOK, NEW n \in Node, Emit(n)
  PROVE  /\ out' \in Seq(Node)
         /\ Len(out') = Len(out) + 1
         /\ DOMAIN out' = 1..(Len(out) + 1)
         /\ DOMAIN out = 1..Len(out)
         /\ \A i \in 1..Len(out) : out'[i] = out[i]
         /\ out'[Len(out) + 1] = n
         /\ Emitted' = Emitted \cup {n}
<1>1. out' = Append(out, n) /\ out \in Seq(Node) /\ Len(out) \in Nat
  BY DEF Emit, TypeOK
<1>2. /\ out' \in Seq(Node)
      /\ Len(out') = Len(out) + 1
      /\ DOMAIN out' = 1..(Len(out) + 1)
      /\ DOMAIN out = 1..Len(out)
      /\ \A i \in 1..Len(out) : out'[i] = out[i]
      /\ out'[Len(out) + 1] = n
  BY <1>1
<1>3. Emitted' = Emitted \cup {n}
  BY <1>1, <1>2 DEF Emitted
<1>. QED  BY <1>2, <1>3

LEMMA TypeInit == Init => TypeOK
<1>1. <<>> \in Seq(Node)
  OBVIOUS
<1>. QED  BY <1>1 DEF Init, TypeOK

LEMMA TypeStep == TypeOK /\ [Next]_vars => TypeOK'
<1>. SUFFICES ASSUME TypeOK, [Next]_vars
              PROVE  TypeOK'
  OBVIOUS
<1>1. ASSUME NEW n \in Node, Emit(n)
      PROVE  TypeOK'
  <2>1. out' \in Seq(Node)
    BY <1>1, EmitList
  <2>. QED  BY <1>1, <2>1 DEF TypeOK, Emit
<1>2. ASSUME NEW n \in Node, Skip(n)
      PROVE  TypeOK'
  BY <1>2 DEF TypeOK, Skip
<1>3. CASE NextPass
  BY <1>3 DEF TypeOK, NextPass
<1>4. CASE Return
  BY <1>4 DEF TypeOK, Return
<1>5. CASE UNCHANGED vars
  BY <1>5 DEF TypeOK, vars
<1>. QED  BY <1>1, <1>2, <1>3, <1>4, <1>5 DEF Next, Visit

(* The type invariant of the worklist. *)
THEOREM TypeCorrect == Spec => []TypeOK
BY TypeInit, TypeStep, PTL DEF Spec
-----------------------------------------------------------------------------
LEMMA InvInit == Init => IInv
<1>. SUFFICES ASSUME Init
              PROVE  IInv
  OBVIOUS
<1>1. TypeOK
  BY TypeInit
<1>2. out = <<>> /\ DOMAIN out = {}
  BY DEF Init
<1>3. Partition /\ Topological
  BY <1>2 DEF Init, Partition, Topological, Emitted
<1>4. Swept /\ Kept /\ AtReturn
  BY DEF Init, Swept, Kept, AtReturn, Hopeless
<1>. QED  BY <1>1, <1>3, <1>4 DEF IInv

(* Moving a node to the list disturbs every part of the invariant. *)
LEMMA InvEmit ==
  ASSUME IInv, NEW n \in Node, Emit(n)
  PROVE  IInv'
<1>. USE DEF IInv
<1>1. TypeOK'
  BY TypeStep DEF Next, Visit
<1>2. /\ n \in notSeen /\ n \notin Emitted
      /\ deps[n] \subseteq Emitted
      /\ deps' = deps /\ notSeen' = notSeen \ {n}
  BY DEF Emit, TypeOK, Partition, AllSeen
<1>3. Partition'
  <2>1. Emitted' = Node \ notSeen'
    BY <1>2, EmitList DEF Partition, TypeOK
  <2>2. ASSUME NEW i \in DOMAIN out', NEW j \in DOMAIN out', out'[i] = out'[j]
        PROVE  i = j
    <3>1. \A k \in 1..Len(out) : out'[k] # n
      BY <1>2, EmitList DEF Emitted
    <3>2. /\ i \in 1..Len(out) \/ i = Len(out) + 1
          /\ j \in 1..Len(out) \/ j = Len(out) + 1
      BY EmitList DEF TypeOK
    <3>. QED  BY <2>2, <3>1, <3>2, EmitList DEF Partition
  <2>. QED  BY <2>1, <2>2 DEF Partition
<1>4. Topological'
  <2>1. ASSUME NEW i \in DOMAIN out'
        PROVE  deps'[out'[i]] \subseteq {out'[j] : j \in 1..(i - 1)}
    <3>1. CASE i \in 1..Len(out)
      <4>1. deps[out[i]] \subseteq {out[j] : j \in 1..(i - 1)}
        BY <3>1, EmitList DEF Topological
      <4>2. \A j \in 1..(i - 1) : out'[j] = out[j]
        BY <3>1, EmitList DEF TypeOK
      <4>3. out'[i] = out[i]
        BY <3>1, EmitList
      <4>4. {out'[j] : j \in 1..(i - 1)} = {out[j] : j \in 1..(i - 1)}
        BY <4>2
      <4>. QED  BY <1>2, <4>1, <4>3, <4>4
    <3>2. CASE i = Len(out) + 1
      <4>1. Emitted = {out'[j] : j \in 1..(i - 1)}
        BY <3>2, EmitList DEF Emitted, TypeOK
      <4>. QED  BY <1>2, <3>2, <4>1, EmitList
    <3>. QED  BY <3>1, <3>2, EmitList DEF TypeOK
  <2>. QED  BY <2>1 DEF Topological
<1>5. Swept' /\ AtReturn'
  BY DEF Emit, Swept, AtReturn, TypeOK
<1>6. Kept'
  <2>1. ASSUME NEW S \in SUBSET Node, Knotted(S)
        PROVE  n \notin S
    <3>1. S \subseteq notSeen
      BY <2>1 DEF Kept, Hopeless
    <3>. QED  BY <1>2, <2>1, <3>1 DEF Knotted, Emit, AllSeen
  <2>2. n \notin Hopeless
    BY <2>1 DEF Hopeless
  <2>3. Hopeless' = Hopeless
    BY <1>2 DEF Hopeless, Knotted
  <2>. QED  BY <1>2, <2>2, <2>3 DEF Kept
<1>. QED  BY <1>1, <1>3, <1>4, <1>5, <1>6

(* The other steps leave the list and notSeen alone. *)
LEMMA InvOther ==
  ASSUME IInv,
         \/ \E n \in Node : Skip(n)
         \/ NextPass
         \/ Return
         \/ UNCHANGED vars
  PROVE  IInv'
<1>. USE DEF IInv
<1>1. TypeOK'
  BY TypeStep DEF Next, Visit
<1>2. deps' = deps /\ notSeen' = notSeen /\ out' = out
  BY DEF Skip, NextPass, Return, vars
<1>3. Partition' /\ Topological'
  BY <1>2 DEF Partition, Topological, Emitted
<1>4. Kept'
  BY <1>2 DEF Kept, Hopeless, Knotted
<1>5. Swept'
  <2>1. ASSUME NEW n \in Node, Skip(n)
        PROVE  Swept'
    BY <1>2, <2>1 DEF Skip, Swept, AllSeen
  <2>2. CASE NextPass
    BY <1>2, <2>2 DEF NextPass, Swept
  <2>3. CASE Return \/ UNCHANGED vars
    BY <1>2, <2>3 DEF Return, vars, Swept, AllSeen
  <2>. QED  BY <2>1, <2>2, <2>3
<1>6. AtReturn'
  BY DEF AtReturn, Skip, NextPass, Return, vars
<1>. QED  BY <1>1, <1>3, <1>4, <1>5, <1>6

LEMMA InvStep == IInv /\ [Next]_vars => IInv'
BY InvEmit, InvOther DEF Next, Visit

LEMMA InvHolds == Spec => []IInv
BY InvInit, InvStep, PTL DEF Spec

(* Theories are printed once each and after the theories they name. *)
THEOREM OrderCorrect == Spec => [](Topological /\ Partition)
<1>1. IInv => Topological /\ Partition
  BY DEF IInv
<1>. QED  BY <1>1, InvHolds, PTL

(* A theory is left out exactly when it reaches a dependency cycle: the    *)
(* result does not depend on the order of the hash table.                  *)
THEOREM OmissionExact == Spec => []OmitsOnlyHopeless
<1>1. IInv => OmitsOnlyHopeless
  <2>. SUFFICES ASSUME IInv, done
                PROVE  notSeen = Hopeless
    BY DEF OmitsOnlyHopeless
  <2>1. Knotted(notSeen)
    BY DEF IInv, AtReturn, Swept, AllSeen, Knotted
  <2>2. notSeen \subseteq Hopeless
    BY <2>1 DEF IInv, TypeOK, Hopeless
  <2>. QED  BY <2>2 DEF IInv, Kept
<1>. QED  BY <1>1, InvHolds, PTL

(* The worklist implements the abstract ordering: an Emit places a node    *)
(* the specification allows, and it returns only when none is left.        *)
THEOREM Implements == Spec => ImplementsTopo
<1>. USE DEF Topo!Placed, Emitted
<1>1. Init => Topo!Init
  BY DEF Init, Topo!Init
<1>2. IInv /\ [Next]_vars => [Topo!Next]_(Topo!topoVars)
  <2>. SUFFICES ASSUME IInv, [Next]_vars
                PROVE  [Topo!Next]_(Topo!topoVars)
    OBVIOUS
  <2>. USE DEF IInv
  <2>1. ASSUME NEW n \in Node, Emit(n)
        PROVE  Topo!Place(n)
    BY <2>1 DEF Emit, AllSeen, TypeOK, Partition, AtReturn, Topo!Place, Topo!Placeable
  <2>2. CASE Return
    <3>1. \A n \in Node : ~Topo!Placeable(n)
      BY <2>2 DEF Return, Swept, AllSeen, TypeOK, Partition, Topo!Placeable
    <3>. QED  BY <2>2, <3>1 DEF Return, Topo!Next, Topo!Finish
  <2>3. ASSUME NEW n \in Node, Skip(n)
        PROVE  UNCHANGED Topo!topoVars
    BY <2>3 DEF Skip, Topo!topoVars
  <2>4. CASE NextPass \/ UNCHANGED vars
    BY <2>4 DEF NextPass, vars, Topo!topoVars
  <2>. QED  BY <2>1, <2>2, <2>3, <2>4 DEF Next, Visit, Topo!Next
<1>. QED  BY <1>1, <1>2, InvHolds, PTL DEF Spec, ImplementsTopo, Topo!Spec
=============================================================================
